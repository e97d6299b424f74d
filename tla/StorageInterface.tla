-------------------------- MODULE StorageInterface --------------------------
(***************************************************************************)
(* What the ORAMs rely on: a set of stores, called one call at a time.  A  *)
(* call takes effect once, at some moment between its invocation and its   *)
(* return, and returns what that effect computed; or it throws.  It throws *)
(* without an effect on a store that does not exist, except that a batch   *)
(* of writes has then done the writes before the bad one.  When the        *)
(* service goes down all stores are gone and every later call throws.      *)
(* Where the stores live and how they are named does not show.             *)
(***************************************************************************)
EXTENDS BinaryTreeStorage

CONSTANTS Handles,     \* the caller's store objects
          LocalStore,  \* an object that is not on the server
          LoadSeqs,    \* block sequences that a set-up may load
          NoTree, NoCall, Void, Threw

VARIABLES objs,    \* object -> its tree, or NoTree
          up,      \* the service can be reached
          phase,   \* where the current call is
          ret      \* what the last call returned

siVars == <<objs, up, phase, ret>>

Idle           == [at |-> "idle"]
Called(c)      == [at |-> "called", call |-> c]
Answered(c, r) == [at |-> "answered", call |-> c, answer |-> r]
Lost(c)        == [at |-> "lost", call |-> c]

Tree(h) == IF h \in Handles THEN objs[h] ELSE NoTree

Geometry(t) == <<t.level, LeafRange(t.level)>>

Fits(b, t) == b.leaf < LeafRange(t.level)
Loads(t) == {bs \in LoadSeqs : \A i \in DOMAIN bs : Fits(bs[i], t)}

First(S) == CHOOSE i \in S : \A j \in S : i <= j
Last(S)  == CHOOSE i \in S : \A j \in S : i >= j

(* The state in which the writes 1 .. n of a batch have been done: each    *)
(* node holds what the last of them put there.                             *)
AfterWrites(c, n) ==
    [h \in Handles |->
        IF \A i \in 1 .. n : c.hs[i] # h THEN objs[h] ELSE
        [objs[h] EXCEPT !.nodes =
            [x \in DOMAIN @ |->
                LET w == {i \in 1 .. n : c.hs[i] = h /\ x \in DOMAIN c.arg[i]}
                IN  IF w = {} THEN @[x] ELSE c.arg[Last(w)][x]]]]

(* The effect of call c on its one object, if that exists. *)
OnTree(c, t, r) ==
    /\ Tree(c.hs[1]) # NoTree
    /\ objs' = [objs EXCEPT ![c.hs[1]] = t]
    /\ phase' = Answered(c, r)

(* All stores are replaced by the new ones, some blocks loaded into each. *)
Built(c, ls) ==
    [h \in Handles |->
        IF \A i \in DOMAIN c.hs : c.hs[i] # h THEN NoTree
        ELSE LET i == CHOOSE j \in DOMAIN c.hs : c.hs[j] = h
             IN  Load(NewTree(c.arg[i]), ls[i])]
SetUp(c) ==
    /\ \E ls \in [DOMAIN c.hs -> LoadSeqs] :
          /\ \A i \in DOMAIN c.hs : ls[i] \in Loads(NewTree(c.arg[i]))
          /\ objs' = Built(c, ls)
    /\ phase' = Answered(c, [i \in DOMAIN c.hs |->
           Append(Geometry(NewTree(c.arg[i])), c.arg[i].bucket_size)])

Effect(c) ==
    LET t == Tree(c.hs[1])
        bad == {i \in DOMAIN c.hs : Tree(c.hs[i]) = NoTree}
        Raise == phase' = Answered(c, Threw)
    IN  \/ /\ c.op = "CREATE"
           /\ objs' = [objs EXCEPT ![c.hs[1]] = NewTree(c.arg)]
           /\ phase' = Answered(c, <<Geometry(NewTree(c.arg))>>)
        \/ c.op = "SETUP_BENCH" /\ SetUp(c)
        \/ c.op = "RESET" /\ OnTree(c, NewTree(c.arg), Geometry(NewTree(c.arg)))
        \/ c.op = "FILL_DATA" /\ OnTree(c, Fill(t, c.arg), Void)
        \/ c.op = "BULK_LOAD" /\ OnTree(c, Load(t, c.arg), Placed(Load(t, c.arg)))
        \/ /\ c.op = "READ_PATH"
           /\ OnTree(c, t, ReadNodes(t, PathNodes(t.level, c.arg)))
        \/ /\ c.op = "READ_MULTI"
           /\ OnTree(c, t, ReadNodes(t, MergedNodes(t.level, {c.arg[i] : i \in DOMAIN c.arg})))
        \/ c.op \in {"WRITE_PATH", "WRITE_MULTI"} /\ OnTree(c, WriteNodes(t, c.arg), Void)
        \/ /\ c.op = "BATCH_READ" /\ bad = {} /\ UNCHANGED objs
           /\ phase' = Answered(c, [i \in DOMAIN c.hs |->
                  ReadNodes(Tree(c.hs[i]), PathNodes(Tree(c.hs[i]).level, c.arg[i]))])
        \/ /\ c.op = "BATCH_WRITE"
           /\ objs' = AfterWrites(c, IF bad = {} THEN Len(c.hs) ELSE First(bad) - 1)
           /\ IF bad = {} THEN phase' = Answered(c, Void) ELSE Raise
        \/ /\ c.op = "DESTROY"
           /\ objs' = [objs EXCEPT ![c.hs[1]] = NoTree]
           /\ phase' = Answered(c, Void)
        \/ /\ c.op \notin {"CREATE", "SETUP_BENCH", "BATCH_WRITE", "DESTROY"}
           /\ bad # {} /\ UNCHANGED objs /\ Raise

Invoke ==
    /\ phase.at = "idle" /\ phase'.at # "idle"
    /\ phase' = IF up THEN Called(phase'.call) ELSE Lost(phase'.call)
    /\ ret' = Void
    /\ UNCHANGED <<objs, up>>

Execute ==
    /\ up /\ phase.at = "called" /\ Effect(phase.call)
    /\ UNCHANGED <<up, ret>>

Return ==
    /\ phase.at = "answered" /\ phase' = Idle /\ ret' = phase.answer
    /\ UNCHANGED <<objs, up>>

(* The service is gone: the current call, executed or not, may be lost. *)
GoDown ==
    /\ up /\ up' = FALSE
    /\ objs' = [h \in Handles |-> NoTree]
    /\ \/ phase.at # "called" /\ phase' = phase
       \/ phase.at # "idle" /\ phase' = Lost(phase.call)
    /\ ret' = ret

Throw ==
    /\ phase.at = "lost" /\ phase' = Idle
    /\ ret' = Threw
    /\ UNCHANGED <<objs, up>>

SIInit ==
    /\ objs = [h \in Handles |-> NoTree] /\ up = TRUE
    /\ phase = Idle /\ ret = Void

SINext == Invoke \/ Execute \/ Return \/ GoDown \/ Throw

SISpec == SIInit /\ [][SINext]_siVars
=============================================================================
