------------------------- MODULE InterleavedRounds -------------------------
(***************************************************************************)
(* The loop of TieredOMap::interleaved_access and the data ORAM in it.     *)
(* Every iteration is one exchange with the server: a batch of path reads, *)
(* then a batch of path writes.  The two OMAPs take part until they are    *)
(* done; when the searcher has its reference, the data block is read in    *)
(* the next round and written back in the same one, and so are a dummy     *)
(* path (full-oblivious mode) and the block of a piggybacked scan.  Each   *)
(* of the three data paths is read and evicted by itself.                  *)
(*                                                                         *)
(* Of the OMAPs only the rounds matter here in which a reference becomes   *)
(* known: the caller's choice from MainRounds (the searcher is done, or    *)
(* pauses for a decision) and from ScanRounds.  The stash is a vector and  *)
(* may hold a block twice: copies differ in the field n.                   *)
(***************************************************************************)
EXTENDS Integers, FiniteSets

CONSTANTS Keys,         \* data block ids
          Values, NoVal, NoWrite, NoNode,
          NoBlock,      \* INVALID_BLOCK: the reference of an absent key
          Level, Z, StashMax,
          FullObliv,    \* fo: SecurityMode::FullOblivious
          MainRounds,   \* the rounds in which the searcher's reference may be known
          ScanRounds,   \* the same for the scan; {} if no scan is piggybacked
          OmapRounds    \* rounds until both OMAPs are done

VARIABLES tree, stash, posMap, failure,   \* the data ORAM, as in PathORAM
          round,   \* rounds of this access, at most OmapRounds + 1; 0 = no access under way
          plan,    \* the access: block, new value, scanned block and their rounds
          main, dd, scan,  \* the DStep, block and leaves of the three data paths
          got,     \* AccessResult::value
          mem      \* history: what every block should hold

vars == <<tree, stash, posMap, failure, round, plan, main, dd, scan, got, mem>>

P == INSTANCE PathORAM WITH InitKeys <- Keys, PairRounds <- TRUE, held <- {},
                            owned <- Keys, result <- NoVal
Leaves == P!Leaves
NoLeaf == P!NoLeaf

ASSUME RoundsAssumption ==
    /\ MainRounds \subseteq 1..OmapRounds /\ MainRounds # {}
    /\ ScanRounds \subseteq 1..OmapRounds
    /\ OmapRounds \in Nat /\ FullObliv \in BOOLEAN /\ NoBlock \notin Keys
    /\ NoWrite \notin Values /\ NoNode \notin P!Nodes

DSteps == {"IDLE", "NEED_READ", "NEED_WRITE", "DONE"}
Step(st) == [st |-> st, blk |-> NoBlock, leaf |-> NoLeaf, new |-> NoLeaf]
NoPlan == [blk |-> NoBlock, w |-> NoWrite, at |-> 0, scanBlk |-> NoBlock, scanAt |-> 0]

Copies(S, b) == {c \in S : c.key = b.key /\ c.leaf = b.leaf /\ c.val = b.val}

(* stash_.push_back: one more copy. *)
Push(S, b) ==
    S \cup {[b EXCEPT !.n = CHOOSE i \in 0..Cardinality(Copies(S, b)) :
                               \A c \in Copies(S, b) : c.n # i]}

(* apply_fetched_path: the stash with the path's blocks pushed, the copies *)
(* of a block numbered anew.                                               *)
ApplyFetchedPath(S, leaf) ==
    LET read == UNION {tree[m] : m \in P!Path(leaf)}
        count(b) == Cardinality(Copies(S, b)) +
                    Cardinality({mc \in P!Path(leaf) \X Copies(read, b) :
                                   mc[2] \in tree[mc[1]]})
    IN  UNION {{[b EXCEPT !.n = i] : i \in 0 .. count(b) - 1} : b \in S \cup read}

(* Mutant: the extracted copy stays in the stash. *)
Rewritten_Copies(S, blk, new, w) ==
    {Push(S, [key |-> blk, leaf |-> new, n |-> 0, val |-> IF w = NoWrite THEN b.val ELSE w]) :
       b \in {c \in S : c.key = blk}}

(* extract_from_stash and add_to_stash under the new leaf. *)
Rewritten(S, blk, new, w) ==
    {Push(S \ {b}, [key |-> blk, leaf |-> new, n |-> 0,
                    val |-> IF w = NoWrite THEN b.val ELSE w]) :
       b \in {c \in S : c.key = blk}}

(* prepare_eviction of one path, and its place in the batch of writes. *)
PrepareEviction(c, leaf) ==
    {[stash |-> P!Bucket(p, NoNode),
      bad |-> c.bad \/ Cardinality(P!Bucket(p, NoNode)) > StashMax,
      tree |-> [n \in P!Nodes |-> IF n \in P!Path(leaf) THEN P!Bucket(p, n) ELSE c.tree[n]]]
     : p \in P!Placements(c.stash, {leaf})}

Evicted(x, cs) ==
    IF x.st = "NEED_READ" THEN UNION {PrepareEviction(c, x.leaf) : c \in cs} ELSE cs

(* The batch of writes: one path after the other. *)
EvictAll(S) ==
    Evicted(scan, Evicted(dd, Evicted(main,
        {[stash |-> S, bad |-> FALSE, tree |-> tree]})))

-----------------------------------------------------------------------------
Idle == round = 0

Init ==
    \E pos \in [Keys -> Leaves], v \in Values :
        LET blocks == {[key |-> k, leaf |-> pos[k], val |-> v, n |-> 0] : k \in Keys}
        IN  \E p \in P!Placements(blocks, Leaves) :
              /\ tree = [n \in P!Nodes |-> P!Bucket(p, n)]
              /\ stash = P!Bucket(p, NoNode)
              /\ posMap = pos /\ failure = "none"
              /\ round = 0 /\ plan = NoPlan /\ got = NoVal
              /\ main = Step("DONE") /\ dd = Step("DONE") /\ scan = Step("DONE")
              /\ mem = [k \in Keys |-> v]

(* interleaved_access up to its loop; the loop's first iteration begins. *)
Begin(blk, w, at, s, scanAt) ==
    /\ Idle /\ failure = "none"
    /\ s = NoBlock <=> scanAt = 0
    /\ s = blk /\ s # NoBlock => scanAt < at   \* one OMAP: the scan's key is found first
    /\ round' = 1
    /\ plan' = [blk |-> blk, w |-> w, at |-> at, scanBlk |-> s, scanAt |-> scanAt]
    /\ main' = Step("IDLE")
    /\ dd' = Step(IF FullObliv THEN "IDLE" ELSE "DONE")
    /\ scan' = Step(IF s = NoBlock THEN "DONE" ELSE "IDLE")
    /\ got' = NoVal
    /\ mem' = IF blk = NoBlock \/ w = NoWrite THEN mem ELSE [mem EXCEPT ![blk] = w]
    /\ UNCHANGED <<tree, stash, posMap, failure>>

(* Mutant: the block is remapped before its leaf is looked up. *)
Trigger_SetFirst(pos, x, blk, new) ==
    [pos |-> IF blk = NoBlock THEN pos ELSE [pos EXCEPT ![blk] = new],
     x |-> [st |-> "NEED_READ", blk |-> blk, leaf |-> new, new |-> new]]

(* get_leaf, random_leaf and set_leaf when a reference becomes known: the  *)
(* block is remapped now and read in the next round.                       *)
Trigger(pos, x, blk, new) ==
    [pos |-> IF blk = NoBlock THEN pos ELSE [pos EXCEPT ![blk] = new],
     x |-> [st |-> "NEED_READ", blk |-> blk,
            leaf |-> IF blk = NoBlock THEN new ELSE pos[blk], new |-> new]]

Fetched(x, S) == IF x.st = "NEED_READ" THEN ApplyFetchedPath(S, x.leaf) ELSE S
Processed(x, S, w) ==
    IF x.st = "NEED_READ" /\ x.blk # NoBlock THEN Rewritten(S, x.blk, x.new, w) ELSE {S}

(* The state of a path after the processing of a round: NEED_WRITE.  The   *)
(* write is part of the same round.                                        *)
Written(x) == IF x.st = "NEED_READ" THEN [x EXCEPT !.st = "DONE"] ELSE x

(* Mutant: the dummy path waits for the scan as well. *)
DummyNext_AfterScan(leaf) ==
    IF dd.st = "IDLE" /\ main.st = "NEED_READ" /\ scan.st = "NEED_READ"
    THEN [dd EXCEPT !.st = "NEED_READ", !.leaf = leaf] ELSE Written(dd)

(* The dummy path follows the main one. *)
DummyNext(leaf) ==
    IF dd.st = "IDLE" /\ main.st = "NEED_READ"
    THEN [dd EXCEPT !.st = "NEED_READ", !.leaf = leaf] ELSE Written(dd)

MainNext(new) == IF round = plan.at THEN Trigger(posMap, main, plan.blk, new)
                 ELSE [pos |-> posMap, x |-> Written(main)]
ScanNext(pos, new) == IF round = plan.scanAt THEN Trigger(pos, scan, plan.scanBlk, new)
                      ELSE [pos |-> pos, x |-> Written(scan)]

Done == round > OmapRounds /\ \A x \in {main, dd, scan} : x.st = "DONE"

(* Mutant: a write is answered with the payload before it. *)
Answer_Old(S) ==
    LET b == {c \in S : c.key = main.blk}
    IN  IF main.st # "NEED_READ" \/ b = {} THEN got ELSE (CHOOSE c \in b : TRUE).val

(* AccessResult::value after the round; S is the stash with the paths read. *)
Answer(S) ==
    LET b == {c \in S : c.key = main.blk}
    IN  IF main.st # "NEED_READ" \/ b = {} THEN got
        ELSE IF plan.w # NoWrite THEN plan.w ELSE (CHOOSE c \in b : TRUE).val

(* One iteration of the loop. *)
Round ==
    LET S == Fetched(scan, Fetched(dd, Fetched(main, stash))) IN
    /\ ~Idle /\ ~Done /\ failure = "none"
    /\ \E leaf, newMain, newScan \in Leaves :
         /\ round # plan.at => newMain = 0
         /\ round # plan.scanAt => newScan = 0
         /\ DummyNext(leaf).st # "NEED_READ" \/ dd.st # "IDLE" => leaf = 0
         /\ posMap' = ScanNext(MainNext(newMain).pos, newScan).pos
         /\ main' = MainNext(newMain).x
         /\ scan' = ScanNext(MainNext(newMain).pos, newScan).x
         /\ dd' = DummyNext(leaf)
    /\ LET after == UNION {Processed(scan, A, NoWrite) : A \in Processed(main, S, plan.w)}
       IN  IF after = {}
           THEN failure' = "missing" /\ UNCHANGED <<stash, tree>>
           ELSE \E A \in after :
                \E c \in EvictAll(A) :
                  /\ stash' = c.stash /\ tree' = c.tree
                  /\ failure' = IF c.bad THEN "overflow" ELSE "none"
    /\ got' = Answer(S)
    /\ round' = IF round > OmapRounds THEN round ELSE round + 1
    /\ UNCHANGED <<plan, mem>>

End ==
    /\ ~Idle /\ Done /\ failure = "none"
    /\ round' = 0
    /\ UNCHANGED <<tree, stash, posMap, failure, plan, main, dd, scan, got, mem>>

Next ==
    \/ \E blk \in Keys \cup {NoBlock}, w \in Values \cup {NoWrite}, at \in MainRounds,
          s \in Keys \cup {NoBlock}, scanAt \in ScanRounds \cup {0} :
            Begin(blk, w, at, s, scanAt)
    \/ Round
    \/ End

(* The loop runs in the client's thread, which is never blocked for good   *)
(* (NetworkStorage models the exchange itself).                            *)
Spec == Init /\ [][Next]_vars /\ WF_vars(Round) /\ WF_vars(End)

-----------------------------------------------------------------------------
(* Properties.                                                             *)
AllCopies == stash \cup UNION {tree[n] : n \in P!Nodes}

(* Between two accesses every data block exists exactly once, in the stash *)
(* or on the path that the position map names for it, with the payload it  *)
(* was last given: reading and evicting several paths of one tree in one   *)
(* batch neither loses nor doubles a block.                                *)
DataIntact ==
    Idle /\ failure = "none" =>
        /\ \A n \in P!Nodes : \A b \in tree[n] : n \in P!Path(b.leaf)
        /\ \A k \in Keys :
             /\ \E b \in AllCopies : b.key = k /\ b.leaf = posMap[k] /\ b.val = mem[k]
             /\ \A b, c \in AllCopies : b.key = k /\ c.key = k => b = c
        /\ \A b \in AllCopies : Cardinality({n \in P!Nodes : b \in tree[n]})
                                + (IF b \in stash THEN 1 ELSE 0) = 1

(* extract_from_stash finds the block (path_oram.cpp:273 throws if not):   *)
(* the path it was remapped from before it was read still holds it,        *)
(* although other paths were evicted in between.                           *)
DataFound == failure # "missing"

(* A finished access has the payload of its block. *)
DataAnswered ==
    Idle /\ failure = "none" /\ plan.blk # NoBlock => got = mem[plan.blk]

(* The loop ends: every data path it waits for is triggered, in whatever   *)
(* round the references become known.                                      *)
LoopEnds == []<>(Idle \/ failure # "none")
=============================================================================
