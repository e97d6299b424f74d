------------------------------ MODULE AVLSteps ------------------------------
(***************************************************************************)
(* AVLOmap's round-by-round interface (avl_omap.cpp, "Step-by-step         *)
(* interface" and "Piggyback step interface"), which the interleaved       *)
(* access drives: begin a search or a dummy, perhaps a second, piggybacked *)
(* operation on the same tree, then one round after another until both are *)
(* done.  A round is one action: step_next_round, the batched read,        *)
(* step_apply_reads, step_process and step_prepare_writes run in the one   *)
(* client thread.  Between rounds local_ and both state machines persist.  *)
(***************************************************************************)
EXTENDS AVLOmap

VARIABLES local,     \* local_
          ss, pb,    \* StepState, PBState
          reads,     \* paths read from each ORAM in this access: the server's view
          rounds,    \* rounds of this access
          accesses,  \* accesses begun
          kv,        \* what the stepped accesses so far should have stored
          want       \* what the operations under way should return

stepVars == <<local, ss, pb, reads, rounds, accesses, kv, want>>
vars == <<callVars, stepVars>>

(* The caller's accesses: main operations ("search", "dummy", "partial"),  *)
(* piggybacked ones ("search", "insert", "dummy"), and a bound on their    *)
(* number.                                                                 *)
MainOps     == Object.use.main
PbOps       == Object.use.pbs
MaxAccesses == Object.use.max

Idle == [phase |-> "DONE", key |-> NoKey, arg |-> NoUpdate, cur |-> [key |-> NoKey, leaf |-> NoLeaf],
         depth |-> 0, ops |-> 0, budget |-> 0, pad |-> 0, step |-> 0, boundary |-> 0,
         result |-> NoValue, active |-> FALSE, insert |-> FALSE, traversed |-> FALSE]

NoWant == [main |-> NoValue, pb |-> {NoValue}]

Machine == [up |-> upper_oram, lo |-> oram, root |-> root, local |-> local,
            bad |-> FALSE, ops |-> NoOps]

StepDone == ss.phase = "DONE" /\ (pb.active => pb.phase = "DONE")

(***************************************************************************)
(* Beginning an access.                                                    *)
(***************************************************************************)
(* Mutant: all padding reads the upper ORAM. *)
Boundary_All(budget) == budget

Boundary(budget) == IF Split = 0 THEN budget ELSE IF Split < budget THEN Split ELSE budget
Traversing(s) == [s EXCEPT !.phase = "TRAVERSE", !.cur = [key |-> root.key, leaf |-> root.leaf]]
Padding(s) == [s EXCEPT !.phase = "PAD", !.pad = s.budget, !.boundary = Boundary(s.budget)]

(* local_.clear(), pb_ = {}, ss_ = {}: what an earlier access left in      *)
(* local_ is dropped.                                                      *)
BeginStep(s) ==
    /\ ~broken /\ StepDone /\ accesses < MaxAccesses
    /\ accesses' = accesses + 1
    /\ local' = <<>> /\ pb' = Idle /\ ss' = s
    /\ reads' = NoOps /\ rounds' = 0
    /\ UNCHANGED <<upper_oram, oram, root, broken>>

BeginStepSearch(k, u) ==
    /\ "search" \in MainOps
    /\ LET s == [Idle EXCEPT !.key = k, !.arg = u, !.budget = Budget, !.active = TRUE]
       IN  BeginStep(IF root.key = NoKey THEN Padding(s) ELSE Traversing(s))
    /\ kv' = IF u = NoUpdate \/ kv[k] = NoValue THEN kv ELSE [kv EXCEPT ![k] = u]
    /\ want' = [main |-> kv[k], pb |-> {NoValue}]

BeginStepDummy ==
    /\ "dummy" \in MainOps
    /\ BeginStep(Padding([Idle EXCEPT !.budget = Budget]))
    /\ kv' = kv /\ want' = NoWant

(* The upper levels and one lower path; with one ORAM a full dummy. *)
BeginStepPartialDummy ==
    /\ "partial" \in MainOps
    /\ BeginStep(IF Split = 0 THEN Padding([Idle EXCEPT !.budget = Budget])
                 ELSE [Padding([Idle EXCEPT !.budget = Split + 1]) EXCEPT !.boundary = Split])
    /\ kv' = kv /\ want' = NoWant

(* The caller begins the piggyback before the first round. *)
BeginPiggyback(s) ==
    /\ ~broken /\ accesses > 0 /\ rounds = 0 /\ ~pb.active /\ ss.phase # "DONE"
    /\ pb' = s
    /\ UNCHANGED <<ss, upper_oram, oram, broken, reads, rounds, accesses>>

Piggy == [Idle EXCEPT !.active = TRUE, !.budget = Budget]

BeginPiggybackSearch(k) ==
    /\ "search" \in PbOps
    /\ LET s == [Piggy EXCEPT !.key = k]
       IN  BeginPiggyback(IF root.key = NoKey THEN [Padding(s) EXCEPT !.traversed = TRUE]
                          ELSE Traversing(s))
    \* the scan may meet the main search's key before or after its update
    /\ want' = [want EXCEPT !.pb = {kv[k]} \cup IF k = ss.key THEN {want.main} ELSE {}]
    /\ UNCHANGED <<local, root, kv>>

(* Into an empty tree the new node goes into local_ at once. *)
BeginPiggybackInsert(k, v, leaf) ==
    /\ "insert" \in PbOps
    /\ LET s == [Piggy EXCEPT !.key = k, !.arg = v, !.insert = TRUE]
       IN  IF root.key = NoKey
           THEN /\ BeginPiggyback([Padding(s) EXCEPT !.traversed = TRUE])
                /\ local' = Append(local, [key |-> k, leaf |-> leaf, avl |-> NodeData(v),
                                           par |-> NoKey, depth |-> 0])
                /\ root' = [key |-> k, leaf |-> leaf]
           ELSE /\ BeginPiggyback(Traversing(s))
                /\ UNCHANGED <<local, root>>
    /\ kv' = [kv EXCEPT ![k] = v] /\ want' = want

BeginPiggybackDummy ==
    /\ "dummy" \in PbOps
    /\ BeginPiggyback([Padding(Piggy) EXCEPT !.traversed = TRUE])
    /\ UNCHANGED <<local, root, kv, want>>

(***************************************************************************)
(* A round.                                                                *)
(***************************************************************************)
SsRead == ss.phase # "DONE"
PbRead == pb.active /\ pb.phase # "DONE"
NodeInLocal == pb.phase = "TRAVERSE" /\ InLocal(local, pb.cur.key)   \* pb_.node_in_local

(* step_next_round: the ORAM an operation reads in this round. *)
RoundOram(s) == IF s.phase = "TRAVERSE" THEN OramForDepth(s.depth)
                ELSE IF Split > 0 /\ s.step < s.boundary THEN "up" ELSE "lo"

(* The leaves whose blocks step_apply_reads puts into a stash; a padding   *)
(* access, and a piggyback whose node is in local_, read a random path.    *)
Fetched(o) ==
    (IF ss.phase = "TRAVERSE" /\ RoundOram(ss) = o THEN {ss.cur.leaf} ELSE {})
    \cup (IF PbRead /\ pb.phase = "TRAVERSE" /\ ~NodeInLocal /\ RoundOram(pb) = o
          THEN {pb.cur.leaf} ELSE {})

(* extract_from_stash for a node sought at depth d: its block is on a path *)
(* this round fetched, or was flushed in this round.                       *)
Take(m, key, par, d, flushed) ==
    LET o == OramForDepth(d)
        got == /\ key \in DOMAIN m[o]
               /\ m[o][key].leaf \in Fetched(o) \/ key \in flushed
    IN  IF ~got THEN [m EXCEPT !.bad = TRUE]
        ELSE Extract(m, o, key, m[o][key].leaf, par, d)

NextChild(s, avl) == avl[Side(s.key, s.cur.key)]

(* step_process, the main operation: one node of the traversal. *)
MainTaken == Take(Machine, ss.cur.key, LastKey(local), ss.depth, {})
(* Mutant: the result is read after the update. *)
MainNode_Written(m) ==
    [m.local[Len(m.local)] EXCEPT
        !.avl.data = IF ss.key = ss.cur.key /\ ss.arg # NoUpdate THEN ss.arg ELSE @]

MainNode(m) == m.local[Len(m.local)]
MainFound == ss.key = ss.cur.key
MainEnds(m) ==
    \/ MainFound \/ ss.depth >= MaxHeight - 1
    \/ NextChild(ss, MainNode(m).avl).key = NoKey

MainUpdated(m) ==
    IF MainFound /\ ss.arg # NoUpdate THEN [m EXCEPT !.local[Len(m.local)].avl.data = ss.arg]
    ELSE m

(* At the end of the traversal: reassign_leaves and flush_local_to_stash,  *)
(* and the rest of the budget is padding.                                  *)
MainTraverse(m, lf) ==
    LET found == IF MainFound THEN [ss EXCEPT !.result = MainNode(m).avl.data] ELSE ss
        s == [found EXCEPT !.ops = @ + 1, !.depth = @ + 1]
        child == NextChild(ss, MainNode(m).avl)
        left == Bigger(0, ss.budget - (ss.ops + 1))
        upper == reads.up + IF ss.depth < Split THEN 1 ELSE 0   \* upper_op_count_
    IN  IF ~MainEnds(m)
        THEN [m |-> MainUpdated(m), ss |-> [s EXCEPT !.cur = [key |-> child.key, leaf |-> child.leaf]]]
        ELSE [m |-> FlushLocalToStash(ReassignLeaves(MainUpdated(m), lf)),
              ss |-> [s EXCEPT !.phase = IF left = 0 THEN "DONE" ELSE "PAD",
                               !.pad = left, !.step = 0,
                               !.boundary = IF Split > 0
                                   THEN Bigger(0, Boundary(ss.budget) - upper) ELSE left]]

PadStep(s) ==
    [s EXCEPT !.ops = @ + 1, !.step = @ + 1, !.pad = @ - 1,
              !.phase = IF s.pad - 1 <= 0 THEN "DONE" ELSE @]

(* What the main operation's part leaves, for every choice of new leaves;  *)
(* m has the node that was read.                                           *)
AfterMain(m) ==
    IF ss.phase = "TRAVERSE"
    THEN IF m.bad THEN {[m |-> m, ss |-> ss]}
         ELSE {MainTraverse(m, lf) : lf \in IF MainEnds(m) THEN LeafChoices(m) ELSE {<<>>}}
    ELSE {[m |-> Machine, ss |-> IF ss.phase = "PAD" THEN PadStep(ss) ELSE ss]}

(* step_process, the piggyback: its node is in local_, was flushed in this *)
(* round by the main operation, or comes from the path just read.          *)
PbTaken(m, flushed) ==
    LET p == SE!SelectLastInSeq(m.local, LAMBDA n : pb.cur.key \in {n.avl.l.key, n.avl.r.key})
    IN  IF m.bad \/ InLocal(m.local, pb.cur.key) THEN m
        ELSE Take(m, pb.cur.key, IF p = 0 THEN NoKey ELSE m.local[p].key, pb.depth, flushed)

(* Insert: overwrite the node, hang the new node under an empty side, or   *)
(* go on down.                                                             *)
PbPlaced(m, i, leaf) ==
    LET s == Side(pb.key, pb.cur.key)
        slot == [key |-> pb.key, leaf |-> leaf, h |-> 1]
        node == [key |-> pb.key, leaf |-> leaf, avl |-> NodeData(pb.arg),
                 par |-> pb.cur.key, depth |-> pb.depth + 1]
    IN  IF pb.key = pb.cur.key THEN [m EXCEPT !.local[i].avl.data = pb.arg]
        ELSE IF m.local[i].avl[s].key = NoKey
        THEN [m EXCEPT !.local = Append([m.local EXCEPT ![i].avl[s] = slot], node)]
        ELSE m

PbTraverse(m, leaf) ==
    LET i == Index(m.local, pb.cur.key)
        avl == m.local[i].avl
        found == pb.key = pb.cur.key
        child == avl[Side(pb.key, pb.cur.key)]
        ends == found \/ child.key = NoKey \/ pb.depth >= MaxHeight - 1
        m1 == IF pb.insert THEN PbPlaced(m, i, leaf) ELSE m
        m2 == IF pb.insert /\ ends THEN Rebalance(UpdateHeights(m1)) ELSE m1
        s == [pb EXCEPT !.ops = @ + 1, !.depth = @ + 1,
                        !.result = IF found /\ ~pb.insert THEN avl.data ELSE @]
        left == Bigger(0, s.budget - s.ops)
    IN  [m |-> m2,
         pb |-> IF ~ends THEN [s EXCEPT !.cur = [key |-> child.key, leaf |-> child.leaf]]
                ELSE [s EXCEPT !.traversed = TRUE, !.pad = left, !.step = 0, !.boundary = left,
                               !.phase = IF left = 0 THEN "DONE" ELSE "PAD"]]

PbTraverseIfRead(m, leaf) == IF m.bad THEN [m |-> m, pb |-> pb] ELSE PbTraverse(m, leaf)

AfterPiggyback(m, leaf, flushed) ==
    IF ~PbRead \/ m.bad THEN [m |-> m, pb |-> pb]
    ELSE IF pb.phase = "PAD" THEN [m |-> m, pb |-> PadStep(pb)]
    ELSE PbTraverseIfRead(PbTaken(m, flushed), leaf)

EndRound(main, b) ==
    /\ upper_oram' = b.m.up /\ oram' = b.m.lo
    /\ root' = b.m.root /\ local' = b.m.local
    /\ broken' = b.m.bad
    /\ ss' = main /\ pb' = b.pb

(* The keys that the main operation gave back in this round. *)
FlushedBy(m) ==
    IF ss.phase # "TRAVERSE" \/ m.bad \/ m.local # <<>> THEN {}
    ELSE {ss.cur.key} \cup {local[i].key : i \in DOMAIN local}

Round ==
    /\ ~broken /\ ~StepDone
    /\ \E a \in AfterMain(MainTaken), leaf \in IF PbRead /\ pb.insert THEN Leaves ELSE {NoLeaf} :
          EndRound(a.ss, AfterPiggyback(a.m, leaf, FlushedBy(a.m)))
    /\ reads' = [o \in {"up", "lo"} |-> reads[o]
                    + (IF SsRead /\ RoundOram(ss) = o THEN 1 ELSE 0)
                    + (IF PbRead /\ RoundOram(pb) = o THEN 1 ELSE 0)]
    /\ rounds' = rounds + 1
    /\ UNCHANGED <<accesses, kv, want>>

(***************************************************************************)
(* The specification.  init builds the tree as in AVLOmap; an object is    *)
(* used by complete calls or by stepped accesses.                          *)
(***************************************************************************)
StepInit ==
    /\ Init
    /\ kv = IF Completes THEN [k \in Keys |-> NoValue] ELSE Contents
    /\ local = <<>> /\ ss = Idle /\ pb = Idle
    /\ reads = NoOps /\ rounds = 0 /\ accesses = 0 /\ want = NoWant

Step ==
    \/ \E k \in UsedKeys, u \in UsedValues \cup {NoUpdate} : BeginStepSearch(k, u)
    \/ BeginStepDummy
    \/ BeginStepPartialDummy
    \/ \E k \in UsedKeys : BeginPiggybackSearch(k)
    \/ \E k \in UsedKeys, v \in UsedValues, leaf \in Leaves : BeginPiggybackInsert(k, v, leaf)
    \/ BeginPiggybackDummy
    \/ Round

Next ==
    \/ Call /\ UNCHANGED stepVars
    \/ Step /\ UNCHANGED <<conf, ret, last>>

Spec == StepInit /\ [][Next]_vars

(***************************************************************************)
(* Properties.                                                             *)
(***************************************************************************)
(* Whenever no access is under way every record is back in the ORAMs,      *)
(* reachable from the root, with the payload last stored: what a round     *)
(* leaves in local_ only would be dropped by the next begin_step_*'s       *)
(* local_.clear().  A piggybacked search or insert does leave its nodes    *)
(* there (PbTraverse never flushes), so it is excepted.                    *)
NothingLeftInLocal ==
    StepDone /\ ~broken /\ pb.key = NoKey /\ ~Completes =>
        /\ Subtree(Tree, root, 0) = Stored
        /\ Contents = kv

(* A finished access returns what was stored when it began, the main       *)
(* search and the piggybacked search alike.                                *)
StepAnswers ==
    StepDone /\ ~broken => ss.result = want.main /\ pb.result \in want.pb

(* What the server sees of a finished access, the number of rounds and of  *)
(* paths read from each ORAM, does not depend on the keys, on whether they *)
(* are stored, or on whether the main operation is a search or a dummy and *)
(* the piggyback a search, an insert or a dummy.                           *)
ReadsHidden ==
    StepDone /\ accesses > 0 /\ ~broken /\ ss.budget = Budget =>
        LET copies == IF pb.active THEN 2 ELSE 1
        IN  /\ rounds = Budget
            /\ reads.up = IF Split = 0 THEN 0 ELSE copies * Boundary(Budget)
            /\ reads.up + reads.lo = copies * Budget
=============================================================================
