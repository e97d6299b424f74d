------------------------------ MODULE AVLOmap ------------------------------
(***************************************************************************)
(* AVLOmap (avl_omap.cpp), the calls that run to completion: init, search, *)
(* insert, remove, the two dummies and search_piggyback.  The client is    *)
(* one thread, so a call is one action; random_leaf() is a choice from     *)
(* Leaves.  AVLSteps models the round-by-round interface.                  *)
(***************************************************************************)
EXTENDS AVLTree

VARIABLES upper_oram, oram,  \* key -> [leaf, avl]
          root,              \* root_key_, root_leaf_
          broken,            \* extract_from_stash threw
          ret,               \* the answers of the last call
          last               \* its operation and its accesses per ORAM

(* The caller: its keys and payloads, the key sets it calls init with, and *)
(* the calls it makes.                                                     *)
UsedKeys   == Object.use.keys
UsedValues == Object.use.values
Calls      == Object.use.calls

callVars == <<conf, upper_oram, oram, root, broken, ret, last>>

NoOps == [up |-> 0, lo |-> 0]

Start == [up |-> upper_oram, lo |-> oram, root |-> root,
          local |-> <<>>, bad |-> FALSE, ops |-> NoOps]

(* The state a call leaves behind; an exception leaves the object unusable. *)
Commit(op, m, r) ==
    /\ upper_oram' = m.up /\ oram' = m.lo /\ root' = m.root
    /\ broken' = m.bad
    /\ ret' = r
    /\ last' = [op |-> op, ops |-> m.ops]
    /\ conf' = conf

(* reassign_leaves, flush_local_to_stash, pad_to_budget. *)
Store(m, lf) == PadToBudget(FlushLocalToStash(ReassignLeaves(m, lf)))
AnyLeaf == CHOOSE l \in Leaves : TRUE   \* drawn again by reassign_leaves

(***************************************************************************)
(* The operations on the working record.                                   *)
(***************************************************************************)
Found(m, key) == ~m.bad /\ LastKey(m.local) = key
Data(m, key) == IF Found(m, key) THEN m.local[Len(m.local)].avl.data ELSE NoValue

Updated(m, key, u) ==
    IF Found(m, key) /\ u # NoUpdate THEN [m EXCEPT !.local[Len(m.local)].avl.data = u] ELSE m
Searched(m, key, u) == Updated(Descend(m, key, m.root, 0), key, u)

(* Into an empty tree: straight to the stash of the root's ORAM. *)
InsertedRoot(m, key, v, leaf) ==
    [m EXCEPT ![OramForDepth(0)] = (key :> [leaf |-> leaf, avl |-> NodeData(v)]) @@ @,
              !.root = [key |-> key, leaf |-> leaf]]

Rebalanced(m) == IF m.bad THEN m ELSE Rebalance(UpdateHeights(m))

Inserted(m, key, v, leaf) ==
    IF m.root.key = NoKey THEN InsertedRoot(m, key, v, leaf)
    ELSE Rebalanced(PlaceNew(m, key, v, leaf, m.root, 0))

(* Mutant: the successor's data is not copied. *)
RenameToSuccessor_KeepData(m, t) ==
    LET old == m.local[t].key
        succ == m.local[Len(m.local)]
        point(at) == IF at.key = old THEN [at EXCEPT !.key = succ.key] ELSE at
    IN  [m EXCEPT !.local = [i \in DOMAIN m.local |->
             [m.local[i] EXCEPT !.key = IF i = t THEN succ.key ELSE @,
                                !.avl.l = point(@), !.avl.r = point(@),
                                !.par = IF @ = old THEN succ.key ELSE @]],
                  !.root.key = IF @ = old THEN succ.key ELSE @]

(* The target, the last of local_, has two children: its in-order          *)
(* successor's key and data move into it.                                  *)
RenameToSuccessor(m, t) ==
    LET old == m.local[t].key
        succ == m.local[Len(m.local)]
        p == Index([m.local EXCEPT ![t].key = succ.key], m.local[t].par)
        point(avl) == IF avl.l.key = old THEN [avl EXCEPT !.l.key = succ.key]
                      ELSE IF avl.r.key = old THEN [avl EXCEPT !.r.key = succ.key]
                      ELSE avl
        renamed == [m.local EXCEPT ![t].key = succ.key, ![t].avl.data = succ.avl.data]
        linked == IF m.local[t].par = NoKey \/ p = 0 THEN renamed
                  ELSE [renamed EXCEPT ![p].avl = point(renamed[p].avl)]
    IN  [m EXCEPT !.local = Tuple([i \in DOMAIN linked |->
                        IF linked[i].par = old THEN [linked[i] EXCEPT !.par = succ.key]
                        ELSE linked[i]]),
                  !.root.key = IF @ = old THEN succ.key ELSE @]

(* Mutant: a node without right child is taken for a leaf. *)
Unlink_DropsChild(m, t) ==
    LET n == m.local[t]
        point(at) == IF at.key = n.key THEN n.avl.r ELSE at
    IN  [m EXCEPT !.local = Tuple([i \in DOMAIN SE!RemoveAt(m.local, t) |->
                 [SE!RemoveAt(m.local, t)[i] EXCEPT !.avl.l = point(@), !.avl.r = point(@)]]),
                  !.root = IF n.par # NoKey THEN @ ELSE [key |-> n.avl.r.key, leaf |-> n.avl.r.leaf]]

(* Node t has at most one child: the child takes its place. *)
Unlink(m, t) ==
    LET n == m.local[t]
        child == IF n.avl.l.key # NoKey THEN n.avl.l
                 ELSE IF n.avl.r.key # NoKey THEN n.avl.r ELSE [n.avl.r EXCEPT !.h = 0]
        p == Index(m.local, n.par)
        point(avl) == IF avl.l.key = n.key THEN [avl EXCEPT !.l = child]
                      ELSE IF avl.r.key = n.key THEN [avl EXCEPT !.r = child]
                      ELSE avl
        loc == IF p = 0 THEN m.local ELSE [m.local EXCEPT ![p].avl = point(m.local[p].avl)]
        rest == SE!RemoveAt(loc, t)
    IN  [m EXCEPT !.local = rest,
                  !.root = IF n.par # NoKey THEN @ ELSE [key |-> child.key,
                            leaf |-> IF child.key = NoKey THEN NoLeaf ELSE child.leaf]]

SpliceSuccessor(m, t) ==
    IF m.bad THEN m ELSE Unlink(RenameToSuccessor(m, t), Len(m.local))

(* Phase 1 of remove, after the path to the key: on to the successor when  *)
(* the node has two children, then the deletion.                           *)
Deleted(m, key) ==
    LET t == Len(m.local)
        avl == m.local[t].avl
    IN  IF ~Found(m, key) THEN m
        ELSE IF avl.l.key = NoKey \/ avl.r.key = NoKey THEN Unlink(m, t)
        ELSE SpliceSuccessor(DescendLeft(m, avl.r, m.local[t].depth + 1), t)

(* Phase 2, for one node of the path: an unbalanced node needs its taller  *)
(* child, and for a double rotation that child's inner child, in local_;   *)
(* whatever is not read is replaced by a dummy access.                     *)
ReadIfAbsent(m, at, par, d) ==
    IF at.key # NoKey /\ ~InLocal(m.local, at.key)
    THEN MoveToLocal(m, at.key, at.leaf, par, d) ELSE TrackedDummy(m, d)

TallChild(n) == IF Balance(n.avl) > 1 THEN n.avl.l ELSE n.avl.r
InnerChild(n, tall) ==
    IF Balance(n.avl) > 1 /\ Balance(tall.avl) < 0 THEN tall.avl.r
    ELSE IF Balance(n.avl) < -1 /\ Balance(tall.avl) > 0 THEN tall.avl.l
    ELSE NoChild
ReadInner(m, n) ==
    LET t == Index(m.local, TallChild(n).key)
    IN  IF t = 0 THEN TrackedDummy(m, n.depth + 2)
        ELSE ReadIfAbsent(m, InnerChild(n, m.local[t]), m.local[t].key, m.local[t].depth + 1)
RotatedAt(m, key) ==
    IF m.bad THEN m ELSE UpdateHeights(BalanceNode(UpdateHeights(m), Index(m.local, key)))

BackUpNode(m, n) ==
    IF Balance(n.avl) \in -1..1 THEN TrackedDummy(TrackedDummy(m, n.depth), n.depth)
    ELSE RotatedAt(ReadInner(ReadIfAbsent(m, TallChild(n), n.key, n.depth + 1), n), n.key)

BackUp(m, key) ==
    LET i == Index(m.local, key)
        fresh == RefreshHeights(m.local, i)
    IN  IF m.bad THEN m
        ELSE IF i = 0 THEN TrackedDummy(TrackedDummy(m, Split), Split)
        ELSE BackUpNode([m EXCEPT !.local = fresh], fresh[i])

BackUpPath(m) ==
    LET up[n \in Nat] ==   \* n nodes are dealt with, from the last one up
            IF n = 0 THEN m ELSE BackUp(up[n - 1], m.local[Len(m.local) + 1 - n].key)
    IN  IF m.bad THEN m ELSE up[Len(m.local)]

Removed(m, key) == BackUpPath(Deleted(Descend(m, key, m.root, 0), key))

(* search_piggyback's delete: phase 1 only, no sibling is read. *)
DeletedOnPath(m, key) == IF Found(m, key) THEN Rebalanced(Deleted(m, key)) ELSE m
RemovedOnPath(m, key) == DeletedOnPath(Descend(m, key, m.root, 0), key)

Init ==
    /\ conf \in DOMAIN Configs
    /\ \E S \in Object.use.init : \E v \in [S -> UsedValues], lf \in [S -> Leaves] :
          LET b == BuildBalanced(Sorted(S), v, lf, 0)
          IN  /\ upper_oram = b.up /\ oram = b.lo
              /\ root = [key |-> b.at.key, leaf |-> b.at.leaf]
    /\ broken = FALSE /\ ret = <<>>
    /\ last = [op |-> "init", ops |-> NoOps]

Tree == [up |-> upper_oram, lo |-> oram]
Stored == DOMAIN upper_oram \cup DOMAIN oram
Contents == [k \in Keys |-> IF k \in DOMAIN upper_oram THEN upper_oram[k].avl.data
                            ELSE IF k \in DOMAIN oram THEN oram[k].avl.data ELSE NoValue]
Completes == Calls # {}   \* this caller makes complete calls, no stepped accesses

(***************************************************************************)
(* The calls.                                                              *)
(***************************************************************************)

(* New leaves, back to the stashes, padding. *)
Finish(op, m, r) == \E lf \in LeafChoices(m) : Commit(op, Store(m, lf), r)

FinishSearch(m, k, u) == Finish("search", Updated(m, k, u), <<Data(m, k)>>)

Search(k, u) ==
    /\ "search" \in Calls /\ ~broken
    /\ FinishSearch(Descend(Start, k, root, 0), k, u)

Insert(k, v) ==
    /\ "insert" \in Calls /\ ~broken
    /\ k \notin Stored /\ Cardinality(Stored) < Object.capacity
    /\ \E leaf \in Leaves : Finish("insert", Inserted(Start, k, v, leaf), <<>>)

Remove(k) ==
    /\ "remove" \in Calls /\ ~broken
    /\ Finish("remove", Removed(Start, k), <<>>)

DummyAccess ==
    /\ "dummy" \in Calls /\ ~broken
    /\ Commit("dummy", PadToBudget(Start), <<>>)

(* Upper dummies and one lower dummy; with one ORAM a full dummy. *)
PartialDummyAccess ==
    /\ "dummy" \in Calls /\ ~broken
    /\ LET m == IF Split = 0 THEN PadToBudget(Start)
                ELSE [Start EXCEPT !.ops = [up |-> Split, lo |-> 1]]
       IN  Commit(IF Split = 0 THEN "dummy" ELSE "partial", m, <<>>)

(* The second half of search_piggyback, on what the first, with its        *)
(* accesses, left; the two answers.                                        *)
Extra(m, x, op, v) ==
    CASE op = "s" -> Searched(m, x, NoUpdate)
      [] op = "d" -> RemovedOnPath(m, x)
      [] op = "i" -> Inserted(m, x, v, AnyLeaf)
ExtraData(m, x, op) == IF op = "i" THEN NoValue ELSE Data(Descend(m, x, m.root, 0), x)

CommitBoth(m, ops, r) ==
    Commit("both", [m EXCEPT !.ops = [up |-> m.ops.up + ops.up, lo |-> m.ops.lo + ops.lo]], r)
FinishExtra(m, ops, r) == \E lf \in LeafChoices(m) : CommitBoth(Store(m, lf), ops, r)
SecondHalf(m, ops, r, x, op, v) ==
    FinishExtra(Extra(m, x, op, v), ops, <<r, ExtraData(m, x, op)>>)
FirstHalf(m, r, x, op, v) ==
    \E lf \in LeafChoices(m) :
        LET mid == Store(m, lf)
        IN  SecondHalf([mid EXCEPT !.ops = NoOps], mid.ops, r, x, op, v)

(* A search and an extra search, delete or insert, with a budget each; an  *)
(* empty tree answers neither, so the caller piggybacks no insert on one.  *)
SearchPiggyback(k, u, x, op, v) ==
    /\ "both" \in Calls /\ ~broken
    /\ op = "i" => x \notin Stored /\ Cardinality(Stored) \in 1..(Object.capacity - 1)
    /\ IF root.key = NoKey
       THEN CommitBoth(PadToBudget(Start), PadToBudget(Start).ops, <<NoValue, NoValue>>)
       ELSE FirstHalf(Searched(Start, k, u), Data(Descend(Start, k, root, 0), k), x, op, v)

Call ==
    \/ \E k \in UsedKeys, u \in UsedValues \cup {NoUpdate} : Search(k, u)
    \/ \E k \in UsedKeys, v \in UsedValues : Insert(k, v)
    \/ \E k \in UsedKeys : Remove(k)
    \/ DummyAccess
    \/ PartialDummyAccess
    \/ \E k, x \in UsedKeys, u \in UsedValues \cup {NoUpdate},
          op \in {"s", "d", "i"}, v \in UsedValues : SearchPiggyback(k, u, x, op, v)

(***************************************************************************)
(* Properties.                                                             *)
(***************************************************************************)
(* No call and no round fails to find a node: the leaf a parent records    *)
(* (remapped in local_ by reassign_leaves, moved by rotations and          *)
(* deletions, stale between the rounds of an access) is always the leaf of *)
(* the child's block, in the ORAM the child's depth selects.               *)
NeverThrows == ~broken

(* After every complete call the blocks of the ORAMs form one search tree: *)
(* a walk from the root meets every stored block, none of them out of      *)
(* place, none below the height bound up to which a search reads, and an   *)
(* insert, a rotation or the successor's renaming never puts a key where a *)
(* search for it does not pass.                                            *)
TreeIntact ==
    Completes =>
        /\ IsBlocks(upper_oram) /\ IsBlocks(oram)
        /\ Subtree(Tree, root, 0) = Stored
        /\ Ordered(Tree, root, 0, Keys)

(* The child heights that nodes record, only refreshed for nodes that are  *)
(* in local_, are the true ones, and no two siblings differ by more than   *)
(* one: what the bound on the tree's height and so on every loop rests on. *)
(* search_piggyback's delete, which reads no sibling, is excepted.         *)
HeightsBalanced ==
    Completes /\ TreeIntact /\ "both" \notin Calls => Balanced(Tree, root, 0)

(* The number of ORAM accesses tells a search, an insert, a remove and a   *)
(* dummy not apart (test AVLOmap.OperationTypeHiding), whatever the key,   *)
(* the tree's shape and the rotations.                                     *)
RoundsHidden ==
    LET times == IF last.op = "both" THEN 2 ELSE 1
    IN  last.op \in {"search", "insert", "remove", "dummy", "both"} =>
            last.ops = [up |-> times * Split, lo |-> times * (Budget - Split)]

(* AVLOmap implements the dictionary of OmapInterface: a search returns    *)
(* the payload last stored under the key, an insert and a remove change    *)
(* that key only, and search_piggyback does both, one after the other.     *)
Abstract == INSTANCE OmapInterface WITH
    kv <- IF Completes THEN Contents ELSE [k \in Keys |-> NoValue],
    ret <- ret
Dictionary == Abstract!OmapSpec
=============================================================================
