------------------------------ MODULE AVLTree ------------------------------
(***************************************************************************)
(* The search tree inside AVLOmap: the nodes, the working copy local_, and *)
(* the operators that every operation of avl_omap.cpp is made of.          *)
(*                                                                         *)
(* A PathORAM is a map from a key to its block (leaf and node); that it is *)
(* one is what PathORAM.tla checks.  A block is found by reading the path  *)
(* of the leaf its parent records.  In the split mode the nodes above      *)
(* split_depth_ live in upper_oram_ ("up") and the others in oram_ ("lo"). *)
(*                                                                         *)
(* An operation works on a record                                          *)
(*   [up, lo   the two ORAMs,           root  [key, leaf],                 *)
(*    local    local_,                  bad   an exception was thrown,     *)
(*    ops      accesses per ORAM so far]                                   *)
(***************************************************************************)
EXTENDS Integers, Sequences, FiniteSets, TLC
SE == INSTANCE SequencesExt
LOCAL FN == INSTANCE Functions

CONSTANTS Keys,        \* integers >= 0
          Values,
          Leaves,      \* the leaves random_leaf() may draw
          NoValue,
          NoUpdate,
          Configs      \* a sequence of objects to look at: the constructor's
                       \* arguments capacity and split (0 = one ORAM), and what
                       \* the caller does with the object, use

VARIABLE conf          \* the object: its place in Configs

NoKey == -1    \* INVALID_KEY
NoLeaf == -1   \* INVALID_LEAF

(* max(1, ceil(1.44 log2(max(capacity, 2)))): the largest capacities of    *)
(* each height.                                                            *)
HeightFor(capacity) ==
    LET cap == <<1, 2, 4, 6, 11, 17, 29>>
    IN  CHOOSE h \in DOMAIN cap :
            /\ capacity <= cap[h] /\ 2 <= cap[h]
            /\ \A g \in 1..(h - 1) : cap[g] < capacity \/ cap[g] < 2

Constructed(c) ==
    LET h == HeightFor(c.capacity)
    IN  [height |-> h, split |-> IF c.split > h THEN h ELSE c.split,
         capacity |-> c.capacity, use |-> c.use]
Objects == [i \in DOMAIN Configs |-> Constructed(Configs[i])]
Object == Objects[conf]

MaxHeight == Object.height   \* max_height_
Split == Object.split        \* split_depth_
Budget == 3 * MaxHeight

ASSUME AVLAssumption ==
    /\ Keys \subseteq Nat /\ IsFiniteSet(Keys)
    /\ Leaves \subseteq Nat /\ Leaves # {}
    /\ \A i \in DOMAIN Configs :
          /\ Configs[i].capacity \in 1..29 /\ Configs[i].split \in Nat
          /\ Configs[i].use.keys \subseteq Keys
    /\ NoValue \notin Values /\ NoUpdate \notin Values \cup {NoValue}

(***************************************************************************)
(* Nodes.                                                                  *)
(***************************************************************************)
NoChild == [key |-> NoKey, leaf |-> NoLeaf, h |-> 0]

(* AVLNodeData, a node without children; encode and decode copy its seven  *)
(* fields.                                                                 *)
NodeData(v) == [data |-> v, l |-> NoChild, r |-> NoChild]

Bigger(a, b) == IF a > b THEN a ELSE b
Height(avl) == 1 + Bigger(avl.l.h, avl.r.h)
Balance(avl) == avl.l.h - avl.r.h
Side(key, at) == IF key < at THEN "l" ELSE "r"

OramForDepth(d) == IF Split > 0 /\ d < Split THEN "up" ELSE "lo"

(* Where local_ holds a key; 0 = nowhere. *)
Index(local, key) == SE!SelectInSeq(local, LAMBDA n : n.key = key)
InLocal(local, key) == Index(local, key) # 0
LastKey(local) == IF local = <<>> THEN NoKey ELSE local[Len(local)].key

(* The sequence f; TLC evaluates the elements of f once. *)
Tuple(f) == f \o <<>>

(* The elements of a set of integers in ascending order. *)
Sorted(S) == Tuple([i \in 1..Cardinality(S) |->
                      CHOOSE k \in S : Cardinality({j \in S : j < k}) = i - 1])

(* Indices from the last to the first. *)
Backwards(local) == Tuple([i \in 1..Len(local) |-> Len(local) + 1 - i])

(***************************************************************************)
(* Between the ORAMs and local_.                                           *)
(***************************************************************************)
Count(m, o) == [m EXCEPT !.ops[o] = @ + 1]

(* extract_from_stash after the path of the leaf was read: the block must  *)
(* be in this ORAM, under this leaf.                                       *)
Extract(m, o, key, leaf, par, d) ==
    IF m.bad \/ key \notin DOMAIN m[o] \/ m[o][key].leaf # leaf
    THEN [m EXCEPT !.bad = TRUE]
    ELSE [m EXCEPT ![o] = FN!Restrict(m[o], DOMAIN m[o] \ {key}),
                   !.local = Append(@, [key |-> key, leaf |-> leaf, avl |-> m[o][key].avl,
                                        par |-> par, depth |-> d])]

MoveToLocal(m, key, leaf, par, d) ==
    LET o == OramForDepth(d) IN Count(Extract(m, o, key, leaf, par, d), o)

TrackedDummy(m, d) == Count(m, OramForDepth(d))

(* Mutant: the lower ORAM is padded to one access less. *)
PadToBudget_Short(m) ==
    [m EXCEPT !.ops.up = Bigger(@, Split), !.ops.lo = Bigger(@, Budget - Split - 1)]

(* Dummy accesses up to the budget of each ORAM. *)
PadToBudget(m) ==
    LET up == IF Split > Budget THEN Budget ELSE Split
        lo == Budget - up
    IN  IF Split > 0
        THEN [m EXCEPT !.ops.up = Bigger(@, up), !.ops.lo = Bigger(@, lo)]
        ELSE [m EXCEPT !.ops.lo = Bigger(@, Budget)]

(* Mutant: all nodes go to the lower ORAM. *)
FlushLocalToStash_Lower(m) ==
    LET key(i) == m.local[i].key
        put == [n \in {key(i) : i \in DOMAIN m.local} |->
                  LET i == Index(m.local, n) IN [leaf |-> m.local[i].leaf, avl |-> m.local[i].avl]]
    IN  [m EXCEPT !.lo = put @@ @, !.local = <<>>]

FlushLocalToStash(m) ==
    LET put(o) == [n \in {m.local[i].key : i \in {j \in DOMAIN m.local :
                                OramForDepth(m.local[j].depth) = o}} |->
                     LET i == CHOOSE j \in DOMAIN m.local :
                                 /\ m.local[j].key = n
                                 /\ OramForDepth(m.local[j].depth) = o
                     IN  [leaf |-> m.local[i].leaf, avl |-> m.local[i].avl]]
    IN  [m EXCEPT !.up = put("up") @@ @, !.lo = put("lo") @@ @, !.local = <<>>]

(* One random_leaf() per node of local_. *)
LeafChoices(m) == [DOMAIN m.local -> Leaves]

(* Mutant: the leaf of the root is not brought up to date. *)
ReassignLeaves_OldRoot(m, lf) ==
    LET fresh == [i \in DOMAIN m.local |-> [m.local[i] EXCEPT !.leaf = lf[i]]]
        child(at) == LET c == Index(fresh, at.key)
                     IN  IF c = 0 THEN at ELSE [at EXCEPT !.leaf = fresh[c].leaf]
    IN  [m EXCEPT !.local = [i \in DOMAIN fresh |->
            [fresh[i] EXCEPT !.avl.l = child(fresh[i].avl.l), !.avl.r = child(fresh[i].avl.r)]]]

(* A new leaf for every node of local_; then the pointers of the parents   *)
(* that are in local_, and the root's leaf.                                *)
ReassignLeaves(m, lf) ==
    LET fresh == Tuple([i \in DOMAIN m.local |-> [m.local[i] EXCEPT !.leaf = lf[i]]])
        link(loc, i) ==
            LET c == loc[i]
                p == Index(loc, c.par)
            IN  IF c.par = NoKey \/ p = 0 THEN loc
                ELSE IF loc[p].avl.l.key = c.key THEN [loc EXCEPT ![p].avl.l.leaf = c.leaf]
                ELSE IF loc[p].avl.r.key = c.key THEN [loc EXCEPT ![p].avl.r.leaf = c.leaf]
                ELSE loc
        linked == SE!FoldLeft(link, fresh, Backwards(fresh))
        r == Index(linked, m.root.key)
    IN  [m EXCEPT !.local = linked,
                  !.root.leaf = IF r = 0 THEN @ ELSE linked[r].leaf]

(***************************************************************************)
(* Rebalancing.                                                            *)
(***************************************************************************)
(* Mutant: only the left child's height is refreshed. *)
RefreshHeights_Left(local, i) ==
    LET c == Index(local, local[i].avl.l.key)
    IN  IF c = 0 THEN local ELSE [local EXCEPT ![i].avl.l.h = Height(local[c].avl)]

(* The child heights of node i, from the children that are in local_. *)
RefreshHeights(local, i) ==
    LET h(s) == LET c == Index(local, local[i].avl[s].key)
                IN  IF c = 0 THEN local[i].avl[s].h ELSE Height(local[c].avl)
    IN  [local EXCEPT ![i].avl.l.h = h("l"), ![i].avl.r.h = h("r")]

UpdateHeights(m) ==
    LET up[n \in Nat] ==   \* n nodes are up to date, from the last one up
            IF n = 0 THEN m.local ELSE RefreshHeights(up[n - 1], Len(m.local) + 1 - n)
    IN  [m EXCEPT !.local = up[Len(m.local)]]

(* rotate(idx, left): the child on the far side, at pi, takes the node's   *)
(* place.                                                                  *)
Far(left) == IF left THEN "r" ELSE "l"
Near(left) == IF left THEN "l" ELSE "r"

RotateNodes(local, idx, pi, left) ==
    LET node == local[idx]
        node1 == [node EXCEPT !.avl[Far(left)] = local[pi].avl[Near(left)], !.par = local[pi].key]
        pivot == [local[pi] EXCEPT
                    !.avl[Near(left)] = [key |-> node.key, leaf |-> node.leaf, h |-> Height(node1.avl)],
                    !.par = node.par]
        place == [key |-> pivot.key, leaf |-> pivot.leaf, h |-> Height(pivot.avl)]
        moved == local[pi].avl[Near(left)].key
        up == Index(local, node.par)
        swap(avl) == IF avl.l.key = node.key THEN [avl EXCEPT !.l = place]
                     ELSE IF avl.r.key = node.key THEN [avl EXCEPT !.r = place]
                     ELSE avl
    IN  Tuple([i \in DOMAIN local |->
            CASE i = idx -> node1
              [] i = pi -> pivot
              [] i = up /\ i \notin {idx, pi} -> [local[i] EXCEPT !.avl = swap(local[i].avl)]
              [] moved # NoKey /\ i = Index(local, moved) -> [local[i] EXCEPT !.par = node.key]
              [] OTHER -> local[i]])

Rotate(m, idx, left) ==
    LET pi == Index(m.local, m.local[idx].avl[Far(left)].key)
    IN  IF pi = 0 THEN m
        ELSE [m EXCEPT !.local = RotateNodes(m.local, idx, pi, left),
                       !.root.key = IF @ = m.local[idx].key THEN m.local[pi].key ELSE @]

(* A tall inner grandchild is rotated outwards first. *)
BalanceNode(m, idx) ==
    LET bal == Balance(m.local[idx].avl)
        left == bal < -1
        c == Index(m.local, m.local[idx].avl[IF left THEN "r" ELSE "l"].key)
        inner == c # 0 /\ IF left THEN Balance(m.local[c].avl) > 0
                          ELSE Balance(m.local[c].avl) < 0
    IN  IF bal \in -1..1 THEN m
        ELSE Rotate(IF inner THEN Rotate(m, c, ~left) ELSE m, idx, left)

Rebalance(m) ==
    LET up[n \in Nat] ==   \* n nodes are balanced, from the last one up
            IF n = 0 THEN m ELSE BalanceNode(UpdateHeights(up[n - 1]), Len(m.local) + 1 - n)
    IN  UpdateHeights(up[Len(m.local)])


(***************************************************************************)
(* Walking down.  Every operation starts at the root; a traversal reads at *)
(* most MaxHeight nodes.                                                   *)
(***************************************************************************)
(* One step down from the pointer w.at at depth d: the node there is read, *)
(* then the pointer on the side of the key; if asked to stop, not beyond   *)
(* the key itself.                                                         *)
StepDown(w, key, d, stop) ==
    LET m == MoveToLocal(w.m, w.at.key, w.at.leaf, LastKey(w.m.local), d)
    IN  IF w.m.bad \/ w.at.key = NoKey THEN w
        ELSE [m |-> m,
              at |-> IF m.bad \/ (stop /\ w.at.key = key) THEN NoChild
                     ELSE m.local[Len(m.local)].avl[Side(key, w.at.key)]]

Walk(m, key, at, d, stop) ==
    LET down[n \in Nat] == IF n = 0 THEN [m |-> m, at |-> at]
                           ELSE StepDown(down[n - 1], key, d + n - 1, stop)
    IN  down[Bigger(0, MaxHeight - d)].m

(* The path to key: down to its node, or to where it would be. *)
Descend(m, key, at, d) == Walk(m, key, at, d, TRUE)

(* On to the leftmost node of a right subtree: NoKey is below every key. *)
DescendLeft(m, at, d) == Walk(m, NoKey, at, d, FALSE)

(* insert's path: the new node hangs under the first empty side; an equal  *)
(* key is passed on the right.                                             *)
PlaceBelow(m, key, v, leaf) ==
    LET n == Len(m.local)
        at == m.local[n].key
        s == Side(key, at)
    IN  IF m.bad \/ m.local[n].avl[s].key # NoKey THEN m
        ELSE [m EXCEPT !.local =
                Append([@ EXCEPT ![n].avl[s] = [key |-> key, leaf |-> leaf, h |-> 1]],
                       [key |-> key, leaf |-> leaf, avl |-> NodeData(v),
                        par |-> at, depth |-> m.local[n].depth + 1])]
PlaceNew(m, key, v, leaf, at, d) == PlaceBelow(Walk(m, key, at, d, FALSE), key, v, leaf)

(***************************************************************************)
(* init: build_balanced over the sorted keys, recorded heights, a leaf per *)
(* node, child pointers, and the split by depth.                           *)
(***************************************************************************)
BuildBalanced(ks, v, lf, depth) ==
    LET build[a \in Nat, b \in Nat, d \in Nat] ==   \* the subtree of ks[a] .. ks[b]
            IF b < a THEN [at |-> NoChild, up |-> <<>>, lo |-> <<>>]
            ELSE LET mid == a + (b - a) \div 2
                     k == ks[mid]
                     l == build[a, mid - 1, d + 1]
                     r == build[mid + 1, b, d + 1]
                     avl == [data |-> v[k], l |-> l.at, r |-> r.at]
                     blk == k :> [leaf |-> lf[k], avl |-> avl]
                     here(o) == IF OramForDepth(d) = o THEN blk ELSE <<>>
                 IN  [at |-> [key |-> k, leaf |-> lf[k], h |-> Height(avl)],
                      up |-> here("up") @@ l.up @@ r.up,
                      lo |-> here("lo") @@ l.lo @@ r.lo]
    IN  build[1, Len(ks), depth]

(***************************************************************************)
(* What the properties say about the tree stored in the ORAMs o.           *)
(***************************************************************************)
IsBlocks(o) ==
    \A k \in DOMAIN o :
        /\ k \in Keys /\ o[k].leaf \in Leaves /\ o[k].avl.data \in Values
        /\ \A s \in {"l", "r"} : /\ o[k].avl[s].key \in Keys \cup {NoKey}
                                 /\ o[k].avl[s].leaf \in Leaves \cup {NoLeaf}
                                 /\ o[k].avl[s].h \in 0..MaxHeight

Node(o, key, d) == o[OramForDepth(d)][key].avl
InPlace(o, key, leaf, d) ==
    /\ d < MaxHeight
    /\ key \in DOMAIN o[OramForDepth(d)]
    /\ o[OramForDepth(d)][key].leaf = leaf

(* The keys a walk from a pointer meets; NoKey stands for a dead end. *)
Subtree(o, at, depth) ==
    LET meets[key \in Int, leaf \in Int, d \in Nat] ==
            LET n == Node(o, key, d)
            IN  IF key = NoKey THEN {}
                ELSE IF ~InPlace(o, key, leaf, d) THEN {NoKey}
                ELSE {key} \cup meets[n.l.key, n.l.leaf, d + 1] \cup meets[n.r.key, n.r.leaf, d + 1]
    IN  meets[at.key, at.leaf, depth]

TrueHeight(o, at, depth) ==
    LET height[key \in Int, d \in Nat] ==
            LET n == Node(o, key, d)
            IN  IF key = NoKey THEN 0
                ELSE 1 + Bigger(height[n.l.key, d + 1], height[n.r.key, d + 1])
    IN  height[at.key, depth]

(* Every key below the pointer is in ks, smaller keys left, larger right. *)
Ordered(o, at, depth, ks) ==
    LET within[key \in Int, d \in Nat, S \in SUBSET ks] ==
            LET n == Node(o, key, d)
            IN  key = NoKey \/ /\ key \in S
                               /\ within[n.l.key, d + 1, {k \in S : k < key}]
                               /\ within[n.r.key, d + 1, {k \in S : k > key}]
    IN  within[at.key, depth, ks]

(* The recorded heights are the true ones, and siblings differ by <= 1. *)
Balanced(o, at, depth) ==
    LET balanced[key \in Int, d \in Nat] ==
            LET n == Node(o, key, d)
            IN  key = NoKey \/
                /\ n.l.h = TrueHeight(o, n.l, d + 1) /\ n.r.h = TrueHeight(o, n.r, d + 1)
                /\ Balance(n) \in -1..1
                /\ balanced[n.l.key, d + 1] /\ balanced[n.r.key, d + 1]
    IN  balanced[at.key, depth]
=============================================================================
