----------------------------- MODULE BPlusOmap -----------------------------
(***************************************************************************)
(* BPlusOmap (bplus_omap.cpp), the calls that run to completion: init,     *)
(* search, insert, remove and the two dummies.  Nodes are ORAM blocks with *)
(* ids of their own; an internal node records id and leaf of its children, *)
(* so every node that gets a new leaf must be corrected in its parent.     *)
(* Each operation walks from the root to a leaf, reading next to every     *)
(* node one sibling of it into sibling_cache_, changes the nodes in memory *)
(* (local_), gives all of them new leaves and puts them back.              *)
(*                                                                         *)
(* A PathORAM is a map from an id to leaf and node (PathORAM.tla).  Above  *)
(* SplitDepth nodes live in upper_oram_ ("up"), below in oram_ ("lo").  In *)
(* the index mode leaves are wider and a search does not update.           *)
(***************************************************************************)
EXTENDS Integers, Sequences, FiniteSets, TLC
LOCAL SE == INSTANCE SequencesExt
LOCAL FN == INSTANCE Functions

CONSTANTS Keys, Values, NoValue, NoUpdate,
          Configs   \* a sequence of objects to look at: order, index (index mode),
                    \* split, height and leaves (of the ORAMs), which of them init
                    \* draws, and what the caller does with the object, use

VARIABLE conf       \* the object: its place in Configs

Bigger(a, b) == IF a > b THEN a ELSE b
Smaller(a, b) == IF a < b THEN a ELSE b

(* The constructor's derived fields. *)
Constructed(c) ==
    LET budget == 3 * c.height
    IN  [index |-> c.index, leaves |-> c.leaves, drawn |-> c.drawn, use |-> c.use, order |-> c.order,
         height |-> c.height, split |-> c.split, budget |-> budget,
         upper |-> IF c.split = 0 THEN 0 ELSE Smaller(2 * c.split - 1, budget),
         most |-> IF c.index THEN c.order * (c.order - 1) ELSE c.order - 1,
         least |-> Bigger(1, IF c.index THEN (c.order * (c.order - 1)) \div 2
                             ELSE (c.order + 1) \div 2 - 1)]
Objects == [i \in DOMAIN Configs |-> Constructed(Configs[i])]
Object == Objects[conf]

Order      == Object.order    \* order_
IndexMode  == Object.index    \* index_mode_
SplitDepth == Object.split    \* split_depth_, at most MaxHeight
MaxHeight  == Object.height   \* max_height_
Leaves     == Object.leaves   \* the leaves random_leaf() may draw
InitLeaves == Object.drawn    \* bound: those that init draws
Budget     == Object.budget
max_leaf_keys == Object.most
min_leaf_keys == Object.least
split_upper_budget == Object.upper

(* The caller: its keys and payloads, its calls, and how few keys it       *)
(* leaves stored; a bound on next_block_id_.                               *)
UsedKeys   == Object.use.keys
UsedValues == Object.use.values
Calls      == Object.use.calls
MinStored  == Object.use.min
MaxIds     == Object.use.ids

NoId == -1    \* INVALID_KEY
NoLeaf == -1  \* INVALID_LEAF

ASSUME BPlusAssumption ==
    /\ Keys \subseteq Nat /\ IsFiniteSet(Keys)
    /\ NoValue \notin Values /\ NoUpdate \notin Values \cup {NoValue}
    /\ \A i \in DOMAIN Configs : LET c == Configs[i] IN
          /\ c.order \in Nat \ {0, 1} /\ c.index \in BOOLEAN
          /\ c.height \in Nat \ {0} /\ c.split \in 0..c.height
          /\ c.leaves \subseteq Nat /\ c.drawn \subseteq c.leaves /\ c.drawn # {}
          /\ c.use.keys \subseteq Keys /\ c.use.min \in Nat /\ c.use.ids \in Nat

VARIABLES upper_oram, oram,  \* id -> [leaf, node]
          root,              \* root_id_, root_leaf_
          nextId,            \* next_block_id_
          broken,            \* extract_from_stash threw
          forgotten,         \* a call may have left a pointer uncorrected
          ret,               \* the answers of the last call
          last               \* its operation and its accesses per ORAM

vars == <<conf, upper_oram, oram, root, nextId, broken, forgotten, ret, last>>

OramForDepth(d) == IF SplitDepth > 0 /\ d < SplitDepth THEN "up" ELSE "lo"

(* BPlusNode: a leaf's slots are its values (or data block ids), an        *)
(* internal node's are its children.                                       *)
LeafNode(ks, vs) == [isLeaf |-> TRUE, keys |-> ks, slots |-> vs]
InnerNode(ks, cs) == [isLeaf |-> FALSE, keys |-> ks, slots |-> cs]

(* The first position in s that satisfies P; 0 = none. *)
First(s, P(_)) == SE!SelectInSeq(s, P)

(* The sequence f; TLC evaluates the elements of f once. *)
Tuple(f) == f \o <<>>

find_child_index(node, key) == 1 + Cardinality({i \in DOMAIN node.keys : key >= node.keys[i]})
find_leaf_index(node, key) == First(node.keys, LAMBDA k : k = key)
ChildAt(node, id) == First(node.slots, LAMBDA c : c.id = id)

-----------------------------------------------------------------------------
(* The working record of an operation.                                     *)
NoOps == [up |-> 0, lo |-> 0]
Start == [up |-> upper_oram, lo |-> oram, root |-> root, next |-> nextId,
          local |-> <<>>, sibs |-> <<>>, bad |-> FALSE, forgotten |-> forgotten, ops |-> NoOps]

Count(m, d) == [m EXCEPT !.ops[OramForDepth(d)] = m.ops[OramForDepth(d)] + 1]

(* The block must be in this ORAM, under the leaf its parent records. *)
Readable(m, at, d) ==
    /\ ~m.bad /\ at.id \in DOMAIN m[OramForDepth(d)]
    /\ m[OramForDepth(d)][at.id].leaf = at.leaf
Taken(m, at, d) ==
    LET o == OramForDepth(d) IN [m EXCEPT ![o] = FN!Restrict(m[o], DOMAIN m[o] \ {at.id})]

MoveToLocal(m, at, par, d) ==
    IF ~Readable(m, at, d) THEN [m EXCEPT !.bad = TRUE]
    ELSE Count([Taken(m, at, d) EXCEPT
                  !.local = Append(m.local, [id |-> at.id, leaf |-> at.leaf, par |-> par, depth |-> d,
                                             node |-> m[OramForDepth(d)][at.id].node])], d)

MoveToSiblingCache(m, at, ploc, cidx, d) ==
    IF ~Readable(m, at, d) THEN [m EXCEPT !.bad = TRUE]
    ELSE Count([Taken(m, at, d) EXCEPT
                  !.sibs = Append(m.sibs, [id |-> at.id, leaf |-> at.leaf, ploc |-> ploc, cidx |-> cidx,
                                           depth |-> d, node |-> m[OramForDepth(d)][at.id].node])], d)

LastOf(m) == m.local[Len(m.local)]

(* The left sibling of child ci if there is one, else the right; 0 = none. *)
SiblingOf(node, ci) == IF ci > 1 THEN ci - 1
                       ELSE IF ci + 1 <= Len(node.slots) THEN ci + 1 ELSE 0

(* The sibling of child ci of node, a dummy access where there is none. *)
ReadSibling(m, node, ci, d) ==
    IF SiblingOf(node, ci) = 0 THEN Count(m, d)
    ELSE MoveToSiblingCache(m, node.slots[SiblingOf(node, ci)], Len(m.local), SiblingOf(node, ci), d)

(* traverse_with_siblings: a node and a sibling of the next one per level. *)
NoPointer == [id |-> NoId, leaf |-> NoLeaf]

(* On from the node read last. *)
Below(m, key, d) ==
    LET node == LastOf(m).node
        ci == find_child_index(node, key)
    IN  IF m.bad THEN [m |-> m, at |-> NoPointer]
        ELSE IF node.isLeaf THEN [m |-> Count(m, d), at |-> NoPointer]
        ELSE [m |-> ReadSibling(m, node, ci, d + 1), at |-> node.slots[ci]]

(* One level, from the pointer w.at; none if that is empty. *)
Level(w, key, d) ==
    IF w.at.id = NoId \/ w.m.bad THEN w
    ELSE Below(MoveToLocal(w.m, w.at, IF w.m.local = <<>> THEN NoId ELSE LastOf(w.m).id, d), key, d)

Traverse(m, key, at) ==
    LET down[n \in Nat] ==   \* n levels were read
            IF n = 0 THEN [m |-> m, at |-> at] ELSE Level(down[n - 1], key, n - 1)
    IN  down[MaxHeight].m

(* Mutant: pads to 2 * max_height_, the reads of a walk without siblings. *)
PadToBudget_Search(m) == IF SplitDepth > 0 THEN m ELSE [m EXCEPT !.ops.lo = Bigger(m.ops.lo, 2 * MaxHeight)]

PadToBudget(m) ==
    IF SplitDepth > 0
    THEN [m EXCEPT !.ops.up = Bigger(m.ops.up, split_upper_budget),
                   !.ops.lo = Bigger(m.ops.lo, Budget - split_upper_budget)]
    ELSE [m EXCEPT !.ops.lo = Bigger(m.ops.lo, Budget)]

-----------------------------------------------------------------------------
(* Putting the nodes back.                                                 *)
LeafChoices(m) == [local : [DOMAIN m.local -> Leaves], sibs : [DOMAIN m.sibs -> Leaves]]

(* Node p with the leaf of its child c. *)
Linked(p, id, leaf) ==
    LET j == ChildAt(p.node, id)
    IN  IF p.node.isLeaf \/ j = 0 THEN p ELSE [p EXCEPT !.node.slots[j].leaf = leaf]

(* Mutant: the pointers to the siblings are forgotten. *)
ReassignAllLeaves_NoSibs(m, lf) ==
    LET fresh == Tuple([i \in DOMAIN m.local |-> [m.local[i] EXCEPT !.leaf = lf.local[i]]])
        down == Tuple([i \in DOMAIN fresh |->
                    IF i = Len(fresh) THEN fresh[i] ELSE Linked(fresh[i], fresh[i + 1].id, fresh[i + 1].leaf)])
    IN  [m EXCEPT !.local = down,
                  !.sibs = [i \in DOMAIN m.sibs |-> [m.sibs[i] EXCEPT !.leaf = lf.sibs[i]]],
                  !.root.leaf = IF down = <<>> THEN m.root.leaf ELSE down[1].leaf]

(* reassign_all_leaves: a new leaf for every node, then the pointers of    *)
(* the parents that are in local_, then the root's leaf.                   *)
ReassignAllLeaves(m, lf) ==
    LET fresh == Tuple([i \in DOMAIN m.local |-> [m.local[i] EXCEPT !.leaf = lf.local[i]]])
        sibs == Tuple([i \in DOMAIN m.sibs |-> [m.sibs[i] EXCEPT !.leaf = lf.sibs[i]]])
        child(loc, c) ==
            LET p == First(loc, LAMBDA n : n.id = c.par /\ ~n.node.isLeaf)
            IN  IF c.par = NoId \/ p = 0 THEN loc ELSE [loc EXCEPT ![p] = Linked(loc[p], c.id, c.leaf)]
        sib(loc, s) == IF s.id = NoId \/ s.ploc \notin DOMAIN loc THEN loc
                       ELSE [loc EXCEPT ![s.ploc] = Linked(loc[s.ploc], s.id, s.leaf)]
        linked == SE!FoldLeft(sib, SE!FoldLeft(child, fresh, fresh), sibs)
        r == First(linked, LAMBDA n : n.id = m.root.id)
    IN  [m EXCEPT !.local = linked, !.sibs = sibs,
                  !.root.leaf = IF r = 0 THEN m.root.leaf ELSE linked[r].leaf]

(* flush_all_to_stash; a sibling that was merged away is dropped. *)
FlushAllToStash(m) ==
    LET all == SE!ToSet(m.local) \cup {s \in SE!ToSet(m.sibs) : s.id # NoId}
        put(o) == LET here == {n \in all : OramForDepth(n.depth) = o}
                  IN  [i \in {n.id : n \in here} |->
                         LET n == CHOOSE x \in here : x.id = i
                         IN  [leaf |-> n.leaf, node |-> n.node]]
    IN  [m EXCEPT !.up = put("up") @@ m.up, !.lo = put("lo") @@ m.lo,
                  !.local = <<>>, !.sibs = <<>>]

Store(m, lf) == PadToBudget(FlushAllToStash(ReassignAllLeaves(m, lf)))

-----------------------------------------------------------------------------
(* insert.                                                                 *)
NewId(m) == m.next

(* Into an empty tree: a leaf of one key, straight to the stash. *)
InsertedRoot(m, key, v, leaf) ==
    [m EXCEPT ![OramForDepth(0)] =
                  (NewId(m) :> [leaf |-> leaf, node |-> LeafNode(<<key>>, <<v>>)]) @@ m[OramForDepth(0)],
              !.root = [id |-> NewId(m), leaf |-> leaf], !.next = m.next + 1]

(* Mutant: the value goes to the end, the key to its place. *)
InLeaf_ValueLast(node, key, v) ==
    LET pos == 1 + Cardinality({i \in DOMAIN node.keys : node.keys[i] < key})
    IN  LeafNode(SE!InsertAt(node.keys, pos, key), Append(node.slots, v))

InLeaf(node, key, v) ==
    LET pos == 1 + Cardinality({i \in DOMAIN node.keys : node.keys[i] < key})
    IN  LeafNode(SE!InsertAt(node.keys, pos, key), SE!InsertAt(node.slots, pos, v))

(* Mutant: the lower node keeps the keys that moved. *)
SplitLeaf_KeepsAll(m, i, leaf) ==
    LET n == m.local[i]
        mid == Len(n.node.keys) \div 2
        upper == LeafNode(SubSeq(n.node.keys, mid + 1, Len(n.node.keys)),
                          SubSeq(n.node.slots, mid + 1, Len(n.node.keys)))
    IN  [m EXCEPT !.local = Append(m.local, [id |-> NewId(m), leaf |-> leaf, node |-> upper,
                                             par |-> n.par, depth |-> n.depth]),
                  !.next = m.next + 1]

(* split_leaf: the upper half moves to a new node under the same parent. *)
SplitLeaf(m, i, leaf) ==
    LET n == m.local[i]
        mid == Len(n.node.keys) \div 2
        lower == LeafNode(SubSeq(n.node.keys, 1, mid), SubSeq(n.node.slots, 1, mid))
        upper == LeafNode(SubSeq(n.node.keys, mid + 1, Len(n.node.keys)),
                          SubSeq(n.node.slots, mid + 1, Len(n.node.keys)))
    IN  [m EXCEPT !.local = Append([m.local EXCEPT ![i].node = lower],
                                   [id |-> NewId(m), leaf |-> leaf, node |-> upper,
                                    par |-> n.par, depth |-> n.depth]),
                  !.next = m.next + 1]

(* The parent learns of the new node; a leaf without parent gets one.  An  *)
(* internal node that becomes too wide is not split (split_internal has no *)
(* caller).  The nodes below a new root do not name it as their parent, so *)
(* their new leaves are not written into it.                               *)
ParentOfSplit(m, i, leaf) ==
    LET new == LastOf(m)
        n == m.local[i]
        p == First(m.local, LAMBDA x : x.id = n.par /\ ~x.node.isLeaf)
        ci == find_child_index(m.local[p].node, n.node.keys[Len(n.node.keys)])
        at(x) == [id |-> x.id, leaf |-> x.leaf]
        top == InnerNode(<<new.node.keys[1]>>, <<at(n), at(new)>>)
    IN  IF n.par = NoId
        THEN [m EXCEPT !.local = Append(m.local, [id |-> NewId(m), leaf |-> leaf, node |-> top,
                                                  par |-> NoId, depth |-> 0]),
                       !.root.id = NewId(m), !.next = m.next + 1, !.forgotten = TRUE]
        ELSE IF p = 0 THEN m
        ELSE [m EXCEPT !.local[p].node =
                 InnerNode(SE!InsertAt(m.local[p].node.keys, ci, new.node.keys[1]),
                           SE!InsertAt(m.local[p].node.slots, ci + 1, at(new)))]

SplitIfFull(m, i, leaf) ==
    IF Len(m.local[i].node.keys) <= max_leaf_keys THEN m
    ELSE ParentOfSplit(SplitLeaf(m, i, leaf), i, leaf)

InsertedBelow(m, key, v, leaf) ==
    IF m.bad \/ ~LastOf(m).node.isLeaf THEN m
    ELSE SplitIfFull([m EXCEPT !.local[Len(m.local)].node = InLeaf(LastOf(m).node, key, v)],
                     Len(m.local), leaf)

Inserted(m, key, v, leaf) ==
    IF m.root.id = NoId THEN InsertedRoot(m, key, v, leaf)
    ELSE InsertedBelow(Traverse(m, key, m.root), key, v, leaf)

-----------------------------------------------------------------------------
(* remove.                                                                 *)
Without(node, i) == [node EXCEPT !.keys = SE!RemoveAt(node.keys, i),
                                 !.slots = SE!RemoveAt(node.slots, i)]

(* Mutant: the separator in the parent stays. *)
Borrow_OldSeparator(nd, sib, par, sep, left) ==
    LET k == IF left THEN sib.keys[Len(sib.keys)] ELSE sib.keys[1]
        s == IF left THEN sib.slots[Len(sib.slots)] ELSE sib.slots[1]
        down == IF nd.isLeaf THEN k ELSE par.keys[sep]
    IN  [nd |-> [nd EXCEPT !.keys = IF left THEN <<down>> \o nd.keys ELSE Append(nd.keys, down),
                           !.slots = IF left THEN <<s>> \o nd.slots ELSE Append(nd.slots, s)],
         sib |-> [sib EXCEPT !.keys = IF left THEN SE!Front(sib.keys) ELSE Tail(sib.keys),
                             !.slots = IF left THEN SE!Front(sib.slots) ELSE Tail(sib.slots)],
         par |-> par]

(* One key from the sibling to the node that has too few; an internal node *)
(* takes the separator and gives the parent the sibling's key.             *)
Borrow(nd, sib, par, sep, left) ==
    LET k == IF left THEN sib.keys[Len(sib.keys)] ELSE sib.keys[1]
        s == IF left THEN sib.slots[Len(sib.slots)] ELSE sib.slots[1]
        down == IF nd.isLeaf THEN k ELSE par.keys[sep]
        nd1 == [nd EXCEPT !.keys = IF left THEN <<down>> \o nd.keys ELSE Append(nd.keys, down),
                          !.slots = IF left THEN <<s>> \o nd.slots ELSE Append(nd.slots, s)]
        sib1 == [sib EXCEPT !.keys = IF left THEN SE!Front(sib.keys) ELSE Tail(sib.keys),
                            !.slots = IF left THEN SE!Front(sib.slots) ELSE Tail(sib.slots)]
        up == IF ~nd.isLeaf THEN k ELSE IF left THEN nd1.keys[1] ELSE sib1.keys[1]
    IN  [nd |-> nd1, sib |-> sib1, par |-> [par EXCEPT !.keys[sep] = up]]

(* The right one of the two nodes is emptied into the left one; the parent *)
(* forgets it and the separator, which an internal node keeps.             *)
Merge(nd, sib, par, sep, left) ==
    LET a == IF left THEN sib ELSE nd
        b == IF left THEN nd ELSE sib
        mid == IF nd.isLeaf THEN <<>> ELSE <<par.keys[sep]>>
        both == [a EXCEPT !.keys = a.keys \o mid \o b.keys, !.slots = a.slots \o b.slots]
        gone == [b EXCEPT !.keys = <<>>, !.slots = <<>>]
    IN  [nd |-> IF left THEN gone ELSE both, sib |-> IF left THEN both ELSE sib,
         par |-> [par EXCEPT !.keys = SE!RemoveAt(par.keys, sep),
                             !.slots = SE!RemoveAt(par.slots, sep + 1)]]

(* handle_delete_underflow for node i of the path.  An internal node that  *)
(* is merged into its left sibling is still the parent of the nodes below. *)
Underflow(m, i) ==
    LET nd == m.local[i]
        par == m.local[i - 1]
        j == ChildAt(par.node, nd.id)
        s == First(m.sibs, LAMBDA x : x.ploc = i - 1 /\ x.id # NoId)
        sib == m.sibs[s]
        left == sib.cidx < j
        sep == IF left THEN sib.cidx ELSE j
        spare == Len(sib.node.keys) > min_leaf_keys
        r == IF spare THEN Borrow(nd.node, sib.node, par.node, sep, left)
             ELSE Merge(nd.node, sib.node, par.node, sep, left)
    IN  IF \/ Len(nd.node.keys) >= min_leaf_keys \/ j = 0 \/ s = 0
           \/ sep > Len(par.node.keys) THEN m
        ELSE [m EXCEPT !.local[i].node = r.nd, !.local[i - 1].node = r.par,
                       !.sibs[s].node = r.sib,
                       !.sibs[s].id = IF spare \/ left THEN sib.id ELSE NoId,
                       !.forgotten = m.forgotten \/ (~nd.node.isLeaf /\ ~spare /\ left)]

(* A root without keys gives way to its only child; root_leaf_ stays, until *)
(* the child's new leaf if that is in local_.  All nodes come one level up. *)
Collapse(m) ==
    LET top == m.local[1].node
    IN  IF m.local = <<>> \/ top.isLeaf \/ top.keys # <<>> THEN m
        ELSE IF Len(top.slots) = 1
             THEN [m EXCEPT !.root.id = top.slots[1].id,
                            !.forgotten = m.forgotten \/ SplitDepth > 0
                               \/ \A i \in DOMAIN m.local : m.local[i].id # top.slots[1].id]
        ELSE IF top.slots = <<>> THEN [m EXCEPT !.root = [id |-> NoId, leaf |-> NoLeaf]]
        ELSE m

RemovedFromLeaf(node, key) ==
    IF node.isLeaf /\ find_leaf_index(node, key) # 0 THEN Without(node, find_leaf_index(node, key))
    ELSE node

(* Underflows are dealt with from the leaf up to the root's child. *)
UnderflowPath(m) ==
    LET up[n \in Nat] == IF n = 0 THEN m ELSE Underflow(up[n - 1], Len(m.local) + 1 - n)
    IN  up[Len(m.local) - 1]

RemovedBelow(m, key) ==
    IF m.bad \/ m.local = <<>> THEN m
    ELSE Collapse(UnderflowPath(
            [m EXCEPT !.local[Len(m.local)].node = RemovedFromLeaf(LastOf(m).node, key)]))

Removed(m, key) == RemovedBelow(Traverse(m, key, m.root), key)

-----------------------------------------------------------------------------
(* search.                                                                 *)
FoundAt(m, key) == IF m.bad \/ m.local = <<>> \/ ~LastOf(m).node.isLeaf THEN 0
                   ELSE find_leaf_index(LastOf(m).node, key)
Updated(m, key, u) ==
    IF FoundAt(m, key) = 0 \/ u = NoUpdate \/ IndexMode THEN m
    ELSE [m EXCEPT !.local[Len(m.local)].node.slots[FoundAt(m, key)] = u]
Data(m, key) == IF FoundAt(m, key) = 0 THEN NoValue ELSE LastOf(m).node.slots[FoundAt(m, key)]

-----------------------------------------------------------------------------
(* build_tree: leaves of max_leaf_keys keys, then levels of nodes with     *)
(* Order children; each node with the smallest key below it.               *)
Chunks(s, n) ==
    Tuple([c \in 1..((Len(s) + n - 1) \div n) |-> SubSeq(s, (c - 1) * n + 1, Smaller(c * n, Len(s)))])

LeafLevel(ks, v) ==
    LET parts == Chunks(ks, max_leaf_keys)
    IN  Tuple([c \in DOMAIN parts |->
                  [min |-> parts[c][1], id |-> c - 1,
                   node |-> LeafNode(parts[c], Tuple([i \in DOMAIN parts[c] |-> v[parts[c][i]]]))]])

InnerLevel(below, lf, first) ==
    LET parts == Chunks(below, Order)
        node(p) == InnerNode(Tuple([i \in 1..(Len(p) - 1) |-> p[i + 1].min]),
                             Tuple([i \in DOMAIN p |-> [id |-> p[i].id, leaf |-> lf[p[i].id]]]))
    IN  Tuple([c \in DOMAIN parts |->
                  [min |-> parts[c][1].min, id |-> first + c - 1, node |-> node(parts[c])]])

(* One more level on top, until there is one node. *)
NextLevel(x, lf) ==
    IF Len(x.levels[1]) <= 1 THEN x
    ELSE [levels |-> <<InnerLevel(x.levels[1], lf, x.first)>> \o x.levels,
          first |-> x.first + Len(Chunks(x.levels[1], Order))]
Levels(leafLevel, lf) ==
    LET up[n \in Nat] == IF n = 0 THEN [levels |-> <<leafLevel>>, first |-> Len(leafLevel)]
                         ELSE NextLevel(up[n - 1], lf)
    IN  up[Len(leafLevel)].levels

Sorted(S) == Tuple([i \in 1..Cardinality(S) |->
                      CHOOSE k \in S : Cardinality({j \in S : j < k}) = i - 1])

(* init: levels[d] holds the nodes of depth d - 1; every node gets a leaf. *)
Init ==
    /\ conf \in DOMAIN Configs
    /\ \E S \in Object.use.init, lf \in [0..(MaxIds - 1) -> InitLeaves] : \E v \in [S -> UsedValues] :
          LET leafLevel == LeafLevel(Sorted(S), v)
              levels == Levels(leafLevel, lf)
              at(o) == UNION {SE!ToSet(levels[d]) : d \in {e \in DOMAIN levels : OramForDepth(e - 1) = o}}
              put(o) == LET here == at(o)
                        IN  [i \in {x.id : x \in here} |->
                               [leaf |-> lf[i], node |-> (CHOOSE x \in here : x.id = i).node]]
          IN  /\ upper_oram = put("up") /\ oram = put("lo")
              /\ nextId = Cardinality(DOMAIN put("up") \cup DOMAIN put("lo"))
              /\ root = IF S = {} THEN [id |-> NoId, leaf |-> NoLeaf]
                        ELSE [id |-> levels[1][1].id, leaf |-> lf[levels[1][1].id]]
              /\ \A i \in nextId..(MaxIds - 1) : \A l \in InitLeaves : lf[i] <= l
    /\ broken = FALSE /\ forgotten = FALSE /\ ret = <<>> /\ last = [op |-> "init", ops |-> NoOps]

-----------------------------------------------------------------------------
(* The calls.                                                              *)
Commit(op, m, r) ==
    /\ upper_oram' = m.up /\ oram' = m.lo /\ root' = m.root /\ nextId' = m.next
    /\ broken' = m.bad /\ forgotten' = m.forgotten /\ ret' = r
    /\ last' = [op |-> op, ops |-> m.ops] /\ conf' = conf

Tree == [up |-> upper_oram, lo |-> oram]
InPlace(at, d) == /\ d < MaxHeight
                  /\ at.id \in DOMAIN Tree[OramForDepth(d)]
                  /\ Tree[OramForDepth(d)][at.id].leaf = at.leaf
Node(at, d) == Tree[OramForDepth(d)][at.id].node

(* The leaves below a pointer, with their depths; a dead end has no node.  *)
LeavesBelow(top) ==
    LET below[id \in Int, leaf \in Int, d \in Nat] ==
            LET at == [id |-> id, leaf |-> leaf]
                n == Node(at, d)
            IN  IF id = NoId THEN {}
                ELSE IF ~InPlace(at, d) THEN {[d |-> d, id |-> id, keys |-> <<NoId>>, slots |-> <<NoValue>>]}
                ELSE IF n.isLeaf THEN {[d |-> d, id |-> id, keys |-> n.keys, slots |-> n.slots]}
                ELSE UNION {below[n.slots[i].id, n.slots[i].leaf, d + 1] : i \in DOMAIN n.slots}
    IN  below[top.id, top.leaf, 0]
TreeLeaves == LeavesBelow(root)
Stored == UNION {SE!ToSet(n.keys) : n \in TreeLeaves}

(* New leaves, back to the stashes, padding. *)
Finish(op, m, r) == \E lf \in LeafChoices(m) : Commit(op, Store(m, lf), r)

FinishSearch(m, k, u) == Finish("search", Updated(m, k, u), <<Data(m, k)>>)

Search(k, u) ==
    /\ "search" \in Calls /\ ~broken
    /\ FinishSearch(Traverse(Start, k, root), k, u)

Insert(k, v) ==
    /\ "insert" \in Calls /\ ~broken
    /\ k \notin Stored /\ nextId + 2 <= MaxIds
    /\ \E leaf \in Leaves : Finish("insert", Inserted(Start, k, v, leaf), <<>>)

Remove(k) ==
    /\ "remove" \in Calls /\ ~broken
    /\ k \in Stored => Cardinality(Stored) > MinStored
    /\ Finish("remove", Removed(Start, k), <<>>)

DummyAccess ==
    /\ "dummy" \in Calls /\ ~broken
    /\ Commit("dummy", PadToBudget(Start), <<>>)

PartialDummyAccess ==
    /\ "dummy" \in Calls /\ ~broken
    /\ IF SplitDepth = 0 THEN Commit("dummy", PadToBudget(Start), <<>>)
       ELSE Commit("partial", [Start EXCEPT !.ops = [up |-> Smaller(SplitDepth, Budget), lo |-> 1]],
                   <<>>)

Next ==
    \/ \E k \in UsedKeys, u \in UsedValues \cup {NoUpdate} : Search(k, u)
    \/ \E k \in UsedKeys, v \in UsedValues : Insert(k, v)
    \/ \E k \in UsedKeys : Remove(k)
    \/ DummyAccess
    \/ PartialDummyAccess

Spec == Init /\ [][Next]_vars

-----------------------------------------------------------------------------
(* Properties.                                                             *)
IsBlocks(o) ==
    \A i \in DOMAIN o :
        /\ i \in 0..(MaxIds - 1) /\ o[i].leaf \in Leaves
        /\ Len(o[i].node.slots) = Len(o[i].node.keys) + IF o[i].node.isLeaf \/ o[i].node.slots = <<>>
                                                       THEN 0 ELSE 1

(* The calls after which the code's pointers may be outdated: a root leaf  *)
(* was split, the root gave way to a sibling's node, or an internal node   *)
(* was merged into its left sibling.  Where only one leaf can be drawn,    *)
(* and one ORAM holds all nodes, they are right all the same.              *)
Outdated == forgotten /\ (Cardinality(Leaves) > 1 \/ SplitDepth > 0)

(* Until then no call fails to find a node: the leaf that a parent records *)
(* is the leaf of the child's block, through splits of leaves, borrowing   *)
(* and merging on all levels, and the collapse of the root onto a node of  *)
(* the path.                                                               *)
NeverThrows == broken => Outdated

(* Every node has the children its keys call for, every pointer of the     *)
(* tree leads to a node, all leaves have one depth, and none holds more    *)
(* than max_leaf_keys keys or a key of another leaf.  Pointers that may be *)
(* outdated lead nowhere.                                                  *)
TreeIntact ==
    ~Outdated =>
    /\ IsBlocks(upper_oram) /\ IsBlocks(oram)
    /\ \A n \in TreeLeaves : NoId \notin SE!ToSet(n.keys) /\ Len(n.keys) <= max_leaf_keys
    /\ \A n, o \in TreeLeaves :
          /\ n.d = o.d
          /\ n # o => SE!ToSet(n.keys) \cap SE!ToSet(o.keys) = {}

(* The separators lead a search for every stored key to the leaf that      *)
(* holds it, after borrowing and merging moved keys between leaves.        *)
KeysAtEnd(top, key) ==
    LET end[id \in Int, leaf \in Int, d \in Nat] ==
            LET at == [id |-> id, leaf |-> leaf]
                n == Node(at, d)
                c == n.slots[find_child_index(n, key)]
            IN  IF ~InPlace(at, d) THEN {}
                ELSE IF n.isLeaf THEN SE!ToSet(n.keys)
                ELSE end[c.id, c.leaf, d + 1]
    IN  end[top.id, top.leaf, 0]
SearchReaches == ~broken /\ ~Outdated => \A k \in Stored \ {NoId} : k \in KeysAtEnd(root, k)

(* The number of ORAM accesses tells search, insert, remove and dummy not  *)
(* apart (test BPlusOmap.OperationTypeHiding).                             *)
RoundsHidden ==
    last.op \in {"search", "insert", "remove", "dummy"} =>
        last.ops = [up |-> split_upper_budget, lo |-> Budget - split_upper_budget]

(* BPlusOmap implements the dictionary of OmapInterface: what the leaf     *)
(* blocks hold is what the calls stored, and search returns it.  Stated of *)
(* the callers that use more than one payload.                             *)
LeafBlocks == {n \in {upper_oram[i].node : i \in DOMAIN upper_oram}
                     \cup {oram[i].node : i \in DOMAIN oram} : n.isLeaf}
Contents ==
    [k \in Keys |->
        LET holders == {n \in LeafBlocks : find_leaf_index(n, k) # 0}
            n == CHOOSE x \in holders : TRUE
        IN  IF holders = {} THEN NoValue ELSE n.slots[find_leaf_index(n, k)]]
Payloads == Cardinality(UsedValues) > 1
Abstract == INSTANCE OmapInterface WITH
    kv <- IF Payloads THEN Contents ELSE [k \in Keys |-> NoValue],
    ret <- IF Payloads THEN ret ELSE <<>>
Dictionary == Abstract!OmapSpec
=============================================================================
