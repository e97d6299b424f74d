------------------------------ MODULE PathORAM ------------------------------
(***************************************************************************)
(* PathORAM over BinaryTreeStorage: a binary tree of buckets, the client's *)
(* stash and its position map.  A block lies in the stash or in a bucket   *)
(* on the path to the leaf its position map entry names.                   *)
(*                                                                         *)
(* The callers use it in two ways: access, for the data ORAM, and, for the *)
(* OMAP nodes, taking blocks out (read a path, extract_from_stash, evict)  *)
(* and giving them back (set_leaf, add_to_stash).  In a batched round a    *)
(* second path may be read and evicted together with the first.            *)
(*                                                                         *)
(* An exception ends the behaviour: what the code leaves behind is         *)
(* recorded, and nothing is done with it afterwards.                       *)
(***************************************************************************)
EXTENDS Integers, FiniteSets

CONSTANTS
    Keys,       \* block ids
    InitKeys,   \* the ids of the blocks given to init
    Values,     \* payloads
    NoVal,      \* no payload
    NoWrite,    \* new_value == nullptr
    NoNode,     \* fill_block_to_path found no bucket with room
    Level,      \* levels of the tree: ceil_log2(num_data) + 1
    Z,          \* bucket_size
    StashMax,   \* stash_max_size_
    PairRounds  \* may a batched round read a second path?

ASSUME OramAssumption ==
    /\ Keys \subseteq Nat /\ InitKeys \subseteq Keys /\ IsFiniteSet(Keys)
    /\ NoVal \notin Values /\ NoWrite \notin Values /\ NoVal # NoWrite
    /\ Level \in Nat \ {0} /\ Z \in Nat \ {0} /\ StashMax \in Nat
    /\ PairRounds \in BOOLEAN

NoLeaf == -1     \* INVALID_LEAF

LeafRange == 2 ^ (Level - 1)
Leaves    == 0 .. LeafRange - 1

(* get_path_indices: from the leaf's node up to the root 0; the parent of  *)
(* node n is (n - 1) / 2.                                                  *)
UpFrom[n \in Nat] == {n} \cup (IF n = 0 THEN {} ELSE UpFrom[(n - 1) \div 2])

PathOf == [leaf \in Leaves |-> UpFrom[LeafRange - 1 + leaf]]
Path(leaf) == PathOf[leaf]
Nodes      == UNION {Path(l) : l \in Leaves}

(* get_merged_path_indices *)
MergedPath(leaves) == UNION {Path(l) : l \in leaves}

ASSUME NodeAssumption == NoNode \notin Nodes

Blocks == [key : Keys, leaf : Leaves, val : Values]

VARIABLES
    tree,     \* BinaryTreeStorage::storage_: node -> its bucket's real blocks
    stash,    \* stash_
    posMap,   \* pos_map_
    held,     \* blocks the caller has extracted (local_ of the OMAPs)
    owned,    \* the ids the caller has stored and not dropped
    result,   \* payload returned by the last read
    failure   \* "none", or the exception that was thrown

vars == <<tree, stash, posMap, held, owned, result, failure>>

HeldKeys == {b.key : b \in held}

-----------------------------------------------------------------------------
(* fill_block_to_path for every block of S in turn: a block goes to the    *)
(* deepest bucket of the given paths that lies on its own path and has     *)
(* room (a deeper node has a larger index).  The order of the blocks (an   *)
(* unordered_map feeds the stash) is left open: p is the outcome of some   *)
(* order exactly if every bucket that a block passed by is full.           *)
Bucket(p, n) == {b \in DOMAIN p : p[b] = n}

Eligible(b, leaves) == Path(b.leaf) \cap MergedPath(leaves)

(* Mutant: the first bucket with room, from the root down. *)
Placements_RootFirst(S, leaves) ==
    {p \in [S -> MergedPath(leaves) \cup {NoNode}] :
        /\ \A n \in MergedPath(leaves) : Cardinality(Bucket(p, n)) <= Z
        /\ \A b \in S :
             /\ p[b] \in Eligible(b, leaves) \cup {NoNode}
             /\ \A n \in Eligible(b, leaves) :
                  p[b] = NoNode \/ n < p[b] => Cardinality(Bucket(p, n)) = Z}

Placements(S, leaves) ==
    {p \in [S -> MergedPath(leaves) \cup {NoNode}] :
        /\ \A n \in MergedPath(leaves) : Cardinality(Bucket(p, n)) <= Z
        /\ \A b \in S :
             /\ p[b] \in Eligible(b, leaves) \cup {NoNode}
             /\ \A n \in Eligible(b, leaves) :
                  p[b] = NoNode \/ n > p[b] => Cardinality(Bucket(p, n)) = Z}

(* evict_stash, prepare_eviction(_paths) and the write of their result.    *)
(* The overflow is thrown after the stash was replaced and before the tree *)
(* is written.                                                             *)
Evict(S, leaves) ==
    \E p \in Placements(S, leaves) :
        /\ stash' = Bucket(p, NoNode)
        /\ IF Cardinality(Bucket(p, NoNode)) > StashMax
           THEN tree' = tree /\ failure' = "overflow"
           ELSE /\ tree' = [n \in Nodes |-> IF n \in MergedPath(leaves)
                                            THEN Bucket(p, n) ELSE tree[n]]
                /\ failure' = failure

(* Mutant: the paths' blocks are not added to the stash but replace it. *)
WithPaths_Replace(leaves) == UNION {tree[n] : n \in MergedPath(leaves)}

(* read_path_to_stash, read_multiple_paths_to_stash, apply_fetched_path:   *)
(* the stash with the paths' blocks added.                                 *)
WithPaths(leaves) == stash \cup UNION {tree[n] : n \in MergedPath(leaves)}

(* The leaves a round reads: the wanted one, and perhaps a second.         *)
Rounds(leaf) == {{leaf}} \cup (IF PairRounds THEN {{leaf, l} : l \in Leaves}
                               ELSE {})

(* find_in_stash or extract_from_stash found nothing. *)
Missing(S) ==
    /\ failure' = "missing"
    /\ stash' = S
    /\ UNCHANGED <<tree, held, result>>

-----------------------------------------------------------------------------
(* init: random leaves, bulk_load, and what found no place in the stash    *)
(* (whose limit is not tested here).                                       *)
Init ==
    \E pos \in [InitKeys -> Leaves], v \in Values :
        LET blocks == {[key |-> k, leaf |-> pos[k], val |-> v] : k \in InitKeys}
        IN  \E p \in Placements(blocks, Leaves) :
              /\ tree = [n \in Nodes |-> Bucket(p, n)]
              /\ stash = Bucket(p, NoNode)
              /\ posMap = [k \in Keys |-> IF k \in InitKeys THEN pos[k]
                                          ELSE NoLeaf]
              /\ held = {} /\ owned = InitKeys
              /\ result = NoVal /\ failure = "none"

(* Mutant: the path of the new leaf is read. *)
access_NewPath(k, w) ==
    /\ failure = "none" /\ k \in owned \ HeldKeys
    /\ \E new \in Leaves :
         /\ posMap' = [posMap EXCEPT ![k] = new]
         /\ LET S == WithPaths({new}) IN
            IF \A b \in S : b.key # k THEN Missing(S)
            ELSE \E b \in S :
                   /\ b.key = k
                   /\ result' = b.val
                   /\ Evict((S \ {b}) \cup
                            {[key |-> k, leaf |-> new,
                              val |-> IF w = NoWrite THEN b.val ELSE w]}, {new})
                   /\ UNCHANGED held
    /\ UNCHANGED owned

(* access of a block the caller has stored and not taken out. *)
access(k, w) ==
    /\ failure = "none" /\ k \in owned \ HeldKeys
    /\ \E new \in Leaves :
         /\ posMap' = [posMap EXCEPT ![k] = new]
         /\ LET S == WithPaths({posMap[k]}) IN
            IF \A b \in S : b.key # k THEN Missing(S)
            ELSE \E b \in S :
                   /\ b.key = k
                   /\ result' = b.val
                   /\ Evict((S \ {b}) \cup
                            {[key |-> k, leaf |-> new,
                              val |-> IF w = NoWrite THEN b.val ELSE w]},
                            {posMap[k]})
                   /\ UNCHANGED held
    /\ UNCHANGED owned

(* dummy_access, also as the padding round of an OMAP. *)
dummy_access ==
    /\ failure = "none"
    /\ \E leaf \in Leaves : \E leaves \in Rounds(leaf) :
         Evict(WithPaths(leaves), leaves)
    /\ UNCHANGED <<posMap, held, owned, result>>

(* move_to_local, or a traversal round of the step machine: the path is    *)
(* read, the block is taken out of the stash, the rest is evicted.  The    *)
(* position map is not touched.                                            *)
Extract(k) ==
    /\ failure = "none" /\ k \in owned \ HeldKeys
    /\ \E leaves \in Rounds(posMap[k]) :
         LET S == WithPaths(leaves) IN
         IF \A b \in S : b.key # k THEN Missing(S)
         ELSE \E b \in S :
                /\ b.key = k
                /\ result' = b.val
                /\ held' = held \cup {b}
                /\ Evict(S \ {b}, leaves)
    /\ UNCHANGED <<posMap, owned>>

(* Mutant: the block goes back under the leaf it was read from. *)
GiveBack_OldLeaf(k, w) ==
    /\ failure = "none"
    /\ \E b \in held, new \in Leaves :
         /\ b.key = k
         /\ held' = held \ {b}
         /\ posMap' = [posMap EXCEPT ![k] = new]
         /\ stash' = stash \cup {[key |-> k, leaf |-> b.leaf,
                                  val |-> IF w = NoWrite THEN b.val ELSE w]}
    /\ UNCHANGED <<tree, owned, result, failure>>

(* reassign_leaves and flush_local_to_stash for one block: random_leaf,    *)
(* set_leaf, add_to_stash.  The stash's limit is not tested here.          *)
GiveBack(k, w) ==
    /\ failure = "none"
    /\ \E b \in held, new \in Leaves :
         /\ b.key = k
         /\ held' = held \ {b}
         /\ posMap' = [posMap EXCEPT ![k] = new]
         /\ stash' = stash \cup {[key |-> k, leaf |-> new,
                                  val |-> IF w = NoWrite THEN b.val ELSE w]}
    /\ UNCHANGED <<tree, owned, result, failure>>

(* A block that is new to this ORAM: random_leaf, set_leaf, add_to_stash.  *)
AddNew(k, v) ==
    /\ failure = "none" /\ k \notin owned
    /\ \E new \in Leaves :
         /\ posMap' = [posMap EXCEPT ![k] = new]
         /\ stash' = stash \cup {[key |-> k, leaf |-> new, val |-> v]}
    /\ owned' = owned \cup {k}
    /\ UNCHANGED <<tree, held, result, failure>>

(* An extracted block is not given back; its position map entry stays.     *)
Drop(k) ==
    /\ failure = "none"
    /\ \E b \in held : b.key = k /\ held' = held \ {b}
    /\ owned' = owned \ {k}
    /\ UNCHANGED <<tree, stash, posMap, result, failure>>

Next ==
    \/ \E k \in Keys, w \in Values \cup {NoWrite} : access(k, w)
    \/ dummy_access
    \/ \E k \in Keys : Extract(k)
    \/ \E k \in Keys, w \in Values \cup {NoWrite} : GiveBack(k, w)
    \/ \E k \in Keys, v \in Values : AddNew(k, v)
    \/ \E k \in Keys : Drop(k)

Spec == Init /\ [][Next]_vars

-----------------------------------------------------------------------------
(* Type correctness of the ORAM's state (path_oram.h:92-107). *)
TypeOK ==
    /\ tree \in [Nodes -> SUBSET Blocks]
    /\ stash \subseteq Blocks /\ held \subseteq Blocks
    /\ posMap \in [Keys -> Leaves \cup {NoLeaf}]
    /\ owned \subseteq Keys
    /\ result \in Values \cup {NoVal}
    /\ failure \in {"none", "overflow", "missing"}

Stored == stash \cup held \cup UNION {tree[n] : n \in Nodes}

(* The invariant of Path ORAM, as long as nothing was thrown.  A block has *)
(* one copy, in one place; it carries the leaf of its position map entry,  *)
(* and in the tree it lies on the path to that leaf, the only path access  *)
(* reads for it.  No block is lost and none appears.                       *)
OneCopy ==
    /\ \A b, c \in Stored : b.key = c.key => b = c
    /\ \A m, n \in Nodes : m # n => tree[m] \cap tree[n] = {}
    /\ \A n \in Nodes : tree[n] \cap (stash \cup held) = {}
    /\ stash \cap held = {}
OnItsPath ==
    /\ \A b \in Stored : b.leaf = posMap[b.key]
    /\ \A n \in Nodes : \A b \in tree[n] : n \in Path(b.leaf)
NothingLost == owned = {b.key : b \in Stored}

PathInvariant == failure = "none" => OneCopy /\ OnItsPath /\ NothingLost

(* "key not found" (path_oram.cpp:64, 273) is never thrown for a block the *)
(* caller has stored: the one path read for it holds it.                   *)
NeverMissing == failure # "missing"

(* The eviction wastes no room: what is read from a path fits back into    *)
(* it, however the blocks that were in the stash before compete for its    *)
(* buckets.  The overflow exception is thrown only by a call that already  *)
(* found the stash at its limit (access, which may add one block) or over  *)
(* it (every other call).                                                  *)
OverflowOnlyWhenFull ==
    [][failure = "none" /\ failure' = "overflow" =>
         \/ Cardinality(stash) > StashMax
         \/ Cardinality(stash) = StashMax /\ posMap' # posMap]_vars

(* The caller sees a memory of blocks: see BlockStore. *)
ValueOf(k) == IF \E b \in Stored : b.key = k
              THEN (CHOOSE b \in Stored : b.key = k).val ELSE NoVal
BS == INSTANCE BlockStore WITH mem    <- [k \in Keys |-> ValueOf(k)],
                               broken <- failure # "none"
ImplementsBlockStore == BS!BSSpec
=============================================================================
