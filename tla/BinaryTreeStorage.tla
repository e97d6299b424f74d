------------------------- MODULE BinaryTreeStorage -------------------------
(***************************************************************************)
(* One server-side store: a binary tree of buckets in an array, node 0 at  *)
(* the root.  A store is a value here; the operations are functions from   *)
(* stores to stores.  A bucket is the sequence of its blocks.              *)
(***************************************************************************)
EXTENDS Integers, Sequences, FiniteSets

CeilLog2(n) ==
    IF n <= 1 THEN 0 ELSE CHOOSE k \in 1 .. n : n <= 2 ^ k /\ 2 ^ (k - 1) < n

LevelFor(numData) == CeilLog2(numData) + 1
LeafRange(level)  == 2 ^ (level - 1)
TreeNodes(level)  == 0 .. 2 ^ level - 2

(* The constructor, and reset of an existing store. *)
NewTree(shape) ==
    LET level == LevelFor(shape.num_data)
    IN  [level       |-> level,
         bucket_size |-> shape.bucket_size,
         nodes       |-> [n \in TreeNodes(level) |-> <<>>]]

(* get_path_indices and get_merged_path_indices *)
PathNodes(level, leaf) ==
    {((LeafRange(level) + leaf) \div 2 ^ d) - 1 : d \in 0 .. level - 1}
MergedNodes(level, leaves) == UNION {PathNodes(level, l) : l \in leaves}

(* fill_data_to_leaf: the deepest bucket with room on the block's path; a  *)
(* block that finds no room is left out.                                   *)
Deepest(S) == CHOOSE n \in S : \A k \in S : n >= k
Place(t, nodes, b) ==
    LET room == {n \in PathNodes(t.level, b.leaf) : Len(nodes[n]) < t.bucket_size}
    IN  IF room = {} THEN nodes ELSE [nodes EXCEPT ![Deepest(room)] = Append(@, b)]
Fill(t, b) == [t EXCEPT !.nodes = Place(t, @, b)]

(* bulk_load, block after block, and the keys it reports *)
Loaded(t, blocks) ==
    LET after[n \in 0 .. Len(blocks)] ==
            IF n = 0 THEN t.nodes ELSE Place(t, after[n - 1], blocks[n])
    IN  after[Len(blocks)]
Load(t, blocks) == [t EXCEPT !.nodes = Loaded(t, blocks)]
Placed(t) ==
    UNION {{t.nodes[n][i].key : i \in DOMAIN t.nodes[n]} : n \in DOMAIN t.nodes}

(* read_path and read_multiple_paths; write_path and write_multiple_paths *)
ReadNodes(t, S) == [n \in S |-> t.nodes[n]]
WriteNodes(t, data) ==
    [t EXCEPT !.nodes =
        [n \in DOMAIN @ |-> IF n \in DOMAIN data THEN data[n] ELSE @[n]]]
=============================================================================
