-------------------------- MODULE MCNetworkStorage --------------------------
(* NetworkStorage for TLC: trees of one and of two levels, one-block       *)
(* buckets, so that every path has room for a block and can also be full.  *)
EXTENDS NetworkStorage
CONSTANTS h1, h2

OneLevel  == [num_data |-> 1, bucket_size |-> 1]
TwoLevels == [num_data |-> 2, bucket_size |-> 1]
MCShapes  == [t \in BOOLEAN |-> IF t THEN {OneLevel} ELSE {OneLevel, TwoLevels}]
MCTimedShapes == [t \in {TRUE} |-> {OneLevel}]
MCBlocks == {[key |-> 1, leaf |-> 0]}
MCLoads  == {<<>>, <<[key |-> 1, leaf |-> 0]>>}
=============================================================================
