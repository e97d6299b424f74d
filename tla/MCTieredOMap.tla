---------------------------- MODULE MCTieredOMap ----------------------------
(***************************************************************************)
(* Values of the function-valued constants of TieredOMap for TLC.          *)
(***************************************************************************)
EXTENDS TieredOMap

MCBlockOf == [k \in StoredKeys |-> k + 10]
MCPosOf   == [k \in Keys |-> k % NumPositions]

(* The bytes of a payload are no counters; these pass for some. *)
MCTailOf  == [v \in Values \cup {Cut} |-> [cnt |-> 2, ep |-> 0, fp |-> 1]]
=============================================================================
