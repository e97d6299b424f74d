------------------------------ MODULE MCDAOram ------------------------------
(***************************************************************************)
(* DAORAMs of four data keys for TLC.  With three counters per block there *)
(* are two groups, one of them not full.                                   *)
(***************************************************************************)
EXTENDS DAOram

RECURSIVE LevelSize(_)
LevelSize(t) == IF t = 0 THEN 4 ELSE (LevelSize(t - 1) + NumIc - 1) \div NumIc

MCSize   == [t \in 0 .. NumLevels |-> LevelSize(t)]
MCPmKeys == [k \in 0 .. 3 |-> [t \in 0 .. NumLevels |-> k \div (NumIc ^ t)]]
=============================================================================
