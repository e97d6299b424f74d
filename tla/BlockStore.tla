----------------------------- MODULE BlockStore -----------------------------
(***************************************************************************)
(* What a PathORAM promises its caller: a memory of blocks.  The tree, the *)
(* stash and the position map do not show.  TieredOMap's variable "data"   *)
(* is such a memory.  After a stash overflow nothing is promised.          *)
(***************************************************************************)
CONSTANTS Keys,      \* block ids
          Values,    \* payloads
          NoVal,     \* no block is stored under this id
          NoWrite    \* new_value == nullptr

VARIABLES mem,       \* block id -> payload
          result,    \* the payload the last read returned
          broken     \* an overflow was thrown

bsVars == <<mem, result, broken>>

(* Read a stored block, and overwrite it unless w is NoWrite. *)
Access(k, w) ==
    /\ ~broken /\ mem[k] # NoVal
    /\ result' = mem[k]
    /\ mem' = IF w = NoWrite THEN mem ELSE [mem EXCEPT ![k] = w]
    /\ broken' = broken

(* Store, overwrite or (v = NoVal) delete a block. *)
Put(k, v) ==
    /\ ~broken
    /\ mem' = [mem EXCEPT ![k] = v]
    /\ UNCHANGED <<result, broken>>

(* An exception: the contents are no longer defined. *)
Break ==
    /\ ~broken /\ broken' = TRUE
    /\ mem' \in [Keys -> Values \cup {NoVal}]
    /\ result' \in Values \cup {NoVal}

BSInit ==
    /\ mem \in [Keys -> Values \cup {NoVal}]
    /\ result = NoVal /\ broken = FALSE

BSNext ==
    \/ \E k \in Keys, w \in Values \cup {NoWrite} : Access(k, w)
    \/ \E k \in Keys, v \in Values \cup {NoVal} : Put(k, v)
    \/ Break

BSSpec == BSInit /\ [][BSNext]_bsVars
=============================================================================
