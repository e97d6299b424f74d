--------------------------- MODULE OmapInterface ---------------------------
(***************************************************************************)
(* What every OMAP promises its caller (include/.../omap_interface.h): a   *)
(* dictionary with search (and overwrite), insert and remove.  Neither the *)
(* search tree nor the ORAM below it shows.  A search for an absent key    *)
(* returns the empty Bytes.                                                *)
(***************************************************************************)
EXTENDS Sequences

CONSTANTS Keys,     \* the keys a caller may name
          Values,   \* the payloads
          NoValue,  \* the empty Bytes
          NoUpdate  \* update == nullptr

VARIABLES kv,       \* key -> payload; NoValue marks an absent key
          ret       \* the answers of the last call: none, one or two payloads

omapVars == <<kv, ret>>

Updated(f, k, u) == IF u = NoUpdate \/ f[k] = NoValue THEN f ELSE [f EXCEPT ![k] = u]

Search(k, u) ==
    /\ ret' = <<kv[k]>>
    /\ kv' = Updated(kv, k, u)

(* The callers insert a key only when no record of it is stored. *)
Insert(k, v) ==
    /\ ret' = <<>>
    /\ kv[k] = NoValue
    /\ kv' = [kv EXCEPT ![k] = v]

Remove(k) ==
    /\ ret' = <<>>
    /\ kv' = [kv EXCEPT ![k] = NoValue]

(* search_piggyback: a search of k, then a search ("s"), a delete ("d") or *)
(* an insert ("i") of x, which sees what the first one wrote.              *)
SearchPiggyback(k, u, x, op, v) ==
    LET kv1 == Updated(kv, k, u)
    IN  /\ ret' = <<kv[k], kv1[x]>>
        /\ op = "i" => kv1[x] = NoValue
        /\ kv' = CASE op = "s" -> kv1
                   [] op = "d" -> [kv1 EXCEPT ![x] = NoValue]
                   [] op = "i" -> [kv1 EXCEPT ![x] = v]

(* dummy_access and partial_dummy_access. *)
Dummy == kv' = kv /\ ret' = <<>>

OmapInit == kv \in [Keys -> Values \cup {NoValue}] /\ ret = <<>>

OmapNext ==
    \/ Dummy
    \/ \E k \in Keys, u \in Values \cup {NoUpdate} : Search(k, u)
    \/ \E k \in Keys : Remove(k) \/ \E v \in Values : Insert(k, v)
    \/ Len(ret') = 2 /\ \E k, x \in Keys, u \in Values \cup {NoUpdate},
                            v \in Values, op \in {"s", "d", "i"} :
                              SearchPiggyback(k, u, x, op, v)

OmapSpec == OmapInit /\ [][OmapNext]_omapVars
=============================================================================
