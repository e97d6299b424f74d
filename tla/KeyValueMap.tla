---------------------------- MODULE KeyValueMap ----------------------------
(***************************************************************************)
(* What TieredOMap::access promises its client, whatever tier, cache or    *)
(* pending slot a record lives in: a map from keys to values with one      *)
(* operation, which reads a record and may overwrite it.                   *)
(***************************************************************************)
CONSTANTS Keys,      \* the keys a client may name
          Values,    \* the payloads
          NoValue,   \* the empty Bytes returned for an absent key
          NoWrite,   \* new_value == nullptr
          NoRequest  \* no call is under way

VARIABLES map,       \* the stored records; NoValue marks an absent key
          req,       \* key and new_value of the call under way
          reply      \* AccessResult::value of that call

kvVars == <<map, req, reply>>

(* Overwriting an absent key stores nothing: access never inserts.  A      *)
(* write may be answered with the old or with the new payload.             *)
Access(k, w) ==
    /\ req = NoRequest
    /\ req' = <<k, w>>
    /\ map' = IF w = NoWrite \/ map[k] = NoValue THEN map
              ELSE [map EXCEPT ![k] = w]
    /\ reply' \in IF w = NoWrite THEN {map[k]} ELSE {map[k], w}

(* The call returns, and its result is the caller's. *)
AccessReturn ==
    /\ req # NoRequest
    /\ req' = NoRequest /\ reply' = NoValue
    /\ map' = map

KVInit ==
    /\ map \in [Keys -> Values \cup {NoValue}]
    /\ req = NoRequest /\ reply = NoValue

KVNext == \/ \E k \in Keys, w \in Values \cup {NoWrite} : Access(k, w)
          \/ AccessReturn

KVSpec == KVInit /\ [][KVNext]_kvVars
=============================================================================
