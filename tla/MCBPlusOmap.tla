---------------------------- MODULE MCBPlusOmap ----------------------------
(***************************************************************************)
(* The BPlusOmap objects, and their callers, that TLC looks at.            *)
(***************************************************************************)
EXTENDS BPlusOmap
CONSTANTS v1, v2

MCKeys == 1..7
AllCalls == {"search", "insert", "remove", "dummy"}

(* A caller with keys 1..n that stores the sets of init by init, keeps at  *)
(* least min of the keys and makes at most ids blocks.                     *)
Caller(n, vs, init, min, ids) ==
    [keys |-> 1..n, values |-> vs, init |-> init, calls |-> AllCalls, min |-> min, ids |-> ids]

MCConfigs ==
    << \* two levels, every node gets new leaves; from one key, and down to one
       [order |-> 3, index |-> FALSE, split |-> 0, height |-> 3, leaves |-> {0, 1}, drawn |-> {0, 1},
        use |-> Caller(4, {v1}, {{1, 3, 4}, {1}}, 1, 5)],
       \* the index mode of the cold tier, with its root in the upper ORAM
       [order |-> 2, index |-> TRUE, split |-> 1, height |-> 3, leaves |-> {0, 1}, drawn |-> {0, 1},
        use |-> Caller(4, {v1}, {{1, 3, 4}}, 1, 5)],
       \* three levels: borrowing and merging of internal nodes
       [order |-> 3, index |-> FALSE, split |-> 0, height |-> 4, leaves |-> {0}, drawn |-> {0},
        use |-> Caller(7, {v1}, {1..7}, 5, 9)],
       \* four levels, every node gets new leaves: merging up to the root
       [order |-> 2, index |-> FALSE, split |-> 0, height |-> 4, leaves |-> {0, 1}, drawn |-> {0},
        use |-> [keys |-> {2, 4, 5}, values |-> {v1}, init |-> {1..5},
                 calls |-> {"remove"}, min |-> 3, ids |-> 11]],
       \* two payloads, trees down to none
       [order |-> 3, index |-> FALSE, split |-> 0, height |-> 3, leaves |-> {0}, drawn |-> {0},
        use |-> Caller(4, {v1, v2}, {1..4}, 0, 6)] >>
=============================================================================
