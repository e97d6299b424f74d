---------------------------- MODULE MCAVLSteps ----------------------------
(***************************************************************************)
(* The AVLOmap objects, and their callers, that TLC looks at.              *)
(***************************************************************************)
EXTENDS AVLSteps
CONSTANTS v1, v2

MCKeys == 1..5
NoSteps == [main |-> {}, pbs |-> {}, max |-> 0]
Steps(pbs, max) == [main |-> {"search", "dummy", "partial"}, pbs |-> pbs, max |-> max]

(* A caller with keys 1..n, any of them stored by init. *)
Caller(n, vs, calls, steps) ==
    [keys |-> 1..n, values |-> vs, init |-> SUBSET (1..n), calls |-> calls] @@ steps

AllCalls == {"search", "insert", "remove", "dummy"}

MCConfigs ==
    << \* complete calls: the tree's shapes; the payloads; two ORAMs; search_piggyback
       [capacity |-> 5, split |-> 0, use |-> Caller(5, {v1}, AllCalls, NoSteps)],
       [capacity |-> 4, split |-> 0, use |-> Caller(4, {v1, v2}, AllCalls, NoSteps)],
       [capacity |-> 6, split |-> 2, use |-> Caller(5, {v1}, {"search", "dummy"}, NoSteps)],
       [capacity |-> 3, split |-> 0, use |-> Caller(3, {v1}, {"both"}, NoSteps)],
       \* stepped accesses: two in a row; two ORAMs; every piggyback
       [capacity |-> 3, split |-> 0, use |-> Caller(3, {v1, v2}, {}, Steps({"dummy"}, 2))],
       [capacity |-> 3, split |-> 1, use |-> Caller(3, {v1}, {}, Steps({"dummy"}, 2))],
       [capacity |-> 4, split |-> 0,
        use |-> Caller(4, {v1}, {}, Steps({"search", "insert", "dummy"}, 1))] >>
=============================================================================
