------------------------ MODULE MCInterleavedAccess ------------------------
(***************************************************************************)
(* Values of the constants of InterleavedAccess for TLC.                   *)
(***************************************************************************)
EXTENDS InterleavedAccess

MCBlockOf == [k \in StoredKeys |-> k + 10]
MCPosOf   == [k \in Keys |-> 0]
MCTailOf  == [v \in Values \cup {Cut} |-> [cnt |-> 0, ep |-> 0, fp |-> 0]]

Client(tcp, backend, partial, pb, early, max) ==
    [tcp |-> tcp, backend |-> backend, partial |-> partial, pb |-> pb,
     early |-> early, max |-> max]

(* Maintenance on from the start. *)
DynamicModes == { Client(FALSE, "BPlus", FALSE, FALSE, FALSE, 10),
                  Client(TRUE, "BPlus", TRUE, FALSE, FALSE, 10),
                  Client(TRUE, "AVL", FALSE, FALSE, FALSE, 9) }

(* Maintenance enabled later, at once or after static use. *)
LateModes == { Client(FALSE, "BPlus", FALSE, FALSE, TRUE, 5),
               Client(TRUE, "BPlus", FALSE, FALSE, TRUE, 5),
               Client(FALSE, "AVL", FALSE, FALSE, FALSE, 8) }

(* B+ OMAPs whose maintenance rides along. *)
BothModes == { Client(TRUE, "BPlus", FALSE, TRUE, FALSE, 10) }
=============================================================================
