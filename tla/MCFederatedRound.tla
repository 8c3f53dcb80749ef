--------------------------- MODULE MCFederatedRound ---------------------------
(* An instance of FederatedRound for TLC: two crashes of sensors in one      *)
(* process, one crash or failed call between processes.                      *)
EXTENDS FederatedRound

Faults == [services \in BOOLEAN |-> IF services THEN 1 ELSE 2]
=============================================================================
