------------------------------ MODULE MCMacBeacon ------------------------------
(* Model values for MacBeacon: scans and receptions of users, and symbols  *)
(* of a frame inside and outside of what the beacon reserves.              *)
EXTENDS MacBeacon

UserScans == {[suspend |-> TRUE, interval |-> FALSE, all |-> FALSE]}
UserReceptions == {[suspend |-> TRUE, all |-> FALSE]}

\* The beacon's first symbol, a late one of its random access resource, and a
\* symbol in neither.
ReservedSymbols == {0, 150, 230}
================================================================================
