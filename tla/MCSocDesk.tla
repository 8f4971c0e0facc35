------------------------------ MODULE MCSocDesk ------------------------------
(* An instance of SocDesk for TLC. *)
EXTENDS SocDesk, TLC

\* In the order of their times the second event comes too late for the alert of
\* the first; in the other order the first is late itself.
EventTimes == [e \in 1..2 |-> IF e = 1 THEN 0 ELSE 2]

ClientSymmetry == Permutations(Clients)
=============================================================================
