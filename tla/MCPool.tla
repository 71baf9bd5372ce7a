------------------------------- MODULE MCPool -------------------------------
(***************************************************************************)
(* Small instances of Pool.                                                *)
(***************************************************************************)
EXTENDS Pool

CONSTANTS e1, l1

ViaFirst == [p \in LeaseOps |-> l1]

\* Leases name the endpoint, operations take any.
LeasesExact == [a \in Ops \cup Leases |-> IF a \in Leases THEN e1 ELSE None]
=============================================================================
