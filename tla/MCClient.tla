------------------------------ MODULE MCClient ------------------------------
(* A paged search beside a call of any kind, over one stream slot. *)
EXTENDS Client, TLC

CONSTANTS c1, c2

PagedBesideAny == c1 :> {"paged"} @@ c2 :> CallKinds

=============================================================================
