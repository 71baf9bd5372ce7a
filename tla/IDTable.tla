------------------------------ MODULE IDTable -------------------------------
(***************************************************************************)
(* What a connection promises about message IDs, whatever its goroutines   *)
(* do: an ID is reserved by one process, filed as pending or given back,   *)
(* and a pending ID is freed by its completion or buried for good by an    *)
(* Abandon.  Only the end of the connection forgets a buried ID.           *)
(*                                                                         *)
(* Conn implements this (ConnTable), and Setup is built on it.             *)
(***************************************************************************)
CONSTANTS
    IDs,   \* message IDs
    Procs  \* what can hold one

VARIABLES
    reserved,    \* <<p, i>>: p has taken i
    pending,     \* <<p, i>>: the peer may answer p under i
    tombstones,  \* <<p, i>>: p gave up waiting for an answer under i
    down         \* the connection has been retired

vars == <<reserved, pending, tombstones, down>>

Held == reserved \cup pending \cup tombstones

Used(i) == \E p \in Procs : <<p, i>> \in Held

Init ==
    /\ reserved = {}
    /\ pending = {}
    /\ tombstones = {}
    /\ down = FALSE

\* tryReserveMessageIDLocked for p, which is not in the middle of another one
Take(p, i) ==
    /\ ~down
    /\ ~Used(i)
    /\ \A j \in IDs : <<p, j>> \notin reserved \cup pending
    /\ reserved' = reserved \cup {<<p, i>>}
    /\ UNCHANGED <<pending, tombstones, down>>

\* releaseReserved
Release(p, i) ==
    /\ <<p, i>> \in reserved
    /\ reserved' = reserved \ {<<p, i>>}
    /\ UNCHANGED <<pending, tombstones, down>>

\* installPending
File(p, i) ==
    /\ <<p, i>> \in reserved
    /\ reserved' = reserved \ {<<p, i>>}
    /\ pending' = pending \cup {<<p, i>>}
    /\ UNCHANGED <<tombstones, down>>

\* The terminal response arrived, or the request was never sent.
Complete(p, i) ==
    /\ <<p, i>> \in pending
    /\ pending' = pending \ {<<p, i>>}
    /\ UNCHANGED <<reserved, tombstones, down>>

\* sendAbandon, before its first byte leaves
Bury(p, i) ==
    /\ <<p, i>> \in pending
    /\ pending' = pending \ {<<p, i>>}
    /\ tombstones' = tombstones \cup {<<p, i>>}
    /\ UNCHANGED <<reserved, down>>

\* retire
Shutdown ==
    /\ ~down
    /\ down' = TRUE
    /\ reserved' = {}
    /\ pending' = {}
    /\ tombstones' = {}

Next ==
    \/ \E p \in Procs, i \in IDs : \/ Take(p, i) \/ Release(p, i) \/ File(p, i)
                                   \/ Complete(p, i) \/ Bury(p, i)
    \/ Shutdown

Spec == Init /\ [][Next]_vars

\* No two processes hold one ID, and a process is in the middle of at most
\* one: the responses routed under an ID, late ones for an abandoned request
\* included, can only be meant for its holder.
OneHolder ==
    /\ Held \subseteq Procs \X IDs
    /\ \A p, q \in Procs, i \in IDs : <<p, i>> \in Held /\ <<q, i>> \in Held => p = q
    /\ \A p \in Procs, i, j \in IDs :
          <<p, i>> \in reserved \cup pending /\ <<p, j>> \in reserved \cup pending => i = j
    /\ reserved \cap pending = {}
    /\ (reserved \cup pending) \cap tombstones = {}

\* A buried ID stays with the request it was buried for, out of the
\* allocator's reach, as long as the connection lives.
BuriedForGood == [][~down' => tombstones \subseteq tombstones']_vars

=============================================================================
