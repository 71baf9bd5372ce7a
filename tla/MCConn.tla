------------------------------- MODULE MCConn -------------------------------
(***************************************************************************)
(* Small instances of Conn.                                                *)
(***************************************************************************)
EXTENDS ConnTable, TLC

CONSTANTS o1, o2

AbandonThenDrain == [o \in Ops |-> IF o = o1 THEN "abandon" ELSE "drain"]
AlwaysClose      == [o \in Ops |-> "close"]

\* The contexts that may end.
CancelFirst    == {Do(o1), Abandon(o1)}
CancelRequests == {Do(o) : o \in Ops}
CancelAll      == Procs
CancelBoth     == {Do(o1), Do(o2), Abandon(o1)}

\* What the peer sends unprompted.
Notifications == {[id |-> 0, kind |-> k] : k \in {"extended", "notice", "invalid"}}
                    \cup {[id |-> 1, kind |-> "terminal"],
                          [id |-> 1, kind |-> "malformed"]}
Unprompted == {[id |-> 1, kind |-> "terminal"]}

\* The callers of CloseContext differ in nothing.
CloserSymmetry == Permutations(Closers)

=============================================================================
