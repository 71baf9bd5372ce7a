------------------------------ MODULE ConnTable -----------------------------
(***************************************************************************)
(* Conn keeps the promise of IDTable.  The reservation of an ID belongs to *)
(* the goroutine that has still to install or release it, a pending record *)
(* and a tombstone to the Do call of their operation.                      *)
(***************************************************************************)
EXTENDS Conn

ReservedBy == IF err # {} THEN {}
              ELSE {x \in Procs \X IDs : Claim(x[1]) = x[2]}

FiledBy(table) == IF err # {} THEN {}
                  ELSE {x \in Procs \X IDs :
                            \E o \in Ops : x[1] = Do(o) /\ table[x[2]] = o}

Table == INSTANCE IDTable WITH reserved   <- ReservedBy,
                               pending    <- FiledBy(pending),
                               tombstones <- FiledBy(tombstones),
                               down       <- (err # {})

\* Every step of the connection is a step of the ID table or none: the
\* goroutines of connection.go, however they interleave, take, install,
\* release, complete and bury IDs only in the order IDTable allows, and no ID
\* moves from one holder to another without being free in between.
ImplementsIDTable == Table!Spec

=============================================================================
