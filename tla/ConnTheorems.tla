---------------------------- MODULE ConnTheorems ----------------------------
(***************************************************************************)
(* The theorems about the connection, for every set of operations and      *)
(* closers and every size of the ID space.  The connection implements the  *)
(* ID table: each step of a goroutine maps to one step of IDTable or to    *)
(* none, so what the table promises holds of the connection.  Then the     *)
(* safety invariant, the delivery invariant and what follows from them.    *)
(***************************************************************************)
EXTENDS ConnTable, ConnSafetyProofs, ConnDeliveryProofs

-----------------------------------------------------------------------------
(***************************************************************************)
(* The mapped tables, pair by pair.                                        *)
(***************************************************************************)
\* While the connection lives, a reservation is what its process claims.
LEMMA ReservedPairs ==
    /\ err = {} => ReservedBy = {x \in Procs \X IDs : Claim(x[1]) = x[2]}
    /\ err' = {} => ReservedBy' = {x \in Procs \X IDs : Claim(x[1])' = x[2]}
    /\ err # {} => ReservedBy = {}
    /\ err' # {} => ReservedBy' = {}
BY Zenon DEF ReservedBy

\* A pending record belongs to the Do call of its operation.
LEMMA PendingPairs ==
    /\ err = {} => FiledBy(pending) =
          {x \in Procs \X IDs : \E o \in Ops : x[1] = Do(o) /\ pending[x[2]] = o}
    /\ err' = {} => FiledBy(pending)' =
          {x \in Procs \X IDs : \E o \in Ops : x[1] = Do(o) /\ pending'[x[2]] = o}
    /\ err # {} => FiledBy(pending) = {}
    /\ err' # {} => FiledBy(pending)' = {}
BY Zenon DEF FiledBy

\* So does a tombstone.
LEMMA BuriedPairs ==
    /\ err = {} => FiledBy(tombstones) =
          {x \in Procs \X IDs : \E o \in Ops : x[1] = Do(o) /\ tombstones[x[2]] = o}
    /\ err' = {} => FiledBy(tombstones)' =
          {x \in Procs \X IDs : \E o \in Ops : x[1] = Do(o) /\ tombstones'[x[2]] = o}
    /\ err # {} => FiledBy(tombstones) = {}
    /\ err' # {} => FiledBy(tombstones)' = {}
BY Zenon DEF FiledBy

-----------------------------------------------------------------------------
(***************************************************************************)
(* What a step of the connection has to be, to be a step of the table.     *)
(***************************************************************************)
\* A retired connection has forgotten its IDs, and a retirement forgets them.
LEMMA DownMaps ==
    ASSUME err' # {}
    PROVE  IF err = {} THEN Table!Shutdown ELSE UNCHANGED Table!vars
BY ReservedPairs, PendingPairs, BuriedPairs, Zenon DEF Table!Shutdown, Table!vars

\* A step that changes no claim and no table is a stuttering step.
LEMMA SameMaps ==
    ASSUME UNCHANGED <<err, pending, tombstones>>,
           err = {} => \A p \in Procs : Claim(p)' = Claim(p)
    PROVE  UNCHANGED Table!vars
<1> USE Zenon
<1>1. CASE err # {}
  BY <1>1, ReservedPairs, PendingPairs, BuriedPairs DEF Table!vars
<1>2. CASE err = {}
  <2> USE <1>2
  <2>1. ReservedBy' = ReservedBy
    <3>1. \A x \in Procs \X IDs : Claim(x[1])' = Claim(x[1])
      OBVIOUS
    <3> QED
      BY <3>1, ReservedPairs
  <2>2. FiledBy(pending)' = FiledBy(pending)
    BY PendingPairs
  <2>3. FiledBy(tombstones)' = FiledBy(tombstones)
    BY BuriedPairs
  <2> QED
    BY <2>1, <2>2, <2>3 DEF Table!vars
<1> QED
  BY <1>1, <1>2

\* The claim of one process appears: only its pair is new.
LEMMA ClaimGained ==
    ASSUME err = {}, err' = {}, NEW p \in Procs, NEW i \in IDs,
           Claim(p) = 0, Claim(p)' = i,
           \A q \in Procs \ {p} : Claim(q)' = Claim(q)
    PROVE  ReservedBy' = ReservedBy \cup {<<p, i>>}
<1> USE Zenon
<1>1. i # 0 /\ 0 \notin IDs
  BY ConnAssumption, SMT DEF IDs
<1>2. \A x \in Procs \X IDs :
         Claim(x[1])' = x[2] <=> Claim(x[1]) = x[2] \/ x = <<p, i>>
  <2> TAKE x \in Procs \X IDs
  <2>1. x = <<x[1], x[2]>> /\ x[1] \in Procs /\ x[2] \in IDs
    BY SMT
  <2>2. CASE x[1] = p
    BY <1>1, <2>1, <2>2, SMT
  <2>3. CASE x[1] # p
    BY <2>1, <2>3, SMT
  <2> QED
    BY <2>2, <2>3
<1> QED
  BY <1>2, ReservedPairs

\* The claim of one process disappears, and its pair with it.
LEMMA ClaimLost ==
    ASSUME err = {}, err' = {}, NEW p \in Procs, Claim(p) \in IDs, Claim(p)' = 0,
           \A q \in Procs \ {p} : Claim(q)' = Claim(q)
    PROVE  /\ <<p, Claim(p)>> \in ReservedBy
           /\ ReservedBy' = ReservedBy \ {<<p, Claim(p)>>}
<1> USE Zenon
<1>1. 0 \notin IDs
  BY ConnAssumption, SMT DEF IDs
<1>2. \A x \in Procs \X IDs :
         Claim(x[1])' = x[2] <=> Claim(x[1]) = x[2] /\ x # <<p, Claim(p)>>
  <2> TAKE x \in Procs \X IDs
  <2>1. x = <<x[1], x[2]>> /\ x[1] \in Procs /\ x[2] \in IDs
    BY SMT
  <2>2. CASE x[1] = p
    BY <1>1, <2>1, <2>2
  <2>3. CASE x[1] # p
    BY <2>1, <2>3, SMT
  <2> QED
    BY <2>2, <2>3
<1> QED
  BY <1>2, ReservedPairs

\* A process takes an ID that is in none of the tables.
LEMMA TakeMaps ==
    ASSUME TypeOK, IDInv, NEW p \in Procs, NEW i \in IDs, TryReserve(i),
           err = {}, UNCHANGED <<err, pending, tombstones>>,
           Claim(p) = 0, Claim(p)' = i,
           \A q \in Procs \ {p} : Claim(q)' = Claim(q),
           \A o \in Ops : p = Do(o) => ~Live(o)
    PROVE  Table!Next
<1> USE Zenon
<1>1. ReservedBy' = ReservedBy \cup {<<p, i>>}
  BY ClaimGained
<1>2. FiledBy(pending)' = FiledBy(pending)
  BY PendingPairs
<1>3. FiledBy(tombstones)' = FiledBy(tombstones)
  BY BuriedPairs
<1>4. 0 \notin IDs /\ None \notin Ops
  BY ConnAssumption, SMT DEF IDs
<1> USE <1>4
<1>5. \A q \in Procs : <<q, i>> \notin ReservedBy
  <2>1. \A q \in Procs : Claim(q) # i
    BY TryReserveFresh, SMT DEF IDInv, IDsExclusive, Claimed
  <2> QED
    BY <2>1, ReservedPairs
<1>6. \A q \in Procs : <<q, i>> \notin FiledBy(pending)
  BY TryReserveFresh, PendingPairs
<1>7. \A q \in Procs : <<q, i>> \notin FiledBy(tombstones)
  BY TryReserveFresh, BuriedPairs
<1>8. \A j \in IDs : <<p, j>> \notin ReservedBy
  BY ReservedPairs, SMT
<1>9. \A j \in IDs : <<p, j>> \notin FiledBy(pending)
  BY PendingPairs DEF Live
<1>10. Table!Take(p, i)
  BY <1>1, <1>2, <1>3, <1>5, <1>6, <1>7, <1>8, <1>9
     DEF Table!Take, Table!Used, Table!Held
<1> QED
  BY <1>10 DEF Table!Next

\* A process gives back the ID it has taken, if it has one.
LEMMA ReleaseMaps ==
    ASSUME NEW p \in Procs, err = {}, UNCHANGED <<err, pending, tombstones>>,
           Claim(p) \in IDs \cup {0}, Claim(p)' = 0,
           \A q \in Procs \ {p} : Claim(q)' = Claim(q)
    PROVE  [Table!Next]_(Table!vars)
<1> USE Zenon
<1>1. Claim(p) = 0 => [Table!Next]_(Table!vars)
  BY SameMaps
<1>2. CASE Claim(p) \in IDs
  <2> USE <1>2
  <2>1. /\ <<p, Claim(p)>> \in ReservedBy
        /\ ReservedBy' = ReservedBy \ {<<p, Claim(p)>>}
    BY ClaimLost
  <2>2. FiledBy(pending)' = FiledBy(pending)
    BY PendingPairs
  <2>3. FiledBy(tombstones)' = FiledBy(tombstones)
    BY BuriedPairs
  <2>4. Table!Release(p, Claim(p))
    BY <2>1, <2>2, <2>3 DEF Table!Release
  <2> QED
    BY <2>4 DEF Table!Next
<1> QED
  BY <1>1, <1>2

\* A taken ID becomes the pending record of its operation.
LEMMA FileMaps ==
    ASSUME TypeOK, IDInv, NEW o \in Ops, err = {}, UNCHANGED <<err, tombstones>>,
           id[o] \in reserved, pending' = [pending EXCEPT ![id[o]] = o],
           Claim(Do(o)) = id[o], Claim(Do(o))' = 0,
           \A q \in Procs \ {Do(o)} : Claim(q)' = Claim(q)
    PROVE  Table!Next
<1> USE Zenon
<1>1. /\ id[o] \in IDs /\ pending[id[o]] = None /\ None \notin Ops
      /\ Do(o) \in Procs /\ pending \in [IDs -> Ops \cup {None}]
  BY ConnAssumption, ProcsMembers
     DEF TypeOK, IDType, IDInv, IDsExclusive, Disjoint
<1> USE <1>1
<1>2. /\ <<Do(o), id[o]>> \in ReservedBy
      /\ ReservedBy' = ReservedBy \ {<<Do(o), id[o]>>}
  BY ClaimLost
<1>3. FiledBy(pending)' = FiledBy(pending) \cup {<<Do(o), id[o]>>}
  <2>1. \A x \in Procs \X IDs :
           (\E q \in Ops : x[1] = Do(q) /\ pending'[x[2]] = q)
             <=> \/ \E q \in Ops : x[1] = Do(q) /\ pending[x[2]] = q
                 \/ x = <<Do(o), id[o]>>
    <3> TAKE x \in Procs \X IDs
    <3>1. x = <<x[1], x[2]>> /\ x[2] \in IDs
      BY SMT
    <3> USE <3>1
    <3>2. CASE x[2] = id[o]
      <4> USE <3>2
      <4>1. pending'[x[2]] = o /\ pending[x[2]] = None
        OBVIOUS
      <4> QED
        BY <4>1, SMT
    <3>3. CASE x[2] # id[o]
      <4> USE <3>3
      <4>1. pending'[x[2]] = pending[x[2]]
        OBVIOUS
      <4> QED
        BY <4>1, SMT
    <3> QED
      BY <3>2, <3>3
  <2>2. <<Do(o), id[o]>> \in Procs \X IDs
    OBVIOUS
  <2> QED
    BY <2>1, <2>2, PendingPairs
<1>4. FiledBy(tombstones)' = FiledBy(tombstones)
  BY BuriedPairs
<1>5. Table!File(Do(o), id[o])
  BY <1>2, <1>3, <1>4 DEF Table!File
<1> QED
  BY <1>5 DEF Table!Next

\* Removing the record of an operation removes one pair.
LEMMA RecordRemoved ==
    ASSUME TypeOK, IDInv, NEW o \in Ops, NEW i \in IDs, pending[i] = o,
           err = {}, err' = {}, pending' = Without(o)
    PROVE  /\ <<Do(o), i>> \in FiledBy(pending)
           /\ FiledBy(pending)' = FiledBy(pending) \ {<<Do(o), i>>}
<1> USE Zenon
<1>1. None \notin Ops /\ Do(o) \in Procs
  BY ConnAssumption, ProcsMembers
<1>2. \A j \in IDs : pending[j] = o => j = i
  BY <1>1 DEF IDInv, PendingFiled
<1>3. \A j \in IDs : pending'[j] = IF j = i THEN None ELSE pending[j]
  BY <1>2 DEF Without
<1>4. \A x \in Procs \X IDs :
         (\E q \in Ops : x[1] = Do(q) /\ pending'[x[2]] = q)
           <=> /\ \E q \in Ops : x[1] = Do(q) /\ pending[x[2]] = q
               /\ x # <<Do(o), i>>
  <2> TAKE x \in Procs \X IDs
  <2>1. x = <<x[1], x[2]>> /\ x[2] \in IDs
    BY SMT
  <2>2. CASE x[2] = i
    BY <1>1, <1>3, <2>1, <2>2, SMT
  <2>3. CASE x[2] # i
    <3>1. pending'[x[2]] = pending[x[2]] /\ x # <<Do(o), i>>
      BY <1>3, <2>1, <2>3, SMT
    <3> QED
      BY <3>1
  <2> QED
    BY <2>2, <2>3
<1>5. <<Do(o), i>> \in FiledBy(pending)
  BY <1>1, PendingPairs
<1> QED
  BY <1>4, <1>5, PendingPairs, SMT

\* An operation is completed, if it is still pending.
LEMMA CompleteMaps ==
    ASSUME TypeOK, IDInv, NEW o \in Ops, err = {}, UNCHANGED <<err, tombstones>>,
           pending' \in {pending, Without(o)},
           \A p \in Procs : Claim(p)' = Claim(p)
    PROVE  [Table!Next]_(Table!vars)
<1> USE Zenon
<1>1. pending' = pending => [Table!Next]_(Table!vars)
  BY SameMaps
<1>2. CASE pending' = Without(o) /\ ~Live(o)
  <2>1. pending' = pending
    BY <1>2, SMT DEF Live, Without, TypeOK, IDType
  <2> QED
    BY <2>1, SameMaps
<1>3. CASE pending' = Without(o) /\ Live(o)
  <2> USE <1>3
  <2>1. PICK i \in IDs : pending[i] = o
    BY DEF Live
  <2>2. /\ <<Do(o), i>> \in FiledBy(pending)
        /\ FiledBy(pending)' = FiledBy(pending) \ {<<Do(o), i>>}
    BY <2>1, RecordRemoved
  <2>3. FiledBy(tombstones)' = FiledBy(tombstones)
    BY BuriedPairs
  <2>4. ReservedBy' = ReservedBy
    BY ReservedPairs
  <2>5. Table!Complete(Do(o), i)
    BY <2>2, <2>3, <2>4 DEF Table!Complete
  <2> QED
    BY <2>1, <2>5, ProcsMembers DEF Table!Next
<1> QED
  BY <1>1, <1>2, <1>3

\* The record of an operation becomes a tombstone under the same ID.
LEMMA BuryMaps ==
    ASSUME TypeOK, IDInv, NEW o \in Ops, Live(o), err = {}, UNCHANGED err,
           pending' = Without(o), tombstones' = Tombstone(o),
           \A p \in Procs : Claim(p)' = Claim(p)
    PROVE  Table!Next
<1> USE Zenon
<1>1. PICK i \in IDs : pending[i] = o
  BY DEF Live
<1>2. /\ id[o] = i /\ tombstones[i] = None /\ None \notin Ops
      /\ Do(o) \in Procs /\ tombstones \in [IDs -> Ops \cup {None}]
  BY <1>1, ConnAssumption, ProcsMembers
     DEF TypeOK, IDType, IDInv, IDsExclusive, Disjoint, PendingFiled
<1>3. /\ <<Do(o), i>> \in FiledBy(pending)
      /\ FiledBy(pending)' = FiledBy(pending) \ {<<Do(o), i>>}
  BY <1>1, RecordRemoved
<1>4. FiledBy(tombstones)' = FiledBy(tombstones) \cup {<<Do(o), i>>}
  <2>1. \A j \in IDs : tombstones'[j] = IF j = i THEN o ELSE tombstones[j]
    BY <1>2 DEF Tombstone
  <2>2. \A x \in Procs \X IDs :
           (\E q \in Ops : x[1] = Do(q) /\ tombstones'[x[2]] = q)
             <=> \/ \E q \in Ops : x[1] = Do(q) /\ tombstones[x[2]] = q
                 \/ x = <<Do(o), i>>
    <3> TAKE x \in Procs \X IDs
    <3>1. x = <<x[1], x[2]>> /\ x[2] \in IDs
      BY SMT
    <3> USE <3>1
    <3>2. CASE x[2] = i
      <4> USE <3>2
      <4>1. tombstones'[x[2]] = o /\ ~(\E q \in Ops : tombstones[x[2]] = q)
        BY <1>2, <2>1
      <4>2. x = <<Do(o), i>> <=> x[1] = Do(o)
        BY SMT
      <4> QED
        BY <4>1, <4>2
    <3>3. CASE x[2] # i
      <4>1. tombstones'[x[2]] = tombstones[x[2]] /\ x # <<Do(o), i>>
        BY <2>1, <3>3, SMT
      <4> QED
        BY <4>1
    <3> QED
      BY <3>2, <3>3
  <2> QED
    BY <1>2, <2>2, BuriedPairs
<1>5. ReservedBy' = ReservedBy
  BY ReservedPairs
<1>6. Table!Bury(Do(o), i)
  BY <1>3, <1>4, <1>5 DEF Table!Bury
<1> QED
  BY <1>2, <1>6 DEF Table!Next

-----------------------------------------------------------------------------
(***************************************************************************)
(* Every step of the connection is a step of the table, or none.           *)
(***************************************************************************)
TableStep == [Table!Next]_(Table!vars)

\* A step that retires the connection, or finds it retired, maps.
LEMMA RetiredMaps ==
    ASSUME err' # {}
    PROVE  TableStep
BY DownMaps, Zenon DEF TableStep, Table!Next

\* What a process claims is an ID, or 0 for none.
LEMMA ClaimTypes ==
    ASSUME TypeOK
    PROVE  \A p \in Procs : Claim(p) \in IDs \cup {0}
<1> USE Zenon
<1>1. 0 .. MaxID = IDs \cup {0}
  BY ConnAssumption, SMT DEF IDs
<1>2. \A o \in Ops : id[o] \in IDs \cup {0} /\ aid[o] \in IDs \cup {0}
  BY <1>1 DEF TypeOK, CallType, AbandonType
<1>3. \A c \in Closers : cid[c] \in IDs \cup {0}
  BY <1>1 DEF TypeOK, CloseType
<1>4. \A o \in Ops : Claim(Do(o)) \in IDs \cup {0} /\ Claim(Abandon(o)) \in IDs \cup {0}
  BY <1>2, ClaimDo, ClaimAbandon
<1>5. \A c \in Closers : Claim(Close(c)) \in IDs \cup {0}
  BY <1>3, ClaimClose
<1> QED
  BY <1>4, <1>5, ProcsCases

\* One step per action: it leaves the mapped table alone, or it is the
\* operation on the table that its goroutine performs.
LEMMA StepMaps ==
    ASSUME TypeOK, IDInv, Next
    PROVE  TableStep
<1> USE Zenon
<1>1. ASSUME UNCHANGED <<err, pending, tombstones, pc, id, apc, aid, cpc, cid>>
      PROVE  TableStep
  <2> USE <1>1
  <2>1. \A p \in Procs : Claim(p)' = Claim(p)
    BY ProcsCases, ClaimDo, ClaimAbandon, ClaimClose, SMT
  <2> QED
    BY <2>1, SameMaps DEF TableStep
<1>2. ASSUME NEW o \in Ops, ReserveCanceled(o) PROVE TableStep
  <2> USE <1>2
  <2>1. UNCHANGED err
    BY DEF ReserveCanceled, connVars
  <2> SUFFICES ASSUME err = {} PROVE TableStep
    BY <2>1, RetiredMaps
  <2>2. \A q \in Procs \ {Do(o)} : Claim(q)' = Claim(q)
    BY OtherThanDo
       DEF ReserveCanceled, TypeOK, CallType, abandVars, closeVars, idVars
  <2>3. Claim(Do(o))' = Claim(Do(o))
    BY ClaimDo DEF ReserveCanceled, TypeOK, CallType
  <2>4. UNCHANGED <<pending, tombstones>>
    BY DEF ReserveCanceled, idVars
  <2> QED
    BY <2>1, <2>2, <2>3, <2>4, SameMaps DEF TableStep
<1>3. ASSUME NEW o \in Ops, TakeToken(o) PROVE TableStep
  <2> USE <1>3
  <2>1. UNCHANGED err
    BY DEF TakeToken, connVars
  <2> SUFFICES ASSUME err = {} PROVE TableStep
    BY <2>1, RetiredMaps
  <2>2. \A q \in Procs \ {Do(o)} : Claim(q)' = Claim(q)
    BY OtherThanDo
       DEF TakeToken, TypeOK, CallType, abandVars, closeVars, AfterWriteError,
           idVars
  <2>3. Claim(Do(o))' = Claim(Do(o))
    BY ClaimDo DEF TakeToken, AfterWriteError, TypeOK, CallType
  <2>4. UNCHANGED <<pending, tombstones>>
    BY DEF TakeToken, idVars
  <2> QED
    BY <2>1, <2>2, <2>3, <2>4, SameMaps DEF TableStep
<1>4. ASSUME NEW o \in Ops, StartWrite(o) PROVE TableStep
  <2> USE <1>4
  <2>1. UNCHANGED err
    BY DEF StartWrite, connVars
  <2> SUFFICES ASSUME err = {} PROVE TableStep
    BY <2>1, RetiredMaps
  <2>2. \A q \in Procs \ {Do(o)} : Claim(q)' = Claim(q)
    BY OtherThanDo
       DEF StartWrite, TypeOK, CallType, abandVars, closeVars, idVars
  <2>3. Claim(Do(o))' = Claim(Do(o))
    BY ClaimDo DEF StartWrite, TypeOK, CallType
  <2>4. UNCHANGED <<pending, tombstones>>
    BY DEF StartWrite, idVars
  <2> QED
    BY <2>1, <2>2, <2>3, <2>4, SameMaps DEF TableStep
<1>5. ASSUME NEW o \in Ops, WriteDone(o) PROVE TableStep
  <2> USE <1>5
  <2>1. UNCHANGED err
    BY DEF WriteDone, connVars
  <2> SUFFICES ASSUME err = {} PROVE TableStep
    BY <2>1, RetiredMaps
  <2>2. \A q \in Procs \ {Do(o)} : Claim(q)' = Claim(q)
    BY OtherThanDo
       DEF WriteDone, TypeOK, CallType, abandVars, closeVars, AfterWriteError,
           idVars
  <2>3. Claim(Do(o))' = Claim(Do(o))
    BY ClaimDo DEF WriteDone, AfterWriteError, TypeOK, CallType
  <2>4. UNCHANGED <<pending, tombstones>>
    BY DEF WriteDone, idVars
  <2> QED
    BY <2>1, <2>2, <2>3, <2>4, SameMaps DEF TableStep
<1>6. ASSUME NEW o \in Ops, ObserveWrite(o) PROVE TableStep
  <2> USE <1>6
  <2>1. UNCHANGED err
    BY DEF ObserveWrite, connVars
  <2> SUFFICES ASSUME err = {} PROVE TableStep
    BY <2>1, RetiredMaps
  <2>2. \A q \in Procs \ {Do(o)} : Claim(q)' = Claim(q)
    BY OtherThanDo
       DEF ObserveWrite, TypeOK, CallType, abandVars, closeVars, idVars
  <2>3. Claim(Do(o))' = Claim(Do(o))
    BY ClaimDo DEF ObserveWrite, TypeOK, CallType
  <2>4. UNCHANGED <<pending, tombstones>>
    BY DEF ObserveWrite, idVars
  <2> QED
    BY <2>1, <2>2, <2>3, <2>4, SameMaps DEF TableStep
<1>7. ASSUME NEW o \in Ops, NextCall(o) PROVE TableStep
  <2> USE <1>7
  <2>1. UNCHANGED err
    BY DEF NextCall, connVars, streamFrame
  <2> SUFFICES ASSUME err = {} PROVE TableStep
    BY <2>1, RetiredMaps
  <2>2. \A q \in Procs \ {Abandon(o)} : Claim(q)' = Claim(q)
    BY OtherThanAbandon, CancelClaims
       DEF NextCall, TypeOK, AbandonType, callVars, closeVars, streamFrame
  <2>3. Claim(Abandon(o))' = Claim(Abandon(o))
    BY ClaimAbandon, CancelClaims DEF NextCall, streamFrame, TypeOK, AbandonType
  <2>4. UNCHANGED <<pending, tombstones>>
    BY DEF NextCall, streamFrame, idVars
  <2> QED
    BY <2>1, <2>2, <2>3, <2>4, SameMaps DEF TableStep
<1>8. ASSUME NEW o \in Ops, NextWake(o) PROVE TableStep
  <2> USE <1>8
  <2>1. UNCHANGED err
    BY DEF NextWake, connVars, streamFrame
  <2> SUFFICES ASSUME err = {} PROVE TableStep
    BY <2>1, RetiredMaps
  <2>2. \A q \in Procs \ {Abandon(o)} : Claim(q)' = Claim(q)
    BY OtherThanAbandon, CancelClaims
       DEF NextWake, TypeOK, AbandonType, callVars, closeVars, streamFrame
  <2>3. Claim(Abandon(o))' = Claim(Abandon(o))
    BY ClaimAbandon, CancelClaims DEF NextWake, streamFrame, TypeOK, AbandonType
  <2>4. UNCHANGED <<pending, tombstones>>
    BY DEF NextWake, streamFrame, idVars
  <2> QED
    BY <2>1, <2>2, <2>3, <2>4, SameMaps DEF TableStep
<1>9. ASSUME NEW o \in Ops, CloseStream(o) PROVE TableStep
  <2> USE <1>9
  <2>1. UNCHANGED err
    BY DEF CloseStream, connVars, streamFrame
  <2> SUFFICES ASSUME err = {} PROVE TableStep
    BY <2>1, RetiredMaps
  <2>2. \A q \in Procs \ {Abandon(o)} : Claim(q)' = Claim(q)
    BY OtherThanAbandon, CancelClaims
       DEF CloseStream, TypeOK, AbandonType, callVars, closeVars, streamFrame
  <2>3. Claim(Abandon(o))' = Claim(Abandon(o))
    BY ClaimAbandon, CancelClaims
       DEF CloseStream, streamFrame, TypeOK, AbandonType
  <2>4. UNCHANGED <<pending, tombstones>>
    BY DEF CloseStream, streamFrame, idVars
  <2> QED
    BY <2>1, <2>2, <2>3, <2>4, SameMaps DEF TableStep
<1>10. ASSUME NEW o \in Ops, WatchOperation(o) PROVE TableStep
  <2> USE <1>10
  <2>1. UNCHANGED err
    BY DEF WatchOperation, connVars, streamFrame
  <2> SUFFICES ASSUME err = {} PROVE TableStep
    BY <2>1, RetiredMaps
  <2>2. \A q \in Procs \ {Abandon(o)} : Claim(q)' = Claim(q)
    BY OtherThanAbandon, CancelClaims
       DEF WatchOperation, TypeOK, AbandonType, callVars, closeVars, streamFrame
  <2>3. Claim(Abandon(o))' = Claim(Abandon(o))
    BY ClaimAbandon, CancelClaims
       DEF WatchOperation, streamFrame, TypeOK, AbandonType
  <2>4. UNCHANGED <<pending, tombstones>>
    BY DEF WatchOperation, streamFrame, idVars
  <2> QED
    BY <2>1, <2>2, <2>3, <2>4, SameMaps DEF TableStep
<1>11. ASSUME NEW c \in Closers, CloseBegin(c) PROVE TableStep
  <2> USE <1>11
  <2>1. UNCHANGED err
    BY DEF CloseBegin, connVars
  <2> SUFFICES ASSUME err = {} PROVE TableStep
    BY <2>1, RetiredMaps
  <2>2. \A q \in Procs \ {Close(c)} : Claim(q)' = Claim(q)
    BY OtherThanClose
       DEF CloseBegin, TypeOK, CloseType, callVars, abandVars, idVars
  <2>3. Claim(Close(c))' = Claim(Close(c))
    BY ClaimClose DEF CloseBegin, TypeOK, CloseType
  <2>4. UNCHANGED <<pending, tombstones>>
    BY DEF CloseBegin, idVars
  <2> QED
    BY <2>1, <2>2, <2>3, <2>4, SameMaps DEF TableStep
<1>12. ASSUME NEW c \in Closers, CloseAwait(c) PROVE TableStep
  <2> USE <1>12
  <2>1. UNCHANGED err
    BY DEF CloseAwait, connVars
  <2> SUFFICES ASSUME err = {} PROVE TableStep
    BY <2>1, RetiredMaps
  <2>2. \A q \in Procs \ {Close(c)} : Claim(q)' = Claim(q)
    BY OtherThanClose
       DEF CloseAwait, TypeOK, CloseType, callVars, abandVars, idVars
  <2>3. Claim(Close(c))' = Claim(Close(c))
    BY ClaimClose DEF CloseAwait, TypeOK, CloseType
  <2>4. UNCHANGED <<pending, tombstones>>
    BY DEF CloseAwait, idVars
  <2> QED
    BY <2>1, <2>2, <2>3, <2>4, SameMaps DEF TableStep
<1>13. ASSUME NEW o \in Ops, RemoveDefinitelyUnsent(o) PROVE TableStep
  <2> USE <1>13
  <2>1. UNCHANGED err
    BY DEF RemoveDefinitelyUnsent, connVars
  <2> SUFFICES ASSUME err = {} PROVE TableStep
    BY <2>1, RetiredMaps
  <2>2. \A q \in Procs \ {Do(o)} : Claim(q)' = Claim(q)
    BY OtherThanDo
       DEF RemoveDefinitelyUnsent, TypeOK, CallType, abandVars, closeVars
  <2>3. Claim(Do(o))' = Claim(Do(o))
    BY ClaimDo DEF RemoveDefinitelyUnsent, TypeOK, CallType
  <2>4. UNCHANGED tombstones /\ pending' \in {pending, Without(o)}
    BY DEF RemoveDefinitelyUnsent, Complete
  <2> QED
    BY <2>1, <2>2, <2>3, <2>4, CompleteMaps DEF TableStep
<1>14. ASSUME NEW o \in Ops, CompleteNoResponse(o) PROVE TableStep
  <2> USE <1>14
  <2>1. UNCHANGED err
    BY DEF CompleteNoResponse, connVars
  <2> SUFFICES ASSUME err = {} PROVE TableStep
    BY <2>1, RetiredMaps
  <2>2. \A q \in Procs \ {Do(o)} : Claim(q)' = Claim(q)
    BY OtherThanDo
       DEF CompleteNoResponse, TypeOK, CallType, abandVars, closeVars
  <2>3. Claim(Do(o))' = Claim(Do(o))
    BY ClaimDo DEF CompleteNoResponse, TypeOK, CallType
  <2>4. UNCHANGED tombstones /\ pending' \in {pending, Without(o)}
    BY DEF CompleteNoResponse, Complete
  <2> QED
    BY <2>1, <2>2, <2>3, <2>4, CompleteMaps DEF TableStep
<1>15. ASSUME NEW o \in Ops, Reserve(o) PROVE TableStep
  <2> USE <1>15
  <2>1. UNCHANGED err
    BY DEF Reserve, connVars
  <2> SUFFICES ASSUME err = {} PROVE TableStep
    BY <2>1, RetiredMaps
  <2>2. \A q \in Procs \ {Do(o)} : Claim(q)' = Claim(q)
    BY OtherThanDo DEF Reserve, TypeOK, CallType, abandVars, closeVars
  <2>3. Claim(Do(o)) = 0
    BY ClaimDo DEF Reserve
  <2>4. UNCHANGED <<pending, tombstones>>
    BY DEF Reserve, idVars
  <2>5. \A q \in Ops : Do(o) = Do(q) => ~Live(q)
    <3>1. pc[o] \in {"idle", "reserving"} /\ o # None
      BY ConnAssumption DEF Reserve
    <3>2. ~Live(o)
      BY <3>1 DEF Live, IDInv, PendingFiled
    <3> QED
      BY <3>2, ProcsDistinct
  <2>6. CASE \E i \in IDs : TryReserve(i) /\ id' = [id EXCEPT ![o] = i]
                          /\ pc' = [pc EXCEPT ![o] = "reserved"]
    <3>1. PICK i \in IDs : TryReserve(i) /\ id' = [id EXCEPT ![o] = i]
                            /\ pc' = [pc EXCEPT ![o] = "reserved"]
      BY <2>6
    <3>2. Claim(Do(o))' = i
      BY <3>1, ClaimDo DEF TypeOK, CallType
    <3>3. Do(o) \in Procs
      BY ProcsMembers
    <3>4. Table!Next
      BY <2>1, <2>2, <2>3, <2>4, <2>5, <3>1, <3>2, <3>3, TakeMaps
    <3> QED
      BY <3>4 DEF TableStep
  <2>7. CASE pc'[o] # "reserved"
    <3>1. Claim(Do(o))' = 0
      BY <2>7, ClaimDo
    <3> QED
      BY <2>1, <2>2, <2>3, <2>4, <3>1, SameMaps DEF TableStep
  <2> QED
    BY <2>6, <2>7 DEF Reserve, TypeOK, CallType
<1>16. ASSUME NEW o \in Ops, AbandonReserve(o) PROVE TableStep
  <2> USE <1>16
  <2>1. UNCHANGED err
    BY DEF AbandonReserve, connVars
  <2> SUFFICES ASSUME err = {} PROVE TableStep
    BY <2>1, RetiredMaps
  <2>2. \A q \in Procs \ {Abandon(o)} : Claim(q)' = Claim(q)
    BY OtherThanAbandon
       DEF AbandonReserve, TypeOK, AbandonType, callVars, closeVars
  <2>3. Claim(Abandon(o)) = 0
    BY ClaimAbandon DEF AbandonReserve
  <2>4. UNCHANGED <<pending, tombstones>>
    BY DEF AbandonReserve, idVars
  <2>5. \A q \in Ops : Abandon(o) = Do(q) => ~Live(q)
    BY ProcsDistinct
  <2>6. CASE \E i \in IDs : TryReserve(i) /\ aid' = [aid EXCEPT ![o] = i]
                          /\ apc' = [apc EXCEPT ![o] = "queued"]
    <3>1. PICK i \in IDs : TryReserve(i) /\ aid' = [aid EXCEPT ![o] = i]
                            /\ apc' = [apc EXCEPT ![o] = "queued"]
      BY <2>6
    <3>2. Claim(Abandon(o))' = i
      BY <3>1, ClaimAbandon DEF TypeOK, AbandonType
    <3>3. Abandon(o) \in Procs
      BY ProcsMembers
    <3>4. Table!Next
      BY <2>1, <2>2, <2>3, <2>4, <2>5, <3>1, <3>2, <3>3, TakeMaps
    <3> QED
      BY <3>4 DEF TableStep
  <2>7. CASE apc'[o] \in {"done", "retire"}
    <3>1. Claim(Abandon(o))' = 0
      BY <2>7, ClaimAbandon
    <3> QED
      BY <2>1, <2>2, <2>3, <2>4, <3>1, SameMaps DEF TableStep
  <2> QED
    BY <2>6, <2>7 DEF AbandonReserve, TypeOK, AbandonType
<1>17. ASSUME NEW c \in Closers, CloseAcquire(c) PROVE TableStep
  <2> USE <1>17
  <2>1. UNCHANGED err
    BY DEF CloseAcquire, connVars
  <2> SUFFICES ASSUME err = {} PROVE TableStep
    BY <2>1, RetiredMaps
  <2>2. \A q \in Procs \ {Close(c)} : Claim(q)' = Claim(q)
    BY OtherThanClose DEF CloseAcquire, TypeOK, CloseType, callVars, abandVars
  <2>3. Claim(Close(c)) = 0
    BY ClaimClose DEF CloseAcquire
  <2>4. UNCHANGED <<pending, tombstones>>
    BY DEF CloseAcquire, idVars
  <2>5. \A q \in Ops : Close(c) = Do(q) => ~Live(q)
    BY ProcsDistinct
  <2>6. CASE \E i \in IDs : TryReserve(i) /\ cid' = [cid EXCEPT ![c] = i]
                          /\ cpc' = [cpc EXCEPT ![c] = "writing"]
    <3>1. PICK i \in IDs : TryReserve(i) /\ cid' = [cid EXCEPT ![c] = i]
                            /\ cpc' = [cpc EXCEPT ![c] = "writing"]
      BY <2>6
    <3>2. Claim(Close(c))' = i
      BY <3>1, ClaimClose DEF TypeOK, CloseType
    <3>3. Close(c) \in Procs
      BY ProcsMembers
    <3>4. Table!Next
      BY <2>1, <2>2, <2>3, <2>4, <2>5, <3>1, <3>2, <3>3, TakeMaps
    <3> QED
      BY <3>4 DEF TableStep
  <2>7. CASE cpc'[c] = "finish"
    <3>1. Claim(Close(c))' = 0
      BY <2>7, ClaimClose
    <3> QED
      BY <2>1, <2>2, <2>3, <2>4, <3>1, SameMaps DEF TableStep
  <2> QED
    BY <2>6, <2>7 DEF CloseAcquire, TypeOK, CloseType
<1>18. ASSUME NEW o \in Ops, GiveBack(o) PROVE TableStep
  <2> USE <1>18
  <2>1. UNCHANGED err
    BY DEF GiveBack, connVars
  <2> SUFFICES ASSUME err = {} PROVE TableStep
    BY <2>1, RetiredMaps
  <2>2. \A q \in Procs \ {Do(o)} : Claim(q)' = Claim(q)
    BY OtherThanDo DEF GiveBack, TypeOK, CallType, abandVars, closeVars
  <2>3. Claim(Do(o))' = 0
    BY ClaimDo DEF GiveBack, TypeOK, CallType
  <2>4. UNCHANGED <<pending, tombstones>>
    BY DEF GiveBack, idVars
  <2>5. Do(o) \in Procs /\ Claim(Do(o)) \in IDs \cup {0}
    BY ProcsMembers, ClaimTypes
  <2> QED
    BY <2>1, <2>2, <2>3, <2>4, <2>5, ReleaseMaps DEF TableStep
<1>19. ASSUME NEW o \in Ops, AbandonWritten(o) PROVE TableStep
  <2> USE <1>19
  <2>1. UNCHANGED err
    BY DEF AbandonWritten, connVars
  <2> SUFFICES ASSUME err = {} PROVE TableStep
    BY <2>1, RetiredMaps
  <2>2. \A q \in Procs \ {Abandon(o)} : Claim(q)' = Claim(q)
    BY OtherThanAbandon
       DEF AbandonWritten, TypeOK, AbandonType, callVars, closeVars
  <2>3. Claim(Abandon(o))' = 0
    BY ClaimAbandon DEF AbandonWritten, TypeOK, AbandonType
  <2>4. UNCHANGED <<pending, tombstones>>
    BY DEF AbandonWritten, idVars
  <2>5. Abandon(o) \in Procs /\ Claim(Abandon(o)) \in IDs \cup {0}
    BY ProcsMembers, ClaimTypes
  <2> QED
    BY <2>1, <2>2, <2>3, <2>4, <2>5, ReleaseMaps DEF TableStep
<1>20. ASSUME NEW c \in Closers, CloseWritten(c) PROVE TableStep
  <2> USE <1>20
  <2>1. UNCHANGED err
    BY DEF CloseWritten, connVars
  <2> SUFFICES ASSUME err = {} PROVE TableStep
    BY <2>1, RetiredMaps
  <2>2. \A q \in Procs \ {Close(c)} : Claim(q)' = Claim(q)
    BY OtherThanClose DEF CloseWritten, TypeOK, CloseType, callVars, abandVars
  <2>3. Claim(Close(c))' = 0
    BY ClaimClose DEF CloseWritten, TypeOK, CloseType
  <2>4. UNCHANGED <<pending, tombstones>>
    BY DEF CloseWritten, idVars
  <2>5. Close(c) \in Procs /\ Claim(Close(c)) \in IDs \cup {0}
    BY ProcsMembers, ClaimTypes
  <2> QED
    BY <2>1, <2>2, <2>3, <2>4, <2>5, ReleaseMaps DEF TableStep
<1>21. ASSUME NEW o \in Ops, AbandonTakeToken(o) PROVE TableStep
  <2> USE <1>21
  <2>1. UNCHANGED err
    BY DEF AbandonTakeToken, connVars
  <2> SUFFICES ASSUME err = {} PROVE TableStep
    BY <2>1, RetiredMaps
  <2>2. \A q \in Procs \ {Abandon(o)} : Claim(q)' = Claim(q)
    BY OtherThanAbandon
       DEF AbandonTakeToken, TypeOK, AbandonType, callVars, closeVars,
           AbandonFails
  <2>3. Abandon(o) \in Procs /\ Claim(Abandon(o)) \in IDs \cup {0}
    BY ProcsMembers, ClaimTypes
  <2>4. UNCHANGED <<pending, tombstones>>
    BY DEF AbandonTakeToken, AbandonFails, idVars
  <2>5. CASE apc' = [apc EXCEPT ![o] = "recheck"]
    <3>1. Claim(Abandon(o))' = Claim(Abandon(o))
      BY <2>5, ClaimAbandon
         DEF AbandonTakeToken, AbandonFails, TypeOK, AbandonType
    <3> QED
      BY <2>1, <2>2, <2>4, <3>1, SameMaps DEF TableStep
  <2>6. CASE apc'[o] \in {"done", "retire"}
    <3>1. Claim(Abandon(o))' = 0
      BY <2>6, ClaimAbandon
    <3> QED
      BY <2>1, <2>2, <2>3, <2>4, <3>1, ReleaseMaps DEF TableStep
  <2> QED
    BY <2>5, <2>6 DEF AbandonTakeToken, AbandonFails, TypeOK, AbandonType
<1>22. ASSUME NEW o \in Ops, InstallPending(o) PROVE TableStep
  <2> USE <1>22
  <2>1. UNCHANGED err
    BY DEF InstallPending, connVars
  <2> SUFFICES ASSUME err = {} PROVE TableStep
    BY <2>1, RetiredMaps
  <2>2. \A q \in Procs \ {Do(o)} : Claim(q)' = Claim(q)
    BY OtherThanDo DEF InstallPending, TypeOK, CallType, abandVars, closeVars
  <2>3. Claim(Do(o)) = id[o] /\ Claim(Do(o))' = 0
    BY ClaimDo DEF InstallPending, TypeOK, CallType
  <2>4. /\ UNCHANGED tombstones /\ id[o] \in reserved
        /\ pending' = [pending EXCEPT ![id[o]] = o]
    BY DEF InstallPending
  <2> QED
    BY <2>1, <2>2, <2>3, <2>4, FileMaps DEF TableStep
<1>23. ASSUME NEW o \in Ops, AbandonTombstone(o) PROVE TableStep
  <2>1. UNCHANGED err
    BY <1>23 DEF AbandonTombstone, connVars
  <2> SUFFICES ASSUME err = {} PROVE TableStep
    BY <2>1, RetiredMaps
  <2>2. \A q \in Procs \ {Abandon(o)} : Claim(q)' = Claim(q)
    BY <1>23, OtherThanAbandon
       DEF AbandonTombstone, TypeOK, AbandonType, callVars, closeVars
  <2>3. Abandon(o) \in Procs /\ Claim(Abandon(o)) \in IDs \cup {0}
    BY ProcsMembers, ClaimTypes
  <2>4. CASE AbandonMoot(o)
    <3>1. UNCHANGED <<pending, tombstones>> /\ apc' = [apc EXCEPT ![o] = "done"]
      BY <1>23, <2>4 DEF AbandonTombstone
    <3>2. Claim(Abandon(o))' = 0
      BY <3>1, ClaimAbandon DEF TypeOK, AbandonType
    <3> QED
      BY <2>1, <2>2, <2>3, <3>1, <3>2, ReleaseMaps DEF TableStep
  <2>5. CASE ~AbandonMoot(o)
    <3> USE <2>5
    <3>1. /\ pending' = Without(o) /\ tombstones' = Tombstone(o)
          /\ apc[o] = "recheck" /\ apc' = [apc EXCEPT ![o] = "writing"]
          /\ UNCHANGED aid
      BY <1>23 DEF AbandonTombstone
    <3>2. Claim(Abandon(o))' = Claim(Abandon(o))
      BY <3>1, ClaimAbandon DEF TypeOK, AbandonType
    <3>3. Live(o)
      BY DEF AbandonMoot
    <3> QED
      BY <2>1, <2>2, <3>1, <3>2, <3>3, BuryMaps DEF TableStep
  <2> QED
    BY <2>4, <2>5
<1>24. ASSUME Route PROVE TableStep
  <2> USE <1>24
  <2>1. UNCHANGED err
    BY DEF Route, connVars, readerFrame
  <2> SUFFICES ASSUME err = {} PROVE TableStep
    BY <2>1, RetiredMaps
  <2> DEFINE o == pending[reader.msg.id]
  <2>2. o \in Ops
    BY DEF Route, TypeOK, IDType
  <2>3. pending' \in {pending, Without(o)}
    BY DEF Route
  <2>4. \/ apc' = apc
        \/ ~op[o].canceled /\ apc' = [apc EXCEPT ![o] = "spawned"]
    BY DEF Route
  <2>5. UNCHANGED <<pc, id, aid, cpc, cid, tombstones>>
    BY DEF Route, readerFrame, callVars, closeVars
  <2> USE <2>5
  <2> HIDE DEF o
  <2>6. ~op[o].canceled => apc[o] = "none"
    BY <2>2 DEF IDInv, AbandonedOnce
  <2>7. \A x \in Ops : \/ apc'[x] = apc[x]
                       \/ apc[x] = "none" /\ apc'[x] = "spawned"
    BY <2>2, <2>4, <2>6 DEF TypeOK, AbandonType
  <2>8. \A x \in Ops : Claim(Abandon(x))' = Claim(Abandon(x))
    BY <2>7, ClaimAbandon
  <2>9. \A p \in Procs : Claim(p)' = Claim(p)
    BY <2>8, ProcsCases, ClaimDo, ClaimClose, ZenonT(60)
  <2> QED
    BY <2>1, <2>2, <2>3, <2>9, CompleteMaps DEF TableStep
<1>25. ASSUME AsyncRetire PROVE TableStep
  <2>1. err' # {}
    BY <1>25, RetireEnds DEF AsyncRetire, RetireHasCause, IDInv
  <2> QED
    BY <2>1, RetiredMaps
<1>26. ASSUME WriteRetire PROVE TableStep
  <2>1. err' # {}
    BY <1>26, RetireEnds DEF WriteRetire, RetireHasCause, IDInv
  <2> QED
    BY <2>1, RetiredMaps
<1>27. ASSUME NEW o \in Ops, AbandonRetire(o) PROVE TableStep
  <2>1. err' # {}
    BY <1>27, RetireEnds DEF AbandonRetire, RetireHasCause, IDInv
  <2> QED
    BY <2>1, RetiredMaps
<1>28. ASSUME NEW c \in Closers, CloseFinish(c) PROVE TableStep
  <2>1. err' # {}
    BY <1>28, RetireEnds, ErrorsNonEmpty DEF CloseFinish
  <2> QED
    BY <2>1, RetiredMaps
<1>29. ASSUME ReaderRetire PROVE TableStep
  <2>1. err' # {}
    BY <1>29, RetireEnds DEF ReaderRetire, RetireHasCause, IDInv
  <2> QED
    BY <2>1, RetiredMaps
<1>30. (\E o \in Ops : DoStep(o)) => TableStep
  BY <1>15, <1>2, <1>18, <1>22, <1>3, <1>4, <1>5, <1>13, <1>6, <1>14 DEF DoStep
<1>31. (\E o \in Ops : StreamStep(o)) => TableStep
  BY <1>1, <1>7, <1>8, <1>9
     DEF StreamStep, NextLoop, streamFrame, connVars, idVars, callVars,
         abandVars, closeVars
<1>32. (\E o \in Ops : AbandonStep(o)) => TableStep
  BY <1>16, <1>21, <1>23, <1>19, <1>27 DEF AbandonStep
<1>33. (\E c \in Closers : CloseStep(c)) => TableStep
  BY <1>11, <1>12, <1>17, <1>20, <1>28 DEF CloseStep
<1>34. WriteStep => TableStep
  BY <1>1, <1>26
     DEF WriteStep, WriteCheck, CancelWins, WriteReturn, connVars, idVars,
         callVars, abandVars, closeVars
<1>35. Flow => TableStep
  BY <1>1 DEF Flow, connVars, idVars, callVars, abandVars, closeVars
<1>36. ReaderStep => TableStep
  BY <1>1, <1>24, <1>29
     DEF ReaderStep, ReadFrame, ReadError, RouteUnsolicited, RouteUnowned,
         RouteWait, RouteAgain, readerFrame, connVars, idVars, callVars,
         abandVars, closeVars
<1>37. (\E u \in Listeners : NextUnsolicited(u)) => TableStep
  BY <1>1 DEF NextUnsolicited, connVars, idVars, callVars, abandVars, closeVars
<1>38. (\E p \in Procs : ContextDone(p)) => TableStep
  BY <1>1 DEF ContextDone, connVars, idVars, callVars, abandVars, closeVars
<1>39. PeerStep => TableStep
  BY <1>1
     DEF PeerStep, PeerReplies, PeerStrays, LinkFault, peerFrame, connVars,
         idVars, callVars, abandVars, closeVars
<1> QED
  BY <1>30, <1>31, <1>32, <1>33, <1>34, <1>35, <1>36, <1>37, <1>38, <1>39,
     <1>10, <1>25, ZenonT(60) DEF Next

\* A step that leaves the variables alone leaves the mapped table alone.
LEMMA StutterMaps ==
    ASSUME UNCHANGED vars
    PROVE  TableStep
<1> USE Zenon
<1>1. UNCHANGED <<err, pending, tombstones>>
  BY DEF vars, connVars, idVars
<1>2. UNCHANGED <<pc, id, apc, aid, cpc, cid>>
  BY DEF vars, callVars, abandVars, closeVars
<1>3. \A p \in Procs : Claim(p)' = Claim(p)
  BY <1>2, ProcsCases, ClaimDo, ClaimAbandon, ClaimClose, SMT
<1> QED
  BY <1>1, <1>3, SameMaps DEF TableStep

\* A new connection has handed out no ID.
LEMMA InitMaps == Init => Table!Init
<1> USE Zenon
<1> SUFFICES ASSUME Init PROVE Table!Init
  OBVIOUS
<1>1. /\ err = {} /\ None \notin Ops /\ 0 \notin IDs
      /\ pending = [i \in IDs |-> None] /\ tombstones = [i \in IDs |-> None]
      /\ pc = [o \in Ops |-> "idle"] /\ apc = [o \in Ops |-> "none"]
      /\ cpc = [c \in Closers |-> "idle"]
  BY ConnAssumption, SMT DEF Init, IDs
<1> USE <1>1
<1>2. \A p \in Procs : Claim(p) = 0
  BY ProcsCases, ClaimDo, ClaimAbandon, ClaimClose, SMT
<1>3. ReservedBy = {}
  BY <1>2, ReservedPairs
<1>4. FiledBy(pending) = {}
  BY PendingPairs
<1>5. FiledBy(tombstones) = {}
  BY BuriedPairs
<1> QED
  BY <1>3, <1>4, <1>5 DEF Table!Init

\* connection.go implements the ID table: whatever its goroutines do, and for
\* every set of operations and closers and every MaxID, IDs are taken,
\* installed, released, completed and buried only as IDTable allows, so what
\* the table promises holds of every connection.
THEOREM ConnImplementsIDTable == Spec => ImplementsIDTable
<1> USE Zenon
<1>1. Init => TypeOK /\ IDInv
  BY InitType, IDInvInit
<1>2. TypeOK /\ IDInv /\ [Next]_vars => (TypeOK /\ IDInv)'
  BY TypeStep, IDInvStep
<1>3. TypeOK /\ IDInv /\ [Next]_vars => [Table!Next]_(Table!vars)
  BY StepMaps, StutterMaps DEF TableStep
<1> QED
  BY <1>1, <1>2, <1>3, InitMaps, PTL DEF Spec, ImplementsIDTable, Table!Spec

-----------------------------------------------------------------------------
(***************************************************************************)
(* What the ID table promises, and so the connection.                      *)
(***************************************************************************)
\* OneHolder is inductive: an ID is taken only when nobody holds it, and every
\* other step moves a pair from one table to the next or drops it.
LEMMA OneHolderStep == Table!OneHolder /\ [Table!Next]_(Table!vars) => Table!OneHolder'
<1> USE Zenon
<1> SUFFICES ASSUME Table!OneHolder, [Table!Next]_(Table!vars) PROVE Table!OneHolder'
  OBVIOUS
<1>1. ASSUME NEW p \in Procs, NEW i \in IDs, Table!Take(p, i) PROVE Table!OneHolder'
  <2>1. /\ Table!Held' = Table!Held \cup {<<p, i>>}
        /\ (ReservedBy \cup FiledBy(pending))' = ReservedBy \cup FiledBy(pending) \cup {<<p, i>>}
        /\ ReservedBy' = ReservedBy \cup {<<p, i>>}
        /\ UNCHANGED <<FiledBy(pending), FiledBy(tombstones)>>
    BY <1>1 DEF Table!Take, Table!Held
  <2>2. \A q \in Procs : <<q, i>> \notin Table!Held
    BY <1>1 DEF Table!Take, Table!Used
  <2>3. \A j \in IDs : <<p, j>> \notin ReservedBy \cup FiledBy(pending)
    BY <1>1 DEF Table!Take
  <2>4. \A q, r \in Procs, k \in IDs :
           <<q, k>> \in Table!Held' /\ <<r, k>> \in Table!Held' => q = r
    BY <2>1, <2>2 DEF Table!OneHolder
  <2>5. \A q \in Procs, k, j \in IDs :
           /\ <<q, k>> \in (ReservedBy \cup FiledBy(pending))'
           /\ <<q, j>> \in (ReservedBy \cup FiledBy(pending))'
           => k = j
    BY <2>1, <2>3 DEF Table!OneHolder
  <2>6. Table!Held' \subseteq Procs \X IDs
    BY <2>1, SMT DEF Table!OneHolder
  <2>7. /\ (ReservedBy \cap FiledBy(pending))' = {}
        /\ ((ReservedBy \cup FiledBy(pending)) \cap FiledBy(tombstones))' = {}
    BY <2>1, <2>2, SMT DEF Table!OneHolder, Table!Held
  <2> QED
    BY <2>4, <2>5, <2>6, <2>7 DEF Table!OneHolder
<1>2. ASSUME /\ Table!Held' \subseteq Table!Held
             /\ (ReservedBy \cup FiledBy(pending))' \subseteq ReservedBy \cup FiledBy(pending)
             /\ (ReservedBy \cap FiledBy(pending))' = {}
             /\ ((ReservedBy \cup FiledBy(pending)) \cap FiledBy(tombstones))' = {}
      PROVE  Table!OneHolder'
  BY <1>2 DEF Table!OneHolder
<1>3. ASSUME NEW p \in Procs, NEW i \in IDs, Table!Release(p, i) PROVE Table!OneHolder'
  <2>1. Table!Held' \subseteq Table!Held
    BY <1>3 DEF Table!Release, Table!Held
  <2>2. (ReservedBy \cup FiledBy(pending))' \subseteq ReservedBy \cup FiledBy(pending)
    BY <1>3 DEF Table!Release
  <2>3. (ReservedBy \cap FiledBy(pending))' = {}
    BY <1>3 DEF Table!Release, Table!OneHolder
  <2>4. ((ReservedBy \cup FiledBy(pending)) \cap FiledBy(tombstones))' = {}
    BY <1>3 DEF Table!Release, Table!OneHolder
  <2> QED
    BY <1>2, <2>1, <2>2, <2>3, <2>4
<1>4. ASSUME NEW p \in Procs, NEW i \in IDs, Table!File(p, i) PROVE Table!OneHolder'
  <2>1. Table!Held' \subseteq Table!Held
    BY <1>4 DEF Table!File, Table!Held
  <2>2. (ReservedBy \cup FiledBy(pending))' \subseteq ReservedBy \cup FiledBy(pending)
    BY <1>4 DEF Table!File
  <2>3. (ReservedBy \cap FiledBy(pending))' = {}
    BY <1>4 DEF Table!File, Table!OneHolder
  <2>4. ((ReservedBy \cup FiledBy(pending)) \cap FiledBy(tombstones))' = {}
    BY <1>4 DEF Table!File, Table!OneHolder
  <2> QED
    BY <1>2, <2>1, <2>2, <2>3, <2>4
<1>5. ASSUME NEW p \in Procs, NEW i \in IDs, Table!Complete(p, i) PROVE Table!OneHolder'
  <2>1. Table!Held' \subseteq Table!Held
    BY <1>5 DEF Table!Complete, Table!Held
  <2>2. (ReservedBy \cup FiledBy(pending))' \subseteq ReservedBy \cup FiledBy(pending)
    BY <1>5 DEF Table!Complete
  <2>3. (ReservedBy \cap FiledBy(pending))' = {}
    BY <1>5 DEF Table!Complete, Table!OneHolder
  <2>4. ((ReservedBy \cup FiledBy(pending)) \cap FiledBy(tombstones))' = {}
    BY <1>5 DEF Table!Complete, Table!OneHolder
  <2> QED
    BY <1>2, <2>1, <2>2, <2>3, <2>4
<1>6. ASSUME NEW p \in Procs, NEW i \in IDs, Table!Bury(p, i) PROVE Table!OneHolder'
  <2>1. Table!Held' \subseteq Table!Held
    BY <1>6 DEF Table!Bury, Table!Held
  <2>2. (ReservedBy \cup FiledBy(pending))' \subseteq ReservedBy \cup FiledBy(pending)
    BY <1>6 DEF Table!Bury
  <2>3. (ReservedBy \cap FiledBy(pending))' = {}
    BY <1>6 DEF Table!Bury, Table!OneHolder
  <2>4. ((ReservedBy \cup FiledBy(pending)) \cap FiledBy(tombstones))' = {}
    BY <1>6 DEF Table!Bury, Table!OneHolder
  <2> QED
    BY <1>2, <2>1, <2>2, <2>3, <2>4
<1>7. CASE Table!Shutdown
  BY <1>7 DEF Table!OneHolder, Table!Shutdown, Table!Held
<1>8. CASE UNCHANGED Table!vars
  BY <1>8 DEF Table!OneHolder, Table!vars, Table!Held
<1> QED
  BY <1>1, <1>3, <1>4, <1>5, <1>6, <1>7, <1>8 DEF Table!Next

\* What IDTable says of its behaviours alone, no connection assumed.
LEMMA TableAlways == Table!Spec => []Table!OneHolder /\ Table!BuriedForGood
<1> USE Zenon
<1>1. Table!Init => Table!OneHolder
  BY DEF Table!Init, Table!OneHolder, Table!Held
<1>2. [Table!Next]_(Table!vars) =>
         [~(err # {})' => FiledBy(tombstones) \subseteq FiledBy(tombstones)']_(Table!vars)
  BY DEF Table!Next, Table!Take, Table!Release, Table!File, Table!Complete, Table!Bury,
         Table!Shutdown, Table!vars
<1> QED
  BY <1>1, <1>2, OneHolderStep, PTL DEF Table!Spec, Table!BuriedForGood

\* No two goroutines of a connection ever hold one message ID, so a response
\* that route looks up by its ID cannot reach a request it was not meant for.
THEOREM OneHolderAlways == Spec => []Table!OneHolder
BY ConnImplementsIDTable, TableAlways, PTL DEF ImplementsIDTable

\* The ID of an abandoned request stays buried until the connection is retired
\* (the tombstones of connection.go are deleted nowhere else).
THEOREM BuriedForGoodAlways == Spec => Table!BuriedForGood
BY ConnImplementsIDTable, TableAlways, PTL DEF ImplementsIDTable

-----------------------------------------------------------------------------
(***************************************************************************)
(* From steps to behaviours.  The one fact about finite sets that the      *)
(* steps assume is settled first, then the invariant holds always and the  *)
(* theorems follow.                                                        *)
(***************************************************************************)
Finite == INSTANCE FiniteSetTheorems

\* The library's notions of finiteness and cardinality are those of FiniteSets.
LEMMA SameCount ==
    \A S : /\ IsFiniteSet(S) <=> Finite!IsFiniteSet(S)
           /\ Cardinality(S) = Finite!Cardinality(S)
<1> USE Zenon
<1>1. \A S : IsFiniteSet(S) <=> Finite!IsFiniteSet(S)
  BY DEF IsFiniteSet, Finite!IsFiniteSet
<1>2. \A S : Cardinality(S) = Finite!Cardinality(S)
  BY DEF Cardinality, Finite!Cardinality
<1> QED
  BY <1>1, <1>2

\* Finite sets can be counted.
LEMMA FullCounted == FullCount
<1> USE Zenon
<1> SUFFICES ASSUME NEW R \in SUBSET IDs, NEW P \in SUBSET IDs, NEW T \in SUBSET IDs,
                    R \cap P = {}, R \cap T = {}, P \cap T = {}
             PROVE  Cardinality(R) + Cardinality(P) + Cardinality(T) >= MaxID
                    <=> R \cup P \cup T = IDs
  BY DEF FullCount
<1>1. IsFiniteSet(IDs) /\ Cardinality(IDs) = MaxID
  BY ConnAssumption, SameCount, Finite!FS_Interval, SMT DEF IDs
<1>2. IsFiniteSet(R) /\ IsFiniteSet(P) /\ IsFiniteSet(T)
  BY <1>1, SameCount, Finite!FS_Subset
<1>3. /\ Cardinality(R) \in Nat /\ Cardinality(P) \in Nat /\ Cardinality(T) \in Nat
      /\ Cardinality({}) = 0
  BY <1>2, SameCount, Finite!FS_CardinalityType, Finite!FS_EmptySet
<1>4. ASSUME NEW A, NEW B, IsFiniteSet(A), IsFiniteSet(B), A \cap B = {}
      PROVE  /\ IsFiniteSet(A \cup B)
             /\ Cardinality(A \cup B) = Cardinality(A) + Cardinality(B)
  <2> USE <1>4
  <2>1. /\ IsFiniteSet(A \cup B)
        /\ Cardinality(A \cup B) = Cardinality(A) + Cardinality(B) - Cardinality(A \cap B)
    BY SameCount, Finite!FS_Union
  <2>2. Cardinality(A \cap B) = 0 /\ Cardinality(A) \in Nat /\ Cardinality(B) \in Nat
    BY <1>3, SameCount, Finite!FS_CardinalityType
  <2> QED
    BY <2>1, <2>2, SMT
<1>5. IsFiniteSet(R \cup P) /\ Cardinality(R \cup P) = Cardinality(R) + Cardinality(P)
  BY <1>2, <1>4
<1>6. (R \cup P) \cap T = {}
  OBVIOUS
<1> DEFINE U == R \cup P \cup T
<1>7. Cardinality(U) = Cardinality(R) + Cardinality(P) + Cardinality(T)
  <2>1. Cardinality(U) = Cardinality(R \cup P) + Cardinality(T)
    BY <1>2, <1>4, <1>5, <1>6
  <2> QED
    BY <1>5, <2>1
<1>8. U \in SUBSET IDs
  OBVIOUS
<1> HIDE DEF U
<1>9. Cardinality(U) <= Cardinality(IDs) /\ (Cardinality(IDs) = Cardinality(U) => IDs = U)
  BY <1>1, <1>8, SameCount, Finite!FS_Subset
<1>10. U = IDs => Cardinality(U) = MaxID
  BY <1>1
<1>11. Cardinality(U) >= MaxID <=> U = IDs
  BY <1>1, <1>3, <1>7, <1>9, <1>10, ConnAssumption, SMT
<1> QED
  BY <1>7, <1>11 DEF U

\* The invariant always holds.
LEMMA SafeAlways ==
    /\ Spec => [](TypeOK /\ IDInv /\ SafeInv)
    /\ ~ShortWrites /\ Spec => []FrameInv
<1> USE Zenon
<1>1. Init => TypeOK /\ IDInv /\ SafeInv /\ FrameInv
  BY InitType, IDInvInit, SafeInit
<1>2. TypeOK /\ IDInv /\ [Next]_vars => TypeOK' /\ IDInv'
  BY TypeStep, IDInvStep
<1>3. TypeOK /\ TypeOK' /\ IDInv /\ IDInv' /\ SafeInv /\ [Next]_vars => SafeInv'
  BY FullCounted, SafeStep
<1>4. ASSUME ~ShortWrites
      PROVE  TypeOK /\ TypeOK' /\ IDInv /\ IDInv' /\ SafeInv /\ FrameInv /\ [Next]_vars
                => FrameInv'
  BY <1>4, FullCounted, SafeStep
<1>5. Spec => [](TypeOK /\ IDInv /\ SafeInv)
  BY <1>1, <1>2, <1>3, PTL DEF Spec
<1>6. ASSUME ~ShortWrites PROVE Spec => []FrameInv
  <2>1. TypeOK /\ TypeOK' /\ IDInv /\ IDInv' /\ SafeInv /\ FrameInv /\ [Next]_vars
           => FrameInv'
    BY <1>4, <1>6
  <2> QED
    BY <1>1, <1>5, <2>1, PTL DEF Spec
<1> QED
  BY <1>5, <1>6

-----------------------------------------------------------------------------
(***************************************************************************)
(* The theorems.                                                           *)
(***************************************************************************)
\* When retire has run, no operation is pending, and each that was installed
\* has completed: no Do call and no consumer is left to wait for a reader that
\* has stopped.
THEOREM RetirementCompletesAlways == Spec => []RetirementCompletes
<1> USE Zenon
<1>1. SafeInv => RetirementCompletes
  BY DEF SafeInv, RecordInv, Installed, RetirementCompletes
<1> QED
  BY <1>1, SafeAlways, PTL

\* A result the consumer owns is not erased: once an operation completed
\* normally, neither cancelOperation nor retire nor route changes what Next
\* will return.
THEOREM TerminalWinsAlways == Spec => TerminalWins
<1> USE Zenon
<1> DEFINE Wins == \A o \in Ops : op[o].terminal /\ op[o].deliveryErr = {}
              => /\ op'[o].deliveryErr = {}
                 /\ \/ op'[o].queue = op[o].queue
                    \/ got'[o] = got[o] + 1 /\ op'[o].queue = Tail(op[o].queue)
<1>1. TypeOK /\ IDInv /\ SafeInv /\ [Next]_vars => [Wins]_vars
  <2> SUFFICES ASSUME TypeOK, IDInv, SafeInv, Next PROVE Wins
    OBVIOUS
  <2>1. RecordInv
    BY DEF SafeInv
  <2>2. \A o \in Ops : RecordMoves(o)
    BY <2>1, RecordsStep DEF RecordsMove
  <2> QED
    BY <2>1, <2>2, OwnedKept
<1> QED
  BY <1>1, SafeAlways, PTL DEF Spec, TerminalWins

\* A consumer asleep in Next has a token in its ready channel as soon as there
\* is a response, an error or the end of the stream for it.
THEOREM NoLostResponseWakeupAlways == Spec => []NoLostResponseWakeup
<1> USE Zenon
<1>1. SafeInv => NoLostResponseWakeup
  BY DEF SafeInv
<1> QED
  BY <1>1, SafeAlways, PTL

\* A Do call sleeps in reserveMessageID only while every message ID is
\* reserved, pending or a tombstone: whoever frees one closes idChanged.
THEOREM NoLostIDWakeupAlways == Spec => []NoLostIDWakeup
<1> USE Zenon
<1>1. SafeInv => NoLostIDWakeup
  BY DEF SafeInv
<1> QED
  BY <1>1, SafeAlways, PTL

\* A Do call that returned an error leaves no pending record behind, unless a
\* goroutine is about to retire the connection for its half-written request.
THEOREM NoLeakedIDAlways == Spec => []NoLeakedID
<1> USE Zenon
<1>1. SafeInv => NoLeakedID
  BY DEF SafeInv, UnsentInv
<1> QED
  BY <1>1, SafeAlways, PTL

\* What an error says of its request is true: ErrDefinitelyUnsent only if no
\* byte of it left, and a transport error after some byte left is
\* ErrAmbiguousOutcome; also for the errors retire gives to operations that
\* were written by others.
THEOREM OutcomeTruthfulAlways == Spec => []OutcomeTruthful
<1> USE Zenon
<1>1. SafeInv => OutcomeTruthful
  BY DEF SafeInv, SentInv
<1> QED
  BY <1>1, SafeAlways, PTL

\* If the transport's Write returns short only with an error, as io.Writer
\* demands, no frame on the wire is ever cut short by the beginning of another.
THEOREM FramesWholeAlways == ~ShortWrites /\ Spec => []FramesWhole
<1> USE Zenon
<1>1. FrameInv => FramesWhole
  BY DEF FrameInv, FramesWhole
<1> QED
  BY <1>1, SafeAlways, PTL

\* Nothing follows the Unbind of CloseContext on the wire.
THEOREM SilentAfterUnbindAlways == Spec => SilentAfterUnbind
<1> USE Zenon
<1> DEFINE Silent == (\E c \in Closers : tail = [who |-> Close(c), n |-> FrameLen])
                        => tail' = tail
<1>1. TypeOK /\ IDInv /\ SafeInv /\ [Next]_vars => [Silent]_vars
  <2> SUFFICES ASSUME TypeOK, IDInv, SafeInv, Next PROVE Silent
    OBVIOUS
  <2>1. TokenHeld /\ UnbindInv
    BY DEF SafeInv
  <2>2. WriteMoves
    BY <2>1, WriteMovesStep
  <2> QED
    BY <2>1, <2>2, UnbindLast
<1> QED
  BY <1>1, SafeAlways, PTL DEF Spec, SilentAfterUnbind

-----------------------------------------------------------------------------
(***************************************************************************)
(* Delivery.  The steps of ConnTableProofs and the invariant together.     *)
(***************************************************************************)
\* Every step of Next keeps the delivery invariant, given the invariants of the
\* ID table, of the write path and of the reader.
LEMMA ResponseStep ==
    ASSUME TypeOK, TypeOK', IDInv, IDInv', SafeInv, ResponseInv, [Next]_vars
    PROVE  ResponseInv'
<1> USE Zenon
<1>1. CASE Next
  <2>1. RecordInv /\ TokenHeld /\ TailKnown /\ SentInv /\ StageInv
    BY DEF SafeInv, ResponseInv
  <2>2. CallsMove /\ ErrMoves
    BY <1>1, <2>1, CallsStep, ErrStep
  <2>3. StreamsMove /\ StagesMove /\ TablesMove /\ FlightMoves
    BY <1>1, StreamsStep, StagesStep, TablesStep, FlightStep
  <2>4. StageInv'
    BY <2>1, <2>2, <2>3, StageStep
  <2>5. ASSUME strays' = 0 PROVE AnswerInv' /\ HeldInv' /\ DeliveryInv'
    <3>1. strays = 0
      BY <2>3, <2>5, Replied DEF FlightMoves, Flow
    <3>2. AnswerInv /\ HeldInv /\ DeliveryInv
      BY <3>1 DEF ResponseInv
    <3>3. AnswerInv'
      BY <2>1, <2>3, <2>5, <3>2, AnswerStep
    <3>4. HeldInv'
      BY <2>1, <2>2, <2>3, <2>5, <3>2, <3>3, HeldStep
    <3>5. DeliveryInv'
      BY <2>1, <2>2, <2>3, <2>5, <3>2, DeliveryStep
    <3> QED
      BY <3>3, <3>4, <3>5
  <2> QED
    BY <2>4, <2>5 DEF ResponseInv
<1>2. CASE UNCHANGED vars
  BY <1>2, ResponseStutter
<1> QED
  BY <1>1, <1>2

\* The delivery invariant holds in every reachable state.
LEMMA ResponseAlways == Spec => []ResponseInv
<1> USE Zenon
<1>1. Init => ResponseInv
  BY ResponseInit
<1>2. TypeOK /\ TypeOK' /\ IDInv /\ IDInv' /\ SafeInv /\ ResponseInv /\ [Next]_vars
         => ResponseInv'
  BY ResponseStep
<1> QED
  BY <1>1, <1>2, SafeAlways, PTL DEF Spec

\* As long as the peer sends only answers, the message ID of a request it may
\* still answer stays with its operation, pending or as a tombstone: sendAbandon
\* and cancelOperation never free it, and tryReserveMessageIDLocked never hands
\* it to another operation.
THEOREM IDHeldWhileOwedAlways == Spec => [](strays = 0 => IDHeldWhileOwed)
<1> USE Zenon
<1>1. TypeOK /\ ResponseInv => (strays = 0 => IDHeldWhileOwed)
  BY DEF TypeOK, PeerType, ResponseInv, HeldInv, IDHeldWhileOwed, Files, Buried
<1> QED
  BY <1>1, ResponseAlways, SafeAlways, PTL

\* So route queues a response only for the operation it answers.
THEOREM RoutedToOwnerAlways == Spec => [](strays = 0 => RoutedToOwner)
<1> USE Zenon
<1>1. ResponseInv => (strays = 0 => RoutedToOwner)
  BY DEF ResponseInv, DeliveryInv, Delivered, Ordered, RoutedToOwner
<1> QED
  BY <1>1, ResponseAlways, PTL

\* The consumer gets the responses of its operation in the order sent and
\* without a gap, and io.EOF from Next means that it has had every one of them:
\* no cancellation, overflow or retirement looks like the end of the stream.
THEOREM DeliveryCompleteAlways == Spec => []DeliveryComplete
<1> USE Zenon
<1>1. TypeOK /\ ResponseInv => DeliveryComplete
  <2> SUFFICES ASSUME TypeOK, ResponseInv, strays = 0, NEW o \in Ops
               PROVE  /\ \A k \in DOMAIN op[o].queue : op[o].queue[k].n = got[o] + k
                      /\ cons[o] = "eof" => got[o] = replies[o] /\ o \notin owed
    BY DEF DeliveryComplete
  <2>1. Delivered(o)
    BY DEF ResponseInv, DeliveryInv
  <2>2. CASE cons[o] = "eof"
    <3>1. op[o].queue = <<>> /\ Seen(o) = replies[o] /\ o \notin owed
      BY <2>1, <2>2 DEF Delivered
    <3>2. got[o] \in Nat
      BY DEF TypeOK, StreamType
    <3> QED
      BY <2>1, <3>1, <3>2, SMT DEF Seen, Delivered, Ordered
  <2> QED
    BY <2>1, <2>2 DEF Delivered, Ordered
<1> QED
  BY <1>1, ResponseAlways, SafeAlways, PTL

=============================================================================
