----------------------------- MODULE ConnProofs -----------------------------
(***************************************************************************)
(* Conn, for every set of operations and every bound.  First its types:    *)
(* the shapes of errors and of the updates, then one lemma per group of    *)
(* variables, then the theorem.  Then message IDs, never shared and never  *)
(* lost: the parts of the invariant that hold of every step by themselves  *)
(* (retire has a cause, an operation is abandoned once, pending records    *)
(* are filed under their IDs, the tables are disjoint), the reservations   *)
(* and who claims them.  Last, what a step may do to the record of an      *)
(* operation, to the place of its Do call, to the end of the connection    *)
(* and to the write token, from which ConnSafetyProofs reasons.            *)
(***************************************************************************)
EXTENDS Conn, TLAPS

-----------------------------------------------------------------------------
(***************************************************************************)
(* The values the operators of Conn build.                                 *)
(***************************************************************************)
\* Every error an operation can be given is a set of sentinels.
LEMMA ErrorConstants ==
    /\ {} \in Error /\ ErrClosed \in Error /\ CtxErr \in Error
    /\ {"limit"} \in Error /\ {"protocol"} \in Error
    /\ {"notice"} \in Error /\ {"encode"} \in Error
    /\ {"transport"} \in Error /\ {"notready"} \in Error
BY Zenon DEF Error, Sentinels, ErrClosed, CtxErr

\* Wrapping an error keeps it a set of sentinels.
LEMMA ErrorWraps ==
    ASSUME NEW e \in Error
    PROVE  DefinitelyUnsent(e) \in Error /\ Ambiguous(e) \in Error
BY Zenon DEF Error, Sentinels, DefinitelyUnsent, Ambiguous

\* What the error-building helpers return.
LEMMA ErrorTypes ==
    ASSUME TypeOK, NEW o \in Ops, NEW e \in Error
    PROVE  RetirementError(o, e) \in Error /\ Refusal(o) \in Error
<1> USE Zenon
<1>1. RetirementError(o, e) \in Error
  BY DEF Error, Sentinels, RetirementError
<1>2. Refusal(o) \in Error
  BY ErrorConstants DEF Refusal, TypeOK, ConnType
<1> QED
  BY <1>1, <1>2

\* What a failed write reports is a set of errors.
LEMMA WriteErrorTypes ==
    ASSUME TypeOK, NEW p
    PROVE  AcquireErrors(p) \subseteq Error /\ WriteError \in Error
<1> USE Zenon
<1>1. err \in Error
  BY DEF TypeOK, ConnType
<1>2. HeldError(p) \in Error
  BY <1>1, ErrorConstants, ErrorWraps DEF HeldError
<1>3. AcquireErrors(p) \subseteq Error
  BY <1>1, <1>2, ErrorConstants, ErrorWraps DEF AcquireErrors
<1>4. WriteError \in Error
  BY ErrorConstants, ErrorWraps DEF WriteError
<1> QED
  BY <1>3, <1>4

\* The two values a writeAll call starts from and ends in.
LEMMA WriteCallTypes == Idle \in WriteCall /\ WriteAll \in WriteCall
<1> USE Zenon
<1> DEFINE z == 0
<1>1. z \in 0 .. FrameLen /\ {} \in Error
  BY ConnAssumption, ErrorConstants, SMT
<1> HIDE DEF z
<1>2. [pc |-> "off", total |-> z, begun |-> z, won |-> FALSE, err |-> {}]
        \in WriteCall
  BY <1>1 DEF WriteCall
<1>3. Idle \in WriteCall
  BY <1>2 DEF Idle, z
<1> QED
  BY <1>3 DEF WriteAll, WriteCall

\* Ending delivery leaves a well-formed pendingOperation.
LEMMA ClearedType ==
    ASSUME NEW p \in Operation, NEW e \in Error
    PROVE  Cleared(p, e) \in Operation
<1> USE Zenon
<1> DEFINE q == <<>>
           z == 0
<1>1. q \in Seq(Message) /\ z \in Int
  BY SMT
<1> HIDE DEF q, z
<1>2. [p EXCEPT !.deliveryErr = e, !.queue = q, !.bytes = z,
                !.canceled = TRUE, !.ready = TRUE] \in Operation
  BY <1>1 DEF Operation
<1> QED
  BY <1>2 DEF Cleared, q, z

\* So does handing over the head of the queue.
LEMMA TakenType ==
    ASSUME NEW p \in Operation, p.queue # <<>>
    PROVE  Taken(p) \in Operation
<1> USE Zenon
<1> DEFINE t == Tail(p.queue)
           b == p.bytes - Head(p.queue).size
<1>1. p.queue \in Seq(Message) /\ p.bytes \in Int
  BY DEF Operation
<1>2. Head(p.queue) \in Message /\ t \in Seq(Message)
  BY <1>1, SMT
<1>3. b \in Int
  BY <1>1, <1>2, SMT DEF Message
<1> HIDE DEF t, b
<1>4. [p EXCEPT !.queue = t, !.bytes = b] \in Operation
  BY <1>2, <1>3 DEF Operation
<1> QED
  BY <1>4 DEF Taken, t, b

\* So does retirement.
LEMMA RetiredType ==
    ASSUME TypeOK, NEW o \in Ops, NEW e \in Error
    PROVE  Retired(o, e) \in Operation
BY ErrorTypes, Zenon DEF TypeOK, Retired, Operation

\* So does cancelOperation.
LEMMA CanceledType ==
    ASSUME TypeOK, NEW o \in Ops, NEW e \in Error
    PROVE  Canceled(o, e) \in Operation
<1> USE Zenon
<1> DEFINE b == op[o].abandoning \/ CancelActs(o, "abandon")
           p == [op[o] EXCEPT !.abandoning = b]
<1>1. b \in BOOLEAN
  OBVIOUS
<1>2. op[o] \in Operation
  BY DEF TypeOK
<1>3. Canceled(o, e) = IF p.deliveryErr # {} THEN p ELSE Cleared(p, e)
  BY DEF Canceled
<1> HIDE DEF b
<1>4. p \in Operation
  BY <1>1, <1>2 DEF Operation
<1> HIDE DEF p
<1> QED
  BY <1>3, <1>4, ClearedType

\* So does route, whatever it does with the response.
LEMMA AcceptedType ==
    ASSUME TypeOK, NEW o \in Ops, NEW m \in Message, NEW last \in BOOLEAN
    PROVE  Accepted(o, m, last) \in Operation
<1> USE Zenon
<1> DEFINE t == op[o].terminal \/ last
           f == op[o].ended \/ last
           p == [op[o] EXCEPT !.ready = TRUE, !.terminal = t, !.ended = f]
           a == p.abandoning \/ (~last /\ Mode[o] = "abandon")
           r == [p EXCEPT !.abandoning = a]
<1>1. t \in BOOLEAN /\ f \in BOOLEAN /\ a \in BOOLEAN
  OBVIOUS
<1>2. op[o] \in Operation
  BY DEF TypeOK
<1>3. Accepted(o, m, last) \in
        {p, [p EXCEPT !.queue = Append(@, m), !.bytes = @ + m.size],
         Cleared(r, {"limit"})}
  <2>1. p.canceled \in BOOLEAN /\ Overflows(o, m) \in BOOLEAN
    BY <1>2 DEF Overflows, Operation
  <2>2. CASE p.canceled
    BY <2>2 DEF Accepted
  <2>3. CASE ~p.canceled /\ ~Overflows(o, m)
    BY <2>3 DEF Accepted
  <2>4. CASE ~p.canceled /\ Overflows(o, m)
    BY <2>4 DEF Accepted
  <2> QED
    BY <2>1, <2>2, <2>3, <2>4
<1> HIDE DEF t, f, a
<1>4. p \in Operation
  BY <1>1, <1>2 DEF Operation
<1> USE <1>4
<1> HIDE DEF p
<1>5. r \in Operation
  BY <1>1 DEF Operation
<1> HIDE DEF r
<1>6. Cleared(r, {"limit"}) \in Operation
  BY <1>5, ClearedType, ErrorConstants
<1>7. [p EXCEPT !.queue = Append(@, m), !.bytes = @ + m.size] \in Operation
  <2>1. m.size \in Int /\ p.bytes \in Int /\ p.queue \in Seq(Message)
    BY SMT DEF Operation, Message
  <2>2. p.bytes + m.size \in Int
    BY <2>1, SMT
  <2>3. Append(p.queue, m) \in Seq(Message)
    BY <2>1, SMT
  <2> QED
    BY <2>2, <2>3 DEF Operation
<1> QED
  BY <1>3, <1>6, <1>7

-----------------------------------------------------------------------------
(***************************************************************************)
(* Type correctness of the critical sections several actions share.        *)
(***************************************************************************)
\* retire keeps the types of everything it writes.
LEMMA RetireType ==
    ASSUME TypeOK, NEW e \in Error, Retire(e)
    PROVE  /\ state' \in {"transportSetup", "authenticating", "initializing",
                          "ready", "draining", "closed"}
           /\ err' \in Error
           /\ link' \in [closed : BOOLEAN, broken : BOOLEAN, eof : BOOLEAN]
           /\ reserved' \subseteq IDs
           /\ pending' \in [IDs -> Ops \cup {None}]
           /\ tombstones' \in [IDs -> Ops \cup {None}]
           /\ idWait' \subseteq Ops
           /\ op' \in [Ops -> Operation]
           /\ unsolReady' \in BOOLEAN
<1> USE Zenon
<1>1. CASE err # {}
  BY <1>1 DEF Retire, retireVars, TypeOK, ConnType, IDType, UnsolType
<1>2. CASE err = {}
  <2> DEFINE cause == IF closing THEN ErrClosed ELSE e
  <2>1. cause \in Error
    BY ErrorConstants
  <2>2. /\ err' = cause
        /\ state' = "closed"
        /\ link' = [link EXCEPT !.closed = TRUE]
        /\ reserved' = {}
        /\ op' = [o \in Ops |-> IF Live(o) THEN Retired(o, cause) ELSE op[o]]
        /\ pending' = [i \in IDs |-> None]
        /\ tombstones' = [i \in IDs |-> None]
        /\ idWait' = {}
        /\ unsolReady' = TRUE
    BY <1>2 DEF Retire
  <2> USE <2>2
  <2> HIDE DEF cause
  <2>3. op' \in [Ops -> Operation]
    BY <2>1, RetiredType DEF TypeOK
  <2>4. link' \in [closed : BOOLEAN, broken : BOOLEAN, eof : BOOLEAN]
    BY DEF TypeOK, ConnType
  <2> QED
    BY <2>1, <2>3, <2>4
<1> QED
  BY <1>1, <1>2

\* So does cancelOperation.
LEMMA CancelOperationType ==
    ASSUME TypeOK, NEW o \in Ops, NEW e \in Error, CancelOperation(o, e)
    PROVE  /\ op' \in [Ops -> Operation]
           /\ apc' \in [Ops -> {"none", "spawned", "queued", "recheck",
                                "writing", "retire", "done"}]
           /\ retiring' \subseteq Error
<1> USE Zenon
<1>1. CASE Owned(o)
  BY <1>1 DEF CancelOperation, TypeOK, ConnType, AbandonType
<1>2. CASE ~Owned(o)
  BY <1>2, CanceledType, ErrorConstants, SMT
     DEF CancelOperation, TypeOK, ConnType, AbandonType
<1> QED
  BY <1>1, <1>2

\* So do the allocator's operations.
LEMMA TryReserveType ==
    ASSUME TypeOK, NEW i \in IDs, TryReserve(i)
    PROVE  nextID' \in 0 .. MaxID /\ reserved' \subseteq IDs
BY ConnAssumption, SMT DEF TypeOK, IDType, TryReserve, IDs

\* Releasing a reservation keeps the allocator well typed.
LEMMA ReleaseReservedType ==
    ASSUME TypeOK, NEW i, ReleaseReserved(i)
    PROVE  reserved' \subseteq IDs /\ idWait' \subseteq Ops
BY Zenon DEF TypeOK, IDType, ReleaseReserved

\* So does the completion of an operation.
LEMMA CompleteType ==
    ASSUME TypeOK, NEW o \in Ops, Complete(o)
    PROVE  /\ pending' \in [IDs -> Ops \cup {None}]
           /\ idWait' \subseteq Ops
           /\ op' \in [Ops -> Operation]
<1> USE Zenon
<1>1. CASE Live(o)
  <2> USE <1>1
  <2> DEFINE q == [op[o] EXCEPT !.terminal = TRUE, !.ended = TRUE,
                                !.ready = TRUE]
  <2>1. q \in Operation
    BY DEF TypeOK, Operation
  <2>2. op' = [op EXCEPT ![o] = q]
    BY DEF Complete
  <2>3. pending' = Without(o) /\ idWait' = {}
    BY DEF Complete
  <2> HIDE DEF q
  <2>4. op' \in [Ops -> Operation]
    BY <2>1, <2>2 DEF TypeOK
  <2>5. pending' \in [IDs -> Ops \cup {None}]
    BY <2>3 DEF Without, TypeOK, IDType
  <2> QED
    BY <2>3, <2>4, <2>5
<1>2. CASE ~Live(o)
  BY <1>2 DEF Complete, TypeOK, IDType
<1> QED
  BY <1>1, <1>2

-----------------------------------------------------------------------------
(***************************************************************************)
(* Type correctness, one lemma for each group of variables.                *)
(***************************************************************************)
\* The connection's own fields.
LEMMA ConnTypeStep ==
    ASSUME TypeOK, Next
    PROVE  ConnType'
<1> USE Zenon
<1>1. UNCHANGED <<connVars, retiring, ctxDone, link>> => ConnType'
  BY DEF TypeOK, ConnType, connVars
<1>2. AsyncRetire => ConnType'
  BY RetireType DEF AsyncRetire, ConnType, TypeOK, connVars
<1>3. WriteRetire => ConnType'
  BY RetireType
     DEF WriteRetire, WriterType, WriteCall, TypeOK, ConnType, connVars
<1>4. \A o \in Ops : AbandonRetire(o) => ConnType'
  BY RetireType DEF AbandonRetire, AbandonType, TypeOK, ConnType, connVars
<1>5. \A c \in Closers : CloseFinish(c) => ConnType'
  BY RetireType, ErrorConstants DEF CloseFinish, TypeOK, ConnType, connVars
<1>6. ReaderRetire => ConnType'
  BY RetireType DEF ReaderRetire, ReaderType, TypeOK, ConnType, connVars
<1>7. CancelWins => ConnType'
  BY ErrorConstants, ErrorWraps DEF CancelWins, connVars, TypeOK, ConnType
<1>8. \A o \in Ops : NextCall(o) => ConnType'
  BY CancelOperationType, ErrorConstants
     DEF NextCall, streamFrame, TypeOK, ConnType, connVars
<1>9. \A o \in Ops : NextWake(o) => ConnType'
  BY CancelOperationType, ErrorConstants
     DEF NextWake, streamFrame, TypeOK, ConnType, connVars
<1>10. \A o \in Ops : CloseStream(o) => ConnType'
  BY CancelOperationType, ErrorConstants
     DEF CloseStream, streamFrame, TypeOK, ConnType, connVars
<1>11. ASSUME NEW o \in Ops, WatchOperation(o) PROVE ConnType'
  <2> USE <1>11
  <2>1. UNCHANGED <<op, apc, retiring>> => ConnType'
    BY DEF WatchOperation, streamFrame, TypeOK, ConnType, connVars
  <2>2. CancelOperation(o, CtxErr) => ConnType'
    BY CancelOperationType, ErrorConstants
       DEF WatchOperation, streamFrame, TypeOK, ConnType, connVars
  <2> QED
    BY <2>1, <2>2 DEF WatchOperation
<1>12. \A p \in Procs : ContextDone(p) => ConnType'
  BY DEF ContextDone, TypeOK, ConnType, connVars
<1>13. \A c \in Closers : CloseBegin(c) => ConnType'
  BY DEF CloseBegin, TypeOK, ConnType, connVars
<1>14. LinkFault => ConnType'
  BY DEF LinkFault, peerFrame, TypeOK, ConnType, connVars
<1>15. (\E o \in Ops : DoStep(o)) => ConnType'
  BY <1>1
     DEF DoStep, Reserve, ReserveCanceled, GiveBack, InstallPending, TakeToken,
         StartWrite, WriteDone, RemoveDefinitelyUnsent, ObserveWrite,
         CompleteNoResponse, connVars
<1>16. (\E o \in Ops : StreamStep(o)) => ConnType'
  BY <1>1, <1>8, <1>9, <1>10 DEF StreamStep, NextLoop, streamFrame, connVars
<1>17. (\E o \in Ops : AbandonStep(o)) => ConnType'
  BY <1>1, <1>4
     DEF AbandonStep, AbandonReserve, AbandonTakeToken, AbandonTombstone,
         AbandonWritten, connVars
<1>18. (\E c \in Closers : CloseStep(c)) => ConnType'
  BY <1>1, <1>13, <1>5
     DEF CloseStep, CloseAwait, CloseAcquire, CloseWritten, connVars
<1>19. WriteStep => ConnType'
  BY <1>1, <1>7, <1>3 DEF WriteStep, WriteCheck, WriteReturn, connVars
<1>20. Flow => ConnType'
  BY <1>1 DEF Flow, connVars
<1>21. ReaderStep => ConnType'
  BY <1>1, <1>6
     DEF ReaderStep, ReadFrame, ReadError, RouteUnsolicited, RouteUnowned,
         RouteWait, RouteAgain, Route, readerFrame, connVars
<1>22. (\E u \in Listeners : NextUnsolicited(u)) => ConnType'
  BY <1>1 DEF NextUnsolicited, connVars
<1>23. PeerStep => ConnType'
  BY <1>1, <1>14 DEF PeerStep, PeerReplies, PeerStrays, peerFrame, connVars
<1> QED
  BY <1>15, <1>16, <1>11, <1>17, <1>18, <1>19, <1>20, <1>21, <1>2, <1>22,
      <1>12, <1>23 DEF Next

\* The message-ID tables.
LEMMA IDTypeStep ==
    ASSUME TypeOK, Next
    PROVE  IDType'
<1> USE Zenon
<1>1. UNCHANGED idVars => IDType'
  BY DEF TypeOK, IDType, idVars
<1>2. \A o \in Ops : Reserve(o) => IDType'
  BY TryReserveType, ReleaseReservedType DEF Reserve, TypeOK, IDType, idVars
<1>3. \A o \in Ops : ReserveCanceled(o) => IDType'
  BY DEF ReserveCanceled, TypeOK, IDType, idVars
<1>4. \A o \in Ops : GiveBack(o) => IDType'
  BY TryReserveType, ReleaseReservedType DEF GiveBack, TypeOK, IDType, idVars
<1>5. \A o \in Ops : InstallPending(o) => IDType'
  BY SMT DEF InstallPending, TypeOK, IDType, idVars
<1>6. \A o \in Ops : RemoveDefinitelyUnsent(o) => IDType'
  BY CompleteType DEF RemoveDefinitelyUnsent, TypeOK, IDType, idVars
<1>7. \A o \in Ops : CompleteNoResponse(o) => IDType'
  BY CompleteType DEF CompleteNoResponse, TypeOK, IDType, idVars
<1>8. \A o \in Ops : AbandonReserve(o) => IDType'
  BY TryReserveType, ReleaseReservedType
     DEF AbandonReserve, TypeOK, IDType, idVars
<1>9. \A o \in Ops : AbandonTakeToken(o) => IDType'
  BY ReleaseReservedType
     DEF AbandonTakeToken, AbandonFails, TypeOK, IDType, idVars
<1>10. ASSUME NEW o \in Ops, AbandonTombstone(o) PROVE IDType'
  <2> USE <1>10
  <2>1. AbandonMoot(o) => IDType'
    BY ReleaseReservedType DEF AbandonTombstone, TypeOK, IDType
  <2>2. ~AbandonMoot(o) => IDType'
    BY SMT DEF AbandonTombstone, Without, Tombstone, TypeOK, IDType
  <2> QED
    BY <2>1, <2>2
<1>11. \A o \in Ops : AbandonWritten(o) => IDType'
  BY TryReserveType, ReleaseReservedType
     DEF AbandonWritten, TypeOK, IDType, idVars
<1>12. \A c \in Closers : CloseAcquire(c) => IDType'
  BY TryReserveType, ReleaseReservedType
     DEF CloseAcquire, TypeOK, IDType, idVars
<1>13. \A c \in Closers : CloseWritten(c) => IDType'
  BY TryReserveType, ReleaseReservedType
     DEF CloseWritten, TypeOK, IDType, idVars
<1>14. ASSUME Route PROVE IDType'
  <2> USE <1>14, Zenon
  <2>1. PICK o : pending' \in {pending, Without(o)}
    BY DEF Route
  <2>2. idWait' \in {idWait, {}}
    BY DEF Route
  <2>3. UNCHANGED <<nextID, reserved, tombstones>>
    BY DEF Route, readerFrame
  <2> QED
    BY <2>1, <2>2, <2>3 DEF Without, TypeOK, IDType
<1>15. ASSUME AsyncRetire PROVE IDType'
  <2> USE <1>15
  <2>1. PICK e \in retiring : Retire(e)
    BY DEF AsyncRetire
  <2>2. e \in Error
    BY DEF TypeOK, ConnType
  <2> QED
    BY <2>1, <2>2, RetireType DEF AsyncRetire, TypeOK, IDType
<1>16. WriteRetire => IDType'
  BY RetireType DEF WriteRetire, WriterType, WriteCall, TypeOK, IDType, idVars
<1>17. \A o \in Ops : AbandonRetire(o) => IDType'
  BY RetireType DEF AbandonRetire, AbandonType, TypeOK, IDType, idVars
<1>18. \A c \in Closers : CloseFinish(c) => IDType'
  BY RetireType, ErrorConstants DEF CloseFinish, TypeOK, IDType, idVars
<1>19. ReaderRetire => IDType'
  BY RetireType DEF ReaderRetire, ReaderType, TypeOK, IDType, idVars
<1>20. (\E o \in Ops : DoStep(o)) => IDType'
  BY <1>1, <1>2, <1>3, <1>4, <1>5, <1>6, <1>7
     DEF DoStep, TakeToken, StartWrite, WriteDone, ObserveWrite, idVars
<1>21. (\E o \in Ops : StreamStep(o)) => IDType'
  BY <1>1
     DEF StreamStep, NextCall, NextLoop, NextWake, CloseStream, streamFrame,
         idVars
<1>22. (\E o \in Ops : WatchOperation(o)) => IDType'
  BY <1>1 DEF WatchOperation, streamFrame, idVars
<1>23. (\E o \in Ops : AbandonStep(o)) => IDType'
  BY <1>8, <1>9, <1>10, <1>11, <1>17 DEF AbandonStep
<1>24. (\E c \in Closers : CloseStep(c)) => IDType'
  BY <1>1, <1>12, <1>13, <1>18 DEF CloseStep, CloseBegin, CloseAwait, idVars
<1>25. WriteStep => IDType'
  BY <1>1, <1>16 DEF WriteStep, WriteCheck, CancelWins, WriteReturn, idVars
<1>26. Flow => IDType'
  BY <1>1 DEF Flow, idVars
<1>27. ReaderStep => IDType'
  BY <1>1, <1>14, <1>19
     DEF ReaderStep, ReadFrame, ReadError, RouteUnsolicited, RouteUnowned,
         RouteWait, RouteAgain, readerFrame, idVars
<1>28. (\E u \in Listeners : NextUnsolicited(u)) => IDType'
  BY <1>1 DEF NextUnsolicited, idVars
<1>29. (\E p \in Procs : ContextDone(p)) => IDType'
  BY <1>1 DEF ContextDone, idVars
<1>30. PeerStep => IDType'
  BY <1>1 DEF PeerStep, PeerReplies, PeerStrays, LinkFault, peerFrame, idVars
<1> QED
  BY <1>20, <1>21, <1>22, <1>23, <1>24, <1>25, <1>26, <1>27, <1>15, <1>28,
      <1>29, <1>30 DEF Next

\* The Do calls.
LEMMA CallTypeStep ==
    ASSUME TypeOK, Next
    PROVE  CallType'
<1> USE Zenon
<1>1. UNCHANGED callVars => CallType'
  BY DEF TypeOK, CallType, callVars
<1>2. \A o \in Ops : Reserve(o) => CallType'
  BY ErrorTypes, ErrorConstants, SMT
     DEF Reserve, IDs, TypeOK, CallType, callVars
<1>3. \A o \in Ops : ReserveCanceled(o) => CallType'
  BY ErrorConstants, ErrorWraps, SMT DEF ReserveCanceled, TypeOK, CallType, callVars
<1>4. ASSUME NEW o \in Ops, GiveBack(o) PROVE CallType'
  BY <1>4, ErrorTypes, ErrorConstants, ErrorWraps, ZenonT(60)
     DEF GiveBack, TypeOK, CallType, callVars
<1>5. \A o \in Ops : InstallPending(o) => CallType'
  BY DEF InstallPending, TypeOK, CallType, callVars
<1>6. \A o \in Ops : TakeToken(o) => CallType'
  BY WriteErrorTypes, SMT DEF TakeToken, AfterWriteError, TypeOK, CallType, callVars
<1>7. \A o \in Ops : StartWrite(o) => CallType'
  BY DEF StartWrite, TypeOK, CallType, callVars
<1>8. \A o \in Ops : WriteDone(o) => CallType'
  BY DEF WriteDone, AfterWriteError, WriterType, WriteCall, TypeOK, CallType,
         callVars
<1>9. \A o \in Ops : RemoveDefinitelyUnsent(o) => CallType'
  BY DEF RemoveDefinitelyUnsent, TypeOK, CallType, callVars
<1>10. \A o \in Ops : ObserveWrite(o) => CallType'
  BY DEF ObserveWrite, TypeOK, CallType, callVars
<1>11. \A o \in Ops : CompleteNoResponse(o) => CallType'
  BY DEF CompleteNoResponse, TypeOK, CallType, callVars
<1>12. (\E o \in Ops : DoStep(o)) => CallType'
  BY <1>2, <1>3, <1>4, <1>5, <1>6, <1>7, <1>8, <1>9, <1>10, <1>11 DEF DoStep
<1>13. (\E o \in Ops : StreamStep(o)) => CallType'
  BY <1>1
     DEF StreamStep, NextCall, NextLoop, NextWake, CloseStream, streamFrame,
         callVars
<1>14. (\E o \in Ops : WatchOperation(o)) => CallType'
  BY <1>1 DEF WatchOperation, streamFrame, callVars
<1>15. (\E o \in Ops : AbandonStep(o)) => CallType'
  BY <1>1
     DEF AbandonStep, AbandonReserve, AbandonTakeToken, AbandonTombstone,
         AbandonWritten, AbandonRetire, callVars
<1>16. (\E c \in Closers : CloseStep(c)) => CallType'
  BY <1>1
     DEF CloseStep, CloseBegin, CloseAwait, CloseAcquire, CloseWritten,
         CloseFinish, callVars
<1>17. WriteStep => CallType'
  BY <1>1
     DEF WriteStep, WriteCheck, CancelWins, WriteReturn, WriteRetire, callVars
<1>18. Flow => CallType'
  BY <1>1 DEF Flow, callVars
<1>19. ReaderStep => CallType'
  BY <1>1
     DEF ReaderStep, ReadFrame, ReadError, RouteUnsolicited, RouteUnowned,
         RouteWait, RouteAgain, Route, ReaderRetire, readerFrame, callVars
<1>20. AsyncRetire => CallType'
  BY <1>1 DEF AsyncRetire, callVars
<1>21. (\E u \in Listeners : NextUnsolicited(u)) => CallType'
  BY <1>1 DEF NextUnsolicited, callVars
<1>22. (\E p \in Procs : ContextDone(p)) => CallType'
  BY <1>1 DEF ContextDone, callVars
<1>23. PeerStep => CallType'
  BY <1>1 DEF PeerStep, PeerReplies, PeerStrays, LinkFault, peerFrame, callVars
<1> QED
  BY <1>12, <1>13, <1>14, <1>15, <1>16, <1>17, <1>18, <1>19, <1>20, <1>21,
      <1>22, <1>23 DEF Next

\* The consumers.
LEMMA StreamTypeStep ==
    ASSUME TypeOK, Next
    PROVE  StreamType'
<1> USE Zenon
<1>1. UNCHANGED streamVars => StreamType'
  BY DEF TypeOK, StreamType, streamVars
<1>2. \A o \in Ops : ObserveWrite(o) => StreamType'
  BY DEF ObserveWrite, TypeOK, StreamType, streamVars
<1>3. \A o \in Ops : CompleteNoResponse(o) => StreamType'
  BY DEF CompleteNoResponse, TypeOK, StreamType, streamVars
<1>4. \A o \in Ops : NextCall(o) => StreamType'
  BY DEF NextCall, streamFrame, TypeOK, StreamType, streamVars
<1>5. ASSUME NEW o \in Ops, NextLoop(o) PROVE StreamType'
  <2> DEFINE d == CASE op[o].deliveryErr # {} -> "failed"
                     [] op[o].deliveryErr = {} /\ op[o].terminal -> "eof"
                     [] OTHER -> "wait"
             g == got[o] + 1
  <2>1. d \in {"failed", "eof", "wait"} /\ g \in Nat
    BY SMT DEF TypeOK, StreamType
  <2>2. /\ cons' \in {[cons EXCEPT ![o] = "idle"], [cons EXCEPT ![o] = d]}
        /\ got' \in {got, [got EXCEPT ![o] = g]}
        /\ UNCHANGED <<shut, watch>>
    BY <1>5 DEF NextLoop, TypeOK, StreamType
  <2> HIDE DEF d, g
  <2> QED
    BY <2>1, <2>2 DEF TypeOK, StreamType
<1>6. \A o \in Ops : NextWake(o) => StreamType'
  BY DEF NextWake, streamFrame, TypeOK, StreamType, streamVars
<1>7. \A o \in Ops : CloseStream(o) => StreamType'
  BY DEF CloseStream, streamFrame, TypeOK, StreamType, streamVars
<1>8. \A o \in Ops : WatchOperation(o) => StreamType'
  BY DEF WatchOperation, streamFrame, TypeOK, StreamType, streamVars
<1>9. (\E o \in Ops : DoStep(o)) => StreamType'
  BY <1>1, <1>2, <1>3
     DEF DoStep, Reserve, ReserveCanceled, GiveBack, InstallPending, TakeToken,
         StartWrite, WriteDone, RemoveDefinitelyUnsent, streamVars
<1>10. (\E o \in Ops : StreamStep(o)) => StreamType'
  BY <1>4, <1>5, <1>6, <1>7 DEF StreamStep
<1>11. (\E o \in Ops : AbandonStep(o)) => StreamType'
  BY <1>1
     DEF AbandonStep, AbandonReserve, AbandonTakeToken, AbandonTombstone,
         AbandonWritten, AbandonRetire, streamVars
<1>12. (\E c \in Closers : CloseStep(c)) => StreamType'
  BY <1>1
     DEF CloseStep, CloseBegin, CloseAwait, CloseAcquire, CloseWritten,
         CloseFinish, streamVars
<1>13. WriteStep => StreamType'
  BY <1>1
     DEF WriteStep, WriteCheck, CancelWins, WriteReturn, WriteRetire, streamVars
<1>14. Flow => StreamType'
  BY <1>1 DEF Flow, streamVars
<1>15. ReaderStep => StreamType'
  BY <1>1
     DEF ReaderStep, ReadFrame, ReadError, RouteUnsolicited, RouteUnowned,
         RouteWait, RouteAgain, Route, ReaderRetire, readerFrame, streamVars
<1>16. AsyncRetire => StreamType'
  BY <1>1 DEF AsyncRetire, streamVars
<1>17. (\E u \in Listeners : NextUnsolicited(u)) => StreamType'
  BY <1>1 DEF NextUnsolicited, streamVars
<1>18. (\E p \in Procs : ContextDone(p)) => StreamType'
  BY <1>1 DEF ContextDone, streamVars
<1>19. PeerStep => StreamType'
  BY <1>1
     DEF PeerStep, PeerReplies, PeerStrays, LinkFault, peerFrame, streamVars
<1> QED
  BY <1>9, <1>10, <1>8, <1>11, <1>12, <1>13, <1>14, <1>15, <1>16, <1>17,
      <1>18, <1>19 DEF Next

\* The sendAbandon goroutines.
LEMMA AbandonTypeStep ==
    ASSUME TypeOK, Next
    PROVE  AbandonType'
<1> USE Zenon
<1>1. UNCHANGED abandVars => AbandonType'
  BY DEF TypeOK, AbandonType, abandVars
<1>2. \A o \in Ops : NextCall(o) => AbandonType'
  BY CancelOperationType, ErrorConstants
     DEF NextCall, streamFrame, TypeOK, AbandonType, abandVars
<1>3. \A o \in Ops : NextWake(o) => AbandonType'
  BY CancelOperationType, ErrorConstants
     DEF NextWake, streamFrame, TypeOK, AbandonType, abandVars
<1>4. \A o \in Ops : CloseStream(o) => AbandonType'
  BY CancelOperationType, ErrorConstants
     DEF CloseStream, streamFrame, TypeOK, AbandonType, abandVars
<1>5. \A o \in Ops : WatchOperation(o) => AbandonType'
  BY CancelOperationType, ErrorConstants
     DEF WatchOperation, streamFrame, TypeOK, AbandonType, abandVars
<1>6. \A o \in Ops : AbandonReserve(o) => AbandonType'
  BY ErrorConstants, SMT
     DEF AbandonReserve, IDs, TypeOK, AbandonType, abandVars
<1>7. ASSUME NEW o \in Ops, AbandonTakeToken(o) PROVE AbandonType'
  BY <1>7, WriteErrorTypes, ErrorConstants, SMT
     DEF AbandonTakeToken, AbandonFails, TypeOK, AbandonType, abandVars
<1>8. \A o \in Ops : AbandonTombstone(o) => AbandonType'
  BY DEF AbandonTombstone, TypeOK, AbandonType, abandVars
<1>9. \A o \in Ops : AbandonWritten(o) => AbandonType'
  BY DEF AbandonWritten, WriterType, WriteCall, TypeOK, AbandonType, abandVars
<1>10. \A o \in Ops : AbandonRetire(o) => AbandonType'
  BY DEF AbandonRetire, TypeOK, AbandonType, abandVars
<1>11. Route => AbandonType'
  BY DEF Route, readerFrame, TypeOK, AbandonType, abandVars
<1>12. (\E o \in Ops : DoStep(o)) => AbandonType'
  BY <1>1, ZenonT(60)
     DEF DoStep, Reserve, ReserveCanceled, GiveBack, InstallPending, TakeToken,
         StartWrite, WriteDone, RemoveDefinitelyUnsent, ObserveWrite,
         CompleteNoResponse, abandVars
<1>13. (\E o \in Ops : StreamStep(o)) => AbandonType'
  BY <1>1, <1>2, <1>3, <1>4 DEF StreamStep, NextLoop, streamFrame, abandVars
<1>14. (\E o \in Ops : AbandonStep(o)) => AbandonType'
  BY <1>6, <1>7, <1>8, <1>9, <1>10 DEF AbandonStep
<1>15. (\E c \in Closers : CloseStep(c)) => AbandonType'
  BY <1>1
     DEF CloseStep, CloseBegin, CloseAwait, CloseAcquire, CloseWritten,
         CloseFinish, abandVars
<1>16. WriteStep => AbandonType'
  BY <1>1
     DEF WriteStep, WriteCheck, CancelWins, WriteReturn, WriteRetire, abandVars
<1>17. Flow => AbandonType'
  BY <1>1 DEF Flow, abandVars
<1>18. ReaderStep => AbandonType'
  BY <1>1, <1>11
     DEF ReaderStep, ReadFrame, ReadError, RouteUnsolicited, RouteUnowned,
         RouteWait, RouteAgain, ReaderRetire, readerFrame, abandVars
<1>19. AsyncRetire => AbandonType'
  BY <1>1 DEF AsyncRetire, abandVars
<1>20. (\E u \in Listeners : NextUnsolicited(u)) => AbandonType'
  BY <1>1 DEF NextUnsolicited, abandVars
<1>21. (\E p \in Procs : ContextDone(p)) => AbandonType'
  BY <1>1 DEF ContextDone, abandVars
<1>22. PeerStep => AbandonType'
  BY <1>1 DEF PeerStep, PeerReplies, PeerStrays, LinkFault, peerFrame, abandVars
<1> QED
  BY <1>12, <1>13, <1>5, <1>14, <1>15, <1>16, <1>17, <1>18, <1>19, <1>20,
      <1>21, <1>22 DEF Next

\* The CloseContext calls.
LEMMA CloseTypeStep ==
    ASSUME TypeOK, Next
    PROVE  CloseType'
<1> USE Zenon
<1>1. UNCHANGED closeVars => CloseType'
  BY DEF TypeOK, CloseType, closeVars
<1> USE <1>1
<1>2. \A c \in Closers : CloseBegin(c) => CloseType'
  BY DEF CloseBegin, TypeOK, CloseType, closeVars
<1>3. \A c \in Closers : CloseAwait(c) => CloseType'
  BY DEF CloseAwait, TypeOK, CloseType, closeVars
<1>4. \A c \in Closers : CloseAcquire(c) => CloseType'
  BY SMT DEF CloseAcquire, IDs, TypeOK, CloseType, closeVars
<1>5. \A c \in Closers : CloseWritten(c) => CloseType'
  BY DEF CloseWritten, TypeOK, CloseType, closeVars
<1>6. \A c \in Closers : CloseFinish(c) => CloseType'
  BY DEF CloseFinish, TypeOK, CloseType, closeVars
<1>7. (\E o \in Ops : DoStep(o)) => CloseType'
  BY ZenonT(60)
     DEF DoStep, Reserve, ReserveCanceled, GiveBack, InstallPending, TakeToken,
         StartWrite, WriteDone, RemoveDefinitelyUnsent, ObserveWrite,
         CompleteNoResponse, closeVars
<1>8. (\E o \in Ops : StreamStep(o)) => CloseType'
  BY DEF StreamStep, NextCall, NextLoop, NextWake, CloseStream, streamFrame,
         closeVars
<1>9. (\E o \in Ops : WatchOperation(o)) => CloseType'
  BY DEF WatchOperation, streamFrame, closeVars
<1>10. (\E o \in Ops : AbandonStep(o)) => CloseType'
  BY DEF AbandonStep, AbandonReserve, AbandonTakeToken, AbandonTombstone,
         AbandonWritten, AbandonRetire, closeVars
<1>11. (\E c \in Closers : CloseStep(c)) => CloseType'
  BY <1>2, <1>3, <1>4, <1>5, <1>6 DEF CloseStep
<1>12. WriteStep => CloseType'
  BY DEF WriteStep, WriteCheck, CancelWins, WriteReturn, WriteRetire, closeVars
<1>13. Flow => CloseType'
  BY DEF Flow, closeVars
<1>14. ReaderStep => CloseType'
  BY DEF ReaderStep, ReadFrame, ReadError, RouteUnsolicited, RouteUnowned,
         RouteWait, RouteAgain, Route, ReaderRetire, readerFrame, closeVars
<1>15. AsyncRetire => CloseType'
  BY DEF AsyncRetire, closeVars
<1>16. (\E u \in Listeners : NextUnsolicited(u)) => CloseType'
  BY DEF NextUnsolicited, closeVars
<1>17. (\E p \in Procs : ContextDone(p)) => CloseType'
  BY DEF ContextDone, closeVars
<1>18. PeerStep => CloseType'
  BY DEF PeerStep, PeerReplies, PeerStrays, LinkFault, peerFrame, closeVars
<1> QED
  BY <1>7, <1>8, <1>9, <1>10, <1>11, <1>12, <1>13, <1>14, <1>15, <1>16, <1>17,
      <1>18 DEF Next

-----------------------------------------------------------------------------
\* The message the reader holds between two reads.
LEMMA NoMsgType == NoMsg \in Message
BY Zenon DEF NoMsg, Message, Kinds

\* newObservedConnWithState builds a well-formed connection.
LEMMA InitType == Init => TypeOK
<1> USE Zenon
<1> SUFFICES ASSUME Init PROVE TypeOK
  OBVIOUS
<1> DEFINE z == 0
           q == <<>>
<1>1. /\ z \in 0 .. MaxID /\ z \in Nat /\ z \in Int
      /\ q \in Seq(Message)
  BY ConnAssumption, SMT
<1>2. NewOp \in Operation
  <2> HIDE DEF z, q
  <2>1. [queue |-> q, bytes |-> z, deliveryErr |-> {}, canceled |-> FALSE,
         terminal |-> FALSE, abandoning |-> FALSE, writeStarted |-> FALSE,
         observed |-> FALSE, ended |-> FALSE, ready |-> FALSE] \in Operation
    BY <1>1, ErrorConstants DEF Operation
  <2> QED
    BY <2>1 DEF NewOp, z, q
<1>3. op \in [Ops -> Operation]
  BY <1>2 DEF Init
<1>4. ConnType
  <2>1. link \in [closed : BOOLEAN, broken : BOOLEAN, eof : BOOLEAN]
    BY DEF Init
  <2>2. state \in {"transportSetup", "authenticating", "initializing", "ready",
                   "draining", "closed"}
    BY ConnAssumption DEF Init
  <2>3. /\ closing \in BOOLEAN /\ err \in Error
        /\ retiring \subseteq Error /\ ctxDone \subseteq Procs
    BY ErrorConstants DEF Init
  <2> QED
    BY <2>1, <2>2, <2>3 DEF ConnType
<1>5. IDType /\ CallType
  <2>1. /\ nextID = 0 /\ reserved = {} /\ idWait = {}
        /\ pending = [i \in IDs |-> None]
        /\ tombstones = [i \in IDs |-> None]
        /\ pc = [o \in Ops |-> "idle"]
        /\ id = [o \in Ops |-> 0] /\ doErr = [o \in Ops |-> {}]
    BY DEF Init
  <2> QED
    BY <1>1, <2>1, ErrorConstants DEF IDType, CallType, z
<1>6. StreamType /\ AbandonType /\ CloseType
  <2>1. /\ cons = [o \in Ops |-> "none"] /\ got = [o \in Ops |-> 0]
        /\ shut = {} /\ watch = {}
        /\ apc = [o \in Ops |-> "none"] /\ aid = [o \in Ops |-> 0]
        /\ aerr = [o \in Ops |-> {}]
        /\ cpc = [c \in Closers |-> "idle"] /\ cid = [c \in Closers |-> 0]
    BY DEF Init
  <2> QED
    BY <1>1, <2>1, ErrorConstants DEF StreamType, AbandonType, CloseType, z
<1>7. ReaderType
  BY NoMsgType, ErrorConstants DEF Init, ReaderType
<1>8. WriterType
  <2>1. io \in WriteCall
    BY WriteCallTypes DEF Init
  <2>2. tail \in [who : Procs \cup {Free}, n : 1 .. FrameLen]
    <3>1. tail = [who |-> Free, n |-> FrameLen]
      BY DEF Init
    <3> QED
      BY <3>1, ConnAssumption, SMT
  <2>3. /\ token \in Procs \cup {Free}
        /\ sent \in [Ops -> Nat] /\ torn \in BOOLEAN
    BY DEF Init
  <2> QED
    BY <2>1, <2>2, <2>3 DEF WriterType
<1>9. PeerType
  <2>1. inbox \in Seq(Message)
    BY <1>1 DEF Init, q
  <2>2. owed \subseteq Ops /\ replies \in [Ops -> Nat] /\ strays \in Nat
    BY <1>1 DEF Init, z
  <2> QED
    BY <2>1, <2>2 DEF PeerType
<1>10. UnsolType
  <2>1. unsolicited \in Seq(Message)
    BY <1>1 DEF Init, q
  <2>2. unsolBytes \in Int
    BY <1>1 DEF Init, z
  <2>3. unsolReady \in BOOLEAN
    BY DEF Init
  <2>4. ucons \in [Listeners -> {"idle", "wait", "failed"}]
    BY DEF Init
  <2> QED
    BY <2>1, <2>2, <2>3, <2>4 DEF UnsolType
<1> QED
  BY <1>3, <1>4, <1>5, <1>6, <1>7, <1>8, <1>9, <1>10 DEF TypeOK

-----------------------------------------------------------------------------
(***************************************************************************)
(* The variables of the reader, the writer, the peer, the unsolicited      *)
(* queue, and the operations.                                              *)
(***************************************************************************)
\* The reader.
LEMMA ReaderTypeStep ==
    ASSUME TypeOK, Next
    PROVE  ReaderType'
<1> USE Zenon
<1>1. UNCHANGED reader => ReaderType'
  BY DEF TypeOK, ReaderType
<1> USE <1>1
<1>2. ASSUME ReadFrame PROVE ReaderType'
  <2> USE <1>2
  <2>1. Head(inbox) \in Message
    BY SMT DEF ReadFrame, TypeOK, PeerType
  <2> QED
    BY <2>1, ErrorConstants DEF ReadFrame, TypeOK, ReaderType
<1>3. ReadError => ReaderType'
  BY ErrorConstants DEF ReadError, TypeOK, ReaderType
<1>4. RouteUnsolicited => ReaderType'
  BY ErrorConstants, NoMsgType
     DEF RouteUnsolicited, ReaderNext, ReaderFails, TypeOK, ReaderType
<1>5. RouteUnowned => ReaderType'
  BY ErrorConstants, NoMsgType
     DEF RouteUnowned, ReaderNext, ReaderFails, TypeOK, ReaderType
<1>6. RouteWait => ReaderType'
  BY DEF RouteWait, IDType, TypeOK, ReaderType
<1>7. RouteAgain => ReaderType'
  BY ErrorConstants, NoMsgType
     DEF RouteAgain, ReaderNext, ReaderFails, TypeOK, ReaderType
<1>8. Route => ReaderType'
  BY ErrorConstants, NoMsgType
     DEF Route, ReaderNext, ReaderFails, TypeOK, ReaderType
<1>9. ReaderRetire => ReaderType'
  BY DEF ReaderRetire, TypeOK, ReaderType
<1>10. (\E o \in Ops : DoStep(o)) => ReaderType'
  BY DEF DoStep, Reserve, ReserveCanceled, GiveBack, InstallPending, TakeToken,
         StartWrite, WriteDone, RemoveDefinitelyUnsent, ObserveWrite,
         CompleteNoResponse
<1>11. (\E o \in Ops : StreamStep(o)) => ReaderType'
  BY DEF StreamStep, NextCall, NextLoop, NextWake, CloseStream, streamFrame
<1>12. (\E o \in Ops : WatchOperation(o)) => ReaderType'
  BY DEF WatchOperation, streamFrame
<1>13. (\E o \in Ops : AbandonStep(o)) => ReaderType'
  BY DEF AbandonStep, AbandonReserve, AbandonTakeToken, AbandonTombstone,
         AbandonWritten, AbandonRetire
<1>14. (\E c \in Closers : CloseStep(c)) => ReaderType'
  BY DEF CloseStep, CloseBegin, CloseAwait, CloseAcquire, CloseWritten,
         CloseFinish
<1>15. WriteStep => ReaderType'
  BY DEF WriteStep, WriteCheck, CancelWins, WriteReturn, WriteRetire
<1>16. Flow => ReaderType'
  BY DEF Flow
<1>17. ReaderStep => ReaderType'
  BY <1>2, <1>3, <1>4, <1>5, <1>6, <1>7, <1>8, <1>9 DEF ReaderStep
<1>18. AsyncRetire => ReaderType'
  BY DEF AsyncRetire
<1>19. (\E u \in Listeners : NextUnsolicited(u)) => ReaderType'
  BY DEF NextUnsolicited
<1>20. (\E p \in Procs : ContextDone(p)) => ReaderType'
  BY DEF ContextDone
<1>21. PeerStep => ReaderType'
  BY DEF PeerStep, PeerReplies, PeerStrays, LinkFault, peerFrame
<1> QED
  BY <1>10, <1>11, <1>12, <1>13, <1>14, <1>15, <1>16, <1>17, <1>18, <1>19,
     <1>20, <1>21 DEF Next

\* The writer and the wire.
LEMMA WriterTypeStep ==
    ASSUME TypeOK, Next
    PROVE  WriterType'
<1> USE Zenon
<1>1. UNCHANGED <<writeVars, wireVars>> => WriterType'
  BY DEF TypeOK, WriterType, writeVars, wireVars
<1>2. \A o \in Ops : TakeToken(o) => WriterType'
  BY DEF TakeToken, Procs, TypeOK, WriterType, writeVars, wireVars
<1>3. \A o \in Ops : StartWrite(o) => WriterType'
  BY WriteCallTypes DEF StartWrite, TypeOK, WriterType, writeVars, wireVars
<1>4. ASSUME WriteCheck PROVE WriterType'
  BY <1>4, ErrorConstants, ErrorWraps
     DEF WriteCheck, WriteCall, TypeOK, WriterType, writeVars, wireVars
<1>5. Flow => WriterType'
  BY ConnAssumption, SMT
     DEF Flow, WriteCall, TypeOK, WriterType, writeVars, wireVars
<1>6. CancelWins => WriterType'
  BY DEF CancelWins, WriteCall, TypeOK, WriterType, writeVars, wireVars
<1>7. ASSUME WriteReturn PROVE WriterType'
  <2> USE <1>7
  <2>1. WriteError \in Error /\ Ambiguous(CtxErr) \in Error
    BY ErrorConstants, ErrorWraps, WriteErrorTypes
  <2>2. io' \in {[io EXCEPT !.pc = "failed", !.err = Ambiguous(CtxErr)],
               [io EXCEPT !.pc = "ok"], [io EXCEPT !.pc = "check"],
               [io EXCEPT !.pc = "retire", !.err = WriteError]}
    BY DEF WriteReturn
  <2>3. io' \in WriteCall
    BY <2>1, <2>2, ZenonT(60) DEF TypeOK, WriterType, WriteCall
  <2> QED
    BY <2>3 DEF WriteReturn, TypeOK, WriterType, wireVars
<1>8. WriteRetire => WriterType'
  BY DEF WriteRetire, WriteCall, TypeOK, WriterType, writeVars, wireVars
<1>9. \A o \in Ops : WriteDone(o) => WriterType'
  BY WriteCallTypes DEF WriteDone, TypeOK, WriterType, writeVars, wireVars
<1>10. \A o \in Ops : AbandonTakeToken(o) => WriterType'
  BY DEF AbandonTakeToken, Procs, TypeOK, WriterType, writeVars, wireVars
<1>11. \A o \in Ops : AbandonTombstone(o) => WriterType'
  BY WriteCallTypes
     DEF AbandonTombstone, TypeOK, WriterType, writeVars, wireVars
<1>12. \A o \in Ops : AbandonWritten(o) => WriterType'
  BY WriteCallTypes DEF AbandonWritten, TypeOK, WriterType, writeVars, wireVars
<1>13. \A c \in Closers : CloseAcquire(c) => WriterType'
  BY WriteCallTypes, SMT
     DEF CloseAcquire, Procs, TypeOK, WriterType, writeVars, wireVars
<1>14. \A c \in Closers : CloseWritten(c) => WriterType'
  BY WriteCallTypes DEF CloseWritten, TypeOK, WriterType, writeVars, wireVars
<1>15. (\E o \in Ops : DoStep(o)) => WriterType'
  BY <1>1, <1>2, <1>3, <1>9
     DEF DoStep, Reserve, ReserveCanceled, GiveBack, InstallPending,
         RemoveDefinitelyUnsent, ObserveWrite, CompleteNoResponse, writeVars,
         wireVars
<1>16. (\E o \in Ops : StreamStep(o)) => WriterType'
  BY <1>1
     DEF StreamStep, NextCall, NextLoop, NextWake, CloseStream, streamFrame,
         writeVars, wireVars
<1>17. (\E o \in Ops : WatchOperation(o)) => WriterType'
  BY <1>1 DEF WatchOperation, streamFrame, writeVars, wireVars
<1>18. (\E o \in Ops : AbandonStep(o)) => WriterType'
  BY <1>1, <1>10, <1>11, <1>12
     DEF AbandonStep, AbandonReserve, AbandonRetire, writeVars, wireVars
<1>19. (\E c \in Closers : CloseStep(c)) => WriterType'
  BY <1>1, <1>13, <1>14
     DEF CloseStep, CloseBegin, CloseAwait, CloseFinish, writeVars, wireVars
<1>20. WriteStep => WriterType'
  BY <1>4, <1>6, <1>7, <1>8 DEF WriteStep
<1>21. ReaderStep => WriterType'
  BY <1>1
     DEF ReaderStep, ReadFrame, ReadError, RouteUnsolicited, RouteUnowned,
         RouteWait, RouteAgain, Route, ReaderRetire, readerFrame, writeVars,
         wireVars
<1>22. AsyncRetire => WriterType'
  BY <1>1 DEF AsyncRetire, writeVars, wireVars
<1>23. (\E u \in Listeners : NextUnsolicited(u)) => WriterType'
  BY <1>1 DEF NextUnsolicited, writeVars, wireVars
<1>24. (\E p \in Procs : ContextDone(p)) => WriterType'
  BY <1>1 DEF ContextDone, writeVars, wireVars
<1>25. PeerStep => WriterType'
  BY <1>1
     DEF PeerStep, PeerReplies, PeerStrays, LinkFault, peerFrame, writeVars,
         wireVars
<1> QED
  BY <1>15, <1>16, <1>17, <1>18, <1>19, <1>20, <1>5, <1>21, <1>22, <1>23, <1>24,
     <1>25 DEF Next

\* The peer.
LEMMA PeerTypeStep ==
    ASSUME TypeOK, Next
    PROVE  PeerType'
<1> USE Zenon
<1>1. UNCHANGED peerVars => PeerType'
  BY DEF TypeOK, PeerType, peerVars
<1> USE <1>1
<1>2. Flow => PeerType'
  BY DEF Flow, TypeOK, PeerType, peerVars
<1>3. ReadFrame => PeerType'
  BY SMT DEF ReadFrame, readerFrame, TypeOK, PeerType, peerVars
<1>4. ASSUME NEW o \in Ops, PeerReplies(o) PROVE PeerType'
  <2> USE <1>4
  <2>1. PICK k \in {"continue", "terminal"}, s \in Sizes :
           inbox' = Append(inbox, [id |-> id[o], kind |-> k, for |-> o,
                                   n |-> replies[o] + 1, size |-> s])
    BY DEF PeerReplies
  <2>4. id[o] \in 0 .. MaxID /\ replies[o] + 1 \in Nat /\ s \in Nat
    BY ConnAssumption, SMT DEF TypeOK, CallType, PeerType
  <2>5. [id |-> id[o], kind |-> k, for |-> o, n |-> replies[o] + 1,
         size |-> s] \in Message
    BY <2>4, SMT DEF Message, Kinds
  <2>2. owed' \subseteq owed /\ UNCHANGED strays
    BY DEF PeerReplies
  <2>3. replies' \in {replies, [replies EXCEPT ![o] = @ + 1]}
    BY DEF PeerReplies
  <2> QED
    BY <2>1, <2>2, <2>3, <2>5, SMT DEF TypeOK, PeerType
<1>5. PeerStrays => PeerType'
  BY ConnAssumption, SMT
     DEF PeerStrays, Message, TypeOK, PeerType, peerVars
<1>6. (\E o \in Ops : DoStep(o)) => PeerType'
  BY DEF DoStep, Reserve, ReserveCanceled, GiveBack, InstallPending, TakeToken,
         StartWrite, WriteDone, RemoveDefinitelyUnsent, ObserveWrite,
         CompleteNoResponse, peerVars
<1>7. (\E o \in Ops : StreamStep(o)) => PeerType'
  BY DEF StreamStep, NextCall, NextLoop, NextWake, CloseStream, streamFrame,
         peerVars
<1>8. (\E o \in Ops : WatchOperation(o)) => PeerType'
  BY DEF WatchOperation, streamFrame, peerVars
<1>9. (\E o \in Ops : AbandonStep(o)) => PeerType'
  BY DEF AbandonStep, AbandonReserve, AbandonTakeToken, AbandonTombstone,
         AbandonWritten, AbandonRetire, peerVars
<1>10. (\E c \in Closers : CloseStep(c)) => PeerType'
  BY DEF CloseStep, CloseBegin, CloseAwait, CloseAcquire, CloseWritten,
         CloseFinish, peerVars
<1>11. WriteStep => PeerType'
  BY DEF WriteStep, WriteCheck, CancelWins, WriteReturn, WriteRetire, peerVars
<1>12. ReaderStep => PeerType'
  BY <1>3
     DEF ReaderStep, ReadError, RouteUnsolicited, RouteUnowned, RouteWait,
         RouteAgain, Route, ReaderRetire, readerFrame, peerVars
<1>13. AsyncRetire => PeerType'
  BY DEF AsyncRetire, peerVars
<1>14. (\E u \in Listeners : NextUnsolicited(u)) => PeerType'
  BY DEF NextUnsolicited, peerVars
<1>15. (\E p \in Procs : ContextDone(p)) => PeerType'
  BY DEF ContextDone, peerVars
<1>16. PeerStep => PeerType'
  BY <1>4, <1>5 DEF PeerStep, LinkFault, peerFrame, peerVars
<1> QED
  BY <1>6, <1>7, <1>8, <1>9, <1>10, <1>11, <1>2, <1>12, <1>13, <1>14, <1>15,
      <1>16 DEF Next

\* The queue of unsolicited notifications.
LEMMA UnsolTypeStep ==
    ASSUME TypeOK, Next
    PROVE  UnsolType'
<1> USE Zenon
<1>1. UNCHANGED unsolVars => UnsolType'
  BY DEF TypeOK, UnsolType, unsolVars
<1>2. ASSUME RouteUnsolicited PROVE UnsolType'
  <2>1. reader.msg \in Message /\ unsolBytes \in Int
    BY DEF TypeOK, ReaderType, UnsolType
  <2>2. unsolBytes + reader.msg.size \in Int
    BY <2>1, SMT DEF Message
  <2>3. Append(unsolicited, reader.msg) \in Seq(Message)
    BY <2>1, SMT DEF TypeOK, UnsolType
  <2> QED
    BY <1>2, <2>2, <2>3 DEF RouteUnsolicited, TypeOK, UnsolType
<1>3. ASSUME NEW u \in Listeners, NextUnsolicited(u) PROVE UnsolType'
  <2> USE <1>3
  <2>1. CASE ucons[u] = "idle" /\ unsolicited # <<>>
    <3> USE <2>1
    <3>1. /\ Head(unsolicited) \in Message
          /\ Tail(unsolicited) \in Seq(Message)
      BY SMT DEF TypeOK, UnsolType
    <3>2. unsolBytes - Head(unsolicited).size \in Int
      BY <3>1, SMT DEF Message, TypeOK, UnsolType
    <3> QED
      BY <3>1, <3>2 DEF NextUnsolicited, TypeOK, UnsolType
  <2>2. ~(ucons[u] = "idle" /\ unsolicited # <<>>) => UnsolType'
    BY DEF NextUnsolicited, TypeOK, UnsolType
  <2> QED
    BY <2>1, <2>2
<1>4. AsyncRetire => UnsolType'
  BY RetireType DEF AsyncRetire, ConnType, TypeOK, UnsolType, unsolVars
<1>5. WriteRetire => UnsolType'
  BY RetireType
     DEF WriteRetire, WriterType, WriteCall, TypeOK, UnsolType, unsolVars
<1>6. \A o \in Ops : AbandonRetire(o) => UnsolType'
  BY RetireType
     DEF AbandonRetire, AbandonType, TypeOK, UnsolType, unsolVars
<1>7. \A c \in Closers : CloseFinish(c) => UnsolType'
  BY RetireType, ErrorConstants DEF CloseFinish, TypeOK, UnsolType, unsolVars
<1>8. ReaderRetire => UnsolType'
  BY RetireType DEF ReaderRetire, ReaderType, TypeOK, UnsolType, unsolVars
<1>9. (\E o \in Ops : DoStep(o)) => UnsolType'
  BY <1>1
     DEF DoStep, Reserve, ReserveCanceled, GiveBack, InstallPending, TakeToken,
         StartWrite, WriteDone, RemoveDefinitelyUnsent, ObserveWrite,
         CompleteNoResponse, unsolVars
<1>10. (\E o \in Ops : StreamStep(o)) => UnsolType'
  BY <1>1
     DEF StreamStep, NextCall, NextLoop, NextWake, CloseStream, streamFrame,
         unsolVars
<1>11. (\E o \in Ops : WatchOperation(o)) => UnsolType'
  BY <1>1 DEF WatchOperation, streamFrame, unsolVars
<1>12. (\E o \in Ops : AbandonStep(o)) => UnsolType'
  BY <1>1, <1>6
     DEF AbandonStep, AbandonReserve, AbandonTakeToken, AbandonTombstone,
         AbandonWritten, unsolVars
<1>13. (\E c \in Closers : CloseStep(c)) => UnsolType'
  BY <1>1, <1>7
     DEF CloseStep, CloseBegin, CloseAwait, CloseAcquire, CloseWritten,
         unsolVars
<1>14. WriteStep => UnsolType'
  BY <1>1, <1>5 DEF WriteStep, WriteCheck, CancelWins, WriteReturn, unsolVars
<1>15. Flow => UnsolType'
  BY <1>1 DEF Flow, unsolVars
<1>16. ReaderStep => UnsolType'
  BY <1>1, <1>2, <1>8
     DEF ReaderStep, ReadFrame, ReadError, RouteUnowned, RouteWait, RouteAgain,
         Route, readerFrame, unsolVars
<1>17. (\E p \in Procs : ContextDone(p)) => UnsolType'
  BY <1>1 DEF ContextDone, unsolVars
<1>18. PeerStep => UnsolType'
  BY <1>1 DEF PeerStep, PeerReplies, PeerStrays, LinkFault, peerFrame, unsolVars
<1> QED
  BY <1>9, <1>10, <1>11, <1>12, <1>13, <1>14, <1>15, <1>16, <1>4, <1>3, <1>17,
     <1>18 DEF Next

\* The pendingOperation records.
LEMMA OpTypeStep ==
    ASSUME TypeOK, Next
    PROVE  (op \in [Ops -> Operation])'
<1> USE Zenon
<1>1. UNCHANGED op => (op \in [Ops -> Operation])'
  BY DEF TypeOK
<1>2. ASSUME NEW o \in Ops, StartWrite(o) PROVE (op \in [Ops -> Operation])'
  BY <1>2, ZenonT(60)
     DEF StartWrite, Operation, TypeOK
<1>3. \A o \in Ops : RemoveDefinitelyUnsent(o) => (op \in [Ops -> Operation])'
  BY CompleteType DEF RemoveDefinitelyUnsent, TypeOK
<1>4. ASSUME NEW o \in Ops, ObserveWrite(o) PROVE (op \in [Ops -> Operation])'
  BY <1>4, ZenonT(60)
     DEF ObserveWrite, Operation, TypeOK
<1>5. \A o \in Ops : CompleteNoResponse(o) => (op \in [Ops -> Operation])'
  BY CompleteType DEF CompleteNoResponse, TypeOK
<1>6. \A o \in Ops : NextCall(o) => (op \in [Ops -> Operation])'
  BY CancelOperationType, ErrorConstants DEF NextCall, TypeOK
<1>7. \A o \in Ops : NextLoop(o) => (op \in [Ops -> Operation])'
  BY TakenType, SMT DEF NextLoop, TypeOK
<1>8. ASSUME NEW o \in Ops, NextWake(o) PROVE (op \in [Ops -> Operation])'
  <2> USE <1>8
  <2>1. CancelOperation(o, CtxErr) => (op \in [Ops -> Operation])'
    BY CancelOperationType, ErrorConstants
  <2>2. UNCHANGED op => (op \in [Ops -> Operation])'
    BY DEF TypeOK
  <2>3. op' = [op EXCEPT ![o].ready = FALSE] => (op \in [Ops -> Operation])'
    BY ZenonT(60) DEF TypeOK, Operation
  <2> QED
    BY <2>1, <2>2, <2>3 DEF NextWake
<1>9. \A o \in Ops : CloseStream(o) => (op \in [Ops -> Operation])'
  BY CancelOperationType, ErrorConstants DEF CloseStream, TypeOK
<1>10. \A o \in Ops : WatchOperation(o) => (op \in [Ops -> Operation])'
  BY CancelOperationType, ErrorConstants DEF WatchOperation, TypeOK
<1>11. ASSUME NEW o \in Ops, AbandonTombstone(o)
       PROVE (op \in [Ops -> Operation])'
  <2> DEFINE q == [op[o] EXCEPT !.ended = TRUE, !.ready = TRUE]
  <2>1. q \in Operation
    BY DEF TypeOK, Operation
  <2>2. op' = op \/ op' = [op EXCEPT ![o] = q]
    BY <1>11 DEF AbandonTombstone
  <2> HIDE DEF q
  <2> QED
    BY <2>1, <2>2 DEF TypeOK
<1>12. ASSUME Route PROVE (op \in [Ops -> Operation])'
  <2> USE <1>12
  <2> DEFINE m == reader.msg
             o == pending[m.id]
             last == Classify(o, m.kind) = "complete"
  <2>1. m \in Message /\ last \in BOOLEAN
    BY DEF TypeOK, ReaderType
  <2>2. o \in Ops
    BY DEF Route, TypeOK, IDType
  <2>3. op' = op \/ op' = [op EXCEPT ![o] = Accepted(o, m, last)]
    BY DEF Route
  <2> HIDE DEF m, o, last
  <2> QED
    BY <2>1, <2>2, <2>3, AcceptedType, SMT DEF TypeOK
<1>13. AsyncRetire => (op \in [Ops -> Operation])'
  BY RetireType DEF AsyncRetire, ConnType, TypeOK
<1>14. WriteRetire => (op \in [Ops -> Operation])'
  BY RetireType DEF WriteRetire, WriterType, WriteCall, TypeOK
<1>15. \A o \in Ops : AbandonRetire(o) => (op \in [Ops -> Operation])'
  BY RetireType DEF AbandonRetire, AbandonType, TypeOK
<1>16. \A c \in Closers : CloseFinish(c) => (op \in [Ops -> Operation])'
  BY RetireType, ErrorConstants DEF CloseFinish, TypeOK
<1>17. ReaderRetire => (op \in [Ops -> Operation])'
  BY RetireType DEF ReaderRetire, ReaderType, TypeOK
<1>18. (\E o \in Ops : DoStep(o)) => (op \in [Ops -> Operation])'
  BY <1>1, <1>2, <1>3, <1>4, <1>5
     DEF DoStep, Reserve, ReserveCanceled, GiveBack, InstallPending, TakeToken,
         WriteDone
<1>19. (\E o \in Ops : StreamStep(o)) => (op \in [Ops -> Operation])'
  BY <1>6, <1>7, <1>8, <1>9 DEF StreamStep
<1>20. (\E o \in Ops : AbandonStep(o)) => (op \in [Ops -> Operation])'
  BY <1>1, <1>11, <1>15
     DEF AbandonStep, AbandonReserve, AbandonTakeToken, AbandonWritten
<1>21. (\E c \in Closers : CloseStep(c)) => (op \in [Ops -> Operation])'
  BY <1>1, <1>16
     DEF CloseStep, CloseBegin, CloseAwait, CloseAcquire, CloseWritten
<1>22. WriteStep => (op \in [Ops -> Operation])'
  BY <1>1, <1>14 DEF WriteStep, WriteCheck, CancelWins, WriteReturn
<1>23. Flow => (op \in [Ops -> Operation])'
  BY <1>1 DEF Flow
<1>24. ReaderStep => (op \in [Ops -> Operation])'
  BY <1>1, <1>12, <1>17
     DEF ReaderStep, ReadFrame, ReadError, RouteUnsolicited, RouteUnowned,
         RouteWait, RouteAgain, readerFrame
<1>25. (\E u \in Listeners : NextUnsolicited(u)) => (op \in [Ops -> Operation])'
  BY <1>1 DEF NextUnsolicited
<1>26. (\E p \in Procs : ContextDone(p)) => (op \in [Ops -> Operation])'
  BY <1>1 DEF ContextDone
<1>27. PeerStep => (op \in [Ops -> Operation])'
  BY <1>1 DEF PeerStep, PeerReplies, PeerStrays, LinkFault, peerFrame
<1> QED
  BY <1>18, <1>19, <1>10, <1>20, <1>21, <1>22, <1>23, <1>24, <1>13, <1>25,
      <1>26, <1>27 DEF Next

-----------------------------------------------------------------------------
(***************************************************************************)
(* Type correctness.                                                       *)
(***************************************************************************)
LEMMA TypeStep == TypeOK /\ [Next]_vars => TypeOK'
<1> USE Zenon
<1> SUFFICES ASSUME TypeOK, [Next]_vars PROVE TypeOK'
  OBVIOUS
<1>1. Next => TypeOK'
  BY ConnTypeStep, IDTypeStep, CallTypeStep, StreamTypeStep, AbandonTypeStep,
     CloseTypeStep, ReaderTypeStep, WriterTypeStep, PeerTypeStep, UnsolTypeStep,
     OpTypeStep, ZenonT(60) DEF TypeOK
<1>2. CASE UNCHANGED vars
  <2> USE <1>2, Zenon
  <2>1. UNCHANGED <<link, connVars, idVars, callVars, streamVars, ctxDone, op>>
    BY DEF vars
  <2>2. UNCHANGED <<abandVars, closeVars, reader, retiring>>
    BY DEF vars
  <2>3. UNCHANGED <<writeVars, wireVars, peerVars, unsolVars>>
    BY DEF vars
  <2>4. /\ ConnType' /\ IDType' /\ CallType' /\ StreamType'
        /\ (op \in [Ops -> Operation])'
    BY <2>1, <2>2
       DEF connVars, idVars, callVars, streamVars, TypeOK, ConnType, IDType,
           CallType, StreamType
  <2>5. AbandonType' /\ CloseType' /\ ReaderType'
    BY <2>2 DEF abandVars, closeVars, TypeOK, AbandonType, CloseType, ReaderType
  <2>6. WriterType' /\ PeerType' /\ UnsolType'
    BY <2>3
       DEF writeVars, wireVars, peerVars, unsolVars, TypeOK, WriterType,
           PeerType, UnsolType
  <2> QED
    BY <2>4, <2>5, <2>6 DEF TypeOK
<1> QED
  BY <1>1, <1>2

\* Type correctness of the connection runtime, for any set of operations, any
\* ID space and any bounds: in particular the allocator's cursor stays in the
\* ID space and no error ever holds an unknown sentinel.
THEOREM TypeCorrect == Spec => []TypeOK
<1> USE Zenon
<1>1. Init => TypeOK
  BY InitType
<1>2. TypeOK /\ [Next]_vars => TypeOK'
  BY TypeStep
<1> QED
  BY <1>1, <1>2, PTL DEF Spec

-----------------------------------------------------------------------------
(***************************************************************************)
(* Errors, and retire.                                                     *)
(***************************************************************************)
\* A transport error is an error.
LEMMA ErrorsNonEmpty ==
    ASSUME NEW p
    PROVE  /\ {} \notin AcquireErrors(p)
           /\ WriteError # {}
           /\ \A e : DefinitelyUnsent(e) # {} /\ Ambiguous(e) # {}
           /\ ErrClosed # {} /\ CtxErr # {}
<1> USE Zenon
<1>1. \A e : DefinitelyUnsent(e) # {} /\ Ambiguous(e) # {}
  BY DEF DefinitelyUnsent, Ambiguous
<1> USE <1>1
<1>2. WriteError # {}
  BY DEF WriteError
<1>3. {} \notin AcquireErrors(p)
  BY DEF AcquireErrors
<1> QED
  BY <1>2, <1>3 DEF ErrClosed, CtxErr

\* A retired connection has an error and no message IDs.
LEMMA RetireEnds ==
    ASSUME NEW e, e # {}, Retire(e)
    PROVE  /\ err' # {}
           /\ \/ UNCHANGED <<reserved, pending, tombstones>>
              \/ /\ reserved' = {}
                 /\ pending' = [i \in IDs |-> None]
                 /\ tombstones' = [i \in IDs |-> None]
BY ErrorsNonEmpty, Zenon DEF Retire, retireVars

-----------------------------------------------------------------------------
(***************************************************************************)
(* retire and the operations on records.                                   *)
(***************************************************************************)
\* What retire, cancelOperation and route may do to the flags of a record.
LEMMA RetiredFlags ==
    ASSUME TypeOK, NEW o \in Ops, NEW e
    PROVE  /\ Retired(o, e).terminal
           /\ Retired(o, e).abandoning = op[o].abandoning
           /\ Retired(o, e).canceled = op[o].canceled
BY Zenon DEF Retired, TypeOK, Operation

\* What cancelOperation does to the flags of a record.
LEMMA CanceledFlags ==
    ASSUME TypeOK, AbandonedOnce, NEW o \in Ops, NEW e \in Error, ~Owned(o)
    PROVE  /\ Canceled(o, e).canceled
           /\ op[o].abandoning => Canceled(o, e).abandoning
           /\ CancelActs(o, "abandon") => Canceled(o, e).abandoning
<1> USE Zenon
<1> DEFINE b == op[o].abandoning \/ CancelActs(o, "abandon")
           p == [op[o] EXCEPT !.abandoning = b]
<1>1. b \in BOOLEAN /\ op[o] \in Operation
  BY DEF TypeOK
<1>2. Canceled(o, e) = IF p.deliveryErr # {} THEN p ELSE Cleared(p, e)
  BY DEF Canceled
<1> HIDE DEF b
<1>3. /\ p \in Operation /\ p.abandoning = b
      /\ p.deliveryErr = op[o].deliveryErr /\ p.canceled = op[o].canceled
  BY <1>1 DEF Operation
<1> USE <1>3
<1> HIDE DEF p
<1>4. Cleared(p, e).canceled /\ Cleared(p, e).abandoning = b
  BY DEF Cleared, Operation
<1>5. p.deliveryErr # {} => p.canceled
  BY DEF AbandonedOnce, Owned
<1>6. Canceled(o, e).canceled /\ Canceled(o, e).abandoning = b
  BY <1>2, <1>4, <1>5
<1> QED
  BY <1>6 DEF b

\* What route does to the flags of the record of a response.
LEMMA AcceptedFlags ==
    ASSUME TypeOK, NEW o \in Ops, NEW m \in Message, NEW last \in BOOLEAN
    PROVE  LET a == Accepted(o, m, last) IN
           /\ op[o].canceled => a.canceled
           /\ op[o].abandoning => a.abandoning
           /\ op[o].terminal => a.terminal
           /\ a.abandoning => a.canceled \/ op[o].abandoning
           /\ a.deliveryErr # {} => a.canceled \/ op[o].deliveryErr # {}
           /\ ~op[o].canceled /\ Overflows(o, m) /\ ~last /\ Mode[o] = "abandon"
                => a.abandoning
<1> USE Zenon
<1> DEFINE t == op[o].terminal \/ last
           f == op[o].ended \/ last
           p == [op[o] EXCEPT !.ready = TRUE, !.terminal = t, !.ended = f]
           b == p.abandoning \/ (~last /\ Mode[o] = "abandon")
           r == [p EXCEPT !.abandoning = b]
           n == [p EXCEPT !.queue = Append(@, m), !.bytes = @ + m.size]
<1>1. t \in BOOLEAN /\ f \in BOOLEAN /\ b \in BOOLEAN /\ op[o] \in Operation
  BY DEF TypeOK
<1>2. /\ op[o].canceled /\ p.canceled => Accepted(o, m, last) = p
      /\ ~p.canceled /\ ~Overflows(o, m) => Accepted(o, m, last) = n
      /\ ~p.canceled /\ Overflows(o, m) =>
            Accepted(o, m, last) = Cleared(r, {"limit"})
  BY DEF Accepted
<1>3. (op[o].terminal => t) /\ (p.abandoning => b)
      /\ (~last /\ Mode[o] = "abandon" => b)
  OBVIOUS
<1> HIDE DEF t, f, b
<1>4. /\ p \in Operation /\ p.terminal = t /\ p.abandoning = op[o].abandoning
      /\ p.canceled = op[o].canceled /\ p.deliveryErr = op[o].deliveryErr
  BY <1>1 DEF Operation
<1> USE <1>4
<1>5. /\ n.terminal = p.terminal /\ n.abandoning = p.abandoning
      /\ n.canceled = p.canceled /\ n.deliveryErr = p.deliveryErr
  BY DEF Operation
<1> HIDE DEF p, n
<1>6. r \in Operation /\ r.terminal = p.terminal /\ r.abandoning = b
  BY <1>1 DEF Operation
<1> HIDE DEF r
<1>7. LET x == Cleared(r, {"limit"}) IN
      x.canceled /\ x.terminal = p.terminal /\ x.abandoning = b
  BY <1>6 DEF Cleared, Operation
<1>8. Overflows(o, m) \in BOOLEAN
  BY DEF Overflows
<1> QED
  BY <1>2, <1>3, <1>5, <1>7, <1>8

-----------------------------------------------------------------------------
(***************************************************************************)
(* The conjuncts, one lemma each.                                          *)
(***************************************************************************)
\* What the reader's record becomes.
LEMMA ReaderValues ==
    ASSUME TypeOK, NEW e
    PROVE  /\ ReaderNext.pc = "read"
           /\ ReaderFails(e).pc = "retire" /\ ReaderFails(e).err = e
BY Zenon DEF ReaderNext, ReaderFails, TypeOK, ReaderType

\* No goroutine decides to retire the connection without an error.
LEMMA RetireHasCauseStep ==
    ASSUME TypeOK, IDInv, Next
    PROVE  RetireHasCause'
<1> USE Zenon
<1>1. UNCHANGED <<retiring, apc, aerr, reader, io>> => RetireHasCause'
  BY DEF IDInv, RetireHasCause
<1>2. \A o \in Ops : StartWrite(o) => RetireHasCause'
  BY DEF StartWrite, WriteAll, Idle, IDInv, RetireHasCause, abandVars, writeVars
<1>3. ASSUME NEW o \in Ops, WriteDone(o) PROVE RetireHasCause'
  BY <1>3 DEF WriteDone, Idle, IDInv, RetireHasCause, abandVars, writeVars
<1>4. ASSUME NEW o \in Ops, NextCall(o) PROVE RetireHasCause'
  BY <1>4, ErrorsNonEmpty
     DEF NextCall, CancelOperation, streamFrame, TypeOK, AbandonType, IDInv,
         RetireHasCause, abandVars, writeVars
<1>5. \A o \in Ops : NextWake(o) => RetireHasCause'
  BY ErrorsNonEmpty, SMT
     DEF NextWake, CancelOperation, streamFrame, TypeOK, AbandonType, IDInv,
         RetireHasCause, abandVars, writeVars
<1>6. \A o \in Ops : CloseStream(o) => RetireHasCause'
  BY ErrorsNonEmpty
     DEF CloseStream, CancelOperation, streamFrame, TypeOK, AbandonType, IDInv,
         RetireHasCause, abandVars, writeVars
<1>7. \A o \in Ops : WatchOperation(o) => RetireHasCause'
  BY ErrorsNonEmpty
     DEF WatchOperation, CancelOperation, streamFrame, TypeOK, AbandonType,
         IDInv, RetireHasCause, abandVars, writeVars
<1>8. ASSUME NEW o \in Ops, AbandonReserve(o) PROVE RetireHasCause'
  BY <1>8, SMT
     DEF AbandonReserve, TypeOK, AbandonType, IDInv, RetireHasCause,
         abandVars, writeVars
<1>9. ASSUME NEW o \in Ops, AbandonTakeToken(o) PROVE RetireHasCause'
  <2> USE <1>9
  <2>1. {} \notin AcquireErrors(Abandon(o))
    BY ErrorsNonEmpty
  <2>2. \/ UNCHANGED aerr /\ apc' = [apc EXCEPT ![o] = "recheck"]
        \/ \E e \in AcquireErrors(Abandon(o)) : AbandonFails(o, e)
    BY DEF AbandonTakeToken
  <2>3. \A x \in Ops : apc'[x] = "retire" => aerr'[x] # {}
    BY <2>1, <2>2 DEF AbandonFails, TypeOK, AbandonType, IDInv, RetireHasCause
  <2> QED
    BY <2>3 DEF AbandonTakeToken, IDInv, RetireHasCause
<1>10. \A o \in Ops : AbandonTombstone(o) => RetireHasCause'
  BY DEF AbandonTombstone, WriteAll, Idle, TypeOK, AbandonType, IDInv,
         RetireHasCause, abandVars, writeVars
<1>11. ASSUME NEW o \in Ops, AbandonWritten(o) PROVE RetireHasCause'
  BY <1>11
     DEF AbandonWritten, Idle, TypeOK, AbandonType, IDInv, RetireHasCause,
         abandVars, writeVars
<1>12. \A o \in Ops : AbandonRetire(o) => RetireHasCause'
  BY DEF AbandonRetire, TypeOK, AbandonType, IDInv, RetireHasCause, abandVars,
         writeVars
<1>13. \A c \in Closers : CloseAcquire(c) => RetireHasCause'
  BY DEF CloseAcquire, WriteAll, Idle, IDInv, RetireHasCause, abandVars,
         writeVars
<1>14. ASSUME NEW c \in Closers, CloseWritten(c) PROVE RetireHasCause'
  BY <1>14
     DEF CloseWritten, Idle, IDInv, RetireHasCause, abandVars, writeVars
<1>15. WriteCheck => RetireHasCause'
  BY ErrorsNonEmpty, SMT
     DEF WriteCheck, TypeOK, WriterType, WriteCall, IDInv, RetireHasCause,
         abandVars, writeVars
<1>16. CancelWins => RetireHasCause'
  BY ErrorsNonEmpty
     DEF CancelWins, TypeOK, WriterType, WriteCall, IDInv, RetireHasCause,
         abandVars, writeVars
<1>17. ASSUME WriteReturn PROVE RetireHasCause'
  <2> USE <1>17
  <2>1. Ambiguous(CtxErr) # {} /\ WriteError # {}
    BY ErrorsNonEmpty
  <2>2. io' \in {[io EXCEPT !.pc = "failed", !.err = Ambiguous(CtxErr)],
               [io EXCEPT !.pc = "ok"], [io EXCEPT !.pc = "check"],
               [io EXCEPT !.pc = "retire", !.err = WriteError]}
    BY DEF WriteReturn
  <2>3. io'.pc \in {"retire", "failed"} => io'.err # {}
    BY <2>1, <2>2 DEF TypeOK, WriterType, WriteCall
  <2> QED
    BY <2>3 DEF WriteReturn, IDInv, RetireHasCause, abandVars
<1>18. WriteRetire => RetireHasCause'
  BY DEF WriteRetire, TypeOK, WriterType, WriteCall, IDInv, RetireHasCause,
         abandVars, writeVars
<1>19. Flow => RetireHasCause'
  BY DEF Flow, TypeOK, WriterType, WriteCall, IDInv, RetireHasCause, abandVars,
         writeVars
<1>20. ASSUME ReadFrame PROVE RetireHasCause'
  <2> USE <1>20
  <2>1. \/ reader' = [reader EXCEPT !.pc = "retire", !.err = {"protocol"}]
        \/ reader' = [reader EXCEPT !.pc = "route", !.msg = Head(inbox)]
    BY DEF ReadFrame
  <2>2. reader'.pc = "retire" => reader'.err # {}
    BY <2>1 DEF TypeOK, ReaderType
  <2> QED
    BY <2>2 DEF ReadFrame, readerFrame, writeVars, IDInv, RetireHasCause
<1>21. ReadError => RetireHasCause'
  BY ErrorsNonEmpty
     DEF ReadError, TypeOK, ReaderType, ReaderNext, ReaderFails, readerFrame,
         IDInv, RetireHasCause, abandVars, writeVars
<1>22. ASSUME RouteUnsolicited PROVE RetireHasCause'
  <2> USE <1>22
  <2>1. \/ reader' = ReaderNext
        \/ \E e \in {{"notice"}, {"protocol"}, {"limit"}} :
              reader' = ReaderFails(e)
    BY DEF RouteUnsolicited
  <2>2. reader'.pc = "retire" => reader'.err # {}
    BY <2>1, ReaderValues, SMT
  <2> QED
    BY <2>2 DEF RouteUnsolicited, readerFrame, writeVars, IDInv, RetireHasCause
<1>23. ASSUME RouteUnowned PROVE RetireHasCause'
  BY <1>23, ReaderValues
     DEF RouteUnowned, readerFrame, IDInv, RetireHasCause, abandVars, writeVars
<1>24. RouteWait => RetireHasCause'
  BY DEF RouteWait, TypeOK, ReaderType, ReaderNext, ReaderFails, readerFrame,
         IDInv, RetireHasCause, abandVars, writeVars
<1>25. RouteAgain => RetireHasCause'
  BY ReaderValues, ZenonT(60)
     DEF RouteAgain, readerFrame, TypeOK, ReaderType, IDInv, RetireHasCause,
         abandVars, writeVars
<1>26. ASSUME Route PROVE RetireHasCause'
  <2> USE <1>26
  <2>1. reader' \in {ReaderNext, ReaderFails({"protocol"}), ReaderFails({"limit"})}
    BY DEF Route
  <2>2. \A x \in Ops : apc'[x] \in {apc[x], "spawned"}
    BY DEF Route, TypeOK, AbandonType
  <2>3. UNCHANGED <<retiring, io, aerr>>
    BY DEF Route, readerFrame, writeVars
  <2> QED
    BY <2>1, <2>2, <2>3, ReaderValues, SMT DEF IDInv, RetireHasCause
<1>27. ReaderRetire => RetireHasCause'
  BY DEF ReaderRetire, TypeOK, ReaderType, ReaderNext, ReaderFails, readerFrame,
         IDInv, RetireHasCause, abandVars, writeVars
<1>28. AsyncRetire => RetireHasCause'
  BY DEF AsyncRetire, IDInv, RetireHasCause, abandVars, writeVars
<1>29. (\E o \in Ops : DoStep(o)) => RetireHasCause'
  BY <1>1, <1>2, <1>3
     DEF DoStep, Reserve, ReserveCanceled, GiveBack, InstallPending, TakeToken,
         RemoveDefinitelyUnsent, ObserveWrite, CompleteNoResponse, abandVars,
         writeVars
<1>30. (\E o \in Ops : StreamStep(o)) => RetireHasCause'
  BY <1>1, <1>4, <1>5, <1>6
     DEF StreamStep, NextLoop, streamFrame, abandVars, writeVars
<1>31. (\E o \in Ops : AbandonStep(o)) => RetireHasCause'
  BY <1>8, <1>9, <1>10, <1>11, <1>12 DEF AbandonStep
<1>32. (\E c \in Closers : CloseStep(c)) => RetireHasCause'
  BY <1>1, <1>13, <1>14
     DEF CloseStep, CloseBegin, CloseAwait, CloseFinish, abandVars, writeVars
<1>33. WriteStep => RetireHasCause'
  BY <1>15, <1>16, <1>17, <1>18 DEF WriteStep
<1>34. ReaderStep => RetireHasCause'
  BY <1>20, <1>21, <1>22, <1>23, <1>24, <1>25, <1>26, <1>27 DEF ReaderStep
<1>35. (\E u \in Listeners : NextUnsolicited(u)) => RetireHasCause'
  BY <1>1 DEF NextUnsolicited, abandVars, writeVars
<1>36. (\E p \in Procs : ContextDone(p)) => RetireHasCause'
  BY <1>1 DEF ContextDone, abandVars, writeVars
<1>37. PeerStep => RetireHasCause'
  BY <1>1
     DEF PeerStep, PeerReplies, PeerStrays, LinkFault, peerFrame, abandVars,
         writeVars
<1> QED
  BY <1>29, <1>30, <1>7, <1>31, <1>32, <1>33, <1>19, <1>34, <1>28, <1>35, <1>36,
     <1>37 DEF Next

\* Handing over a response and completing an operation leave its flags alone.
LEMMA TakenFlags ==
    ASSUME NEW p \in Operation
    PROVE  /\ Taken(p).abandoning = p.abandoning
           /\ Taken(p).canceled = p.canceled
           /\ Taken(p).terminal = p.terminal
           /\ Taken(p).deliveryErr = p.deliveryErr
BY Zenon DEF Taken, Operation

\* Completing an operation abandons nothing.
LEMMA CompleteFlags ==
    ASSUME TypeOK, IDInv, NEW o \in Ops, Complete(o), UNCHANGED apc
    PROVE  AbandonedOnce'
<1> USE Zenon
<1> DEFINE q == [op[o] EXCEPT !.terminal = TRUE, !.ended = TRUE, !.ready = TRUE]
<1>1. /\ q.abandoning = op[o].abandoning /\ q.canceled = op[o].canceled
      /\ q.terminal
  BY DEF TypeOK, Operation
<1>2. op' = op \/ op' = [op EXCEPT ![o] = q]
  BY DEF Complete
<1> HIDE DEF q
<1> QED
  BY <1>1, <1>2 DEF IDInv, AbandonedOnce, TypeOK

\* cancelOperation abandons an operation at most once.
LEMMA CancelFlags ==
    ASSUME TypeOK, IDInv, NEW o \in Ops, NEW e \in {ErrClosed, CtxErr},
           CancelOperation(o, e)
    PROVE  AbandonedOnce'
<1> USE Zenon
<1>1. Owned(o) => AbandonedOnce'
  BY DEF CancelOperation, IDInv, AbandonedOnce
<1>2. CASE ~Owned(o)
  <2> USE <1>2
  <2>1. e \in Error
    BY ErrorConstants
  <2>2. /\ op' = [op EXCEPT ![o] = Canceled(o, e)]
        /\ apc' = IF CancelActs(o, "abandon")
                  THEN [apc EXCEPT ![o] = "spawned"] ELSE apc
    BY DEF CancelOperation
  <2> QED
    BY <2>1, <2>2, CanceledFlags
       DEF IDInv, AbandonedOnce, TypeOK, AbandonType
<1> QED
  BY <1>1, <1>2

\* retire leaves those flags alone.
LEMMA RetireFlags ==
    ASSUME TypeOK, IDInv, NEW e, Retire(e),
           \A o \in Ops : apc'[o] # "none" => apc[o] # "none"
    PROVE  AbandonedOnce'
<1> USE Zenon
<1>1. err # {} => AbandonedOnce'
  BY DEF Retire, retireVars, IDInv, AbandonedOnce
<1>2. CASE err = {}
  <2> DEFINE cause == IF closing THEN ErrClosed ELSE e
  <2>1. op' = [o \in Ops |-> IF Live(o) THEN Retired(o, cause) ELSE op[o]]
    BY <1>2 DEF Retire
  <2> HIDE DEF cause
  <2> QED
    BY <2>1, RetiredFlags DEF IDInv, AbandonedOnce
<1> QED
  BY <1>1, <1>2

\* An operation is abandoned at most once.
LEMMA AbandonedOnceStep ==
    ASSUME TypeOK, IDInv, Next
    PROVE  AbandonedOnce'
<1> USE Zenon
<1>1. UNCHANGED <<apc, op>> => AbandonedOnce'
  BY DEF IDInv, AbandonedOnce
<1>2. \A o \in Ops : StartWrite(o) => AbandonedOnce'
  BY SMT DEF StartWrite, TypeOK, Operation, abandVars, IDInv, AbandonedOnce
<1>3. \A o \in Ops : RemoveDefinitelyUnsent(o) => AbandonedOnce'
  BY CompleteFlags
     DEF RemoveDefinitelyUnsent, IDInv, AbandonedOnce, abandVars
<1>4. \A o \in Ops : ObserveWrite(o) => AbandonedOnce'
  BY SMT DEF ObserveWrite, TypeOK, Operation, abandVars, IDInv, AbandonedOnce
<1>5. \A o \in Ops : CompleteNoResponse(o) => AbandonedOnce'
  BY CompleteFlags
     DEF CompleteNoResponse, IDInv, AbandonedOnce, abandVars
<1>6. ASSUME NEW o \in Ops, NextCall(o) PROVE AbandonedOnce'
  <2>1. UNCHANGED <<op, apc>> => AbandonedOnce'
    BY DEF IDInv, AbandonedOnce
  <2>2. CancelOperation(o, CtxErr) => AbandonedOnce'
    BY CancelFlags
  <2> QED
    BY <1>6, <2>1, <2>2 DEF NextCall
<1>7. \A o \in Ops : NextLoop(o) => AbandonedOnce'
  BY TakenFlags, SMT DEF NextLoop, TypeOK, IDInv, AbandonedOnce, abandVars
<1>8. ASSUME NEW o \in Ops, NextWake(o) PROVE AbandonedOnce'
  <2>1. UNCHANGED <<op, apc>> => AbandonedOnce'
    BY DEF IDInv, AbandonedOnce
  <2>2. CancelOperation(o, CtxErr) => AbandonedOnce'
    BY CancelFlags
  <2>3. UNCHANGED apc /\ op' = [op EXCEPT ![o].ready = FALSE] => AbandonedOnce'
    BY SMT DEF IDInv, AbandonedOnce, TypeOK, Operation
  <2> QED
    BY <1>8, <2>1, <2>2, <2>3 DEF NextWake
<1>9. \A o \in Ops : CloseStream(o) => AbandonedOnce'
  BY CancelFlags DEF CloseStream
<1>10. ASSUME NEW o \in Ops, WatchOperation(o) PROVE AbandonedOnce'
  <2>1. UNCHANGED <<op, apc>> => AbandonedOnce'
    BY DEF IDInv, AbandonedOnce
  <2>2. CancelOperation(o, CtxErr) => AbandonedOnce'
    BY CancelFlags
  <2> QED
    BY <1>10, <2>1, <2>2 DEF WatchOperation
<1>11. \A o \in Ops : AbandonReserve(o) => AbandonedOnce'
  BY DEF AbandonReserve, TypeOK, AbandonType, IDInv, AbandonedOnce, abandVars
<1>12. \A o \in Ops : AbandonTakeToken(o) => AbandonedOnce'
  BY DEF AbandonTakeToken, AbandonFails, TypeOK, AbandonType, IDInv,
         AbandonedOnce, abandVars
<1>13. ASSUME NEW o \in Ops, AbandonTombstone(o) PROVE AbandonedOnce'
  <2> USE <1>13
  <2> DEFINE q == [op[o] EXCEPT !.ended = TRUE, !.ready = TRUE]
  <2>1. /\ q.abandoning = op[o].abandoning /\ q.canceled = op[o].canceled
        /\ q.deliveryErr = op[o].deliveryErr /\ q.terminal = op[o].terminal
    BY DEF TypeOK, Operation
  <2>2. op' = op \/ op' = [op EXCEPT ![o] = q]
    BY DEF AbandonTombstone
  <2>3. apc[o] = "recheck" /\ \A x \in Ops \ {o} : apc'[x] = apc[x]
    BY DEF AbandonTombstone, TypeOK, AbandonType
  <2> HIDE DEF q
  <2> QED
    BY <2>1, <2>2, <2>3 DEF IDInv, AbandonedOnce, TypeOK
<1>14. \A o \in Ops : AbandonWritten(o) => AbandonedOnce'
  BY DEF AbandonWritten, TypeOK, AbandonType, IDInv, AbandonedOnce, abandVars
<1>15. ASSUME Route PROVE AbandonedOnce'
  <2> DEFINE m == reader.msg
             o == pending[m.id]
             last == Classify(o, m.kind) = "complete"
  <2>1. m \in Message /\ last \in BOOLEAN
    BY DEF TypeOK, ReaderType
  <2>2. o \in Ops
    BY <1>15 DEF Route, TypeOK, IDType
  <2>3. \/ UNCHANGED <<op, apc>>
        \/ /\ op' = [op EXCEPT ![o] = Accepted(o, m, last)]
           /\ \/ apc' = apc
              \/ /\ ~op[o].canceled /\ Overflows(o, m) /\ ~last
                 /\ Mode[o] = "abandon"
                 /\ apc' = [apc EXCEPT ![o] = "spawned"]
    BY <1>15 DEF Route
  <2> HIDE DEF m, o, last
  <2> QED
    BY <2>1, <2>2, <2>3, AcceptedFlags, SMT
       DEF IDInv, AbandonedOnce, TypeOK, AbandonType
<1>16. AsyncRetire => AbandonedOnce'
  BY RetireFlags DEF AsyncRetire, abandVars, IDInv, AbandonedOnce
<1>17. WriteRetire => AbandonedOnce'
  BY RetireFlags DEF WriteRetire, abandVars, IDInv, AbandonedOnce
<1>18. \A o \in Ops : AbandonRetire(o) => AbandonedOnce'
  BY RetireFlags
     DEF AbandonRetire, TypeOK, AbandonType, IDInv, AbandonedOnce, abandVars
<1>19. \A c \in Closers : CloseFinish(c) => AbandonedOnce'
  BY RetireFlags DEF CloseFinish, abandVars, IDInv, AbandonedOnce
<1>20. ReaderRetire => AbandonedOnce'
  BY RetireFlags DEF ReaderRetire, abandVars, IDInv, AbandonedOnce
<1>21. (\E o \in Ops : DoStep(o)) => AbandonedOnce'
  BY <1>1, <1>2, <1>3, <1>4, <1>5
     DEF DoStep, Reserve, ReserveCanceled, GiveBack, InstallPending, TakeToken,
         WriteDone, abandVars
<1>22. (\E o \in Ops : StreamStep(o)) => AbandonedOnce'
  BY <1>6, <1>7, <1>8, <1>9 DEF StreamStep
<1>23. (\E o \in Ops : AbandonStep(o)) => AbandonedOnce'
  BY <1>11, <1>12, <1>13, <1>14, <1>18 DEF AbandonStep
<1>24. (\E c \in Closers : CloseStep(c)) => AbandonedOnce'
  BY <1>1, <1>19
     DEF CloseStep, CloseBegin, CloseAwait, CloseAcquire, CloseWritten,
         abandVars
<1>25. WriteStep => AbandonedOnce'
  BY <1>1, <1>17 DEF WriteStep, WriteCheck, CancelWins, WriteReturn, abandVars
<1>26. Flow => AbandonedOnce'
  BY <1>1 DEF Flow, abandVars
<1>27. ReaderStep => AbandonedOnce'
  BY <1>1, <1>15, <1>20
     DEF ReaderStep, ReadFrame, ReadError, RouteUnsolicited, RouteUnowned,
         RouteWait, RouteAgain, readerFrame, abandVars
<1>28. (\E u \in Listeners : NextUnsolicited(u)) => AbandonedOnce'
  BY <1>1 DEF NextUnsolicited, abandVars
<1>29. (\E p \in Procs : ContextDone(p)) => AbandonedOnce'
  BY <1>1 DEF ContextDone, abandVars
<1>30. PeerStep => AbandonedOnce'
  BY <1>1 DEF PeerStep, PeerReplies, PeerStrays, LinkFault, peerFrame, abandVars
<1> QED
  BY <1>21, <1>22, <1>10, <1>23, <1>24, <1>25, <1>26, <1>27, <1>16, <1>28,
      <1>29, <1>30, ZenonT(60) DEF Next

\* retire keeps or clears the table of pending records.
LEMMA RetirePending ==
    ASSUME NEW e, Retire(e)
    PROVE  \A i \in IDs : pending'[i] \in {pending[i], None}
BY Zenon DEF Retire, retireVars

\* A pending record stays filed under the ID of its operation.
LEMMA PendingFiledStep ==
    ASSUME TypeOK, IDInv, Next
    PROVE  PendingFiled'
<1> USE Zenon
<1>1. UNCHANGED <<pending, id, pc>> => PendingFiled'
  BY DEF IDInv, PendingFiled
<1>2. \A o \in Ops : Reserve(o) => PendingFiled'
  BY SMT DEF Reserve, TypeOK, CallType, IDType, idVars, IDInv, PendingFiled,
         callVars
<1>3. \A o \in Ops : ReserveCanceled(o) => PendingFiled'
  BY SMT DEF ReserveCanceled, TypeOK, CallType, IDType, idVars, IDInv, PendingFiled,
         callVars
<1>4. \A o \in Ops : GiveBack(o) => PendingFiled'
  BY SMT DEF GiveBack, TypeOK, CallType, IDType, idVars, IDInv, PendingFiled,
         callVars
<1>5. \A o \in Ops : InstallPending(o) => PendingFiled'
  BY SMT DEF InstallPending, TypeOK, CallType, IDType, IDs, IDInv, PendingFiled,
         idVars, callVars
<1>6. \A o \in Ops : TakeToken(o) => PendingFiled'
  BY SMT DEF TakeToken, TypeOK, CallType, IDType, AfterWriteError, idVars, IDInv,
         PendingFiled, callVars
<1>7. \A o \in Ops : StartWrite(o) => PendingFiled'
  BY SMT DEF StartWrite, TypeOK, CallType, IDType, idVars, IDInv, PendingFiled,
         callVars
<1>8. \A o \in Ops : WriteDone(o) => PendingFiled'
  BY SMT DEF WriteDone, TypeOK, CallType, IDType, AfterWriteError, idVars, IDInv,
         PendingFiled, callVars
<1>9. \A o \in Ops : RemoveDefinitelyUnsent(o) => PendingFiled'
  BY SMT DEF RemoveDefinitelyUnsent, TypeOK, CallType, IDType, Complete, Without,
         IDInv, PendingFiled, idVars, callVars
<1>10. \A o \in Ops : ObserveWrite(o) => PendingFiled'
  BY SMT DEF ObserveWrite, TypeOK, CallType, IDType, idVars, IDInv, PendingFiled,
         callVars
<1>11. \A o \in Ops : CompleteNoResponse(o) => PendingFiled'
  BY SMT DEF CompleteNoResponse, TypeOK, CallType, IDType, Complete, Without, IDInv,
         PendingFiled, idVars, callVars
<1>12. \A o \in Ops : AbandonTombstone(o) => PendingFiled'
  BY SMT DEF AbandonTombstone, Without, callVars, IDInv, PendingFiled, idVars
<1>13. ASSUME Route PROVE PendingFiled'
  <2> USE <1>13, Zenon
  <2>1. \A i \in IDs : pending'[i] \in {pending[i], None}
    BY DEF Route, Without
  <2> QED
    BY <2>1 DEF Route, readerFrame, callVars, IDInv, PendingFiled
<1>14. AsyncRetire => PendingFiled'
  BY RetirePending DEF AsyncRetire, callVars, IDInv, PendingFiled, idVars
<1>15. WriteRetire => PendingFiled'
  BY RetirePending DEF WriteRetire, callVars, IDInv, PendingFiled, idVars
<1>16. \A o \in Ops : AbandonRetire(o) => PendingFiled'
  BY RetirePending
     DEF AbandonRetire, callVars, IDInv, PendingFiled, idVars
<1>17. \A c \in Closers : CloseFinish(c) => PendingFiled'
  BY RetirePending DEF CloseFinish, callVars, IDInv, PendingFiled, idVars
<1>18. ReaderRetire => PendingFiled'
  BY RetirePending DEF ReaderRetire, callVars, IDInv, PendingFiled, idVars
<1>19. (\E o \in Ops : DoStep(o)) => PendingFiled'
  BY <1>2, <1>3, <1>4, <1>5, <1>6, <1>7, <1>8, <1>9, <1>10, <1>11
     DEF DoStep
<1>20. (\E o \in Ops : StreamStep(o)) => PendingFiled'
  BY <1>1
     DEF StreamStep, NextCall, NextLoop, NextWake, CloseStream, streamFrame,
         idVars, callVars
<1>21. (\E o \in Ops : WatchOperation(o)) => PendingFiled'
  BY <1>1 DEF WatchOperation, streamFrame, idVars, callVars
<1>22. (\E o \in Ops : AbandonStep(o)) => PendingFiled'
  BY <1>1, <1>12, <1>16
     DEF AbandonStep, AbandonReserve, AbandonTakeToken, AbandonWritten, idVars,
         callVars
<1>23. (\E c \in Closers : CloseStep(c)) => PendingFiled'
  BY <1>1, <1>17
     DEF CloseStep, CloseBegin, CloseAwait, CloseAcquire, CloseWritten, idVars,
         callVars
<1>24. WriteStep => PendingFiled'
  BY <1>1, <1>15
     DEF WriteStep, WriteCheck, CancelWins, WriteReturn, idVars, callVars
<1>25. Flow => PendingFiled'
  BY <1>1 DEF Flow, idVars, callVars
<1>26. ReaderStep => PendingFiled'
  BY <1>1, <1>13, <1>18
     DEF ReaderStep, ReadFrame, ReadError, RouteUnsolicited, RouteUnowned,
         RouteWait, RouteAgain, readerFrame, idVars, callVars
<1>27. (\E u \in Listeners : NextUnsolicited(u)) => PendingFiled'
  BY <1>1 DEF NextUnsolicited, idVars, callVars
<1>28. (\E p \in Procs : ContextDone(p)) => PendingFiled'
  BY <1>1 DEF ContextDone, idVars, callVars
<1>29. PeerStep => PendingFiled'
  BY <1>1
     DEF PeerStep, PeerReplies, PeerStrays, LinkFault, peerFrame, idVars,
         callVars
<1> QED
  BY <1>19, <1>20, <1>21, <1>22, <1>23, <1>24, <1>25, <1>26, <1>14, <1>27,
      <1>28, <1>29 DEF Next

\* The allocator hands out an ID that is in none of the three tables.
LEMMA TryReserveFresh ==
    ASSUME NEW i, TryReserve(i)
    PROVE  /\ i \in IDs /\ i \notin reserved
           /\ pending[i] = None /\ tombstones[i] = None
           /\ reserved' = reserved \cup {i}
BY Zenon DEF TryReserve, UsedIDs

\* retire keeps or clears all three.
LEMMA RetireDisjoint ==
    ASSUME IDInv, NEW e, Retire(e)
    PROVE  Disjoint'
BY Zenon DEF Retire, retireVars, IDInv, IDsExclusive, Disjoint

\* An ID is in at most one table.
LEMMA DisjointStep ==
    ASSUME TypeOK, IDInv, Next
    PROVE  Disjoint'
<1> USE Zenon
<1>1. UNCHANGED <<reserved, pending, tombstones>> => Disjoint'
  BY DEF IDInv, IDsExclusive, Disjoint
<1>2. ASSUME NEW o \in Ops, Reserve(o) PROVE Disjoint'
  BY <1>2, TryReserveFresh DEF Reserve, IDInv, IDsExclusive, Disjoint, idVars
<1>3. \A o \in Ops : GiveBack(o) => Disjoint'
  BY DEF GiveBack, ReleaseReserved, IDInv, IDsExclusive, Disjoint, idVars
<1>4. \A o \in Ops : InstallPending(o) => Disjoint'
  BY DEF InstallPending, TypeOK, IDType, IDInv, IDsExclusive, Disjoint, idVars
<1>5. \A o \in Ops : RemoveDefinitelyUnsent(o) => Disjoint'
  BY DEF RemoveDefinitelyUnsent, Complete, Without, IDInv, IDsExclusive,
         Disjoint, idVars
<1>6. \A o \in Ops : CompleteNoResponse(o) => Disjoint'
  BY DEF CompleteNoResponse, Complete, Without, IDInv, IDsExclusive, Disjoint,
         idVars
<1>7. \A o \in Ops : AbandonReserve(o) => Disjoint'
  BY TryReserveFresh, ZenonT(60)
     DEF AbandonReserve, IDInv, IDsExclusive, Disjoint, idVars
<1>8. ASSUME NEW o \in Ops, AbandonTakeToken(o) PROVE Disjoint'
  BY <1>8
     DEF AbandonTakeToken, ReleaseReserved, AbandonFails, IDInv, IDsExclusive,
         Disjoint, idVars
<1>9. ASSUME NEW o \in Ops, AbandonTombstone(o) PROVE Disjoint'
  <2>1. AbandonMoot(o) => Disjoint'
    BY <1>9, ZenonT(60)
       DEF AbandonTombstone, ReleaseReserved, IDInv, IDsExclusive, Disjoint
  <2>2. CASE ~AbandonMoot(o)
    <3>1. PICK i \in IDs : pending[i] = o
      BY <2>2 DEF AbandonMoot, Live
    <3>2. id[o] = i /\ o # None
      BY <3>1, ConnAssumption DEF IDInv, PendingFiled
    <3> USE <3>2
    <3>3. \A j \in IDs : pending[j] = o => j = i
      BY DEF IDInv, PendingFiled
    <3>4. /\ pending' = Without(o) /\ reserved' = reserved
          /\ tombstones' = [tombstones EXCEPT ![i] = o]
      BY <1>9, <2>2 DEF AbandonTombstone, Tombstone
    <3> QED
      BY <3>1, <3>3, <3>4
         DEF Without, TypeOK, IDType, IDInv, IDsExclusive, Disjoint
  <2> QED
    BY <2>1, <2>2
<1>10. \A o \in Ops : AbandonWritten(o) => Disjoint'
  BY DEF AbandonWritten, ReleaseReserved, IDInv, IDsExclusive, Disjoint, idVars
<1>11. \A c \in Closers : CloseAcquire(c) => Disjoint'
  BY TryReserveFresh DEF CloseAcquire, IDInv, IDsExclusive, Disjoint, idVars
<1>12. \A c \in Closers : CloseWritten(c) => Disjoint'
  BY ZenonT(60)
     DEF CloseWritten, ReleaseReserved, IDInv, IDsExclusive, Disjoint, idVars
<1>13. ASSUME Route PROVE Disjoint'
  <2>1. PICK o : pending' \in {pending, Without(o)}
    BY <1>13 DEF Route
  <2>2. UNCHANGED <<reserved, tombstones>>
    BY <1>13 DEF Route, readerFrame
  <2> QED
    BY <2>1, <2>2 DEF Without, IDInv, IDsExclusive, Disjoint
<1>14. AsyncRetire => Disjoint'
  BY RetireDisjoint DEF AsyncRetire, IDInv, IDsExclusive, Disjoint, idVars
<1>15. WriteRetire => Disjoint'
  BY RetireDisjoint DEF WriteRetire, IDInv, IDsExclusive, Disjoint, idVars
<1>16. \A o \in Ops : AbandonRetire(o) => Disjoint'
  BY RetireDisjoint, ZenonT(60)
     DEF AbandonRetire, IDInv, IDsExclusive, Disjoint, idVars
<1>17. ASSUME NEW c \in Closers, CloseFinish(c) PROVE Disjoint'
  BY <1>17, RetireDisjoint
     DEF CloseFinish, IDInv, IDsExclusive, Disjoint, idVars
<1>18. ReaderRetire => Disjoint'
  BY RetireDisjoint DEF ReaderRetire, IDInv, IDsExclusive, Disjoint, idVars
<1>19. (\E o \in Ops : DoStep(o)) => Disjoint'
  BY <1>1, <1>2, <1>3, <1>4, <1>5, <1>6
     DEF DoStep, ReserveCanceled, TakeToken, StartWrite, WriteDone,
         ObserveWrite, idVars
<1>20. (\E o \in Ops : StreamStep(o)) => Disjoint'
  BY <1>1
     DEF StreamStep, NextCall, NextLoop, NextWake, CloseStream, streamFrame,
         idVars
<1>21. (\E o \in Ops : WatchOperation(o)) => Disjoint'
  BY <1>1 DEF WatchOperation, streamFrame, idVars
<1>22. (\E o \in Ops : AbandonStep(o)) => Disjoint'
  BY <1>7, <1>8, <1>9, <1>10, <1>16 DEF AbandonStep
<1>23. (\E c \in Closers : CloseStep(c)) => Disjoint'
  BY <1>1, <1>11, <1>12, <1>17 DEF CloseStep, CloseBegin, CloseAwait, idVars
<1>24. WriteStep => Disjoint'
  BY <1>1, <1>15 DEF WriteStep, WriteCheck, CancelWins, WriteReturn, idVars
<1>25. Flow => Disjoint'
  BY <1>1 DEF Flow, idVars
<1>26. ReaderStep => Disjoint'
  BY <1>1, <1>13, <1>18
     DEF ReaderStep, ReadFrame, ReadError, RouteUnsolicited, RouteUnowned,
         RouteWait, RouteAgain, readerFrame, idVars
<1>27. (\E u \in Listeners : NextUnsolicited(u)) => Disjoint'
  BY <1>1 DEF NextUnsolicited, idVars
<1>28. (\E p \in Procs : ContextDone(p)) => Disjoint'
  BY <1>1 DEF ContextDone, idVars
<1>29. PeerStep => Disjoint'
  BY <1>1
     DEF PeerStep, PeerReplies, PeerStrays, LinkFault, peerFrame, idVars
<1> QED
  BY <1>19, <1>20, <1>21, <1>22, <1>23, <1>24, <1>25, <1>26, <1>14, <1>27,
     <1>28, <1>29 DEF Next

-----------------------------------------------------------------------------
(***************************************************************************)
(* Processes and what they claim.                                          *)
(***************************************************************************)
\* The names of processes are distinct.
LEMMA ProcsDistinct ==
    ASSUME NEW x, NEW y
    PROVE  /\ Do(x) = Do(y) => x = y
           /\ Abandon(x) = Abandon(y) => x = y
           /\ Close(x) = Close(y) => x = y
           /\ Do(x) # Abandon(y) /\ Do(x) # Close(y) /\ Abandon(x) # Close(y)
           /\ Do(x) # Free /\ Abandon(x) # Free /\ Close(x) # Free
BY Zenon DEF Do, Abandon, Close, Free

\* A process is a Do call, a sendAbandon goroutine or a CloseContext call.
LEMMA ProcsCases ==
    ASSUME NEW p \in Procs
    PROVE  \/ \E o \in Ops : p = Do(o) \/ p = Abandon(o)
           \/ \E c \in Closers : p = Close(c)
BY Zenon DEF Procs

\* All three kinds of goroutine are processes.
LEMMA ProcsMembers ==
    /\ \A o \in Ops : Do(o) \in Procs /\ Abandon(o) \in Procs
    /\ \A c \in Closers : Close(c) \in Procs
BY Zenon DEF Procs

\* What a Do call claims, before and after a step.
LEMMA ClaimDo ==
    ASSUME NEW o
    PROVE  /\ Claim(Do(o)) = IF pc[o] = "reserved" THEN id[o] ELSE 0
           /\ Claim(Do(o))' = IF pc'[o] = "reserved" THEN id'[o] ELSE 0
BY Zenon DEF Claim, Do

\* What a sendAbandon goroutine claims, before and after a step.
LEMMA ClaimAbandon ==
    ASSUME NEW o
    PROVE  /\ Claim(Abandon(o)) =
                IF apc[o] \in {"queued", "recheck", "writing"} THEN aid[o] ELSE 0
           /\ Claim(Abandon(o))' =
                IF apc'[o] \in {"queued", "recheck", "writing"} THEN aid'[o] ELSE 0
BY Zenon DEF Claim, Abandon

\* What a CloseContext call claims, before and after a step.
LEMMA ClaimClose ==
    ASSUME NEW c
    PROVE  /\ Claim(Close(c)) = IF cpc[c] = "writing" THEN cid[c] ELSE 0
           /\ Claim(Close(c))' = IF cpc'[c] = "writing" THEN cid'[c] ELSE 0
BY Zenon DEF Claim, Close

\* A step that changes no claim and no reservation keeps them matched.
LEMMA ClaimsKept ==
    ASSUME Claimed, UNCHANGED reserved,
           \A p \in Procs : Claim(p)' = Claim(p)
    PROVE  Claimed'
BY Zenon DEF Claimed

\* No message ID is claimed when a connection is made.
LEMMA IDInvInit == Init => IDInv
<1> USE Zenon
<1> SUFFICES ASSUME Init PROVE IDInv
  OBVIOUS
<1>1. Disjoint /\ PendingFiled
  BY DEF Init, Disjoint, PendingFiled
<1>2. \A p \in Procs : Claim(p) = 0
  <2>1. /\ pc = [o \in Ops |-> "idle"] /\ apc = [o \in Ops |-> "none"]
        /\ cpc = [c \in Closers |-> "idle"]
    BY DEF Init
  <2>2. \A o \in Ops : Claim(Do(o)) = 0 /\ Claim(Abandon(o)) = 0
    BY <2>1, ClaimDo, ClaimAbandon
  <2>3. \A c \in Closers : Claim(Close(c)) = 0
    BY <2>1, ClaimClose
  <2> QED
    BY <2>2, <2>3, ProcsCases
<1>3. Claimed
  <2>1. reserved = {}
    BY DEF Init
  <2> QED
    BY <1>2, <2>1 DEF Claimed
<1>4. AbandonedOnce
  BY DEF Init, AbandonedOnce, NewOp
<1>5. RetireHasCause
  BY DEF Init, RetireHasCause, Idle
<1> QED
  BY <1>1, <1>3, <1>4, <1>5 DEF IDInv, IDsExclusive

\* A step that leaves the variables alone leaves the claims alone.
LEMMA IDInvStutter ==
    ASSUME IDInv, UNCHANGED vars
    PROVE  IDInv'
<1> USE Zenon
<1>1. UNCHANGED <<err, reserved, pending, tombstones>>
  BY DEF vars, connVars, idVars
<1>2. UNCHANGED <<op, pc, id, apc, aid, aerr, cpc, cid, reader, retiring, io>>
  BY DEF vars, callVars, abandVars, closeVars, writeVars
<1> USE <1>2
<1>3. Disjoint' /\ PendingFiled'
  BY <1>1 DEF IDInv, IDsExclusive, Disjoint, PendingFiled
<1>4. \A p \in Procs : Claim(p)' = Claim(p)
  <2>1. \A o \in Ops : /\ Claim(Do(o))' = Claim(Do(o))
                       /\ Claim(Abandon(o))' = Claim(Abandon(o))
    BY ClaimDo, ClaimAbandon
  <2>2. \A c \in Closers : Claim(Close(c))' = Claim(Close(c))
    BY ClaimClose
  <2> QED
    BY <2>1, <2>2, ProcsCases
<1>5. err' = {} => Claimed'
  BY <1>1, <1>4, ClaimsKept DEF IDInv, IDsExclusive
<1>6. AbandonedOnce' /\ RetireHasCause'
  BY DEF IDInv, AbandonedOnce, RetireHasCause
<1> QED
  BY <1>3, <1>5, <1>6 DEF IDInv, IDsExclusive

\* So does a step in which p reserves a fresh ID.
LEMMA ClaimAdded ==
    ASSUME Claimed, NEW p \in Procs, NEW i \in IDs,
           i \notin reserved, reserved' = reserved \cup {i},
           Claim(p) = 0, Claim(p)' = i,
           \A q \in Procs \ {p} : Claim(q)' = Claim(q)
    PROVE  Claimed'
<1> USE Zenon
<1>1. i # 0
  BY ConnAssumption, SMT DEF IDs
<1>2. \A q \in Procs : Claim(q) # i
  BY <1>1 DEF Claimed
<1> QED
  BY <1>1, <1>2, SMT DEF Claimed

\* So does a step in which p gives up the ID it reserved.
LEMMA ClaimDropped ==
    ASSUME Claimed, NEW p \in Procs, Claim(p) # 0, Claim(p)' = 0,
           reserved' = reserved \ {Claim(p)},
           \A q \in Procs \ {p} : Claim(q)' = Claim(q)
    PROVE  Claimed'
BY SMT DEF Claimed

\* A step of one process leaves the claims of the others alone.
LEMMA OtherThanDo ==
    ASSUME NEW o \in Ops, UNCHANGED <<apc, aid, cpc, cid>>,
           \A q \in Ops \ {o} : pc'[q] = pc[q] /\ id'[q] = id[q]
    PROVE  \A p \in Procs \ {Do(o)} : Claim(p)' = Claim(p)
<1> USE Zenon
<1>1. \A q \in Ops : q # o => Claim(Do(q))' = Claim(Do(q))
  BY ClaimDo
<1>2. \A q \in Ops : Claim(Abandon(q))' = Claim(Abandon(q))
  BY ClaimAbandon
<1>3. \A d \in Closers : Claim(Close(d))' = Claim(Close(d))
  BY ClaimClose
<1> QED
  BY <1>1, <1>2, <1>3, ProcsCases

\* A step of one sendAbandon goroutine changes no other claim.
LEMMA OtherThanAbandon ==
    ASSUME NEW o \in Ops, UNCHANGED <<pc, id, cpc, cid>>,
           \A q \in Ops \ {o} : apc'[q] = apc[q] /\ aid'[q] = aid[q]
    PROVE  \A p \in Procs \ {Abandon(o)} : Claim(p)' = Claim(p)
<1> USE Zenon
<1>1. \A q \in Ops : Claim(Do(q))' = Claim(Do(q))
  BY ClaimDo
<1>2. \A q \in Ops : q # o => Claim(Abandon(q))' = Claim(Abandon(q))
  BY ClaimAbandon
<1>3. \A d \in Closers : Claim(Close(d))' = Claim(Close(d))
  BY ClaimClose
<1> QED
  BY <1>1, <1>2, <1>3, ProcsCases

\* A step of one CloseContext call changes no other claim.
LEMMA OtherThanClose ==
    ASSUME NEW c \in Closers, UNCHANGED <<pc, id, apc, aid>>,
           \A d \in Closers \ {c} : cpc'[d] = cpc[d] /\ cid'[d] = cid[d]
    PROVE  \A p \in Procs \ {Close(c)} : Claim(p)' = Claim(p)
<1> USE Zenon
<1>1. \A q \in Ops : Claim(Do(q))' = Claim(Do(q))
  BY ClaimDo
<1>2. \A q \in Ops : Claim(Abandon(q))' = Claim(Abandon(q))
  BY ClaimAbandon
<1>3. \A d \in Closers : d # c => Claim(Close(d))' = Claim(Close(d))
  BY ClaimClose
<1> QED
  BY <1>1, <1>2, <1>3, ProcsCases

-----------------------------------------------------------------------------
(***************************************************************************)
(* Every reservation has one claimant.                                     *)
(***************************************************************************)
\* cancelOperation starts sendAbandon only where none has run.
LEMMA CancelClaims ==
    ASSUME TypeOK, IDInv, NEW o \in Ops, NEW e, CancelOperation(o, e)
    PROVE  \/ apc' = apc
           \/ apc[o] = "none" /\ apc' = [apc EXCEPT ![o] = "spawned"]
BY Zenon DEF CancelOperation, CancelActs, IDInv, AbandonedOnce, TypeOK, AbandonType

\* No process claims an ID outside the ID space.
LEMMA ClaimedIDs == 0 \notin reserved \/ ~TypeOK
BY ConnAssumption, SMT DEF TypeOK, IDType, IDs

\* While the connection lives, the reservations are what processes claim.
LEMMA ClaimedStep ==
    ASSUME TypeOK, IDInv, Next
    PROVE  (err = {} => Claimed)'
<1> USE Zenon
<1>1. ASSUME UNCHANGED <<err, reserved, pc, id, apc, aid, cpc, cid>>
      PROVE  (err = {} => Claimed)'
  BY <1>1, ClaimsKept, ProcsCases, ClaimDo, ClaimAbandon, ClaimClose, SMT
     DEF IDInv, IDsExclusive
<1>2. ASSUME NEW o \in Ops, Reserve(o) PROVE (err = {} => Claimed)'
  <2> SUFFICES ASSUME err = {} PROVE Claimed'
    BY <1>2 DEF Reserve, connVars
  <2>1. \A q \in Procs \ {Do(o)} : Claim(q)' = Claim(q)
    BY <1>2, OtherThanDo DEF Reserve, TypeOK, CallType, abandVars, closeVars
  <2>2. Claim(Do(o)) = 0
    BY <1>2, ClaimDo DEF Reserve
  <2>3. CASE \E i \in IDs : TryReserve(i) /\ id' = [id EXCEPT ![o] = i]
                          /\ pc' = [pc EXCEPT ![o] = "reserved"]
    <3>1. PICK i \in IDs : TryReserve(i) /\ id' = [id EXCEPT ![o] = i]
                            /\ pc' = [pc EXCEPT ![o] = "reserved"]
      BY <2>3
    <3>2. Claim(Do(o))' = i
      BY <3>1, ClaimDo DEF TypeOK, CallType
    <3> QED
      BY <2>1, <2>2, <3>1, <3>2, TryReserveFresh, ClaimAdded, ProcsMembers
         DEF IDInv, IDsExclusive
  <2>4. CASE UNCHANGED reserved /\ pc'[o] # "reserved"
    BY <2>1, <2>2, <2>4, ClaimDo, ClaimsKept DEF IDInv, IDsExclusive
  <2> QED
    BY <1>2, <2>3, <2>4 DEF Reserve, TypeOK, CallType
<1>3. ASSUME NEW o \in Ops, ReserveCanceled(o) PROVE (err = {} => Claimed)'
  <2> USE <1>3
  <2> SUFFICES ASSUME err = {} PROVE Claimed'
    BY DEF ReserveCanceled, connVars
  <2>1. Claim(Do(o))' = Claim(Do(o)) /\ UNCHANGED reserved
    BY ClaimDo DEF ReserveCanceled, TypeOK, CallType, idVars
  <2>2. \A q \in Procs \ {Do(o)} : Claim(q)' = Claim(q)
    BY OtherThanDo
       DEF ReserveCanceled, TypeOK, CallType, abandVars, closeVars, idVars
  <2> QED
    BY <2>1, <2>2, ClaimsKept DEF IDInv, IDsExclusive
<1>4. ASSUME NEW o \in Ops, GiveBack(o) PROVE (err = {} => Claimed)'
  <2> USE <1>4
  <2> SUFFICES ASSUME err = {} PROVE Claimed'
    BY DEF GiveBack, connVars
  <2>1. \A q \in Procs \ {Do(o)} : Claim(q)' = Claim(q)
    BY OtherThanDo DEF GiveBack, TypeOK, CallType, abandVars, closeVars
  <2>2. Claim(Do(o)) = id[o] /\ Claim(Do(o))' = 0
    BY ClaimDo DEF GiveBack, TypeOK, CallType
  <2>3. reserved' = reserved \ {id[o]}
    BY DEF GiveBack, ReleaseReserved
  <2> QED
    BY <2>1, <2>2, <2>3, ClaimsKept, ClaimDropped, ProcsMembers, ClaimedIDs
       DEF IDInv, IDsExclusive
<1>5. ASSUME NEW o \in Ops, InstallPending(o) PROVE (err = {} => Claimed)'
  <2> USE <1>5
  <2> SUFFICES ASSUME err = {} PROVE Claimed'
    BY DEF InstallPending, connVars
  <2>1. \A q \in Procs \ {Do(o)} : Claim(q)' = Claim(q)
    BY OtherThanDo DEF InstallPending, TypeOK, CallType, abandVars, closeVars
  <2>2. Claim(Do(o)) = id[o] /\ Claim(Do(o))' = 0
    BY ClaimDo DEF InstallPending, TypeOK, CallType
  <2>3. reserved' = reserved \ {id[o]}
    BY DEF InstallPending, ReleaseReserved
  <2> QED
    BY <2>1, <2>2, <2>3, ClaimsKept, ClaimDropped, ProcsMembers, ClaimedIDs
       DEF IDInv, IDsExclusive
<1>6. ASSUME NEW o \in Ops, TakeToken(o) PROVE (err = {} => Claimed)'
  <2> USE <1>6
  <2> SUFFICES ASSUME err = {} PROVE Claimed'
    BY DEF TakeToken, connVars
  <2>1. Claim(Do(o))' = Claim(Do(o)) /\ UNCHANGED reserved
    BY ClaimDo DEF TakeToken, AfterWriteError, TypeOK, CallType, idVars
  <2>2. \A q \in Procs \ {Do(o)} : Claim(q)' = Claim(q)
    BY OtherThanDo
       DEF TakeToken, AfterWriteError, TypeOK, CallType, abandVars, closeVars,
           idVars
  <2> QED
    BY <2>1, <2>2, ClaimsKept DEF IDInv, IDsExclusive
<1>7. ASSUME NEW o \in Ops, StartWrite(o) PROVE (err = {} => Claimed)'
  <2> USE <1>7
  <2> SUFFICES ASSUME err = {} PROVE Claimed'
    BY DEF StartWrite, connVars
  <2>1. Claim(Do(o))' = Claim(Do(o)) /\ UNCHANGED reserved
    BY ClaimDo DEF StartWrite, TypeOK, CallType, idVars
  <2>2. \A q \in Procs \ {Do(o)} : Claim(q)' = Claim(q)
    BY OtherThanDo
       DEF StartWrite, TypeOK, CallType, abandVars, closeVars, idVars
  <2> QED
    BY <2>1, <2>2, ClaimsKept DEF IDInv, IDsExclusive
<1>8. ASSUME NEW o \in Ops, WriteDone(o) PROVE (err = {} => Claimed)'
  <2> USE <1>8
  <2> SUFFICES ASSUME err = {} PROVE Claimed'
    BY DEF WriteDone, connVars
  <2>1. Claim(Do(o))' = Claim(Do(o)) /\ UNCHANGED reserved
    BY ClaimDo DEF WriteDone, AfterWriteError, TypeOK, CallType, idVars
  <2>2. \A q \in Procs \ {Do(o)} : Claim(q)' = Claim(q)
    BY OtherThanDo
       DEF WriteDone, AfterWriteError, TypeOK, CallType, abandVars, closeVars,
           idVars
  <2> QED
    BY <2>1, <2>2, ClaimsKept DEF IDInv, IDsExclusive
<1>9. ASSUME NEW o \in Ops, RemoveDefinitelyUnsent(o)
       PROVE (err = {} => Claimed)'
  <2> USE <1>9
  <2> SUFFICES ASSUME err = {} PROVE Claimed'
    BY DEF RemoveDefinitelyUnsent, connVars
  <2>1. Claim(Do(o))' = Claim(Do(o)) /\ UNCHANGED reserved
    BY ClaimDo DEF RemoveDefinitelyUnsent, TypeOK, CallType, idVars
  <2>2. \A q \in Procs \ {Do(o)} : Claim(q)' = Claim(q)
    BY OtherThanDo
       DEF RemoveDefinitelyUnsent, TypeOK, CallType, abandVars, closeVars,
           idVars
  <2> QED
    BY <2>1, <2>2, ClaimsKept DEF IDInv, IDsExclusive
<1>10. ASSUME NEW o \in Ops, ObserveWrite(o) PROVE (err = {} => Claimed)'
  <2> USE <1>10
  <2> SUFFICES ASSUME err = {} PROVE Claimed'
    BY DEF ObserveWrite, connVars
  <2>1. Claim(Do(o))' = Claim(Do(o)) /\ UNCHANGED reserved
    BY ClaimDo DEF ObserveWrite, TypeOK, CallType, idVars
  <2>2. \A q \in Procs \ {Do(o)} : Claim(q)' = Claim(q)
    BY OtherThanDo
       DEF ObserveWrite, TypeOK, CallType, abandVars, closeVars, idVars
  <2> QED
    BY <2>1, <2>2, ClaimsKept DEF IDInv, IDsExclusive
<1>11. ASSUME NEW o \in Ops, CompleteNoResponse(o) PROVE (err = {} => Claimed)'
  <2> USE <1>11
  <2> SUFFICES ASSUME err = {} PROVE Claimed'
    BY DEF CompleteNoResponse, connVars
  <2>1. Claim(Do(o))' = Claim(Do(o)) /\ UNCHANGED reserved
    BY ClaimDo DEF CompleteNoResponse, TypeOK, CallType, idVars
  <2>2. \A q \in Procs \ {Do(o)} : Claim(q)' = Claim(q)
    BY OtherThanDo
       DEF CompleteNoResponse, TypeOK, CallType, abandVars, closeVars, idVars
  <2> QED
    BY <2>1, <2>2, ClaimsKept DEF IDInv, IDsExclusive
<1>12. ASSUME NEW o \in Ops, NextCall(o) PROVE (err = {} => Claimed)'
  <2> USE <1>12
  <2> SUFFICES ASSUME err = {} PROVE Claimed'
    BY DEF NextCall, connVars, streamFrame, callVars
  <2>1. Claim(Abandon(o))' = Claim(Abandon(o)) /\ UNCHANGED reserved
    BY ClaimAbandon, CancelClaims
       DEF NextCall, streamFrame, TypeOK, AbandonType, idVars
  <2>2. \A q \in Procs \ {Abandon(o)} : Claim(q)' = Claim(q)
    BY OtherThanAbandon, CancelClaims
       DEF NextCall, streamFrame, TypeOK, AbandonType, callVars, closeVars
  <2> QED
    BY <2>1, <2>2, ClaimsKept DEF IDInv, IDsExclusive
<1>13. ASSUME NEW o \in Ops, NextWake(o) PROVE (err = {} => Claimed)'
  <2> USE <1>13
  <2> SUFFICES ASSUME err = {} PROVE Claimed'
    BY DEF NextWake, connVars, streamFrame, callVars
  <2>1. Claim(Abandon(o))' = Claim(Abandon(o)) /\ UNCHANGED reserved
    BY ClaimAbandon, CancelClaims
       DEF NextWake, streamFrame, TypeOK, AbandonType, idVars
  <2>2. \A q \in Procs \ {Abandon(o)} : Claim(q)' = Claim(q)
    BY OtherThanAbandon, CancelClaims
       DEF NextWake, streamFrame, TypeOK, AbandonType, callVars, closeVars
  <2> QED
    BY <2>1, <2>2, ClaimsKept DEF IDInv, IDsExclusive
<1>14. ASSUME NEW o \in Ops, CloseStream(o) PROVE (err = {} => Claimed)'
  <2> USE <1>14
  <2> SUFFICES ASSUME err = {} PROVE Claimed'
    BY DEF CloseStream, connVars, streamFrame, callVars
  <2>1. Claim(Abandon(o))' = Claim(Abandon(o)) /\ UNCHANGED reserved
    BY ClaimAbandon, CancelClaims
       DEF CloseStream, streamFrame, TypeOK, AbandonType, idVars
  <2>2. \A q \in Procs \ {Abandon(o)} : Claim(q)' = Claim(q)
    BY OtherThanAbandon, CancelClaims
       DEF CloseStream, streamFrame, TypeOK, AbandonType, callVars, closeVars
  <2> QED
    BY <2>1, <2>2, ClaimsKept DEF IDInv, IDsExclusive
<1>15. ASSUME NEW o \in Ops, WatchOperation(o) PROVE (err = {} => Claimed)'
  <2> USE <1>15
  <2> SUFFICES ASSUME err = {} PROVE Claimed'
    BY DEF WatchOperation, connVars, streamFrame, callVars
  <2>1. Claim(Abandon(o))' = Claim(Abandon(o)) /\ UNCHANGED reserved
    BY ClaimAbandon, CancelClaims
       DEF WatchOperation, streamFrame, TypeOK, AbandonType, idVars
  <2>2. \A q \in Procs \ {Abandon(o)} : Claim(q)' = Claim(q)
    BY OtherThanAbandon, CancelClaims
       DEF WatchOperation, streamFrame, TypeOK, AbandonType, callVars, closeVars
  <2> QED
    BY <2>1, <2>2, ClaimsKept DEF IDInv, IDsExclusive
<1>16. ASSUME NEW o \in Ops, AbandonReserve(o) PROVE (err = {} => Claimed)'
  <2> USE <1>16
  <2> SUFFICES ASSUME err = {} PROVE Claimed'
    BY DEF AbandonReserve, connVars
  <2>1. \A q \in Procs \ {Abandon(o)} : Claim(q)' = Claim(q)
    BY OtherThanAbandon
       DEF AbandonReserve, TypeOK, AbandonType, callVars, closeVars
  <2>2. Claim(Abandon(o)) = 0
    BY ClaimAbandon DEF AbandonReserve
  <2>3. CASE \E i \in IDs : TryReserve(i) /\ aid' = [aid EXCEPT ![o] = i]
                          /\ apc' = [apc EXCEPT ![o] = "queued"]
    <3>1. PICK i \in IDs : TryReserve(i) /\ aid' = [aid EXCEPT ![o] = i]
                            /\ apc' = [apc EXCEPT ![o] = "queued"]
      BY <2>3
    <3>2. Claim(Abandon(o))' = i
      BY <3>1, ClaimAbandon DEF TypeOK, AbandonType
    <3> QED
      BY <2>1, <2>2, <3>1, <3>2, TryReserveFresh, ClaimAdded, ProcsMembers
         DEF IDInv, IDsExclusive
  <2>4. UNCHANGED reserved /\ apc'[o] \in {"done", "retire"} => Claimed'
    BY <2>1, <2>2, ClaimAbandon, ClaimsKept DEF IDInv, IDsExclusive
  <2> QED
    BY <2>3, <2>4 DEF AbandonReserve, TypeOK, AbandonType
<1>17. ASSUME NEW o \in Ops, AbandonTakeToken(o) PROVE (err = {} => Claimed)'
  <2> USE <1>17
  <2> SUFFICES ASSUME err = {} PROVE Claimed'
    BY DEF AbandonTakeToken, connVars
  <2>1. \A q \in Procs \ {Abandon(o)} : Claim(q)' = Claim(q)
    BY OtherThanAbandon
       DEF AbandonTakeToken, AbandonFails, TypeOK, AbandonType, callVars,
           closeVars
  <2>2. Claim(Abandon(o)) = aid[o]
    BY ClaimAbandon DEF AbandonTakeToken
  <2>3. CASE UNCHANGED reserved /\ apc' = [apc EXCEPT ![o] = "recheck"]
    <3> USE <2>3
    <3>1. Claim(Abandon(o))' = aid[o]
      BY ClaimAbandon DEF AbandonTakeToken, TypeOK, AbandonType
    <3> QED
      BY <2>1, <2>2, <3>1, ClaimsKept DEF IDInv, IDsExclusive
  <2>4. CASE reserved' = reserved \ {aid[o]} /\ apc'[o] \in {"done", "retire"}
    <3> USE <2>4
    <3>1. Claim(Abandon(o))' = 0
      BY ClaimAbandon
    <3> QED
      BY <2>1, <2>2, <3>1, ClaimsKept, ClaimDropped, ProcsMembers, ClaimedIDs
         DEF IDInv, IDsExclusive
  <2> QED
    BY <2>3, <2>4
       DEF AbandonTakeToken, AbandonFails, ReleaseReserved, TypeOK, AbandonType
<1>18. ASSUME NEW o \in Ops, AbandonTombstone(o) PROVE (err = {} => Claimed)'
  <2> SUFFICES ASSUME err = {} PROVE Claimed'
    BY <1>18 DEF AbandonTombstone, connVars
  <2>1. \A q \in Procs \ {Abandon(o)} : Claim(q)' = Claim(q)
    BY <1>18, OtherThanAbandon
       DEF AbandonTombstone, TypeOK, AbandonType, callVars, closeVars
  <2>2. Claim(Abandon(o)) = aid[o]
    BY <1>18, ClaimAbandon DEF AbandonTombstone
  <2>3. CASE UNCHANGED reserved /\ apc' = [apc EXCEPT ![o] = "writing"]
    <3> USE <2>3
    <3>1. Claim(Abandon(o))' = aid[o]
      BY <1>18, ClaimAbandon DEF AbandonTombstone, TypeOK, AbandonType
    <3> QED
      BY <2>1, <2>2, <3>1, ClaimsKept DEF IDInv, IDsExclusive
  <2>4. CASE reserved' = reserved \ {aid[o]} /\ apc'[o] \in {"done", "retire"}
    <3> USE <2>4
    <3>1. Claim(Abandon(o))' = 0
      BY ClaimAbandon
    <3> QED
      BY <2>1, <2>2, <3>1, ClaimsKept, ClaimDropped, ProcsMembers, ClaimedIDs DEF IDInv, IDsExclusive
  <2> QED
    BY <1>18, <2>3, <2>4
       DEF AbandonTombstone, ReleaseReserved, TypeOK, AbandonType
<1>19. ASSUME NEW o \in Ops, AbandonWritten(o) PROVE (err = {} => Claimed)'
  <2> USE <1>19
  <2> SUFFICES ASSUME err = {} PROVE Claimed'
    BY DEF AbandonWritten, connVars
  <2>1. \A q \in Procs \ {Abandon(o)} : Claim(q)' = Claim(q)
    BY OtherThanAbandon
       DEF AbandonWritten, TypeOK, AbandonType, callVars, closeVars
  <2>2. Claim(Abandon(o)) = aid[o] /\ Claim(Abandon(o))' = 0
    BY ClaimAbandon DEF AbandonWritten, TypeOK, AbandonType
  <2>3. reserved' = reserved \ {aid[o]}
    BY DEF AbandonWritten, ReleaseReserved
  <2> QED
    BY <2>1, <2>2, <2>3, ClaimsKept, ClaimDropped, ProcsMembers, ClaimedIDs
       DEF IDInv, IDsExclusive
<1>20. ASSUME NEW c \in Closers, CloseBegin(c) PROVE (err = {} => Claimed)'
  <2> USE <1>20
  <2> SUFFICES ASSUME err = {} PROVE Claimed'
    BY DEF CloseBegin, connVars
  <2>1. Claim(Close(c))' = Claim(Close(c)) /\ UNCHANGED reserved
    BY ClaimClose DEF CloseBegin, TypeOK, CloseType, idVars
  <2>2. \A q \in Procs \ {Close(c)} : Claim(q)' = Claim(q)
    BY OtherThanClose
       DEF CloseBegin, TypeOK, CloseType, callVars, abandVars, idVars
  <2> QED
    BY <2>1, <2>2, ClaimsKept DEF IDInv, IDsExclusive
<1>21. ASSUME NEW c \in Closers, CloseAwait(c) PROVE (err = {} => Claimed)'
  <2> USE <1>21
  <2> SUFFICES ASSUME err = {} PROVE Claimed'
    BY DEF CloseAwait, connVars
  <2>1. Claim(Close(c))' = Claim(Close(c)) /\ UNCHANGED reserved
    BY ClaimClose DEF CloseAwait, TypeOK, CloseType, idVars
  <2>2. \A q \in Procs \ {Close(c)} : Claim(q)' = Claim(q)
    BY OtherThanClose
       DEF CloseAwait, TypeOK, CloseType, callVars, abandVars, idVars
  <2> QED
    BY <2>1, <2>2, ClaimsKept DEF IDInv, IDsExclusive
<1>22. ASSUME NEW c \in Closers, CloseAcquire(c) PROVE (err = {} => Claimed)'
  <2> USE <1>22
  <2> SUFFICES ASSUME err = {} PROVE Claimed'
    BY DEF CloseAcquire, connVars
  <2>1. \A q \in Procs \ {Close(c)} : Claim(q)' = Claim(q)
    BY OtherThanClose
       DEF CloseAcquire, TypeOK, CloseType, callVars, abandVars
  <2>2. Claim(Close(c)) = 0
    BY ClaimClose DEF CloseAcquire
  <2>3. CASE \E i \in IDs : TryReserve(i) /\ cid' = [cid EXCEPT ![c] = i]
                          /\ cpc' = [cpc EXCEPT ![c] = "writing"]
    <3>1. PICK i \in IDs : TryReserve(i) /\ cid' = [cid EXCEPT ![c] = i]
                            /\ cpc' = [cpc EXCEPT ![c] = "writing"]
      BY <2>3
    <3>2. Claim(Close(c))' = i
      BY <3>1, ClaimClose DEF TypeOK, CloseType
    <3> QED
      BY <2>1, <2>2, <3>1, <3>2, TryReserveFresh, ClaimAdded, ProcsMembers
         DEF IDInv, IDsExclusive
  <2>4. UNCHANGED reserved /\ cpc'[c] = "finish" => Claimed'
    BY <2>1, <2>2, ClaimClose, ClaimsKept DEF IDInv, IDsExclusive
  <2> QED
    BY <2>3, <2>4 DEF CloseAcquire, TypeOK, CloseType
<1>23. ASSUME NEW c \in Closers, CloseWritten(c) PROVE (err = {} => Claimed)'
  <2> USE <1>23
  <2> SUFFICES ASSUME err = {} PROVE Claimed'
    BY DEF CloseWritten, connVars
  <2>1. \A q \in Procs \ {Close(c)} : Claim(q)' = Claim(q)
    BY OtherThanClose DEF CloseWritten, TypeOK, CloseType, callVars, abandVars
  <2>2. Claim(Close(c)) = cid[c] /\ Claim(Close(c))' = 0
    BY ClaimClose DEF CloseWritten, TypeOK, CloseType
  <2>3. reserved' = reserved \ {cid[c]}
    BY DEF CloseWritten, ReleaseReserved
  <2> QED
    BY <2>1, <2>2, <2>3, ClaimsKept, ClaimDropped, ProcsMembers, ClaimedIDs
       DEF IDInv, IDsExclusive
<1>24. ASSUME Route PROVE (err = {} => Claimed)'
  <2> USE <1>24
  <2> SUFFICES ASSUME err = {} PROVE Claimed'
    BY DEF Route, readerFrame, connVars
  <2>1. \A x \in Ops : \/ apc'[x] = apc[x]
                       \/ apc[x] = "none" /\ apc'[x] = "spawned"
    <3> DEFINE o == pending[reader.msg.id]
    <3>1. o \in Ops
      BY DEF Route, TypeOK, IDType
    <3>2. \/ apc' = apc
          \/ ~op[o].canceled /\ apc' = [apc EXCEPT ![o] = "spawned"]
      BY DEF Route
    <3> HIDE DEF o
    <3>3. ~op[o].canceled => apc[o] = "none"
      BY <3>1 DEF IDInv, AbandonedOnce
    <3>4. \/ apc' = apc
          \/ apc[o] = "none" /\ apc' = [apc EXCEPT ![o] = "spawned"]
      BY <3>2, <3>3
    <3> QED
      BY <3>1, <3>4 DEF TypeOK, AbandonType
  <2>2. UNCHANGED <<pc, id, aid, cpc, cid, reserved>>
    BY DEF Route, readerFrame, callVars, closeVars
  <2> USE <2>2
  <2>3. \A x \in Ops : Claim(Abandon(x))' = Claim(Abandon(x))
    BY <2>1, ClaimAbandon
  <2>4. \A p \in Procs : Claim(p)' = Claim(p)
    BY <2>3, ProcsCases, ClaimDo, ClaimClose, ZenonT(60)
  <2> QED
    BY <2>4, ClaimsKept DEF IDInv, IDsExclusive
<1>25. ASSUME AsyncRetire PROVE (err = {} => Claimed)'
  BY <1>25, RetireEnds
     DEF AsyncRetire, RetireHasCause, IDInv, IDsExclusive, connVars, idVars,
         callVars, abandVars, closeVars
<1>26. WriteRetire => ((err = {} => Claimed)')
  BY RetireEnds
     DEF WriteRetire, RetireHasCause, IDInv, IDsExclusive, connVars, idVars,
         callVars, abandVars, closeVars
<1>27. \A o \in Ops : AbandonRetire(o) => ((err = {} => Claimed)')
  BY RetireEnds
     DEF AbandonRetire, RetireHasCause, IDInv, IDsExclusive, connVars, idVars,
         callVars, abandVars, closeVars
<1>28. \A c \in Closers : CloseFinish(c) => ((err = {} => Claimed)')
  BY RetireEnds, ErrorsNonEmpty
     DEF CloseFinish, IDInv, IDsExclusive, connVars, idVars, callVars,
         abandVars, closeVars
<1>29. ReaderRetire => ((err = {} => Claimed)')
  BY RetireEnds
     DEF ReaderRetire, RetireHasCause, IDInv, IDsExclusive, connVars, idVars,
         callVars, abandVars, closeVars
<1>30. CASE \E o \in Ops : DoStep(o)
  BY <1>30, <1>2, <1>3, <1>4, <1>5, <1>6, <1>7, <1>8, <1>9, <1>10, <1>11
     DEF DoStep
<1>31. CASE \E o \in Ops : StreamStep(o)
  BY <1>31, <1>1, <1>12, <1>13, <1>14
     DEF StreamStep, NextLoop, streamFrame, connVars, idVars, callVars,
         abandVars, closeVars
<1>32. CASE \E o \in Ops : AbandonStep(o)
  BY <1>32, <1>16, <1>17, <1>18, <1>19, <1>27 DEF AbandonStep
<1>33. CASE \E c \in Closers : CloseStep(c)
  BY <1>33, <1>20, <1>21, <1>22, <1>23, <1>28 DEF CloseStep
<1>34. CASE WriteStep
  BY <1>34, <1>1, <1>26
     DEF WriteStep, WriteCheck, CancelWins, WriteReturn, connVars, idVars,
         callVars, abandVars, closeVars
<1>35. CASE Flow
  BY <1>35, <1>1 DEF Flow, connVars, idVars, callVars, abandVars, closeVars
<1>36. CASE ReaderStep
  BY <1>36, <1>1, <1>24, <1>29
     DEF ReaderStep, ReadFrame, ReadError, RouteUnsolicited, RouteUnowned,
         RouteWait, RouteAgain, readerFrame, connVars, idVars, callVars,
         abandVars, closeVars
<1>37. CASE \E u \in Listeners : NextUnsolicited(u)
  BY <1>37, <1>1
     DEF NextUnsolicited, connVars, idVars, callVars, abandVars, closeVars
<1>38. CASE \E p \in Procs : ContextDone(p)
  BY <1>38, <1>1
     DEF ContextDone, connVars, idVars, callVars, abandVars, closeVars
<1>39. CASE PeerStep
  BY <1>39, <1>1
     DEF PeerStep, PeerReplies, PeerStrays, LinkFault, peerFrame, connVars,
         idVars, callVars, abandVars, closeVars
<1> QED
  BY <1>30, <1>31, <1>15, <1>32, <1>33, <1>34, <1>35, <1>36, <1>25, <1>37,
      <1>38, <1>39, ZenonT(60) DEF Next

-----------------------------------------------------------------------------
(***************************************************************************)
(* The theorems.                                                           *)
(***************************************************************************)
\* Every step keeps the invariant behind the three theorems.
LEMMA IDInvStep == TypeOK /\ IDInv /\ [Next]_vars => IDInv'
<1> USE Zenon
<1> SUFFICES ASSUME TypeOK, IDInv, [Next]_vars PROVE IDInv'
  OBVIOUS
<1>1. Next => IDInv'
  BY RetireHasCauseStep, AbandonedOnceStep, PendingFiledStep, DisjointStep,
     ClaimedStep DEF IDInv, IDsExclusive
<1>2. UNCHANGED vars => IDInv'
  BY IDInvStutter
<1> QED
  BY <1>1, <1>2

\* However many operations share a connection and however small its ID space,
\* no message ID is ever in two of the tables reserved, pending and
\* tombstones, and while the connection lives each reservation belongs to
\* exactly one goroutine (tryReserveMessageIDLocked, releaseReserved,
\* installPending, sendAbandon, CloseContext).
THEOREM IDsExclusiveAlways == Spec => []IDsExclusive
<1> USE Zenon
<1>1. Init => TypeOK /\ IDInv
  BY InitType, IDInvInit
<1>2. TypeOK /\ IDInv /\ [Next]_vars => (TypeOK /\ IDInv)'
  BY TypeStep, IDInvStep
<1>3. IDInv => IDsExclusive
  BY DEF IDInv
<1> QED
  BY <1>1, <1>2, <1>3, PTL DEF Spec

\* An operation is abandoned by at most one sendAbandon goroutine, and only
\* after it was canceled (cancelOperation, route).
THEOREM AbandonedOnceAlways == Spec => []AbandonedOnce
<1> USE Zenon
<1>1. Init => TypeOK /\ IDInv
  BY InitType, IDInvInit
<1>2. TypeOK /\ IDInv /\ [Next]_vars => (TypeOK /\ IDInv)'
  BY TypeStep, IDInvStep
<1>3. IDInv => AbandonedOnce
  BY DEF IDInv
<1> QED
  BY <1>1, <1>2, <1>3, PTL DEF Spec

\* No goroutine ever calls retire without an error, so the done channel of a
\* connection and its Err change together (retire, classifyReadError,
\* writeAll, sendAbandon).
THEOREM RetireHasCauseAlways == Spec => []RetireHasCause
<1> USE Zenon
<1>1. Init => TypeOK /\ IDInv
  BY InitType, IDInvInit
<1>2. TypeOK /\ IDInv /\ [Next]_vars => (TypeOK /\ IDInv)'
  BY TypeStep, IDInvStep
<1>3. IDInv => RetireHasCause
  BY DEF IDInv
<1> QED
  BY <1>1, <1>2, <1>3, PTL DEF Spec

-----------------------------------------------------------------------------
(***************************************************************************)
(* The record of an operation.                                             *)
(***************************************************************************)
\* How a record may go from p to q while its operation stays pending, or while
\* it is not pending at all: nothing is undone, what the consumer will find is
\* announced, and delivery ends with a reason of our own.
Advances(p, q) ==
    /\ p.ended => q.ended
    /\ q.terminal = p.terminal
    /\ p.writeStarted => q.writeStarted
    /\ q.deliveryErr \in {p.deliveryErr, CtxErr, ErrClosed, {"limit"}}
    /\ \/ q.ready
       \/ q.ready = p.ready /\ q.queue = p.queue /\ q.deliveryErr = p.deliveryErr

\* How it may go when it leaves the table.
Leaves(o, p, q) ==
    /\ q.ended /\ q.ready
    /\ p.terminal => q.terminal
    /\ q.writeStarted = p.writeStarted
    /\ \/ q.deliveryErr \in {p.deliveryErr, {"limit"}}
       \/ err = {} /\ err' # {} /\ q.deliveryErr = RetirementError(o, err')

\* What a step does to the record of o and to its place in the table.
RecordMoves(o) ==
    \/ (Live(o)' <=> Live(o)) /\ op'[o] = op[o]
    \/ /\ (Live(o)' <=> Live(o)) /\ ~op[o].terminal
       /\ Advances(op[o], op'[o])
    \/ /\ (Live(o)' <=> Live(o)) /\ cons[o] = "loop" /\ cons'[o] = "idle"
       /\ op'[o] = Taken(op[o]) /\ got'[o] = got[o] + 1
    \/ /\ (Live(o)' <=> Live(o)) /\ cons[o] = "wait" /\ cons'[o] = "loop"
       /\ op'[o] = [op[o] EXCEPT !.ready = FALSE]
    \/ /\ pc[o] = "starting" /\ pc'[o] = "writing" /\ (Live(o)' <=> Live(o))
       /\ op'[o] = IF Live(o) THEN [op[o] EXCEPT !.writeStarted = TRUE] ELSE op[o]
    \/ /\ pc[o] = "written" /\ pc'[o] # "written" /\ (Live(o)' <=> Live(o))
       /\ op'[o] = [op[o] EXCEPT !.observed = TRUE]
    \/ /\ pc[o] = "reserved" /\ pc'[o] = "queued" /\ Live(o)' /\ err = {}
       /\ op'[o] = op[o]
    \/ Live(o) /\ ~Live(o)' /\ Leaves(o, op[o], op'[o])

\* cancelOperation on a result that is not owned yet.
LEMMA CanceledAdvances ==
    ASSUME TypeOK, NEW o \in Ops, NEW e \in {CtxErr, ErrClosed}
    PROVE  Advances(op[o], Canceled(o, e))
<1> USE Zenon
<1> DEFINE b == op[o].abandoning \/ CancelActs(o, "abandon")
           p == [op[o] EXCEPT !.abandoning = b]
<1>1. op[o] \in Operation
  BY DEF TypeOK
<1>2. Canceled(o, e) = IF p.deliveryErr # {} THEN p ELSE Cleared(p, e)
  BY DEF Canceled
<1> HIDE DEF b
<1>3. /\ p.deliveryErr = op[o].deliveryErr /\ p.terminal = op[o].terminal
      /\ p.ended = op[o].ended /\ p.writeStarted = op[o].writeStarted
      /\ p.ready = op[o].ready /\ p.queue = op[o].queue
  BY <1>1 DEF Operation
<1>4. LET c == Cleared(p, e) IN
      /\ c.deliveryErr = e /\ c.terminal = p.terminal /\ c.ended = p.ended
      /\ c.writeStarted = p.writeStarted /\ c.ready
  BY <1>1 DEF Operation, Cleared
<1> HIDE DEF p
<1> QED
  BY <1>2, <1>3, <1>4 DEF Advances

\* route, on the record of the operation that has the response's ID.
LEMMA AcceptedAdvances ==
    ASSUME TypeOK, NEW o \in Ops, NEW m \in Message, NEW last \in BOOLEAN
    PROVE  LET a == Accepted(o, m, last) IN
           /\ a.ready /\ a.writeStarted = op[o].writeStarted
           /\ a.deliveryErr \in {op[o].deliveryErr, {"limit"}}
           /\ op[o].ended \/ last => a.ended
           /\ op[o].terminal \/ last => a.terminal
           /\ ~last => a.terminal = op[o].terminal
<1> USE Zenon
<1> DEFINE t == op[o].terminal \/ last
           f == op[o].ended \/ last
           p == [op[o] EXCEPT !.ready = TRUE, !.terminal = t, !.ended = f]
           b == p.abandoning \/ (~last /\ Mode[o] = "abandon")
           r == [p EXCEPT !.abandoning = b]
           n == [p EXCEPT !.queue = Append(@, m), !.bytes = @ + m.size]
<1>1. op[o] \in Operation
  BY DEF TypeOK
<1> USE <1>1
<1>2. Accepted(o, m, last) \in {p, n, Cleared(r, {"limit"})}
  <2>1. Overflows(o, m) \in BOOLEAN /\ p.canceled \in BOOLEAN
    BY DEF Overflows, Operation
  <2> QED
    BY <2>1 DEF Accepted
<1>3. ~last => t = op[o].terminal
  BY DEF Operation
<1>4. (op[o].terminal \/ last => t) /\ (op[o].ended \/ last => f)
  OBVIOUS
<1> HIDE DEF t, f, b
<1>5. /\ p.ready /\ p.terminal = t /\ p.ended = f
      /\ p.deliveryErr = op[o].deliveryErr /\ p.writeStarted = op[o].writeStarted
  BY DEF Operation
<1>6. /\ n.ready /\ n.terminal = t /\ n.ended = f
      /\ n.deliveryErr = op[o].deliveryErr /\ n.writeStarted = op[o].writeStarted
  BY DEF Operation
<1>7. LET c == Cleared(r, {"limit"}) IN
      /\ c.ready /\ c.terminal = t /\ c.ended = f
      /\ c.deliveryErr = {"limit"} /\ c.writeStarted = op[o].writeStarted
  BY DEF Operation, Cleared
<1> HIDE DEF p, n, r
<1> QED
  BY <1>2, <1>3, <1>4, <1>5, <1>6, <1>7

\* retire, on the record of a pending operation.
LEMMA RetiredLeaves ==
    ASSUME TypeOK, NEW o \in Ops, NEW e
    PROVE  LET r == Retired(o, e) IN
           /\ r.ended /\ r.ready /\ r.terminal
           /\ r.writeStarted = op[o].writeStarted
           /\ r.deliveryErr \in {op[o].deliveryErr, RetirementError(o, e)}
<1> USE Zenon
<1>1. op[o] \in Operation
  BY DEF TypeOK
<1> DEFINE d == IF op[o].deliveryErr = {} THEN RetirementError(o, e)
                                          ELSE op[o].deliveryErr
<1>2. Retired(o, e) = [op[o] EXCEPT !.deliveryErr = d, !.terminal = TRUE,
                                    !.ended = TRUE, !.ready = TRUE]
  BY <1>1 DEF Retired, Operation
<1>3. d \in {op[o].deliveryErr, RetirementError(o, e)}
  OBVIOUS
<1> HIDE DEF d
<1> QED
  BY <1>1, <1>2, <1>3 DEF Operation

RecordsMove == \A o \in Ops : RecordMoves(o)

\* A step that leaves the records and the table alone moves nothing.
LEMMA RecordsKept ==
    ASSUME UNCHANGED <<op, pending>>
    PROVE  RecordsMove
BY Zenon DEF RecordsMove, RecordMoves, Live

\* A step that writes one record and leaves the table alone.
LEMMA OneRecord ==
    ASSUME TypeOK, NEW o \in Ops, NEW q, op' = [op EXCEPT ![o] = q],
           UNCHANGED pending, op'[o] = q => RecordMoves(o)
    PROVE  RecordsMove
<1> USE Zenon
<1>1. op'[o] = q /\ \A x \in Ops \ {o} : op'[x] = op[x]
  BY DEF TypeOK
<1>2. \A x : Live(x)' <=> Live(x)
  BY DEF Live
<1> QED
  BY <1>1, <1>2 DEF RecordsMove, RecordMoves

\* cancelOperation.
LEMMA CancelMoves ==
    ASSUME TypeOK, NEW o \in Ops, NEW e \in {CtxErr, ErrClosed},
           CancelOperation(o, e), UNCHANGED pending
    PROVE  RecordsMove
<1> USE Zenon
<1>1. Owned(o) => RecordsMove
  BY RecordsKept DEF CancelOperation
<1>2. CASE ~Owned(o)
  <2>1. op' = [op EXCEPT ![o] = Canceled(o, e)] /\ ~op[o].terminal
    BY <1>2 DEF CancelOperation, Owned
  <2>2. Live(o)' <=> Live(o)
    BY DEF Live
  <2>3. op'[o] = Canceled(o, e) => RecordMoves(o)
    BY <2>1, <2>2, CanceledAdvances DEF RecordMoves
  <2> QED
    BY <2>1, <2>3, OneRecord
<1> QED
  BY <1>1, <1>2

\* The operation leaves the table, everyone else stays.
LEMMA WithoutLive ==
    ASSUME TypeOK, NEW o \in Ops, pending' = Without(o)
    PROVE  ~Live(o)' /\ \A x \in Ops \ {o} : Live(x)' <=> Live(x)
<1> USE Zenon
<1>1. \A i \in IDs : pending'[i] = IF pending[i] = o THEN None ELSE pending[i]
  BY DEF Without
<1>2. None \notin Ops
  BY ConnAssumption
<1> QED
  BY <1>1, <1>2 DEF Live

\* A pending record leaves the table.
LEMMA OneLeaves ==
    ASSUME TypeOK, NEW o \in Ops, NEW q, Live(o), pending' = Without(o),
           op' = [op EXCEPT ![o] = q], Leaves(o, op[o], q)
    PROVE  RecordsMove
<1> USE Zenon
<1>1. op'[o] = q /\ \A x \in Ops \ {o} : op'[x] = op[x]
  BY DEF TypeOK
<1> QED
  BY <1>1, WithoutLive DEF RecordsMove, RecordMoves

\* removeDefinitelyUnsent and completeNoResponse.
LEMMA CompleteMoves ==
    ASSUME TypeOK, NEW o \in Ops, Complete(o)
    PROVE  RecordsMove
<1> USE Zenon
<1> DEFINE q == [op[o] EXCEPT !.terminal = TRUE, !.ended = TRUE, !.ready = TRUE]
<1>1. ~Live(o) => RecordsMove
  BY RecordsKept DEF Complete
<1>2. CASE Live(o)
  <2> USE <1>2
  <2>1. pending' = Without(o) /\ op' = [op EXCEPT ![o] = q]
    BY DEF Complete
  <2>2. Leaves(o, op[o], q)
    BY DEF TypeOK, Operation, Leaves
  <2> HIDE DEF q
  <2> QED
    BY <2>1, <2>2, OneLeaves
<1> QED
  BY <1>1, <1>2

\* retire.
LEMMA RetireMoves ==
    ASSUME TypeOK, NEW e, e # {}, Retire(e)
    PROVE  RecordsMove
<1> USE Zenon
<1>1. err # {} => RecordsMove
  BY RecordsKept DEF Retire, retireVars
<1>2. CASE err = {}
  <2>1. /\ op' = [o \in Ops |-> IF Live(o) THEN Retired(o, err') ELSE op[o]]
        /\ pending' = [i \in IDs |-> None]
    BY <1>2 DEF Retire
  <2>2. err' # {}
    BY RetireEnds
  <2>3. ASSUME NEW o \in Ops PROVE RecordMoves(o)
    <3>1. ~Live(o)'
      BY <2>1, ConnAssumption DEF Live
    <3>2. op'[o] = IF Live(o) THEN Retired(o, err') ELSE op[o]
      BY <2>1
    <3>3. CASE Live(o)
      <4>1. Leaves(o, op[o], Retired(o, err'))
        BY <1>2, <2>2, RetiredLeaves DEF Leaves
      <4> QED
        BY <3>1, <3>2, <3>3, <4>1 DEF RecordMoves
    <3>4. ~Live(o) => RecordMoves(o)
      BY <3>1, <3>2 DEF RecordMoves
    <3> QED
      BY <3>3, <3>4
  <2> QED
    BY <2>3 DEF RecordsMove
<1> QED
  BY <1>1, <1>2

\* Every step moves the records as described.
LEMMA RecordsStep ==
    ASSUME TypeOK, IDInv, RecordInv, Next
    PROVE  RecordsMove
<1> USE Zenon
<1>1. UNCHANGED <<op, pending>> => RecordsMove
  BY RecordsKept
<1>2. ASSUME NEW o \in Ops, InstallPending(o) PROVE RecordsMove
  <2>1. /\ pc[o] = "reserved" /\ err = {} /\ UNCHANGED op
        /\ pending' = [pending EXCEPT ![id[o]] = o]
        /\ pc' = [pc EXCEPT ![o] = "queued"] /\ id[o] \in reserved
    <3>1. Refusal(o) = {} => err = {}
      BY DEF Refusal
    <3> QED
      BY <1>2, <3>1 DEF InstallPending
  <2> USE <2>1
  <2>2. id[o] \in IDs /\ pending[id[o]] = None
    BY DEF TypeOK, IDType, IDInv, IDsExclusive, Disjoint
  <2>3. Live(o)' /\ pc'[o] = "queued"
    BY <2>2 DEF Live, TypeOK, IDType, CallType
  <2>4. \A x \in Ops \ {o} : Live(x)' <=> Live(x)
    <3>1. \A i \in IDs : pending'[i] = IF i = id[o] THEN o ELSE pending[i]
      BY DEF TypeOK, IDType
    <3> QED
      BY <2>2, <3>1, ConnAssumption DEF Live
  <2> QED
    BY <2>3, <2>4 DEF RecordsMove, RecordMoves
<1>3. ASSUME NEW o \in Ops, StartWrite(o) PROVE RecordsMove
  <2>1. /\ pc[o] = "starting" /\ pc'[o] = "writing" /\ UNCHANGED pending
        /\ op' = IF Live(o) THEN [op EXCEPT ![o].writeStarted = TRUE] ELSE op
    BY <1>3 DEF StartWrite, idVars, TypeOK, CallType
  <2> USE <2>1
  <2>2. ~Live(o) => RecordsMove
    BY RecordsKept
  <2>3. CASE Live(o)
    <3> USE <2>3
    <3>1. op' = [op EXCEPT ![o] = [op[o] EXCEPT !.writeStarted = TRUE]]
      OBVIOUS
    <3>2. Live(o)' <=> Live(o)
      BY DEF Live
    <3> QED
      BY <3>1, <3>2, OneRecord DEF RecordMoves
  <2> QED
    BY <2>2, <2>3
<1>4. \A o \in Ops : RemoveDefinitelyUnsent(o) => RecordsMove
  BY CompleteMoves DEF RemoveDefinitelyUnsent
<1>5. ASSUME NEW o \in Ops, ObserveWrite(o) PROVE RecordsMove
  <2>1. /\ pc[o] = "written" /\ pc'[o] # "written" /\ UNCHANGED pending
        /\ op' = [op EXCEPT ![o].observed = TRUE]
    BY <1>5 DEF ObserveWrite, idVars, TypeOK, CallType
  <2> USE <2>1
  <2>2. op' = [op EXCEPT ![o] = [op[o] EXCEPT !.observed = TRUE]]
    OBVIOUS
  <2>3. Live(o)' <=> Live(o)
    BY DEF Live
  <2> QED
    BY <2>2, <2>3, OneRecord DEF RecordMoves
<1>6. \A o \in Ops : CompleteNoResponse(o) => RecordsMove
  BY CompleteMoves DEF CompleteNoResponse
<1>7. ASSUME NEW o \in Ops, NextCall(o) PROVE RecordsMove
  <2>1. UNCHANGED <<op, pending>> => RecordsMove
    BY RecordsKept
  <2>2. CancelOperation(o, CtxErr) /\ UNCHANGED pending => RecordsMove
    BY CancelMoves
  <2> QED
    BY <1>7, <2>1, <2>2 DEF NextCall, streamFrame, idVars
<1>8. ASSUME NEW o \in Ops, NextLoop(o) PROVE RecordsMove
  <2>1. UNCHANGED <<op, pending>> => RecordsMove
    BY RecordsKept
  <2>2. CASE /\ cons[o] = "loop" /\ op' = [op EXCEPT ![o] = Taken(op[o])]
             /\ got' = [got EXCEPT ![o] = @ + 1] /\ cons' = [cons EXCEPT ![o] = "idle"]
             /\ UNCHANGED pending
    <3> USE <2>2
    <3>1. cons'[o] = "idle" /\ got'[o] = got[o] + 1
      BY DEF TypeOK, StreamType
    <3>2. Live(o)' <=> Live(o)
      BY DEF Live
    <3> QED
      BY <3>1, <3>2, OneRecord DEF RecordMoves
  <2> QED
    BY <1>8, <2>1, <2>2 DEF NextLoop, streamFrame, idVars
<1>9. ASSUME NEW o \in Ops, NextWake(o) PROVE RecordsMove
  <2>1. UNCHANGED <<op, pending>> => RecordsMove
    BY RecordsKept
  <2>2. CancelOperation(o, CtxErr) /\ UNCHANGED pending => RecordsMove
    BY CancelMoves
  <2>3. CASE /\ cons[o] = "wait" /\ op' = [op EXCEPT ![o].ready = FALSE]
             /\ cons' = [cons EXCEPT ![o] = "loop"] /\ UNCHANGED pending
    <3> USE <2>3
    <3>1. op' = [op EXCEPT ![o] = [op[o] EXCEPT !.ready = FALSE]]
      OBVIOUS
    <3>2. (Live(o)' <=> Live(o)) /\ cons'[o] = "loop"
      BY DEF Live, TypeOK, StreamType
    <3> QED
      BY <3>1, <3>2, OneRecord DEF RecordMoves
  <2> QED
    BY <1>9, <2>1, <2>2, <2>3 DEF NextWake, streamFrame, idVars
<1>10. \A o \in Ops : CloseStream(o) => RecordsMove
  BY CancelMoves DEF CloseStream, streamFrame, idVars
<1>11. ASSUME NEW o \in Ops, WatchOperation(o) PROVE RecordsMove
  <2>1. UNCHANGED <<op, pending>> => RecordsMove
    BY RecordsKept
  <2>2. CancelOperation(o, CtxErr) /\ UNCHANGED pending => RecordsMove
    BY CancelMoves
  <2> QED
    BY <1>11, <2>1, <2>2 DEF WatchOperation, streamFrame, idVars
<1>12. ASSUME NEW o \in Ops, AbandonTombstone(o) PROVE RecordsMove
  <2> DEFINE q == [op[o] EXCEPT !.ended = TRUE, !.ready = TRUE]
  <2>1. UNCHANGED <<op, pending>> => RecordsMove
    BY RecordsKept
  <2>2. CASE Live(o) /\ pending' = Without(o) /\ op' = [op EXCEPT ![o] = q]
    <3>1. Leaves(o, op[o], q)
      BY DEF TypeOK, Operation, Leaves
    <3> HIDE DEF q
    <3> QED
      BY <2>2, <3>1, OneLeaves
  <2> QED
    BY <1>12, <2>1, <2>2 DEF AbandonTombstone, AbandonMoot
<1>13. \A o \in Ops : AbandonRetire(o) => RecordsMove
  BY RetireMoves DEF AbandonRetire, IDInv, RetireHasCause
<1>14. \A c \in Closers : CloseFinish(c) => RecordsMove
  BY RetireMoves, ErrorsNonEmpty DEF CloseFinish
<1>15. WriteRetire => RecordsMove
  BY RetireMoves DEF WriteRetire, IDInv, RetireHasCause
<1>16. ASSUME Route PROVE RecordsMove
  <2> USE <1>16
  <2>1. PICK m \in Message : m = reader.msg
    BY DEF TypeOK, ReaderType
  <2>2. PICK o \in Ops : o = pending[m.id] /\ Live(o)
    BY <2>1 DEF Route, TypeOK, IDType, Live
  <2> DEFINE last == Classify(o, m.kind) = "complete"
             a == Accepted(o, m, last)
  <2>3. \/ UNCHANGED <<op, pending>>
        \/ /\ op' = [op EXCEPT ![o] = a]
           /\ pending' = IF last THEN Without(o) ELSE pending
    BY <2>1, <2>2 DEF Route
  <2>4. ~op[o].terminal
    BY <2>2 DEF RecordInv
  <2>5. /\ a.ready /\ a.writeStarted = op[o].writeStarted
        /\ a.deliveryErr \in {op[o].deliveryErr, {"limit"}}
        /\ op[o].ended \/ last => a.ended
        /\ op[o].terminal \/ last => a.terminal
        /\ ~last => a.terminal = op[o].terminal
    <3>1. last \in BOOLEAN
      OBVIOUS
    <3> QED
      BY <3>1, AcceptedAdvances
  <2> HIDE DEF last, a
  <2>6. UNCHANGED <<op, pending>> => RecordsMove
    BY RecordsKept
  <2>7. CASE last /\ op' = [op EXCEPT ![o] = a] /\ pending' = Without(o)
    <3> USE <2>7
    <3>1. Leaves(o, op[o], a)
      BY <2>5 DEF Leaves
    <3> QED
      BY <2>2, <3>1, OneLeaves
  <2>8. CASE ~last /\ op' = [op EXCEPT ![o] = a] /\ UNCHANGED pending
    <3> USE <2>8
    <3>1. Advances(op[o], a)
      BY <2>5 DEF Advances
    <3>2. Live(o)' <=> Live(o)
      BY DEF Live
    <3>3. op'[o] = a => RecordMoves(o)
      BY <2>4, <3>1, <3>2 DEF RecordMoves
    <3> QED
      BY <2>2, <3>3, OneRecord
  <2> QED
    BY <2>3, <2>6, <2>7, <2>8
<1>17. ReaderRetire => RecordsMove
  BY RetireMoves DEF ReaderRetire, IDInv, RetireHasCause
<1>18. AsyncRetire => RecordsMove
  BY RetireMoves DEF AsyncRetire, IDInv, RetireHasCause
<1>19. (\E o \in Ops : DoStep(o)) => RecordsMove
  BY <1>1, <1>2, <1>3, <1>4, <1>5, <1>6
     DEF DoStep, Reserve, ReserveCanceled, GiveBack, TakeToken, WriteDone,
         idVars
<1>20. (\E o \in Ops : StreamStep(o)) => RecordsMove
  BY <1>7, <1>8, <1>9, <1>10 DEF StreamStep
<1>21. (\E o \in Ops : WatchOperation(o)) => RecordsMove
  BY <1>11
<1>22. (\E o \in Ops : AbandonStep(o)) => RecordsMove
  BY <1>1, <1>12, <1>13
     DEF AbandonStep, AbandonReserve, AbandonTakeToken, AbandonWritten
<1>23. (\E c \in Closers : CloseStep(c)) => RecordsMove
  BY <1>1, <1>14
     DEF CloseStep, CloseBegin, CloseAwait, CloseAcquire, CloseWritten, idVars
<1>24. WriteStep => RecordsMove
  BY <1>1, <1>15 DEF WriteStep, WriteCheck, CancelWins, WriteReturn, idVars
<1>25. Flow => RecordsMove
  BY <1>1 DEF Flow, idVars
<1>26. ReaderStep => RecordsMove
  BY <1>1, <1>16, <1>17
     DEF ReaderStep, ReadFrame, ReadError, RouteUnsolicited, RouteUnowned,
         RouteWait, RouteAgain
<1>27. (\E u \in Listeners : NextUnsolicited(u)) => RecordsMove
  BY <1>1 DEF NextUnsolicited, idVars
<1>28. (\E p \in Procs : ContextDone(p)) => RecordsMove
  BY <1>1 DEF ContextDone, idVars
<1>29. PeerStep => RecordsMove
  BY <1>1 DEF PeerStep, PeerReplies, PeerStrays, LinkFault, peerFrame, idVars
<1> QED
  BY <1>19, <1>20, <1>21, <1>22, <1>23, <1>24, <1>25, <1>26, <1>18, <1>27,
     <1>28, <1>29 DEF Next

-----------------------------------------------------------------------------
(***************************************************************************)
(* The place of a Do call, and the end of the connection.                  *)
(***************************************************************************)
\* How a step may move the Do call of o.  It fails from the queue only if the
\* connection is retired, and from the write only if the write failed.
CallMoves(o) ==
    \/ pc'[o] = pc[o] /\ doErr'[o] = doErr[o]
    \/ /\ pc[o] \in {"idle", "reserving"}
       /\ pc'[o] \in {"reserving", "reserved"} /\ doErr'[o] = doErr[o]
    \/ pc[o] \in {"idle", "reserving", "reserved"} /\ pc'[o] = "failed"
    \/ /\ pc[o] = "reserved" /\ pc'[o] = "queued" /\ doErr'[o] = doErr[o]
       /\ Live(o)'
    \/ pc[o] = "queued" /\ pc'[o] = "starting" /\ doErr'[o] = doErr[o]
    \/ pc[o] = "queued" /\ pc'[o] = "unsent"
    \/ pc[o] = "queued" /\ pc'[o] = "failed" /\ err # {}
    \/ /\ pc[o] = "starting" /\ pc'[o] = "writing" /\ doErr'[o] = doErr[o]
       /\ io' = WriteAll /\ (Live(o) => op'[o].writeStarted)
    \/ pc[o] = "writing" /\ pc'[o] = "written" /\ doErr'[o] = doErr[o]
    \/ /\ pc[o] = "writing" /\ io.pc = "failed" /\ doErr'[o] = io.err
       /\ pc'[o] = AfterWriteError(io.total, io.err)
    \/ /\ pc[o] = "unsent" /\ pc'[o] = "failed" /\ doErr'[o] = doErr[o]
       /\ ~Live(o)'
    \/ /\ pc[o] \in {"written", "observed"} /\ pc'[o] \in {"observed", "open"}
       /\ doErr'[o] = doErr[o]

CallsMove == \A o \in Ops : CallMoves(o)

\* A Do call that a step leaves alone.
LEMMA CallStays ==
    ASSUME NEW o, pc'[o] = pc[o], doErr'[o] = doErr[o]
    PROVE  CallMoves(o)
BY Zenon DEF CallMoves

\* A step of one Do call.
LEMMA OneCall ==
    ASSUME TypeOK, NEW o \in Ops, NEW s, pc' = [pc EXCEPT ![o] = s],
           \/ UNCHANGED doErr
           \/ \E e : doErr' = [doErr EXCEPT ![o] = e],
           pc'[o] = s => CallMoves(o)
    PROVE  CallsMove
<1> USE Zenon
<1>1. pc'[o] = s /\ \A x \in Ops \ {o} : pc'[x] = pc[x]
  BY DEF TypeOK, CallType
<1>2. \A x \in Ops \ {o} : doErr'[x] = doErr[x]
  <2>1. CASE \E e : doErr' = [doErr EXCEPT ![o] = e]
    <3>1. PICK e : doErr' = [doErr EXCEPT ![o] = e]
      BY <2>1
    <3> QED
      BY <3>1 DEF TypeOK, CallType
  <2> QED
    BY <2>1
<1> QED
  BY <1>1, <1>2, CallStays DEF CallsMove

\* acquireWriter makes do() leave the record alone only on a retired connection.
LEMMA QueueFailure ==
    ASSUME NEW p, NEW e \in AcquireErrors(p), ~NothingSent(0, e)
    PROVE  err # {}
<1> USE Zenon
<1>1. "ambiguous" \in e
  BY DEF NothingSent
<1>2. "ambiguous" \notin DefinitelyUnsent(CtxErr) \cup DefinitelyUnsent(ErrClosed)
  BY DEF DefinitelyUnsent, CtxErr, ErrClosed
<1>3. HeldError(p) \in {DefinitelyUnsent(CtxErr), DefinitelyUnsent(ErrClosed), {}}
      \/ err # {}
  BY DEF HeldError
<1> QED
  BY <1>1, <1>2, <1>3 DEF AcquireErrors

\* Every step moves the Do calls as described.
LEMMA CallsStep ==
    ASSUME TypeOK, Next
    PROVE  CallsMove
<1> USE Zenon
<1>1. UNCHANGED <<pc, doErr>> => CallsMove
  BY DEF CallsMove, CallMoves
<1>2. ASSUME NEW o \in Ops, Reserve(o) PROVE CallsMove
  <2> USE <1>2
  <2>1. pc' = [pc EXCEPT ![o] = "failed"] => CallsMove
    BY OneCall DEF Reserve, CallMoves
  <2>2. \A s \in {"reserving", "reserved"} :
           pc' = [pc EXCEPT ![o] = s] /\ UNCHANGED doErr =>
              CallsMove
    BY OneCall DEF Reserve, CallMoves
  <2> QED
    BY <2>1, <2>2 DEF Reserve
<1>3. \A o \in Ops : ReserveCanceled(o) => CallsMove
  BY OneCall DEF ReserveCanceled, CallMoves
<1>4. \A o \in Ops : GiveBack(o) => CallsMove
  BY OneCall DEF GiveBack, CallMoves
<1>5. ASSUME NEW o \in Ops, InstallPending(o) PROVE CallsMove
  <2>1. /\ pc[o] = "reserved" /\ UNCHANGED doErr
        /\ pending' = [pending EXCEPT ![id[o]] = o]
        /\ pc' = [pc EXCEPT ![o] = "queued"] /\ id[o] \in reserved
    BY <1>5 DEF InstallPending
  <2>2. Live(o)'
    BY <2>1 DEF Live, TypeOK, IDType
  <2> QED
    BY <2>1, <2>2, OneCall DEF CallMoves
<1>6. ASSUME NEW o \in Ops, TakeToken(o) PROVE CallsMove
  <2> USE <1>6
  <2>1. pc' = [pc EXCEPT ![o] = "starting"] /\ UNCHANGED doErr => CallsMove
    BY OneCall DEF TakeToken, CallMoves
  <2>2. ASSUME NEW e \in AcquireErrors(Do(o)),
               pc' = [pc EXCEPT ![o] = AfterWriteError(0, e)],
               doErr' = [doErr EXCEPT ![o] = e]
        PROVE  CallsMove
    <3>1. \/ AfterWriteError(0, e) = "unsent"
          \/ AfterWriteError(0, e) = "failed" /\ err # {}
      BY QueueFailure DEF AfterWriteError
    <3> QED
      BY <2>2, <3>1, OneCall DEF TakeToken, CallMoves
  <2> QED
    BY <2>1, <2>2 DEF TakeToken
<1>7. ASSUME NEW o \in Ops, StartWrite(o) PROVE CallsMove
  <2> USE <1>7
  <2>1. Live(o) => op'[o].writeStarted
    <3>1. CASE Live(o)
      <4>1. op' = [op EXCEPT ![o].writeStarted = TRUE]
        BY <3>1 DEF StartWrite
      <4> QED
        BY <4>1 DEF TypeOK, Operation
    <3> QED
      BY <3>1
  <2> QED
    BY <2>1, OneCall DEF StartWrite, CallMoves
<1>8. ASSUME NEW o \in Ops, WriteDone(o) PROVE CallsMove
  <2> USE <1>8
  <2>1. pc' = [pc EXCEPT ![o] = "written"] /\ UNCHANGED doErr => CallsMove
    BY OneCall DEF WriteDone, CallMoves
  <2>2. CASE /\ io.pc = "failed" /\ doErr' = [doErr EXCEPT ![o] = io.err]
             /\ pc' = [pc EXCEPT ![o] = AfterWriteError(io.total, io.err)]
    <3> USE <2>2
    <3>1. doErr'[o] = io.err
      BY DEF TypeOK, CallType
    <3> QED
      BY <3>1, OneCall DEF WriteDone, CallMoves
  <2> QED
    BY <2>1, <2>2 DEF WriteDone
<1>9. ASSUME NEW o \in Ops, RemoveDefinitelyUnsent(o) PROVE CallsMove
  <2> USE <1>9
  <2>1. ~Live(o)'
    BY WithoutLive DEF RemoveDefinitelyUnsent, Complete, Live
  <2> QED
    BY <2>1, OneCall DEF RemoveDefinitelyUnsent, CallMoves, callVars
<1>10. ASSUME NEW o \in Ops, ObserveWrite(o) PROVE CallsMove
  <2> USE <1>10
  <2>1. \A s \in {"observed", "open"} : pc' = [pc EXCEPT ![o] = s] => CallsMove
    BY OneCall DEF ObserveWrite, CallMoves
  <2> QED
    BY <2>1 DEF ObserveWrite
<1>11. \A o \in Ops : CompleteNoResponse(o) => CallsMove
  BY OneCall DEF CompleteNoResponse, CallMoves
<1>12. (\E o \in Ops : DoStep(o)) => CallsMove
  BY <1>2, <1>3, <1>4, <1>5, <1>6, <1>7, <1>8, <1>9, <1>10, <1>11 DEF DoStep
<1>13. (\E o \in Ops : StreamStep(o)) => CallsMove
  BY <1>1
     DEF StreamStep, NextCall, NextLoop, NextWake, CloseStream, streamFrame,
         callVars
<1>14. (\E o \in Ops : WatchOperation(o)) => CallsMove
  BY <1>1 DEF WatchOperation, streamFrame, callVars
<1>15. (\E o \in Ops : AbandonStep(o)) => CallsMove
  BY <1>1
     DEF AbandonStep, AbandonReserve, AbandonTakeToken, AbandonTombstone,
         AbandonWritten, AbandonRetire, callVars
<1>16. (\E c \in Closers : CloseStep(c)) => CallsMove
  BY <1>1
     DEF CloseStep, CloseBegin, CloseAwait, CloseAcquire, CloseWritten,
         CloseFinish, callVars
<1>17. WriteStep => CallsMove
  BY <1>1
     DEF WriteStep, WriteCheck, CancelWins, WriteReturn, WriteRetire, callVars
<1>18. Flow => CallsMove
  BY <1>1 DEF Flow, callVars
<1>19. ReaderStep => CallsMove
  BY <1>1
     DEF ReaderStep, ReadFrame, ReadError, RouteUnsolicited, RouteUnowned,
         RouteWait, RouteAgain, Route, ReaderRetire, readerFrame, callVars
<1>20. AsyncRetire => CallsMove
  BY <1>1 DEF AsyncRetire, callVars
<1>21. (\E u \in Listeners : NextUnsolicited(u)) => CallsMove
  BY <1>1 DEF NextUnsolicited, callVars
<1>22. (\E p \in Procs : ContextDone(p)) => CallsMove
  BY <1>1 DEF ContextDone, callVars
<1>23. PeerStep => CallsMove
  BY <1>1 DEF PeerStep, PeerReplies, PeerStrays, LinkFault, peerFrame, callVars
<1> QED
  BY <1>12, <1>13, <1>14, <1>15, <1>16, <1>17, <1>18, <1>19, <1>20, <1>21,
     <1>22, <1>23 DEF Next

\* Once the connection is retired it stays so, with nothing pending and its
\* transport closed, for one of the errors on their way; a decision to retire it
\* is not forgotten, and the link does not come back.
ErrMoves ==
    /\ err # {} => err' = err
    /\ err' # err => link'.closed /\ \A o \in Ops : ~Live(o)'
    /\ err' \in {err, ErrClosed} \cup WireErrors
    /\ link.closed => link'.closed
    /\ LinkDown => LinkDown'
    /\ AboutToRetire => AboutToRetire'

\* retire.
LEMMA RetireErr ==
    ASSUME TypeOK, NEW e \in {ErrClosed} \cup WireErrors, e # {}, Retire(e)
    PROVE  ErrMoves /\ err' # {}
<1> USE Zenon
<1>1. err' # {}
  BY RetireEnds
<1>2. CASE err # {}
  BY <1>1, <1>2 DEF Retire, retireVars, ErrMoves, AboutToRetire, LinkDown
<1>3. CASE err = {}
  <2> USE <1>3
  <2>1. pending' = [i \in IDs |-> None] /\ link' = [link EXCEPT !.closed = TRUE]
    BY DEF Retire
  <2>2. link'.closed
    BY <2>1 DEF TypeOK, ConnType
  <2>3. \A o \in Ops : ~Live(o)'
    BY <2>1, ConnAssumption DEF Live
  <2>4. err' \in {ErrClosed, e}
    BY DEF Retire
  <2> QED
    BY <1>1, <2>2, <2>3, <2>4 DEF ErrMoves, AboutToRetire, LinkDown
<1> QED
  BY <1>1, <1>2, <1>3

\* Every step treats the connection's end so.
LEMMA ErrStep ==
    ASSUME TypeOK, IDInv, Next
    PROVE  ErrMoves
<1> USE Zenon
<1>1. UNCHANGED <<err, link, retiring>> => ErrMoves
  BY DEF ErrMoves, AboutToRetire, LinkDown
<1>2. ASSUME NEW o \in Ops, NextCall(o) PROVE ErrMoves
  <2> USE <1>2
  <2>1. retiring \subseteq retiring'
    BY DEF NextCall, CancelOperation
  <2> QED
    BY <2>1
       DEF NextCall, ErrMoves, AboutToRetire, LinkDown, streamFrame, connVars
<1>3. ASSUME NEW o \in Ops, NextWake(o) PROVE ErrMoves
  <2> USE <1>3
  <2>1. retiring \subseteq retiring'
    BY DEF NextWake, CancelOperation
  <2> QED
    BY <2>1
       DEF NextWake, ErrMoves, AboutToRetire, LinkDown, streamFrame, connVars
<1>4. ASSUME NEW o \in Ops, CloseStream(o) PROVE ErrMoves
  <2> USE <1>4
  <2>1. retiring \subseteq retiring'
    BY DEF CloseStream, CancelOperation
  <2> QED
    BY <2>1
       DEF CloseStream, ErrMoves, AboutToRetire, LinkDown, streamFrame, connVars
<1>5. ASSUME NEW o \in Ops, WatchOperation(o) PROVE ErrMoves
  <2> USE <1>5
  <2>1. retiring \subseteq retiring'
    BY DEF WatchOperation, CancelOperation
  <2> QED
    BY <2>1
       DEF WatchOperation, ErrMoves, AboutToRetire, LinkDown, streamFrame,
           connVars
<1>6. \A o \in Ops : AbandonRetire(o) => ErrMoves
  BY RetireErr DEF AbandonRetire, IDInv, RetireHasCause, WireErrors
<1>7. \A c \in Closers : CloseFinish(c) => ErrMoves
  BY RetireErr, ErrorsNonEmpty DEF CloseFinish
<1>8. CancelWins => ErrMoves
  BY DEF CancelWins, ErrMoves, AboutToRetire, LinkDown, connVars
<1>9. WriteRetire => ErrMoves
  BY RetireErr DEF WriteRetire, IDInv, RetireHasCause, WireErrors
<1>10. ReaderRetire => ErrMoves
  BY RetireErr DEF ReaderRetire, IDInv, RetireHasCause, WireErrors
<1>11. AsyncRetire => ErrMoves
  BY RetireErr DEF AsyncRetire, IDInv, RetireHasCause, WireErrors
<1>12. ASSUME LinkFault PROVE ErrMoves
  <2> USE <1>12
  <2>1. link'.closed = link.closed /\ (link.broken => link'.broken)
    BY DEF LinkFault, TypeOK, ConnType
  <2> QED
    BY <2>1
       DEF LinkFault, peerFrame, connVars, ErrMoves, AboutToRetire, LinkDown
<1>13. (\E o \in Ops : DoStep(o)) => ErrMoves
  BY <1>1
     DEF DoStep, Reserve, ReserveCanceled, GiveBack, InstallPending, TakeToken,
         StartWrite, WriteDone, RemoveDefinitelyUnsent, ObserveWrite,
         CompleteNoResponse, connVars
<1>14. (\E o \in Ops : StreamStep(o)) => ErrMoves
  BY <1>1, <1>2, <1>3, <1>4 DEF StreamStep, NextLoop, streamFrame, connVars
<1>15. (\E o \in Ops : WatchOperation(o)) => ErrMoves
  BY <1>5
<1>16. (\E o \in Ops : AbandonStep(o)) => ErrMoves
  BY <1>1, <1>6
     DEF AbandonStep, AbandonReserve, AbandonTakeToken, AbandonTombstone,
         AbandonWritten, connVars
<1>17. (\E c \in Closers : CloseStep(c)) => ErrMoves
  BY <1>1, <1>7
     DEF CloseStep, CloseBegin, CloseAwait, CloseAcquire, CloseWritten, connVars
<1>18. WriteStep => ErrMoves
  BY <1>1, <1>8, <1>9 DEF WriteStep, WriteCheck, WriteReturn, connVars
<1>19. Flow => ErrMoves
  BY <1>1 DEF Flow, connVars
<1>20. ReaderStep => ErrMoves
  BY <1>1, <1>10
     DEF ReaderStep, ReadFrame, ReadError, RouteUnsolicited, RouteUnowned,
         RouteWait, RouteAgain, Route, readerFrame, connVars
<1>21. (\E u \in Listeners : NextUnsolicited(u)) => ErrMoves
  BY <1>1 DEF NextUnsolicited, connVars
<1>22. (\E p \in Procs : ContextDone(p)) => ErrMoves
  BY <1>1 DEF ContextDone, connVars
<1>23. PeerStep => ErrMoves
  BY <1>1, <1>12 DEF PeerStep, PeerReplies, PeerStrays, peerFrame, connVars
<1> QED
  BY <1>13, <1>14, <1>15, <1>16, <1>17, <1>18, <1>19, <1>20, <1>11, <1>21,
     <1>22, <1>23 DEF Next

-----------------------------------------------------------------------------
(***************************************************************************)
(* The write token.                                                        *)
(***************************************************************************)
\* The goroutines that write are told apart.
LEMMA ProcsApart ==
    /\ \A o, x : /\ Do(o) = Do(x) => o = x
                 /\ Abandon(o) = Abandon(x) => o = x
                 /\ Close(o) = Close(x) => o = x
                 /\ Do(o) # Abandon(x) /\ Do(o) # Close(x) /\ Abandon(o) # Close(x)
    /\ \A o : Do(o) # Free /\ Abandon(o) # Free /\ Close(o) # Free
BY Zenon DEF Do, Abandon, Close, Free

\* A step in which nobody takes or returns the token or begins to write.
LEMMA TokenStays ==
    ASSUME TokenHeld, UNCHANGED token, io'.pc # "off" => io.pc # "off",
           \A o \in Ops :
              /\ pc'[o] \in {"starting", "writing"} => pc[o] \in {"starting", "writing"}
              /\ apc'[o] \in {"recheck", "writing"} => apc[o] \in {"recheck", "writing"}
              /\ pc[o] = "writing" => pc'[o] = "writing"
              /\ apc[o] = "writing" => apc'[o] = "writing",
           \A c \in Closers : cpc'[c] = "writing" <=> cpc[c] = "writing"
    PROVE  TokenHeld'
BY Zenon DEF TokenHeld

\* A Do call moves without the token.
LEMMA DoStays ==
    ASSUME TypeOK, TokenHeld, UNCHANGED <<token, io, apc, cpc>>,
           NEW o \in Ops, NEW s, pc' = [pc EXCEPT ![o] = s],
           s \notin {"starting", "writing"}, pc[o] \notin {"starting", "writing"}
    PROVE  TokenHeld'
<1> USE Zenon
<1>1. pc'[o] = s /\ \A x \in Ops \ {o} : pc'[x] = pc[x]
  BY DEF TypeOK, CallType
<1>2. \A x \in Ops :
         /\ pc'[x] \in {"starting", "writing"} => pc[x] \in {"starting", "writing"}
         /\ pc[x] = "writing" => pc'[x] = "writing"
  BY <1>1
<1> QED
  BY <1>2, TokenStays

\* A sendAbandon goroutine moves without the token.
LEMMA AbandonStays ==
    ASSUME TypeOK, TokenHeld, UNCHANGED <<token, io, pc, cpc>>,
           NEW o \in Ops, NEW s, apc' = [apc EXCEPT ![o] = s],
           s \notin {"recheck", "writing"}, apc[o] \notin {"recheck", "writing"}
    PROVE  TokenHeld'
<1> USE Zenon
<1>1. apc'[o] = s /\ \A x \in Ops \ {o} : apc'[x] = apc[x]
  BY DEF TypeOK, AbandonType
<1>2. \A x \in Ops :
         /\ apc'[x] \in {"recheck", "writing"} => apc[x] \in {"recheck", "writing"}
         /\ apc[x] = "writing" => apc'[x] = "writing"
  BY <1>1
<1> QED
  BY <1>2, TokenStays

\* A CloseContext call moves without the token.
LEMMA CloseStays ==
    ASSUME TypeOK, TokenHeld, UNCHANGED <<token, io, pc, apc>>,
           NEW c \in Closers, NEW s, cpc' = [cpc EXCEPT ![c] = s],
           s # "writing", cpc[c] # "writing"
    PROVE  TokenHeld'
<1> USE Zenon
<1>1. cpc'[c] = s /\ \A x \in Closers \ {c} : cpc'[x] = cpc[x]
  BY DEF TypeOK, CloseType
<1>2. \A x \in Closers : cpc'[x] = "writing" <=> cpc[x] = "writing"
  BY <1>1
<1> QED
  BY <1>2, TokenStays

\* cancelOperation starts a goroutine only for an operation that has none.
LEMMA CancelStays ==
    ASSUME TypeOK, IDInv, TokenHeld, UNCHANGED <<token, io, pc, cpc>>,
           NEW o \in Ops, NEW e, CancelOperation(o, e)
    PROVE  TokenHeld'
<1> USE Zenon
<1>1. UNCHANGED apc => TokenHeld'
  BY TokenStays
<1>2. CASE CancelActs(o, "abandon") /\ apc' = [apc EXCEPT ![o] = "spawned"]
  <2> USE <1>2
  <2>1. apc[o] = "none"
    BY DEF CancelActs, IDInv, AbandonedOnce
  <2> QED
    BY <2>1, AbandonStays
<1> QED
  BY <1>1, <1>2 DEF CancelOperation

\* While the token is free nobody is about to write, and a goroutine that has
\* not got to its write is the only one that could.
LEMMA TokenFacts ==
    ASSUME TokenHeld
    PROVE  /\ token = Free =>
                /\ io.pc = "off"
                /\ \A o \in Ops : /\ pc[o] \notin {"starting", "writing"}
                                  /\ apc[o] \notin {"recheck", "writing"}
                /\ \A c \in Closers : cpc[c] # "writing"
           /\ \A o \in Ops : /\ pc[o] = "starting" => io.pc = "off"
                             /\ apc[o] = "recheck" => io.pc = "off"
<1> USE Zenon
<1>1. token = Free =>
             /\ \A o \in Ops : /\ pc[o] \notin {"starting", "writing"}
                               /\ apc[o] \notin {"recheck", "writing"}
             /\ \A c \in Closers : cpc[c] # "writing"
  BY ProcsApart DEF TokenHeld
<1>2. ASSUME io.pc # "off"
      PROVE  /\ token # Free
             /\ \A o \in Ops : pc[o] # "starting" /\ apc[o] # "recheck"
  <2>1. CASE \E x \in Ops : token = Do(x) /\ pc[x] = "writing"
    <3>1. PICK x \in Ops : token = Do(x) /\ pc[x] = "writing"
      BY <2>1
    <3> USE <3>1
    <3>2. \A o \in Ops : pc[o] = "starting" => token = Do(o) /\ o # x
      BY DEF TokenHeld
    <3>3. \A o \in Ops : apc[o] = "recheck" => token = Abandon(o)
      BY DEF TokenHeld
    <3> QED
      BY <3>2, <3>3, ProcsApart
  <2>2. CASE \E x \in Ops : token = Abandon(x) /\ apc[x] = "writing"
    <3>1. PICK x \in Ops : token = Abandon(x) /\ apc[x] = "writing"
      BY <2>2
    <3> USE <3>1
    <3>2. \A o \in Ops : pc[o] = "starting" => token = Do(o)
      BY DEF TokenHeld
    <3>3. \A o \in Ops : apc[o] = "recheck" => token = Abandon(o) /\ o # x
      BY DEF TokenHeld
    <3> QED
      BY <3>2, <3>3, ProcsApart
  <2>3. CASE \E c \in Closers : token = Close(c)
    BY <2>3, ProcsApart DEF TokenHeld
  <2> QED
    BY <1>2, <2>1, <2>2, <2>3 DEF TokenHeld
<1> QED
  BY <1>1, <1>2

\* The holder gives the token back.
LEMMA TokenReturned ==
    ASSUME TokenHeld, token' = Free, io'.pc = "off",
           \A o \in Ops : /\ pc'[o] \in {"starting", "writing"} => pc'[o] = pc[o]
                          /\ apc'[o] \in {"recheck", "writing"} => apc'[o] = apc[o]
                          /\ token = Do(o) => pc'[o] \notin {"starting", "writing"}
                          /\ token = Abandon(o) => apc'[o] \notin {"recheck", "writing"},
           \A c \in Closers : /\ cpc'[c] = "writing" => cpc'[c] = cpc[c]
                              /\ token = Close(c) => cpc'[c] # "writing"
    PROVE  TokenHeld'
BY ProcsApart, Zenon DEF TokenHeld

\* Somebody takes it.
LEMMA TokenTaken ==
    ASSUME TokenHeld, token = Free, token' # Free,
           \A o \in Ops : /\ pc'[o] \in {"starting", "writing"} =>
                                pc'[o] = pc[o] \/ token' = Do(o)
                          /\ apc'[o] \in {"recheck", "writing"} =>
                                apc'[o] = apc[o] \/ token' = Abandon(o),
           \A c \in Closers : /\ cpc'[c] = "writing" =>
                                    cpc'[c] = cpc[c] \/ token' = Close(c)
                              /\ token' = Close(c) => cpc'[c] = "writing",
           io'.pc # "off" => io.pc # "off" \/ \E c \in Closers : token' = Close(c)
    PROVE  TokenHeld'
BY TokenFacts, Zenon DEF TokenHeld

\* Every step keeps to it.
LEMMA TokenStep ==
    ASSUME TypeOK, IDInv, TokenHeld, Next
    PROVE  TokenHeld'
<1> USE Zenon
<1>1. UNCHANGED <<token, io, pc, apc, cpc>> => TokenHeld'
  BY TokenStays
<1>2. ASSUME NEW o \in Ops, Reserve(o) PROVE TokenHeld'
  <2> USE <1>2
  <2>1. \A s \in {"failed", "reserving", "reserved"} : pc' = [pc EXCEPT ![o] = s] =>
           TokenHeld'
    BY DoStays DEF Reserve, abandVars, closeVars, writeVars
  <2> QED
    BY <2>1 DEF Reserve
<1>3. ASSUME NEW o \in Ops, ReserveCanceled(o) PROVE TokenHeld'
  BY <1>3, DoStays DEF ReserveCanceled, abandVars, closeVars, writeVars
<1>4. ASSUME NEW o \in Ops, GiveBack(o) PROVE TokenHeld'
  <2>1. /\ pc[o] = "reserved" /\ pc' = [pc EXCEPT ![o] = "failed"]
        /\ UNCHANGED <<token, io, apc, cpc>>
    BY <1>4 DEF GiveBack, abandVars, closeVars, writeVars
  <2> QED
    BY <2>1, DoStays
<1>5. ASSUME NEW o \in Ops, InstallPending(o) PROVE TokenHeld'
  BY <1>5, DoStays DEF InstallPending, abandVars, closeVars, writeVars
<1>6. ASSUME NEW o \in Ops, TakeToken(o) PROVE TokenHeld'
  <2> USE <1>6
  <2>1. CASE token = Free /\ token' = Do(o) /\ pc' = [pc EXCEPT ![o] = "starting"]
    <3> USE <2>1
    <3>1. \A x \in Ops : pc'[x] = pc[x] \/ token' = Do(x)
      BY DEF TypeOK, CallType
    <3> QED
      BY <3>1, TokenTaken, ProcsApart DEF TakeToken, abandVars, closeVars
  <2>2. \A s \in {"unsent", "failed"} :
           pc' = [pc EXCEPT ![o] = s] /\ UNCHANGED token =>
              TokenHeld'
    BY DoStays DEF TakeToken, abandVars, closeVars
  <2> QED
    BY <2>1, <2>2 DEF TakeToken, AfterWriteError
<1>7. ASSUME NEW o \in Ops, StartWrite(o) PROVE TokenHeld'
  <2>1. /\ pc[o] = "starting" /\ pc' = [pc EXCEPT ![o] = "writing"]
        /\ UNCHANGED <<token, apc, cpc>>
    BY <1>7 DEF StartWrite, abandVars, closeVars
  <2>2. pc'[o] = "writing" /\ \A x \in Ops \ {o} : pc'[x] = pc[x]
    BY <2>1 DEF TypeOK, CallType
  <2> QED
    BY <2>1, <2>2 DEF TokenHeld
<1>8. ASSUME NEW o \in Ops, WriteDone(o) PROVE TokenHeld'
  <2> USE <1>8
  <2>1. ASSUME NEW s \in {"written", "unsent", "failed"},
               pc' = [pc EXCEPT ![o] = s]
        PROVE  TokenHeld'
    <3>1. pc'[o] = s /\ \A x \in Ops \ {o} : pc'[x] = pc[x]
      BY <2>1 DEF TypeOK, CallType
    <3>2. /\ token = Do(o) /\ token' = Free /\ io'.pc = "off"
          /\ UNCHANGED <<apc, cpc>>
      BY DEF WriteDone, Idle, abandVars, closeVars
    <3> QED
      BY <3>1, <3>2, TokenReturned, ProcsApart
  <2> QED
    BY <2>1 DEF WriteDone, AfterWriteError
<1>9. ASSUME NEW o \in Ops, RemoveDefinitelyUnsent(o) PROVE TokenHeld'
  BY <1>9, DoStays DEF RemoveDefinitelyUnsent, abandVars, closeVars, writeVars
<1>10. ASSUME NEW o \in Ops, ObserveWrite(o) PROVE TokenHeld'
  <2> USE <1>10
  <2>1. \A s \in {"observed", "open"} : pc' = [pc EXCEPT ![o] = s] => TokenHeld'
    BY DoStays DEF ObserveWrite, abandVars, closeVars, writeVars
  <2> QED
    BY <2>1 DEF ObserveWrite
<1>11. ASSUME NEW o \in Ops, CompleteNoResponse(o) PROVE TokenHeld'
  BY <1>11, DoStays DEF CompleteNoResponse, abandVars, closeVars, writeVars
<1>12. ASSUME NEW o \in Ops, NextCall(o) PROVE TokenHeld'
  <2> USE <1>12
  <2>1. UNCHANGED <<token, io, pc, cpc>>
    BY DEF NextCall, streamFrame, callVars, closeVars, writeVars
  <2> QED
    BY <2>1, <1>1, CancelStays DEF NextCall
<1>13. ASSUME NEW o \in Ops, NextWake(o) PROVE TokenHeld'
  <2> USE <1>13
  <2>1. UNCHANGED <<token, io, pc, cpc>>
    BY DEF NextWake, streamFrame, callVars, closeVars, writeVars
  <2> QED
    BY <2>1, <1>1, CancelStays DEF NextWake
<1>14. \A o \in Ops : CloseStream(o) => TokenHeld'
  BY CancelStays DEF CloseStream, streamFrame, callVars, closeVars, writeVars
<1>15. ASSUME NEW o \in Ops, WatchOperation(o) PROVE TokenHeld'
  <2> USE <1>15
  <2>1. UNCHANGED <<token, io, pc, cpc>>
    BY DEF WatchOperation, streamFrame, callVars, closeVars, writeVars
  <2> QED
    BY <2>1, <1>1, CancelStays DEF WatchOperation
<1>16. ASSUME NEW o \in Ops, AbandonReserve(o) PROVE TokenHeld'
  <2> USE <1>16
  <2>1. \A s \in {"done", "queued", "retire"} : apc' = [apc EXCEPT ![o] = s] =>
           TokenHeld'
    BY AbandonStays DEF AbandonReserve, callVars, closeVars, writeVars
  <2> QED
    BY <2>1 DEF AbandonReserve
<1>17. ASSUME NEW o \in Ops, AbandonTakeToken(o) PROVE TokenHeld'
  <2> USE <1>17
  <2>1. CASE /\ token = Free /\ token' = Abandon(o)
             /\ apc' = [apc EXCEPT ![o] = "recheck"]
    <3> USE <2>1
    <3>1. \A x \in Ops : apc'[x] = apc[x] \/ token' = Abandon(x)
      BY DEF TypeOK, AbandonType
    <3> QED
      BY <3>1, TokenTaken, ProcsApart DEF AbandonTakeToken, callVars, closeVars
  <2>2. \A s \in {"done", "retire"} :
           apc' = [apc EXCEPT ![o] = s] /\ UNCHANGED token =>
              TokenHeld'
    BY AbandonStays DEF AbandonTakeToken, callVars, closeVars
  <2> QED
    BY <2>1, <2>2 DEF AbandonTakeToken, AbandonFails
<1>18. ASSUME NEW o \in Ops, AbandonTombstone(o) PROVE TokenHeld'
  <2> USE <1>18
  <2>1. apc[o] = "recheck" /\ UNCHANGED <<pc, cpc>> /\ token = Abandon(o)
    BY DEF AbandonTombstone, callVars, closeVars, TokenHeld
  <2>2. CASE token' = Free /\ apc' = [apc EXCEPT ![o] = "done"] /\ UNCHANGED io
    <3> USE <2>2
    <3>1. apc'[o] = "done" /\ \A x \in Ops \ {o} : apc'[x] = apc[x]
      BY DEF TypeOK, AbandonType
    <3> QED
      BY <2>1, <3>1, TokenReturned, TokenFacts, ProcsApart
  <2>3. CASE UNCHANGED token /\ apc' = [apc EXCEPT ![o] = "writing"]
    <3> USE <2>3
    <3>1. apc'[o] = "writing" /\ \A x \in Ops \ {o} : apc'[x] = apc[x]
      BY DEF TypeOK, AbandonType
    <3> QED
      BY <2>1, <3>1 DEF TokenHeld
  <2> QED
    BY <2>2, <2>3 DEF AbandonTombstone
<1>19. ASSUME NEW o \in Ops, AbandonWritten(o) PROVE TokenHeld'
  <2> USE <1>19
  <2>1. ASSUME NEW s \in {"done", "retire"}, apc' = [apc EXCEPT ![o] = s]
        PROVE  TokenHeld'
    <3>1. apc'[o] = s /\ \A x \in Ops \ {o} : apc'[x] = apc[x]
      BY <2>1 DEF TypeOK, AbandonType
    <3>2. /\ token = Abandon(o) /\ token' = Free /\ io'.pc = "off"
          /\ UNCHANGED <<pc, cpc>>
      BY DEF AbandonWritten, Idle, callVars, closeVars
    <3> QED
      BY <3>1, <3>2, TokenReturned, ProcsApart
  <2> QED
    BY <2>1 DEF AbandonWritten
<1>20. ASSUME NEW o \in Ops, AbandonRetire(o) PROVE TokenHeld'
  BY <1>20, AbandonStays DEF AbandonRetire, callVars, closeVars, writeVars
<1>21. ASSUME NEW c \in Closers, CloseBegin(c) PROVE TokenHeld'
  <2> USE <1>21
  <2>1. \A s \in {"done", "await", "acquire"} : cpc' = [cpc EXCEPT ![c] = s] =>
           TokenHeld'
    BY CloseStays DEF CloseBegin, callVars, abandVars, writeVars
  <2> QED
    BY <2>1 DEF CloseBegin
<1>22. \A c \in Closers : CloseAwait(c) => TokenHeld'
  BY CloseStays DEF CloseAwait, callVars, abandVars, writeVars
<1>23. ASSUME NEW c \in Closers, CloseAcquire(c) PROVE TokenHeld'
  <2> USE <1>23
  <2>1. UNCHANGED <<pc, apc>>
    BY DEF CloseAcquire, callVars, abandVars
  <2>2. CASE /\ token = Free /\ token' = Close(c)
             /\ cpc' = [cpc EXCEPT ![c] = "writing"]
    <3> USE <2>2
    <3>1. cpc'[c] = "writing" /\ \A x \in Closers \ {c} : cpc'[x] = cpc[x]
      BY DEF TypeOK, CloseType
    <3> QED
      BY <2>1, <3>1, TokenTaken, ProcsApart
  <2>3. cpc' = [cpc EXCEPT ![c] = "finish"] /\ UNCHANGED <<token, io>> => TokenHeld'
    BY <2>1, CloseStays DEF CloseAcquire
  <2> QED
    BY <2>2, <2>3 DEF CloseAcquire
<1>24. ASSUME NEW c \in Closers, CloseWritten(c) PROVE TokenHeld'
  <2>1. /\ token = Close(c) /\ token' = Free /\ io'.pc = "off"
        /\ cpc' = [cpc EXCEPT ![c] = "finish"] /\ UNCHANGED <<pc, apc>>
    BY <1>24 DEF CloseWritten, Idle, callVars, abandVars
  <2>2. cpc'[c] = "finish" /\ \A x \in Closers \ {c} : cpc'[x] = cpc[x]
    BY <2>1 DEF TypeOK, CloseType
  <2> QED
    BY <2>1, <2>2, TokenReturned, ProcsApart
<1>25. \A c \in Closers : CloseFinish(c) => TokenHeld'
  BY CloseStays DEF CloseFinish, callVars, abandVars, writeVars
<1>26. ASSUME WriteCheck PROVE TokenHeld'
  <2>1. io.pc # "off" /\ UNCHANGED <<token, pc, apc, cpc>>
    BY <1>26 DEF WriteCheck, callVars, abandVars, closeVars
  <2> QED
    BY <2>1, TokenStays
<1>27. ASSUME CancelWins PROVE TokenHeld'
  <2>1. io.pc # "off" /\ UNCHANGED <<token, pc, apc, cpc>>
    BY <1>27 DEF CancelWins, callVars, abandVars, closeVars
  <2> QED
    BY <2>1, TokenStays
<1>28. ASSUME WriteReturn PROVE TokenHeld'
  <2>1. io.pc # "off" /\ UNCHANGED <<token, pc, apc, cpc>>
    BY <1>28 DEF WriteReturn, callVars, abandVars, closeVars
  <2> QED
    BY <2>1, TokenStays
<1>29. ASSUME WriteRetire PROVE TokenHeld'
  <2>1. io.pc # "off" /\ UNCHANGED <<token, pc, apc, cpc>>
    BY <1>29 DEF WriteRetire, callVars, abandVars, closeVars
  <2> QED
    BY <2>1, TokenStays
<1>30. ASSUME Flow PROVE TokenHeld'
  <2>1. io.pc # "off" /\ UNCHANGED <<token, pc, apc, cpc>>
    BY <1>30 DEF Flow, callVars, abandVars, closeVars
  <2> QED
    BY <2>1, TokenStays
<1>31. ASSUME Route PROVE TokenHeld'
  <2> USE <1>31
  <2>1. UNCHANGED <<token, io, pc, cpc>>
    BY DEF Route, readerFrame, callVars, closeVars, writeVars
  <2>2. UNCHANGED apc => TokenHeld'
    BY <2>1, <1>1
  <2>3. ASSUME NEW o \in Ops, ~op[o].canceled, apc' = [apc EXCEPT ![o] = "spawned"]
        PROVE  TokenHeld'
    <3> USE <2>3
    <3>1. apc[o] = "none"
      BY DEF IDInv, AbandonedOnce
    <3> QED
      BY <2>1, <3>1, AbandonStays
  <2>4. PICK i \in IDs : i = reader.msg.id
    BY DEF Route
  <2>5. PICK o \in Ops : o = pending[i]
    BY <2>4 DEF Route, TypeOK, IDType
  <2>6. \/ UNCHANGED apc
        \/ ~op[o].canceled /\ apc' = [apc EXCEPT ![o] = "spawned"]
    BY <2>4, <2>5 DEF Route
  <2> QED
    BY <2>2, <2>3, <2>6
<1>32. (\E o \in Ops : DoStep(o)) => TokenHeld'
  BY <1>2, <1>3, <1>4, <1>5, <1>6, <1>7, <1>8, <1>9, <1>10, <1>11 DEF DoStep
<1>33. (\E o \in Ops : StreamStep(o)) => TokenHeld'
  BY <1>1, <1>12, <1>13, <1>14
     DEF StreamStep, NextLoop, streamFrame, callVars, closeVars, writeVars
<1>34. (\E o \in Ops : WatchOperation(o)) => TokenHeld'
  BY <1>15
<1>35. (\E o \in Ops : AbandonStep(o)) => TokenHeld'
  BY <1>16, <1>17, <1>18, <1>19, <1>20 DEF AbandonStep
<1>36. (\E c \in Closers : CloseStep(c)) => TokenHeld'
  BY <1>21, <1>22, <1>23, <1>24, <1>25 DEF CloseStep
<1>37. WriteStep => TokenHeld'
  BY <1>26, <1>27, <1>28, <1>29 DEF WriteStep
<1>38. ReaderStep => TokenHeld'
  BY <1>1, <1>31
     DEF ReaderStep, ReadFrame, ReadError, RouteUnsolicited, RouteUnowned,
         RouteWait, RouteAgain, ReaderRetire, readerFrame, callVars, closeVars,
         writeVars, abandVars
<1>39. AsyncRetire => TokenHeld'
  BY <1>1 DEF AsyncRetire, callVars, abandVars, closeVars, writeVars
<1>40. (\E u \in Listeners : NextUnsolicited(u)) => TokenHeld'
  BY <1>1 DEF NextUnsolicited, callVars, abandVars, closeVars, writeVars
<1>41. (\E p \in Procs : ContextDone(p)) => TokenHeld'
  BY <1>1 DEF ContextDone, callVars, abandVars, closeVars, writeVars
<1>42. PeerStep => TokenHeld'
  BY <1>1
     DEF PeerStep, PeerReplies, PeerStrays, LinkFault, peerFrame, callVars,
         abandVars, closeVars, writeVars
<1> QED
  BY <1>32, <1>33, <1>34, <1>35, <1>36, <1>37, <1>30, <1>38, <1>39, <1>40,
     <1>41, <1>42 DEF Next

=============================================================================
