------------------------- MODULE ConnDeliveryProofs -------------------------
(***************************************************************************)
(* Why every response of a conforming peer reaches its stream, once and in *)
(* order.  First what a step may do to a stream, to the stage of a request *)
(* and its Abandon, to the ID table and to what is in flight; then that    *)
(* each part of the delivery invariant survives it.                        *)
(***************************************************************************)
EXTENDS ConnProofs

-----------------------------------------------------------------------------
(***************************************************************************)
(* What a step does to a stream.                                           *)
(***************************************************************************)
\* route hands the message it holds to o.
Delivers(o) ==
    /\ reader.pc = "route" /\ reader.msg.id \in IDs /\ pending[reader.msg.id] = o
    /\ op[o].observed /\ Classify(o, reader.msg.kind) # "invalid"

\* Only what Next and route cannot see of the record changes.
SameStream(p, q) ==
    /\ q.queue = p.queue /\ q.canceled = p.canceled
    /\ q.terminal = p.terminal /\ q.deliveryErr = p.deliveryErr

\* o takes it: it discards it, queues it, or ends because it has too much.
Absorbs(o) ==
    /\ Delivers(o) /\ ~AtRoute' /\ UNCHANGED inbox /\ got'[o] = got[o]
    /\ op'[o].terminal => op[o].terminal \/ Classify(o, reader.msg.kind) = "complete"
    /\ \/ /\ op[o].canceled /\ op'[o].canceled /\ op'[o].queue = op[o].queue
          /\ op'[o].deliveryErr = op[o].deliveryErr
       \/ /\ ~op[o].canceled /\ ~op'[o].canceled
          /\ op'[o].queue = Append(op[o].queue, reader.msg)
          /\ op'[o].deliveryErr = op[o].deliveryErr
       \/ op'[o].canceled /\ op'[o].deliveryErr # {} /\ op'[o].queue = <<>>

\* What a step does to the stream of o: nothing; cancelOperation ends it; Next
\* takes a response; retire or the end of the write completes it; route adds to
\* it, discards, or ends it because it is full.
StreamMoves(o) ==
  /\ op'[o].observed = op[o].observed \/ pc'[o] \in {"observed", "open"}
  /\ \/ SameStream(op[o], op'[o]) /\ got'[o] = got[o]
     \/ /\ ~op[o].terminal /\ op[o].deliveryErr = {} /\ ~op'[o].terminal
        /\ op'[o].canceled /\ op'[o].queue = <<>> /\ op'[o].deliveryErr # {}
        /\ Streaming(o) /\ got'[o] = got[o]
     \/ /\ cons[o] = "loop" /\ op[o].queue # <<>> /\ op'[o].queue = Tail(op[o].queue)
        /\ op'[o].canceled = op[o].canceled /\ op'[o].terminal = op[o].terminal
        /\ op'[o].deliveryErr = op[o].deliveryErr /\ got'[o] = got[o] + 1
     \/ /\ Live(o) /\ err' # {} /\ op'[o].deliveryErr # {}
        /\ op'[o].queue = op[o].queue /\ op'[o].canceled = op[o].canceled
        /\ got'[o] = got[o]
     \/ /\ Live(o) /\ pc[o] \in {"unsent", "observed"}
        /\ op'[o].queue = op[o].queue /\ op'[o].canceled = op[o].canceled
        /\ op'[o].deliveryErr = op[o].deliveryErr /\ got'[o] = got[o]
     \/ Absorbs(o)

StreamsMove == \A o \in Ops : StreamMoves(o)

\* cancelOperation.
LEMMA CanceledStream ==
    ASSUME TypeOK, NEW o \in Ops, NEW e, e # {}
    PROVE  LET c == Canceled(o, e) IN
           /\ c.terminal = op[o].terminal /\ c.observed = op[o].observed
           /\ \/ SameStream(op[o], c)
              \/ /\ op[o].deliveryErr = {} /\ c.canceled /\ c.queue = <<>>
                 /\ c.deliveryErr # {}
<1> USE Zenon
<1> DEFINE b == op[o].abandoning \/ CancelActs(o, "abandon")
           p == [op[o] EXCEPT !.abandoning = b]
<1>1. op[o] \in Operation
  BY DEF TypeOK
<1>2. Canceled(o, e) = IF p.deliveryErr # {} THEN p ELSE Cleared(p, e)
  BY DEF Canceled
<1> HIDE DEF b
<1>3. /\ SameStream(op[o], p) /\ p.observed = op[o].observed
      /\ p.terminal = op[o].terminal
  BY <1>1 DEF Operation, SameStream
<1>4. LET c == Cleared(p, e) IN
      /\ c.deliveryErr = e /\ c.terminal = p.terminal /\ c.queue = <<>>
      /\ c.canceled /\ c.observed = p.observed
  BY <1>1 DEF Operation, Cleared
<1> HIDE DEF p
<1> QED
  BY <1>2, <1>3, <1>4 DEF SameStream

\* route.
LEMMA AcceptedStream ==
    ASSUME TypeOK, NEW o \in Ops, NEW m \in Message, NEW last \in BOOLEAN
    PROVE  LET a == Accepted(o, m, last) IN
           /\ a.terminal => op[o].terminal \/ last
           /\ a.observed = op[o].observed
           /\ \/ /\ op[o].canceled /\ a.canceled /\ a.queue = op[o].queue
                 /\ a.deliveryErr = op[o].deliveryErr
              \/ /\ ~op[o].canceled /\ ~a.canceled
                 /\ a.queue = Append(op[o].queue, m)
                 /\ a.deliveryErr = op[o].deliveryErr
              \/ a.canceled /\ a.deliveryErr # {} /\ a.queue = <<>>
<1> USE Zenon
<1> DEFINE t == op[o].terminal \/ last
           f == op[o].ended \/ last
           p == [op[o] EXCEPT !.ready = TRUE, !.terminal = t, !.ended = f]
           b == p.abandoning \/ (~last /\ Mode[o] = "abandon")
           r == [p EXCEPT !.abandoning = b]
           n == [p EXCEPT !.queue = Append(@, m), !.bytes = @ + m.size]
<1>1. op[o] \in Operation
  BY DEF TypeOK
<1> USE <1>1
<1>2. p.canceled = op[o].canceled /\ p.canceled \in BOOLEAN
  BY DEF Operation
<1>3. \/ op[o].canceled /\ Accepted(o, m, last) = p
      \/ ~op[o].canceled /\ Accepted(o, m, last) = n
      \/ Accepted(o, m, last) = Cleared(r, {"limit"})
  <2>1. Overflows(o, m) \in BOOLEAN
    BY DEF Overflows
  <2> QED
    BY <1>2, <2>1 DEF Accepted
<1>4. t => op[o].terminal \/ last
  OBVIOUS
<1> HIDE DEF t, f, b
<1>5. /\ p.terminal = t /\ p.queue = op[o].queue /\ p.observed = op[o].observed
      /\ p.deliveryErr = op[o].deliveryErr
  BY DEF Operation
<1>6. /\ n.terminal = t /\ n.queue = Append(op[o].queue, m)
      /\ n.observed = op[o].observed /\ n.deliveryErr = op[o].deliveryErr
      /\ n.canceled = op[o].canceled
  BY DEF Operation
<1>7. LET c == Cleared(r, {"limit"}) IN
      /\ c.terminal = t /\ c.observed = op[o].observed /\ c.canceled
      /\ c.deliveryErr # {} /\ c.queue = <<>>
  BY DEF Operation, Cleared
<1> HIDE DEF p, n, r
<1> QED
  BY <1>2, <1>3, <1>4, <1>5, <1>6, <1>7

\* retire.
LEMMA RetiredStream ==
    ASSUME TypeOK, NEW o \in Ops, NEW e, e # {}
    PROVE  LET r == Retired(o, e) IN
           /\ r.queue = op[o].queue /\ r.canceled = op[o].canceled
           /\ r.observed = op[o].observed /\ r.deliveryErr # {}
<1> USE Zenon
<1>1. op[o] \in Operation
  BY DEF TypeOK
<1> DEFINE d == IF op[o].deliveryErr = {} THEN RetirementError(o, e)
                                          ELSE op[o].deliveryErr
<1>2. Retired(o, e) = [op[o] EXCEPT !.deliveryErr = d, !.terminal = TRUE,
                                    !.ended = TRUE, !.ready = TRUE]
  BY <1>1 DEF Retired, Operation
<1>3. d # {}
  <2>1. RetirementError(o, e) # {}
    BY DEF RetirementError
  <2> QED
    BY <2>1
<1> HIDE DEF d
<1> QED
  BY <1>1, <1>2, <1>3 DEF Operation

\* A step that leaves the streams alone.
LEMMA StreamsKept ==
    ASSUME UNCHANGED <<op, got>>
    PROVE  StreamsMove
BY Zenon DEF StreamsMove, StreamMoves, SameStream

\* A step that writes one record.
LEMMA OneStream ==
    ASSUME TypeOK, NEW o \in Ops, NEW q, op' = [op EXCEPT ![o] = q],
           \A x \in Ops \ {o} : got'[x] = got[x], op'[o] = q => StreamMoves(o)
    PROVE  StreamsMove
<1> USE Zenon
<1>1. op'[o] = q /\ \A x \in Ops \ {o} : op'[x] = op[x]
  BY DEF TypeOK
<1>2. \A x \in Ops \ {o} : StreamMoves(x)
  BY <1>1 DEF StreamMoves, SameStream
<1> QED
  BY <1>1, <1>2 DEF StreamsMove

\* cancelOperation.
LEMMA CancelStream ==
    ASSUME TypeOK, NEW o \in Ops, NEW e \in {CtxErr, ErrClosed}, Streaming(o),
           CancelOperation(o, e), UNCHANGED got
    PROVE  StreamsMove
<1> USE Zenon
<1>1. Owned(o) => StreamsMove
  BY StreamsKept DEF CancelOperation
<1>2. CASE ~Owned(o)
  <2>1. op' = [op EXCEPT ![o] = Canceled(o, e)] /\ ~op[o].terminal
    BY <1>2 DEF CancelOperation, Owned
  <2>2. e # {}
    BY DEF CtxErr, ErrClosed
  <2> DEFINE c == Canceled(o, e)
  <2>3. /\ c.terminal = op[o].terminal /\ c.observed = op[o].observed
        /\ \/ SameStream(op[o], c)
           \/ /\ op[o].deliveryErr = {} /\ c.canceled /\ c.queue = <<>>
              /\ c.deliveryErr # {}
    BY <2>2, CanceledStream
  <2> HIDE DEF c
  <2>4. op'[o] = c => StreamMoves(o)
    BY <2>1, <2>3 DEF StreamMoves
  <2> QED
    BY <2>1, <2>4, OneStream DEF c
<1> QED
  BY <1>1, <1>2

\* removeDefinitelyUnsent and completeNoResponse.
LEMMA CompleteStream ==
    ASSUME TypeOK, NEW o \in Ops, pc[o] \in {"unsent", "observed"}, Complete(o),
           UNCHANGED got
    PROVE  StreamsMove
<1> USE Zenon
<1> DEFINE q == [op[o] EXCEPT !.terminal = TRUE, !.ended = TRUE, !.ready = TRUE]
<1>1. ~Live(o) => StreamsMove
  BY StreamsKept DEF Complete
<1>2. CASE Live(o)
  <2>1. op' = [op EXCEPT ![o] = q]
    BY <1>2 DEF Complete
  <2>2. /\ q.queue = op[o].queue /\ q.canceled = op[o].canceled
        /\ q.deliveryErr = op[o].deliveryErr /\ q.observed = op[o].observed
    BY DEF TypeOK, Operation
  <2> HIDE DEF q
  <2> QED
    BY <1>2, <2>1, <2>2, OneStream DEF StreamMoves
<1> QED
  BY <1>1, <1>2

\* retire.
LEMMA RetireStream ==
    ASSUME TypeOK, NEW e, e # {}, Retire(e), UNCHANGED got
    PROVE  StreamsMove
<1> USE Zenon
<1>1. err # {} => StreamsMove
  BY StreamsKept DEF Retire, retireVars
<1>2. CASE err = {}
  <2>1. op' = [o \in Ops |-> IF Live(o) THEN Retired(o, err') ELSE op[o]]
    BY <1>2 DEF Retire
  <2>2. err' # {}
    BY RetireEnds
  <2>3. ASSUME NEW o \in Ops PROVE StreamMoves(o)
    <3>1. op'[o] = IF Live(o) THEN Retired(o, err') ELSE op[o]
      BY <2>1
    <3> QED
      BY <2>2, <3>1, RetiredStream, SMT DEF StreamMoves, SameStream
  <2> QED
    BY <2>3 DEF StreamsMove
<1> QED
  BY <1>1, <1>2

\* route hands the message to o, which takes it.
Routes(o) ==
    /\ Absorbs(o) /\ op'[o].observed = op[o].observed
    /\ op' = [op EXCEPT ![o] = op'[o]] /\ \A x \in Ops \ {o} : op'[x] = op[x]
    /\ pending' = IF Classify(o, reader.msg.kind) = "complete" THEN Without(o)
                                                            ELSE pending

\* route looks its message up in pending: an invalid one changes nothing, any
\* other goes to the operation the entry names.
LEMMA RouteCases ==
    ASSUME TypeOK, Route
    PROVE  \E o \in Ops :
              /\ o = pending[reader.msg.id] /\ UNCHANGED <<got, inbox>>
              /\ \/ /\ Classify(o, reader.msg.kind) = "invalid"
                    /\ UNCHANGED <<op, pending>>
                 \/ Routes(o)
<1> USE Zenon
<1>1. PICK m \in Message : m = reader.msg
  BY DEF TypeOK, ReaderType
<1>2. PICK o \in Ops : o = pending[m.id]
  BY <1>1 DEF Route, TypeOK, IDType
<1> DEFINE last == Classify(o, m.kind) = "complete"
           a == Accepted(o, m, last)
<1>3. UNCHANGED <<got, inbox>>
  BY DEF Route, readerFrame, streamVars
<1>4. \/ Classify(o, m.kind) = "invalid" /\ UNCHANGED <<op, pending>>
      \/ /\ op' = [op EXCEPT ![o] = a] /\ Delivers(o)
         /\ pending' = IF last THEN Without(o) ELSE pending
         /\ reader' = ReaderNext \/ reader' = ReaderFails({"limit"})
  BY <1>1, <1>2 DEF Route, Delivers
<1>5. CASE /\ op' = [op EXCEPT ![o] = a] /\ Delivers(o)
           /\ pending' = IF last THEN Without(o) ELSE pending
           /\ reader' = ReaderNext \/ reader' = ReaderFails({"limit"})
  <2> USE <1>5
  <2>1. reader'.pc \in {"read", "retire"}
    BY ReaderValues
  <2>2. ~AtRoute'
    BY <2>1 DEF AtRoute
  <2>3. /\ a.terminal => op[o].terminal \/ last
        /\ a.observed = op[o].observed
        /\ \/ /\ op[o].canceled /\ a.canceled /\ a.queue = op[o].queue
              /\ a.deliveryErr = op[o].deliveryErr
           \/ /\ ~op[o].canceled /\ ~a.canceled
              /\ a.queue = Append(op[o].queue, m)
              /\ a.deliveryErr = op[o].deliveryErr
           \/ a.canceled /\ a.deliveryErr # {} /\ a.queue = <<>>
    BY AcceptedStream
  <2> HIDE DEF a
  <2>4. op'[o] = a /\ \A x \in Ops \ {o} : op'[x] = op[x]
    BY DEF TypeOK
  <2>5. Absorbs(o)
    BY <1>1, <1>3, <2>2, <2>3, <2>4 DEF Absorbs
  <2> QED
    BY <1>1, <1>2, <1>3, <2>3, <2>4, <2>5 DEF Routes
<1> QED
  BY <1>1, <1>2, <1>3, <1>4, <1>5

\* Every step moves the streams as described.
LEMMA StreamsStep ==
    ASSUME TypeOK, IDInv, Next
    PROVE  StreamsMove
<1> USE Zenon
<1>1. UNCHANGED <<op, got>> => StreamsMove
  BY StreamsKept
<1>2. ASSUME NEW o \in Ops, StartWrite(o) PROVE StreamsMove
  <2>1. /\ UNCHANGED got
        /\ op' = IF Live(o) THEN [op EXCEPT ![o].writeStarted = TRUE] ELSE op
    BY <1>2 DEF StartWrite, streamVars
  <2> USE <2>1
  <2>2. ~Live(o) => StreamsMove
    BY <1>1
  <2>3. CASE Live(o)
    <3> USE <2>3
    <3> DEFINE q == [op[o] EXCEPT !.writeStarted = TRUE]
    <3>1. op' = [op EXCEPT ![o] = q]
      OBVIOUS
    <3>2. SameStream(op[o], q) /\ q.observed = op[o].observed
      BY DEF TypeOK, Operation, SameStream
    <3> HIDE DEF q
    <3> QED
      BY <3>1, <3>2, OneStream DEF StreamMoves
  <2> QED
    BY <2>2, <2>3
<1>3. \A o \in Ops : RemoveDefinitelyUnsent(o) => StreamsMove
  BY CompleteStream DEF RemoveDefinitelyUnsent, streamVars
<1>4. ASSUME NEW o \in Ops, ObserveWrite(o) PROVE StreamsMove
  <2> DEFINE q == [op[o] EXCEPT !.observed = TRUE]
  <2>1. /\ pc'[o] \in {"observed", "open"} /\ UNCHANGED got
        /\ op' = [op EXCEPT ![o].observed = TRUE]
    BY <1>4 DEF ObserveWrite, TypeOK, CallType
  <2>2. op' = [op EXCEPT ![o] = q]
    BY <2>1
  <2>3. SameStream(op[o], q)
    BY DEF TypeOK, Operation, SameStream
  <2> HIDE DEF q
  <2> QED
    BY <2>1, <2>2, <2>3, OneStream DEF StreamMoves
<1>5. \A o \in Ops : CompleteNoResponse(o) => StreamsMove
  BY CompleteStream DEF CompleteNoResponse
<1>6. ASSUME NEW o \in Ops, NextCall(o) PROVE StreamsMove
  <2>1. Streaming(o) /\ UNCHANGED got
    BY <1>6 DEF NextCall, Streaming
  <2>2. CancelOperation(o, CtxErr) => StreamsMove
    BY <2>1, CancelStream
  <2> QED
    BY <1>6, <1>1, <2>1, <2>2 DEF NextCall
<1>7. ASSUME NEW o \in Ops, NextLoop(o) PROVE StreamsMove
  <2>1. CASE /\ cons[o] = "loop" /\ op[o].queue # <<>>
             /\ op' = [op EXCEPT ![o] = Taken(op[o])]
             /\ got' = [got EXCEPT ![o] = @ + 1]
    <3> USE <2>1
    <3>1. got'[o] = got[o] + 1 /\ \A x \in Ops \ {o} : got'[x] = got[x]
      BY DEF TypeOK, StreamType
    <3>2. LET q == Taken(op[o]) IN
          /\ q.queue = Tail(op[o].queue) /\ q.canceled = op[o].canceled
          /\ q.terminal = op[o].terminal /\ q.deliveryErr = op[o].deliveryErr
          /\ q.observed = op[o].observed
      BY DEF TypeOK, Operation, Taken
    <3> QED
      BY <3>1, <3>2, OneStream DEF StreamMoves
  <2> QED
    BY <1>7, <1>1, <2>1 DEF NextLoop
<1>8. ASSUME NEW o \in Ops, NextWake(o) PROVE StreamsMove
  <2>1. Streaming(o) /\ UNCHANGED got
    BY <1>8 DEF NextWake, Streaming
  <2>2. CancelOperation(o, CtxErr) => StreamsMove
    BY <2>1, CancelStream
  <2>3. CASE op' = [op EXCEPT ![o].ready = FALSE]
    <3> DEFINE q == [op[o] EXCEPT !.ready = FALSE]
    <3>1. op' = [op EXCEPT ![o] = q]
      BY <2>3
    <3>2. SameStream(op[o], q) /\ q.observed = op[o].observed
      BY DEF TypeOK, Operation, SameStream
    <3> HIDE DEF q
    <3> QED
      BY <2>1, <3>1, <3>2, OneStream DEF StreamMoves
  <2> QED
    BY <1>8, <1>1, <2>1, <2>2, <2>3 DEF NextWake
<1>9. ASSUME NEW o \in Ops, CloseStream(o) PROVE StreamsMove
  <2>1. Streaming(o) /\ UNCHANGED got /\ CancelOperation(o, ErrClosed)
    BY <1>9 DEF CloseStream, Streaming
  <2> QED
    BY <2>1, CancelStream
<1>10. ASSUME NEW o \in Ops, WatchOperation(o) PROVE StreamsMove
  <2>1. Streaming(o) /\ UNCHANGED got
    BY <1>10 DEF WatchOperation, Streaming
  <2>2. CancelOperation(o, CtxErr) => StreamsMove
    BY <2>1, CancelStream
  <2> QED
    BY <1>10, <1>1, <2>1, <2>2 DEF WatchOperation
<1>11. ASSUME NEW o \in Ops, AbandonTombstone(o) PROVE StreamsMove
  <2> DEFINE q == [op[o] EXCEPT !.ended = TRUE, !.ready = TRUE]
  <2>1. UNCHANGED got /\ (UNCHANGED op \/ op' = [op EXCEPT ![o] = q])
    BY <1>11 DEF AbandonTombstone, streamVars
  <2>2. SameStream(op[o], q) /\ q.observed = op[o].observed
    BY DEF TypeOK, Operation, SameStream
  <2> HIDE DEF q
  <2>3. op' = [op EXCEPT ![o] = q] => StreamsMove
    BY <2>1, <2>2, OneStream DEF StreamMoves
  <2> QED
    BY <1>1, <2>1, <2>3
<1>12. \A o \in Ops : AbandonRetire(o) => StreamsMove
  BY RetireStream DEF AbandonRetire, IDInv, RetireHasCause, streamVars
<1>13. \A c \in Closers : CloseFinish(c) => StreamsMove
  BY RetireStream, ErrorsNonEmpty DEF CloseFinish, streamVars
<1>14. WriteRetire => StreamsMove
  BY RetireStream DEF WriteRetire, IDInv, RetireHasCause, streamVars
<1>15. ASSUME Route PROVE StreamsMove
  <2>1. PICK o \in Ops : /\ o = pending[reader.msg.id] /\ UNCHANGED got
                         /\ UNCHANGED op \/ Routes(o)
    BY <1>15, RouteCases
  <2>2. CASE Routes(o)
    <3>1. op' = [op EXCEPT ![o] = op'[o]] /\ \A x \in Ops \ {o} : op'[x] = op[x]
      BY <2>2 DEF Routes
    <3>2. StreamMoves(o)
      BY <2>2 DEF Routes, StreamMoves
    <3> QED
      BY <2>1, <3>1, <3>2, OneStream
  <2> QED
    BY <1>1, <2>1, <2>2
<1>16. ReaderRetire => StreamsMove
  BY RetireStream DEF ReaderRetire, IDInv, RetireHasCause, streamVars
<1>17. AsyncRetire => StreamsMove
  BY RetireStream DEF AsyncRetire, IDInv, RetireHasCause, streamVars
<1>18. (\E o \in Ops : DoStep(o)) => StreamsMove
  BY <1>1, <1>2, <1>3, <1>4, <1>5
     DEF DoStep, Reserve, ReserveCanceled, GiveBack, InstallPending, TakeToken,
         WriteDone, streamVars
<1>19. (\E o \in Ops : StreamStep(o)) => StreamsMove
  BY <1>6, <1>7, <1>8, <1>9 DEF StreamStep
<1>20. (\E o \in Ops : WatchOperation(o)) => StreamsMove
  BY <1>10
<1>21. (\E o \in Ops : AbandonStep(o)) => StreamsMove
  BY <1>1, <1>11, <1>12
     DEF AbandonStep, AbandonReserve, AbandonTakeToken, AbandonWritten, streamVars
<1>22. (\E c \in Closers : CloseStep(c)) => StreamsMove
  BY <1>1, <1>13
     DEF CloseStep, CloseBegin, CloseAwait, CloseAcquire, CloseWritten, streamVars
<1>23. WriteStep => StreamsMove
  BY <1>1, <1>14 DEF WriteStep, WriteCheck, CancelWins, WriteReturn, streamVars
<1>24. Flow => StreamsMove
  BY <1>1 DEF Flow, streamVars
<1>25. ReaderStep => StreamsMove
  BY <1>1, <1>15, <1>16
     DEF ReaderStep, ReadFrame, ReadError, RouteUnsolicited, RouteUnowned,
         RouteWait, RouteAgain, readerFrame, streamVars
<1>26. (\E u \in Listeners : NextUnsolicited(u)) => StreamsMove
  BY <1>1 DEF NextUnsolicited, streamVars
<1>27. (\E p \in Procs : ContextDone(p)) => StreamsMove
  BY <1>1 DEF ContextDone, streamVars
<1>28. PeerStep => StreamsMove
  BY <1>1 DEF PeerStep, PeerReplies, PeerStrays, LinkFault, peerFrame, streamVars
<1> QED
  BY <1>18, <1>19, <1>20, <1>21, <1>22, <1>23, <1>24, <1>25, <1>17, <1>26,
     <1>27, <1>28 DEF Next

-----------------------------------------------------------------------------
(***************************************************************************)
(* What a step does to the goroutines that serve a stream.                 *)
(***************************************************************************)
\* They appear when the write is observed, and from one another; io.EOF is
\* reported on a terminal record with nothing left in it.
StageMoves(o) ==
    /\ apc'[o] # "none" \/ o \in watch' \/ cons'[o] # "none" =>
          Streaming(o) \/ pc'[o] \in {"observed", "open"}
    /\ pc'[o] = "observed" => pc[o] = "observed" \/ o \in NoResponse
    /\ cons'[o] = "eof" =>
          \/ cons[o] = "eof"
          \/ /\ op[o].terminal /\ op[o].deliveryErr = {} /\ op[o].queue = <<>>
             /\ op'[o] = op[o] /\ got'[o] = got[o]

StagesMove == \A o \in Ops : StageMoves(o)

\* A step of the goroutines of o.
LEMMA OneStage ==
    ASSUME TypeOK, NEW o \in Ops,
           UNCHANGED apc \/ \E s : apc' = [apc EXCEPT ![o] = s],
           UNCHANGED cons \/ \E s : cons' = [cons EXCEPT ![o] = s],
           watch' \subseteq watch \cup {o},
           UNCHANGED pc \/ \E s : pc' = [pc EXCEPT ![o] = s], StageMoves(o)
    PROVE  StagesMove
<1> USE Zenon
<1>1. ASSUME NEW x \in Ops \ {o} PROVE apc'[x] = apc[x]
  BY DEF TypeOK, AbandonType
<1>2. ASSUME NEW x \in Ops \ {o} PROVE cons'[x] = cons[x]
  BY DEF TypeOK, StreamType
<1>3. ASSUME NEW x \in Ops \ {o} PROVE pc'[x] = pc[x]
  BY DEF TypeOK, CallType
<1>4. ASSUME NEW x \in Ops \ {o} PROVE StageMoves(x)
  <2>1. x \in watch' => x \in watch
    OBVIOUS
  <2> QED
    BY <1>1, <1>2, <1>3, <2>1 DEF StageMoves, Streaming
<1> QED
  BY <1>4 DEF StagesMove

\* A Do call on its way to the write.
LEMMA EarlyStage ==
    ASSUME TypeOK, NEW o \in Ops, NEW s, s # "observed",
           pc' = [pc EXCEPT ![o] = s], UNCHANGED <<apc, cons, watch>>
    PROVE  StagesMove
<1> USE Zenon
<1>1. pc'[o] = s
  BY DEF TypeOK, CallType
<1>2. StageMoves(o)
  BY <1>1 DEF StageMoves, Streaming
<1> QED
  BY <1>2, OneStage

\* A step of the stream of o that may cancel it.
LEMMA CancelStage ==
    ASSUME TypeOK, NEW o \in Ops, Streaming(o), NEW e, UNCHANGED pc,
           CancelOperation(o, e) \/ UNCHANGED apc,
           UNCHANGED cons \/ \E s : s # "eof" /\ cons' = [cons EXCEPT ![o] = s],
           watch' \subseteq watch
    PROVE  StagesMove
<1> USE Zenon
<1>1. cons'[o] = "eof" => cons[o] = "eof"
  BY DEF TypeOK, StreamType
<1>2. StageMoves(o)
  BY <1>1 DEF StageMoves
<1>3. UNCHANGED apc \/ \E s : apc' = [apc EXCEPT ![o] = s]
  BY DEF CancelOperation
<1> QED
  BY <1>2, <1>3, OneStage

\* Every step moves them as described.
LEMMA StagesStep ==
    ASSUME TypeOK, Next
    PROVE  StagesMove
<1> USE Zenon
<1>1. UNCHANGED <<pc, apc, cons, watch>> => StagesMove
  BY DEF StagesMove, StageMoves, Streaming
<1>2. ASSUME NEW o \in Ops, Reserve(o) PROVE StagesMove
  <2>1. UNCHANGED <<apc, cons, watch>>
    BY <1>2 DEF Reserve, streamVars, abandVars
  <2>2. \E s \in {"failed", "reserved", "reserving"} : pc' = [pc EXCEPT ![o] = s]
    BY <1>2 DEF Reserve
  <2> QED
    BY <2>1, <2>2, EarlyStage
<1>3. \A o \in Ops : ReserveCanceled(o) => StagesMove
  BY EarlyStage DEF ReserveCanceled, streamVars, abandVars
<1>4. \A o \in Ops : GiveBack(o) => StagesMove
  BY EarlyStage DEF GiveBack, streamVars, abandVars
<1>5. \A o \in Ops : InstallPending(o) => StagesMove
  BY EarlyStage DEF InstallPending, streamVars, abandVars
<1>6. ASSUME NEW o \in Ops, TakeToken(o) PROVE StagesMove
  <2>1. UNCHANGED <<apc, cons, watch>>
    BY <1>6 DEF TakeToken, streamVars, abandVars
  <2>2. \E s \in {"starting", "unsent", "failed"} : pc' = [pc EXCEPT ![o] = s]
    BY <1>6 DEF TakeToken, AfterWriteError
  <2> QED
    BY <2>1, <2>2, EarlyStage
<1>7. \A o \in Ops : StartWrite(o) => StagesMove
  BY EarlyStage DEF StartWrite, streamVars, abandVars
<1>8. ASSUME NEW o \in Ops, WriteDone(o) PROVE StagesMove
  <2>1. UNCHANGED <<apc, cons, watch>>
    BY <1>8 DEF WriteDone, streamVars, abandVars
  <2>2. \E s \in {"written", "unsent", "failed"} : pc' = [pc EXCEPT ![o] = s]
    BY <1>8 DEF WriteDone, AfterWriteError
  <2> QED
    BY <2>1, <2>2, EarlyStage
<1>9. \A o \in Ops : RemoveDefinitelyUnsent(o) => StagesMove
  BY EarlyStage DEF RemoveDefinitelyUnsent, streamVars, abandVars
<1>10. ASSUME NEW o \in Ops, ObserveWrite(o) PROVE StagesMove
  <2> USE <1>10
  <2>1. pc'[o] \in {"observed", "open"} /\ (pc'[o] = "observed" => o \in NoResponse)
    BY DEF ObserveWrite, TypeOK, CallType
  <2>2. cons'[o] = "eof" => cons[o] = "eof"
    BY DEF ObserveWrite, TypeOK, StreamType
  <2>3. StageMoves(o)
    BY <2>1, <2>2 DEF StageMoves
  <2> QED
    BY <2>3, OneStage DEF ObserveWrite, abandVars
<1>11. ASSUME NEW o \in Ops, CompleteNoResponse(o) PROVE StagesMove
  <2> USE <1>11
  <2>1. pc'[o] = "open"
    BY DEF CompleteNoResponse, TypeOK, CallType
  <2>2. cons'[o] = "eof" => cons[o] = "eof"
    BY DEF CompleteNoResponse, TypeOK, StreamType
  <2>3. StageMoves(o)
    BY <2>1, <2>2 DEF StageMoves
  <2> QED
    BY <2>3, OneStage DEF CompleteNoResponse, abandVars
<1>12. \A o \in Ops : NextCall(o) => StagesMove
  BY CancelStage DEF NextCall, Streaming, streamFrame, callVars
<1>13. ASSUME NEW o \in Ops, NextLoop(o) PROVE StagesMove
  <2>1. /\ cons[o] = "loop" /\ UNCHANGED <<pc, apc, watch>>
        /\ \E s : cons' = [cons EXCEPT ![o] = s]
    BY <1>13 DEF NextLoop, streamFrame, callVars
  <2>2. cons'[o] = "eof" =>
           /\ op[o].terminal /\ op[o].deliveryErr = {} /\ op[o].queue = <<>>
           /\ UNCHANGED <<op, got>>
    BY <1>13 DEF NextLoop, TypeOK, StreamType
  <2>3. StageMoves(o)
    BY <2>1, <2>2 DEF StageMoves, Streaming
  <2> QED
    BY <2>1, <2>3, OneStage
<1>14. ASSUME NEW o \in Ops, NextWake(o) PROVE StagesMove
  <2> USE <1>14
  <2>1. /\ Streaming(o) /\ UNCHANGED <<pc, watch>>
        /\ CancelOperation(o, CtxErr) \/ UNCHANGED apc
    BY DEF NextWake, Streaming, streamFrame, callVars
  <2>2. \E s \in {"loop", "idle"} : cons' = [cons EXCEPT ![o] = s]
    BY DEF NextWake
  <2> QED
    BY <2>1, <2>2, CancelStage
<1>15. \A o \in Ops : CloseStream(o) => StagesMove
  BY CancelStage DEF CloseStream, Streaming, streamFrame, callVars
<1>16. \A o \in Ops : WatchOperation(o) => StagesMove
  BY CancelStage DEF WatchOperation, Streaming, streamFrame, callVars
<1>17. ASSUME NEW o \in Ops, AbandonStep(o) PROVE StagesMove
  <2>1. apc[o] # "none" /\ UNCHANGED <<pc, cons, watch>>
    BY <1>17 DEF AbandonStep, AbandonReserve, AbandonTakeToken, AbandonTombstone,
                 AbandonWritten, AbandonRetire, callVars, streamVars
  <2>2. \E s : apc' = [apc EXCEPT ![o] = s]
    BY <1>17 DEF AbandonStep, AbandonReserve, AbandonTakeToken, AbandonFails,
                 AbandonTombstone, AbandonWritten, AbandonRetire
  <2>3. StageMoves(o)
    BY <2>1 DEF StageMoves, Streaming
  <2> QED
    BY <2>1, <2>2, <2>3, OneStage
<1>18. ASSUME Route PROVE StagesMove
  <2>1. PICK o \in Ops : o = pending[reader.msg.id] /\ op[o].observed
    BY <1>18 DEF Route, TypeOK, IDType
  <2>2. /\ UNCHANGED <<pc, cons, watch>>
        /\ UNCHANGED apc \/ apc' = [apc EXCEPT ![o] = "spawned"]
    BY <1>18, <2>1 DEF Route, readerFrame, callVars, streamVars
  <2>3. StageMoves(o)
    BY <2>1, <2>2 DEF StageMoves, Streaming
  <2> QED
    BY <2>2, <2>3, OneStage
<1>19. (\E o \in Ops : DoStep(o)) => StagesMove
  BY <1>2, <1>3, <1>4, <1>5, <1>6, <1>7, <1>8, <1>9, <1>10, <1>11 DEF DoStep
<1>20. (\E o \in Ops : StreamStep(o)) => StagesMove
  BY <1>12, <1>13, <1>14, <1>15 DEF StreamStep
<1>21. (\E c \in Closers : CloseStep(c)) => StagesMove
  BY <1>1
     DEF CloseStep, CloseBegin, CloseAwait, CloseAcquire, CloseWritten,
         CloseFinish, callVars, streamVars, abandVars
<1>22. WriteStep => StagesMove
  BY <1>1
     DEF WriteStep, WriteCheck, CancelWins, WriteReturn, WriteRetire, callVars,
         streamVars, abandVars
<1>23. Flow => StagesMove
  BY <1>1 DEF Flow, callVars, streamVars, abandVars
<1>24. ReaderStep => StagesMove
  BY <1>1, <1>18
     DEF ReaderStep, ReadFrame, ReadError, RouteUnsolicited, RouteUnowned,
         RouteWait, RouteAgain, ReaderRetire, readerFrame, callVars, streamVars,
         abandVars
<1>25. AsyncRetire => StagesMove
  BY <1>1 DEF AsyncRetire, callVars, streamVars, abandVars
<1>26. (\E u \in Listeners : NextUnsolicited(u)) => StagesMove
  BY <1>1 DEF NextUnsolicited, callVars, streamVars, abandVars
<1>27. (\E p \in Procs : ContextDone(p)) => StagesMove
  BY <1>1 DEF ContextDone, callVars, streamVars, abandVars
<1>28. PeerStep => StagesMove
  BY <1>1
     DEF PeerStep, PeerReplies, PeerStrays, LinkFault, peerFrame, callVars,
         streamVars, abandVars
<1> QED
  BY <1>19, <1>20, <1>16, <1>17, <1>21, <1>22, <1>23, <1>24, <1>25, <1>26,
     <1>27, <1>28 DEF Next

-----------------------------------------------------------------------------
(***************************************************************************)
(* What a step does to the ID of an operation.                             *)
(***************************************************************************)
\* A pending record leaves the table of a live connection when its Do call
\* gives up or wants no response, with its terminal response, or for a
\* tombstone.
TableMoves(o) ==
    /\ id'[o] = id[o] \/ pc[o] \in {"idle", "reserving"}
    /\ Files(o) /\ err' = {} =>
          \/ Files(o)'
          \/ pc[o] \in {"unsent", "observed"} /\ pc'[o] \in {"failed", "open"}
          \/ Absorbs(o) /\ Classify(o, reader.msg.kind) = "complete"
          \/ apc[o] # "none" /\ Buried(o)'

\* A tombstone stays as long as the connection.
TombMoves(i) ==
    /\ tombstones[i] # None /\ err' = {} => tombstones'[i] = tombstones[i]
    /\ tombstones'[i] \in {tombstones[i], None} \/ apc[tombstones'[i]] # "none"

TablesMove == (\A o \in Ops : TableMoves(o)) /\ (\A i \in IDs : TombMoves(i))

\* removeDefinitelyUnsent and completeNoResponse.
LEMMA CompleteTable ==
    ASSUME TypeOK, NEW o \in Ops, Complete(o), UNCHANGED <<id, tombstones>>,
           pc[o] \in {"unsent", "observed"}, pc'[o] \in {"failed", "open"}
    PROVE  TablesMove
<1> USE Zenon
<1>1. ASSUME NEW x \in Ops PROVE TableMoves(x)
  <2>1. CASE x = o
    BY <2>1 DEF TableMoves
  <2>2. CASE x # o
    <3>1. Files(x) => Files(x)'
      BY <2>2 DEF Files, Complete, Without
    <3> QED
      BY <3>1 DEF TableMoves
  <2> QED
    BY <2>1, <2>2
<1> QED
  BY <1>1 DEF TablesMove, TombMoves

\* retire.
LEMMA RetireTable ==
    ASSUME TypeOK, NEW e, e # {}, Retire(e), UNCHANGED id
    PROVE  TablesMove
<1> USE Zenon
<1>1. err' # {}
  BY RetireEnds
<1>2. tombstones' \in {tombstones, [i \in IDs |-> None]}
  BY DEF Retire, retireVars
<1>3. \A i \in IDs : tombstones'[i] \in {tombstones[i], None}
  BY <1>2
<1> QED
  BY <1>1, <1>3 DEF TablesMove, TableMoves, TombMoves

\* Every step moves the tables as described.
LEMMA TablesStep ==
    ASSUME TypeOK, IDInv, Next
    PROVE  TablesMove
<1> USE Zenon
<1>1. UNCHANGED <<pending, tombstones, id>> => TablesMove
  BY DEF TablesMove, TableMoves, TombMoves, Files
<1>2. ASSUME NEW o \in Ops, Reserve(o) PROVE TablesMove
  <2>1. UNCHANGED <<pending, tombstones>> /\ pc[o] \in {"idle", "reserving"}
    BY <1>2 DEF Reserve
  <2>2. \A x \in Ops \ {o} : id'[x] = id[x]
    BY <1>2 DEF Reserve, TypeOK, CallType
  <2>3. ~Files(o)
    BY <2>1, ConnAssumption DEF Files, IDInv, PendingFiled
  <2>4. ASSUME NEW x \in Ops PROVE TableMoves(x)
    BY <2>1, <2>2, <2>3 DEF TableMoves, Files
  <2> QED
    BY <2>1, <2>4 DEF TablesMove, TombMoves
<1>3. ASSUME NEW o \in Ops, InstallPending(o) PROVE TablesMove
  <2>1. /\ UNCHANGED <<tombstones, id>> /\ id[o] \in reserved
        /\ pending' = [pending EXCEPT ![id[o]] = o]
    BY <1>3 DEF InstallPending
  <2>2. pending[id[o]] = None
    BY <2>1 DEF IDInv, IDsExclusive, Disjoint, TypeOK, IDType
  <2>3. ASSUME NEW x \in Ops, Files(x) PROVE Files(x)'
    <3>1. x # None /\ id[x] # id[o]
      BY <2>2, <2>3, ConnAssumption DEF Files
    <3> QED
      BY <2>1, <2>3, <3>1 DEF Files, TypeOK, IDType
  <2> QED
    BY <2>1, <2>3 DEF TablesMove, TableMoves, TombMoves
<1>4. ASSUME NEW o \in Ops, RemoveDefinitelyUnsent(o) PROVE TablesMove
  <2>1. pc'[o] = "failed"
    BY <1>4 DEF RemoveDefinitelyUnsent, TypeOK, CallType
  <2> QED
    BY <1>4, <2>1, CompleteTable DEF RemoveDefinitelyUnsent
<1>5. ASSUME NEW o \in Ops, CompleteNoResponse(o) PROVE TablesMove
  <2>1. pc'[o] = "open"
    BY <1>5 DEF CompleteNoResponse, TypeOK, CallType
  <2> QED
    BY <1>5, <2>1, CompleteTable DEF CompleteNoResponse
<1>6. ASSUME NEW o \in Ops, AbandonTombstone(o) PROVE TablesMove
  <2>1. UNCHANGED id /\ apc[o] # "none"
    BY <1>6 DEF AbandonTombstone, callVars
  <2>2. CASE /\ Live(o) /\ pending' = Without(o)
             /\ tombstones' = [tombstones EXCEPT ![id[o]] = o]
    <3> USE <2>2
    <3>1. id[o] \in IDs /\ pending[id[o]] = o /\ o # None
      BY ConnAssumption DEF Live, IDInv, PendingFiled
    <3>2. tombstones[id[o]] = None
      BY <3>1 DEF IDInv, IDsExclusive, Disjoint
    <3>3. tombstones'[id[o]] = o
      BY <3>1 DEF TypeOK, IDType
    <3>4. \A i \in IDs \ {id[o]} : tombstones'[i] = tombstones[i]
      BY DEF TypeOK, IDType
    <3>5. TableMoves(o)
      BY <2>1, <3>1, <3>3 DEF TableMoves, Buried
    <3>6. ASSUME NEW x \in Ops \ {o} PROVE TableMoves(x)
      BY <2>1 DEF TableMoves, Files, Without
    <3>7. ASSUME NEW i \in IDs PROVE TombMoves(i)
      BY <2>1, <3>2, <3>3, <3>4 DEF TombMoves
    <3> QED
      BY <3>5, <3>6, <3>7 DEF TablesMove
  <2> QED
    BY <1>6, <1>1, <2>1, <2>2 DEF AbandonTombstone, AbandonMoot, Tombstone
<1>7. \A o \in Ops : AbandonRetire(o) => TablesMove
  BY RetireTable DEF AbandonRetire, IDInv, RetireHasCause, callVars
<1>8. \A c \in Closers : CloseFinish(c) => TablesMove
  BY RetireTable, ErrorsNonEmpty DEF CloseFinish, callVars
<1>9. WriteRetire => TablesMove
  BY RetireTable DEF WriteRetire, IDInv, RetireHasCause, callVars
<1>10. ReaderRetire => TablesMove
  BY RetireTable DEF ReaderRetire, IDInv, RetireHasCause, callVars
<1>11. AsyncRetire => TablesMove
  BY RetireTable DEF AsyncRetire, IDInv, RetireHasCause, callVars
<1>12. ASSUME Route PROVE TablesMove
  <2>1. UNCHANGED <<id, tombstones>>
    BY <1>12 DEF Route, readerFrame, callVars
  <2>2. PICK o \in Ops : UNCHANGED pending \/ Routes(o)
    BY <1>12, RouteCases
  <2>3. CASE Routes(o) /\ ~UNCHANGED pending
    <3>1. /\ Absorbs(o) /\ Classify(o, reader.msg.kind) = "complete"
          /\ pending' = Without(o)
      BY <2>3 DEF Routes
    <3>2. ASSUME NEW x \in Ops \ {o} PROVE TableMoves(x)
      BY <2>1, <3>1 DEF TableMoves, Files, Without
    <3> QED
      BY <2>1, <3>1, <3>2 DEF TablesMove, TableMoves, TombMoves
  <2> QED
    BY <1>1, <2>1, <2>2, <2>3
<1>13. (\E o \in Ops : DoStep(o)) => TablesMove
  BY <1>1, <1>2, <1>3, <1>4, <1>5
     DEF DoStep, ReserveCanceled, GiveBack, TakeToken, StartWrite, WriteDone,
         ObserveWrite, idVars
<1>14. (\E o \in Ops : StreamStep(o)) => TablesMove
  BY <1>1
     DEF StreamStep, NextCall, NextLoop, NextWake, CloseStream, streamFrame,
         idVars, callVars
<1>15. (\E o \in Ops : WatchOperation(o)) => TablesMove
  BY <1>1 DEF WatchOperation, streamFrame, idVars, callVars
<1>16. (\E o \in Ops : AbandonStep(o)) => TablesMove
  BY <1>1, <1>6, <1>7
     DEF AbandonStep, AbandonReserve, AbandonTakeToken, AbandonWritten, callVars
<1>17. (\E c \in Closers : CloseStep(c)) => TablesMove
  BY <1>1, <1>8
     DEF CloseStep, CloseBegin, CloseAwait, CloseAcquire, CloseWritten, idVars,
         callVars
<1>18. WriteStep => TablesMove
  BY <1>1, <1>9
     DEF WriteStep, WriteCheck, CancelWins, WriteReturn, idVars, callVars
<1>19. Flow => TablesMove
  BY <1>1 DEF Flow, idVars, callVars
<1>20. ReaderStep => TablesMove
  BY <1>1, <1>10, <1>12
     DEF ReaderStep, ReadFrame, ReadError, RouteUnsolicited, RouteUnowned,
         RouteWait, RouteAgain, readerFrame, callVars
<1>21. (\E u \in Listeners : NextUnsolicited(u)) => TablesMove
  BY <1>1 DEF NextUnsolicited, idVars, callVars
<1>22. (\E p \in Procs : ContextDone(p)) => TablesMove
  BY <1>1 DEF ContextDone, idVars, callVars
<1>23. PeerStep => TablesMove
  BY <1>1
     DEF PeerStep, PeerReplies, PeerStrays, LinkFault, peerFrame, idVars, callVars
<1> QED
  BY <1>13, <1>14, <1>15, <1>16, <1>17, <1>18, <1>19, <1>20, <1>11, <1>21,
     <1>22, <1>23 DEF Next

-----------------------------------------------------------------------------
(***************************************************************************)
(* What a step does to the responses on their way.                         *)
(***************************************************************************)
\* Why the reader may be through with the message it holds.
Settled ==
    \/ err # {}
    \/ reader.msg.id \notin IDs
    \/ pending[reader.msg.id] = None
    \/ Classify(pending[reader.msg.id], reader.msg.kind) = "invalid"
    \/ Absorbs(pending[reader.msg.id])

\* The reader goes on with its message or is through with it, or takes the next
\* one from the link.
ReaderMoves ==
    \/ /\ UNCHANGED inbox
       /\ AtRoute' => AtRoute /\ reader'.msg = reader.msg
       /\ AtRoute => AtRoute' \/ Settled
    \/ /\ ~AtRoute /\ inbox # <<>> /\ inbox' = Tail(inbox)
       /\ IF AtRoute' THEN reader'.msg = Head(inbox)
                      ELSE Head(inbox).kind = "malformed"

\* The peer answers, the transport carries a piece of a request to it, or the
\* reader moves.
FlightMoves ==
    \/ \E o \in Ops : PeerReplies(o)
    \/ strays' # 0
    \/ Flow
    \/ UNCHANGED <<owed, replies, strays, sent>> /\ ReaderMoves

\* Every step moves them as described.
LEMMA FlightStep ==
    ASSUME TypeOK, Next
    PROVE  FlightMoves
<1> USE Zenon
<1>1. UNCHANGED <<peerVars, wireVars, reader>> => FlightMoves
  BY DEF FlightMoves, ReaderMoves, AtRoute, peerVars, wireVars
<1>2. ASSUME UNCHANGED <<owed, replies, strays, wireVars>>, ReaderMoves
      PROVE  FlightMoves
  BY <1>2 DEF FlightMoves, wireVars
<1>3. ASSUME UNCHANGED <<readerFrame, inbox>>,
             \/ reader' = ReaderNext \/ \E e : reader' = ReaderFails(e),
             Settled
      PROVE  FlightMoves
  <2>1. reader'.pc \in {"read", "retire"}
    BY <1>3, ReaderValues
  <2>2. ~AtRoute'
    BY <2>1 DEF AtRoute
  <2> QED
    BY <1>2, <1>3, <2>2 DEF readerFrame, ReaderMoves
<1>4. ASSUME ReadFrame PROVE FlightMoves
  <2>1. /\ reader.pc = "read" /\ inbox # <<>> /\ inbox' = Tail(inbox)
        /\ UNCHANGED readerFrame
    BY <1>4 DEF ReadFrame
  <2>2. \/ reader'.pc = "retire" /\ Head(inbox).kind = "malformed"
        \/ reader'.pc = "route" /\ reader'.msg = Head(inbox)
    BY <1>4 DEF ReadFrame, TypeOK, ReaderType
  <2>3. ReaderMoves
    BY <2>1, <2>2 DEF ReaderMoves, AtRoute
  <2> QED
    BY <1>2, <2>1, <2>3 DEF readerFrame
<1>5. ASSUME ReadError PROVE FlightMoves
  <2>1. reader.pc = "read" /\ UNCHANGED <<readerFrame, inbox>>
    BY <1>5 DEF ReadError
  <2>2. reader'.pc = "retire"
    BY <1>5 DEF ReadError, TypeOK, ReaderType
  <2>3. ReaderMoves
    BY <2>1, <2>2 DEF ReaderMoves, AtRoute
  <2> QED
    BY <1>2, <2>1, <2>3 DEF readerFrame
<1>6. ASSUME RouteUnsolicited PROVE FlightMoves
  <2>1. UNCHANGED <<readerFrame, inbox>> /\ reader.msg.id = 0
    BY <1>6 DEF RouteUnsolicited
  <2>2. Settled
    BY <2>1, SMT DEF Settled, IDs
  <2>3. reader' = ReaderNext \/ \E e : reader' = ReaderFails(e)
    BY <1>6 DEF RouteUnsolicited
  <2> QED
    BY <1>3, <2>1, <2>2, <2>3
<1>7. ASSUME RouteUnowned PROVE FlightMoves
  <2>1. UNCHANGED <<readerFrame, inbox>> /\ Settled
    BY <1>7 DEF RouteUnowned, Settled
  <2>2. reader' = ReaderNext \/ \E e : reader' = ReaderFails(e)
    BY <1>7 DEF RouteUnowned
  <2> QED
    BY <1>3, <2>1, <2>2
<1>8. ASSUME RouteWait PROVE FlightMoves
  <2>1. UNCHANGED <<readerFrame, inbox>> /\ reader.pc = "route"
    BY <1>8 DEF RouteWait
  <2>2. reader'.pc = "wait" /\ reader'.msg = reader.msg
    BY <1>8 DEF RouteWait, TypeOK, ReaderType
  <2>3. ReaderMoves
    BY <2>1, <2>2 DEF ReaderMoves, AtRoute
  <2> QED
    BY <1>2, <2>1, <2>3 DEF readerFrame
<1>9. ASSUME RouteAgain PROVE FlightMoves
  <2>1. UNCHANGED <<readerFrame, inbox>> /\ reader.pc = "wait"
    BY <1>9 DEF RouteAgain
  <2>2. CASE reader' = ReaderNext /\ err # {}
    BY <1>3, <2>1, <2>2 DEF Settled
  <2>3. CASE reader' = [reader EXCEPT !.pc = "route", !.on = None]
    <3>1. reader'.pc = "route" /\ reader'.msg = reader.msg
      BY <2>3 DEF TypeOK, ReaderType
    <3>2. ReaderMoves
      BY <2>1, <3>1 DEF ReaderMoves, AtRoute
    <3> QED
      BY <1>2, <2>1, <3>2 DEF readerFrame
  <2> QED
    BY <1>9, <2>2, <2>3 DEF RouteAgain
<1>10. ASSUME Route PROVE FlightMoves
  <2>1. UNCHANGED <<readerFrame, inbox>>
    BY <1>10 DEF Route
  <2>2. Settled
    BY <1>10, RouteCases DEF Settled, Routes
  <2>3. reader' = ReaderNext \/ \E e : reader' = ReaderFails(e)
    BY <1>10 DEF Route
  <2> QED
    BY <1>3, <2>1, <2>2, <2>3
<1>11. ASSUME ReaderRetire PROVE FlightMoves
  <2>1. UNCHANGED <<peerVars, wireVars>> /\ reader.pc = "retire"
    BY <1>11 DEF ReaderRetire
  <2>2. reader'.pc = "stopped"
    BY <1>11 DEF ReaderRetire, TypeOK, ReaderType
  <2>3. ReaderMoves
    BY <2>1, <2>2 DEF ReaderMoves, AtRoute, peerVars
  <2> QED
    BY <1>2, <2>1, <2>3 DEF peerVars
<1>12. ReaderStep => FlightMoves
  BY <1>4, <1>5, <1>6, <1>7, <1>8, <1>9, <1>10, <1>11 DEF ReaderStep
<1>13. PeerStrays => FlightMoves
  BY SMT DEF PeerStrays, FlightMoves, TypeOK, PeerType
<1>14. PeerStep => FlightMoves
  BY <1>1, <1>13 DEF PeerStep, LinkFault, FlightMoves, peerFrame
<1>15. (\E o \in Ops : DoStep(o)) => FlightMoves
  BY <1>1
     DEF DoStep, Reserve, ReserveCanceled, GiveBack, InstallPending, TakeToken,
         StartWrite, WriteDone, RemoveDefinitelyUnsent, ObserveWrite,
         CompleteNoResponse
<1>16. (\E o \in Ops : StreamStep(o)) => FlightMoves
  BY <1>1
     DEF StreamStep, NextCall, NextLoop, NextWake, CloseStream, streamFrame
<1>17. (\E o \in Ops : WatchOperation(o)) => FlightMoves
  BY <1>1 DEF WatchOperation, streamFrame
<1>18. (\E o \in Ops : AbandonStep(o)) => FlightMoves
  BY <1>1
     DEF AbandonStep, AbandonReserve, AbandonTakeToken, AbandonTombstone,
         AbandonWritten, AbandonRetire
<1>19. (\E c \in Closers : CloseStep(c)) => FlightMoves
  BY <1>1
     DEF CloseStep, CloseBegin, CloseAwait, CloseAcquire, CloseWritten,
         CloseFinish
<1>20. WriteStep => FlightMoves
  BY <1>1 DEF WriteStep, WriteCheck, CancelWins, WriteReturn, WriteRetire
<1>21. Flow => FlightMoves
  BY DEF FlightMoves
<1>22. AsyncRetire => FlightMoves
  BY <1>1 DEF AsyncRetire
<1>23. (\E u \in Listeners : NextUnsolicited(u)) => FlightMoves
  BY <1>1 DEF NextUnsolicited
<1>24. (\E p \in Procs : ContextDone(p)) => FlightMoves
  BY <1>1 DEF ContextDone
<1> QED
  BY <1>12, <1>14, <1>15, <1>16, <1>17, <1>18, <1>19, <1>20, <1>21, <1>22,
     <1>23, <1>24 DEF Next

-----------------------------------------------------------------------------
(***************************************************************************)
(* When a stream exists.                                                   *)
(***************************************************************************)
\* A canceled operation stays so, and had a stream before.
LEMMA CanceledStays ==
    ASSUME NEW o, StreamMoves(o)
    PROVE  /\ op[o].canceled => op'[o].canceled
           /\ op'[o].canceled => Streaming(o)
BY Zenon DEF StreamMoves, SameStream, Absorbs, Delivers, Streaming

\* A stream is open for exactly as long as its call is observed or open, and
\* the tables agree: no step of Conn separates the two.
LEMMA StageStep ==
    ASSUME TypeOK, TypeOK', IDInv, IDInv', CallsMove, ErrMoves, StreamsMove, StagesMove,
           TablesMove, StageInv
    PROVE  StageInv'
<1> USE Zenon
<1>1. ASSUME NEW o \in Ops, Streaming(o) PROVE pc'[o] \in {"observed", "open"}
  <2>1. pc[o] \in {"observed", "open"} /\ CallMoves(o)
    BY <1>1 DEF StageInv, CallsMove
  <2> QED
    BY <2>1 DEF CallMoves, AfterWriteError
<1>2. ASSUME NEW o \in Ops, Streaming(o)' PROVE pc'[o] \in {"observed", "open"}
  <2>1. StreamMoves(o) /\ StageMoves(o)
    BY DEF StreamsMove, StagesMove
  <2>2. op'[o].observed => Streaming(o) \/ pc'[o] \in {"observed", "open"}
    BY <2>1 DEF StreamMoves, Streaming
  <2> QED
    BY <1>1, <1>2, <2>1, <2>2, CanceledStays DEF StageMoves, Streaming
<1>3. ASSUME NEW o \in Ops, pc'[o] = "observed" PROVE o \in NoResponse
  BY <1>3 DEF StagesMove, StageMoves, StageInv
<1> DEFINE Early == {"queued", "starting", "writing", "written", "unsent"}
<1>4. ASSUME NEW o \in Ops, err' = {}, pc'[o] \in Early PROVE Files(o)'
  <2>1. err = {} /\ CallMoves(o) /\ TableMoves(o)
    BY <1>4 DEF ErrMoves, CallsMove, TablesMove
  <2>2. pc[o] \in Early \/ (pc[o] = "reserved" /\ Live(o)')
    BY <1>4, <2>1 DEF CallMoves, AfterWriteError
  <2>3. CASE Live(o)' /\ pc[o] = "reserved"
    <3>1. PICK i \in IDs : pending'[i] = o
      BY <2>3 DEF Live
    <3>2. id'[o] = i
      BY <3>1, ConnAssumption DEF IDInv, PendingFiled
    <3> QED
      BY <3>1, <3>2 DEF Files
  <2>4. CASE pc[o] \in Early
    <3>1. Files(o)
      BY <2>1, <2>4 DEF StageInv
    <3>2. ~Streaming(o) /\ pc'[o] \notin {"failed", "open"}
      BY <1>1, <1>4
    <3> QED
      BY <1>4, <2>1, <3>1, <3>2 DEF TableMoves, Streaming, Absorbs, Delivers
  <2> QED
    BY <2>2, <2>3, <2>4
<1>5. ASSUME NEW i \in IDs, tombstones'[i] # None
      PROVE  op'[tombstones'[i]].canceled
  <2> DEFINE t == tombstones'[i]
  <2>1. t = tombstones[i] \/ apc[t] # "none"
    BY <1>5 DEF TablesMove, TombMoves
  <2>2. t \in Ops
    BY <1>5 DEF TypeOK, IDType
  <2>3. op[t].canceled
    BY <1>5, <2>1, <2>2 DEF StageInv, IDInv, AbandonedOnce
  <2> QED
    BY <2>2, <2>3, CanceledStays DEF StreamsMove
<1> QED
  BY <1>2, <1>3, <1>4, <1>5 DEF StageInv

-----------------------------------------------------------------------------
(***************************************************************************)
(* The answers of a conforming peer.                                       *)
(***************************************************************************)
\* What is in flight after the reader moved was in flight before, and what is
\* no longer in flight the reader is through with.
LEMMA InFlightMoves ==
    ASSUME TypeOK, ReaderMoves
    PROVE  /\ InFlight' \subseteq InFlight
           /\ \A m \in InFlight :
                 \/ m \in InFlight'
                 \/ m.kind = "malformed"
                 \/ /\ AtRoute /\ ~AtRoute' /\ Settled /\ m = reader.msg
                    /\ UNCHANGED inbox
<1> USE Zenon
<1>1. inbox \in Seq(Message)
  BY DEF TypeOK, PeerType
<1>2. CASE UNCHANGED inbox
  <2>1. {inbox[k] : k \in DOMAIN inbox}' = {inbox[k] : k \in DOMAIN inbox}
    BY <1>2
  <2>2. \/ /\ AtRoute' => AtRoute /\ reader'.msg = reader.msg
           /\ AtRoute => AtRoute' \/ Settled
        \/ inbox # <<>> /\ inbox = Tail(inbox)
    BY <1>2 DEF ReaderMoves
  <2>3. ~(inbox # <<>> /\ inbox = Tail(inbox))
    BY <1>1, SMT
  <2> QED
    BY <1>2, <2>1, <2>2, <2>3 DEF InFlight
<1>3. CASE /\ ~AtRoute /\ inbox # <<>> /\ inbox' = Tail(inbox)
           /\ IF AtRoute' THEN reader'.msg = Head(inbox)
                          ELSE Head(inbox).kind = "malformed"
  <2>1. \A k \in DOMAIN inbox' : k + 1 \in DOMAIN inbox /\ inbox'[k] = inbox[k + 1]
    BY <1>1, <1>3, SMT
  <2>2. \A k \in DOMAIN inbox : \/ inbox[k] = Head(inbox)
                                \/ k - 1 \in DOMAIN inbox' /\ inbox[k] = inbox'[k - 1]
    BY <1>1, <1>3, SMT
  <2>3. Head(inbox) \in {inbox[k] : k \in DOMAIN inbox}
    BY <1>1, <1>3, SMT
  <2>4. {inbox'[k] : k \in DOMAIN inbox'} \subseteq {inbox[k] : k \in DOMAIN inbox}
    BY <2>1
  <2>5. \A m \in {inbox[k] : k \in DOMAIN inbox} :
           m = Head(inbox) \/ m \in {inbox'[k] : k \in DOMAIN inbox'}
    BY <2>2
  <2> QED
    BY <1>3, <2>3, <2>4, <2>5 DEF InFlight
<1> QED
  BY <1>2, <1>3 DEF ReaderMoves

\* The transport carries a piece of the request of the Do call that writes.
LEMMA FlowOwes ==
    ASSUME TypeOK, TokenHeld, SentInv, Flow, NEW o \in Ops
    PROVE  \/ (o \in owed' <=> o \in owed) /\ sent'[o] = sent[o]
           \/ /\ pc[o] = "writing" /\ sent[o] < FrameLen
              /\ o \in owed' => o \in owed \/ (o \notin NoResponse /\ sent'[o] = FrameLen)
<1> USE Zenon
<1>1. /\ io.pc = "inwrite" /\ io.total < FrameLen
      /\ sent' = [x \in Ops |-> sent[x] + IF token = Do(x) THEN 1 ELSE 0]
      /\ owed' = owed \cup {x \in Ops \ NoResponse :
                              token = Do(x) /\ io.total + 1 = FrameLen}
  BY DEF Flow
<1>2. CASE token # Do(o)
  <2>1. sent'[o] = sent[o]
    BY <1>1, <1>2, SMT DEF TypeOK, WriterType
  <2> QED
    BY <1>1, <1>2, <2>1
<1>3. CASE token = Do(o)
  <2>1. pc[o] = "writing"
    BY <1>1, <1>3, ProcsDistinct DEF TokenHeld
  <2>2. sent[o] = io.total
    BY <2>1 DEF SentInv
  <2>3. sent'[o] = io.total + 1
    BY <1>1, <1>3, <2>2
  <2> QED
    BY <1>1, <1>3, <2>1, <2>2, <2>3
<1> QED
  BY <1>2, <1>3

\* A request the peer has received in full keeps its ID.
LEMMA AnsweredKeepsID ==
    ASSUME TypeOK, SentInv, AnswerInv, TablesMove, NEW o \in Ops,
           o \in owed \/ replies[o] # 0
    PROVE  id'[o] = id[o] /\ sent[o] = FrameLen /\ o \notin NoResponse
<1> USE Zenon
<1>1. sent[o] = FrameLen /\ o \notin NoResponse
  BY DEF AnswerInv
<1>2. sent[o] # 0
  BY <1>1, ConnAssumption
<1>3. pc[o] \notin {"idle", "reserving"}
  BY <1>2 DEF SentInv
<1> QED
  BY <1>1, <1>3 DEF TablesMove, TableMoves

\* A request on its way out leaves every answer the peer has given as it was.
LEMMA AnswerFlow ==
    ASSUME TypeOK, TokenHeld, SentInv, AnswerInv, Flow
    PROVE  AnswerInv'
<1> USE Zenon
<1>1. UNCHANGED <<id, inbox, reader, replies>>
  BY DEF Flow, callVars
<1>2. ASSUME NEW o \in Ops, o \in owed' \/ replies[o] # 0
      PROVE  o \notin NoResponse /\ sent'[o] = FrameLen
  <2>1. o \in owed \/ replies[o] # 0 => sent[o] = FrameLen /\ o \notin NoResponse
    BY DEF AnswerInv
  <2>2. sent[o] < FrameLen => sent[o] # FrameLen
    BY ConnAssumption, SMT DEF TypeOK, WriterType
  <2> QED
    BY <1>2, <2>1, <2>2, FlowOwes
<1>3. ASSUME NEW m \in InFlight PROVE Answers(m)'
  <2>1. Answers(m) /\ replies[m.for] # 0
    <3>1. Answers(m)
      BY DEF AnswerInv
    <3> QED
      BY <3>1, SMT DEF Answers, TypeOK, PeerType
  <2>2. m.for \in owed' => m.for \in owed
    <3>1. sent[m.for] = FrameLen /\ m.for \in Ops
      BY <2>1 DEF Answers, AnswerInv
    <3>2. ~(sent[m.for] < FrameLen)
      BY <3>1, ConnAssumption, SMT
    <3> QED
      BY <3>1, <3>2, FlowOwes
  <2> QED
    BY <1>1, <2>1, <2>2 DEF Answers
<1>4. InFlight' = InFlight /\ (AtRoute' <=> AtRoute)
  BY <1>1 DEF InFlight, AtRoute
<1> QED
  BY <1>1, <1>2, <1>3, <1>4 DEF AnswerInv

\* The peer has sent m for o.
Sends(o, m) ==
    /\ inbox' = Append(inbox, m) /\ InFlight' = InFlight \cup {m}
    /\ m.for = o /\ m.id = id[o] /\ m.n = replies[o] + 1
    /\ m.kind = "terminal" \/ (m.kind = "continue" /\ o \notin Single)
    /\ owed' = IF m.kind = "terminal" THEN owed \ {o} ELSE owed

\* What the peer does when it answers: one more message of an operation it owes,
\* under the operation's ID, at the tail of the inbox.
LEMMA Replied ==
    ASSUME TypeOK, NEW o \in Ops, PeerReplies(o)
    PROVE  /\ o \in owed /\ UNCHANGED <<strays, peerFrame>>
           /\ replies'[o] = replies[o] + 1
           /\ \A x \in Ops \ {o} : replies'[x] = replies[x]
           /\ \E m \in Message : Sends(o, m)
<1> USE Zenon
<1>1. /\ o \in owed /\ UNCHANGED <<strays, peerFrame>>
      /\ replies' = [replies EXCEPT ![o] = @ + 1]
  BY DEF PeerReplies
<1>2. PICK kind \in {"continue", "terminal"}, s \in Sizes :
          /\ kind = "continue" => o \notin Single
          /\ inbox' = Append(inbox, [id |-> id[o], kind |-> kind, for |-> o,
                                     n |-> replies[o] + 1, size |-> s])
          /\ owed' = IF kind = "terminal" THEN owed \ {o} ELSE owed
  BY DEF PeerReplies
<1> DEFINE m == [id |-> id[o], kind |-> kind, for |-> o, n |-> replies[o] + 1,
                 size |-> s]
<1>3. m \in Message
  BY ConnAssumption, SMT DEF Message, Kinds, TypeOK, CallType, PeerType
<1>4. /\ m.for = o /\ m.id = id[o] /\ m.n = replies[o] + 1 /\ m.kind = kind
      /\ inbox' = Append(inbox, m)
  BY <1>2
<1> HIDE DEF m
<1>5. inbox \in Seq(Message)
  BY DEF TypeOK, PeerType
<1>6. /\ \A k \in DOMAIN inbox : k \in DOMAIN inbox' /\ inbox'[k] = inbox[k]
      /\ \A k \in DOMAIN inbox' : k \in DOMAIN inbox \/ inbox'[k] = m
      /\ \E k \in DOMAIN inbox' : inbox'[k] = m
  BY <1>3, <1>4, <1>5, SMT
<1>7. UNCHANGED reader
  BY <1>1 DEF peerFrame
<1>8. InFlight' = InFlight \cup {m}
  BY <1>6, <1>7 DEF InFlight, AtRoute
<1>9. Sends(o, m)
  BY <1>2, <1>4, <1>8 DEF Sends
<1>10. replies'[o] = replies[o] + 1 /\ \A x \in Ops \ {o} : replies'[x] = replies[x]
  BY <1>1 DEF TypeOK, PeerType
<1> QED
  BY <1>1, <1>3, <1>9, <1>10

\* An answer of the peer is one of an operation it owes, in its own order.
LEMMA AnswerReply ==
    ASSUME TypeOK, AnswerInv, NEW o \in Ops, PeerReplies(o)
    PROVE  AnswerInv'
<1> USE Zenon
<1>1. /\ o \in owed /\ UNCHANGED <<id, sent, reader>>
      /\ replies'[o] = replies[o] + 1
      /\ \A x \in Ops \ {o} : replies'[x] = replies[x]
  BY Replied DEF peerFrame, callVars, wireVars
<1>2. PICK m \in Message : Sends(o, m)
  BY Replied
<1>3. o \notin NoResponse /\ sent[o] = FrameLen
  BY <1>1 DEF AnswerInv
<1>4. owed' \subseteq owed
  BY <1>2 DEF Sends
<1>5. ASSUME NEW x \in Ops, x \in owed' \/ replies'[x] # 0
      PROVE  x \notin NoResponse /\ sent'[x] = FrameLen
  BY <1>1, <1>3, <1>4, <1>5 DEF AnswerInv
<1>6. replies[o] \in Nat
  BY DEF TypeOK, PeerType
<1>7. Answers(m)'
  <2>1. Classify(o, m.kind) # "invalid"
    BY <1>2, <1>3 DEF Sends, Classify
  <2>2. m.kind = "terminal" => o \notin owed'
    BY <1>2 DEF Sends
  <2>3. m.for = o /\ m.id = id'[o] /\ m.n = replies'[o] /\ m.n \in 1 .. replies'[o]
    BY <1>1, <1>2, <1>6, SMT DEF Sends
  <2> QED
    BY <2>1, <2>2, <2>3 DEF Answers
<1>8. ASSUME NEW x \in InFlight PROVE Answers(x)'
  <2>1. Answers(x)
    BY DEF AnswerInv
  <2>2. CASE x.for # o
    <3>1. x.for \in Ops \ {o}
      BY <2>1, <2>2 DEF Answers
    <3>2. replies'[x.for] = replies[x.for]
      BY <1>1, <3>1
    <3> QED
      BY <1>1, <1>4, <2>1, <3>2 DEF Answers
  <2>3. CASE x.for = o
    <3>1. x.kind # "terminal"
      BY <1>1, <2>1, <2>3 DEF Answers
    <3>2. x.n \in 1 .. replies'[o]
      BY <1>1, <1>6, <2>1, <2>3, SMT DEF Answers
    <3> QED
      BY <1>1, <2>1, <2>3, <3>1, <3>2 DEF Answers
  <2> QED
    BY <2>2, <2>3
<1>9. \A x \in InFlight' : Answers(x)'
  BY <1>2, <1>7, <1>8 DEF Sends
<1>10. inbox \in Seq(Message) /\ reader.msg \in Message
  BY DEF TypeOK, PeerType, ReaderType
<1>11. /\ \A k \in DOMAIN inbox : inbox'[k] = inbox[k]
       /\ \A k \in DOMAIN inbox' : k \in DOMAIN inbox \/ inbox'[k] = m
       /\ \A k, l \in DOMAIN inbox' : k < l => k \in DOMAIN inbox
  BY <1>2, <1>10, SMT DEF Sends
<1>12. \A x \in InFlight : x.for = o => x.n < m.n
  <2>1. ASSUME NEW x \in InFlight, x.for = o PROVE x.n \in 1 .. replies[o]
    BY <2>1 DEF AnswerInv, Answers
  <2>2. m.n = replies[o] + 1
    BY <1>2 DEF Sends
  <2> QED
    BY <1>6, <2>1, <2>2, SMT
<1>13. \A k \in DOMAIN inbox : inbox[k] \in InFlight
  BY DEF InFlight
<1>14. m.for = o
  BY <1>2 DEF Sends
<1>15. ASSUME NEW k \in DOMAIN inbox', NEW l \in DOMAIN inbox', k < l,
              inbox'[k].for = inbox'[l].for
       PROVE  inbox'[k].n < inbox'[l].n
  <2>1. k \in DOMAIN inbox /\ inbox'[k] = inbox[k]
    BY <1>11, <1>15
  <2>2. CASE l \in DOMAIN inbox
    BY <1>11, <1>15, <2>1, <2>2 DEF AnswerInv
  <2>3. CASE inbox'[l] = m
    BY <1>12, <1>13, <1>14, <1>15, <2>1, <2>3
  <2> QED
    BY <1>11, <2>2, <2>3
<1>16. ASSUME AtRoute', NEW k \in DOMAIN inbox', inbox'[k].for = reader.msg.for
       PROVE  reader.msg.n < inbox'[k].n
  <2>1. AtRoute /\ reader.msg \in InFlight
    BY <1>1, <1>16 DEF AtRoute, InFlight
  <2>2. CASE k \in DOMAIN inbox
    BY <1>11, <1>16, <2>1, <2>2 DEF AnswerInv
  <2>3. CASE inbox'[k] = m
    BY <1>12, <1>14, <1>16, <2>1, <2>3
  <2> QED
    BY <1>11, <2>2, <2>3
<1> QED
  BY <1>1, <1>5, <1>9, <1>15, <1>16 DEF AnswerInv

\* The reader moves.
LEMMA AnswerReader ==
    ASSUME TypeOK, SentInv, AnswerInv, TablesMove, ReaderMoves,
           UNCHANGED <<owed, replies, sent>>
    PROVE  AnswerInv'
<1> USE Zenon
<1>1. ASSUME NEW m \in InFlight' PROVE Answers(m)'
  <2>1. Answers(m)
    BY InFlightMoves DEF AnswerInv
  <2>2. m.for \in Ops /\ replies[m.for] # 0
    BY <2>1, SMT DEF Answers, TypeOK, PeerType
  <2>3. id'[m.for] = id[m.for]
    BY <2>2, AnsweredKeepsID
  <2> QED
    BY <2>1, <2>3 DEF Answers
<1>2. inbox \in Seq(Message)
  BY DEF TypeOK, PeerType
<1>3. CASE UNCHANGED inbox /\ (AtRoute' => AtRoute /\ reader'.msg = reader.msg)
  BY <1>1, <1>3 DEF AnswerInv
<1>4. CASE inbox # <<>> /\ inbox' = Tail(inbox) /\ (AtRoute' => reader'.msg = Head(inbox))
  <2>1. \A k \in DOMAIN inbox' : k + 1 \in DOMAIN inbox /\ inbox'[k] = inbox[k + 1]
    BY <1>2, <1>4, SMT
  <2>2. 1 \in DOMAIN inbox /\ Head(inbox) = inbox[1]
    BY <1>2, <1>4, SMT
  <2>3. DOMAIN inbox' \subseteq Nat \ {0}
    BY <1>2, <1>4, SMT
  <2>4. \A k, l \in DOMAIN inbox' : /\ k < l => k + 1 < l + 1
                                    /\ 1 < k + 1
    BY <2>3, SMT
  <2>5. ASSUME NEW k \in DOMAIN inbox', NEW l \in DOMAIN inbox', k < l,
               inbox'[k].for = inbox'[l].for
        PROVE  inbox'[k].n < inbox'[l].n
    BY <2>1, <2>4, <2>5 DEF AnswerInv
  <2>6. ASSUME AtRoute', NEW k \in DOMAIN inbox', inbox'[k].for = reader'.msg.for
        PROVE  reader'.msg.n < inbox'[k].n
    BY <1>4, <2>1, <2>2, <2>4, <2>6, SMT DEF AnswerInv
  <2> QED
    BY <1>1, <2>5, <2>6 DEF AnswerInv
<1> QED
  BY <1>3, <1>4 DEF ReaderMoves

\* Whatever is in flight answers a request written in full, under the ID it was
\* written with: requests, answers and the reader all keep that.
LEMMA AnswerStep ==
    ASSUME TypeOK, TokenHeld, SentInv, TablesMove, FlightMoves, AnswerInv,
           strays' = 0
    PROVE  AnswerInv'
BY AnswerFlow, AnswerReply, AnswerReader, Zenon DEF FlightMoves

-----------------------------------------------------------------------------
(***************************************************************************)
(* The owner of a response.                                                *)
(***************************************************************************)
\* The ID of a message in flight belongs to the operation it answers.
LEMMA Owner ==
    ASSUME IDInv, AnswerInv, HeldInv, err = {}, NEW m \in InFlight
    PROVE  /\ m.id \in IDs
           /\ pending[m.id] = m.for \/ (pending[m.id] = None /\ Buried(m.for))
<1> USE Zenon
<1>1. m.for \in Ops /\ m.id = id[m.for] /\ m.for # None
  BY ConnAssumption DEF AnswerInv, Answers
<1>2. Files(m.for) \/ Buried(m.for)
  BY <1>1 DEF HeldInv
<1>3. Buried(m.for) => pending[m.id] = None
  BY <1>1 DEF Buried, IDInv, IDsExclusive, Disjoint
<1> QED
  BY <1>1, <1>2, <1>3 DEF Files, Buried

\* So route hands it to that operation, which is not complete.
LEMMA DeliversTo ==
    ASSUME IDInv, RecordInv, AnswerInv, HeldInv, NEW o \in Ops, Delivers(o)
    PROVE  /\ err = {} /\ ~op[o].terminal /\ Live(o)
           /\ AtRoute /\ reader.msg \in InFlight /\ reader.msg.for = o
<1> USE Zenon
<1>1. Live(o)
  BY DEF Delivers, Live
<1>2. err = {} /\ ~op[o].terminal
  BY <1>1 DEF RecordInv
<1>3. AtRoute /\ reader.msg \in InFlight
  BY DEF Delivers, AtRoute, InFlight
<1>4. pending[reader.msg.id] = o /\ o # None
  BY ConnAssumption DEF Delivers
<1> QED
  BY <1>1, <1>2, <1>3, <1>4, Owner

\* An operation with an answer to come keeps its ID in pending or tombstones:
\* only the reader takes an entry out, with the answer that ends the operation.
LEMMA HeldStep ==
    ASSUME TypeOK, IDInv, RecordInv, TokenHeld, TailKnown, SentInv, StageInv,
           AnswerInv, AnswerInv', HeldInv, ErrMoves, TablesMove, FlightMoves,
           strays' = 0
    PROVE  HeldInv'
<1> USE Zenon
<1> DEFINE Awaited(o) == o \in owed \/ \E m \in InFlight : m.for = o
<1>1. ASSUME NEW o \in Ops, Awaited(o) PROVE o \in owed \/ replies[o] # 0
  <2>1. ASSUME NEW m \in InFlight, m.for = o PROVE replies[o] # 0
    <3>1. m.n \in 1 .. replies[o] /\ replies[o] \in Nat
      BY <2>1 DEF AnswerInv, Answers, TypeOK, PeerType
    <3> QED
      BY <3>1, SMT
  <2> QED
    BY <1>1, <2>1
\* What is awaited after the step and was before.
<1>2. ASSUME NEW o \in Ops, Awaited(o), Awaited(o)', err' = {}
      PROVE  Files(o)' \/ Buried(o)'
  <2>1. err = {} /\ TableMoves(o)
    BY <1>2 DEF ErrMoves, TablesMove
  <2>2. id'[o] = id[o] /\ sent[o] = FrameLen /\ o \notin NoResponse
    BY <1>1, <1>2, AnsweredKeepsID
  <2>3. Files(o) \/ Buried(o)
    BY <1>2, <2>1 DEF HeldInv
  <2>4. Buried(o) => Buried(o)'
    BY <1>2, <2>2, ConnAssumption DEF Buried, TablesMove, TombMoves
  <2>5. ~(pc[o] \in {"unsent", "observed"})
    <3>1. pc[o] = "unsent" => sent[o] = 0
      BY DEF SentInv
    <3>2. FrameLen # 0
      BY ConnAssumption
    <3> QED
      BY <2>2, <3>1, <3>2 DEF StageInv
  <2>6. ~(Absorbs(o) /\ Classify(o, reader.msg.kind) = "complete")
    <3> SUFFICES ASSUME Absorbs(o), Classify(o, reader.msg.kind) = "complete"
                 PROVE  FALSE
      OBVIOUS
    <3>1. /\ Delivers(o) /\ ~AtRoute' /\ UNCHANGED inbox
          /\ AtRoute /\ reader.msg \in InFlight /\ reader.msg.for = o
      BY DeliversTo DEF Absorbs
    <3>2. reader.msg.kind = "terminal"
      BY DEF Classify
    <3>3. o \notin owed /\ reader.msg.n = replies[o]
      BY <3>1, <3>2 DEF AnswerInv, Answers
    <3>4. UNCHANGED <<owed, replies>>
      <4>1. UNCHANGED reader => (AtRoute' <=> AtRoute)
        BY DEF AtRoute
      <4> QED
        BY <3>1, <4>1 DEF FlightMoves, PeerReplies, peerFrame, Flow
    <3>5. PICK m \in InFlight' : m.for = o
      BY <1>2, <3>3, <3>4
    <3>6. PICK k \in DOMAIN inbox : m = inbox[k]
      BY <3>1, <3>5 DEF InFlight
    <3>7. reader.msg.n < m.n
      BY <3>1, <3>5, <3>6 DEF AnswerInv
    <3>8. m.n \in 1 .. replies[o] /\ replies[o] \in Nat
      BY <3>4, <3>5 DEF AnswerInv, Answers, TypeOK, PeerType
    <3> QED
      BY <3>3, <3>7, <3>8, SMT
  <2> QED
    BY <1>2, <2>1, <2>3, <2>4, <2>5, <2>6 DEF TableMoves
\* What the transport has just carried in full.
<1>3. ASSUME NEW o \in Ops, Flow, o \in owed', o \notin owed
      PROVE  Files(o) /\ Files(o)' /\ err = {}
  <2>1. pc[o] = "writing"
    BY <1>3, FlowOwes
  <2>2. err = {}
    BY <1>3 DEF Flow, LinkDown, TailKnown
  <2>3. Files(o)
    BY <2>1, <2>2 DEF StageInv
  <2> QED
    BY <1>3, <2>2, <2>3 DEF Flow, Files, idVars, callVars
<1>4. CASE \E q \in Ops : PeerReplies(q)
  <2>1. PICK q \in Ops : PeerReplies(q)
    BY <1>4
  <2>2. q \in owed /\ UNCHANGED peerFrame
    BY <2>1, Replied
  <2>3. PICK m \in Message : Sends(q, m)
    BY <2>1, Replied
  <2>4. owed' \subseteq owed
    BY <2>3 DEF Sends
  <2>5. ASSUME NEW o \in Ops, Awaited(o)' PROVE Awaited(o)
    BY <2>2, <2>3, <2>4, <2>5 DEF Sends
  <2>6. UNCHANGED id
    BY <2>2 DEF peerFrame, callVars
  <2> QED
    BY <1>2, <2>4, <2>5, <2>6 DEF HeldInv
<1>5. CASE Flow
  <2>1. InFlight' = InFlight /\ UNCHANGED id
    BY <1>5 DEF Flow, InFlight, AtRoute, callVars
  <2>2. ASSUME NEW o \in Ops, Awaited(o)', err' = {} PROVE Files(o)' \/ Buried(o)'
    BY <1>2, <1>3, <1>5, <2>1, <2>2
  <2>3. ASSUME NEW o \in owed', NEW q \in owed', id[o] = id[q], o \notin owed
        PROVE  o = q
    <3>1. o \in Ops /\ q \in Ops /\ o # None /\ q # None
      BY <2>3, <1>5, ConnAssumption DEF Flow, TypeOK, PeerType
    <3>2. Files(o) /\ err = {}
      BY <1>3, <1>5, <2>3, <3>1
    <3>3. Files(q) \/ Buried(q)
      BY <1>3, <1>5, <2>3, <3>1, <3>2 DEF HeldInv
    <3> QED
      BY <2>3, <3>1, <3>2, <3>3
         DEF Files, Buried, IDInv, IDsExclusive, Disjoint
  <2>4. ASSUME NEW o \in owed', NEW q \in owed', id[o] = id[q] PROVE o = q
    BY <2>3, <2>4 DEF HeldInv
  <2> QED
    BY <2>1, <2>2, <2>4 DEF HeldInv
<1>6. CASE UNCHANGED <<owed, replies, strays, sent>> /\ ReaderMoves
  <2>1. ASSUME NEW o \in Ops, Awaited(o)' PROVE Awaited(o)
    <3>1. InFlight' \subseteq InFlight /\ owed' = owed
      BY <1>6, InFlightMoves
    <3> QED
      BY <2>1, <3>1
  <2>2. ASSUME NEW o \in owed PROVE id'[o] = id[o]
    <3>1. o \in Ops
      BY DEF TypeOK, PeerType
    <3> QED
      BY <3>1, AnsweredKeepsID
  <2>3. ASSUME NEW o \in Ops, Awaited(o)', err' = {} PROVE Files(o)' \/ Buried(o)'
    BY <1>2, <2>1, <2>3
  <2>4. ASSUME NEW o \in owed', NEW q \in owed', id'[o] = id'[q] PROVE o = q
    <3>1. o \in owed /\ q \in owed
      BY <1>6, <2>4
    <3>2. id[o] = id[q]
      BY <2>2, <2>4, <3>1
    <3> QED
      BY <3>1, <3>2 DEF HeldInv
  <2> QED
    BY <2>3, <2>4 DEF HeldInv
<1> QED
  BY <1>4, <1>5, <1>6 DEF FlightMoves

-----------------------------------------------------------------------------
(***************************************************************************)
(* What the consumer of a stream gets.                                     *)
(***************************************************************************)
\* The reader drops no response of a stream that still delivers.
LEMMA NoneDropped ==
    ASSUME TypeOK, IDInv, StageInv, AnswerInv, HeldInv, ReaderMoves, err = {},
           NEW o \in Ops, ~op[o].canceled, ~Absorbs(o), NEW m \in InFlight,
           m.for = o
    PROVE  m \in InFlight'
<1> USE Zenon
<1>1. Classify(o, m.kind) # "invalid" /\ o # None
  BY ConnAssumption DEF AnswerInv, Answers
<1>2. m.kind # "malformed"
  BY <1>1 DEF Classify
<1>3. ~Buried(o)
  BY <1>1 DEF StageInv, Buried
<1>4. m.id \in IDs /\ pending[m.id] = o
  BY <1>3, Owner
<1> QED
  BY <1>1, <1>2, <1>4, InFlightMoves DEF Settled

\* The response route hands over is the next one.
LEMMA NextInLine ==
    ASSUME TypeOK, IDInv, RecordInv, AnswerInv, HeldInv, NEW o \in Ops,
           Delivers(o), ~op[o].canceled, Delivered(o)
    PROVE  /\ reader.msg.n = Seen(o) + 1 /\ Seen(o) + 1 <= replies[o]
           /\ \A k \in DOMAIN inbox : inbox[k].for = o => inbox[k].n > Seen(o) + 1
<1> USE Zenon
<1>1. /\ err = {} /\ AtRoute /\ reader.msg \in InFlight /\ reader.msg.for = o
  BY DeliversTo
<1>2. reader.msg.n > Seen(o)
  BY <1>1 DEF Delivered, Complements
<1>3. reader.msg.n \in 1 .. replies[o]
  BY <1>1 DEF AnswerInv, Answers
<1>4. /\ Seen(o) \in Nat /\ replies[o] \in Nat
  BY SMT DEF Seen, TypeOK, StreamType, PeerType, Operation
<1>5. Seen(o) + 1 \in Seen(o) + 1 .. replies[o]
  BY <1>2, <1>3, <1>4, SMT
<1>6. PICK m \in InFlight : m.for = o /\ m.n = Seen(o) + 1
  BY <1>1, <1>5 DEF Delivered, Complements
<1>7. \A k \in DOMAIN inbox : inbox[k].for = o => reader.msg.n < inbox[k].n
  BY <1>1 DEF AnswerInv
<1>8. m = reader.msg \/ \E k \in DOMAIN inbox : m = inbox[k]
  BY DEF InFlight
<1>9. reader.msg.n = Seen(o) + 1
  BY <1>2, <1>3, <1>4, <1>6, <1>7, <1>8, SMT
<1> QED
  BY <1>3, <1>4, <1>5, <1>7, <1>9, SMT

\* route adds a response.
LEMMA QueueAppends ==
    ASSUME TypeOK, IDInv, RecordInv, AnswerInv, HeldInv, NEW o \in Ops,
           Delivered(o), Absorbs(o), ~op[o].canceled, UNCHANGED replies,
           op'[o].queue = Append(op[o].queue, reader.msg)
    PROVE  Ordered(o)' /\ Complements(o)' /\ Seen(o)' = reader.msg.n
<1> USE Zenon
<1>1. /\ reader.msg.n = Seen(o) + 1 /\ Seen(o) + 1 <= replies[o]
      /\ \A k \in DOMAIN inbox : inbox[k].for = o => inbox[k].n > Seen(o) + 1
  BY NextInLine DEF Absorbs
<1>2. /\ op[o].queue \in Seq(Message) /\ got[o] \in Nat /\ reader.msg \in Message
      /\ replies[o] \in Nat
  BY DEF TypeOK, StreamType, ReaderType, PeerType, Operation
<1>3. got'[o] = got[o] /\ UNCHANGED inbox /\ ~AtRoute' /\ Delivers(o)
  BY DEF Absorbs
<1>4. err = {} /\ reader.msg.for = o
  BY <1>3, DeliversTo
<1> DEFINE q == op[o].queue
<1>5. /\ Len(op'[o].queue) = Len(q) + 1
      /\ \A k \in DOMAIN op'[o].queue :
            \/ k \in DOMAIN q /\ op'[o].queue[k] = q[k]
            \/ k = Len(q) + 1 /\ op'[o].queue[k] = reader.msg
  BY <1>2, SMT
<1>6. Seen(o)' = Seen(o) + 1
  BY <1>2, <1>3, <1>5, SMT DEF Seen
<1>7. Ordered(o)'
  <2>1. ASSUME NEW k \in DOMAIN op'[o].queue
        PROVE  op'[o].queue[k].for = o /\ op'[o].queue[k].n = got[o] + k
    <3>1. CASE k \in DOMAIN q /\ op'[o].queue[k] = q[k]
      BY <3>1 DEF Delivered, Ordered
    <3>2. CASE k = Len(q) + 1 /\ op'[o].queue[k] = reader.msg
      BY <1>1, <1>2, <1>4, <3>2, SMT DEF Seen
    <3> QED
      BY <1>5, <3>1, <3>2
  <2> QED
    BY <1>1, <1>3, <1>6, <2>1 DEF Ordered
<1>8. Complements(o)'
  <2>1. InFlight' = {inbox[k] : k \in DOMAIN inbox}
    BY <1>3 DEF InFlight
  <2>2. \A m \in InFlight' : m.for = o => m.n > Seen(o) + 1
    BY <1>1, <2>1
  <2>3. ASSUME NEW n \in Seen(o) + 1 + 1 .. replies[o]
        PROVE  \E m \in InFlight' : m.for = o /\ m.n = n
    <3>1. n \in Seen(o) + 1 .. replies[o] /\ n # Seen(o) + 1
      BY <1>2, SMT DEF Seen
    <3>2. PICK m \in InFlight : m.for = o /\ m.n = n
      BY <1>4, <3>1 DEF Delivered, Complements
    <3>3. m \in InFlight'
      BY <1>1, <2>1, <3>1, <3>2 DEF InFlight
    <3> QED
      BY <3>2, <3>3
  <2> QED
    BY <1>6, <2>2, <2>3 DEF Complements
<1> QED
  BY <1>1, <1>6, <1>7, <1>8

\* Next takes one, or the queue stays as it is.
LEMMA QueueKept ==
    ASSUME TypeOK, NEW o \in Ops, Delivered(o), UNCHANGED replies,
           \/ op'[o].queue = op[o].queue /\ got'[o] = got[o]
           \/ /\ op[o].queue # <<>> /\ op'[o].queue = Tail(op[o].queue)
              /\ got'[o] = got[o] + 1
    PROVE  Ordered(o)' /\ Seen(o)' = Seen(o)
<1> USE Zenon
<1>1. op[o].queue \in Seq(Message) /\ got[o] \in Nat
  BY DEF TypeOK, StreamType, Operation
<1>2. CASE op'[o].queue = op[o].queue /\ got'[o] = got[o]
  BY <1>2 DEF Delivered, Ordered, Seen
<1>3. CASE /\ op[o].queue # <<>> /\ op'[o].queue = Tail(op[o].queue)
           /\ got'[o] = got[o] + 1
  <2>1. /\ Len(op'[o].queue) = Len(op[o].queue) - 1
        /\ Len(op[o].queue) \in Nat
        /\ \A k \in DOMAIN op'[o].queue :
              k \in Nat /\ k + 1 \in DOMAIN op[o].queue
                        /\ op'[o].queue[k] = op[o].queue[k + 1]
    BY <1>1, <1>3, SMT
  <2>2. Seen(o)' = Seen(o)
    BY <1>1, <1>3, <2>1, SMT DEF Seen
  <2>3. ASSUME NEW k \in DOMAIN op'[o].queue
        PROVE  op'[o].queue[k].for = o /\ op'[o].queue[k].n = got'[o] + k
    <3>1. /\ op'[o].queue[k].for = o /\ op'[o].queue[k].n = got[o] + (k + 1)
          /\ k \in Nat
      BY <2>1 DEF Delivered, Ordered
    <3> QED
      BY <1>1, <1>3, <3>1, SMT
  <2> QED
    BY <2>2, <2>3 DEF Delivered, Ordered
<1> QED
  BY <1>2, <1>3

\* Delivery ends.
LEMMA QueueCleared ==
    ASSUME TypeOK, NEW o \in Ops, Delivered(o), UNCHANGED replies,
           op'[o].queue = <<>>, got'[o] = got[o]
    PROVE  Ordered(o)'
<1> USE Zenon
<1>1. /\ op[o].queue \in Seq(Message) /\ got[o] \in Nat /\ replies[o] \in Nat
  BY DEF TypeOK, StreamType, PeerType, Operation
<1>2. Seen(o) <= replies[o]
  BY DEF Delivered, Ordered
<1> QED
  BY <1>1, <1>2, SMT DEF Ordered, Seen

\* Neither cancellation nor retirement touches a stream that has ended.
LEMMA EndKept ==
    ASSUME RecordInv, NEW o \in Ops, Delivered(o), StreamMoves(o), StageMoves(o),
           Absorbs(o) => ~op[o].terminal, cons'[o] = "eof"
    PROVE  op'[o].terminal /\ op'[o].deliveryErr = {} /\ op'[o].queue = <<>>
<1> USE Zenon
<1>1. CASE cons[o] = "eof"
  <2>1. op[o].terminal /\ op[o].deliveryErr = {} /\ op[o].queue = <<>>
    BY <1>1 DEF Delivered
  <2>2. ~Live(o)
    BY <2>1 DEF RecordInv
  <2> QED
    BY <2>1, <2>2 DEF StreamMoves, SameStream
<1> QED
  BY <1>1 DEF StageMoves

\* route hands a response to o.
LEMMA DeliveredAbsorbs ==
    ASSUME TypeOK, IDInv, RecordInv, AnswerInv, HeldInv, NEW o \in Ops,
           Delivered(o), StreamMoves(o), StageMoves(o), Absorbs(o),
           UNCHANGED <<owed, replies>>
    PROVE  Delivered(o)'
<1> USE Zenon
<1>1. /\ err = {} /\ ~op[o].terminal
      /\ reader.msg \in InFlight /\ reader.msg.for = o
  BY DeliversTo DEF Absorbs
<1>2. cons'[o] = "eof" =>
         op'[o].terminal /\ op'[o].deliveryErr = {} /\ op'[o].queue = <<>>
  BY <1>1, EndKept
<1>3. CASE /\ op[o].canceled /\ op'[o].canceled /\ op'[o].queue = op[o].queue
           /\ op'[o].deliveryErr = op[o].deliveryErr
  <2>1. Ordered(o)'
    BY <1>3, QueueKept DEF Absorbs
  <2>2. op[o].deliveryErr # {}
    BY <1>3 DEF Delivered
  <2> QED
    BY <1>2, <1>3, <2>1, <2>2 DEF Delivered, Complements
<1>4. CASE /\ ~op[o].canceled /\ ~op'[o].canceled
           /\ op'[o].queue = Append(op[o].queue, reader.msg)
  <2>1. Ordered(o)' /\ Complements(o)' /\ Seen(o)' = reader.msg.n
    BY <1>4, QueueAppends
  <2>2. op'[o].terminal => reader.msg.kind = "terminal"
    <3>1. op'[o].terminal => Classify(o, reader.msg.kind) = "complete"
      BY <1>1 DEF Absorbs
    <3> QED
      BY <3>1 DEF Classify
  <2>3. op'[o].terminal => reader.msg.n = replies[o] /\ o \notin owed
    BY <1>1, <2>2 DEF AnswerInv, Answers
  <2> QED
    BY <1>2, <1>4, <2>1, <2>3 DEF Delivered
<1>5. CASE op'[o].canceled /\ op'[o].deliveryErr # {} /\ op'[o].queue = <<>>
  <2>1. Ordered(o)'
    BY <1>5, QueueCleared DEF Absorbs
  <2> QED
    BY <1>2, <1>5, <2>1 DEF Delivered, Complements
<1> QED
  BY <1>3, <1>4, <1>5 DEF Absorbs

\* The reader, the consumer, a cancellation or retire moves.
LEMMA DeliveredMoves ==
    ASSUME TypeOK, IDInv, RecordInv, SentInv, StageInv, AnswerInv, HeldInv,
           NEW o \in Ops, Delivered(o), ErrMoves, StreamMoves(o), StageMoves(o),
           ReaderMoves, UNCHANGED <<owed, replies>>, ~Absorbs(o)
    PROVE  Delivered(o)'
<1> USE Zenon
<1> DEFINE Kept == \/ op'[o].queue = op[o].queue /\ got'[o] = got[o]
                   \/ /\ op[o].queue # <<>> /\ op'[o].queue = Tail(op[o].queue)
                      /\ got'[o] = got[o] + 1
<1>1. cons'[o] = "eof" =>
         op'[o].terminal /\ op'[o].deliveryErr = {} /\ op'[o].queue = <<>>
  BY EndKept
<1>2. CASE /\ ~op'[o].terminal /\ op'[o].canceled /\ op'[o].queue = <<>>
           /\ op'[o].deliveryErr # {} /\ got'[o] = got[o]
  <2>1. Ordered(o)'
    BY <1>2, QueueCleared
  <2> QED
    BY <1>1, <1>2, <2>1 DEF Delivered, Complements
<1>3. CASE Kept /\ op'[o].canceled = op[o].canceled
  <2>1. Ordered(o)' /\ Seen(o)' = Seen(o)
    BY <1>3, QueueKept
  <2>2. Complements(o)'
    <3> SUFFICES ASSUME err' = {}, ~op'[o].canceled
                 PROVE  /\ \A m \in InFlight' : m.for = o => m.n > Seen(o)
                        /\ \A n \in Seen(o) + 1 .. replies[o] :
                              \E m \in InFlight' : m.for = o /\ m.n = n
      BY <2>1 DEF Complements
    <3>1. err = {} /\ ~op[o].canceled
      BY <1>3 DEF ErrMoves
    <3>2. /\ \A m \in InFlight : m.for = o => m.n > Seen(o)
          /\ \A n \in Seen(o) + 1 .. replies[o] :
                \E m \in InFlight : m.for = o /\ m.n = n
      BY <3>1 DEF Delivered, Complements
    <3>3. \A m \in InFlight : m.for = o => m \in InFlight'
      BY <3>1, NoneDropped
    <3> QED
      BY <3>2, <3>3, InFlightMoves
  <2>3. \/ op'[o].terminal = op[o].terminal /\ op'[o].deliveryErr = op[o].deliveryErr
        \/ op'[o].deliveryErr # {}
        \/ /\ pc[o] \in {"unsent", "observed"}
           /\ op'[o].deliveryErr = op[o].deliveryErr
    BY DEF StreamMoves, SameStream
  <2>4. op'[o].canceled => op'[o].deliveryErr # {}
    BY <1>3, <2>3 DEF Delivered
  <2>5. ASSUME pc[o] \in {"unsent", "observed"}
        PROVE  Seen(o) = replies[o] /\ o \notin owed
    <3>1. pc[o] = "unsent" => sent[o] # FrameLen
      BY ConnAssumption DEF SentInv
    <3>2. o \notin owed /\ replies[o] = 0
      BY <2>5, <3>1 DEF StageInv, AnswerInv
    <3>3. Seen(o) <= replies[o]
      BY DEF Delivered, Ordered
    <3>4. Seen(o) \in Nat
      BY SMT DEF Seen, TypeOK, StreamType, Operation
    <3> QED
      BY <3>2, <3>3, <3>4, SMT
  <2>6. op'[o].terminal /\ op'[o].deliveryErr = {} =>
           Seen(o)' = replies[o] /\ o \notin owed
    BY <2>1, <2>3, <2>5 DEF Delivered
  <2> QED
    BY <1>1, <2>1, <2>2, <2>4, <2>6 DEF Delivered
<1> QED
  BY <1>2, <1>3 DEF StreamMoves, SameStream

\* The peer sends a response.
LEMMA DeliveredReply ==
    ASSUME TypeOK, NEW o \in Ops, Delivered(o), NEW q \in Ops, PeerReplies(q)
    PROVE  Delivered(o)'
<1> USE Zenon
<1>1. /\ q \in owed /\ UNCHANGED <<op, got, cons, err>>
      /\ replies'[q] = replies[q] + 1
      /\ \A x \in Ops \ {q} : replies'[x] = replies[x]
  BY Replied DEF peerFrame, streamVars, connVars
<1>2. PICK m \in Message : Sends(q, m)
  BY Replied
<1>3. owed' \subseteq owed /\ InFlight' = InFlight \cup {m}
  BY <1>2 DEF Sends
<1>4. /\ Seen(o) \in Nat /\ replies[o] \in Nat /\ Seen(o) <= replies[o]
      /\ Seen(o)' = Seen(o)
  <2>1. Seen(o) \in Nat /\ replies[o] \in Nat
    BY SMT DEF Seen, TypeOK, StreamType, PeerType, Operation
  <2> QED
    BY <1>1, <2>1 DEF Delivered, Ordered, Seen
<1>5. Ordered(o)'
  <2>1. Seen(o) <= replies'[o]
    BY <1>1, <1>4, SMT
  <2> QED
    BY <1>1, <1>4, <2>1 DEF Delivered, Ordered
<1>6. Complements(o)'
  <2> SUFFICES ASSUME err = {}, ~op[o].canceled
               PROVE  /\ \A x \in InFlight' : x.for = o => x.n > Seen(o)
                      /\ \A n \in Seen(o) + 1 .. replies'[o] :
                            \E x \in InFlight' : x.for = o /\ x.n = n
    BY <1>1, <1>4 DEF Complements
  <2>1. /\ \A x \in InFlight : x.for = o => x.n > Seen(o)
        /\ \A n \in Seen(o) + 1 .. replies[o] :
              \E x \in InFlight : x.for = o /\ x.n = n
    BY DEF Delivered, Complements
  <2>2. m.for = q /\ m.n = replies[q] + 1
    BY <1>2 DEF Sends
  <2>3. m.for = o => m.n > Seen(o)
    BY <1>4, <2>2, SMT
  <2>4. ASSUME NEW n \in Seen(o) + 1 .. replies'[o]
        PROVE  n \in Seen(o) + 1 .. replies[o] \/ (m.for = o /\ m.n = n)
    BY <1>1, <1>4, <2>2, <2>4, SMT
  <2> QED
    BY <1>3, <2>1, <2>3, <2>4
<1> QED
  BY <1>1, <1>3, <1>4, <1>5, <1>6 DEF Delivered

\* The transport carries a piece of a request.
LEMMA DeliveredFlow ==
    ASSUME TypeOK, RecordInv, TokenHeld, TailKnown, SentInv, StageInv,
           NEW o \in Ops, Delivered(o), Flow
    PROVE  Delivered(o)'
<1> USE Zenon
<1>1. UNCHANGED <<op, got, cons, err, inbox, reader, replies>>
  BY DEF Flow, streamVars, connVars
<1>2. InFlight' = InFlight /\ Seen(o)' = Seen(o)
  BY <1>1 DEF InFlight, AtRoute, Seen
<1>3. Ordered(o)' /\ Complements(o)'
  BY <1>1, <1>2 DEF Delivered, Ordered, Complements
<1>4. op[o].terminal /\ o \notin owed => o \notin owed'
  <2> SUFFICES ASSUME op[o].terminal, o \notin owed, o \in owed' PROVE FALSE
    OBVIOUS
  <2>1. pc[o] = "writing"
    BY FlowOwes
  <2>2. err = {}
    BY DEF Flow, LinkDown, TailKnown
  <2>3. Files(o)
    BY <2>1, <2>2 DEF StageInv
  <2> QED
    BY <2>3 DEF Files, Live, RecordInv
<1> QED
  BY <1>1, <1>2, <1>3, <1>4 DEF Delivered

\* What the peer has answered is what the stream absorbed and what is still in
\* flight, in order: no step loses, duplicates or reorders a response.
LEMMA DeliveryStep ==
    ASSUME TypeOK, IDInv, RecordInv, TokenHeld, TailKnown, SentInv, StageInv,
           AnswerInv, HeldInv, DeliveryInv, ErrMoves, StreamsMove, StagesMove,
           FlightMoves, strays' = 0
    PROVE  DeliveryInv'
<1> USE Zenon
<1>1. ASSUME NEW o \in Ops PROVE Delivered(o)'
  <2>1. Delivered(o) /\ StreamMoves(o) /\ StageMoves(o)
    BY DEF DeliveryInv, StreamsMove, StagesMove
  <2>2. ASSUME UNCHANGED <<owed, replies, strays, sent>>, ReaderMoves
        PROVE  Delivered(o)'
    BY <2>1, <2>2, DeliveredAbsorbs, DeliveredMoves
  <2> QED
    BY <2>1, <2>2, DeliveredReply, DeliveredFlow DEF FlightMoves
<1> QED
  BY <1>1 DEF DeliveryInv

-----------------------------------------------------------------------------
(***************************************************************************)
(* The invariant, and what follows from it.                                *)
(***************************************************************************)
LEMMA ResponseInit == Init => ResponseInv
<1> USE Zenon
<1> SUFFICES ASSUME Init PROVE ResponseInv
  OBVIOUS
<1>1. /\ inbox = <<>> /\ owed = {} /\ watch = {} /\ err = {}
      /\ reader = [pc |-> "read", msg |-> NoMsg, on |-> None, err |-> {}]
  BY DEF Init
<1>2. ASSUME NEW o \in Ops
      PROVE  /\ pc[o] = "idle" /\ apc[o] = "none" /\ cons[o] = "none"
             /\ replies[o] = 0 /\ got[o] = 0 /\ op[o] = NewOp
  BY DEF Init
<1>3. \A i \in IDs : tombstones[i] = None
  BY DEF Init
<1>4. /\ NewOp.queue = <<>> /\ ~NewOp.canceled /\ ~NewOp.terminal /\ ~NewOp.observed
  BY DEF NewOp
<1>5. StageInv
  <2>1. ASSUME NEW o \in Ops PROVE ~Streaming(o)
    BY <1>1, <1>2, <1>4 DEF Streaming
  <2> QED
    BY <1>2, <1>3, <2>1 DEF StageInv
<1>6. InFlight = {} /\ ~AtRoute
  <2>1. ~AtRoute
    BY <1>1 DEF AtRoute
  <2>2. DOMAIN inbox = {}
    BY <1>1, SMT
  <2> QED
    BY <2>1, <2>2 DEF InFlight
<1>7. AnswerInv /\ HeldInv
  <2>1. DOMAIN inbox = {}
    BY <1>1, SMT
  <2> QED
    BY <1>1, <1>2, <1>6, <2>1 DEF AnswerInv, HeldInv
<1>8. ASSUME NEW o \in Ops PROVE Delivered(o)
  <2>1. op[o].queue = <<>> /\ got[o] = 0 /\ replies[o] = 0
    BY <1>2, <1>4
  <2>2. Seen(o) = 0 /\ Seen(o) <= replies[o] /\ DOMAIN op[o].queue = {}
        /\ Seen(o) + 1 .. replies[o] = {}
    BY <2>1, SMT DEF Seen
  <2>3. Ordered(o) /\ Complements(o)
    BY <1>6, <2>2 DEF Ordered, Complements
  <2> QED
    BY <1>2, <1>4, <2>3 DEF Delivered
<1> QED
  BY <1>5, <1>7, <1>8 DEF ResponseInv, DeliveryInv

\* A stuttering step changes nothing the delivery invariant reads.
LEMMA ResponseStutter ==
    ASSUME ResponseInv, UNCHANGED vars
    PROVE  ResponseInv'
<1> USE Zenon
<1>1. /\ UNCHANGED <<err, pending, tombstones, op, pc, id, cons, got, watch, apc>>
      /\ UNCHANGED <<reader, inbox, owed, replies, strays, sent>>
  BY DEF vars, connVars, idVars, callVars, streamVars, abandVars, peerVars, wireVars
<1>2. /\ InFlight' = InFlight /\ (AtRoute' <=> AtRoute)
      /\ \A m : Answers(m) => Answers(m)'
  BY <1>1 DEF InFlight, AtRoute, Answers
<1>3. \A o \in Ops : (Files(o) => Files(o)') /\ (Buried(o) => Buried(o)')
  BY <1>1 DEF Files, Buried
<1>4. StageInv'
  BY <1>1, <1>3 DEF ResponseInv, StageInv, Streaming
<1>5. AnswerInv => AnswerInv'
  BY <1>1, <1>2 DEF AnswerInv
<1>6. HeldInv => HeldInv'
  BY <1>1, <1>2, <1>3 DEF HeldInv
<1>7. DeliveryInv => DeliveryInv'
  <2>1. ASSUME NEW o \in Ops, Delivered(o) PROVE Delivered(o)'
    <3>1. Seen(o)' = Seen(o)
      BY <1>1 DEF Seen
    <3> QED
      BY <1>1, <1>2, <2>1, <3>1 DEF Delivered, Ordered, Complements
  <2> QED
    BY <2>1 DEF DeliveryInv
<1> QED
  BY <1>1, <1>4, <1>5, <1>6, <1>7 DEF ResponseInv

=============================================================================
