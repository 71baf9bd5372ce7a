-------------------------- MODULE ConnSafetyProofs --------------------------
(***************************************************************************)
(* Why the connection runtime keeps its promises to its callers.  Nobody   *)
(* sleeps through the response or the ID it waits for, a retired           *)
(* connection leaves nothing pending, a result once owned is not lost, an  *)
(* error says truthfully what left, frames stay whole and end with the     *)
(* Unbind.  Each part of the invariant is shown from the moves of          *)
(* ConnProofs; ConnTheorems draws the conclusions.                         *)
(***************************************************************************)
EXTENDS ConnProofs

-----------------------------------------------------------------------------
(***************************************************************************)
(* Records and their consumers.                                            *)
(***************************************************************************)
\* What every move of a record has in common.
LEMMA RecordFacts ==
    ASSUME TypeOK, NEW o \in Ops, RecordMoves(o)
    PROVE  /\ op[o].ended => op'[o].ended
           /\ op[o].terminal => op'[o].terminal
           /\ op[o].writeStarted => op'[o].writeStarted
           /\ op'[o].terminal => op[o].terminal \/ (Live(o) /\ ~Live(o)')
           /\ Live(o)' /\ ~Live(o) => /\ pc[o] = "reserved" /\ pc'[o] = "queued"
                                      /\ err = {} /\ op'[o] = op[o]
           /\ Live(o) /\ ~Live(o)' => op'[o].ended
<1> USE Zenon
<1>1. op[o] \in Operation
  BY DEF TypeOK
<1> USE <1>1
<1>2. LET q == Taken(op[o]) IN
      /\ q.ended = op[o].ended /\ q.terminal = op[o].terminal
      /\ q.writeStarted = op[o].writeStarted
  BY DEF Operation, Taken
<1>3. LET q == [op[o] EXCEPT !.ready = FALSE] IN
      /\ q.ended = op[o].ended /\ q.terminal = op[o].terminal
      /\ q.writeStarted = op[o].writeStarted
  BY DEF Operation
<1>4. LET q == [op[o] EXCEPT !.writeStarted = TRUE] IN
      /\ q.ended = op[o].ended /\ q.terminal = op[o].terminal /\ q.writeStarted
  BY DEF Operation
<1>5. LET q == [op[o] EXCEPT !.observed = TRUE] IN
      /\ q.ended = op[o].ended /\ q.terminal = op[o].terminal
      /\ q.writeStarted = op[o].writeStarted
  BY DEF Operation
<1> QED
  BY <1>2, <1>3, <1>4, <1>5 DEF RecordMoves, Advances, Leaves

\* A record that is owned stays as it is, but for what the consumer takes.
LEMMA OwnedKept ==
    ASSUME TypeOK, RecordInv, NEW o \in Ops, RecordMoves(o), op[o].terminal
    PROVE  /\ op'[o].deliveryErr = op[o].deliveryErr
           /\ \/ op'[o].queue = op[o].queue
              \/ got'[o] = got[o] + 1 /\ op'[o].queue = Tail(op[o].queue)
<1> USE Zenon
<1>1. op[o] \in Operation
  BY DEF TypeOK
<1> USE <1>1
<1>2. ~Live(o) /\ pc[o] # "reserved"
  BY DEF RecordInv
<1>3. LET q == Taken(op[o]) IN
      q.deliveryErr = op[o].deliveryErr /\ q.queue = Tail(op[o].queue)
  BY DEF Operation, Taken
<1>4. LET q == [op[o] EXCEPT !.ready = FALSE] IN
      q.deliveryErr = op[o].deliveryErr /\ q.queue = op[o].queue
  BY DEF Operation
<1>5. LET q == [op[o] EXCEPT !.observed = TRUE] IN
      q.deliveryErr = op[o].deliveryErr /\ q.queue = op[o].queue
  BY DEF Operation
<1> QED
  BY <1>2, <1>3, <1>4, <1>5 DEF RecordMoves

\* The record invariant, from the moves.
LEMMA RecordInvStep ==
    ASSUME TypeOK, IDInv, RecordInv, RecordsMove, CallsMove, ErrMoves
    PROVE  RecordInv'
<1> USE Zenon
<1>1. ASSUME NEW o \in Ops, err' # {} PROVE ~Live(o)'
  <2> USE <1>1
  <2>1. err' # err => ~Live(o)'
    BY DEF ErrMoves
  <2>2. CASE err' = err
    <3> USE <2>2
    <3>1. ~Live(o)
      BY DEF RecordInv
    <3> QED
      BY <3>1, RecordFacts DEF RecordsMove
  <2> QED
    BY <2>1, <2>2
<1>2. ASSUME NEW o \in Ops, pc'[o] \in Installed PROVE Live(o)' \/ op'[o].ended
  <2>1. pc[o] \in Installed \/ Live(o)'
    BY <1>2 DEF CallsMove, CallMoves, Installed, AfterWriteError
  <2>2. CASE pc[o] \in Installed
    BY <2>2, RecordFacts DEF RecordInv, RecordsMove
  <2> QED
    BY <2>1, <2>2
<1>3. ASSUME NEW o \in Ops, op'[o].terminal
      PROVE  ~Live(o)' /\ pc'[o] \notin {"idle", "reserving", "reserved"}
  <2> USE <1>3
  <2>1. pc[o] \notin {"idle", "reserving", "reserved"}
    <3>1. CASE op[o].terminal
      BY <3>1 DEF RecordInv
    <3>2. CASE Live(o)
      <4>1. PICK i \in IDs : pending[i] = o
        BY <3>2 DEF Live
      <4> QED
        BY <4>1, ConnAssumption DEF IDInv, PendingFiled
    <3> QED
      BY <3>1, <3>2, RecordFacts DEF RecordsMove
  <2>2. pc'[o] \notin {"idle", "reserving", "reserved"}
    BY <2>1 DEF CallsMove, CallMoves, AfterWriteError
  <2>3. ~Live(o)'
    BY <2>1, RecordFacts DEF RecordsMove, RecordInv
  <2> QED
    BY <2>2, <2>3
<1> QED
  BY <1>1, <1>2, <1>3 DEF RecordInv

-----------------------------------------------------------------------------
(***************************************************************************)
(* Waking the consumer.                                                    *)
(***************************************************************************)
\* A consumer goes to sleep only when there is nothing for it.
Asleep(o) ==
    \/ cons[o] = "wait"
    \/ /\ op'[o] = op[o] /\ op[o].queue = <<>>
       /\ op[o].deliveryErr = {} /\ ~op[o].terminal

ConsMove == \A o \in Ops : cons'[o] = "wait" => Asleep(o)

\* A step of one consumer.
LEMMA OneConsumer ==
    ASSUME TypeOK, NEW o \in Ops, NEW s, cons' = [cons EXCEPT ![o] = s],
           s = "wait" => Asleep(o)
    PROVE  ConsMove
<1> USE Zenon
<1>1. cons'[o] = s /\ \A x \in Ops \ {o} : cons'[x] = cons[x]
  BY DEF TypeOK, StreamType
<1> QED
  BY <1>1 DEF ConsMove, Asleep

\* Every step sends consumers to sleep so.
LEMMA ConsStep ==
    ASSUME TypeOK, Next
    PROVE  ConsMove
<1> USE Zenon
<1>1. UNCHANGED <<cons>> => ConsMove
  BY DEF ConsMove, Asleep
<1> USE <1>1
<1>2. ASSUME NEW o \in Ops, ObserveWrite(o) PROVE ConsMove
  <2>1. UNCHANGED cons => ConsMove
    OBVIOUS
  <2>2. cons' = [cons EXCEPT ![o] = "idle"] => ConsMove
    BY OneConsumer
  <2> QED
    BY <1>2, <2>1, <2>2 DEF ObserveWrite
<1>3. \A o \in Ops : CompleteNoResponse(o) => ConsMove
  BY OneConsumer DEF CompleteNoResponse
<1>4. \A o \in Ops : NextCall(o) => ConsMove
  BY OneConsumer DEF NextCall
<1>5. ASSUME NEW o \in Ops, NextLoop(o) PROVE ConsMove
  <2>1. cons' = [cons EXCEPT ![o] = "idle"] => ConsMove
    BY OneConsumer
  <2> DEFINE s == CASE op[o].deliveryErr # {} -> "failed"
                    [] op[o].deliveryErr = {} /\ op[o].terminal -> "eof"
                    [] OTHER -> "wait"
  <2>2. CASE /\ cons' = [cons EXCEPT ![o] = s]
             /\ op[o].queue = <<>> /\ UNCHANGED op
    <3>1. s = "wait" => op[o].deliveryErr = {} /\ ~op[o].terminal
      OBVIOUS
    <3> HIDE DEF s
    <3> QED
      BY <2>2, <3>1, OneConsumer DEF Asleep
  <2> QED
    BY <1>5, <2>1, <2>2 DEF NextLoop
<1>6. ASSUME NEW o \in Ops, NextWake(o) PROVE ConsMove
  <2>1. \A s \in {"idle", "loop"} : cons' = [cons EXCEPT ![o] = s] => ConsMove
    BY OneConsumer
  <2> QED
    BY <1>6, <2>1 DEF NextWake
<1>7. (\E o \in Ops : DoStep(o)) => ConsMove
  BY <1>2, <1>3
     DEF DoStep, Reserve, ReserveCanceled, GiveBack, InstallPending, TakeToken,
         StartWrite, WriteDone, RemoveDefinitelyUnsent, streamVars
<1>8. (\E o \in Ops : StreamStep(o)) => ConsMove
  BY <1>4, <1>5, <1>6 DEF StreamStep, CloseStream
<1>9. (\E o \in Ops : WatchOperation(o)) => ConsMove
  BY DEF WatchOperation
<1>10. (\E o \in Ops : AbandonStep(o)) => ConsMove
  BY DEF AbandonStep, AbandonReserve, AbandonTakeToken, AbandonTombstone,
         AbandonWritten, AbandonRetire, streamVars
<1>11. (\E c \in Closers : CloseStep(c)) => ConsMove
  BY DEF CloseStep, CloseBegin, CloseAwait, CloseAcquire, CloseWritten,
         CloseFinish, streamVars
<1>12. WriteStep => ConsMove
  BY DEF WriteStep, WriteCheck, CancelWins, WriteReturn, WriteRetire, streamVars
<1>13. Flow => ConsMove
  BY DEF Flow, streamVars
<1>14. ReaderStep => ConsMove
  BY DEF ReaderStep, ReadFrame, ReadError, RouteUnsolicited, RouteUnowned,
         RouteWait, RouteAgain, Route, ReaderRetire, readerFrame, streamVars
<1>15. AsyncRetire => ConsMove
  BY DEF AsyncRetire, streamVars
<1>16. (\E u \in Listeners : NextUnsolicited(u)) => ConsMove
  BY DEF NextUnsolicited, streamVars
<1>17. (\E p \in Procs : ContextDone(p)) => ConsMove
  BY DEF ContextDone, streamVars
<1>18. PeerStep => ConsMove
  BY DEF PeerStep, PeerReplies, PeerStrays, LinkFault, peerFrame, streamVars
<1> QED
  BY <1>7, <1>8, <1>9, <1>10, <1>11, <1>12, <1>13, <1>14, <1>15, <1>16, <1>17,
     <1>18 DEF Next

\* What a sleeping consumer can count on, kept by the moves.
LEMMA ResponseWakeStep ==
    ASSUME TypeOK, NoLostResponseWakeup, RecordsMove, ConsMove
    PROVE  NoLostResponseWakeup'
<1> USE Zenon
<1>1. SUFFICES ASSUME NEW o \in Ops, cons'[o] = "wait",
                      \/ op'[o].queue # <<>>
                      \/ op'[o].deliveryErr # {}
                      \/ op'[o].terminal
               PROVE  op'[o].ready
  BY DEF NoLostResponseWakeup
<1>2. cons[o] = "wait"
  BY <1>1 DEF ConsMove, Asleep
<1>3. op[o] \in Operation
  BY DEF TypeOK
<1>4. LET q == [op[o] EXCEPT !.writeStarted = TRUE] IN
      /\ q.ready = op[o].ready /\ q.queue = op[o].queue
      /\ q.deliveryErr = op[o].deliveryErr /\ q.terminal = op[o].terminal
  BY <1>3 DEF Operation
<1>5. LET q == [op[o] EXCEPT !.observed = TRUE] IN
      /\ q.ready = op[o].ready /\ q.queue = op[o].queue
      /\ q.deliveryErr = op[o].deliveryErr /\ q.terminal = op[o].terminal
  BY <1>3 DEF Operation
<1>6. \/ op'[o].ready
      \/ /\ op'[o].ready = op[o].ready /\ op'[o].queue = op[o].queue
         /\ op'[o].deliveryErr = op[o].deliveryErr
         /\ op'[o].terminal = op[o].terminal
  <2>1. RecordMoves(o)
    BY DEF RecordsMove
  <2>2. cons'[o] # "idle" /\ cons'[o] # "loop" /\ cons[o] # "loop"
    BY <1>1, <1>2
  <2> QED
    BY <1>4, <1>5, <2>1, <2>2 DEF RecordMoves, Advances, Leaves
<1> QED
  BY <1>1, <1>2, <1>6 DEF NoLostResponseWakeup

-----------------------------------------------------------------------------
(***************************************************************************)
(* writeAll.                                                               *)
(***************************************************************************)
\* How a step may touch the writer: the token is granted, its holder calls
\* writeAll, writeAll goes on, a piece flows, or the token is given back.
Granted ==
    /\ token = Free /\ token' # Free /\ io.pc = "off"
    /\ io' \in {io, WriteAll}

Begun ==
    /\ UNCHANGED token /\ io.pc = "off" /\ io' = WriteAll
    /\ \A c \in Closers : token # Close(c)
    /\ \A o \in Ops : pc[o] # "writing"

Released ==
    /\ token' = Free /\ io.pc \in {"off", "ok", "failed"}
    /\ io' \in {io, Idle} /\ io'.pc = "off"

WriteMoves ==
    \/ /\ UNCHANGED <<sent, tail, torn>>
       /\ UNCHANGED <<token, io>> \/ Granted \/ Begun \/ Released
    \/ WriteStep
    \/ Flow

\* A call of writeAll has carried nothing yet.
LEMMA Fresh ==
    /\ WriteAll.pc = "check" /\ WriteAll.total = 0 /\ WriteAll.err = {}
    /\ Idle.pc = "off" /\ Idle.total = 0 /\ Idle.err = {}
BY Zenon DEF WriteAll, Idle

\* Every step touches the writer so.
LEMMA WriteMovesStep ==
    ASSUME TokenHeld, Next
    PROVE  WriteMoves
<1> USE Zenon
<1>1. UNCHANGED <<token, io, sent, tail, torn>> => WriteMoves
  BY DEF WriteMoves
<1>2. \A o \in Ops : TakeToken(o) => WriteMoves
  BY TokenFacts, ProcsApart DEF TakeToken, WriteMoves, Granted, wireVars
<1>3. ASSUME NEW o \in Ops, StartWrite(o) PROVE WriteMoves
  <2> USE <1>3
  <2>1. token = Do(o) /\ \A x \in Ops : pc[x] # "writing"
    BY ProcsApart DEF StartWrite, TokenHeld
  <2> QED
    BY <2>1, TokenFacts, ProcsApart DEF StartWrite, WriteMoves, Begun, wireVars
<1>4. \A o \in Ops : WriteDone(o) => WriteMoves
  BY Fresh DEF WriteDone, WriteMoves, Released, wireVars
<1>5. \A o \in Ops : AbandonTakeToken(o) => WriteMoves
  BY TokenFacts, ProcsApart DEF AbandonTakeToken, WriteMoves, Granted, wireVars
<1>6. ASSUME NEW o \in Ops, AbandonTombstone(o) PROVE WriteMoves
  <2> USE <1>6
  <2>0. token = Abandon(o)
    BY DEF AbandonTombstone, TokenHeld
  <2>1. token = Abandon(o) /\ \A x \in Ops : pc[x] # "writing"
    BY <2>0, ProcsApart DEF TokenHeld
  <2> QED
    BY <2>1, TokenFacts, ProcsApart
       DEF AbandonTombstone, WriteMoves, Begun, Released, wireVars
<1>7. \A o \in Ops : AbandonWritten(o) => WriteMoves
  BY Fresh DEF AbandonWritten, WriteMoves, Released, wireVars
<1>8. \A c \in Closers : CloseAcquire(c) => WriteMoves
  BY TokenFacts, ProcsApart DEF CloseAcquire, WriteMoves, Granted, wireVars
<1>9. \A c \in Closers : CloseWritten(c) => WriteMoves
  BY Fresh DEF CloseWritten, WriteMoves, Released, wireVars
<1>10. WriteCheck => WriteMoves
  BY DEF WriteStep, WriteMoves
<1>11. CancelWins => WriteMoves
  BY DEF WriteStep, WriteMoves
<1>12. WriteReturn => WriteMoves
  BY DEF WriteStep, WriteMoves
<1>13. WriteRetire => WriteMoves
  BY DEF WriteStep, WriteMoves
<1>14. Flow => WriteMoves
  BY DEF WriteMoves
<1>15. (\E o \in Ops : DoStep(o)) => WriteMoves
  BY <1>1, <1>2, <1>3, <1>4
     DEF DoStep, Reserve, ReserveCanceled, GiveBack, InstallPending,
         RemoveDefinitelyUnsent, ObserveWrite, CompleteNoResponse, writeVars,
         wireVars
<1>16. (\E o \in Ops : StreamStep(o)) => WriteMoves
  BY <1>1
     DEF StreamStep, NextCall, NextLoop, NextWake, CloseStream, streamFrame,
         writeVars, wireVars
<1>17. (\E o \in Ops : WatchOperation(o)) => WriteMoves
  BY <1>1 DEF WatchOperation, streamFrame, writeVars, wireVars
<1>18. (\E o \in Ops : AbandonStep(o)) => WriteMoves
  BY <1>1, <1>5, <1>6, <1>7
     DEF AbandonStep, AbandonReserve, AbandonRetire, writeVars, wireVars
<1>19. (\E c \in Closers : CloseStep(c)) => WriteMoves
  BY <1>1, <1>8, <1>9
     DEF CloseStep, CloseBegin, CloseAwait, CloseFinish, writeVars, wireVars
<1>20. WriteStep => WriteMoves
  BY <1>10, <1>11, <1>12, <1>13 DEF WriteStep
<1>21. ReaderStep => WriteMoves
  BY <1>1
     DEF ReaderStep, ReadFrame, ReadError, RouteUnsolicited, RouteUnowned,
         RouteWait, RouteAgain, Route, ReaderRetire, readerFrame, writeVars,
         wireVars
<1>22. AsyncRetire => WriteMoves
  BY <1>1 DEF AsyncRetire, writeVars, wireVars
<1>23. (\E u \in Listeners : NextUnsolicited(u)) => WriteMoves
  BY <1>1 DEF NextUnsolicited, writeVars, wireVars
<1>24. (\E p \in Procs : ContextDone(p)) => WriteMoves
  BY <1>1 DEF ContextDone, writeVars, wireVars
<1>25. PeerStep => WriteMoves
  BY <1>1
     DEF PeerStep, PeerReplies, PeerStrays, LinkFault, peerFrame, writeVars,
         wireVars
<1> QED
  BY <1>15, <1>16, <1>17, <1>18, <1>19, <1>20, <1>14, <1>21, <1>22, <1>23,
     <1>24, <1>25 DEF Next

\* What a pass of writeAll does to its own state.
LEMMA WriteStepIO ==
    ASSUME TypeOK, WriteStep
    PROVE  /\ UNCHANGED <<token, sent, tail, torn>>
           /\ io.pc \in {"check", "inwrite", "retire"} /\ io'.total = io.total
           /\ io'.pc = "ok" => io.total = FrameLen
           /\ io'.pc = "off" => FALSE
           /\ io'.pc = "inwrite" /\ io'.won =>
                \/ io.pc = "inwrite" /\ io.won
                \/ Ambiguous(CtxErr) \in retiring'
           /\ io'.pc = "failed" =>
                \/ io.total = 0 /\ NothingSent(io'.total, io'.err)
                \/ /\ io.pc = "inwrite" /\ io.won
                   /\ io.total = FrameLen \/ LinkDown \/ ShortWrites
                \/ WriteRetire
           /\ io'.pc \in {"check", "inwrite"} =>
                io'.err = io.err /\ io.pc \in {"check", "inwrite"}
           /\ \/ io'.err = io.err
              \/ /\ io.total = 0 /\ "transport" \in io'.err
              \/ /\ "ambiguous" \in io'.err /\ "transport" \in io'.err
                 /\ "unsent" \notin io'.err
<1> USE Zenon
<1>1. io \in WriteCall
  BY DEF TypeOK, WriterType
<1>2. /\ "transport" \in DefinitelyUnsent(CtxErr)
      /\ "ambiguous" \notin DefinitelyUnsent(CtxErr)
      /\ "transport" \in Ambiguous(CtxErr) /\ "ambiguous" \in Ambiguous(CtxErr)
      /\ "unsent" \notin Ambiguous(CtxErr)
  BY DEF DefinitelyUnsent, Ambiguous, CtxErr
<1>3. \/ io.total = 0 /\ "transport" \in WriteError
      \/ /\ "transport" \in WriteError /\ "ambiguous" \in WriteError
         /\ "unsent" \notin WriteError
  BY DEF WriteError, DefinitelyUnsent, Ambiguous, CtxErr
<1>4. CASE WriteCheck
  <2> USE <1>4
  <2>1. UNCHANGED <<token, sent, tail, torn>> /\ io.pc = "check"
    BY DEF WriteCheck, wireVars
  <2>2. CASE io' = [io EXCEPT !.pc = "failed", !.err = DefinitelyUnsent(CtxErr)]
             /\ io.total = 0
    <3> USE <2>2
    <3>1. io'.pc = "failed" /\ io'.total = 0 /\ io'.err = DefinitelyUnsent(CtxErr)
      BY <1>1 DEF WriteCall
    <3> QED
      BY <1>2, <2>1, <3>1 DEF NothingSent
  <2>3. CASE io' = [io EXCEPT !.pc = "retire", !.err = Ambiguous(CtxErr)]
    <3>1. /\ io'.pc = "retire" /\ io'.total = io.total
          /\ io'.err = Ambiguous(CtxErr)
      BY <1>1, <2>3 DEF WriteCall
    <3> QED
      BY <1>2, <2>1, <3>1
  <2>4. CASE io' = [io EXCEPT !.pc = "inwrite", !.begun = io.total, !.won = FALSE]
    <3>1. /\ io'.pc = "inwrite" /\ io'.total = io.total /\ io'.won = FALSE
          /\ io'.err = io.err
      BY <1>1, <2>4 DEF WriteCall
    <3> QED
      BY <2>1, <3>1
  <2> QED
    BY <2>2, <2>3, <2>4 DEF WriteCheck
<1>5. CASE CancelWins
  <2>1. /\ UNCHANGED <<token, sent, tail, torn>> /\ io.pc = "inwrite"
        /\ io' = [io EXCEPT !.won = TRUE] /\ Ambiguous(CtxErr) \in retiring'
    BY <1>5 DEF CancelWins, wireVars
  <2>2. io'.pc = "inwrite" /\ io'.total = io.total /\ io'.err = io.err
    BY <1>1, <2>1 DEF WriteCall
  <2> QED
    BY <2>1, <2>2
<1>6. CASE WriteReturn
  <2> USE <1>6
  <2>1. /\ UNCHANGED <<token, sent, tail, torn>> /\ io.pc = "inwrite"
        /\ io.total = FrameLen \/ LinkDown \/ ShortWrites
    BY DEF WriteReturn, wireVars
  <2>2. CASE io' = [io EXCEPT !.pc = "failed", !.err = Ambiguous(CtxErr)] /\ io.won
    <3> USE <2>2
    <3>1. /\ io'.pc = "failed" /\ io'.total = io.total
          /\ io'.err = Ambiguous(CtxErr)
      BY <1>1 DEF WriteCall
    <3> QED
      BY <1>2, <2>1, <3>1
  <2>3. CASE io' = [io EXCEPT !.pc = "ok"] /\ io.total = FrameLen
    <3> USE <2>3
    <3>1. io'.pc = "ok" /\ io'.total = io.total /\ io'.err = io.err
      BY <1>1 DEF WriteCall
    <3> QED
      BY <2>1, <3>1
  <2>4. CASE io' = [io EXCEPT !.pc = "check"]
    <3>1. io'.pc = "check" /\ io'.total = io.total /\ io'.err = io.err
      BY <1>1, <2>4 DEF WriteCall
    <3> QED
      BY <2>1, <3>1
  <2>5. CASE io' = [io EXCEPT !.pc = "retire", !.err = WriteError]
    <3>1. io'.pc = "retire" /\ io'.total = io.total /\ io'.err = WriteError
      BY <1>1, <2>5 DEF WriteCall
    <3> QED
      BY <1>3, <2>1, <3>1
  <2> QED
    <3>1. \/ io' = [io EXCEPT !.pc = "failed", !.err = Ambiguous(CtxErr)] /\ io.won
          \/ io' = [io EXCEPT !.pc = "ok"] /\ io.total = FrameLen
          \/ io' = [io EXCEPT !.pc = "check"]
          \/ io' = [io EXCEPT !.pc = "retire", !.err = WriteError]
      BY SMT DEF WriteReturn
    <3> QED
      BY <2>2, <2>3, <2>4, <2>5, <3>1
<1>7. CASE WriteRetire
  <2> USE <1>7
  <2>1. /\ UNCHANGED <<token, sent, tail, torn>> /\ io.pc = "retire"
        /\ io' = [io EXCEPT !.pc = "failed"]
    BY DEF WriteRetire, wireVars
  <2>2. io'.pc = "failed" /\ io'.total = io.total /\ io'.err = io.err
    BY <1>1, <2>1 DEF WriteCall
  <2> QED
    BY <2>1, <2>2
<1> QED
  BY <1>4, <1>5, <1>6, <1>7 DEF WriteStep

\* What a flowing piece does to it.
LEMMA FlowIO ==
    ASSUME TypeOK, Flow
    PROVE  /\ io.pc = "inwrite" /\ ~LinkDown /\ io.total < FrameLen
           /\ io'.pc = "inwrite" /\ io'.total = io.total + 1
           /\ io'.won = io.won /\ io'.err = io.err
           /\ UNCHANGED token
<1> USE Zenon
<1>1. io \in WriteCall
  BY DEF TypeOK, WriterType
<1>2. /\ io.pc = "inwrite" /\ ~LinkDown /\ io.total < FrameLen
      /\ io' = [io EXCEPT !.total = @ + 1] /\ UNCHANGED token
  BY DEF Flow
<1> QED
  BY <1>1, <1>2 DEF WriteCall

\* The last frame on the wire stays known.
LEMMA TailStep ==
    ASSUME TypeOK, TailKnown, WriteMoves, ErrMoves
    PROVE  TailKnown'
<1> USE Zenon
<1>1. err' # {} => link'.closed
  BY DEF TailKnown, ErrMoves
<1> USE <1>1
<1>2. CASE Flow
  <2> USE <1>2
  <2>1. tail'.who = token
    <3>1. tail' = IF tail.n < FrameLen /\ tail.who = token
                  THEN [tail EXCEPT !.n = @ + 1] ELSE [who |-> token, n |-> 1]
      BY DEF Flow
    <3> QED
      BY <3>1 DEF TypeOK, WriterType
  <2> QED
    BY <2>1, FlowIO DEF TailKnown
<1>3. WriteStep => TailKnown'
  BY WriteStepIO DEF TailKnown
<1>4. UNCHANGED <<tail, token, io>> => TailKnown'
  BY DEF TailKnown
<1>5. (Granted \/ Begun \/ Released) =>
         (io'.pc # "off" => io'.total = 0 /\ io'.pc # "ok")
  BY Fresh DEF Granted, Begun, Released
<1> QED
  BY <1>2, <1>3, <1>4, <1>5 DEF WriteMoves, TailKnown

\* No frame is torn, if Write never returns short without an error.
LEMMA FrameStep ==
    ASSUME ~ShortWrites, TypeOK, TypeOK', TailKnown, FrameInv, WriteMoves,
           ErrMoves, WriteRetire => err' # {}, TailKnown'
    PROVE  FrameInv'
<1> USE Zenon
<1>1. /\ io \in WriteCall /\ FrameLen \in Nat \ {0}
      /\ tail \in [who : Procs \cup {Free}, n : 1 .. FrameLen]
  BY ConnAssumption DEF TypeOK, WriterType
<1>2. LinkDown => LinkDown'
  BY DEF ErrMoves
<1>3. CASE Flow
  <2> USE <1>3
  <2>1. /\ io.pc = "inwrite" /\ ~LinkDown /\ io.total < FrameLen
        /\ io'.pc = "inwrite" /\ io'.total = io.total + 1 /\ UNCHANGED token
    BY FlowIO
  <2> USE <2>1
  <2>2. \/ io.total # 0 /\ tail.who = token /\ tail.n = io.total
        \/ io.total = 0 /\ tail.n = FrameLen
    BY <1>1, SMT DEF FrameInv, TailKnown
  <2>3. /\ tail' = IF tail.n < FrameLen /\ tail.who = token
                   THEN [tail EXCEPT !.n = @ + 1] ELSE [who |-> token, n |-> 1]
        /\ torn' = (torn \/ (tail.n < FrameLen /\ tail.who # token))
    BY DEF Flow
  <2>4. tail'.who = token /\ tail'.n = io.total + 1
    BY <1>1, <2>2, <2>3, SMT
  <2>5. ~torn'
    <3>1. tail.n < FrameLen => tail.who = token
      BY <1>1, <2>2, SMT
    <3> QED
      BY <2>3, <3>1 DEF FrameInv
  <2> QED
    BY <2>4, <2>5 DEF FrameInv
<1>4. CASE WriteStep
  <2> USE <1>4
  <2>1. /\ UNCHANGED <<token, tail, torn>> /\ io'.total = io.total
        /\ io.pc # "off"
    BY WriteStepIO
  <2>2. ASSUME io'.pc \notin {"check", "inwrite", "retire"}
        PROVE  LinkDown' \/ tail.n = FrameLen \/ ~(tail.n = io.total)
    <3>1. io'.pc \in {"ok", "failed"}
      <4>1. io'.pc \in {"off", "check", "inwrite", "retire", "ok", "failed"}
        BY DEF TypeOK, WriterType, WriteCall
      <4> QED
        BY <2>2, <4>1, WriteStepIO
    <3>2. CASE io'.pc = "ok"
      BY <3>2, WriteStepIO
    <3>3. CASE io.total = 0
      BY <1>1, <3>3, SMT
    <3>4. CASE io.total = FrameLen \/ LinkDown
      BY <1>2, <3>4
    <3>5. CASE WriteRetire
      BY <3>5 DEF TailKnown, LinkDown
    <3> QED
      BY <3>1, <3>2, <3>3, <3>4, <3>5, WriteStepIO
  <2>3. ~torn' /\ (io'.pc # "off" /\ io'.total # 0 => tail'.n = io'.total)
    BY <2>1 DEF FrameInv
  <2>4. \/ LinkDown'
        \/ tail'.n = FrameLen
        \/ /\ io'.pc \in {"check", "inwrite", "retire"}
           /\ tail'.who = token' /\ tail'.n = io'.total
    BY <1>2, <2>1, <2>2 DEF FrameInv
  <2> QED
    BY <2>3, <2>4 DEF FrameInv
<1>5. CASE UNCHANGED <<tail, torn, token, io>>
  BY <1>2, <1>5 DEF FrameInv
<1>6. CASE UNCHANGED <<tail, torn>> /\ (Granted \/ Begun \/ Released)
  <2> USE <1>6
  <2>1. io.pc \notin {"check", "inwrite", "retire"}
    BY DEF Granted, Begun, Released
  <2>2. io'.pc # "off" => io'.total = 0
    BY Fresh DEF Granted, Begun, Released
  <2> QED
    BY <1>2, <2>1, <2>2 DEF FrameInv
<1> QED
  BY <1>3, <1>4, <1>5, <1>6 DEF WriteMoves

\* No operation is left behind by its failed write.
LEMMA UnsentStep ==
    ASSUME TypeOK, IDInv, RecordInv', UnsentInv, RecordsMove, CallsMove, ErrMoves,
           WriteMoves, WriteRetire => err' # {}
    PROVE  UnsentInv'
<1> USE Zenon
<1>1. AboutToRetire => AboutToRetire'
  BY DEF ErrMoves
<1>2. ASSUME NEW o \in Ops, pc'[o] = "failed", Live(o)'
      PROVE  Ambiguous(CtxErr) \in retiring'
  <2> USE <1>2
  <2>1. Live(o)
    BY RecordFacts DEF RecordsMove
  <2>2. pc[o] \notin {"idle", "reserving", "reserved"}
    <3>1. PICK i \in IDs : pending[i] = o
      BY <2>1 DEF Live
    <3> QED
      BY <3>1, ConnAssumption DEF IDInv, PendingFiled
  <2>3. err' = {}
    BY DEF RecordInv
  <2>4. pc[o] = "failed" => Ambiguous(CtxErr) \in retiring'
    BY <1>1, <2>1, <2>3 DEF UnsentInv, NoLeakedID, AboutToRetire
  <2>5. CASE pc[o] # "failed"
    <3>1. /\ io.pc = "failed"
          /\ pc'[o] = AfterWriteError(io.total, io.err)
      <4>1. CallMoves(o)
        BY DEF CallsMove
      <4>2. err = {}
        BY <2>3 DEF ErrMoves
      <4> QED
        BY <2>2, <2>5, <4>1, <4>2 DEF CallMoves
    <3>2. ~NothingSent(io.total, io.err)
      BY <3>1 DEF AfterWriteError
    <3> QED
      BY <1>1, <2>3, <3>1, <3>2 DEF UnsentInv, AboutToRetire
  <2> QED
    BY <2>4, <2>5
<1>3. /\ io'.pc = "inwrite" /\ io'.won => AboutToRetire'
      /\ io'.pc = "failed" => NothingSent(io'.total, io'.err) \/ AboutToRetire'
  <2>1. CASE UNCHANGED io
    BY <1>1, <2>1 DEF UnsentInv
  <2>2. CASE Granted \/ Begun \/ Released
    <3>1. UNCHANGED io \/ io'.pc \notin {"inwrite", "failed"}
      BY <2>2, Fresh DEF Granted, Begun, Released
    <3> QED
      BY <2>1, <3>1
  <2>3. CASE WriteStep
    <3>1. WriteRetire => AboutToRetire'
      BY DEF AboutToRetire
    <3>2. Ambiguous(CtxErr) \in retiring' => AboutToRetire'
      BY DEF AboutToRetire
    <3> QED
      BY <1>1, <2>3, <3>1, <3>2, WriteStepIO DEF UnsentInv
  <2>4. CASE Flow
    <3> USE <2>4
    <3>1. io'.pc # "failed"
      BY FlowIO
    <3> QED
      BY <1>1, <3>1, FlowIO DEF UnsentInv
  <2> QED
    BY <2>1, <2>2, <2>3, <2>4 DEF WriteMoves
<1> QED
  BY <1>2, <1>3 DEF UnsentInv, NoLeakedID

-----------------------------------------------------------------------------
(***************************************************************************)
(* CloseContext.                                                           *)
(***************************************************************************)
\* How a step may move a CloseContext call.
CloserMoves(c) ==
    \/ cpc'[c] = cpc[c]
    \/ cpc[c] \in {"idle", "await"} /\ cpc'[c] \in {"await", "done"}
    \/ cpc[c] = "idle" /\ cpc'[c] = "acquire" /\ ~closing /\ closing'
    \/ cpc[c] = "acquire" /\ cpc'[c] \in {"writing", "finish"}
    \/ cpc[c] = "writing" /\ cpc'[c] = "finish"
    \/ cpc[c] = "finish" /\ cpc'[c] = "done" /\ err' # {}

\* One of them moves at a time, closing stays set, and once it is set only the
\* caller that set it is granted the token.
CloseMoves ==
    /\ \A c \in Closers : CloserMoves(c)
    /\ \A c, d \in Closers : cpc'[c] = cpc[c] \/ cpc'[d] = cpc[d] \/ c = d
    /\ closing => closing'
    /\ \/ token' \in {token, Free}
       \/ ~closing
       \/ \E c \in Closers : cpc[c] = "acquire" /\ token' = Close(c)

\* A step of one CloseContext call.
LEMMA OneCloser ==
    ASSUME TypeOK, NEW c \in Closers, NEW s, cpc' = [cpc EXCEPT ![c] = s],
           cpc'[c] = s => CloserMoves(c), closing => closing',
           \/ token' \in {token, Free}
           \/ cpc[c] = "acquire" /\ token' = Close(c)
    PROVE  CloseMoves
<1> USE Zenon
<1>1. cpc'[c] = s /\ \A x \in Closers \ {c} : cpc'[x] = cpc[x]
  BY DEF TypeOK, CloseType
<1> QED
  BY <1>1 DEF CloseMoves, CloserMoves

\* Every step moves them so.
LEMMA CloseMovesStep ==
    ASSUME TypeOK, Next
    PROVE  CloseMoves
<1> USE Zenon
<1>1. ASSUME UNCHANGED <<closing, cpc, token>> PROVE CloseMoves
  BY <1>1 DEF CloseMoves, CloserMoves
<1>2. ASSUME NEW o \in Ops, TakeToken(o) PROVE CloseMoves
  <2>1. HeldError(Do(o)) = {} => ~closing
    BY DEF HeldError, DefinitelyUnsent
  <2> QED
    BY <1>2, <2>1 DEF TakeToken, CloseMoves, CloserMoves, connVars, closeVars
<1>3. ASSUME NEW o \in Ops, WriteDone(o) PROVE CloseMoves
  BY <1>3 DEF WriteDone, CloseMoves, CloserMoves, connVars, closeVars
<1>4. ASSUME NEW o \in Ops, AbandonTakeToken(o) PROVE CloseMoves
  <2>1. HeldError(Abandon(o)) = {} => ~closing
    BY DEF HeldError, DefinitelyUnsent
  <2> QED
    BY <1>4, <2>1
       DEF AbandonTakeToken, CloseMoves, CloserMoves, connVars, closeVars
<1>5. ASSUME NEW o \in Ops, AbandonTombstone(o) PROVE CloseMoves
  BY <1>5 DEF AbandonTombstone, CloseMoves, CloserMoves, connVars, closeVars
<1>6. ASSUME NEW o \in Ops, AbandonWritten(o) PROVE CloseMoves
  BY <1>6 DEF AbandonWritten, CloseMoves, CloserMoves, connVars, closeVars
<1>7. ASSUME NEW c \in Closers, CloseBegin(c) PROVE CloseMoves
  <2>1. UNCHANGED token /\ cpc[c] = "idle"
    BY <1>7 DEF CloseBegin, writeVars
  <2> USE <2>1
  <2>2. CASE cpc' = [cpc EXCEPT ![c] = "done"] /\ UNCHANGED closing
    BY <2>2, OneCloser DEF CloserMoves
  <2>3. CASE cpc' = [cpc EXCEPT ![c] = "await"] /\ UNCHANGED closing
    BY <2>3, OneCloser DEF CloserMoves
  <2>4. CASE cpc' = [cpc EXCEPT ![c] = "acquire"] /\ ~closing /\ closing' = TRUE
    BY <2>4, OneCloser DEF CloserMoves
  <2> QED
    BY <1>7, <2>2, <2>3, <2>4 DEF CloseBegin
<1>8. ASSUME NEW c \in Closers, CloseAwait(c) PROVE CloseMoves
  BY <1>8, OneCloser DEF CloseAwait, CloserMoves, connVars, writeVars
<1>9. ASSUME NEW c \in Closers, CloseAcquire(c) PROVE CloseMoves
  <2> USE <1>9
  <2>1. UNCHANGED closing /\ cpc[c] = "acquire"
    BY DEF CloseAcquire, connVars
  <2>2. cpc' = [cpc EXCEPT ![c] = "writing"] /\ token' = Close(c) => CloseMoves
    BY <2>1, OneCloser DEF CloserMoves
  <2>3. cpc' = [cpc EXCEPT ![c] = "finish"] /\ UNCHANGED token => CloseMoves
    BY <2>1, OneCloser DEF CloserMoves
  <2> QED
    BY <2>2, <2>3 DEF CloseAcquire
<1>10. ASSUME NEW c \in Closers, CloseWritten(c) PROVE CloseMoves
  BY <1>10, OneCloser DEF CloseWritten, CloserMoves, connVars
<1>11. ASSUME NEW c \in Closers, CloseFinish(c) PROVE CloseMoves
  <2> USE <1>11
  <2>1. err' # {}
    BY RetireEnds, ErrorsNonEmpty DEF CloseFinish
  <2> QED
    BY <2>1, OneCloser DEF CloseFinish, CloserMoves, writeVars
<1>12. (\E o \in Ops : DoStep(o)) => CloseMoves
  BY <1>1, <1>2, <1>3
     DEF DoStep, Reserve, ReserveCanceled, GiveBack, InstallPending, StartWrite,
         RemoveDefinitelyUnsent, ObserveWrite, CompleteNoResponse, connVars,
         closeVars, writeVars
<1>13. (\E o \in Ops : StreamStep(o)) => CloseMoves
  BY <1>1
     DEF StreamStep, NextCall, NextLoop, NextWake, CloseStream, streamFrame,
         connVars, closeVars, writeVars
<1>14. (\E o \in Ops : WatchOperation(o)) => CloseMoves
  BY <1>1 DEF WatchOperation, streamFrame, connVars, closeVars, writeVars
<1>15. (\E o \in Ops : AbandonStep(o)) => CloseMoves
  BY <1>1, <1>4, <1>5, <1>6
     DEF AbandonStep, AbandonReserve, AbandonRetire, connVars, closeVars,
         writeVars
<1>16. (\E c \in Closers : CloseStep(c)) => CloseMoves
  BY <1>7, <1>8, <1>9, <1>10, <1>11 DEF CloseStep
<1>17. WriteStep => CloseMoves
  BY <1>1
     DEF WriteStep, WriteCheck, CancelWins, WriteReturn, WriteRetire, connVars,
         closeVars
<1>18. Flow => CloseMoves
  BY <1>1 DEF Flow, connVars, closeVars
<1>19. ReaderStep => CloseMoves
  BY <1>1
     DEF ReaderStep, ReadFrame, ReadError, RouteUnsolicited, RouteUnowned,
         RouteWait, RouteAgain, Route, ReaderRetire, readerFrame, connVars,
         closeVars, writeVars
<1>20. AsyncRetire => CloseMoves
  BY <1>1 DEF AsyncRetire, closeVars, writeVars
<1>21. (\E u \in Listeners : NextUnsolicited(u)) => CloseMoves
  BY <1>1 DEF NextUnsolicited, connVars, closeVars, writeVars
<1>22. (\E p \in Procs : ContextDone(p)) => CloseMoves
  BY <1>1 DEF ContextDone, connVars, closeVars, writeVars
<1>23. PeerStep => CloseMoves
  BY <1>1
     DEF PeerStep, PeerReplies, PeerStrays, LinkFault, peerFrame, connVars,
         closeVars, writeVars
<1> QED
  BY <1>12, <1>13, <1>14, <1>15, <1>16, <1>17, <1>18, <1>19, <1>20, <1>21,
     <1>22, <1>23 DEF Next

\* From the first piece of the Unbind on nobody else writes.
LEMMA UnbindStep ==
    ASSUME TypeOK, TokenHeld, TokenHeld', TailKnown, TailKnown', UnbindInv,
           CloseMoves, WriteMoves, ErrMoves
    PROVE  UnbindInv'
<1> USE Zenon
<1>1. \A c \in Closers : c \in Closer' =>
             \/ c \in Closer
             \/ ~closing /\ closing' /\ cpc'[c] # cpc[c]
  BY DEF Closer, CloseMoves, CloserMoves
<1>2. \A c, d \in Closer' : c = d
  <2>1. SUFFICES ASSUME NEW c \in Closers, NEW d \in Closers,
                        c \in Closer', d \in Closer'
                 PROVE  c = d
    BY DEF Closer
  <2>2. closing => c = d
    BY <1>1, <2>1 DEF UnbindInv
  <2>3. CASE ~closing
    <3>1. c \notin Closer /\ d \notin Closer
      BY <2>3 DEF UnbindInv
    <3> QED
      BY <1>1, <2>1, <3>1 DEF CloseMoves
  <2> QED
    BY <2>2, <2>3
<1>3. Closer' # {} => closing'
  <2>1. SUFFICES ASSUME NEW c \in Closers, c \in Closer' PROVE closing'
    BY DEF Closer
  <2>2. CASE c \in Closer
    <3>1. Closer # {}
      BY <2>2
    <3> QED
      BY <3>1 DEF UnbindInv, CloseMoves
  <2> QED
    BY <1>1, <2>1, <2>2
<1>4. ASSUME NEW c \in Closers, tail'.who = Close(c), ~link'.closed
      PROVE  /\ cpc'[c] \in {"writing", "finish"}
             /\ token' \in {Free, Close(c)}
             /\ cpc'[c] = "writing" => io'.total # 0 /\ tail'.n = io'.total
  <2> USE <1>4
  <2>1. ~link.closed /\ err' = {}
    BY DEF ErrMoves, TailKnown
  <2>2. CASE Flow
    <3> USE <2>2
    <3>1. /\ io.pc = "inwrite" /\ io.total < FrameLen /\ io'.pc = "inwrite"
          /\ io'.total = io.total + 1 /\ UNCHANGED token
      BY FlowIO
    <3>2. /\ io.total \in Nat /\ tail.n \in Nat
          /\ tail \in [who : Procs \cup {Free}, n : 1 .. FrameLen]
      BY SMT DEF TypeOK, WriterType, WriteCall
    <3>3. tail' = IF tail.n < FrameLen /\ tail.who = token
                  THEN [tail EXCEPT !.n = @ + 1] ELSE [who |-> token, n |-> 1]
      BY DEF Flow
    <3>4. token = Close(c)
      BY <3>2, <3>3
    <3> USE <3>4
    <3>5. cpc[c] = "writing" /\ cpc'[c] = "writing"
      BY DEF TokenHeld, Flow, closeVars
    <3>6. tail'.n = io.total + 1
      <4>1. CASE tail.who = Close(c)
        <5> USE <4>1
        <5>1. tail.n = io.total
          BY <2>1, <3>5 DEF UnbindInv
        <5> QED
          BY <3>1, <3>2, <3>3, <5>1
      <4>2. CASE tail.who # Close(c)
        <5> USE <4>2
        <5>1. io.total = 0
          BY <3>1 DEF TailKnown
        <5> QED
          BY <3>3, <5>1, SMT
      <4> QED
        BY <4>1, <4>2
    <3> QED
      BY <3>1, <3>2, <3>5, <3>6, SMT
  <2>3. CASE ~Flow
    <3> USE <2>3
    <3>1. UNCHANGED tail
      BY WriteStepIO DEF WriteMoves
    <3>2. /\ cpc[c] \in {"writing", "finish"}
          /\ token \in {Free, Close(c)}
          /\ cpc[c] = "writing" => io.total # 0 /\ tail.n = io.total
      BY <2>1, <3>1 DEF UnbindInv
    <3> USE <3>2
    <3>3. cpc'[c] \in {"writing", "finish"} /\ (cpc'[c] = "writing" => cpc[c] = "writing")
      BY <2>1 DEF CloseMoves, CloserMoves
    <3>4. closing /\ \A d \in Closers : cpc[d] = "acquire" => FALSE
      <4>1. c \in Closer
        BY DEF Closer
      <4>2. \A d \in Closers : cpc[d] = "acquire" => d \in Closer /\ d # c
        BY DEF Closer
      <4> QED
        BY <4>1, <4>2 DEF UnbindInv
    <3>5. token' \in {Free, Close(c)}
      BY <3>4 DEF CloseMoves
    <3>6. ASSUME cpc'[c] = "writing" PROVE io'.total = io.total
      <4>1. token = Close(c) /\ token' = Close(c)
        BY <3>3, <3>6 DEF TokenHeld
      <4>2. token # Free
        BY <4>1, ProcsApart
      <4> QED
        BY <4>1, <4>2, WriteStepIO DEF WriteMoves, Granted, Begun, Released
    <3> QED
      BY <3>1, <3>3, <3>5, <3>6
  <2> QED
    BY <2>2, <2>3
<1> QED
  BY <1>2, <1>3, <1>4 DEF UnbindInv

\* Once the whole Unbind is on the wire, nothing follows.
LEMMA UnbindLast ==
    ASSUME TypeOK, TokenHeld, UnbindInv, WriteMoves,
           NEW c \in Closers, tail = [who |-> Close(c), n |-> FrameLen]
    PROVE  UNCHANGED tail
<1> USE Zenon
<1>1. CASE Flow
  <2>1. /\ io.pc = "inwrite" /\ ~LinkDown /\ io.total < FrameLen
    BY <1>1, FlowIO
  <2> USE <2>1
  <2>2. tail.who = Close(c) /\ tail.n = FrameLen /\ ~link.closed
    BY DEF LinkDown
  <2> USE <2>2
  <2>3. token # Free
    BY TokenFacts
  <2>4. token = Close(c) /\ cpc[c] = "writing"
    BY <2>3 DEF UnbindInv, TokenHeld
  <2>5. tail.n = io.total
    BY <2>4 DEF UnbindInv
  <2> QED
    BY <2>5, ConnAssumption, SMT
<1> QED
  BY <1>1, WriteStepIO DEF WriteMoves

-----------------------------------------------------------------------------
(***************************************************************************)
(* What the errors say.                                                    *)
(***************************************************************************)
\* An error that says the request was not sent is a transport error.
Honest(e) == "unsent" \in e => "transport" \in e

WireHonest ==
    /\ Honest(io.err) /\ Honest(reader.err)
    /\ \A e \in retiring : Honest(e)
    /\ \A o \in Ops : Honest(aerr[o])

\* The errors the code builds itself.
LEMMA BuiltHonest ==
    /\ \A e : Honest(DefinitelyUnsent(e)) /\ Honest(Ambiguous(e))
    /\ Honest({}) /\ Honest(ErrClosed) /\ Honest(CtxErr)
    /\ Honest({"limit"}) /\ Honest({"protocol"}) /\ Honest({"notice"})
    /\ Honest({"transport"})
<1> USE Zenon
<1>1. \A e : "transport" \in DefinitelyUnsent(e) /\ "transport" \in Ambiguous(e)
  BY DEF DefinitelyUnsent, Ambiguous
<1>2. /\ "unsent" \notin {} /\ "unsent" \notin ErrClosed /\ "unsent" \notin CtxErr
      /\ "unsent" \notin {"limit"} /\ "unsent" \notin {"protocol"}
      /\ "unsent" \notin {"notice"} /\ "unsent" \notin {"transport"}
  BY DEF ErrClosed, CtxErr
<1> QED
  BY <1>1, <1>2 DEF Honest

\* What acquireWriter returns.
LEMMA AcquireHonest ==
    ASSUME NEW p
    PROVE  \A e \in AcquireErrors(p) : Honest(e)
<1> USE Zenon
<1>1. \A e \in AcquireErrors(p) : \E d : e = DefinitelyUnsent(d)
  <2>1. HeldError(p) # {} => \E d : HeldError(p) = DefinitelyUnsent(d)
    BY DEF HeldError
  <2> QED
    BY <2>1 DEF AcquireErrors
<1> QED
  BY <1>1, BuiltHonest

\* A step that gives one sendAbandon goroutine its error.
LEMMA AbandonHonest ==
    ASSUME TypeOK, WireHonest, NEW o \in Ops, NEW e, Honest(e),
           aerr' = [aerr EXCEPT ![o] = e], Honest(io'.err),
           UNCHANGED <<reader, retiring>>
    PROVE  WireHonest'
<1> USE Zenon
<1>1. \A x \in Ops : aerr'[x] \in {aerr[x], e}
  BY DEF TypeOK, AbandonType
<1> QED
  BY <1>1 DEF WireHonest

\* A step that gives the reader its error.
LEMMA ReaderHonest ==
    ASSUME WireHonest, Honest(reader'.err), UNCHANGED <<io, retiring, aerr>>
    PROVE  WireHonest'
BY Zenon DEF WireHonest

\* A step of the consumer, which may decide to retire the connection.
LEMMA CancelHonest ==
    ASSUME WireHonest, NEW o, NEW e, CancelOperation(o, e),
           UNCHANGED <<io, reader, aerr>>
    PROVE  WireHonest'
<1> USE Zenon
<1>1. \A x \in retiring' : x \in retiring \/ x = ErrClosed
  BY DEF CancelOperation
<1> QED
  BY <1>1, BuiltHonest DEF WireHonest

\* The error the reader is left with.
LEMMA ReaderErrors ==
    ASSUME TypeOK
    PROVE  /\ ReaderNext.err = reader.err
           /\ \A e : ReaderFails(e).err = e
BY Zenon DEF ReaderNext, ReaderFails, TypeOK, ReaderType

\* Every error on its way to retire stays honest.
LEMMA HonestStep ==
    ASSUME TypeOK, WireHonest, Next
    PROVE  WireHonest'
<1> USE Zenon
<1>1. UNCHANGED <<io, reader, retiring, aerr>> => WireHonest'
  BY DEF WireHonest
<1>2. ASSUME NEW o \in Ops, StartWrite(o) PROVE WireHonest'
  <2> USE <1>2
  <2>1. io' = io \/ io'.err = {}
    BY Fresh DEF StartWrite
  <2>2. UNCHANGED <<reader, retiring, aerr>>
    BY DEF StartWrite, abandVars
  <2> QED
    BY <2>1, <2>2, BuiltHonest DEF WireHonest
<1>3. ASSUME NEW o \in Ops, WriteDone(o) PROVE WireHonest'
  <2> USE <1>3
  <2>1. io' = io \/ io'.err = {}
    BY Fresh DEF WriteDone
  <2>2. UNCHANGED <<reader, retiring, aerr>>
    BY DEF WriteDone, abandVars
  <2> QED
    BY <2>1, <2>2, BuiltHonest DEF WireHonest
<1>4. ASSUME NEW o \in Ops, NextCall(o) PROVE WireHonest'
  <2> USE <1>4
  <2>1. UNCHANGED <<io, reader, aerr>>
    BY DEF NextCall, streamFrame, writeVars
  <2> QED
    BY <2>1, <1>1, CancelHonest DEF NextCall
<1>5. ASSUME NEW o \in Ops, NextWake(o) PROVE WireHonest'
  <2> USE <1>5
  <2>1. UNCHANGED <<io, reader, aerr>>
    BY DEF NextWake, streamFrame, writeVars
  <2> QED
    BY <2>1, <1>1, CancelHonest DEF NextWake
<1>6. \A o \in Ops : CloseStream(o) => WireHonest'
  BY CancelHonest DEF CloseStream, streamFrame, writeVars
<1>7. ASSUME NEW o \in Ops, WatchOperation(o) PROVE WireHonest'
  <2> USE <1>7
  <2>1. UNCHANGED <<io, reader, aerr>>
    BY DEF WatchOperation, streamFrame, writeVars
  <2> QED
    BY <2>1, <1>1, CancelHonest DEF WatchOperation
<1>8. \A o \in Ops : AbandonReserve(o) => WireHonest'
  BY <1>1, AbandonHonest, BuiltHonest DEF AbandonReserve, writeVars, WireHonest
<1>9. ASSUME NEW o \in Ops, AbandonTakeToken(o) PROVE WireHonest'
  <2> USE <1>9
  <2>1. UNCHANGED <<io, reader, retiring>>
    BY DEF AbandonTakeToken
  <2>2. ASSUME NEW e \in AcquireErrors(Abandon(o)), AbandonFails(o, e)
        PROVE  WireHonest'
    <3>1. PICK x : /\ x = IF "closed" \in e THEN {} ELSE e
                   /\ aerr' = [aerr EXCEPT ![o] = x]
      BY <2>2 DEF AbandonFails
    <3>2. Honest(x)
      BY <3>1, AcquireHonest, BuiltHonest
    <3> QED
      BY <2>1, <3>1, <3>2, AbandonHonest DEF WireHonest
  <2> QED
    BY <2>1, <2>2, <1>1 DEF AbandonTakeToken
<1>10. ASSUME NEW o \in Ops, AbandonTombstone(o) PROVE WireHonest'
  <2> USE <1>10
  <2>1. io' = io \/ io'.err = {}
    BY Fresh DEF AbandonTombstone
  <2>2. UNCHANGED <<reader, retiring, aerr>>
    BY DEF AbandonTombstone
  <2> QED
    BY <2>1, <2>2, BuiltHonest DEF WireHonest
<1>11. ASSUME NEW o \in Ops, AbandonWritten(o) PROVE WireHonest'
  <2> USE <1>11
  <2>1. io'.err = {}
    BY Fresh DEF AbandonWritten
  <2> QED
    BY <2>1, AbandonHonest, BuiltHonest DEF AbandonWritten, WireHonest
<1>12. ASSUME NEW c \in Closers, CloseAcquire(c) PROVE WireHonest'
  <2> USE <1>12
  <2>1. io' = io \/ io'.err = {}
    BY Fresh DEF CloseAcquire
  <2>2. UNCHANGED <<reader, retiring, aerr>>
    BY DEF CloseAcquire, abandVars
  <2> QED
    BY <2>1, <2>2, BuiltHonest DEF WireHonest
<1>13. ASSUME NEW c \in Closers, CloseWritten(c) PROVE WireHonest'
  <2> USE <1>13
  <2>1. io' = io \/ io'.err = {}
    BY Fresh DEF CloseWritten
  <2>2. UNCHANGED <<reader, retiring, aerr>>
    BY DEF CloseWritten, abandVars
  <2> QED
    BY <2>1, <2>2, BuiltHonest DEF WireHonest
<1>14. ASSUME WriteCheck PROVE WireHonest'
  <2> USE <1>14
  <2>1. Honest(io'.err)
    BY WriteStepIO DEF WriteStep, WireHonest, Honest
  <2> QED
    BY <2>1 DEF WriteCheck, WireHonest, abandVars
<1>15. ASSUME CancelWins PROVE WireHonest'
  <2> USE <1>15
  <2>1. Honest(io'.err)
    BY WriteStepIO DEF WriteStep, WireHonest, Honest
  <2>2. \A e \in retiring' : e \in retiring \/ e = Ambiguous(CtxErr)
    BY DEF CancelWins
  <2> QED
    BY <2>1, <2>2, BuiltHonest DEF CancelWins, WireHonest, abandVars
<1>16. ASSUME WriteReturn PROVE WireHonest'
  <2> USE <1>16
  <2>1. Honest(io'.err)
    BY WriteStepIO DEF WriteStep, WireHonest, Honest
  <2> QED
    BY <2>1 DEF WriteReturn, WireHonest, abandVars
<1>17. ASSUME WriteRetire PROVE WireHonest'
  <2> USE <1>17
  <2>1. Honest(io'.err)
    BY WriteStepIO DEF WriteStep, WireHonest, Honest
  <2> QED
    BY <2>1 DEF WriteRetire, WireHonest, abandVars
<1>18. Flow => WireHonest'
  BY FlowIO DEF Flow, WireHonest, abandVars
<1>19. ASSUME ReadFrame PROVE WireHonest'
  <2> USE <1>19
  <2>1. reader'.err \in {reader.err, {"protocol"}}
    BY DEF ReadFrame, TypeOK, ReaderType
  <2> QED
    BY <2>1, ReaderHonest, BuiltHonest
       DEF ReadFrame, readerFrame, writeVars, WireHonest
<1>20. ASSUME ReadError PROVE WireHonest'
  <2> USE <1>20
  <2>1. reader'.err \in {ErrClosed, {"transport"}}
    BY DEF ReadError, TypeOK, ReaderType
  <2> QED
    BY <2>1, ReaderHonest, BuiltHonest
       DEF ReadError, readerFrame, writeVars, WireHonest
<1>21. ASSUME RouteUnsolicited PROVE WireHonest'
  <2> USE <1>21
  <2>1. reader'.err \in {reader.err, {"notice"}, {"protocol"}, {"limit"}}
    BY ReaderErrors DEF RouteUnsolicited
  <2> QED
    BY <2>1, ReaderHonest, BuiltHonest
       DEF RouteUnsolicited, readerFrame, writeVars, WireHonest
<1>22. ASSUME RouteUnowned PROVE WireHonest'
  <2> USE <1>22
  <2>1. reader'.err \in {reader.err, {"protocol"}}
    BY ReaderErrors DEF RouteUnowned
  <2> QED
    BY <2>1, ReaderHonest, BuiltHonest
       DEF RouteUnowned, readerFrame, writeVars, WireHonest
<1>23. ASSUME RouteWait PROVE WireHonest'
  <2> USE <1>23
  <2>1. reader'.err \in {reader.err}
    BY DEF RouteWait, TypeOK, ReaderType
  <2> QED
    BY <2>1, ReaderHonest, BuiltHonest
       DEF RouteWait, readerFrame, writeVars, WireHonest
<1>24. ASSUME RouteAgain PROVE WireHonest'
  <2> USE <1>24
  <2>1. reader'.err \in {reader.err}
    BY ReaderErrors DEF RouteAgain, TypeOK, ReaderType
  <2> QED
    BY <2>1, ReaderHonest, BuiltHonest
       DEF RouteAgain, readerFrame, writeVars, WireHonest
<1>25. ASSUME Route PROVE WireHonest'
  <2> USE <1>25
  <2>1. \/ reader' = ReaderFails({"protocol"})
        \/ reader' = ReaderFails({"limit"})
        \/ reader' = ReaderNext
    BY DEF Route
  <2>2. reader'.err \in {reader.err, {"protocol"}, {"limit"}}
    BY <2>1, ReaderErrors
  <2> QED
    BY <2>2, ReaderHonest, BuiltHonest
       DEF Route, readerFrame, writeVars, WireHonest
<1>26. ASSUME ReaderRetire PROVE WireHonest'
  <2> USE <1>26
  <2>1. reader'.err = reader.err
    BY DEF ReaderRetire, TypeOK, ReaderType
  <2> QED
    BY <2>1, ReaderHonest DEF ReaderRetire, WireHonest, abandVars, writeVars
<1>27. ASSUME AsyncRetire PROVE WireHonest'
  <2> USE <1>27
  <2>1. \A e \in retiring' : e \in retiring
    BY DEF AsyncRetire
  <2> QED
    BY <2>1 DEF AsyncRetire, WireHonest, abandVars, writeVars
<1>28. (\E o \in Ops : DoStep(o)) => WireHonest'
  BY <1>1, <1>2, <1>3
     DEF DoStep, Reserve, ReserveCanceled, GiveBack, InstallPending, TakeToken,
         RemoveDefinitelyUnsent, ObserveWrite, CompleteNoResponse, abandVars,
         writeVars
<1>29. (\E o \in Ops : StreamStep(o)) => WireHonest'
  BY <1>1, <1>4, <1>5, <1>6 DEF StreamStep, NextLoop, streamFrame, writeVars
<1>30. (\E o \in Ops : WatchOperation(o)) => WireHonest'
  BY <1>7
<1>31. (\E o \in Ops : AbandonStep(o)) => WireHonest'
  BY <1>1, <1>8, <1>9, <1>10, <1>11 DEF AbandonStep, AbandonRetire, writeVars
<1>32. (\E c \in Closers : CloseStep(c)) => WireHonest'
  BY <1>1, <1>12, <1>13
     DEF CloseStep, CloseBegin, CloseAwait, CloseFinish, abandVars, writeVars
<1>33. WriteStep => WireHonest'
  BY <1>14, <1>15, <1>16, <1>17 DEF WriteStep
<1>34. ReaderStep => WireHonest'
  BY <1>19, <1>20, <1>21, <1>22, <1>23, <1>24, <1>25, <1>26 DEF ReaderStep
<1>35. (\E u \in Listeners : NextUnsolicited(u)) => WireHonest'
  BY <1>1 DEF NextUnsolicited, abandVars, writeVars
<1>36. (\E p \in Procs : ContextDone(p)) => WireHonest'
  BY <1>1 DEF ContextDone, abandVars, writeVars
<1>37. PeerStep => WireHonest'
  BY <1>1
     DEF PeerStep, PeerReplies, PeerStrays, LinkFault, peerFrame, abandVars,
         writeVars
<1> QED
  BY <1>28, <1>29, <1>30, <1>31, <1>32, <1>33, <1>18, <1>34, <1>27, <1>35,
     <1>36, <1>37 DEF Next

\* What a step may do to the error a consumer will find.
LEMMA DeliveryMoves ==
    ASSUME TypeOK, NEW o \in Ops, RecordMoves(o)
    PROVE  \/ op'[o].deliveryErr \in {op[o].deliveryErr, CtxErr, ErrClosed, {"limit"}}
           \/ /\ Live(o) /\ err = {} /\ err' # {}
              /\ op'[o].deliveryErr = RetirementError(o, err')
<1> USE Zenon
<1>1. op[o] \in Operation
  BY DEF TypeOK
<1>2. /\ Taken(op[o]).deliveryErr = op[o].deliveryErr
      /\ [op[o] EXCEPT !.ready = FALSE].deliveryErr = op[o].deliveryErr
      /\ [op[o] EXCEPT !.writeStarted = TRUE].deliveryErr = op[o].deliveryErr
      /\ [op[o] EXCEPT !.observed = TRUE].deliveryErr = op[o].deliveryErr
  BY <1>1 DEF Operation, Taken
<1> QED
  BY <1>2 DEF RecordMoves, Advances, Leaves

\* The error of a write says what the write carried.
LEMMA WriteErrorStep ==
    ASSUME TypeOK, SentInv, WriteMoves
    PROVE  /\ io'.pc \in {"check", "inwrite"} => io'.err = {}
           /\ "unsent" \in io'.err => io'.total = 0
           /\ "transport" \in io'.err /\ io'.total > 0 => "ambiguous" \in io'.err
<1> USE Zenon
<1>1. CASE UNCHANGED io
  BY <1>1 DEF SentInv
<1>2. CASE io' \in {WriteAll, Idle}
  BY <1>2, Fresh
<1>3. CASE WriteStep
  <2> USE <1>3
  <2>1. io'.total = io.total
    BY WriteStepIO
  <2>2. io'.pc \in {"check", "inwrite"} => io'.err = {}
    BY WriteStepIO DEF SentInv
  <2> USE <2>2
  <2>3. CASE io'.err = io.err
    BY <2>1, <2>3 DEF SentInv
  <2>4. CASE io.total = 0
    BY <2>1, <2>4, SMT
  <2>5. CASE "ambiguous" \in io'.err /\ "unsent" \notin io'.err
    BY <2>5
  <2> QED
    BY <2>3, <2>4, <2>5, WriteStepIO
<1>4. CASE Flow
  <2>1. io'.err = {}
    BY <1>4, FlowIO DEF SentInv
  <2> QED
    BY <2>1
<1> QED
  BY <1>1, <1>2, <1>3, <1>4 DEF WriteMoves, Granted, Begun, Released

\* What the error e says of a request n pieces of which have left is true.
Truthful(n, e) ==
    /\ "unsent" \in e => n = 0
    /\ "transport" \in e /\ n > 0 => "ambiguous" \in e

\* A retirement reaches the operation of o with a true error.
LEMMA RetirementTruthful ==
    ASSUME NEW o, NEW n \in Nat, NEW e, Honest(e), n > 0 => op[o].writeStarted
    PROVE  Truthful(n, RetirementError(o, e))
<1> USE Zenon
<1>1. "transport" \notin e => Truthful(n, RetirementError(o, e))
  BY DEF Truthful, RetirementError, Honest
<1>2. CASE "transport" \in e /\ op[o].writeStarted
  <2>1. RetirementError(o, e) = (e \ {"unsent", "ambiguous"}) \cup {"ambiguous"}
    BY <1>2 DEF RetirementError
  <2> QED
    BY <2>1 DEF Truthful
<1>3. n = 0 => Truthful(n, RetirementError(o, e))
  BY SMT DEF Truthful
<1> QED
  BY <1>1, <1>2, <1>3, SMT

\* SentInv for the operation o.
SentFor(o) ==
    /\ Truthful(sent[o], doErr[o]) /\ Truthful(sent[o], op[o].deliveryErr)
    /\ pc[o] \in {"idle", "reserving", "reserved", "queued", "starting",
                  "unsent"} => sent[o] = 0
    /\ pc[o] = "writing" => sent[o] = io.total
    /\ pc[o] \notin {"unsent", "failed"} => doErr[o] = {}
    /\ Live(o) /\ (sent[o] > 0 \/ pc[o] = "writing") => op[o].writeStarted
    /\ {"unsent", "transport"} \cap op[o].deliveryErr # {} => err # {}

LEMMA SentEach ==
    /\ SentInv => \A o \in Ops : SentFor(o)
    /\ (\A o \in Ops : SentFor(o)') /\ WireHonest'
          /\ (io'.pc \in {"check", "inwrite"} => io'.err = {})
          /\ ("unsent" \in io'.err => io'.total = 0)
          /\ ("transport" \in io'.err /\ io'.total > 0 => "ambiguous" \in io'.err)
       => SentInv'
    /\ SentInv => WireHonest
<1> USE Zenon
<1>1. SentInv => \A o \in Ops : SentFor(o)
  BY DEF SentInv, OutcomeTruthful, SentFor, Truthful
<1>2. (\A o \in Ops : SentFor(o)') => OutcomeTruthful'
  BY DEF OutcomeTruthful, SentFor, Truthful
<1>3. WireHonest' =>
         (\A e \in WireErrors' : "unsent" \in e => "transport" \in e)
  BY DEF WireHonest, WireErrors, Honest
<1>4. SentInv => WireHonest
  <2>1. SentInv => \A e \in WireErrors : Honest(e)
    BY DEF SentInv, Honest
  <2>2. /\ io.err \in WireErrors /\ reader.err \in WireErrors
        /\ \A e \in retiring : e \in WireErrors
        /\ \A o \in Ops : aerr[o] \in WireErrors
    BY DEF WireErrors
  <2> QED
    BY <2>1, <2>2 DEF WireHonest
<1> QED
  BY <1>1, <1>2, <1>3, <1>4 DEF SentInv, SentFor

\* A piece that flows belongs to the request of the Do call that writes.
LEMMA FlowSent ==
    ASSUME TypeOK, TokenHeld, TailKnown, Flow, NEW o \in Ops, SentFor(o)
    PROVE  SentFor(o)'
<1> USE Zenon
<1>1. /\ UNCHANGED <<pc, doErr, op, err, pending>>
      /\ sent'[o] = sent[o] + IF token = Do(o) THEN 1 ELSE 0
  BY DEF Flow, connVars, idVars, callVars
<1>2. /\ Live(o)' = Live(o) /\ io.pc = "inwrite" /\ ~LinkDown
      /\ io'.total = io.total + 1 /\ sent[o] \in Nat
  <2>1. Live(o)' = Live(o)
    BY <1>1 DEF Live
  <2> QED
    BY <2>1, FlowIO DEF TypeOK, WriterType
<1> USE <1>2
<1>3. CASE token = Do(o)
  <2> USE <1>3, Zenon
  <2>1. pc[o] = "writing"
    BY ProcsApart DEF TokenHeld
  <2> USE <2>1
  <2>2. sent'[o] = io'.total
    BY <1>1 DEF SentFor
  <2>3. doErr[o] = {} /\ {"unsent", "transport"} \cap op[o].deliveryErr = {}
    BY DEF SentFor, TailKnown, LinkDown
  <2>4. Truthful(sent'[o], doErr[o]) /\ Truthful(sent'[o], op[o].deliveryErr)
    BY <2>3 DEF Truthful
  <2>5. Live(o) => op[o].writeStarted
    BY DEF SentFor
  <2> QED
    BY <1>1, <2>2, <2>3, <2>4, <2>5 DEF SentFor
<1>4. CASE token # Do(o)
  <2>1. sent'[o] = sent[o] /\ pc[o] # "writing"
    BY <1>1, <1>4, SMT DEF TokenHeld
  <2> QED
    BY <1>1, <2>1 DEF SentFor
<1> QED
  BY <1>3, <1>4

\* The write of a Do call has carried what has left of its request.
LEMMA WritingSent ==
    ASSUME TypeOK, TokenHeld, TokenHeld', WriteMoves, UNCHANGED sent, ~Flow,
           NEW o \in Ops, SentFor(o), CallMoves(o), pc'[o] = "writing"
    PROVE  sent'[o] = io'.total
<1> USE Zenon
<1>1. CASE pc[o] = "writing"
  <2> USE <1>1, Zenon
  <2>1. token = Do(o) /\ token' = Do(o)
    BY DEF TokenHeld
  <2>2. ~Granted /\ ~Begun /\ ~Released
    BY <2>1, ProcsApart DEF Granted, Begun, Released
  <2>3. io'.total = io.total
    BY <2>2, WriteStepIO DEF WriteMoves
  <2> QED
    BY <2>3 DEF SentFor
<1>2. CASE pc[o] # "writing"
  <2>1. pc[o] = "starting" /\ io' = WriteAll
    BY <1>2 DEF CallMoves, AfterWriteError
  <2> QED
    BY <2>1, Fresh DEF SentFor
<1> QED
  BY <1>1, <1>2

\* What the errors of o say stays true when nothing more of its request leaves.
LEMMA ErrorsTruthful ==
    ASSUME TypeOK, SentInv, UNCHANGED sent, ErrMoves, NEW o \in Ops, SentFor(o),
           RecordMoves(o), CallMoves(o)
    PROVE  /\ Truthful(sent'[o], doErr'[o])
           /\ Truthful(sent'[o], op'[o].deliveryErr)
           /\ {"unsent", "transport"} \cap op'[o].deliveryErr # {} => err' # {}
<1> USE Zenon
<1>1. sent[o] \in Nat /\ sent'[o] = sent[o]
  BY DEF TypeOK, WriterType
<1>2. \A e : Truthful(0, e)
  BY SMT DEF Truthful
<1>3. Truthful(sent'[o], doErr'[o])
  <2>1. doErr'[o] = doErr[o] => Truthful(sent'[o], doErr'[o])
    BY <1>1 DEF SentFor
  <2>2. CASE pc[o] \in {"idle", "reserving", "reserved", "queued"}
    BY <1>1, <1>2, <2>2 DEF SentFor
  <2>3. pc[o] = "writing" /\ doErr'[o] = io.err => Truthful(sent'[o], doErr'[o])
    BY <1>1 DEF SentFor, SentInv, Truthful
  <2> QED
    BY <2>1, <2>2, <2>3 DEF CallMoves
<1>4. CASE op'[o].deliveryErr = op[o].deliveryErr
  BY <1>1, <1>3, <1>4 DEF SentFor, ErrMoves
<1>5. CASE op'[o].deliveryErr \in {CtxErr, ErrClosed, {"limit"}}
  <2>1. {"unsent", "transport"} \cap op'[o].deliveryErr = {}
    BY <1>5 DEF CtxErr, ErrClosed
  <2> QED
    BY <1>3, <2>1 DEF Truthful
<1>6. CASE /\ Live(o) /\ err = {} /\ err' # {}
           /\ op'[o].deliveryErr = RetirementError(o, err')
  <2> USE <1>6, Zenon
  <2>1. Honest(err')
    <3>1. \A e \in WireErrors : Honest(e)
      BY DEF SentInv, Honest
    <3> QED
      BY <3>1, BuiltHonest DEF ErrMoves
  <2>2. sent[o] > 0 => op[o].writeStarted
    BY DEF SentFor
  <2> QED
    BY <1>1, <1>3, <2>1, <2>2, RetirementTruthful
<1> QED
  BY <1>4, <1>5, <1>6, DeliveryMoves

\* What has left of a request, and what the errors say of it, stay in step.
LEMMA SentStep ==
    ASSUME TypeOK, TokenHeld, TokenHeld', TailKnown, SentInv, RecordsMove,
           CallsMove, ErrMoves, WriteMoves, WireHonest'
    PROVE  SentInv'
<1> USE Zenon
<1>1. ASSUME NEW o \in Ops PROVE SentFor(o)'
  <2>1. SentFor(o) /\ RecordMoves(o) /\ CallMoves(o)
    BY SentEach DEF RecordsMove, CallsMove
  <2> USE <2>1
  <2>2. Flow => SentFor(o)'
    BY FlowSent
  <2>3. CASE ~Flow
    <3> USE <2>3
    <3>1. UNCHANGED sent
      BY WriteStepIO DEF WriteMoves
    <3>2. sent'[o] = sent[o] /\ sent[o] \in Nat
      BY <3>1 DEF TypeOK, WriterType
    <3>3. ASSUME pc'[o] \in {"idle", "reserving", "reserved", "queued", "starting",
                             "unsent"}
          PROVE  sent'[o] = 0
      <4> USE <3>3
      <4>1. CASE pc[o] \in {"idle", "reserving", "reserved", "queued", "starting",
                            "unsent"}
        BY <3>2, <4>1 DEF SentFor
      <4>2. CASE /\ pc[o] = "writing"
                 /\ pc'[o] = AfterWriteError(io.total, io.err)
        <5> USE <4>2
        <5>1. io.total = 0
          BY DEF AfterWriteError, NothingSent
        <5> QED
          BY <3>2, <5>1 DEF SentFor
      <4> QED
        BY <4>1, <4>2 DEF CallMoves
    <3>4. pc'[o] = "writing" => sent'[o] = io'.total
      BY <3>1, WritingSent
    <3>5. pc'[o] \notin {"unsent", "failed"} => doErr'[o] = {}
      BY DEF CallMoves, SentFor, AfterWriteError
    <3>6. ASSUME Live(o)', sent'[o] > 0 \/ pc'[o] = "writing"
          PROVE  op'[o].writeStarted
      <4> USE <3>6, Zenon
      <4>1. CASE ~Live(o)
        <5>1. pc'[o] = "queued"
          BY <4>1, RecordFacts
        <5> QED
          BY <3>2, <3>3, <5>1, SMT
      <4>2. (Live(o) /\ (sent[o] > 0 \/ pc[o] = "writing")) => op'[o].writeStarted
        BY RecordFacts DEF SentFor
      <4>3. CASE Live(o) /\ pc'[o] = "writing" /\ pc[o] # "writing"
        BY <4>3 DEF CallMoves, AfterWriteError
      <4> QED
        BY <3>2, <4>1, <4>2, <4>3
    <3>7. /\ Truthful(sent'[o], doErr'[o])
          /\ Truthful(sent'[o], op'[o].deliveryErr)
          /\ {"unsent", "transport"} \cap op'[o].deliveryErr # {} => err' # {}
      BY <3>1, ErrorsTruthful
    <3> QED
      BY <3>3, <3>4, <3>5, <3>6, <3>7 DEF SentFor
  <2> QED
    BY <2>2, <2>3
<1>2. /\ io'.pc \in {"check", "inwrite"} => io'.err = {}
      /\ "unsent" \in io'.err => io'.total = 0
      /\ "transport" \in io'.err /\ io'.total > 0 => "ambiguous" \in io'.err
  BY WriteErrorStep
<1> QED
  BY <1>1, <1>2, SentEach

-----------------------------------------------------------------------------
(***************************************************************************)
(* The ID space.                                                           *)
(***************************************************************************)
InUse(i) == i \in reserved \/ pending[i] # None \/ tombstones[i] # None

\* How a step may touch the ID space: it wakes everyone who waits for an ID, or
\* frees none and puts nobody to sleep, or finds the space exhausted.
IDMoves ==
    \/ idWait' = {}
    \/ idWait' \subseteq idWait /\ \A i \in IDs : InUse(i) => InUse(i)'
    \/ Exhausted /\ UNCHANGED <<reserved, pending, tombstones>>

\* releaseReservation.
LEMMA ReleaseMoves ==
    ASSUME NEW i, ReleaseReserved(i), UNCHANGED <<pending, tombstones>>
    PROVE  IDMoves
<1> USE Zenon
<1>1. i \in reserved => IDMoves
  BY DEF ReleaseReserved, IDMoves
<1>2. CASE i \notin reserved
  <2> USE <1>2
  <2>1. idWait' = idWait /\ reserved' = reserved \ {i}
    BY DEF ReleaseReserved
  <2>2. \A j \in reserved : j \in reserved'
    BY <2>1
  <2> QED
    BY <2>1, <2>2 DEF IDMoves, InUse
<1> QED
  BY <1>1, <1>2

\* tryReserveMessageIDLocked.
LEMMA ReserveMoves ==
    ASSUME NEW i, TryReserve(i), UNCHANGED <<pending, tombstones, idWait>>
    PROVE  IDMoves
<1> USE Zenon
<1>1. \A j \in reserved : j \in reserved'
  BY DEF TryReserve
<1> QED
  BY <1>1 DEF IDMoves, InUse

\* retire.
LEMMA RetireIDMoves ==
    ASSUME NEW e, Retire(e)
    PROVE  IDMoves
<1> USE Zenon
<1>1. err # {} => IDMoves
  BY DEF Retire, retireVars, IDMoves, InUse
<1>2. err = {} => IDMoves
  BY DEF Retire, IDMoves
<1> QED
  BY <1>1, <1>2

\* Every step touches the ID space so.
LEMMA IDMovesStep ==
    ASSUME TypeOK, IDInv, Next
    PROVE  IDMoves
<1> USE Zenon
<1>1. UNCHANGED <<reserved, pending, tombstones, idWait>> => IDMoves
  BY DEF IDMoves, InUse
<1>2. ASSUME NEW o \in Ops, Reserve(o) PROVE IDMoves
  <2> USE <1>2
  <2>1. UNCHANGED <<pending, tombstones>>
    BY DEF Reserve
  <2> USE <2>1
  <2>2. UNCHANGED <<reserved, idWait>> => IDMoves
    BY <1>1
  <2>3. ((\E i \in IDs : TryReserve(i)) /\ UNCHANGED idWait) => IDMoves
    BY ReserveMoves
  <2>4. Exhausted /\ UNCHANGED reserved => IDMoves
    BY DEF IDMoves
  <2> QED
    BY <2>2, <2>3, <2>4 DEF Reserve
<1>3. ASSUME NEW o \in Ops, ReserveCanceled(o) PROVE IDMoves
  <2> USE <1>3
  <2>1. idWait' \subseteq idWait
    BY DEF ReserveCanceled
  <2>2. UNCHANGED <<reserved, pending, tombstones>>
    BY DEF ReserveCanceled
  <2> QED
    BY <2>1, <2>2 DEF IDMoves, InUse
<1>4. \A o \in Ops : GiveBack(o) => IDMoves
  BY ReleaseMoves DEF GiveBack
<1>5. ASSUME NEW o \in Ops, InstallPending(o) PROVE IDMoves
  <2>1. /\ reserved' = reserved \ {id[o]}
        /\ pending' = [pending EXCEPT ![id[o]] = o]
        /\ UNCHANGED <<tombstones, idWait>>
    BY <1>5 DEF InstallPending
  <2> USE <2>1
  <2>2. ASSUME NEW i \in IDs, InUse(i) PROVE InUse(i)'
    <3>1. CASE i = id[o]
      <4>1. pending'[i] = o
        BY <3>1 DEF TypeOK, IDType
      <4> QED
        BY <4>1, ConnAssumption DEF InUse
    <3>2. CASE i # id[o]
      <4>1. pending'[i] = pending[i] /\ (i \in reserved => i \in reserved')
        BY <3>2 DEF TypeOK, IDType
      <4> QED
        BY <2>2, <4>1 DEF InUse
    <3> QED
      BY <3>1, <3>2
  <2> QED
    BY <2>2 DEF IDMoves
<1>6. ASSUME NEW o \in Ops, RemoveDefinitelyUnsent(o) PROVE IDMoves
  <2> USE <1>6
  <2>1. \/ idWait' = {}
        \/ UNCHANGED <<pending, idWait>>
    BY DEF RemoveDefinitelyUnsent, Complete
  <2>2. UNCHANGED <<reserved, tombstones>>
    BY DEF RemoveDefinitelyUnsent
  <2> QED
    BY <1>1, <2>1, <2>2 DEF IDMoves
<1>7. ASSUME NEW o \in Ops, CompleteNoResponse(o) PROVE IDMoves
  <2> USE <1>7
  <2>1. \/ idWait' = {}
        \/ UNCHANGED <<pending, idWait>>
    BY DEF CompleteNoResponse, Complete
  <2>2. UNCHANGED <<reserved, tombstones>>
    BY DEF CompleteNoResponse
  <2> QED
    BY <1>1, <2>1, <2>2 DEF IDMoves
<1>8. ASSUME NEW o \in Ops, AbandonReserve(o) PROVE IDMoves
  <2> USE <1>8
  <2>1. UNCHANGED <<pending, tombstones, idWait>>
    BY DEF AbandonReserve
  <2>2. (\E i \in IDs : TryReserve(i)) \/ UNCHANGED reserved
    BY DEF AbandonReserve
  <2> QED
    BY <1>1, <2>1, <2>2, ReserveMoves
<1>9. ASSUME NEW o \in Ops, AbandonTakeToken(o) PROVE IDMoves
  <2> USE <1>9
  <2>1. UNCHANGED <<pending, tombstones>>
    BY DEF AbandonTakeToken
  <2>2. (\E i : ReleaseReserved(i)) \/ UNCHANGED <<reserved, idWait>>
    BY DEF AbandonTakeToken, AbandonFails
  <2> QED
    BY <1>1, <2>1, <2>2, ReleaseMoves
<1>10. ASSUME NEW o \in Ops, AbandonTombstone(o) PROVE IDMoves
  <2> USE <1>10
  <2>1. AbandonMoot(o) => IDMoves
    BY ReleaseMoves DEF AbandonTombstone
  <2>2. CASE ~AbandonMoot(o)
    <3> USE <2>2
    <3>1. PICK k \in IDs : pending[k] = o
      BY DEF AbandonMoot, Live
    <3>2. id[o] = k /\ o # None /\ \A j \in IDs : pending[j] = o => j = k
      BY <3>1, ConnAssumption DEF IDInv, PendingFiled
    <3>3. /\ pending' = Without(o) /\ UNCHANGED <<reserved, idWait>>
          /\ tombstones' = [tombstones EXCEPT ![k] = o]
      BY <3>2 DEF AbandonTombstone, Tombstone
    <3> USE <3>3
    <3>4. ASSUME NEW i \in IDs, InUse(i) PROVE InUse(i)'
      <4>1. CASE i = k
        <5>1. tombstones'[i] = o
          BY <4>1 DEF TypeOK, IDType
        <5> QED
          BY <3>2, <5>1 DEF InUse
      <4>2. CASE i # k
        <5>1. pending'[i] = pending[i] /\ tombstones'[i] = tombstones[i]
          BY <3>2, <4>2 DEF Without, TypeOK, IDType
        <5> QED
          BY <3>4, <5>1 DEF InUse
      <4> QED
        BY <4>1, <4>2
    <3> QED
      BY <3>4 DEF IDMoves
  <2> QED
    BY <2>1, <2>2
<1>11. \A o \in Ops : AbandonWritten(o) => IDMoves
  BY ReleaseMoves DEF AbandonWritten
<1>12. \A o \in Ops : AbandonRetire(o) => IDMoves
  BY RetireIDMoves DEF AbandonRetire
<1>13. ASSUME NEW c \in Closers, CloseAcquire(c) PROVE IDMoves
  <2> USE <1>13
  <2>1. UNCHANGED <<pending, tombstones, idWait>>
    BY DEF CloseAcquire
  <2>2. (\E i \in IDs : TryReserve(i)) \/ UNCHANGED reserved
    BY DEF CloseAcquire
  <2> QED
    BY <1>1, <2>1, <2>2, ReserveMoves
<1>14. \A c \in Closers : CloseWritten(c) => IDMoves
  BY ReleaseMoves DEF CloseWritten
<1>15. \A c \in Closers : CloseFinish(c) => IDMoves
  BY RetireIDMoves DEF CloseFinish
<1>16. WriteRetire => IDMoves
  BY RetireIDMoves DEF WriteRetire
<1>17. ASSUME Route PROVE IDMoves
  <2> USE <1>17
  <2>1. \/ idWait' = {}
        \/ UNCHANGED <<pending, idWait>>
    BY DEF Route
  <2>2. UNCHANGED <<reserved, tombstones>>
    BY DEF Route, readerFrame
  <2> QED
    BY <1>1, <2>1, <2>2 DEF IDMoves
<1>18. ReaderRetire => IDMoves
  BY RetireIDMoves DEF ReaderRetire
<1>19. AsyncRetire => IDMoves
  BY RetireIDMoves DEF AsyncRetire
<1>20. (\E o \in Ops : DoStep(o)) => IDMoves
  BY <1>1, <1>2, <1>3, <1>4, <1>5, <1>6, <1>7
     DEF DoStep, TakeToken, StartWrite, WriteDone, ObserveWrite, idVars
<1>21. (\E o \in Ops : StreamStep(o)) => IDMoves
  BY <1>1
     DEF StreamStep, NextCall, NextLoop, NextWake, CloseStream, streamFrame,
         idVars
<1>22. (\E o \in Ops : WatchOperation(o)) => IDMoves
  BY <1>1 DEF WatchOperation, streamFrame, idVars
<1>23. (\E o \in Ops : AbandonStep(o)) => IDMoves
  BY <1>8, <1>9, <1>10, <1>11, <1>12 DEF AbandonStep
<1>24. (\E c \in Closers : CloseStep(c)) => IDMoves
  BY <1>1, <1>13, <1>14, <1>15 DEF CloseStep, CloseBegin, CloseAwait, idVars
<1>25. WriteStep => IDMoves
  BY <1>1, <1>16 DEF WriteStep, WriteCheck, CancelWins, WriteReturn, idVars
<1>26. Flow => IDMoves
  BY <1>1 DEF Flow, idVars
<1>27. ReaderStep => IDMoves
  BY <1>1, <1>17, <1>18
     DEF ReaderStep, ReadFrame, ReadError, RouteUnsolicited, RouteUnowned,
         RouteWait, RouteAgain, readerFrame
<1>28. (\E u \in Listeners : NextUnsolicited(u)) => IDMoves
  BY <1>1 DEF NextUnsolicited, idVars
<1>29. (\E p \in Procs : ContextDone(p)) => IDMoves
  BY <1>1 DEF ContextDone, idVars
<1>30. PeerStep => IDMoves
  BY <1>1 DEF PeerStep, PeerReplies, PeerStrays, LinkFault, peerFrame, idVars
<1> QED
  BY <1>20, <1>21, <1>22, <1>23, <1>24, <1>25, <1>26, <1>27, <1>19, <1>28,
     <1>29, <1>30 DEF Next

\* What the allocator's exhaustion test rests on: three disjoint sets of IDs have
\* MaxID members between them only if together they are all the IDs.
FullCount ==
    \A R, P, T \in SUBSET IDs : R \cap P = {} /\ R \cap T = {} /\ P \cap T = {} =>
        (Cardinality(R) + Cardinality(P) + Cardinality(T) >= MaxID
            <=> R \cup P \cup T = IDs)

\* The space is exhausted when every ID is in use.
LEMMA ExhaustedFull ==
    ASSUME FullCount, NEW R \in SUBSET IDs, NEW p, NEW t,
           \A i \in IDs : /\ p[i] # None => i \notin R
                          /\ t[i] # None => i \notin R /\ p[i] = None
    PROVE  Cardinality(R) + Cardinality({i \in IDs : p[i] # None})
              + Cardinality({i \in IDs : t[i] # None}) >= MaxID
           <=> \A i \in IDs : i \in R \/ p[i] # None \/ t[i] # None
<1> USE Zenon
<1> DEFINE P == {i \in IDs : p[i] # None}
           T == {i \in IDs : t[i] # None}
<1>1. P \in SUBSET IDs /\ T \in SUBSET IDs
  OBVIOUS
<1>2. R \cap P = {} /\ R \cap T = {} /\ P \cap T = {}
  OBVIOUS
<1>3. R \cup P \cup T = IDs <=> \A i \in IDs : i \in R \/ p[i] # None \/ t[i] # None
  OBVIOUS
<1> HIDE DEF P, T
<1>4. Cardinality(R) + Cardinality(P) + Cardinality(T) >= MaxID <=> R \cup P \cup T = IDs
  BY <1>1, <1>2 DEF FullCount
<1> QED
  BY <1>3, <1>4 DEF P, T

\* Nobody sleeps in reserveMessageID while an ID is free.
LEMMA IDWakeStep ==
    ASSUME FullCount, TypeOK, TypeOK', IDInv, IDInv', NoLostIDWakeup, IDMoves
    PROVE  NoLostIDWakeup'
<1> USE Zenon
<1>1. Exhausted <=> \A i \in IDs : InUse(i)
  <2>1. reserved \in SUBSET IDs
    BY DEF TypeOK, IDType
  <2>2. \A i \in IDs : /\ pending[i] # None => i \notin reserved
                       /\ tombstones[i] # None => i \notin reserved /\ pending[i] = None
    BY DEF IDInv, IDsExclusive, Disjoint
  <2> QED
    BY <2>1, <2>2, ExhaustedFull DEF Exhausted, InUse
<1>2. Exhausted' <=> \A i \in IDs : InUse(i)'
  <2>1. reserved' \in SUBSET IDs
    BY DEF TypeOK, IDType
  <2>2. \A i \in IDs : /\ pending'[i] # None => i \notin reserved'
                       /\ tombstones'[i] # None => i \notin reserved' /\ pending'[i] = None
    BY DEF IDInv, IDsExclusive, Disjoint
  <2> QED
    BY <2>1, <2>2, ExhaustedFull DEF Exhausted, InUse
<1> SUFFICES ASSUME idWait' # {} PROVE Exhausted'
  BY DEF NoLostIDWakeup
<1>3. CASE idWait' \subseteq idWait /\ \A i \in IDs : InUse(i) => InUse(i)'
  <2> USE <1>3
  <2>1. Exhausted
    BY DEF NoLostIDWakeup
  <2> QED
    BY <1>1, <1>2, <2>1
<1>4. Exhausted /\ UNCHANGED <<reserved, pending, tombstones>> => Exhausted'
  BY DEF Exhausted
<1> QED
  BY <1>3, <1>4 DEF IDMoves

-----------------------------------------------------------------------------
(***************************************************************************)
(* The invariant.                                                          *)
(***************************************************************************)
SafeInv == /\ RecordInv /\ NoLostResponseWakeup /\ NoLostIDWakeup
           /\ TokenHeld /\ TailKnown /\ UnbindInv /\ UnsentInv /\ SentInv

\* A new connection.
LEMMA SafeInit ==
    ASSUME Init
    PROVE  SafeInv /\ FrameInv
<1> USE Zenon
<1>1. /\ err = {} /\ idWait = {} /\ retiring = {} /\ io = Idle /\ token = Free
      /\ tail = [who |-> Free, n |-> FrameLen] /\ torn = FALSE
      /\ reader = [pc |-> "read", msg |-> NoMsg, on |-> None, err |-> {}]
  BY DEF Init
<1>2. ASSUME NEW o \in Ops
      PROVE  /\ pc[o] = "idle" /\ doErr[o] = {} /\ sent[o] = 0 /\ apc[o] = "none"
             /\ aerr[o] = {} /\ cons[o] = "none" /\ ~Live(o)
             /\ ~op[o].terminal /\ op[o].deliveryErr = {}
  <2>1. /\ pc[o] = "idle" /\ doErr[o] = {} /\ sent[o] = 0 /\ apc[o] = "none"
        /\ aerr[o] = {} /\ cons[o] = "none" /\ op[o] = NewOp
    BY DEF Init
  <2>2. ~Live(o)
    BY ConnAssumption DEF Init, Live
  <2>3. NewOp.terminal = FALSE /\ NewOp.deliveryErr = {}
    BY DEF NewOp
  <2> QED
    BY <2>1, <2>2, <2>3
<1>3. ASSUME NEW c \in Closers PROVE cpc[c] = "idle"
  BY DEF Init
<1>4. RecordInv /\ NoLostResponseWakeup /\ NoLostIDWakeup
  BY <1>1, <1>2 DEF RecordInv, Installed, NoLostResponseWakeup, NoLostIDWakeup
<1>5. TokenHeld
  BY <1>1, <1>2, <1>3, Fresh, ProcsApart DEF TokenHeld
<1>6. TailKnown
  BY <1>1, Fresh DEF TailKnown
<1>7. UnbindInv
  <2>1. Closer = {}
    BY <1>3 DEF Closer
  <2>2. \A c \in Closers : tail.who # Close(c)
    BY <1>1, ProcsApart
  <2> QED
    BY <2>1, <2>2 DEF UnbindInv
<1>8. UnsentInv
  BY <1>1, <1>2, Fresh DEF UnsentInv, NoLeakedID
<1>9. SentInv
  <2>1. \A e \in WireErrors : e = {}
    BY <1>1, <1>2, Fresh DEF WireErrors
  <2>2. OutcomeTruthful
    BY <1>2 DEF OutcomeTruthful
  <2>3. io.err = {} /\ {"unsent", "transport"} \cap {} = {}
    BY <1>1, Fresh
  <2> QED
    BY <1>2, <2>1, <2>2, <2>3 DEF SentInv
<1>10. FrameInv
  <2>1. tail.n = FrameLen
    BY <1>1
  <2> QED
    BY <1>1, <2>1, Fresh DEF FrameInv
<1> QED
  BY <1>4, <1>5, <1>6, <1>7, <1>8, <1>9, <1>10 DEF SafeInv

\* A step in which nothing happens.
LEMMA SafeStutter ==
    ASSUME UNCHANGED vars
    PROVE  (SafeInv => SafeInv') /\ (FrameInv => FrameInv')
<1> USE Zenon
<1>1. /\ UNCHANGED <<closing, err, reserved, pending, tombstones, idWait, op, pc>>
      /\ UNCHANGED <<doErr, cons, apc, aerr, cpc, reader, retiring, token, io>>
      /\ UNCHANGED <<link, sent, tail, torn>>
  BY DEF vars, connVars, idVars, callVars, streamVars, abandVars, closeVars,
         writeVars, wireVars
<1> USE <1>1
<1>2. \A o : Live(o)' <=> Live(o)
  BY DEF Live
<1>3. WireErrors' = WireErrors /\ (LinkDown' <=> LinkDown) /\ Closer' = Closer
      /\ (Exhausted' <=> Exhausted)
  BY DEF WireErrors, LinkDown, Closer, Exhausted
<1> USE <1>3
<1>4. /\ RecordInv => RecordInv'
      /\ NoLostResponseWakeup => NoLostResponseWakeup'
      /\ NoLostIDWakeup => NoLostIDWakeup'
  BY <1>2 DEF RecordInv, NoLostResponseWakeup, NoLostIDWakeup
<1>5. (TokenHeld => TokenHeld') /\ (TailKnown => TailKnown')
  BY DEF TokenHeld, TailKnown
<1>6. (UnbindInv => UnbindInv') /\ (FrameInv => FrameInv')
  BY DEF UnbindInv, FrameInv
<1>7. UnsentInv => UnsentInv'
  BY <1>2 DEF UnsentInv, NoLeakedID, AboutToRetire
<1>8. SentInv => SentInv'
  BY <1>2 DEF SentInv, OutcomeTruthful
<1> QED
  BY <1>4, <1>5, <1>6, <1>7, <1>8 DEF SafeInv

\* retire is never called without an error, so writeAll's call retires.
LEMMA WriteRetires ==
    ASSUME IDInv, WriteRetire
    PROVE  err' # {}
<1> USE Zenon
<1>1. io.err # {} /\ Retire(io.err)
  BY DEF IDInv, RetireHasCause, WriteRetire
<1> QED
  BY <1>1, RetireEnds

\* Every step keeps the invariant.
LEMMA SafeStep ==
    ASSUME FullCount, TypeOK, TypeOK', IDInv, IDInv', SafeInv, [Next]_vars
    PROVE  SafeInv' /\ (~ShortWrites /\ FrameInv => FrameInv')
<1> USE Zenon
<1>1. CASE Next
  <2> USE <1>1
  <2>1. /\ RecordInv /\ NoLostResponseWakeup /\ NoLostIDWakeup
        /\ TokenHeld /\ TailKnown /\ UnbindInv /\ UnsentInv /\ SentInv
    BY DEF SafeInv
  <2> USE <2>1
  <2>2. RecordsMove /\ CallsMove /\ ErrMoves
    BY RecordsStep, CallsStep, ErrStep
  <2> USE <2>2
  <2>3. WriteMoves /\ TokenHeld'
    BY WriteMovesStep, TokenStep
  <2> USE <2>3
  <2>4. WriteRetire => err' # {}
    BY WriteRetires
  <2>5. RecordInv'
    BY RecordInvStep
  <2>6. NoLostResponseWakeup'
    BY ConsStep, ResponseWakeStep
  <2>7. NoLostIDWakeup'
    BY IDMovesStep, IDWakeStep
  <2>8. TailKnown'
    BY TailStep
  <2> USE <2>8
  <2>9. UnbindInv'
    BY CloseMovesStep, UnbindStep
  <2>10. UnsentInv'
    BY <2>4, <2>5, UnsentStep
  <2>11. WireHonest'
    BY SentEach, HonestStep
  <2>12. SentInv'
    BY <2>11, SentStep
  <2>13. ~ShortWrites /\ FrameInv => FrameInv'
    BY <2>4, FrameStep
  <2> QED
    BY <2>5, <2>6, <2>7, <2>9, <2>10, <2>12, <2>13 DEF SafeInv
<1>2. CASE UNCHANGED vars
  BY <1>2, SafeStutter
<1> QED
  BY <1>1, <1>2

=============================================================================
