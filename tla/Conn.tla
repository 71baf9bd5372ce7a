-------------------------------- MODULE Conn --------------------------------
(***************************************************************************)
(* The connection runtime of connection.go: one LDAP session shared by     *)
(* many concurrent operations.                                             *)
(*                                                                         *)
(* Every critical section of Conn.mu is one action.  The goroutines are    *)
(* the Do calls (one per member of Ops), the consumers of their streams,   *)
(* the watchOperation and sendAbandon goroutines, the callers of           *)
(* CloseContext (Closers), the single reader, and the goroutines that have *)
(* decided to call retire but have not taken the lock yet.                 *)
(*                                                                         *)
(* An error is the set of sentinels it matches under errors.Is, {} is nil. *)
(* A Do call is identified with its pendingOperation: both are called o.   *)
(***************************************************************************)
EXTENDS Integers, Sequences, FiniteSets

CONSTANTS
    Ops,          \* the Do calls made on the connection
    Closers,      \* the callers of CloseContext
    None,         \* no operation
    MaxID,        \* Conn.maxID, the largest message ID
    Mode,         \* [Ops -> CancelModes], UntypedOperation.Cancellation
    NoResponse,   \* the operations whose pattern expects no response
    Single,       \* the operations whose pattern has no continuing identifier
    InitOps,      \* the operations of scope operationInitialization
    InitialState, \* the state newObservedConnWithState is given
    MaxQueuedResponses,
    MaxQueuedResponseBytes,
    MaxUnsolicitedResponses,
    MaxUnsolicitedResponseBytes,
    FrameLen,     \* pieces in which the transport can carry one request
    ShortWrites,  \* does Write return short without an error?
    Sizes,        \* sizes of response messages
    MaxContinue,  \* bound: continuing responses per operation
    Strays,       \* [id, kind] of messages the peer sends unprompted
    MaxStrays,    \* bound: how many of them
    Faults,       \* subset of {"eof", "reset"}: what the link may do
    Reads,        \* the operations whose stream's Next is called
    Shuts,        \* the operations whose stream's Close is called
    Cancels,      \* the processes whose context may end
    Listeners     \* the callers of NextUnsolicited

Kinds == {"none", "continue", "terminal", "extended", "notice", "invalid",
          "malformed"}

CancelModes == {"drain", "abandon", "extended", "close", "none"}

ASSUME ConnAssumption ==
    /\ None \notin Ops
    /\ MaxID \in Nat \ {0}
    /\ Mode \in [Ops -> CancelModes]
    /\ NoResponse \subseteq Ops
    /\ Single \subseteq Ops
    /\ InitOps \subseteq Ops
    /\ InitialState \in {"transportSetup", "ready"}
    /\ MaxQueuedResponses \in Nat \ {0}
    /\ MaxQueuedResponseBytes \in Nat \ {0}
    /\ MaxUnsolicitedResponses \in Nat \ {0}
    /\ MaxUnsolicitedResponseBytes \in Nat \ {0}
    /\ FrameLen \in Nat \ {0}
    /\ ShortWrites \in BOOLEAN
    /\ Sizes \subseteq Nat \ {0}
    /\ MaxContinue \in Nat
    /\ MaxStrays \in Nat
    /\ Strays \subseteq [id : Nat, kind : Kinds]
    /\ Reads \subseteq Ops
    /\ Shuts \subseteq Ops

VARIABLES
    state,      \* Conn.state
    closing,    \* Conn.closing
    err,        \* Conn.err; Conn.done is closed iff it is not {}
    nextID,     \* Conn.nextID, the allocator's cursor
    reserved,   \* Conn.reserved
    pending,    \* Conn.pending: the operation that owns an ID, or None
    tombstones, \* Conn.tombstones: the abandoned operation, or None
    idWait,     \* Do calls asleep on the current Conn.idChanged channel
    op,         \* the pendingOperation records
    pc,         \* where each Do call is
    id,         \* the message ID of each Do call, 0 before it has one
    doErr,      \* the error Do returned
    cons,       \* where the consumer of each stream is
    got,        \* how many responses the consumer has taken
    shut,       \* operations whose stream's Close has run (responseStream.once)
    watch,      \* operations with a running watchOperation goroutine
    apc,        \* where the sendAbandon goroutine of each operation is
    aid,        \* the message ID it reserved
    aerr,       \* the error it is about to retire the connection with
    cpc,        \* where each CloseContext call is
    cid,        \* the message ID of its Unbind
    reader,     \* the readLoop goroutine
    retiring,   \* errors of goroutines that are about to call retire
    token,      \* who holds Conn.writeToken
    io,         \* the writeAll call of the token's holder
    ctxDone,    \* processes whose context is done
    link,       \* the transport: closed by us, reset, closed by the peer
    inbox,      \* frames on their way to the reader
    owed,       \* operations the peer has received and not yet completed
    replies,    \* how many responses the peer has sent for each operation
    strays,     \* how many unprompted messages the peer has sent
    sent,       \* pieces of each operation's request put on the wire
    tail,       \* the last frame on the wire: whose, and how much of it
    torn,       \* has a frame been started inside another one?
    unsolicited,\* Conn.unsolicited
    unsolBytes, \* Conn.unsolicitedBytes
    unsolReady, \* is there a token in Conn.unsolicitedReady?
    ucons       \* where each NextUnsolicited caller is

connVars   == <<state, closing, err>>
idVars     == <<nextID, reserved, pending, tombstones, idWait>>
callVars   == <<pc, id, doErr>>
streamVars == <<cons, got, shut, watch>>
abandVars  == <<apc, aid, aerr>>
closeVars  == <<cpc, cid>>
writeVars  == <<token, io>>
peerVars   == <<inbox, owed, replies, strays>>
wireVars   == <<sent, tail, torn>>
unsolVars  == <<unsolicited, unsolBytes, unsolReady, ucons>>

vars == <<connVars, idVars, op, callVars, streamVars, abandVars, closeVars,
          reader, retiring, writeVars, ctxDone, link, peerVars, wireVars,
          unsolVars>>

-----------------------------------------------------------------------------
(***************************************************************************)
(* Errors and processes.                                                   *)
(***************************************************************************)
IDs == 1 .. MaxID

Sentinels == {"closed", "transport", "unsent", "ambiguous", "protocol",
              "limit", "notice", "notready", "encode", "ctx"}

ErrClosed == {"closed"}
CtxErr    == {"ctx"}

\* &TransportError{Outcome: OutcomeDefinitelyUnsent, Err: e}: errors.Is also
\* searches the wrapped error.
DefinitelyUnsent(e) == {"transport", "unsent"} \cup e

\* &TransportError{Outcome: OutcomeAmbiguous, Err: e}
Ambiguous(e) == {"transport", "ambiguous"} \cup e

Do(o)      == <<"do", o>>
Abandon(o) == <<"abandon", o>>
Close(c)   == <<"close", c>>
Free       == <<"free", None>>

Procs == {Do(o) : o \in Ops} \cup {Abandon(o) : o \in Ops}
            \cup {Close(c) : c \in Closers}

\* The pendingOperation a Do call builds.  "bytes" is queuedBytes, "observed"
\* is a closed writeObserved, "ended" a closed lifecycleDone, "ready" a token
\* in the ready channel.
NewOp == [queue |-> <<>>, bytes |-> 0, deliveryErr |-> {}, canceled |-> FALSE,
          terminal |-> FALSE, abandoning |-> FALSE, writeStarted |-> FALSE,
          observed |-> FALSE, ended |-> FALSE, ready |-> FALSE]

Live(o) == \E i \in IDs : pending[i] = o

NoMsg == [id |-> 0, kind |-> "none", for |-> None, n |-> 0, size |-> 0]

Idle == [pc |-> "off", total |-> 0, begun |-> 0, won |-> FALSE, err |-> {}]

\* io at the entry of writeAll
WriteAll == [Idle EXCEPT !.pc = "check"]

Init ==
    /\ state = InitialState
    /\ closing = FALSE
    /\ err = {}
    /\ nextID = 0
    /\ reserved = {}
    /\ pending = [i \in IDs |-> None]
    /\ tombstones = [i \in IDs |-> None]
    /\ idWait = {}
    /\ op = [o \in Ops |-> NewOp]
    /\ pc = [o \in Ops |-> "idle"]
    /\ id = [o \in Ops |-> 0]
    /\ doErr = [o \in Ops |-> {}]
    /\ cons = [o \in Ops |-> "none"]
    /\ got = [o \in Ops |-> 0]
    /\ shut = {}
    /\ watch = {}
    /\ apc = [o \in Ops |-> "none"]
    /\ aid = [o \in Ops |-> 0]
    /\ aerr = [o \in Ops |-> {}]
    /\ cpc = [c \in Closers |-> "idle"]
    /\ cid = [c \in Closers |-> 0]
    /\ reader = [pc |-> "read", msg |-> NoMsg, on |-> None, err |-> {}]
    /\ retiring = {}
    /\ token = Free
    /\ io = Idle
    /\ ctxDone = {}
    /\ link = [closed |-> FALSE, broken |-> FALSE, eof |-> FALSE]
    /\ inbox = <<>>
    /\ owed = {}
    /\ replies = [o \in Ops |-> 0]
    /\ strays = 0
    /\ sent = [o \in Ops |-> 0]
    /\ tail = [who |-> Free, n |-> FrameLen]
    /\ torn = FALSE
    /\ unsolicited = <<>>
    /\ unsolBytes = 0
    /\ unsolReady = FALSE
    /\ ucons = [u \in Listeners |-> "idle"]

-----------------------------------------------------------------------------
(***************************************************************************)
(* The message-ID allocator.                                               *)
(***************************************************************************)
\* Mutant: the allocator does not skip tombstones.
UsedIDsForgetful == reserved \cup {i \in IDs : pending[i] # None}

UsedIDs == reserved \cup {i \in IDs : pending[i] # None}
                    \cup {i \in IDs : tombstones[i] # None}

Exhausted ==
    Cardinality(reserved) + Cardinality({i \in IDs : pending[i] # None})
        + Cardinality({i \in IDs : tombstones[i] # None}) >= MaxID

\* Steps the cursor takes to reach i: nextID is incremented before each
\* probe and wraps from MaxID to 1.
Probes(i) == IF i > nextID THEN i - nextID ELSE MaxID - nextID + i

\* tryReserveMessageIDLocked returns (i, true)
TryReserve(i) ==
    /\ ~Exhausted
    /\ i \in IDs \ UsedIDs
    /\ \A j \in IDs \ UsedIDs : Probes(i) <= Probes(j)
    /\ nextID' = i
    /\ reserved' = reserved \cup {i}

\* Mutants: the ID is not given back; nobody is told that it was.
ReleaseReservedNot(i) == i \in IDs /\ UNCHANGED <<reserved, idWait>>

ReleaseReservedSilent(i) == reserved' = reserved \ {i} /\ UNCHANGED idWait

\* releaseReserved, with its signalIDChangedLocked
ReleaseReserved(i) ==
    /\ reserved' = reserved \ {i}
    /\ idWait' = IF i \in reserved THEN {} ELSE idWait

\* delete(c.pending, p.id)
Without(o) == [i \in IDs |-> IF pending[i] = o THEN None ELSE pending[i]]

ScopeAllowed(o) ==
    IF o \in InitOps THEN state \in {"authenticating", "initializing"}
                     ELSE state = "ready"

\* Why reserveMessageID or installPending refuses o; {} when it does not.
Refusal(o) ==
    CASE err # {}         -> err
      [] err = {} /\ closing -> ErrClosed
      [] err = {} /\ ~closing /\ ~ScopeAllowed(o) -> {"notready"}
      [] OTHER            -> {}

-----------------------------------------------------------------------------
(***************************************************************************)
(* retire: the first error wins, and one critical section closes the       *)
(* transport, forgets every ID and completes every pending operation.      *)
(***************************************************************************)
RetirementError(o, e) ==
    IF "transport" \in e
    THEN (e \ {"unsent", "ambiguous"})
            \cup {IF op[o].writeStarted THEN "ambiguous" ELSE "unsent"}
    ELSE e

\* Mutants: the operation is completed without its error, or not completed.
RetiredSilently(o, e) ==
    [op[o] EXCEPT !.terminal = TRUE, !.ended = TRUE, !.ready = TRUE]

RetiredUnfinished(o, e) ==
    [op[o] EXCEPT !.deliveryErr = IF @ = {} THEN RetirementError(o, e) ELSE @,
                  !.terminal = TRUE,
                  !.ready = TRUE]

Retired(o, e) ==
    [op[o] EXCEPT !.deliveryErr = IF @ = {} THEN RetirementError(o, e) ELSE @,
                  !.terminal = TRUE,
                  !.ended = TRUE,
                  !.ready = TRUE]

retireVars == <<state, err, reserved, pending, tombstones, idWait, op, link,
                unsolReady>>

Retire(e) ==
    IF err # {} THEN UNCHANGED retireVars
    ELSE LET cause == IF closing THEN ErrClosed ELSE e IN
         /\ err' = cause
         /\ state' = "closed"
         /\ link' = [link EXCEPT !.closed = TRUE]
         /\ reserved' = {}
         /\ op' = [o \in Ops |-> IF Live(o) THEN Retired(o, cause) ELSE op[o]]
         /\ pending' = [i \in IDs |-> None]
         /\ tombstones' = [i \in IDs |-> None]
         /\ idWait' = {}
         /\ unsolReady' = TRUE

\* A goroutine that decided to retire the connection takes the lock: the
\* AfterFunc of writeAll, or cancelOperation after it released the lock.
AsyncRetire ==
    \E e \in retiring :
        /\ Retire(e)
        /\ retiring' = retiring \ {e}
        /\ UNCHANGED <<closing, nextID, callVars, streamVars, abandVars,
                       closeVars, reader, writeVars, ctxDone, peerVars,
                       wireVars, unsolicited, unsolBytes, ucons>>

\* Is a goroutine of p still looking at p's context?
ContextInUse(p) ==
    \/ \E o \in Ops : p = Do(o) /\ pc[o] \notin {"idle", "failed"}
                       /\ (o \in watch \/ cons[o] \in {"none", "idle", "wait"})
    \/ \E o \in Ops : p = Abandon(o) /\ apc[o] \in {"queued", "recheck", "writing"}
    \/ \E c \in Closers : p = Close(c) /\ cpc[c] \in {"acquire", "await", "writing"}

\* The context of a process is canceled or its deadline passes.
ContextDone(p) ==
    /\ p \in Cancels
    /\ p \notin ctxDone
    /\ ContextInUse(p)
    /\ ctxDone' = ctxDone \cup {p}
    /\ UNCHANGED <<connVars, idVars, op, callVars, streamVars, abandVars,
                   closeVars, reader, retiring, writeVars, link, peerVars,
                   wireVars, unsolVars>>

-----------------------------------------------------------------------------
(***************************************************************************)
(* Do, up to the write.                                                    *)
(***************************************************************************)
\* reserveMessageID: refuse, take an ID, or sleep until idChanged is closed.
Reserve(o) ==
    /\ pc[o] \in {"idle", "reserving"}
    /\ o \notin idWait
    /\ \/ /\ Refusal(o) # {}
          /\ pc' = [pc EXCEPT ![o] = "failed"]
          /\ doErr' = [doErr EXCEPT ![o] = Refusal(o)]
          /\ UNCHANGED <<nextID, reserved, idWait, id>>
       \/ /\ Refusal(o) = {}
          /\ \E i \in IDs : TryReserve(i) /\ id' = [id EXCEPT ![o] = i]
          /\ pc' = [pc EXCEPT ![o] = "reserved"]
          /\ UNCHANGED <<idWait, doErr>>
       \/ /\ Refusal(o) = {}
          /\ Exhausted
          /\ pc' = [pc EXCEPT ![o] = "reserving"]
          /\ idWait' = idWait \cup {o}
          /\ UNCHANGED <<nextID, reserved, id, doErr>>
    /\ UNCHANGED <<connVars, pending, tombstones, op, streamVars, abandVars,
                   closeVars, reader, retiring, writeVars, ctxDone, link,
                   peerVars, wireVars, unsolVars>>

\* The sleeping reserveMessageID sees its context done, and may prefer that to
\* a wake-up that has come as well.
ReserveCanceled(o) ==
    /\ pc[o] = "reserving"
    /\ Do(o) \in ctxDone
    /\ idWait' = idWait \ {o}
    /\ pc' = [pc EXCEPT ![o] = "failed"]
    /\ doErr' = [doErr EXCEPT ![o] = DefinitelyUnsent(CtxErr)]
    /\ UNCHANGED <<connVars, nextID, reserved, pending, tombstones, op, id,
                   streamVars, abandVars, closeVars, reader, retiring,
                   writeVars, ctxDone, link, peerVars, wireVars, unsolVars>>

\* encodeLDAPRequest fails, the context is done, or installPending refuses:
\* the reservation is released and Do returns the error.
GiveBack(o) ==
    /\ pc[o] = "reserved"
    /\ \E e \in {{"encode"}, DefinitelyUnsent(CtxErr), Refusal(o)} \ {{}} :
          /\ e = DefinitelyUnsent(CtxErr) => Do(o) \in ctxDone
          /\ doErr' = [doErr EXCEPT ![o] = e]
    /\ pc' = [pc EXCEPT ![o] = "failed"]
    /\ ReleaseReserved(id[o])
    /\ UNCHANGED <<connVars, nextID, pending, tombstones, op, id, streamVars,
                   abandVars, closeVars, reader, retiring, writeVars, ctxDone,
                   link, peerVars, wireVars, unsolVars>>

\* installPending: the reservation becomes a pending record.
InstallPending(o) ==
    /\ pc[o] = "reserved"
    /\ Refusal(o) = {}
    /\ id[o] \in reserved
    /\ reserved' = reserved \ {id[o]}
    /\ pending' = [pending EXCEPT ![id[o]] = o]
    /\ pc' = [pc EXCEPT ![o] = "queued"]
    /\ UNCHANGED <<connVars, nextID, tombstones, idWait, op, id, doErr,
                   streamVars, abandVars, closeVars, reader, retiring,
                   writeVars, ctxDone, link, peerVars, wireVars, unsolVars>>

-----------------------------------------------------------------------------
(***************************************************************************)
(* acquireWriter.  While p waits for the token, a done context or a        *)
(* retired connection may be chosen instead; with the token in hand, both  *)
(* and closing are looked at again, and the token goes back if p may not   *)
(* write.  Taking the token and that second look are one step: nobody      *)
(* else can tell a held token from one that is about to be returned.       *)
(***************************************************************************)
\* Mutant: closing is not looked at again.
HeldErrorBlind(p) ==
    CASE p \in ctxDone -> DefinitelyUnsent(CtxErr)
      [] p \notin ctxDone /\ err # {} -> DefinitelyUnsent(err)
      [] OTHER -> {}

\* The error of the second look; {} when the writer may go ahead.
HeldError(p) ==
    CASE p \in ctxDone -> DefinitelyUnsent(CtxErr)
      [] p \notin ctxDone /\ err # {} -> DefinitelyUnsent(err)
      [] p \notin ctxDone /\ err = {} /\ closing -> DefinitelyUnsent(ErrClosed)
      [] OTHER -> {}

\* The errors acquireWriter may return to p now.
AcquireErrors(p) ==
    (IF p \in ctxDone THEN {DefinitelyUnsent(CtxErr)} ELSE {})
        \cup (IF err # {} THEN {DefinitelyUnsent(err)} ELSE {})
        \cup (IF token = Free THEN {HeldError(p)} \ {{}} ELSE {})

\* Mutant: a canceled write is not cleaned up.
NothingSentStrict(n, e) == n = 0 /\ e \cap {"ambiguous", "ctx"} = {}

\* do() removes the pending record only when this is so of its write error.
NothingSent(n, e) == n = 0 /\ "ambiguous" \notin e

AfterWriteError(n, e) == IF NothingSent(n, e) THEN "unsent" ELSE "failed"

\* Mutant: the writer does not wait for the token.
TakeTokenFreely(o) ==
    /\ pc[o] = "queued"
    /\ HeldError(Do(o)) = {}
    /\ token' = Do(o)
    /\ pc' = [pc EXCEPT ![o] = "starting"]
    /\ UNCHANGED <<connVars, idVars, op, id, doErr, streamVars, abandVars,
                   closeVars, reader, retiring, io, ctxDone, link, peerVars,
                   wireVars, unsolVars>>

TakeToken(o) ==
    /\ pc[o] = "queued"
    /\ \/ /\ token = Free
          /\ HeldError(Do(o)) = {}
          /\ token' = Do(o)
          /\ pc' = [pc EXCEPT ![o] = "starting"]
          /\ UNCHANGED doErr
       \/ \E e \in AcquireErrors(Do(o)) :
          /\ pc' = [pc EXCEPT ![o] = AfterWriteError(0, e)]
          /\ doErr' = [doErr EXCEPT ![o] = e]
          /\ UNCHANGED token
    /\ UNCHANGED <<connVars, idVars, op, id, streamVars, abandVars, closeVars,
                   reader, retiring, io, ctxDone, link, peerVars, wireVars,
                   unsolVars>>

\* writeRequest records that bytes may leave, then calls writeAll.  If the
\* connection was retired meanwhile the record is no longer pending and is
\* left alone, but writeAll is called all the same.
StartWrite(o) ==
    /\ pc[o] = "starting"
    /\ op' = IF Live(o) THEN [op EXCEPT ![o].writeStarted = TRUE] ELSE op
    /\ io' = WriteAll
    /\ pc' = [pc EXCEPT ![o] = "writing"]
    /\ UNCHANGED <<connVars, idVars, id, doErr, streamVars, abandVars,
                   closeVars, reader, retiring, token, ctxDone, link, peerVars,
                   wireVars, unsolVars>>

-----------------------------------------------------------------------------
(***************************************************************************)
(* writeAll, run by the holder of the token.                               *)
(***************************************************************************)
LinkDown == link.closed \/ link.broken

\* The head of the loop: a context that is done stops the write, and retires
\* the connection if part of the frame has left.
WriteCheck ==
    /\ io.pc = "check"
    /\ io' = IF token \in ctxDone
             THEN IF io.total = 0
                  THEN [io EXCEPT !.pc = "failed",
                                  !.err = DefinitelyUnsent(CtxErr)]
                  ELSE [io EXCEPT !.pc = "retire", !.err = Ambiguous(CtxErr)]
             ELSE [io EXCEPT !.pc = "inwrite", !.begun = io.total,
                             !.won = FALSE]
    /\ UNCHANGED <<connVars, idVars, op, callVars, streamVars, abandVars,
                   closeVars, reader, retiring, token, ctxDone, link, peerVars,
                   wireVars, unsolVars>>

\* The transport carries one more piece of the frame to the peer; a complete
\* request that expects responses is owed them.
Flow ==
    /\ io.pc = "inwrite"
    /\ ~LinkDown
    /\ io.total < FrameLen
    /\ io' = [io EXCEPT !.total = @ + 1]
    /\ tail' = IF tail.n < FrameLen /\ tail.who = token
               THEN [tail EXCEPT !.n = @ + 1]
               ELSE [who |-> token, n |-> 1]
    /\ torn' = (torn \/ (tail.n < FrameLen /\ tail.who # token))
    /\ sent' = [o \in Ops |-> sent[o] + IF token = Do(o) THEN 1 ELSE 0]
    /\ owed' = owed \cup {o \in Ops \ NoResponse :
                            token = Do(o) /\ io.total + 1 = FrameLen}
    /\ UNCHANGED <<connVars, idVars, op, callVars, streamVars, abandVars,
                   closeVars, reader, retiring, token, ctxDone, link, inbox,
                   replies, strays, unsolVars>>

\* Mutant: the write is marked, but nobody closes the transport.
CancelWinsIdly ==
    /\ io.pc = "inwrite"
    /\ token \in ctxDone
    /\ ~io.won
    /\ io' = [io EXCEPT !.won = TRUE]
    /\ UNCHANGED <<connVars, idVars, op, callVars, streamVars, abandVars,
                   closeVars, reader, retiring, token, ctxDone, link, peerVars,
                   wireVars, unsolVars>>

\* context.AfterFunc wins the compare-and-swap on writeState: the write is
\* ambiguous and a goroutine is about to retire the connection.
CancelWins ==
    /\ io.pc = "inwrite"
    /\ token \in ctxDone
    /\ ~io.won
    /\ io' = [io EXCEPT !.won = TRUE]
    /\ retiring' = retiring \cup {Ambiguous(CtxErr)}
    /\ UNCHANGED <<connVars, idVars, op, callVars, streamVars, abandVars,
                   closeVars, reader, token, ctxDone, link, peerVars, wireVars,
                   unsolVars>>

\* Mutant: the pieces written by earlier passes are forgotten.
WriteErrorForgetful ==
    LET cause == IF token \in ctxDone THEN CtxErr ELSE {} IN
    IF token \in ctxDone THEN Ambiguous(cause) ELSE DefinitelyUnsent(cause)

\* The outcome of a Write that failed, and its cause.
WriteError ==
    LET cause == IF token \in ctxDone THEN CtxErr ELSE {} IN
    IF io.total # 0 \/ token \in ctxDone THEN Ambiguous(cause)
                                         ELSE DefinitelyUnsent(cause)

\* transport.Write returns.  io.Writer lets it return early only with an
\* error, once the link is down; a transport with ShortWrites may also return
\* early without one (and no progress at all is an error to the loop).
WriteReturn ==
    /\ io.pc = "inwrite"
    /\ io.total = FrameLen \/ LinkDown \/ ShortWrites
    /\ io' = CASE io.won ->
                     [io EXCEPT !.pc = "failed", !.err = Ambiguous(CtxErr)]
               [] ~io.won /\ io.total = FrameLen ->
                     [io EXCEPT !.pc = "ok"]
               [] ~io.won /\ io.total < FrameLen /\ ~LinkDown
                    /\ io.total > io.begun ->
                     [io EXCEPT !.pc = "check"]
               [] OTHER ->
                     [io EXCEPT !.pc = "retire", !.err = WriteError]
    /\ UNCHANGED <<connVars, idVars, op, callVars, streamVars, abandVars,
                   closeVars, reader, retiring, token, ctxDone, link, peerVars,
                   wireVars, unsolVars>>

\* writeAll retires the connection before it returns its error.
WriteRetire ==
    /\ io.pc = "retire"
    /\ Retire(io.err)
    /\ io' = [io EXCEPT !.pc = "failed"]
    /\ UNCHANGED <<closing, nextID, callVars, streamVars, abandVars, closeVars,
                   reader, retiring, token, ctxDone, peerVars, wireVars,
                   unsolicited, unsolBytes, ucons>>

-----------------------------------------------------------------------------
(***************************************************************************)
(* Do, after the write.                                                    *)
(***************************************************************************)
\* writeRequest returns and its deferred releaseWriter runs.
WriteDone(o) ==
    /\ token = Do(o)
    /\ pc[o] = "writing"
    /\ \/ /\ io.pc = "ok"
          /\ pc' = [pc EXCEPT ![o] = "written"]
          /\ UNCHANGED doErr
       \/ /\ io.pc = "failed"
          /\ pc' = [pc EXCEPT ![o] = AfterWriteError(io.total, io.err)]
          /\ doErr' = [doErr EXCEPT ![o] = io.err]
    /\ token' = Free
    /\ io' = Idle
    /\ UNCHANGED <<connVars, idVars, op, id, streamVars, abandVars, closeVars,
                   reader, retiring, ctxDone, link, peerVars, wireVars,
                   unsolVars>>

\* The body that removeDefinitelyUnsent and completeNoResponse share.
Complete(o) ==
    IF Live(o)
    THEN /\ pending' = Without(o)
         /\ op' = [op EXCEPT ![o] = [@ EXCEPT !.terminal = TRUE, !.ended = TRUE,
                                              !.ready = TRUE]]
         /\ idWait' = {}
    ELSE UNCHANGED <<pending, op, idWait>>

RemoveDefinitelyUnsent(o) ==
    /\ pc[o] = "unsent"
    /\ Complete(o)
    /\ pc' = [pc EXCEPT ![o] = "failed"]
    /\ UNCHANGED <<connVars, nextID, reserved, tombstones, id, doErr,
                   streamVars, abandVars, closeVars, reader, retiring,
                   writeVars, ctxDone, link, peerVars, wireVars, unsolVars>>

\* Mutant: writeObserved is not closed.
ObserveWriteNot(o) ==
    /\ pc[o] = "written"
    /\ pc' = [pc EXCEPT ![o] = "open"]
    /\ cons' = [cons EXCEPT ![o] = "idle"]
    /\ watch' = watch \cup {o}
    /\ UNCHANGED <<connVars, idVars, op, id, doErr, got, shut, abandVars,
                   closeVars, reader, retiring, writeVars, ctxDone, link,
                   peerVars, wireVars, unsolVars>>

\* close(p.writeObserved); an operation with responses gets its watcher and
\* its stream, the others still have to be completed.
ObserveWrite(o) ==
    /\ pc[o] = "written"
    /\ op' = [op EXCEPT ![o].observed = TRUE]
    /\ \/ /\ o \in NoResponse
          /\ pc' = [pc EXCEPT ![o] = "observed"]
          /\ UNCHANGED <<cons, watch>>
       \/ /\ o \notin NoResponse
          /\ pc' = [pc EXCEPT ![o] = "open"]
          /\ cons' = [cons EXCEPT ![o] = "idle"]
          /\ watch' = watch \cup {o}
    /\ UNCHANGED <<connVars, idVars, id, doErr, got, shut, abandVars, closeVars,
                   reader, retiring, writeVars, ctxDone, link, peerVars,
                   wireVars, unsolVars>>

CompleteNoResponse(o) ==
    /\ pc[o] = "observed"
    /\ Complete(o)
    /\ pc' = [pc EXCEPT ![o] = "open"]
    /\ cons' = [cons EXCEPT ![o] = "idle"]
    /\ UNCHANGED <<connVars, nextID, reserved, tombstones, id, doErr, got, shut,
                   watch, abandVars, closeVars, reader, retiring, writeVars,
                   ctxDone, link, peerVars, wireVars, unsolVars>>

-----------------------------------------------------------------------------
(***************************************************************************)
(* Cancellation and the consumer's side of a stream.                       *)
(***************************************************************************)
\* Mutant: a result is owned only once it has been read.
OwnedLate(o) == op[o].terminal /\ op[o].queue = <<>>

\* cancelOperation.  A terminal response that is already owned wins.  The
\* first reason ends delivery; what the peer is told depends on the mode.
\* CancelClose calls retire after the lock is released.
Owned(o) == op[o].terminal

CancelActs(o, mode) == Live(o) /\ ~op[o].abandoning /\ Mode[o] = mode

\* Delivery ends with an error and what was queued is dropped.
Cleared(p, reason) ==
    [p EXCEPT !.deliveryErr = reason, !.queue = <<>>, !.bytes = 0,
              !.canceled = TRUE, !.ready = TRUE]

Canceled(o, reason) ==
    LET p == [op[o] EXCEPT !.abandoning = @ \/ CancelActs(o, "abandon")] IN
    IF p.deliveryErr # {} THEN p ELSE Cleared(p, reason)

CancelOperation(o, reason) ==
    IF Owned(o) THEN UNCHANGED <<op, apc, retiring>>
    ELSE /\ op' = [op EXCEPT ![o] = Canceled(o, reason)]
         /\ apc' = IF CancelActs(o, "abandon")
                   THEN [apc EXCEPT ![o] = "spawned"] ELSE apc
         /\ retiring' = IF CancelActs(o, "close")
                        THEN retiring \cup {ErrClosed} ELSE retiring

streamFrame == <<connVars, idVars, callVars, aid, aerr, closeVars, reader,
                 writeVars, ctxDone, link, peerVars, wireVars, unsolVars>>

\* Next is called; a context that is already done cancels the operation.
NextCall(o) ==
    /\ o \in Reads
    /\ cons[o] = "idle"
    /\ IF Do(o) \in ctxDone THEN CancelOperation(o, CtxErr)
                            ELSE UNCHANGED <<op, apc, retiring>>
    /\ cons' = [cons EXCEPT ![o] = "loop"]
    /\ UNCHANGED <<got, shut, watch, streamFrame>>

\* The head of the queue is handed over.
Taken(p) ==
    [p EXCEPT !.queue = Tail(@), !.bytes = @ - Head(p.queue).size]

\* One pass of Next's loop: the queue first, then the delivery error, then
\* io.EOF, else wait.
NextLoop(o) ==
    /\ cons[o] = "loop"
    /\ \/ /\ op[o].queue # <<>>
          /\ op' = [op EXCEPT ![o] = Taken(op[o])]
          /\ got' = [got EXCEPT ![o] = @ + 1]
          /\ cons' = [cons EXCEPT ![o] = "idle"]
       \/ /\ op[o].queue = <<>>
          /\ cons' = [cons EXCEPT ![o] =
                        CASE op[o].deliveryErr # {} -> "failed"
                          [] op[o].deliveryErr = {} /\ op[o].terminal -> "eof"
                          [] OTHER -> "wait"]
          /\ UNCHANGED <<op, got>>
    /\ UNCHANGED <<shut, watch, apc, retiring, streamFrame>>

\* The select at the end of Next's loop.
NextWake(o) ==
    /\ cons[o] = "wait"
    /\ \/ /\ op[o].ready
          /\ op' = [op EXCEPT ![o].ready = FALSE]
          /\ cons' = [cons EXCEPT ![o] = "loop"]
          /\ UNCHANGED <<apc, retiring>>
       \/ /\ err # {}
          /\ cons' = [cons EXCEPT ![o] = "loop"]
          /\ UNCHANGED <<op, apc, retiring>>
       \/ /\ Do(o) \in ctxDone
          /\ CancelOperation(o, CtxErr)
          /\ cons' = [cons EXCEPT ![o] = "loop"]
       \/ \* the context given to Next is done
          /\ cons' = [cons EXCEPT ![o] = "idle"]
          /\ UNCHANGED <<op, apc, retiring>>
    /\ UNCHANGED <<got, shut, watch, streamFrame>>

\* responseStream.Close, which may run beside Next
CloseStream(o) ==
    /\ o \in Shuts
    /\ cons[o] # "none"
    /\ o \notin shut
    /\ shut' = shut \cup {o}
    /\ CancelOperation(o, ErrClosed)
    /\ UNCHANGED <<cons, got, watch, streamFrame>>

WatchOperation(o) ==
    /\ o \in watch
    /\ \/ /\ Do(o) \in ctxDone
          /\ CancelOperation(o, CtxErr)
       \/ /\ op[o].ended \/ err # {}
          /\ UNCHANGED <<op, apc, retiring>>
    /\ watch' = watch \ {o}
    /\ UNCHANGED <<cons, got, shut, streamFrame>>

-----------------------------------------------------------------------------
(***************************************************************************)
(* sendAbandon, the goroutine that tells the peer to stop.                 *)
(***************************************************************************)
\* Its two looks at the target: nothing to do if this is so.
AbandonMoot(o) == ~Live(o) \/ err # {} \/ closing

AbandonReserve(o) ==
    /\ apc[o] = "spawned"
    /\ \/ /\ AbandonMoot(o)
          /\ apc' = [apc EXCEPT ![o] = "done"]
          /\ UNCHANGED <<nextID, reserved, aid, aerr>>
       \/ /\ ~AbandonMoot(o)
          /\ \E i \in IDs : TryReserve(i) /\ aid' = [aid EXCEPT ![o] = i]
          /\ apc' = [apc EXCEPT ![o] = "queued"]
          /\ UNCHANGED aerr
       \/ /\ ~AbandonMoot(o)
          /\ Exhausted
          /\ apc' = [apc EXCEPT ![o] = "retire"]
          /\ aerr' = [aerr EXCEPT ![o] = {"limit"}]
          /\ UNCHANGED <<nextID, reserved, aid>>
    /\ UNCHANGED <<connVars, pending, tombstones, idWait, op, callVars,
                   streamVars, closeVars, reader, retiring, writeVars, ctxDone,
                   link, peerVars, wireVars, unsolVars>>

\* Mutant: a failure to get the writer is ignored.
AbandonFailsQuietly(o, e) ==
    /\ ReleaseReserved(aid[o])
    /\ apc' = [apc EXCEPT ![o] = "done"]
    /\ aerr' = [aerr EXCEPT ![o] = {}]

\* acquireWriter failed with e: the ID goes back, and the connection is
\* retired unless it is being closed already.
AbandonFails(o, e) ==
    /\ ReleaseReserved(aid[o])
    /\ apc' = [apc EXCEPT ![o] = IF "closed" \in e THEN "done" ELSE "retire"]
    /\ aerr' = [aerr EXCEPT ![o] = IF "closed" \in e THEN {} ELSE e]

AbandonTakeToken(o) ==
    /\ apc[o] = "queued"
    /\ \/ /\ token = Free
          /\ HeldError(Abandon(o)) = {}
          /\ token' = Abandon(o)
          /\ apc' = [apc EXCEPT ![o] = "recheck"]
          /\ UNCHANGED <<reserved, idWait, aerr>>
       \/ /\ \E e \in AcquireErrors(Abandon(o)) : AbandonFails(o, e)
          /\ UNCHANGED token
    /\ UNCHANGED <<connVars, nextID, pending, tombstones, op, callVars, aid,
                   streamVars, closeVars, reader, retiring, io, ctxDone, link,
                   peerVars, wireVars, unsolVars>>

\* Mutant: no tombstone is left.
TombstoneNone(o) == tombstones

Tombstone(o) == [tombstones EXCEPT ![id[o]] = o]

\* With the token in hand the target is looked at again, and if it still
\* owns its ID the pending record becomes a tombstone before any byte of the
\* Abandon leaves.
AbandonTombstone(o) ==
    /\ apc[o] = "recheck"
    /\ \/ /\ AbandonMoot(o)
          /\ token' = Free
          /\ ReleaseReserved(aid[o])
          /\ apc' = [apc EXCEPT ![o] = "done"]
          /\ UNCHANGED <<pending, tombstones, op, io>>
       \/ /\ ~AbandonMoot(o)
          /\ pending' = Without(o)
          /\ tombstones' = Tombstone(o)
          /\ op' = [op EXCEPT ![o] = [@ EXCEPT !.ended = TRUE, !.ready = TRUE]]
          /\ io' = WriteAll
          /\ apc' = [apc EXCEPT ![o] = "writing"]
          /\ UNCHANGED <<token, reserved, idWait>>
    /\ UNCHANGED <<connVars, nextID, callVars, streamVars, aid, aerr, closeVars,
                   reader, retiring, ctxDone, link, peerVars, wireVars,
                   unsolVars>>

AbandonWritten(o) ==
    /\ token = Abandon(o)
    /\ apc[o] = "writing"
    /\ io.pc \in {"ok", "failed"}
    /\ token' = Free
    /\ io' = Idle
    /\ ReleaseReserved(aid[o])
    /\ apc' = [apc EXCEPT ![o] = IF io.pc = "ok" THEN "done" ELSE "retire"]
    /\ aerr' = [aerr EXCEPT ![o] = io.err]
    /\ UNCHANGED <<connVars, nextID, pending, tombstones, op, callVars, aid,
                   streamVars, closeVars, reader, retiring, ctxDone, link,
                   peerVars, wireVars, unsolVars>>

AbandonRetire(o) ==
    /\ apc[o] = "retire"
    /\ Retire(aerr[o])
    /\ apc' = [apc EXCEPT ![o] = "done"]
    /\ UNCHANGED <<closing, nextID, callVars, streamVars, aid, aerr, closeVars,
                   reader, retiring, writeVars, ctxDone, peerVars, wireVars,
                   unsolicited, unsolBytes, ucons>>

-----------------------------------------------------------------------------
(***************************************************************************)
(* CloseContext.                                                           *)
(***************************************************************************)
CloseBegin(c) ==
    /\ cpc[c] = "idle"
    /\ \/ /\ err # {}
          /\ cpc' = [cpc EXCEPT ![c] = "done"]
          /\ UNCHANGED <<closing, state>>
       \/ /\ err = {} /\ closing
          /\ cpc' = [cpc EXCEPT ![c] = "await"]
          /\ UNCHANGED <<closing, state>>
       \/ /\ err = {} /\ ~closing
          /\ closing' = TRUE
          /\ state' = "draining"
          /\ cpc' = [cpc EXCEPT ![c] = "acquire"]
    /\ UNCHANGED <<err, idVars, op, callVars, streamVars, abandVars, cid, reader,
                   retiring, writeVars, ctxDone, link, peerVars, wireVars,
                   unsolVars>>

\* A second caller waits for the first to finish.
CloseAwait(c) ==
    /\ cpc[c] = "await"
    /\ err # {} \/ Close(c) \in ctxDone
    /\ cpc' = [cpc EXCEPT ![c] = "done"]
    /\ UNCHANGED <<connVars, idVars, op, callVars, streamVars, abandVars, cid,
                   reader, retiring, writeVars, ctxDone, link, peerVars,
                   wireVars, unsolVars>>

\* The Unbind is written if the token comes before the context and done, and
\* if there is a free message ID.
CloseAcquire(c) ==
    /\ cpc[c] = "acquire"
    /\ \/ /\ token = Free
          /\ \E i \in IDs : TryReserve(i) /\ cid' = [cid EXCEPT ![c] = i]
          /\ token' = Close(c)
          /\ io' = WriteAll
          /\ cpc' = [cpc EXCEPT ![c] = "writing"]
       \/ /\ (token = Free /\ Exhausted) \/ Close(c) \in ctxDone \/ err # {}
          /\ cpc' = [cpc EXCEPT ![c] = "finish"]
          /\ UNCHANGED <<nextID, reserved, cid, token, io>>
    /\ UNCHANGED <<connVars, pending, tombstones, idWait, op, callVars,
                   streamVars, abandVars, reader, retiring, ctxDone, link,
                   peerVars, wireVars, unsolVars>>

CloseWritten(c) ==
    /\ token = Close(c)
    /\ cpc[c] = "writing"
    /\ io.pc \in {"ok", "failed"}
    /\ ReleaseReserved(cid[c])
    /\ token' = Free
    /\ io' = Idle
    /\ cpc' = [cpc EXCEPT ![c] = "finish"]
    /\ UNCHANGED <<connVars, nextID, pending, tombstones, op, callVars, cid,
                   streamVars, abandVars, reader, retiring, ctxDone, link,
                   peerVars, wireVars, unsolVars>>

CloseFinish(c) ==
    /\ cpc[c] = "finish"
    /\ Retire(ErrClosed)
    /\ cpc' = [cpc EXCEPT ![c] = "done"]
    /\ UNCHANGED <<closing, nextID, callVars, streamVars, abandVars, cid, reader,
                   retiring, writeVars, ctxDone, peerVars, wireVars,
                   unsolicited, unsolBytes, ucons>>

-----------------------------------------------------------------------------
(***************************************************************************)
(* readLoop and route.                                                     *)
(***************************************************************************)
\* FramingPattern.Classify for the pattern of o
Classify(o, kind) ==
    CASE kind = "terminal" /\ o \notin NoResponse -> "complete"
      [] kind = "continue" /\ o \notin NoResponse \cup Single -> "continue"
      [] OTHER -> "invalid"

readerFrame == <<connVars, nextID, reserved, callVars, streamVars, aid, aerr,
                 closeVars, retiring, writeVars, ctxDone, link, owed, replies,
                 strays, wireVars>>

\* framer.Next and parseOwnedResponse; "malformed" fails in either.
ReadFrame ==
    /\ reader.pc = "read"
    /\ inbox # <<>>
    /\ ~LinkDown
    /\ inbox' = Tail(inbox)
    /\ reader' = IF Head(inbox).kind = "malformed"
                 THEN [reader EXCEPT !.pc = "retire", !.err = {"protocol"}]
                 ELSE [reader EXCEPT !.pc = "route", !.msg = Head(inbox)]
    /\ UNCHANGED <<pending, tombstones, idWait, op, apc, unsolVars, readerFrame>>

\* framer.Next fails; classifyReadError
ReadError ==
    /\ reader.pc = "read"
    /\ LinkDown \/ (link.eof /\ inbox = <<>>)
    /\ reader' = [reader EXCEPT !.pc = "retire",
                    !.err = IF closing \/ link.closed THEN ErrClosed
                                                      ELSE {"transport"}]
    /\ UNCHANGED <<inbox, pending, tombstones, idWait, op, apc, unsolVars,
                   readerFrame>>

ReaderNext    == [reader EXCEPT !.pc = "read", !.msg = NoMsg, !.on = None]
ReaderFails(e) == [ReaderNext EXCEPT !.pc = "retire", !.err = e]

\* Mutant: only the bytes are limited.
UnsolicitedFullBytes(m) == unsolBytes + m.size > MaxUnsolicitedResponseBytes

UnsolicitedFull(m) ==
    \/ Len(unsolicited) = MaxUnsolicitedResponses
    \/ unsolBytes + m.size > MaxUnsolicitedResponseBytes

\* routeUnsolicited
RouteUnsolicited ==
    /\ reader.pc = "route"
    /\ reader.msg.id = 0
    /\ \/ /\ reader.msg.kind = "notice"
          /\ reader' = ReaderFails({"notice"})
          /\ UNCHANGED <<unsolicited, unsolBytes, unsolReady>>
       \/ /\ reader.msg.kind \notin {"notice", "extended"}
          /\ reader' = ReaderFails({"protocol"})
          /\ UNCHANGED <<unsolicited, unsolBytes, unsolReady>>
       \/ /\ reader.msg.kind = "extended"
          /\ UnsolicitedFull(reader.msg)
          /\ reader' = ReaderFails({"limit"})
          /\ UNCHANGED <<unsolicited, unsolBytes, unsolReady>>
       \/ /\ reader.msg.kind = "extended"
          /\ ~UnsolicitedFull(reader.msg)
          /\ unsolicited' = Append(unsolicited, reader.msg)
          /\ unsolBytes' = unsolBytes + reader.msg.size
          /\ unsolReady' = TRUE
          /\ reader' = ReaderNext
    /\ UNCHANGED <<inbox, pending, tombstones, idWait, op, apc, ucons,
                   readerFrame>>

\* No pending operation has this ID: a tombstone discards what its pattern
\* allows, anything else is a protocol error.
RouteUnowned ==
    /\ reader.pc = "route"
    /\ reader.msg.id \in IDs
    /\ pending[reader.msg.id] = None
    /\ LET t == tombstones[reader.msg.id] IN
       reader' = IF t # None /\ Classify(t, reader.msg.kind) # "invalid"
                 THEN ReaderNext ELSE ReaderFails({"protocol"})
    /\ UNCHANGED <<inbox, pending, tombstones, idWait, op, apc, unsolVars,
                   readerFrame>>

\* The response overtook its own request's bookkeeping: wait for it.
RouteWait ==
    /\ reader.pc = "route"
    /\ reader.msg.id \in IDs
    /\ LET o == pending[reader.msg.id] IN
       /\ o # None
       /\ ~op[o].observed
       /\ reader' = [reader EXCEPT !.pc = "wait", !.on = o]
    /\ UNCHANGED <<inbox, pending, tombstones, idWait, op, apc, unsolVars,
                   readerFrame>>

\* Mutant: the reader does not notice that the connection is done.
RouteAgainDeaf ==
    /\ reader.pc = "wait"
    /\ op[reader.on].observed
    /\ reader' = [reader EXCEPT !.pc = "route", !.on = None]
    /\ UNCHANGED <<inbox, pending, tombstones, idWait, op, apc, unsolVars,
                   readerFrame>>

RouteAgain ==
    /\ reader.pc = "wait"
    /\ \/ /\ op[reader.on].observed
          /\ reader' = [reader EXCEPT !.pc = "route", !.on = None]
       \/ /\ err # {}
          /\ reader' = ReaderNext
    /\ UNCHANGED <<inbox, pending, tombstones, idWait, op, apc, unsolVars,
                   readerFrame>>

\* Mutant: the arriving response is not counted.
OverflowsLate(o, m) ==
    \/ Len(op[o].queue) = MaxQueuedResponses
    \/ op[o].bytes > MaxQueuedResponseBytes

Overflows(o, m) ==
    \/ Len(op[o].queue) = MaxQueuedResponses
    \/ op[o].bytes + m.size > MaxQueuedResponseBytes

\* Mutant: the terminal response does not wake the consumer.
AcceptedQuietly(o, m, last) ==
    LET p == [op[o] EXCEPT !.ready = @ \/ ~last, !.terminal = @ \/ last,
                           !.ended = @ \/ last] IN
    IF p.canceled THEN p
    ELSE [p EXCEPT !.queue = Append(@, m), !.bytes = @ + m.size]

\* The pendingOperation after route accepted m: queued, discarded because
\* the operation is canceled, or the overflow that cancels it.
Accepted(o, m, last) ==
    LET p == [op[o] EXCEPT !.ready = TRUE, !.terminal = @ \/ last,
                           !.ended = @ \/ last] IN
    CASE p.canceled -> p
      [] ~p.canceled /\ ~Overflows(o, m) ->
            [p EXCEPT !.queue = Append(@, m), !.bytes = @ + m.size]
      [] ~p.canceled /\ Overflows(o, m) ->
            Cleared([p EXCEPT !.abandoning =
                        @ \/ (~last /\ Mode[o] = "abandon")], {"limit"})

\* route, for a pending operation whose write is known to be complete
Route ==
    /\ reader.pc = "route"
    /\ reader.msg.id \in IDs
    /\ LET m    == reader.msg
           o    == pending[m.id]
           c    == Classify(o, m.kind)
           last == c = "complete"
           act  == ~op[o].canceled /\ Overflows(o, m) /\ ~last
       IN /\ o # None
          /\ op[o].observed
          /\ \/ /\ c = "invalid"
                /\ reader' = ReaderFails({"protocol"})
                /\ UNCHANGED <<pending, idWait, op, apc>>
             \/ /\ c # "invalid"
                /\ op' = [op EXCEPT ![o] = Accepted(o, m, last)]
                /\ pending' = IF last THEN Without(o) ELSE pending
                /\ idWait' = IF last THEN {} ELSE idWait
                /\ apc' = IF act /\ Mode[o] = "abandon"
                          THEN [apc EXCEPT ![o] = "spawned"] ELSE apc
                /\ reader' = IF act /\ Mode[o] = "close"
                             THEN ReaderFails({"limit"}) ELSE ReaderNext
    /\ UNCHANGED <<inbox, tombstones, unsolVars, readerFrame>>

ReaderRetire ==
    /\ reader.pc = "retire"
    /\ Retire(reader.err)
    /\ reader' = [reader EXCEPT !.pc = "stopped"]
    /\ UNCHANGED <<closing, nextID, callVars, streamVars, abandVars, closeVars,
                   retiring, writeVars, ctxDone, peerVars, wireVars,
                   unsolicited, unsolBytes, ucons>>

\* NextUnsolicited: the queue first, then the connection's error, else wait.
NextUnsolicited(u) ==
    /\ \/ /\ ucons[u] = "idle"
          /\ unsolicited # <<>>
          /\ unsolicited' = Tail(unsolicited)
          /\ unsolBytes' = unsolBytes - Head(unsolicited).size
          /\ UNCHANGED <<unsolReady, ucons>>
       \/ /\ ucons[u] = "idle"
          /\ unsolicited = <<>>
          /\ ucons' = [ucons EXCEPT ![u] = IF err # {} THEN "failed" ELSE "wait"]
          /\ UNCHANGED <<unsolicited, unsolBytes, unsolReady>>
       \/ /\ ucons[u] = "wait"
          /\ unsolReady
          /\ unsolReady' = FALSE
          /\ ucons' = [ucons EXCEPT ![u] = "idle"]
          /\ UNCHANGED <<unsolicited, unsolBytes>>
       \/ /\ ucons[u] = "wait"
          /\ err # {}
          /\ ucons' = [ucons EXCEPT ![u] = "idle"]
          /\ UNCHANGED <<unsolicited, unsolBytes, unsolReady>>
    /\ UNCHANGED <<connVars, idVars, op, callVars, streamVars, abandVars,
                   closeVars, reader, retiring, writeVars, ctxDone, link,
                   peerVars, wireVars>>

-----------------------------------------------------------------------------
(***************************************************************************)
(* The peer and the link.  What happens on the wire after we have closed   *)
(* the transport is never seen, and left out.                              *)
(***************************************************************************)
peerFrame == <<connVars, idVars, op, callVars, streamVars, abandVars, closeVars,
               reader, retiring, writeVars, ctxDone, wireVars, unsolVars>>

\* The server answers a request it has received in full.
PeerReplies(o) ==
    /\ o \in owed
    /\ ~link.eof /\ ~LinkDown
    /\ \E kind \in {"continue", "terminal"}, s \in Sizes :
          /\ kind = "continue" => o \notin Single /\ replies[o] < MaxContinue
          /\ inbox' = Append(inbox, [id |-> id[o], kind |-> kind, for |-> o,
                                     n |-> replies[o] + 1, size |-> s])
          /\ owed' = IF kind = "terminal" THEN owed \ {o} ELSE owed
    /\ replies' = [replies EXCEPT ![o] = @ + 1]
    /\ UNCHANGED <<strays, link, peerFrame>>

\* A message no request of ours prompted.
PeerStrays ==
    /\ strays < MaxStrays
    /\ ~link.eof /\ ~LinkDown
    /\ \E m \in Strays, s \in Sizes :
          inbox' = Append(inbox, [id |-> m.id, kind |-> m.kind, for |-> None,
                                  n |-> 0, size |-> s])
    /\ strays' = strays + 1
    /\ UNCHANGED <<owed, replies, link, peerFrame>>

LinkFault ==
    /\ ~link.closed
    /\ \E f \in Faults :
          \/ /\ f = "eof" /\ ~link.eof
             /\ link' = [link EXCEPT !.eof = TRUE]
          \/ /\ f = "reset" /\ ~link.broken
             /\ link' = [link EXCEPT !.broken = TRUE]
    /\ UNCHANGED <<peerVars, peerFrame>>

-----------------------------------------------------------------------------
DoStep(o) ==
    \/ Reserve(o) \/ ReserveCanceled(o) \/ GiveBack(o) \/ InstallPending(o)
    \/ TakeToken(o) \/ StartWrite(o) \/ WriteDone(o)
    \/ RemoveDefinitelyUnsent(o) \/ ObserveWrite(o) \/ CompleteNoResponse(o)

StreamStep(o) ==
    \/ NextCall(o) \/ NextLoop(o) \/ NextWake(o) \/ CloseStream(o)

AbandonStep(o) ==
    \/ AbandonReserve(o) \/ AbandonTakeToken(o)
    \/ AbandonTombstone(o) \/ AbandonWritten(o) \/ AbandonRetire(o)

CloseStep(c) ==
    \/ CloseBegin(c) \/ CloseAwait(c) \/ CloseAcquire(c) \/ CloseWritten(c)
    \/ CloseFinish(c)

WriteStep == WriteCheck \/ CancelWins \/ WriteReturn \/ WriteRetire

ReaderStep ==
    \/ ReadFrame \/ ReadError \/ RouteUnsolicited \/ RouteUnowned \/ RouteWait
    \/ RouteAgain \/ Route \/ ReaderRetire

PeerStep == (\E o \in Ops : PeerReplies(o)) \/ PeerStrays \/ LinkFault

Next ==
    \/ \E o \in Ops : DoStep(o) \/ StreamStep(o) \/ WatchOperation(o)
                        \/ AbandonStep(o)
    \/ \E c \in Closers : CloseStep(c)
    \/ WriteStep \/ Flow \/ ReaderStep \/ AsyncRetire
    \/ \E u \in Listeners : NextUnsolicited(u)
    \/ \E p \in Procs : ContextDone(p)
    \/ PeerStep

Spec == Init /\ [][Next]_vars

\* A goroutine that can go on eventually does.  The contexts of sendAbandon
\* (CancellationWriteTimeout) and of Close (CloseTimeout) have deadlines.
\* Nothing is assumed of the callers of Do, Next and Close, of a caller's
\* context, of the peer, or of the link: Flow may stop for ever.
Fairness ==
    /\ \A o \in Ops : /\ WF_vars(DoStep(o) /\ pc[o] # "idle")
                      /\ WF_vars(WatchOperation(o))
                      /\ WF_vars(AbandonStep(o))
                      /\ WF_vars(ContextDone(Abandon(o)))
    /\ \A c \in Closers : /\ WF_vars(CloseStep(c) /\ cpc[c] # "idle")
                          /\ WF_vars(ContextDone(Close(c)))
    /\ WF_vars(WriteStep)
    /\ WF_vars(ReaderStep)
    /\ WF_vars(AsyncRetire)

FairSpec == Spec /\ Fairness

-----------------------------------------------------------------------------
(***************************************************************************)
(* Properties.                                                             *)
(***************************************************************************)
Message == [id : Nat, kind : Kinds, for : Ops \cup {None}, n : Nat, size : Nat]

Error == SUBSET Sentinels

Operation == [queue : Seq(Message), bytes : Int, deliveryErr : Error,
              canceled : BOOLEAN, terminal : BOOLEAN, abandoning : BOOLEAN,
              writeStarted : BOOLEAN, observed : BOOLEAN, ended : BOOLEAN,
              ready : BOOLEAN]

WriteCall == [pc : {"off", "check", "inwrite", "retire", "ok", "failed"},
              total : 0 .. FrameLen, begun : 0 .. FrameLen, won : BOOLEAN,
              err : Error]

ConnType ==
    /\ state \in {"transportSetup", "authenticating", "initializing", "ready",
                  "draining", "closed"}
    /\ closing \in BOOLEAN
    /\ err \in Error
    /\ retiring \subseteq Error
    /\ ctxDone \subseteq Procs
    /\ link \in [closed : BOOLEAN, broken : BOOLEAN, eof : BOOLEAN]

IDType ==
    /\ nextID \in 0 .. MaxID
    /\ reserved \subseteq IDs
    /\ pending \in [IDs -> Ops \cup {None}]
    /\ tombstones \in [IDs -> Ops \cup {None}]
    /\ idWait \subseteq Ops

CallType ==
    /\ pc \in [Ops -> {"idle", "reserving", "reserved", "queued", "starting",
                       "writing", "written", "unsent", "observed", "open",
                       "failed"}]
    /\ id \in [Ops -> 0 .. MaxID]
    /\ doErr \in [Ops -> Error]

StreamType ==
    /\ cons \in [Ops -> {"none", "idle", "loop", "wait", "eof", "failed"}]
    /\ got \in [Ops -> Nat]
    /\ shut \subseteq Ops
    /\ watch \subseteq Ops

AbandonType ==
    /\ apc \in [Ops -> {"none", "spawned", "queued", "recheck", "writing",
                        "retire", "done"}]
    /\ aid \in [Ops -> 0 .. MaxID]
    /\ aerr \in [Ops -> Error]

CloseType ==
    /\ cpc \in [Closers -> {"idle", "await", "acquire", "writing", "finish",
                            "done"}]
    /\ cid \in [Closers -> 0 .. MaxID]

ReaderType ==
    reader \in [pc : {"read", "route", "wait", "retire", "stopped"},
                msg : Message, on : Ops \cup {None}, err : Error]

WriterType ==
    /\ token \in Procs \cup {Free}
    /\ io \in WriteCall
    /\ sent \in [Ops -> Nat]
    /\ tail \in [who : Procs \cup {Free}, n : 1 .. FrameLen]
    /\ torn \in BOOLEAN

PeerType ==
    /\ inbox \in Seq(Message)
    /\ owed \subseteq Ops
    /\ replies \in [Ops -> Nat]
    /\ strays \in Nat

UnsolType ==
    /\ unsolicited \in Seq(Message)
    /\ unsolBytes \in Int
    /\ unsolReady \in BOOLEAN
    /\ ucons \in [Listeners -> {"idle", "wait", "failed"}]

\* Every variable keeps the type its declaration describes.
TypeOK ==
    /\ ConnType /\ IDType /\ CallType /\ StreamType /\ AbandonType
    /\ CloseType /\ ReaderType /\ WriterType /\ PeerType /\ UnsolType
    /\ op \in [Ops -> Operation]

\* The message ID a process has reserved and has still to install or release:
\* a Do call, a sendAbandon goroutine or a CloseContext call.  0 is none.
Claim(p) ==
    CASE p[1] = "do" /\ pc[p[2]] = "reserved" -> id[p[2]]
      [] p[1] = "abandon" /\ apc[p[2]] \in {"queued", "recheck", "writing"} ->
            aid[p[2]]
      [] p[1] = "close" /\ cpc[p[2]] = "writing" -> cid[p[2]]
      [] OTHER -> 0

Disjoint ==
    \A i \in IDs : /\ pending[i] # None => i \notin reserved
                   /\ tombstones[i] # None => i \notin reserved
                   /\ tombstones[i] # None => pending[i] = None

Claimed ==
    /\ reserved = {Claim(p) : p \in Procs} \ {0}
    /\ \A p, q \in Procs : Claim(p) = Claim(q) /\ Claim(p) # 0 => p = q

\* A message ID is in at most one of reserved, pending and tombstones, and
\* while the connection lives a reservation has exactly one goroutine that
\* will install or release it: the allocator (tryReserveMessageIDLocked,
\* releaseReserved, installPending) neither shares an ID nor loses one.
IDsExclusive ==
    /\ Disjoint
    /\ err = {} => Claimed

\* What keeps IDsExclusive going.  A pending record is filed under the ID of
\* its operation, whose Do call has gone past the reservation.
PendingFiled ==
    \A i \in IDs : pending[i] # None =>
        /\ id[pending[i]] = i
        /\ pc[pending[i]] \notin {"idle", "reserving", "reserved"}

\* An operation is abandoned once: the record says so before the goroutine
\* starts, and an abandoned operation has been canceled.
AbandonedOnce ==
    \A o \in Ops : /\ apc[o] # "none" => op[o].abandoning
                   /\ op[o].abandoning => op[o].canceled
                   /\ op[o].deliveryErr # {} => op[o].canceled \/ op[o].terminal

\* retire is never called without an error.
RetireHasCause ==
    /\ {} \notin retiring
    /\ \A o \in Ops : apc[o] = "retire" => aerr[o] # {}
    /\ reader.pc = "retire" => reader.err # {}
    /\ io.pc \in {"retire", "failed"} => io.err # {}

IDInv == IDsExclusive /\ PendingFiled /\ AbandonedOnce /\ RetireHasCause

\* A Do call that returned an error leaves no pending record behind, except
\* while the connection is about to be retired for an ambiguous write
\* (removeDefinitelyUnsent, and the AfterFunc in writeAll).
NoLeakedID ==
    \A o \in Ops : pc[o] = "failed" /\ Live(o)
        => Ambiguous(CtxErr) \in retiring

\* route puts into an operation's queue only responses the peer sent for
\* that operation, also when its ID has been used before.
RoutedToOwner ==
    \A o \in Ops : \A k \in DOMAIN op[o].queue :
        op[o].queue[k].for \in {o, None}

\* With a conforming peer, the consumer sees the responses of its operation
\* in the order sent and without a gap, and io.EOF means that it has seen
\* every one of them: neither cancellation, overflow nor retirement is ever
\* reported as a normal end of the stream.
DeliveryComplete ==
    strays = 0 => \A o \in Ops :
        /\ \A k \in DOMAIN op[o].queue : op[o].queue[k].n = got[o] + k
        /\ cons[o] = "eof" => got[o] = replies[o] /\ o \notin owed

\* What an error says of its request is true: ErrDefinitelyUnsent only if no
\* byte of it left, and a transport error after some byte left is
\* ErrAmbiguousOutcome.
OutcomeTruthful ==
    \A o \in Ops : \A e \in {doErr[o], op[o].deliveryErr} :
        /\ "unsent" \in e => sent[o] = 0
        /\ "transport" \in e /\ sent[o] > 0 => "ambiguous" \in e

\* reserveMessageID sleeps only while the ID space is exhausted: every step
\* that frees an ID closes the channel the sleeper waits on.
NoLostIDWakeup ==
    idWait # {} => Exhausted

\* A consumer blocked in Next has a token waiting in the ready channel as
\* soon as there is a response, an error or the end of the stream for it.
NoLostResponseWakeup ==
    \A o \in Ops : cons[o] = "wait" /\ (\/ op[o].queue # <<>>
                                        \/ op[o].deliveryErr # {}
                                        \/ op[o].terminal)
        => op[o].ready

\* The message ID of a request the peer has received and may still answer,
\* canceled or not, stays with its operation, as a pending record or as a
\* tombstone, until the terminal response or the connection's end; so no two
\* such requests carry the same ID.
IDHeldWhileOwed ==
    /\ \A o \in owed : err = {} => pending[id[o]] = o \/ tombstones[id[o]] = o
    /\ \A o, q \in owed : id[o] = id[q] => o = q

\* Frames are not interleaved on the wire: no request starts inside another.
FramesWhole == ~torn

SumSizes[q \in Seq(Message)] ==
    IF q = <<>> THEN 0 ELSE Head(q).size + SumSizes[Tail(q)]

\* The byte count kept beside a queue is the size of what is in it, and both
\* bounds hold.
QueueAccounting ==
    \A o \in Ops :
        /\ op[o].bytes = SumSizes[op[o].queue]
        /\ op[o].bytes <= MaxQueuedResponseBytes
        /\ Len(op[o].queue) <= MaxQueuedResponses

\* When the connection has been retired no operation is left pending, and
\* every installed one has completed with an error or its terminal response.
RetirementCompletes ==
    err # {} => \A o \in Ops :
        /\ ~Live(o)
        /\ pc[o] \in {"queued", "starting", "writing", "written", "open"}
              => op[o].ended

\* What a Do call past installPending owns is pending, or its lifecycle is over.
Installed == {"queued", "starting", "writing", "written", "unsent", "observed",
              "open"}

\* Nothing is pending on a retired connection, and a record that is terminal
\* has left the table, or never was in it.
RecordInv ==
    /\ \A o \in Ops : pc[o] \in Installed => Live(o) \/ op[o].ended
    /\ err # {} => \A o \in Ops : ~Live(o)
    /\ \A o \in Ops : op[o].terminal =>
          ~Live(o) /\ pc[o] \notin {"idle", "reserving", "reserved"}

\* A goroutine that is about to write has the token, and writeAll runs for the
\* goroutine that has it.
TokenHeld ==
    /\ \A o \in Ops : /\ pc[o] \in {"starting", "writing"} => token = Do(o)
                      /\ apc[o] \in {"recheck", "writing"} => token = Abandon(o)
    /\ \A c \in Closers : token = Close(c) <=> cpc[c] = "writing"
    /\ io.pc # "off" =>
          \/ \E o \in Ops : token = Do(o) /\ pc[o] = "writing"
          \/ \E o \in Ops : token = Abandon(o) /\ apc[o] = "writing"
          \/ \E c \in Closers : token = Close(c)

\* The last frame on the wire is the token holder's once some of it has left,
\* and the transport of a retired connection is closed.
TailKnown ==
    /\ io.pc # "off" /\ io.total # 0 => tail.who = token
    /\ io.pc = "ok" => io.total = FrameLen
    /\ err # {} => link.closed

WriterInv == TokenHeld /\ TailKnown

\* A frame that is not complete is being written, or nothing can follow it.
FrameInv ==
    /\ ~torn
    /\ io.pc # "off" /\ io.total # 0 => tail.n = io.total
    /\ \/ LinkDown
       \/ tail.n = FrameLen
       \/ /\ io.pc \in {"check", "inwrite", "retire"}
          /\ tail.who = token /\ tail.n = io.total

\* One CloseContext call closes the connection.  From the first piece of its
\* Unbind on nobody else gets the token.
Closer == {c \in Closers : cpc[c] \in {"acquire", "writing", "finish"}}

UnbindInv ==
    /\ \A c, d \in Closer : c = d
    /\ Closer # {} => closing
    /\ \A c \in Closers : tail.who = Close(c) /\ ~link.closed =>
          /\ cpc[c] \in {"writing", "finish"}
          /\ token \in {Free, Close(c)}
          /\ cpc[c] = "writing" => io.total # 0 /\ tail.n = io.total

\* No operation is left behind by a write that failed after some of it left,
\* unless a goroutine is about to retire the connection.
AboutToRetire == err # {} \/ Ambiguous(CtxErr) \in retiring

UnsentInv ==
    /\ NoLeakedID
    /\ io.pc = "inwrite" /\ io.won => AboutToRetire
    /\ io.pc = "failed" => NothingSent(io.total, io.err) \/ AboutToRetire

\* How much of a request has left where its Do call is, and what the errors say
\* before they reach anyone.
WireErrors == {io.err, reader.err} \cup retiring \cup {aerr[o] : o \in Ops}

SentInv ==
    /\ OutcomeTruthful
    /\ \A o \in Ops :
          /\ pc[o] \in {"idle", "reserving", "reserved", "queued", "starting",
                        "unsent"} => sent[o] = 0
          /\ pc[o] = "writing" => sent[o] = io.total
          /\ pc[o] \notin {"unsent", "failed"} => doErr[o] = {}
          /\ Live(o) /\ (sent[o] > 0 \/ pc[o] = "writing") => op[o].writeStarted
          /\ {"unsent", "transport"} \cap op[o].deliveryErr # {} => err # {}
    /\ io.pc \in {"check", "inwrite"} => io.err = {}
    /\ "unsent" \in io.err => io.total = 0
    /\ "transport" \in io.err /\ io.total > 0 => "ambiguous" \in io.err
    /\ \A e \in WireErrors : "unsent" \in e => "transport" \in e

\* o keeps its message ID: as a pending record, or as a tombstone.
Files(o)  == id[o] \in IDs /\ pending[id[o]] = o
Buried(o) == id[o] \in IDs /\ tombstones[id[o]] = o

\* There is, or has been, a stream of o.
Streaming(o) == \/ op[o].observed \/ op[o].canceled \/ apc[o] # "none"
                \/ o \in watch \/ cons[o] # "none"

\* A stream exists once the write is known to be complete, a tombstone once the
\* operation is canceled; until then a live connection keeps the record.
StageInv ==
    /\ \A o \in Ops :
          /\ Streaming(o) => pc[o] \in {"observed", "open"}
          /\ pc[o] = "observed" => o \in NoResponse
          /\ err = {} /\ pc[o] \in {"queued", "starting", "writing", "written",
                                    "unsent"} => Files(o)
    /\ \A i \in IDs : tombstones[i] # None => op[tombstones[i]].canceled

\* The messages the peer has sent and route has not yet dealt with.
AtRoute == reader.pc \in {"route", "wait"}

InFlight == {inbox[k] : k \in DOMAIN inbox}
               \cup (IF AtRoute THEN {reader.msg} ELSE {})

\* A conforming peer answers complete requests that expect a response, each
\* under its ID, in order, with one terminal response, the last.
Answers(m) ==
    /\ m.for \in Ops
    /\ m.id = id[m.for]
    /\ Classify(m.for, m.kind) # "invalid"
    /\ m.n \in 1 .. replies[m.for]
    /\ m.kind = "terminal" => m.for \notin owed /\ m.n = replies[m.for]

AnswerInv ==
    /\ \A o \in Ops : o \in owed \/ replies[o] # 0 =>
          o \notin NoResponse /\ sent[o] = FrameLen
    /\ \A m \in InFlight : Answers(m)
    /\ \A k, l \in DOMAIN inbox : k < l /\ inbox[k].for = inbox[l].for
          => inbox[k].n < inbox[l].n
    /\ AtRoute => \A k \in DOMAIN inbox : inbox[k].for = reader.msg.for
          => reader.msg.n < inbox[k].n

\* A message ID stays with its operation while a response may come for it.
HeldInv ==
    /\ err = {} => \A o \in Ops :
          o \in owed \/ (\E m \in InFlight : m.for = o) => Files(o) \/ Buried(o)
    /\ \A o, q \in owed : id[o] = id[q] => o = q

\* How many responses of o its consumer has taken or can take at once.
Seen(o) == got[o] + Len(op[o].queue)

\* They come in the order sent and without a gap, and what has not come yet is
\* in flight.
Ordered(o) ==
    /\ \A k \in DOMAIN op[o].queue :
          op[o].queue[k].for = o /\ op[o].queue[k].n = got[o] + k
    /\ Seen(o) <= replies[o]

Complements(o) ==
    err = {} /\ ~op[o].canceled =>
        /\ \A m \in InFlight : m.for = o => m.n > Seen(o)
        /\ \A n \in Seen(o) + 1 .. replies[o] :
              \E m \in InFlight : m.for = o /\ m.n = n

\* A stream ends without an error only when all of them have come.
Delivered(o) ==
    /\ Ordered(o)
    /\ Complements(o)
    /\ op[o].terminal /\ op[o].deliveryErr = {} =>
          Seen(o) = replies[o] /\ o \notin owed
    /\ op[o].canceled => op[o].deliveryErr # {}
    /\ cons[o] = "eof" =>
          op[o].terminal /\ op[o].deliveryErr = {} /\ op[o].queue = <<>>

DeliveryInv == \A o \in Ops : Delivered(o)

\* All this as long as the peer has sent nothing unprompted.
ResponseInv ==
    StageInv /\ (strays = 0 => AnswerInv /\ HeldInv /\ DeliveryInv)

\* "Cancellation observed after that point must not erase an already-owned
\* result": once an operation completed normally, neither cancelOperation nor
\* retire changes what the consumer will read.
TerminalWins ==
    [][\A o \in Ops : op[o].terminal /\ op[o].deliveryErr = {}
        => /\ op'[o].deliveryErr = {}
           /\ \/ op'[o].queue = op[o].queue
              \/ got'[o] = got[o] + 1 /\ op'[o].queue = Tail(op[o].queue)]_vars

\* Nothing follows the Unbind on the wire.
SilentAfterUnbind ==
    [][(\E c \in Closers : tail = [who |-> Close(c), n |-> FrameLen])
        => tail' = tail]_vars

\* The queue of unsolicited notifications: its count and its bounds are
\* right, and a single NextUnsolicited caller never sleeps beside a message.
UnsolicitedServed ==
    /\ unsolBytes = SumSizes[unsolicited]
    /\ unsolBytes <= MaxUnsolicitedResponseBytes
    /\ Len(unsolicited) <= MaxUnsolicitedResponses
    /\ \A u \in Listeners : Listeners = {u} /\ ucons[u] = "wait"
            /\ unsolicited # <<>> => unsolReady

\* One error never says of one request both that it was definitely not sent
\* and that it may have been (ErrDefinitelyUnsent and ErrAmbiguousOutcome).
OneOutcome ==
    \A o \in Ops : ~({"unsent", "ambiguous"} \subseteq doErr[o])

\* A Do call whose context ends returns, whatever the transport does.
CancelReturns ==
    \A o \in Ops : (Do(o) \in ctxDone /\ pc[o] # "idle")
                        ~> (pc[o] \in {"open", "failed"})

\* Close ends the connection even if the Unbind cannot be written.
CloseRetires == closing ~> (err # {})

\* An operation that cancellation decided to abandon gives up its place in
\* bounded time: it is tombstoned, completed, or the connection is retired.
AbandonedEnds ==
    \A o \in Ops : op[o].abandoning ~> op[o].ended

\* What was decided is carried out, whatever the peer does: Close retires the
\* connection, and an operation that cancellation gave up gives up its ID.
DecisionsEnd == CloseRetires /\ AbandonedEnds

Quiet ==
    /\ \A o \in Ops : /\ pc[o] \in {"idle", "open", "failed"}
                      /\ apc[o] \in {"none", "done"}
                      /\ o \notin watch
    /\ \A c \in Closers : cpc[c] \in {"idle", "done"}
    /\ reader.pc = "stopped"
    /\ retiring = {}

\* Once the connection is retired every goroutine it started comes to its
\* end, and every Do and Close call returns.
RetiredQuiesces == (err # {}) ~> Quiet

\* "Never block the sole reader indefinitely": a reader that waits for a
\* request's write to be recorded goes on.
ReaderProgress == (reader.pc = "wait") ~> (reader.pc # "wait")

=============================================================================
