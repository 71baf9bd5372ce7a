------------------------------- MODULE Setup --------------------------------
(***************************************************************************)
(* From Dial to a ready connection (connection.go dial, bootstrap.go): the *)
(* transport is established, the connection authenticates (Auth), a        *)
(* caller's initializer runs, and only then is the connection published.   *)
(* Both talk to the server through one initializationSession, which a      *)
(* caller may retain and use from another goroutine (the escaped one).     *)
(*                                                                         *)
(* The connection itself is what IDTable says of it, plus the steps of     *)
(* Conn.do and of cancellation that setup can meet.                        *)
(***************************************************************************)
EXTENDS Auth

CONSTANTS
    MessageIDs,  \* the connection's message IDs
    MaxOps,      \* ConnectionOptions.MaxInitializationOperations
    Modes        \* cancellation modes of the initializer's operations

ASSUME SetupAssumption ==
    /\ MaxOps \in Nat \ {0}
    /\ Modes \subseteq {"drain", "abandon", "close"}

VARIABLES
    reserved, pending, tombstones, down,   \* the connection's IDs (IDTable)
    socket,      \* the transport: "none", "open" or "closed"
    state,       \* Conn.state
    killing,     \* a goroutine is about to retire the connection
    init,        \* where dial and initialize are
    active,      \* initializationSession.active
    operations,  \* initializationSession.operations
    streams,     \* initializationSession.streams
    lock,        \* the operation whose Do holds initializationSession.mu, or 0
    using,       \* the operation each goroutine is busy with, 0 if none
    do,          \* where each operation's Do call or stream is
    mode,        \* the operation's cancellation mode
    cut,         \* operations whose context is canceled
    dead,        \* operations whose delivery was ended by cancellation
    abandon,     \* where the sendAbandon goroutine of the operation is
    reply        \* the operation's terminal response

tableVars   == <<reserved, pending, tombstones, down>>
connVars    == <<tableVars, socket, state, killing>>
sessionVars == <<active, operations, streams, lock>>
opVars      == <<using, do, mode, cut, dead, abandon, reply>>

vars == <<authVars, ctxDone, connVars, init, sessionVars, opVars>>

Ops        == 1 .. MaxOps
Goroutines == {"setup", "escaped"}

Request(o) == <<"request", o>>
Abandon(o) == <<"abandon", o>>
Requesters == {Request(o) : o \in Ops} \cup {Abandon(o) : o \in Ops}

T == INSTANCE IDTable WITH IDs <- MessageIDs, Procs <- Requesters

Unanswered == Bind("none")

Init ==
    /\ AuthInit
    /\ T!Init
    /\ socket = "none"
    /\ state = "dialing"
    /\ killing = FALSE
    /\ init = "dial"
    /\ active = FALSE
    /\ operations = 0
    /\ streams = {}
    /\ lock = 0
    /\ using = [g \in Goroutines |-> 0]
    /\ do = [o \in Ops |-> "none"]
    /\ mode = [o \in Ops |-> "none"]
    /\ cut = {}
    /\ dead = {}
    /\ abandon = [o \in Ops |-> "none"]
    /\ reply = [o \in Ops |-> Unanswered]

Pending(o) == \E i \in MessageIDs : <<Request(o), i>> \in pending

\* tryReserveMessageIDLocked takes a free ID.  Which one does not matter here;
\* Conn has the rotation of nextID.
Reserve(p) ==
    LET free == {i \in MessageIDs : ~T!Used(i)} IN
    free # {} /\ T!Take(p, CHOOSE i \in free : TRUE)

\* scopeAllowedLocked for an initialization operation
ScopeAllowed == state \in {"authenticating", "initializing"}

\* len(reserved), len(pending) and len(tombstones) are all zero.
Idle == T!Held = {}

Retire ==
    IF down THEN UNCHANGED <<tableVars, state, socket>>
    ELSE T!Shutdown /\ state' = "closed" /\ socket' = "closed"

Goto(p) == init' = p

-----------------------------------------------------------------------------
(* dial *)

\* Validation or the TCP dial fails, or the dial succeeds.
DialTCP ==
    /\ init = "dial"
    /\ \/ Goto("failed") /\ UNCHANGED socket
       \/ Goto("handshake") /\ socket' = "open"
    /\ UNCHANGED <<authVars, ctxDone, tableVars, state, killing, sessionVars, opVars>>

\* The TLS handshake, if the endpoint has one, fails and the socket is
\* closed; or the connection is made and initialize begins.
Handshake ==
    /\ init = "handshake"
    /\ \/ Goto("failed") /\ socket' = "closed" /\ UNCHANGED <<state, active>>
       \/ /\ Goto("transport")
          /\ state' = "transportSetup"
          /\ active' = TRUE
          /\ UNCHANGED socket
    /\ UNCHANGED <<authVars, ctxDone, tableVars, killing, operations, streams, lock, opVars>>

-----------------------------------------------------------------------------
(* initialize *)

\* transition(to) on the way to p: refused once the connection has an error.
Transition(from, to, p) ==
    /\ init = from
    /\ IF down THEN Goto("failing") /\ UNCHANGED state
               ELSE Goto(p) /\ state' = to
    /\ UNCHANGED <<authVars, ctxDone, tableVars, socket, killing, sessionVars, opVars>>

StartAuth == Transition("transport", "authenticating", "auth")

\* d.authenticate runs.
Authenticating ==
    /\ init = "auth"
    /\ AuthStep
    /\ UNCHANGED <<ctxDone, connVars, init, sessionVars, opVars>>

\* authenticate returned; then the context and the identity are looked at.
AuthReturned ==
    /\ init = "auth" /\ auth = "over"
    /\ Goto(IF failed \/ ctxDone THEN "failing" ELSE "authIdle")
    /\ UNCHANGED <<authVars, ctxDone, connVars, sessionVars, opVars>>

\* requireInitializationIdle
RequireIdle(from, p) ==
    /\ init = from
    /\ Goto(IF down \/ ~Idle THEN "failing" ELSE p)
    /\ UNCHANGED <<authVars, ctxDone, connVars, sessionVars, opVars>>

StartInit == Transition("entering", "initializing", "initializer")

\* The initializer returns an error, a policy that does not validate, or its
\* profile, perhaps with a stream still open; then the context is looked at.
InitReturned ==
    /\ init = "initializer"
    /\ using["setup"] # 0 => do[using["setup"]] = "stream"
    /\ \/ Goto("failing")
       \/ ~ctxDone /\ Goto("initIdle")
    /\ using' = [using EXCEPT !["setup"] = 0]
    /\ UNCHANGED <<authVars, ctxDone, connVars, sessionVars, do, mode, cut, dead, abandon, reply>>

\* deactivate: waits for a Do that holds the lock, then releases every stream
\* the session still has, which cancels its operation's context.
Deactivate(p) ==
    /\ lock = 0
    /\ active' = FALSE
    /\ streams' = {}
    /\ cut' = cut \cup streams
    /\ Goto(p)
    /\ UNCHANGED <<authVars, ctxDone, connVars, operations, lock, using, do, mode, dead, abandon,
                   reply>>

CloseSession == init = "closing" /\ Deactivate("marking")

\* Mutant: the tables are not looked at again under the lock.
MarkReadyBlind ==
    /\ init = "marking"
    /\ IF down THEN Goto("failing") /\ UNCHANGED state
               ELSE Goto("published") /\ state' = "ready"
    /\ UNCHANGED <<authVars, ctxDone, tableVars, socket, killing, sessionVars, opVars>>

\* markReady looks at everything again in one critical section.
MarkReady ==
    /\ init = "marking"
    /\ IF down \/ ~Idle THEN Goto("failing") /\ UNCHANGED state
                        ELSE Goto("published") /\ state' = "ready"
    /\ UNCHANGED <<authVars, ctxDone, tableVars, socket, killing, sessionVars, opVars>>

\* initialize's deferred calls on success: the session is closed already.
Published ==
    /\ init = "published"
    /\ ctxDone' = TRUE
    /\ Goto("ready")
    /\ UNCHANGED <<authVars, connVars, sessionVars, opVars>>

\* Mutant: the connection of a failed setup is left alone.
FailingOpen ==
    \/ init = "failing" /\ Deactivate("canceling")
    \/ /\ init = "canceling"
       /\ ctxDone' = TRUE
       /\ Goto("failed")
       /\ UNCHANGED <<authVars, connVars, sessionVars, opVars>>

\* initialize's deferred calls on failure: deactivate, cancel, retire.
Failing ==
    \/ init = "failing" /\ Deactivate("canceling")
    \/ /\ init = "canceling"
       /\ ctxDone' = TRUE
       /\ Goto("retiring")
       /\ UNCHANGED <<authVars, connVars, sessionVars, opVars>>
    \/ /\ init = "retiring"
       /\ Retire
       /\ Goto("failed")
       /\ UNCHANGED <<authVars, ctxDone, killing, sessionVars, opVars>>

InitializeStep ==
    \/ DialTCP \/ Handshake \/ StartAuth \/ Authenticating \/ AuthReturned
    \/ RequireIdle("authIdle", "entering") \/ StartInit \/ InitReturned
    \/ RequireIdle("initIdle", "closing") \/ CloseSession \/ MarkReady
    \/ Published \/ Failing

-----------------------------------------------------------------------------
(* initializationSession.Do.  Its lock is held until Conn.do returns. *)

\* May g call Do now?  authenticate does to exchange a Bind, the initializer
\* when it likes, and so does a goroutine it gave the session to.
Calls(g) ==
    /\ using[g] = 0
    /\ IF g = "escaped"
       THEN \/ init \in {"initializer", "initIdle", "closing", "marking", "published"}
            \/ init = "failing" /\ state = "initializing"
       ELSE \/ init = "auth" /\ exchange.code = "asked"
            \/ init = "initializer"

\* Who is told that the operation of g failed.
Answer(g, r) ==
    IF g = "setup" /\ init = "auth" THEN Answered(r) ELSE UNCHANGED authVars

SessionDo(g, m) ==
    /\ Calls(g)
    /\ lock = 0
    /\ active /\ ~ctxDone /\ operations < MaxOps
    /\ m \in IF init = "auth" THEN {"close"} ELSE Modes
    /\ LET o == operations + 1 IN
       /\ operations' = o
       /\ lock' = o
       /\ using' = [using EXCEPT ![g] = o]
       /\ do' = [do EXCEPT ![o] = "reserving"]
       /\ mode' = [mode EXCEPT ![o] = m]
    /\ UNCHANGED <<authVars, ctxDone, connVars, init, active, streams, cut, dead, abandon, reply>>

\* ErrInitializationClosed, the setup context's error, or the LimitError; the
\* initializer gives up, which InitReturned covers.
SessionRefuses ==
    /\ Calls("setup") /\ init = "auth"
    /\ lock = 0
    /\ ~active \/ ctxDone \/ operations = MaxOps
    /\ Answered(Bind("error"))
    /\ UNCHANGED <<ctxDone, connVars, init, sessionVars, opVars>>

User(o) == CHOOSE g \in Goroutines : using[g] = o

\* Do returns an error to its caller, and nothing of the operation remains.
DoFails(o) ==
    /\ lock' = 0
    /\ do' = [do EXCEPT ![o] = "over"]
    /\ mode' = [mode EXCEPT ![o] = "none"]
    /\ cut' = cut \ {o}
    /\ using' = [using EXCEPT ![User(o)] = 0]
    /\ Answer(User(o), Bind("error"))
    /\ UNCHANGED <<ctxDone, killing, init, active, operations, streams, dead, abandon, reply>>

\* reserveMessageID takes an ID, or fails after waiting for one.
DoReserve(o) ==
    /\ do[o] = "reserving"
    /\ \/ /\ ScopeAllowed
          /\ Reserve(Request(o))
          /\ do' = [do EXCEPT ![o] = "installing"]
          /\ UNCHANGED <<authVars, ctxDone, socket, state, killing, init, sessionVars, using,
                         mode, cut, dead, abandon, reply>>
       \/ /\ o \in cut \/ down \/ ~ScopeAllowed
          /\ DoFails(o)
          /\ UNCHANGED <<tableVars, socket, state>>

\* installPending, unless the request does not encode, the context is done or
\* the connection has ended.
DoInstall(o) ==
    /\ do[o] = "installing"
    /\ \/ /\ o \notin cut
          /\ ScopeAllowed
          /\ \E i \in MessageIDs : T!File(Request(o), i)
          /\ do' = [do EXCEPT ![o] = "writing"]
          /\ UNCHANGED <<authVars, ctxDone, socket, state, killing, init, sessionVars, using,
                         mode, cut, dead, abandon, reply>>
       \/ /\ IF down THEN UNCHANGED tableVars
             ELSE \E i \in MessageIDs : T!Release(Request(o), i)
          /\ DoFails(o)
          /\ UNCHANGED <<socket, state>>

\* The request is written and the session keeps its stream.
DoWritten(o) ==
    /\ do[o] = "writing"
    /\ Pending(o)
    /\ do' = [do EXCEPT ![o] = "stream"]
    /\ streams' = streams \cup {o}
    /\ lock' = 0
    /\ UNCHANGED <<authVars, ctxDone, connVars, init, active, operations, using, mode, cut, dead,
                   abandon, reply>>

\* The write fails: nothing was sent and the ID is freed, or part of the
\* request may have left and the connection is retired first.
DoWriteFails(o) ==
    /\ do[o] = "writing"
    /\ o \in cut \/ down
    /\ \/ /\ \E i \in MessageIDs : T!Complete(Request(o), i)
          /\ UNCHANGED <<socket, state>>
       \/ Retire
    /\ DoFails(o)

-----------------------------------------------------------------------------
(* The connection under an initialization operation *)

\* The terminal response of a Bind or of another operation arrives.
Respond(o, r) ==
    /\ do[o] \in {"stream", "closing", "left", "over"}
    /\ \E i \in MessageIDs : T!Complete(Request(o), i)
    /\ reply' = IF o \in dead THEN reply ELSE [reply EXCEPT ![o] = r]
    /\ UNCHANGED <<authVars, ctxDone, socket, state, killing, init, sessionVars, using, do, mode,
                   cut, dead, abandon>>

\* cancelOperation, for an operation the response has not completed
CancelOperation(o) ==
    IF ~Pending(o) THEN UNCHANGED <<dead, abandon, killing>>
    ELSE /\ dead' = dead \cup {o}
         /\ abandon' = IF mode[o] = "abandon" /\ abandon[o] = "none"
                       THEN [abandon EXCEPT ![o] = "spawned"] ELSE abandon
         /\ killing' = (killing \/ mode[o] = "close")

\* Mutant: the operation's context does not follow the setup context.
SetupCanceledNot(o) ==
    /\ ctxDone /\ o \notin cut /\ o \in streams
    /\ cut' = cut \cup {o}
    /\ UNCHANGED <<authVars, ctxDone, connVars, init, sessionVars, using, do, mode, dead, abandon,
                   reply>>

\* The context of the operation ends with the setup context (AfterFunc).
SetupCanceled(o) ==
    /\ ctxDone
    /\ o \notin cut
    /\ lock = o \/ o \in streams
    /\ cut' = cut \cup {o}
    /\ UNCHANGED <<authVars, ctxDone, connVars, init, sessionVars, using, do, mode, dead, abandon,
                   reply>>

\* watchOperation
Watch(o) ==
    /\ o \in cut \ dead
    /\ do[o] \notin {"reserving", "installing", "writing"}
    /\ Pending(o)
    /\ CancelOperation(o)
    /\ UNCHANGED <<authVars, ctxDone, tableVars, socket, state, init, sessionVars, using, do, mode,
                   cut, reply>>

\* sendAbandon: reserve an ID, bury the target's, write, release.
AbandonReserve(o) ==
    /\ abandon[o] = "spawned"
    /\ IF ~Pending(o)
       THEN abandon' = [abandon EXCEPT ![o] = "done"] /\ UNCHANGED <<tableVars, killing>>
       ELSE \/ /\ Reserve(Abandon(o))
               /\ abandon' = [abandon EXCEPT ![o] = "reserved"]
               /\ UNCHANGED killing
            \/ /\ \A i \in MessageIDs : T!Used(i)
               /\ abandon' = [abandon EXCEPT ![o] = "done"]
               /\ killing' = TRUE
               /\ UNCHANGED tableVars
    /\ UNCHANGED <<authVars, ctxDone, socket, state, init, sessionVars, using, do, mode, cut, dead,
                   reply>>

\* The ID of the Abandon goes back, if the connection still has it.
AbandonReleases(o, kill) ==
    /\ IF down THEN UNCHANGED tableVars
       ELSE \E i \in MessageIDs : T!Release(Abandon(o), i)
    /\ abandon' = [abandon EXCEPT ![o] = "done"]
    /\ killing' = (killing \/ kill)

AbandonBury(o) ==
    /\ abandon[o] = "reserved"
    /\ \/ /\ \E i \in MessageIDs : T!Bury(Request(o), i)
          /\ abandon' = [abandon EXCEPT ![o] = "buried"]
          /\ UNCHANGED killing
       \/ ~Pending(o) /\ AbandonReleases(o, FALSE)
       \/ AbandonReleases(o, TRUE)  \* no writer within CancellationWriteTimeout
    /\ UNCHANGED <<authVars, ctxDone, socket, state, init, sessionVars, using, do, mode, cut, dead,
                   reply>>

AbandonWritten(o) ==
    /\ abandon[o] = "buried"
    /\ \E kill \in BOOLEAN : AbandonReleases(o, kill)
    /\ UNCHANGED <<authVars, ctxDone, socket, state, init, sessionVars, using, do, mode, cut, dead,
                   reply>>

\* A goroutine that decided to retire the connection does it.
Kill ==
    /\ killing
    /\ killing' = FALSE
    /\ Retire
    /\ UNCHANGED <<authVars, ctxDone, init, sessionVars, opVars>>

\* The reader meets the end of the stream or a protocol error.
ReaderFails ==
    /\ state \notin {"dialing", "closed"}
    /\ Retire
    /\ UNCHANGED <<authVars, ctxDone, killing, init, sessionVars, opVars>>

-----------------------------------------------------------------------------
(* initializationStream *)

\* release: forget the stream and cancel its operation's context.
Released(o) == lock = 0 /\ streams' = streams \ {o} /\ cut' = cut \cup {o}

\* Next returns the terminal response, and releases the stream on the way.
\* A Bind result may still be refused by the decoder.
StreamNext(g) ==
    LET o == using[g] IN
    /\ o # 0 /\ do[o] = "stream"
    /\ reply[o] # Unanswered
    /\ Released(o)
    /\ do' = [do EXCEPT ![o] = "over"]
    /\ mode' = [mode EXCEPT ![o] = "none"]
    /\ reply' = [reply EXCEPT ![o] = Unanswered]
    /\ using' = [using EXCEPT ![g] = 0]
    /\ Answer(g, reply[o]) \/ (g = "setup" /\ init = "auth" /\ Answer(g, Bind("error")))
    /\ UNCHANGED <<ctxDone, connVars, init, active, operations, lock, dead, abandon>>

\* Next returns an error, and the stream stays with the session.
StreamFails(g) ==
    LET o == using[g] IN
    /\ o # 0 /\ do[o] = "stream"
    /\ o \in dead \/ down \/ ctxDone
    /\ do' = [do EXCEPT ![o] = "left"]
    /\ using' = [using EXCEPT ![g] = 0]
    /\ Answer(g, Bind("error"))
    /\ UNCHANGED <<ctxDone, connVars, init, sessionVars, mode, cut, dead, abandon, reply>>

\* The initializer closes a stream early: cancel, then release.
StreamClose ==
    LET o == using["setup"] IN
    /\ init = "initializer"
    /\ o # 0 /\ do[o] = "stream"
    /\ CancelOperation(o)
    /\ do' = [do EXCEPT ![o] = "closing"]
    /\ UNCHANGED <<authVars, ctxDone, tableVars, socket, state, init, sessionVars, using, mode, cut,
                   reply>>

StreamClosed ==
    LET o == using["setup"] IN
    /\ o # 0 /\ do[o] = "closing"
    /\ Released(o)
    /\ do' = [do EXCEPT ![o] = "over"]
    /\ using' = [using EXCEPT !["setup"] = 0]
    /\ UNCHANGED <<authVars, ctxDone, connVars, init, active, operations, lock, mode, dead, abandon,
                   reply>>

-----------------------------------------------------------------------------
\* InitializationTimeout passes or the caller's context ends.
SetupTimeout ==
    /\ init \notin {"dial", "handshake", "ready", "failed"}
    /\ ~ctxDone
    /\ ctxDone' = TRUE
    /\ UNCHANGED <<authVars, connVars, init, sessionVars, opVars>>

CallStep(o) ==
    \/ DoReserve(o) \/ DoInstall(o) \/ DoWriteFails(o)
    \/ SetupCanceled(o) \/ Watch(o)
    \/ AbandonReserve(o) \/ AbandonBury(o) \/ AbandonWritten(o)

StreamStep == (\E g \in Goroutines : StreamNext(g) \/ StreamFails(g)) \/ StreamClosed

BindStep == SessionRefuses \/ (init = "auth" /\ SessionDo("setup", "close"))

PeerStep(o) ==
    \/ DoWritten(o)
    \/ \E r \in Response :
          /\ mode[o] # "close" => r = [code |-> "success", creds |-> FALSE]
          /\ Respond(o, r)

Next ==
    \/ InitializeStep
    \/ \E g \in Goroutines, m \in {"drain", "abandon", "close"} : SessionDo(g, m)
    \/ SessionRefuses
    \/ \E o \in Ops : CallStep(o) \/ PeerStep(o)
    \/ StreamStep \/ StreamClose
    \/ Kill \/ ReaderFails \/ SetupTimeout

Spec == Init /\ [][Next]_vars

\* The goroutines of setup run, the library's calls and the initializer
\* return, and InitializationTimeout passes.  Nothing is assumed of the peer,
\* which may never read or answer.
Fairness ==
    /\ WF_vars(InitializeStep)
    /\ WF_vars(BindStep)
    /\ WF_vars(StreamStep)
    /\ \A o \in Ops : WF_vars(CallStep(o))
    /\ WF_vars(Kill)
    /\ WF_vars(SetupTimeout)

FairSpec == Spec /\ Fairness

-----------------------------------------------------------------------------
(* Properties *)

\* What markReady publishes is clean: no message ID is in use, no operation
\* of the session is on its way to the wire, none can start, and nothing of a
\* cancellation is still to be written, so an application operation can not
\* meet an answer meant for setup; and authentication succeeded.
ReadyClean ==
    state = "ready" =>
        /\ Idle
        /\ ~active /\ lock = 0
        /\ \A o \in Ops : /\ do[o] \notin {"reserving", "installing", "writing"}
                          /\ abandon[o] \notin {"reserved", "buried"}
        /\ auth = "over" /\ ~failed /\ identity

\* A setup that failed, at whatever step and with whatever still running in a
\* retained session, leaves nothing open: the socket is closed, the session
\* is dead, the connection was never ready, and every GSSAPI handle is freed.
FailsClosed ==
    init = "failed" =>
        /\ socket # "open"
        /\ ~active
        /\ state # "ready"
        /\ \A h \in got : freed[h] = 1

\* Dial and Bootstrap return, with a server that accepts the connection and
\* never answers, and even while an escaped goroutine sits in the session's
\* Do holding its lock; and so does that Do.
SetupReturns ==
    /\ <>(init \in {"ready", "failed"})
    /\ \A o \in Ops : (lock = o) ~> (lock # o)

=============================================================================
