------------------------------- MODULE Trace --------------------------------
(***************************************************************************)
(* What Conn tells an operation's observer (trace.go), as a history beside *)
(* the connection's own steps.  Events are sent to a buffered channel, some *)
(* of them by the reader and under Conn.mu, while the goroutine that       *)
(* drains it calls hooks of the program and may be held up for ever: a     *)
(* send that found the channel full would stop the connection.             *)
(***************************************************************************)
EXTENDS Conn

VARIABLE events  \* all that was sent to each operation's observer, in order

TraceBuffer == 8

TraceInit == Init /\ events = [o \in Ops |-> <<>>]

\* installPending refuses after the observer was started.
Refused(o) ==
    /\ pc[o] = "reserved" /\ pc'[o] = "failed"
    /\ Refusal(o) # {} /\ doErr'[o] = Refusal(o)

\* Do gets to TraceQueued, or past the write to TraceWritten.
Queued(o)  == pc[o] = "reserved" /\ (pc'[o] = "queued" \/ Refused(o))
Written(o) == pc[o] = "written" /\ pc'[o] # "written"

\* route accepts a response for o.
Responded(o) ==
    /\ reader.pc = "route" /\ reader'.pc # "route"
    /\ reader.msg.id \in IDs
    /\ pending[reader.msg.id] = o
    /\ op[o].observed
    /\ Classify(o, reader.msg.kind) # "invalid"

HasEvent(o, k) == \E n \in 1..Len(events[o]) : events[o][n] = k

\* Mutant: every response is reported as the first.
FirstResponseAgain(o) == Responded(o)

FirstResponse(o) == Responded(o) /\ ~HasEvent(o, "firstResponse")

\* cancelOperation reports the first reason; an overflow in route does not.
CancelReported(o) == op'[o].canceled /\ ~op[o].canceled /\ ~Responded(o)

RetiredPending(o) == err = {} /\ err' # {} /\ Live(o)

\* finishLifecycle, once, or observer.end after a refusal
Ends(o) == Refused(o) \/ (op'[o].ended /\ ~op[o].ended)

When(happens, k) == IF happens THEN <<k>> ELSE <<>>

\* The events one step of the connection sends for o, in the code's order.
Sends(o) ==
    When(Queued(o), "queued") \o When(Written(o), "written")
        \o When(FirstResponse(o), "firstResponse")
        \o When(CancelReported(o), "canceled")
        \o When(RetiredPending(o), "retired") \o When(Ends(o), "end")

TraceNext == Next /\ events' = [o \in Ops |-> events[o] \o Sends(o)]

TraceSpec     == TraceInit /\ [][TraceNext]_<<vars, events>>
FairTraceSpec == TraceSpec /\ Fairness

-----------------------------------------------------------------------------
(* Property *)

\* The trace of an operation is whole, in every interleaving of Do, the
\* reader, cancellation and retirement: it starts with queued, no event comes
\* twice, the first response is never reported before the write, and end is
\* sent exactly when the operation has left Conn.pending, with nothing after
\* it but a write that lost the race with retirement.  So the channel's
\* buffer is never full, even if nobody drains it.
TraceWhole ==
    \A o \in Ops :
        LET E == events[o] IN
        /\ Len(E) < TraceBuffer
        /\ \A m, n \in 1..Len(E) : E[m] = E[n] => m = n
        /\ E # <<>> => E[1] = "queued"
        /\ \A n \in 1..Len(E) :
              /\ E[n] \in {"firstResponse", "canceled"} => \E m \in 1..n : E[m] = "written"
              /\ (\E m \in 1..(n - 1) : E[m] = "end") => E[n] = "written"
        /\ HasEvent(o, "end") <=> (E # <<>> /\ ~Live(o))

=============================================================================
