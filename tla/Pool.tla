-------------------------------- MODULE Pool --------------------------------
(***************************************************************************)
(* The connection pool of pool/pool.go and pool/lease.go: endpoints, the   *)
(* connections to each, bounded admission, leases, replacement, retirement *)
(* by age, and shutdown.                                                   *)
(*                                                                         *)
(* Every critical section of Pool.mu is one action; dialing and closing a  *)
(* connection happen outside it.  A connection is what Conn promises: up   *)
(* until it fails or is closed, and when it is down every operation on it  *)
(* has ended.  Times are abstract: a dial backoff has passed or has not.   *)
(***************************************************************************)
EXTENDS Integers, Sequences, FiniteSets

CONSTANTS
    Endpoints,   \* the configured endpoints
    Conns,       \* bound: the connections there can ever be
    Ops,         \* the calls of Pool.Do
    Leases,      \* the calls of Pool.Lease
    LeaseOps,    \* the calls of Lease.Do
    Closers,     \* the callers of CloseContext
    Via,         \* [LeaseOps -> Leases]
    Exact,       \* [Ops \cup Leases -> Endpoints \cup {None}], None is Any()
    None,
    MaxConnectionsPerEndpoint,
    MaxInFlightPerConnection,
    MaxWaiters,
    Cancels,     \* the processes whose context may end
    Readers,     \* the operations whose consumer reads to EOF
    Fragile,     \* the connections that may fail on their own
    Ageing       \* the connections that may outlive their lifetimes

Callers == Ops \cup Leases
Procs   == Callers \cup LeaseOps

ASSUME PoolAssumption ==
    /\ None \notin Endpoints \cup Conns \cup Closers
    /\ Ops \cap Leases = {} /\ LeaseOps \cap Callers = {}
    /\ Closers \cap Procs = {}
    /\ Via \in [LeaseOps -> Leases]
    /\ Exact \in [Callers -> Endpoints \cup {None}]
    /\ MaxConnectionsPerEndpoint \in Nat \ {0}
    /\ MaxInFlightPerConnection \in Nat \ {0}
    /\ MaxWaiters \in Nat \ {0}
    /\ Cancels \subseteq Procs \cup Closers
    /\ Readers \subseteq Ops \cup LeaseOps
    /\ Fragile \subseteq Conns /\ Ageing \subseteq Conns
    /\ Cardinality(Conns) >= Cardinality(Endpoints)

VARIABLES
    closing,     \* Pool.closing; the pool's context ends with it
    closed,      \* Pool.closed
    closeMu,     \* who holds Pool.closeMu, or None
    waiters,     \* Pool.waiters
    exactWaiters,\* endpointState.waiters
    registered,  \* processes whose registeredWaiter is set
    sleeping,    \* processes asleep on the current Pool.changed channel
    armed,       \* processes whose sleep has a timer
    dialing,     \* endpointState.dialing
    backoff,     \* is endpointState.nextDial still to come?
    replacing,   \* endpointState.replacing
    conns,       \* endpointState.connections
    conn,        \* the pooledConnection records
    closeSoon,   \* connections some goroutine is about to close
    pc,          \* where each Do, Lease and Lease.Do call is
    on,          \* the connection it was given or has dialed
    target,      \* the endpoint it dials
    ended,       \* operations whose lifecycle is done
    calls,       \* calls of releaseOnce that have been made
    leaseClosed, \* leases with Lease.closed
    leaseFlight, \* Lease.inFlight
    wpc,         \* the watchConnection goroutines
    rpc,         \* the replace goroutine of each endpoint
    rconn,       \* the connection it has dialed
    maint,       \* the maintain goroutine
    kpc,         \* where each CloseContext call is
    toClose,     \* the connections it has still to close
    ctxDone      \* processes whose context is done

poolVars  == <<closing, closed, closeMu>>
waitVars  == <<waiters, exactWaiters, registered, sleeping, armed>>
dialVars  == <<dialing, backoff>>
connVars  == <<conns, conn, closeSoon>>
procVars  == <<pc, on, target>>
opVars    == <<ended, calls>>
leaseVars == <<leaseClosed, leaseFlight>>
replVars  == <<replacing, rpc, rconn>>
closeVars == <<kpc, toClose>>

vars == <<poolVars, waitVars, dialVars, connVars, procVars, opVars, leaseVars,
          replVars, wpc, maint, closeVars, ctxDone>>

-----------------------------------------------------------------------------
(***************************************************************************)
(* Connections and endpoints.                                              *)
(***************************************************************************)
\* A pooledConnection; "at" is None until it has been dialed, and "up" says
\* that the Done channel of the connection is open.
NoConn == [at |-> None, up |-> FALSE, inFlight |-> 0, leased |-> FALSE,
           draining |-> FALSE, broken |-> FALSE, retiring |-> FALSE]

Dialed(e) == [NoConn EXCEPT !.at = e, !.up = TRUE]

Fresh == {c \in Conns : conn[c].at = None}

Listed(e) == {conns[e][k] : k \in DOMAIN conns[e]}

AllListed == UNION {Listed(e) : e \in Endpoints}

\* the list without the first c in it
Without(s, c) ==
    IF \A k \in DOMAIN s : s[k] # c THEN s
    ELSE LET i == CHOOSE k \in DOMAIN s : s[k] = c /\ \A j \in 1..(k - 1) : s[j] # c
         IN SubSeq(s, 1, i - 1) \o SubSeq(s, i + 1, Len(s))

\* neither broken nor draining
LiveConns(e) == {c \in Listed(e) : ~conn[c].broken /\ ~conn[c].draining}

\* New: one connection per endpoint, watched, and maintain running.
Init ==
    /\ closing = FALSE /\ closed = FALSE /\ closeMu = None
    /\ waiters = 0 /\ exactWaiters = [e \in Endpoints |-> 0]
    /\ registered = {} /\ sleeping = {} /\ armed = {}
    /\ dialing = [e \in Endpoints |-> 0]
    /\ backoff = [e \in Endpoints |-> FALSE]
    /\ \E first \in [Endpoints -> Conns] :
          /\ \A e, f \in Endpoints : first[e] = first[f] => e = f
          /\ conns = [e \in Endpoints |-> <<first[e]>>]
          /\ conn = [c \in Conns |-> IF \E e \in Endpoints : first[e] = c
                                     THEN Dialed(CHOOSE e \in Endpoints : first[e] = c)
                                     ELSE NoConn]
          /\ wpc = [c \in Conns |-> IF \E e \in Endpoints : first[e] = c
                                    THEN "running" ELSE "none"]
    /\ closeSoon = {}
    /\ pc = [p \in Procs |-> "idle"]
    /\ on = [p \in Procs |-> None]
    /\ target = [p \in Procs |-> None]
    /\ ended = {} /\ calls = {}
    /\ leaseClosed = {} /\ leaseFlight = [l \in Leases |-> 0]
    /\ replacing = [e \in Endpoints |-> FALSE]
    /\ rpc = [e \in Endpoints |-> "off"]
    /\ rconn = [e \in Endpoints |-> None]
    /\ maint = [pc |-> "idle", close |-> {}, replace |-> {}]
    /\ kpc = [k \in Closers |-> "idle"]
    /\ toClose = [k \in Closers |-> {}]
    /\ ctxDone = {}

\* removeConnectionIfUnusedLocked, given the connection's new record r
Unlisted(r, c) ==
    IF r.inFlight # 0 \/ r.leased \/ (~r.broken /\ ~r.retiring) THEN conns
    ELSE [conns EXCEPT ![r.at] = Without(@, c)]

\* signalLocked: everyone asleep is woken.
Signal == sleeping' = {}

\* Conn.Close, or Conn.CloseContext
CloseConn(c) == conn' = [conn EXCEPT ![c].up = FALSE]

-----------------------------------------------------------------------------
(***************************************************************************)
(* acquire.                                                                *)
(***************************************************************************)
Scope(a) == IF Exact[a] = None THEN Endpoints ELSE {Exact[a]}

\* Mutant of Usable: leases are not checked.
UsableShared(a, c) ==
    /\ ~conn[c].broken /\ ~conn[c].draining
    /\ IF a \in Leases THEN conn[c].inFlight = 0
                       ELSE conn[c].inFlight < MaxInFlightPerConnection

Usable(a, c) ==
    /\ ~conn[c].broken /\ ~conn[c].draining /\ ~conn[c].leased
    /\ IF a \in Leases THEN conn[c].inFlight = 0
                       ELSE conn[c].inFlight < MaxInFlightPerConnection

\* selectConnectionLocked: the least loaded.  Any of them: the rotation by
\* selectionSeq is left out.
Selectable(a) ==
    LET u == {c \in UNION {Listed(e) : e \in Scope(a)} : Usable(a, c)} IN
    {c \in u : \A d \in u : conn[c].inFlight <= conn[d].inFlight}

Load(e) == dialing[e] + Cardinality(LiveConns(e))

Room(a) == {e \in Scope(a) : Load(e) < MaxConnectionsPerEndpoint}

\* selectDialEndpointLocked
Dialable(a) ==
    LET u == {e \in Room(a) : ~backoff[e]} IN
    {e \in u : \A f \in u : Load(e) <= Load(f)}

\* unregisterWaiterLocked
Unregister(p) ==
    LET exact == IF p \in Callers THEN Exact[p] ELSE None IN
    /\ waiters' = IF p \in registered THEN waiters - 1 ELSE waiters
    /\ exactWaiters' = [e \in Endpoints |->
          IF p \in registered /\ e = exact THEN exactWaiters[e] - 1
                                           ELSE exactWaiters[e]]
    /\ registered' = registered \ {p}

\* Not registered yet and no room in the queue: the call fails.  Otherwise it
\* is registered and sleeps.
Enqueue(p, timer) ==
    LET exact == IF p \in Callers THEN Exact[p] ELSE None
        new   == p \notin registered
    IN IF new /\ waiters = MaxWaiters
       THEN /\ pc' = [pc EXCEPT ![p] = "failed"]
            /\ UNCHANGED waitVars
       ELSE /\ pc' = [pc EXCEPT ![p] = "asleep"]
            /\ waiters' = IF new THEN waiters + 1 ELSE waiters
            /\ exactWaiters' = [e \in Endpoints |->
                  IF new /\ e = exact THEN exactWaiters[e] + 1
                                      ELSE exactWaiters[e]]
            /\ registered' = registered \cup {p}
            /\ sleeping' = sleeping \cup {p}
            /\ armed' = IF timer THEN armed \cup {p} ELSE armed \ {p}

\* One pass of acquire's loop, up to the point where the lock is released.
Acquire(a) ==
    /\ pc[a] \in {"idle", "loop"}
    /\ \/ /\ closing
          /\ Unregister(a)
          /\ pc' = [pc EXCEPT ![a] = "failed"]
          /\ UNCHANGED <<sleeping, armed, dialing, conn, on, target>>
       \/ /\ ~closing
          /\ \E c \in Selectable(a) :
                /\ conn' = IF a \in Leases
                           THEN [conn EXCEPT ![c].leased = TRUE]
                           ELSE [conn EXCEPT ![c].inFlight = @ + 1]
                /\ on' = [on EXCEPT ![a] = c]
          /\ Unregister(a)
          /\ pc' = [pc EXCEPT ![a] = "held"]
          /\ UNCHANGED <<sleeping, armed, dialing, target>>
       \/ /\ ~closing /\ Selectable(a) = {}
          /\ \E e \in Dialable(a) :
                /\ dialing' = [dialing EXCEPT ![e] = @ + 1]
                /\ target' = [target EXCEPT ![a] = e]
          /\ pc' = [pc EXCEPT ![a] = "dialing"]
          /\ Signal
          /\ UNCHANGED <<waiters, exactWaiters, registered, armed, conn, on>>
       \/ /\ ~closing /\ Selectable(a) = {} /\ Dialable(a) = {}
          /\ Enqueue(a, Room(a) # {})
          /\ UNCHANGED <<dialing, conn, on, target>>
    /\ UNCHANGED <<poolVars, backoff, conns, closeSoon, opVars, leaseVars,
                   replVars, wpc, maint, closeVars, ctxDone>>

\* Mutant of WaitEnds: the caller's context is not looked at.
WaitEndsOnClose(p) ==
    /\ pc[p] = "asleep" /\ closing
    /\ Unregister(p)
    /\ pc' = [pc EXCEPT ![p] = "failed"]
    /\ sleeping' = sleeping \ {p}
    /\ armed' = armed \ {p}
    /\ UNCHANGED <<poolVars, dialVars, connVars, on, target, opVars, leaseVars,
                   replVars, wpc, maint, closeVars, ctxDone>>

\* The select at the end of acquire's loop and of acquireOperation's: the
\* call's context or the pool's is done, or there is a reason to look again.
WaitEnds(p) ==
    /\ pc[p] = "asleep" /\ (p \in ctxDone \/ closing)
    /\ Unregister(p)
    /\ pc' = [pc EXCEPT ![p] = "failed"]
    /\ sleeping' = sleeping \ {p}
    /\ armed' = armed \ {p}
    /\ UNCHANGED <<poolVars, dialVars, connVars, on, target, opVars, leaseVars,
                   replVars, wpc, maint, closeVars, ctxDone>>

Wake(p) ==
    /\ pc[p] = "asleep"
    /\ \/ p \notin sleeping
       \/ p \in Callers /\ p \in armed /\ \E e \in Scope(p) : ~backoff[e]
       \/ p \in LeaseOps /\ ~conn[on[Via[p]]].up
    /\ pc' = [pc EXCEPT ![p] = "loop"]
    /\ sleeping' = sleeping \ {p}
    /\ armed' = armed \ {p}
    /\ UNCHANGED <<poolVars, waiters, exactWaiters, registered, dialVars,
                   connVars, on, target, opVars, leaseVars, replVars, wpc, maint,
                   closeVars, ctxDone>>

\* dialEndpoint returns to its caller, who takes the lock: a new connection
\* joins the pool, or is to be thrown away because the pool is closing, or
\* there is none and the endpoint backs off.
DialEnds(e, c, ok) ==
    /\ dialing' = [dialing EXCEPT ![e] = @ - 1]
    /\ Signal
    /\ IF ok THEN /\ c \in Fresh
                  /\ conn' = [conn EXCEPT ![c] =
                                [Dialed(e) EXCEPT !.retiring = closing]]
                  /\ conns' = IF closing THEN conns
                              ELSE [conns EXCEPT ![e] = Append(@, c)]
                  /\ backoff' = IF closing THEN backoff
                                ELSE [backoff EXCEPT ![e] = FALSE]
             ELSE /\ backoff' = [backoff EXCEPT ![e] = TRUE]
                  /\ UNCHANGED <<conns, conn>>

\* Mutant of AcquireDialed: closing is not looked at again after the dial.
AcquireDialedAnyway(a) ==
    /\ pc[a] = "dialing"
    /\ \/ \E c \in Conns :
             /\ DialEnds(target[a], c, TRUE)
             /\ on' = [on EXCEPT ![a] = c]
             /\ target' = [target EXCEPT ![a] = None]
             /\ pc' = [pc EXCEPT ![a] = "watch"]
       \/ /\ DialEnds(target[a], None, FALSE)
          /\ pc' = [pc EXCEPT ![a] = "replace"]
          /\ UNCHANGED <<on, target>>
    /\ UNCHANGED <<poolVars, waiters, exactWaiters, registered, armed, closeSoon,
                   opVars, leaseVars, replVars, wpc, maint, closeVars, ctxDone>>

AcquireDialed(a) ==
    /\ pc[a] = "dialing"
    /\ \/ \E c \in Conns :
             /\ DialEnds(target[a], c, TRUE)
             /\ on' = [on EXCEPT ![a] = c]
             /\ target' = [target EXCEPT ![a] = None]
             /\ pc' = [pc EXCEPT ![a] = IF closing THEN "discard" ELSE "watch"]
       \/ /\ DialEnds(target[a], None, FALSE)
          /\ pc' = [pc EXCEPT ![a] = "replace"]
          /\ UNCHANGED <<on, target>>
    /\ UNCHANGED <<poolVars, waiters, exactWaiters, registered, armed, closeSoon,
                   opVars, leaseVars, replVars, wpc, maint, closeVars,
                   ctxDone>>

\* watchConnection, then around the loop
AcquireWatch(a) ==
    /\ pc[a] = "watch"
    /\ wpc' = [wpc EXCEPT ![on[a]] = "running"]
    /\ on' = [on EXCEPT ![a] = None]
    /\ pc' = [pc EXCEPT ![a] = "loop"]
    /\ UNCHANGED <<poolVars, waitVars, dialVars, connVars, target, opVars,
                   leaseVars, replVars, maint, closeVars, ctxDone>>

AcquireDiscard(a) ==
    /\ pc[a] = "discard"
    /\ CloseConn(on[a])
    /\ on' = [on EXCEPT ![a] = None]
    /\ pc' = [pc EXCEPT ![a] = "failed"]
    /\ UNCHANGED <<poolVars, waitVars, dialVars, conns, closeSoon, target, opVars,
                   leaseVars, replVars, wpc, maint, closeVars, ctxDone>>

\* startReplacement
StartReplacement(e) ==
    IF closing \/ replacing[e] \/ LiveConns(e) # {}
    THEN UNCHANGED <<replacing, rpc>>
    ELSE /\ replacing' = [replacing EXCEPT ![e] = TRUE]
         /\ rpc' = [rpc EXCEPT ![e] = "loop"]

\* After a failed dial.
AcquireReplace(a) ==
    /\ pc[a] = "replace"
    /\ StartReplacement(target[a])
    /\ pc' = [pc EXCEPT ![a] = IF a \in ctxDone \/ Exact[a] # None
                               THEN "failed" ELSE "loop"]
    /\ target' = [target EXCEPT ![a] = None]
    /\ UNCHANGED <<poolVars, waitVars, dialVars, connVars, on, opVars,
                   leaseVars, rconn, wpc, maint, closeVars, ctxDone>>

-----------------------------------------------------------------------------
(***************************************************************************)
(* Operations: from the capacity acquire gave them to its release.         *)
(***************************************************************************)
\* Mutant of Settle: no signal.
SettleSilently(c, r, retire) ==
    LET s == IF retire THEN [r EXCEPT !.retiring = TRUE] ELSE r IN
    /\ conn' = [conn EXCEPT ![c] = s]
    /\ closeSoon' = IF retire THEN closeSoon \cup {c} ELSE closeSoon
    /\ conns' = Unlisted(s, c)
    /\ UNCHANGED sleeping

\* What every release ends with: r is the connection's new record, and retire
\* says that a goroutine is started to close it.
Settle(c, r, retire) ==
    LET s == IF retire THEN [r EXCEPT !.retiring = TRUE] ELSE r IN
    /\ conn' = [conn EXCEPT ![c] = s]
    /\ closeSoon' = IF retire THEN closeSoon \cup {c} ELSE closeSoon
    /\ conns' = Unlisted(s, c)
    /\ Signal

Returned(r) == [r EXCEPT !.inFlight = IF @ > 0 THEN @ - 1 ELSE @]

\* Mutant of Drained: releases never close.
DrainedNever(r) == r.inFlight < 0

Drained(r) == r.inFlight = 0 /\ r.draining /\ ~r.leased

\* releaseOperation
ReleaseOperation(c) ==
    LET r == Returned(conn[c]) IN
    /\ Settle(c, r, Drained(r))
    /\ UNCHANGED leaseFlight

\* releaseLeaseOperation
ReleaseLeaseOperation(l) ==
    LET c == on[l]
        back == Returned(conn[c])
        r == [back EXCEPT !.leased =
                 @ /\ ~(back.inFlight = 0 /\ l \in leaseClosed)]
    IN /\ leaseFlight' = [leaseFlight EXCEPT ![l] = IF @ > 0 THEN @ - 1 ELSE @]
       /\ Settle(c, r, Drained(r))

ReleaseOf(p) == IF p \in LeaseOps THEN ReleaseLeaseOperation(Via[p])
                                  ELSE ReleaseOperation(on[p])

\* the connection an operation runs on
ConnOf(p) == IF p \in LeaseOps THEN on[Via[p]] ELSE on[p]

\* Conn.Do returns an error, or (DoStarts) a stream.
DoFails(p) ==
    /\ p \in Ops \cup LeaseOps /\ pc[p] = "held"
    /\ ReleaseOf(p)
    /\ on' = [on EXCEPT ![p] = None]
    /\ pc' = [pc EXCEPT ![p] = "failed"]
    /\ UNCHANGED <<poolVars, waiters, exactWaiters, registered, armed, dialVars,
                   target, opVars, leaseClosed, replVars, wpc, maint,
                   closeVars, ctxDone>>

DoStarts(p) ==
    /\ p \in Ops \cup LeaseOps /\ pc[p] = "held"
    /\ conn[ConnOf(p)].up
    /\ pc' = [pc EXCEPT ![p] = "open"]
    /\ UNCHANGED <<poolVars, waitVars, dialVars, connVars, on, target, opVars,
                   leaseVars, replVars, wpc, maint, closeVars, ctxDone>>

\* The stream's lifecycle ends: its last response came, or its connection is
\* down.
OperationEnds(p) ==
    /\ pc[p] = "open" /\ p \notin ended
    /\ ended' = ended \cup {p}
    /\ UNCHANGED <<poolVars, waitVars, dialVars, connVars, procVars, calls,
                   leaseVars, replVars, wpc, maint, closeVars, ctxDone>>

\* Mutant of ReleaseOnce: without the once.
ReleaseEach(p, who) ==
    /\ p \in ended /\ <<p, who>> \notin calls
    /\ who = "consumer" => p \in Readers
    /\ calls' = calls \cup {<<p, who>>}
    /\ pc' = [pc EXCEPT ![p] = "done"]
    /\ ReleaseOf(p)
    /\ UNCHANGED <<poolVars, waiters, exactWaiters, registered, armed, dialVars,
                   on, target, ended, leaseClosed, replVars, wpc, maint,
                   closeVars, ctxDone>>

\* trackedStream.releaseOnce, called by the goroutine that awaits the
\* lifecycle and by a consumer that reads EOF; once.Do lets one of them in.
ReleaseOnce(p, who) ==
    /\ p \in ended /\ <<p, who>> \notin calls
    /\ who = "consumer" => p \in Readers
    /\ calls' = calls \cup {<<p, who>>}
    /\ IF \E w \in {"tracker", "consumer"} : <<p, w>> \in calls
       THEN UNCHANGED <<pc, connVars, leaseFlight, sleeping>>
       ELSE /\ pc' = [pc EXCEPT ![p] = "done"]
            /\ ReleaseOf(p)
    /\ UNCHANGED <<poolVars, waiters, exactWaiters, registered, armed, dialVars,
                   on, target, ended, leaseClosed, replVars, wpc, maint,
                   closeVars, ctxDone>>

CloseSoon(c) ==
    /\ c \in closeSoon
    /\ closeSoon' = closeSoon \ {c}
    /\ CloseConn(c)
    /\ UNCHANGED <<poolVars, waitVars, dialVars, conns, procVars, opVars,
                   leaseVars, replVars, wpc, maint, closeVars, ctxDone>>

-----------------------------------------------------------------------------
(***************************************************************************)
(* Leases.                                                                 *)
(***************************************************************************)
\* One pass of acquireOperation's loop.
LeaseAcquire(p) ==
    LET l == Via[p]
        c == on[l]
    IN
    /\ pc[p] \in {"idle", "loop"} /\ pc[l] \in {"held", "done"}
    /\ \/ /\ l \in leaseClosed \/ closing \/ conn[c].broken \/ ~conn[c].up
          /\ Unregister(p)
          /\ pc' = [pc EXCEPT ![p] = "failed"]
          /\ UNCHANGED <<sleeping, armed, conn, leaseFlight>>
       \/ /\ l \notin leaseClosed /\ ~closing /\ ~conn[c].broken /\ conn[c].up
          /\ leaseFlight[l] < MaxInFlightPerConnection
          /\ leaseFlight' = [leaseFlight EXCEPT ![l] = @ + 1]
          /\ conn' = [conn EXCEPT ![c].inFlight = @ + 1]
          /\ Unregister(p)
          /\ pc' = [pc EXCEPT ![p] = "held"]
          /\ Signal
          /\ UNCHANGED armed
       \/ /\ l \notin leaseClosed /\ ~closing /\ ~conn[c].broken /\ conn[c].up
          /\ leaseFlight[l] >= MaxInFlightPerConnection
          /\ Enqueue(p, FALSE)
          /\ UNCHANGED <<conn, leaseFlight>>
    /\ UNCHANGED <<poolVars, dialVars, conns, closeSoon, on, target, opVars,
                   leaseClosed, replVars, wpc, maint, closeVars, ctxDone>>

\* Lease.Close, the first call of it
LeaseClose(l) ==
    LET c == on[l]
        idle == leaseFlight[l] = 0
        r == [conn[c] EXCEPT !.leased = @ /\ ~idle]
    IN
    /\ l \in Leases /\ pc[l] = "held"
    /\ leaseClosed' = leaseClosed \cup {l}
    /\ Settle(c, r, idle /\ r.draining)
    /\ pc' = [pc EXCEPT ![l] = "done"]
    /\ UNCHANGED <<poolVars, waiters, exactWaiters, registered, armed, dialVars,
                   on, target, opVars, leaseFlight, replVars, wpc, maint,
                   closeVars, ctxDone>>

-----------------------------------------------------------------------------
(***************************************************************************)
(* The goroutines: a watcher for each connection, a replacement for each   *)
(* endpoint, and maintain.                                                 *)
(***************************************************************************)
\* watchConnection: the connection is down.
WatchDone(c) ==
    LET r == [conn[c] EXCEPT !.broken = TRUE, !.leased = FALSE] IN
    /\ wpc[c] = "running" /\ ~conn[c].up
    /\ conn' = [conn EXCEPT ![c] = r]
    /\ conns' = Unlisted(r, c)
    /\ Signal
    /\ wpc' = [wpc EXCEPT ![c] = IF closing \/ r.retiring THEN "done" ELSE "replace"]
    /\ UNCHANGED <<poolVars, waiters, exactWaiters, registered, armed, dialVars,
                   closeSoon, procVars, opVars, leaseVars, replVars, maint,
                   closeVars, ctxDone>>

WatchReplace(c) ==
    /\ wpc[c] = "replace"
    /\ StartReplacement(conn[c].at)
    /\ wpc' = [wpc EXCEPT ![c] = "done"]
    /\ UNCHANGED <<poolVars, waitVars, dialVars, connVars, procVars, opVars,
                   leaseVars, rconn, maint, closeVars, ctxDone>>

\* One pass of replace's loop.
ReplaceLoop(e) ==
    /\ rpc[e] = "loop"
    /\ \/ /\ closing \/ LiveConns(e) # {}
          /\ rpc' = [rpc EXCEPT ![e] = "exit"]
          /\ UNCHANGED <<dialing, sleeping>>
       \/ /\ ~closing /\ LiveConns(e) = {} /\ ~backoff[e]
          /\ dialing' = [dialing EXCEPT ![e] = @ + 1]
          /\ Signal
          /\ rpc' = [rpc EXCEPT ![e] = "dialing"]
       \/ /\ ~closing /\ LiveConns(e) = {} /\ backoff[e]
          /\ rpc' = [rpc EXCEPT ![e] = "sleep"]
          /\ UNCHANGED <<dialing, sleeping>>
    /\ UNCHANGED <<poolVars, waiters, exactWaiters, registered, armed, backoff,
                   connVars, procVars, opVars, leaseVars, replacing, rconn, wpc,
                   maint, closeVars, ctxDone>>

ReplaceWake(e) ==
    /\ rpc[e] = "sleep"
    /\ \/ ~backoff[e] /\ rpc' = [rpc EXCEPT ![e] = "loop"]
       \/ closing /\ rpc' = [rpc EXCEPT ![e] = "exit"]
    /\ UNCHANGED <<poolVars, waitVars, dialVars, connVars, procVars, opVars,
                   leaseVars, replacing, rconn, wpc, maint, closeVars, ctxDone>>

ReplaceDialed(e) ==
    /\ rpc[e] = "dialing"
    /\ \/ \E c \in Conns :
             /\ DialEnds(e, c, TRUE)
             /\ rconn' = [rconn EXCEPT ![e] = c]
             /\ rpc' = [rpc EXCEPT ![e] = IF closing THEN "discard" ELSE "watch"]
       \/ /\ DialEnds(e, None, FALSE)
          /\ rpc' = [rpc EXCEPT ![e] = "loop"]
          /\ UNCHANGED rconn
    /\ UNCHANGED <<poolVars, waiters, exactWaiters, registered, armed, closeSoon,
                   procVars, opVars, leaseVars, replacing, wpc, maint, closeVars,
                   ctxDone>>

ReplaceWatch(e) ==
    /\ rpc[e] = "watch"
    /\ wpc' = [wpc EXCEPT ![rconn[e]] = "running"]
    /\ rconn' = [rconn EXCEPT ![e] = None]
    /\ rpc' = [rpc EXCEPT ![e] = "exit"]
    /\ UNCHANGED <<poolVars, waitVars, dialVars, connVars, procVars, opVars,
                   leaseVars, replacing, maint, closeVars, ctxDone>>

ReplaceDiscard(e) ==
    /\ rpc[e] = "discard"
    /\ CloseConn(rconn[e])
    /\ rconn' = [rconn EXCEPT ![e] = None]
    /\ rpc' = [rpc EXCEPT ![e] = "exit"]
    /\ UNCHANGED <<poolVars, waitVars, dialVars, conns, closeSoon, procVars,
                   opVars, leaseVars, replacing, wpc, maint, closeVars, ctxDone>>

\* replace's deferred function
ReplaceExit(e) ==
    /\ rpc[e] = "exit"
    /\ replacing' = [replacing EXCEPT ![e] = FALSE]
    /\ Signal
    /\ rpc' = [rpc EXCEPT ![e] = "off"]
    /\ UNCHANGED <<poolVars, waiters, exactWaiters, registered, armed, dialVars,
                   connVars, procVars, opVars, leaseVars, rconn, wpc, maint,
                   closeVars, ctxDone>>

\* How many live connections retireExpired counts at e when it comes to the
\* k-th, having drained the ones of d before it.
LiveAt(e, k, d) ==
    Cardinality(LiveConns(e)) - Cardinality({j \in 1..(k - 1) : conns[e][j] \in d})

\* Idle connections may go, but never the last live one.
MayIdleOut(old, idle) ==
    \A e \in Endpoints : \A k \in DOMAIN conns[e] :
        conns[e][k] \in idle => LiveAt(e, k, old \cup idle) > 1

\* A tick of maintain: retireExpired under the lock.  Which connections have
\* passed MaximumLifetime (old) or IdleLifetime (idle) is the clock's choice.
RetireExpired ==
    /\ maint.pc = "idle" /\ ~closing
    /\ LET mine == {c \in AllListed \cap Ageing : ~conn[c].broken /\ ~conn[c].draining
                                               /\ ~conn[c].leased} IN
       \E old \in SUBSET mine :
       \E idle \in SUBSET {c \in mine \ old : conn[c].inFlight = 0} :
          LET gone == old \cup idle
              shut == {c \in gone : conn[c].inFlight = 0}
              bare == {e \in Endpoints : /\ Listed(e) \cap old # {}
                                         /\ LiveConns(e) \subseteq gone}
          IN /\ MayIdleOut(old, idle)
             /\ conn' = [c \in Conns |->
                   IF c \in gone
                   THEN [conn[c] EXCEPT !.draining = TRUE, !.retiring = @ \/ c \in shut]
                   ELSE conn[c]]
             /\ maint' = [pc |-> IF shut \cup bare = {} THEN "idle" ELSE "busy",
                          close |-> shut, replace |-> bare]
    /\ Signal
    /\ UNCHANGED <<poolVars, waiters, exactWaiters, registered, armed, dialVars,
                   conns, closeSoon, procVars, opVars, leaseVars, replVars, wpc,
                   closeVars, ctxDone>>

\* ... and what it does after the unlock: close, then replace.
RetireNext ==
    /\ maint.pc = "busy"
    /\ \/ \E c \in maint.close :
             /\ CloseConn(c)
             /\ maint' = [maint EXCEPT !.close = @ \ {c},
                             !.pc = IF maint.close = {c} /\ maint.replace = {}
                                    THEN "idle" ELSE "busy"]
             /\ UNCHANGED <<replacing, rpc>>
       \/ /\ maint.close = {}
          /\ \E e \in maint.replace :
                /\ StartReplacement(e)
                /\ maint' = [maint EXCEPT !.replace = @ \ {e},
                                !.pc = IF maint.replace = {e} THEN "idle" ELSE "busy"]
          /\ UNCHANGED conn
    /\ UNCHANGED <<poolVars, waitVars, dialVars, conns, closeSoon, procVars,
                   opVars, leaseVars, rconn, wpc, closeVars, ctxDone>>

\* maintain sees that the pool's context is done.
MaintainExit ==
    /\ maint.pc = "idle" /\ closing
    /\ maint' = [maint EXCEPT !.pc = "done"]
    /\ UNCHANGED <<poolVars, waitVars, dialVars, connVars, procVars, opVars,
                   leaseVars, replVars, wpc, closeVars, ctxDone>>

-----------------------------------------------------------------------------
(***************************************************************************)
(* CloseContext.                                                           *)
(***************************************************************************)
CloseBegin(k) ==
    /\ kpc[k] = "idle" /\ closeMu = None
    /\ IF closed
       THEN /\ kpc' = [kpc EXCEPT ![k] = "done"]
            /\ UNCHANGED <<closing, closeMu, sleeping>>
       ELSE /\ closeMu' = k
            /\ closing' = TRUE
            /\ IF closing THEN UNCHANGED sleeping ELSE Signal
            /\ kpc' = [kpc EXCEPT ![k] = "drain"]
    /\ UNCHANGED <<closed, waiters, exactWaiters, registered, armed, dialVars,
                   connVars, procVars, opVars, leaseVars, replVars, wpc, maint,
                   toClose, ctxDone>>

\* The work CloseContext waits for.
Active == {c \in AllListed : conn[c].inFlight > 0 \/ conn[c].leased}

CloseDrain(k) ==
    /\ kpc[k] = "drain"
    /\ IF Active = {}
       THEN /\ kpc' = [kpc EXCEPT ![k] = "closeAll"]
            /\ UNCHANGED sleeping
       ELSE /\ kpc' = [kpc EXCEPT ![k] = "asleep"]
            /\ sleeping' = sleeping \cup {k}
    /\ UNCHANGED <<poolVars, waiters, exactWaiters, registered, armed, dialVars,
                   connVars, procVars, opVars, leaseVars, replVars, wpc, maint,
                   toClose, ctxDone>>

\* The drain's select: a change, or (CloseTimeout) the context is done.
CloseWake(k) ==
    /\ kpc[k] = "asleep" /\ k \notin sleeping
    /\ kpc' = [kpc EXCEPT ![k] = "drain"]
    /\ UNCHANGED <<poolVars, waitVars, dialVars, connVars, procVars, opVars,
                   leaseVars, replVars, wpc, maint, toClose, ctxDone>>

\* Mutant of CloseTimeout: the drain ignores the context.
CloseTimeoutNever(k) ==
    /\ kpc[k] = "asleep" /\ k \in ctxDone /\ Active = {}
    /\ kpc' = [kpc EXCEPT ![k] = "closeAll"]
    /\ sleeping' = sleeping \ {k}
    /\ UNCHANGED <<poolVars, waiters, exactWaiters, registered, armed, dialVars,
                   connVars, procVars, opVars, leaseVars, replVars, wpc, maint,
                   toClose, ctxDone>>

CloseTimeout(k) ==
    /\ kpc[k] = "asleep" /\ k \in ctxDone
    /\ kpc' = [kpc EXCEPT ![k] = "closeAll"]
    /\ sleeping' = sleeping \ {k}
    /\ UNCHANGED <<poolVars, waiters, exactWaiters, registered, armed, dialVars,
                   connVars, procVars, opVars, leaseVars, replVars, wpc, maint,
                   toClose, ctxDone>>

CloseAll(k) ==
    /\ kpc[k] = "closeAll"
    /\ conn' = [c \in Conns |-> [conn[c] EXCEPT !.retiring = @ \/ c \in AllListed]]
    /\ toClose' = [toClose EXCEPT ![k] = AllListed]
    /\ kpc' = [kpc EXCEPT ![k] = "closing"]
    /\ UNCHANGED <<poolVars, waitVars, dialVars, conns, closeSoon, procVars,
                   opVars, leaseVars, replVars, wpc, maint, ctxDone>>

CloseNext(k) ==
    /\ kpc[k] = "closing"
    /\ \E c \in toClose[k] :
          /\ CloseConn(c)
          /\ toClose' = [toClose EXCEPT ![k] = @ \ {c}]
    /\ UNCHANGED <<poolVars, waitVars, dialVars, conns, closeSoon, procVars,
                   opVars, leaseVars, replVars, wpc, maint, kpc, ctxDone>>

\* The pool's WaitGroup is at zero.
GoroutinesDone ==
    /\ \A c \in Conns : wpc[c] \in {"none", "done"}
    /\ \A e \in Endpoints : rpc[e] = "off"
    /\ maint.pc = "done"

CloseFinish(k) ==
    /\ kpc[k] = "closing" /\ toClose[k] = {} /\ GoroutinesDone
    /\ closed' = TRUE
    /\ closeMu' = None
    /\ Signal
    /\ kpc' = [kpc EXCEPT ![k] = "done"]
    /\ UNCHANGED <<closing, waiters, exactWaiters, registered, armed, dialVars,
                   connVars, procVars, opVars, leaseVars, replVars, wpc, maint,
                   toClose, ctxDone>>

-----------------------------------------------------------------------------
(***************************************************************************)
(* The environment.                                                        *)
(***************************************************************************)
\* A connection fails on its own.
ConnFails(c) ==
    /\ c \in Fragile /\ conn[c].up
    /\ CloseConn(c)
    /\ UNCHANGED <<poolVars, waitVars, dialVars, conns, closeSoon, procVars,
                   opVars, leaseVars, replVars, wpc, maint, closeVars, ctxDone>>

\* nextDial passes.
BackoffEnds(e) ==
    /\ backoff[e]
    /\ backoff' = [backoff EXCEPT ![e] = FALSE]
    /\ UNCHANGED <<poolVars, waitVars, dialing, connVars, procVars, opVars,
                   leaseVars, replVars, wpc, maint, closeVars, ctxDone>>

\* A caller's context ends while its call is under way.
ContextDone(p) ==
    /\ p \in Cancels \ ctxDone
    /\ IF p \in Procs THEN pc[p] \notin {"held", "open", "failed", "done"}
                      ELSE kpc[p] # "done"
    /\ ctxDone' = ctxDone \cup {p}
    /\ UNCHANGED <<poolVars, waitVars, dialVars, connVars, procVars, opVars,
                   leaseVars, replVars, wpc, maint, closeVars>>

AcquireStep(a) == \/ Acquire(a) \/ Wake(a) \/ AcquireDialed(a) \/ AcquireWatch(a)
                  \/ AcquireDiscard(a) \/ AcquireReplace(a)
WatchStep(c)   == WatchDone(c) \/ WatchReplace(c) \/ CloseSoon(c)
ReplaceStep(e) == \/ ReplaceLoop(e) \/ ReplaceWake(e) \/ ReplaceDialed(e)
                  \/ ReplaceWatch(e) \/ ReplaceDiscard(e) \/ ReplaceExit(e)
CloseStep(k)   == \/ CloseDrain(k) \/ CloseWake(k) \/ CloseTimeout(k) \/ CloseAll(k)
                  \/ CloseNext(k) \/ CloseFinish(k)

Next ==
    \/ \E a \in Callers : AcquireStep(a)
    \/ \E p \in LeaseOps : LeaseAcquire(p) \/ Wake(p)
    \/ \E p \in Procs : WaitEnds(p)
    \/ \E p \in Ops \cup LeaseOps : DoFails(p) \/ DoStarts(p) \/ OperationEnds(p)
    \/ \E p \in Ops \cup LeaseOps, who \in {"tracker", "consumer"} : ReleaseOnce(p, who)
    \/ \E l \in Leases : LeaseClose(l)
    \/ \E c \in Conns : WatchStep(c) \/ ConnFails(c)
    \/ \E e \in Endpoints : ReplaceStep(e) \/ BackoffEnds(e)
    \/ RetireExpired \/ RetireNext \/ MaintainExit
    \/ \E k \in Closers : CloseBegin(k) \/ CloseStep(k)
    \/ \E p \in Procs \cup Closers : ContextDone(p)

Spec == Init /\ [][Next]_vars

\* A goroutine that can step does, a timer fires, a dial returns once its
\* context (the caller's, or the pool's) has ended, and an operation on a
\* connection that is down ends.  A select whose context case is ready over
\* and over takes it in the end: Go chooses at random among the ready cases.
\* Nothing is assumed of the server, nor that anyone makes a call, cancels or
\* closes.
OpsEndWhenDown(p) == pc[p] = "open" /\ ~conn[ConnOf(p)].up /\ OperationEnds(p)

\* Conn.Do returns when its context ends or its connection is down.
DoReturns(p) == /\ pc[p] = "held"
                /\ p \in ctxDone \/ ~conn[ConnOf(p)].up
                /\ DoFails(p) \/ DoStarts(p)

Fairness ==
    /\ \A a \in Callers : WF_vars(/\ pc[a] # "idle"
                                  /\ pc[a] = "dialing" => a \in ctxDone
                                  /\ AcquireStep(a))
    /\ \A p \in LeaseOps : WF_vars(pc[p] # "idle" /\ (LeaseAcquire(p) \/ Wake(p)))
    /\ \A p \in Procs : SF_vars(WaitEnds(p))
    /\ \A p \in Ops \cup LeaseOps : /\ WF_vars(DoReturns(p))
                                    /\ WF_vars(OpsEndWhenDown(p))
                                    /\ WF_vars(ReleaseOnce(p, "tracker"))
    /\ \A c \in Conns : /\ WF_vars(WatchDone(c) \/ WatchReplace(c))
                        /\ WF_vars(CloseSoon(c))
    /\ \A e \in Endpoints : /\ WF_vars((rpc[e] = "dialing" => closing) /\ ReplaceStep(e))
                            /\ WF_vars(BackoffEnds(e))
    /\ WF_vars(RetireNext) /\ WF_vars(MaintainExit)
    /\ \A k \in Closers : /\ WF_vars((kpc[k] = "closing" => k \in ctxDone) /\ CloseStep(k))
                          /\ SF_vars(CloseTimeout(k))

FairSpec == Spec /\ Fairness

-----------------------------------------------------------------------------
(***************************************************************************)
(* Properties.                                                             *)
(***************************************************************************)
AcquirePC == {"idle", "loop", "asleep", "dialing", "watch", "discard", "replace"}

PooledConnection ==
    [at : Endpoints \cup {None}, up : BOOLEAN,
     inFlight : 0..MaxInFlightPerConnection, leased : BOOLEAN,
     draining : BOOLEAN, broken : BOOLEAN, retiring : BOOLEAN]

PoolType ==
    /\ closing \in BOOLEAN /\ closed \in BOOLEAN
    /\ closeMu \in Closers \cup {None}

WaitType ==
    /\ waiters \in 0..MaxWaiters
    /\ exactWaiters \in [Endpoints -> 0..MaxWaiters]
    /\ registered \subseteq Procs
    /\ sleeping \subseteq Procs \cup Closers
    /\ armed \subseteq Callers

DialType ==
    /\ dialing \in [Endpoints -> Nat]
    /\ backoff \in [Endpoints -> BOOLEAN]

ConnType ==
    /\ conns \in [Endpoints -> Seq(Conns)]
    /\ conn \in [Conns -> PooledConnection]
    /\ closeSoon \subseteq Conns
    /\ wpc \in [Conns -> {"none", "running", "replace", "done"}]

ProcType ==
    /\ pc \in [Procs -> AcquirePC \cup {"held", "open", "done", "failed"}]
    /\ on \in [Procs -> Conns \cup {None}]
    /\ target \in [Procs -> Endpoints \cup {None}]
    /\ ended \subseteq Ops \cup LeaseOps
    /\ calls \subseteq (Ops \cup LeaseOps) \X {"tracker", "consumer"}
    /\ ctxDone \subseteq Procs \cup Closers

LeaseType ==
    /\ leaseClosed \subseteq Leases
    /\ leaseFlight \in [Leases -> 0..MaxInFlightPerConnection]

ReplType ==
    /\ replacing \in [Endpoints -> BOOLEAN]
    /\ rpc \in [Endpoints -> {"off", "loop", "sleep", "dialing", "watch",
                              "discard", "exit"}]
    /\ rconn \in [Endpoints -> Conns \cup {None}]
    /\ maint \in [pc : {"idle", "busy", "done"}, close : SUBSET Conns,
                  replace : SUBSET Endpoints]

CloseType ==
    /\ kpc \in [Closers -> {"idle", "drain", "asleep", "closeAll", "closing", "done"}]
    /\ toClose \in [Closers -> SUBSET Conns]

\* The shapes of the pool's state.  The bounds are claims about the code: no
\* connection carries more than MaxInFlightPerConnection operations, the
\* waiters never exceed MaxWaiters and no counter goes below zero.
TypeOK ==
    /\ PoolType /\ WaitType /\ DialType /\ ConnType
    /\ ProcType /\ LeaseType /\ ReplType /\ CloseType

Holders(c) ==
    {p \in Ops \cup LeaseOps : pc[p] \in {"held", "open"} /\ ConnOf(p) = c}

\* inFlight of a connection is the number of operations that were given
\* capacity on it and have not returned it, whichever of Do's error path, the
\* lifecycle goroutine and the reader of EOF returns it.
InFlightExact ==
    /\ \A c \in Conns : conn[c].inFlight = Cardinality(Holders(c))
    /\ \A l \in Leases : leaseFlight[l] = Cardinality({p \in LeaseOps :
                             Via[p] = l /\ pc[p] \in {"held", "open"}})

\* A lease in force: not closed, or closed with operations still running.
InForce(l) == pc[l] = "held" \/ leaseFlight[l] > 0

\* While a lease is in force and its connection is not broken, the connection
\* is marked leased and carries no operation but the lease's own; and no two
\* leases in force have the same connection.
LeaseExclusive ==
    \A l \in Leases : InForce(l) =>
        /\ \A p \in Holders(on[l]) : p \in LeaseOps /\ Via[p] = l
        /\ \A m \in Leases : InForce(m) /\ on[m] = on[l] => m = l
        /\ conn[on[l]].leased \/ conn[on[l]].broken

\* Nobody sleeps on the current "changed" channel while what it waits for is
\* there: capacity or room to dial (unless its timer is set), an operation
\* slot of its lease, the end of the work CloseContext drains.
NoLostWakeup ==
    \A p \in sleeping :
        /\ p \in Callers => /\ ~closing
                            /\ Selectable(p) = {}
                            /\ Dialable(p) = {} \/ p \in armed
        /\ p \in LeaseOps => /\ ~closing /\ Via[p] \notin leaseClosed
                             /\ leaseFlight[Via[p]] = MaxInFlightPerConnection
        /\ p \in Closers => Active # {}

\* c is the connection of a dial that ended while the pool was closing.
Discarding(c) ==
    \/ \E a \in Callers : pc[a] = "discard" /\ on[a] = c
    \/ \E e \in Endpoints : rpc[e] = "discard" /\ rconn[e] = c

\* No connection is lost.  One that is up is in the pool's lists or some
\* goroutine is about to close it; one in the lists has a watcher, or is about
\* to get one, or is broken and stays only for the operations it still counts.
Accounted ==
    /\ \A c \in Conns : conn[c].up =>
          \/ c \in AllListed \cup closeSoon \cup maint.close
          \/ \E k \in Closers : c \in toClose[k]
          \/ Discarding(c)
    /\ \A c \in AllListed :
          \/ wpc[c] = "running"
          \/ \E a \in Callers : pc[a] = "watch" /\ on[a] = c
          \/ \E e \in Endpoints : rpc[e] = "watch" /\ rconn[e] = c
          \/ conn[c].broken /\ conn[c].inFlight > 0

\* When CloseContext has returned, the pool has no open connection: all are
\* down but those that some goroutine is about to close, for a dial or an
\* operation that ended too late for CloseContext to see its connection.
ShutdownComplete ==
    closed => \A c \in Conns : conn[c].up => c \in closeSoon \/ Discarding(c)

\* No connection leaks, while the pool is open or once it is closed.
NoneLeaked == Accounted /\ ShutdownComplete

-----------------------------------------------------------------------------
(***************************************************************************)
(* What the invariants above rest on.                                      *)
(***************************************************************************)
Busy(p) == pc[p] \in {"held", "open"}

\* releaseOnce has been called
Released(p) == \E w \in {"tracker", "consumer"} : <<p, w>> \in calls

\* A call has a connection or an endpoint where its next step needs one; a
\* lease is closed when its call is done; an operation of a lease is under way
\* only once the lease was granted; an operation whose lifecycle has ended holds
\* its capacity until the first call of releaseOnce; and there is no call of it
\* before.
Placed ==
    /\ \A a \in Callers : pc[a] \in {"held", "watch", "discard"} => on[a] \in Conns
    /\ \A a \in Callers : pc[a] \in {"dialing", "replace"} => target[a] \in Endpoints
    /\ \A o \in Ops : pc[o] = "open" => on[o] \in Conns
    /\ \A l \in Leases : /\ pc[l] # "open"
                         /\ pc[l] = "done" => on[l] \in Conns
                         /\ l \in leaseClosed <=> pc[l] = "done"
    /\ \A p \in LeaseOps : /\ pc[p] \in {"idle", "loop", "asleep", "held", "open",
                                       "done", "failed"}
                           /\ pc[p] \in {"loop", "asleep", "held", "open"} =>
                                 pc[Via[p]] \in {"held", "done"}
    /\ \A p \in ended : pc[p] = IF Released(p) THEN "done" ELSE "open"
    /\ \A p \in Ops \cup LeaseOps : Released(p) => p \in ended

\* So has the replacement goroutine, and there is one while endpointState says
\* so.
ReplPlaced ==
    \A e \in Endpoints : /\ replacing[e] <=> rpc[e] # "off"
                         /\ rpc[e] \in {"watch", "discard"} => rconn[e] \in Conns

\* A connection that was never dialed has no state and no watcher; one that
\* waits for its watcher has been dialed; and one in the lists is there once,
\* at the endpoint it was dialed to.
Filed ==
    /\ \A c \in Conns : conn[c].at = None => conn[c] = NoConn /\ wpc[c] = "none"
    /\ \A a \in Callers : pc[a] = "watch" => conn[on[a]].at # None
    /\ \A e \in Endpoints : rpc[e] = "watch" => conn[rconn[e]].at # None
    /\ \A e \in Endpoints : \A k \in DOMAIN conns[e] : conn[conns[e][k]].at = e
    /\ \A e \in Endpoints : \A j, k \in DOMAIN conns[e] :
          conns[e][j] = conns[e][k] => j = k

Dialers(e)   == {a \in Callers : pc[a] = "dialing" /\ target[a] = e}
ExactOnly(e) == {p \in registered \cap Callers : Exact[p] = e}

\* The pool's counters count: Pool.waiters and endpointState.waiters the calls
\* with registeredWaiter, endpointState.dialing the dials under way.
QueueCounted ==
    /\ IsFiniteSet(registered) /\ waiters = Cardinality(registered)
    /\ \A e \in Endpoints : exactWaiters[e] = Cardinality(ExactOnly(e))

DialsCounted ==
    \A e \in Endpoints :
        /\ IsFiniteSet(Dialers(e))
        /\ dialing[e] = Cardinality(Dialers(e)) + (IF rpc[e] = "dialing" THEN 1 ELSE 0)

LeaseHolders(l) == {p \in LeaseOps : Via[p] = l /\ Busy(p)}

\* Only finitely many operations run at a time.
FinitelyBusy ==
    /\ \A c \in Conns : IsFiniteSet(Holders(c))
    /\ \A l \in Leases : IsFiniteSet(LeaseHolders(l))

LoadInv == /\ Placed /\ ReplPlaced /\ Filed /\ QueueCounted /\ DialsCounted
           /\ FinitelyBusy /\ InFlightExact /\ LeaseExclusive
           /\ \A c \in Conns : conn[c].broken => ~conn[c].leased

\* A broken connection is down; one that is retiring is down or about to be
\* closed; what is about to be closed is known only to a goroutine that will
\* close it; and once CloseContext has taken the list of connections, the ones
\* in the lists are down or in its hands.
Retiring ==
    /\ \A c \in Conns : conn[c].broken => ~conn[c].up
    /\ \A c \in Conns : conn[c].retiring /\ conn[c].up =>
          \/ c \in closeSoon \cup maint.close
          \/ \E k \in Closers : c \in toClose[k]
          \/ Discarding(c)
    /\ maint.pc # "busy" => maint.close = {} /\ maint.replace = {}
    /\ maint.pc = "done" => closing
    /\ \A k \in Closers : /\ toClose[k] # {} => kpc[k] = "closing"
                          /\ kpc[k] \in {"drain", "asleep", "closeAll", "closing"} =>
                                closing /\ closeMu = k
                          /\ kpc[k] = "closing" =>
                                \A c \in AllListed : conn[c].up => c \in toClose[k]
    /\ closed => /\ closing /\ closeMu = None /\ maint.pc = "done"

LeakInv == NoneLeaked /\ Retiring

\* Stronger than NoLostWakeup where its parts look at the choice acquire makes
\* instead of the capacity there is: no connection in the scope of a sleeping
\* call has capacity for it, and no endpoint has room unless its timer is set.
WakeInv ==
    /\ \A p \in sleeping \cap Callers :
          /\ ~closing
          /\ \A e \in Scope(p) : \A c \in Listed(e) : ~Usable(p, c)
          /\ p \in armed \/ Room(p) = {}
    /\ \A p \in sleeping \cap LeaseOps :
          /\ ~closing /\ Via[p] \notin leaseClosed
          /\ leaseFlight[Via[p]] = MaxInFlightPerConnection
    /\ \A k \in sleeping \cap Closers : Active # {}
    /\ \A p \in sleeping \cap Procs : pc[p] = "asleep"
    /\ \A k \in sleeping \cap Closers : kpc[k] = "asleep"

\* A CloseContext whose context has ended returns, whatever the operations in
\* flight, the leases and the dials do.
CloseReturns ==
    \A k \in Closers : (k \in ctxDone /\ kpc[k] # "idle") ~> (kpc[k] = "done")

\* A call whose context has ended stops waiting for capacity.
AcquireReturns ==
    \A p \in Procs : (p \in ctxDone /\ pc[p] # "idle") ~>
                     (pc[p] \notin AcquirePC)

\* A connection retired by age that carries no operation is closed in the end.
DrainedCloses ==
    \A c \in Conns : (conn[c].draining /\ Holders(c) = {}) ~> ~conn[c].up

\* A connection that is down leaves the pool's lists in the end, once
\* watchConnection has seen it and its last operation has been released.
DownForgotten ==
    \A c \in Conns : (conn[c].at # None /\ ~conn[c].up) ~> (c \notin AllListed)

\* No connection lingers: one that is drained is closed, and one that is down
\* is forgotten.
NoneLingers == DrainedCloses /\ DownForgotten

\* The waiters the pool reports are the calls that are waiting.
WaitersCounted ==
    waiters = Cardinality({p \in registered : pc[p] \in AcquirePC})

\* An endpoint never has more than MaxConnectionsPerEndpoint live connections.
EndpointLimit ==
    \A e \in Endpoints : Cardinality(LiveConns(e)) <= MaxConnectionsPerEndpoint

=============================================================================
