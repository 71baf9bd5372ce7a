----------------------------- MODULE PoolProofs -----------------------------
(***************************************************************************)
(* The pool for every set of endpoints, connections, calls and closers and *)
(* every limit.  Every step keeps the connections in somebody's hands and  *)
(* the waiting calls with good reason to wait; then the theorems: the      *)
(* counters keep their bounds, capacity is counted exactly, leases are     *)
(* exclusive, no connection leaks and no wakeup is lost.                   *)
(***************************************************************************)
EXTENDS PoolStepProofs

-----------------------------------------------------------------------------
(***************************************************************************)
(* No connection leaks.                                                    *)
(***************************************************************************)

\* Somebody is about to close c who does not belong to CloseContext or to
\* maintain, ...
Soon(c) == c \in closeSoon \/ Discarding(c)

\* ... or anybody.
Hands(c) == \/ Soon(c)
            \/ c \in maint.close
            \/ \E k \in Closers : c \in toClose[k]

\* Whoever was about to close c still is.
HandKept(c) == /\ Soon(c) => Soon(c)'
               /\ c \in maint.close => c \in maint'.close
               /\ \A k \in Closers : c \in toClose[k] => c \in toClose'[k]

\* A connection that is up after a step was up and is still accounted for, ...
StaysUp(c) ==
    /\ conn[c].up /\ HandKept(c)
    /\ conn'[c].retiring => conn[c].retiring \/ Hands(c)'
    /\ c \in AllListed => c \in AllListed' \/ Hands(c)'
    /\ c \in AllListed' => c \in AllListed

\* ... or has just been dialed: it joins the pool or will be thrown away.
Arrives(c) ==
    \/ ~closing /\ c \in AllListed' /\ ~conn'[c].retiring
    \/ closing /\ c \notin AllListed' /\ Soon(c)'

Passes(c) == conn'[c].up => ~conn'[c].broken /\ (StaysUp(c) \/ Arrives(c))

\* Nobody gives up the connection of a dial that came too late.
DiscardKept ==
    /\ \A a \in Callers : pc[a] = "discard" => pc'[a] = "discard" /\ on'[a] = on[a]
    /\ \A e \in Endpoints : rpc[e] = "discard" => rpc'[e] = "discard" /\ rconn'[e] = rconn[e]

\* The lists hold what they held, ...
LEMMA ListedSame ==
    ASSUME UNCHANGED conns
    PROVE  AllListed' = AllListed
  BY DEF AllListed, Listed

\* ... all but the connection removeConnectionIfUnusedLocked took out, ...
LEMMA ListedDrops ==
    ASSUME Inv, NEW c \in Conns, NEW e \in Endpoints, conn[c].at = e,
           conns' = [conns EXCEPT ![e] = Without(@, c)]
    PROVE  AllListed' = AllListed \ {c}
<1> USE Zenon
<1>1. /\ conns[e] \in Seq(Conns)
      /\ \A j, k \in DOMAIN conns[e] : conns[e][j] = conns[e][k] => j = k
      /\ conns'[e] = Without(conns[e], c)
      /\ \A f \in Endpoints : f # e => conns'[f] = conns[f]
  BY DEF Inv, TypeOK, ConnType, LoadInv, Filed
<1>2. PICK t : t = Without(conns[e], c)
  OBVIOUS
<1>3. Listed(e)' = Listed(e) \ {c}
  <2>1. \A d : (\E k \in DOMAIN t : t[k] = d)
                 <=> d # c /\ \E k \in DOMAIN conns[e] : conns[e][k] = d
    <3>1. LET u == Without(conns[e], c) IN
          \A d : (\E k \in DOMAIN u : u[k] = d)
                   <=> d # c /\ \E k \in DOMAIN conns[e] : conns[e][k] = d
      BY <1>1, WithoutKeeps
    <3> QED
      BY <1>2, <3>1
  <2>2. Listed(e)' = {t[k] : k \in DOMAIN t}
    BY <1>1, <1>2, SMT DEF Listed
  <2>3. ASSUME NEW d PROVE d \in Listed(e)' <=> d # c /\ d \in Listed(e)
    <3>1. d \in Listed(e)' <=> \E k \in DOMAIN t : t[k] = d
      BY <2>2
    <3>2. d \in Listed(e) <=> \E k \in DOMAIN conns[e] : conns[e][k] = d
      BY DEF Listed
    <3> QED
      BY <2>1, <3>1, <3>2
  <2> QED
    BY <2>3
<1>4. \A f \in Endpoints : f # e => Listed(f)' = Listed(f) /\ c \notin Listed(f)
  BY <1>1, ListedDialed, SMT DEF Listed
<1> QED
  BY <1>3, <1>4 DEF AllListed

\* ... or also the one that was dialed.
LEMMA ListedGrows ==
    ASSUME Inv, NEW c \in Conns, NEW e \in Endpoints,
           conns' = [conns EXCEPT ![e] = Append(@, c)]
    PROVE  AllListed' = AllListed \cup {c}
<1> USE Zenon
<1>1. /\ conns[e] \in Seq(Conns) /\ conns'[e] = Append(conns[e], c)
      /\ \A f \in Endpoints : f # e => conns'[f] = conns[f]
  BY DEF Inv, TypeOK, ConnType
<1>2. Listed(e)' = Listed(e) \cup {c}
  BY <1>1, SMT DEF Listed
<1>3. \A f \in Endpoints : f # e => Listed(f)' = Listed(f)
  BY <1>1 DEF Listed
<1> QED
  BY <1>2, <1>3 DEF AllListed

\* So are all when nothing is dialed, closed or retired.
RecordsStay == \A c \in Conns : /\ conn'[c].up => conn[c].up
                                /\ conn'[c].retiring => conn[c].retiring
                                /\ conn'[c].broken => conn[c].broken

\* Every step accounts for every connection.
LEMMA PassStep ==
    ASSUME Inv, LeakInv, Next
    PROVE  \A d \in Conns : Passes(d)
\* Then everybody keeps what they were about to close.
<1> USE Zenon
<1>HandsStay.
    ASSUME DiscardKept, closeSoon \subseteq closeSoon', UNCHANGED <<maint, toClose>>
    PROVE  \A c : HandKept(c)
  <2> USE <1>HandsStay
  <2>1. \A c : Discarding(c) => Discarding(c)'
    BY DEF Discarding, DiscardKept
  <2> QED
    BY <2>1 DEF HandKept, Soon
\* A call that moves from elsewhere gives up no connection.
<1>MoveDiscard.
    ASSUME NEW p \in Procs, NEW v, pc[p] # "discard", pc' = [pc EXCEPT ![p] = v],
           UNCHANGED on \/ \E x : on' = [on EXCEPT ![p] = x],
           UNCHANGED <<rpc, rconn>>
    PROVE  DiscardKept
  <2> USE <1>MoveDiscard
  <2>1. \A q \in Procs : q # p => pc'[q] = pc[q] /\ on'[q] = on[q]
    BY DEF Inv, TypeOK, ProcType
  <2> QED
    BY <2>1 DEF DiscardKept, Procs
\* Nor does starting a replacement.
<1>StartDiscard. \A e : StartReplacement(e) =>
                    (\A f \in Endpoints : rpc[f] = "discard" => rpc'[f] = "discard")
  BY DEF StartReplacement, Inv, TypeOK, ReplType, LoadInv, ReplPlaced
\* A connection whose record, list and closers stay is accounted for.
<1>PassFrame.
    ASSUME LeakInv, NEW c \in Conns,
           conn'[c].up => conn[c].up /\ HandKept(c),
           conn'[c].retiring => conn[c].retiring, conn'[c].broken => conn[c].broken,
           AllListed' = AllListed
    PROVE  Passes(c)
  BY <1>PassFrame DEF LeakInv, Retiring, Passes, StaysUp
<1>StillPass.
    ASSUME LeakInv, RecordsStay, UNCHANGED <<conns, closeSoon, maint, toClose>>, DiscardKept
    PROVE  \A c \in Conns : Passes(c)
  BY <1>StillPass, <1>HandsStay, <1>PassFrame, ListedSame DEF RecordsStay
\* A connection may be forgotten by who closes it.
<1>ClosePass.
    ASSUME NEW c \in Conns, CloseConn(c), UNCHANGED conns,
           \A d \in Conns : d # c => HandKept(d)
    PROVE  \A d \in Conns : Passes(d)
  <2> USE <1>ClosePass
  <2>1. /\ conn'[c].up = FALSE
        /\ \A d \in Conns : d # c => conn'[d] = conn[d]
    BY DEF CloseConn, Inv, TypeOK, ConnType, PooledConnection
  <2>2. Passes(c)
    BY <2>1 DEF Passes
  <2>3. \A d \in Conns : d # c => Passes(d)
    BY <2>1, <1>PassFrame, ListedSame
  <2> QED
    BY <2>2, <2>3
\* A connection a release takes off its list is broken, or retiring, and then
\* some goroutine closes it.
<1>SettlePass.
    ASSUME NEW c \in Conns, NEW r \in PooledConnection,
           NEW retire \in BOOLEAN, Settle(c, r, retire),
           r.at = conn[c].at, r.at \in Endpoints, r.up = conn[c].up,
           r.retiring = conn[c].retiring, r.broken = conn[c].broken,
           UNCHANGED <<maint, toClose>>, DiscardKept
    PROVE  \A d \in Conns : Passes(d)
  <2> USE <1>SettlePass
  <2>1. PICK s \in PooledConnection : SettleEffect(c, r, retire, s)
    BY SettleTakes
  <2>2. /\ \A d \in Conns : d # c => conn'[d] = conn[d]
        /\ conn'[c] = s
    BY <2>1 DEF SettleEffect, Inv, TypeOK, ConnType
  <2>3. /\ s.at = conn[c].at /\ s.up = conn[c].up /\ s.broken = conn[c].broken
        /\ s.retiring <=> conn[c].retiring \/ retire
        /\ closeSoon \subseteq closeSoon'
        /\ retire => c \in closeSoon'
    BY <2>1 DEF SettleEffect
  <2>4. \A d : HandKept(d)
    BY <2>3, <1>HandsStay
  <2>5. \/ AllListed' = AllListed
        \/ (s.broken \/ s.retiring) /\ AllListed' = AllListed \ {c}
    <3>1. CASE UNCHANGED conns
      BY <3>1, ListedSame
    <3>2. CASE (s.broken \/ s.retiring) /\ conns' = [conns EXCEPT ![s.at] = Without(@, c)]
      BY <2>3, <3>2, ListedDrops
    <3> QED
      BY <2>1, <3>1, <3>2 DEF SettleEffect
  <2>6. \A d \in Conns : d # c => Passes(d)
    BY <2>2, <2>4, <2>5 DEF Passes, StaysUp, LeakInv, Retiring
  <2>7. Passes(c)
    <3> SUFFICES ASSUME conn[c].up PROVE ~s.broken /\ StaysUp(c)
      BY <2>2, <2>3 DEF Passes
    <3>1. ~conn[c].broken /\ (conn[c].retiring => Hands(c))
      BY DEF LeakInv, Retiring, Hands, Soon
    <3>2. Hands(c) => Hands(c)'
      BY <2>4 DEF HandKept, Hands
    <3>3. retire => Hands(c)'
      BY <2>3 DEF Hands, Soon
    <3> QED
      BY <2>2, <2>3, <2>4, <2>5, <3>1, <3>2, <3>3 DEF StaysUp
  <2> QED
    BY <2>6, <2>7
\* A dial that ends before the pool is closing adds its connection to a list;
\* one that ends after leaves it to who dialed.
<1>DialPass.
    ASSUME NEW e \in Endpoints, NEW c, NEW ok, DialEnds(e, c, ok),
           UNCHANGED <<closeSoon, maint, toClose>>, DiscardKept,
           ok /\ closing => Discarding(c)'
    PROVE  \A d \in Conns : Passes(d)
  <2> USE <1>DialPass
  <2>1. CASE ~ok
    <3>1. UNCHANGED <<conns, conn>>
      BY <2>1 DEF DialEnds
    <3> QED
      BY <3>1, <1>StillPass DEF RecordsStay
  <2>2. CASE ok
    <3> USE <2>2
    <3> DEFINE s == [Dialed(e) EXCEPT !.retiring = closing]
    <3>1. /\ c \in Conns /\ conn[c].at = None /\ conn' = [conn EXCEPT ![c] = s]
          /\ conns' = IF closing THEN conns ELSE [conns EXCEPT ![e] = Append(@, c)]
      BY DEF DialEnds, Fresh
    <3>2. s.broken = FALSE /\ s.retiring = closing
      BY DEF Dialed, NoConn
    <3> HIDE DEF s
    <3>3. /\ \A d \in Conns : d # c => conn'[d] = conn[d]
          /\ conn'[c] = s
      BY <3>1 DEF Inv, TypeOK, ConnType
    <3>4. c \notin AllListed
      BY <3>1, ListedDialed DEF AllListed
    <3>5. AllListed' = IF closing THEN AllListed ELSE AllListed \cup {c}
      BY <3>1, ListedSame, ListedGrows
    <3>6. \A d : HandKept(d)
      BY <1>HandsStay
    <3>7. \A d \in Conns : d # c => Passes(d)
      BY <3>3, <3>5, <3>6 DEF Passes, StaysUp, LeakInv, Retiring
    <3>8. Passes(c)
      BY <3>2, <3>3, <3>4, <3>5 DEF Passes, Arrives, Soon
    <3> QED
      BY <3>7, <3>8
  <2> QED
    BY <2>1, <2>2
\* Connections are accounted for across a release.
<1>ReleasePass.
    ASSUME NEW p \in Ops \cup LeaseOps, Busy(p), ReleaseOf(p),
           UNCHANGED <<maint, toClose>>, DiscardKept
    PROVE  \A d \in Conns : Passes(d)
  <2> USE <1>ReleasePass
  <2>1. PICK c \in Conns : c = ConnOf(p)
    BY HolderDialed
  <2>2. conn[c].at \in Endpoints
    BY <2>1, HolderDialed
  <2>3. PICK r \in PooledConnection, retire \in BOOLEAN : ReleaseEffect(p, c, r, retire)
    BY <2>1, ReleaseTakes
  <2>4. /\ r.at = conn[c].at /\ r.up = conn[c].up /\ r.retiring = conn[c].retiring
        /\ r.broken = conn[c].broken /\ Settle(c, r, retire)
    BY <2>3 DEF ReleaseEffect
  <2> QED
    BY <2>2, <2>4, <1>SettlePass
<1>1. UNCHANGED <<connVars, pc, on, rpc, rconn, maint, toClose>> =>
         \A d \in Conns : Passes(d)
  BY <1>StillPass DEF DiscardKept, RecordsStay, connVars
<1>2. ASSUME NEW a \in Callers, Acquire(a) PROVE \A d \in Conns : Passes(d)
  <2> USE <1>2
  <2>1. /\ a \in Procs /\ UNCHANGED <<conns, closeSoon, maint, toClose, rpc, rconn>>
        /\ pc[a] # "discard"
    BY DEF Acquire, Procs, closeVars, replVars
  <2>2. /\ \E v : pc' = [pc EXCEPT ![a] = v]
        /\ UNCHANGED on \/ \E x : on' = [on EXCEPT ![a] = x]
    BY AcquireTakes DEF Refused, Granted, Dials, Waits, Enqueue
  <2>3. DiscardKept
    BY <2>1, <2>2, <1>MoveDiscard
  <2>4. CASE UNCHANGED conn
    BY <2>1, <2>3, <2>4, <1>StillPass DEF RecordsStay
  <2>5. ASSUME NEW c \in Conns, Granted(a, c) PROVE RecordsStay
    <3>1. PICK s \in PooledConnection : GrantEffect(a, c, s)
      BY <2>5, GrantedTakes
    <3> QED
      BY <3>1 DEF GrantEffect, RecordsStay, Inv, TypeOK, ConnType
  <2>6. CASE \E c \in Conns : Granted(a, c)
    BY <2>1, <2>3, <2>5, <2>6, <1>StillPass
  <2> QED
    BY <2>4, <2>6, AcquireTakes DEF Refused, Dials, Waits
<1>3. ASSUME NEW p \in Procs, Wake(p) PROVE \A d \in Conns : Passes(d)
  <2> USE <1>3
  <2>1. /\ p \in Procs /\ UNCHANGED <<conns, conn, closeSoon, maint, toClose, rpc, rconn>>
        /\ pc[p] # "discard"
    BY DEF Wake, Procs, Callers, connVars, closeVars, replVars
  <2>2. DiscardKept
    BY <2>1, <1>MoveDiscard DEF Wake
  <2> QED
    BY <2>1, <2>2, <1>StillPass DEF RecordsStay
<1>4. ASSUME NEW p \in Procs, WaitEnds(p) PROVE \A d \in Conns : Passes(d)
  <2> USE <1>4
  <2>1. /\ p \in Procs /\ UNCHANGED <<conns, conn, closeSoon, maint, toClose, rpc, rconn>>
        /\ pc[p] # "discard"
    BY DEF WaitEnds, Procs, Callers, connVars, closeVars, replVars
  <2>2. DiscardKept
    BY <2>1, <1>MoveDiscard DEF WaitEnds
  <2> QED
    BY <2>1, <2>2, <1>StillPass DEF RecordsStay
<1>5. ASSUME NEW p \in Ops \cup LeaseOps, DoStarts(p)
      PROVE  \A d \in Conns : Passes(d)
  <2> USE <1>5
  <2>1. /\ p \in Procs /\ UNCHANGED <<conns, conn, closeSoon, maint, toClose, rpc, rconn>>
        /\ pc[p] # "discard"
    BY DEF DoStarts, Procs, Callers, connVars, closeVars, replVars
  <2>2. DiscardKept
    BY <2>1, <1>MoveDiscard DEF DoStarts
  <2> QED
    BY <2>1, <2>2, <1>StillPass DEF RecordsStay
<1>6. ASSUME NEW a \in Callers, AcquireWatch(a)
      PROVE  \A d \in Conns : Passes(d)
  <2> USE <1>6
  <2>1. /\ a \in Procs /\ UNCHANGED <<conns, conn, closeSoon, maint, toClose, rpc, rconn>>
        /\ pc[a] # "discard"
    BY DEF AcquireWatch, Procs, Callers, connVars, closeVars, replVars
  <2>2. DiscardKept
    BY <2>1, <1>MoveDiscard DEF AcquireWatch
  <2> QED
    BY <2>1, <2>2, <1>StillPass DEF RecordsStay
<1>7. ASSUME NEW a \in Callers, AcquireReplace(a)
      PROVE  \A d \in Conns : Passes(d)
  <2> USE <1>7
  <2>1. /\ a \in Procs /\ UNCHANGED <<conns, conn, closeSoon, maint, toClose, on, rconn>>
        /\ pc[a] # "discard" /\ StartReplacement(target[a])
    BY DEF AcquireReplace, Procs, connVars, closeVars
  <2> USE <2>1
  <2>2. \A b \in Callers : pc[b] = "discard" => pc'[b] = "discard"
    BY DEF AcquireReplace, Inv, TypeOK, ProcType, Procs
  <2>3. DiscardKept
    BY <2>2, <1>StartDiscard DEF DiscardKept
  <2> QED
    BY <2>3, <1>StillPass DEF RecordsStay
<1>8. ASSUME NEW a \in Callers, AcquireDialed(a)
      PROVE  \A d \in Conns : Passes(d)
  <2> USE <1>8
  <2>1. /\ a \in Procs /\ target[a] \in Endpoints /\ pc[a] # "discard"
        /\ UNCHANGED <<closeSoon, maint, toClose, rpc, rconn>>
    BY DEF AcquireDialed, Procs, closeVars, replVars, Inv, LoadInv, Placed
  <2> USE <2>1
  <2>2. ASSUME NEW c \in Conns, DialEnds(target[a], c, TRUE),
               on' = [on EXCEPT ![a] = c],
               pc' = [pc EXCEPT ![a] = IF closing THEN "discard" ELSE "watch"]
        PROVE  \A d \in Conns : Passes(d)
    <3> USE <2>2
    <3>1. DiscardKept
      BY <1>MoveDiscard
    <3>2. on'[a] = c /\ (closing => pc'[a] = "discard")
      BY DEF Inv, TypeOK, ProcType
    <3>3. closing => Discarding(c)'
      BY <3>2 DEF Discarding
    <3> QED
      BY <3>1, <3>3, <1>DialPass
  <2>3. ASSUME DialEnds(target[a], None, FALSE), pc' = [pc EXCEPT ![a] = "replace"],
               UNCHANGED on
        PROVE  \A d \in Conns : Passes(d)
    BY <2>3, <1>MoveDiscard, <1>DialPass
  <2> QED
    BY <2>2, <2>3 DEF AcquireDialed
<1>9. ASSUME NEW a \in Callers, AcquireDiscard(a)
      PROVE  \A d \in Conns : Passes(d)
  <2> USE <1>9
  <2>1. /\ a \in Procs /\ on[a] \in Conns /\ CloseConn(on[a])
        /\ UNCHANGED <<conns, closeSoon, maint, toClose, rpc, rconn>>
    BY DEF AcquireDiscard, Procs, closeVars, replVars, Inv, LoadInv, Placed
  <2> USE <2>1
  <2>2. \A b \in Callers : b # a => pc'[b] = pc[b] /\ on'[b] = on[b]
    BY DEF AcquireDiscard, Inv, TypeOK, ProcType, Procs
  <2>3. \A d : d # on[a] /\ Discarding(d) => Discarding(d)'
    BY <2>2 DEF Discarding
  <2>4. \A d : d # on[a] => HandKept(d)
    BY <2>3 DEF HandKept, Soon
  <2> QED
    BY <2>4, <1>ClosePass
<1>10. ASSUME NEW p \in LeaseOps, LeaseAcquire(p)
      PROVE  \A d \in Conns : Passes(d)
  <2> USE <1>10
  <2>1. /\ p \in Procs /\ UNCHANGED <<conns, closeSoon, maint, toClose, on, rpc, rconn>>
        /\ pc[p] # "discard"
    BY DEF LeaseAcquire, Procs, closeVars, replVars
  <2>2. \E v : pc' = [pc EXCEPT ![p] = v]
    BY LeaseAcquireTakes DEF LeaseRefuses, LeaseGrants, LeaseWaits, Enqueue
  <2>3. DiscardKept
    BY <2>1, <2>2, <1>MoveDiscard
  <2>4. CASE UNCHANGED conn
    BY <2>1, <2>3, <2>4, <1>StillPass DEF RecordsStay
  <2>5. CASE LeaseGrants(p)
    <3> USE <2>5
    <3>1. PICK c \in Conns : c = on[Via[p]]
      BY LeaseGrantsTakes
    <3>2. PICK s \in PooledConnection : LeaseGrantEffect(c, s)
      BY <3>1, LeaseGrantsTakes
    <3>3. RecordsStay
      BY <3>2 DEF LeaseGrantEffect, RecordsStay, Inv, TypeOK, ConnType
    <3> QED
      BY <2>1, <2>3, <3>3, <1>StillPass
  <2> QED
    BY <2>4, <2>5, LeaseAcquireTakes DEF LeaseRefuses, LeaseWaits
<1>11. ASSUME NEW p \in Ops \cup LeaseOps, DoFails(p)
      PROVE  \A d \in Conns : Passes(d)
  <2> USE <1>11
  <2>1. /\ p \in Procs /\ pc[p] # "discard" /\ Busy(p) /\ ReleaseOf(p)
        /\ UNCHANGED <<maint, toClose, rpc, rconn>>
    BY DEF DoFails, Procs, Callers, Busy, closeVars, replVars
  <2>2. DiscardKept
    BY <2>1, <1>MoveDiscard DEF DoFails
  <2> QED
    BY <2>1, <2>2, <1>ReleasePass
<1>12. ASSUME NEW p \in Ops \cup LeaseOps, NEW who \in {"tracker", "consumer"}, ReleaseOnce(p, who)
      PROVE  \A d \in Conns : Passes(d)
  <2> USE <1>12
  <2>1. /\ p \in Procs /\ p \in ended /\ UNCHANGED <<maint, toClose, on, rpc, rconn>>
    BY DEF ReleaseOnce, Procs, Callers, closeVars, replVars
  <2> USE <2>1
  <2>2. CASE Released(p)
    <3>1. UNCHANGED <<pc, conns, conn, closeSoon>>
      BY <2>2 DEF ReleaseOnce, Released, connVars
    <3> QED
      BY <3>1, <1>StillPass DEF DiscardKept, RecordsStay
  <2>3. CASE ~Released(p)
    <3> USE <2>3
    <3>1. pc' = [pc EXCEPT ![p] = "done"] /\ ReleaseOf(p)
      BY DEF ReleaseOnce, Released
    <3>2. pc[p] = "open"
      BY DEF Inv, LoadInv, Placed
    <3>3. DiscardKept
      BY <3>1, <3>2, <1>MoveDiscard
    <3> QED
      BY <3>1, <3>2, <3>3, <1>ReleasePass DEF Busy
  <2> QED
    BY <2>2, <2>3
<1>13. ASSUME NEW l \in Leases, LeaseClose(l) PROVE \A d \in Conns : Passes(d)
  <2> USE <1>13
  <2>1. /\ l \in Procs /\ pc[l] # "discard" /\ UNCHANGED <<maint, toClose, on, rpc, rconn>>
    BY DEF LeaseClose, Procs, Callers, closeVars, replVars
  <2>2. DiscardKept
    BY <2>1, <1>MoveDiscard DEF LeaseClose
  <2>3. PICK c \in Conns : c = on[l]
    BY LeaseCloseTakes
  <2>4. conn[c].at \in Endpoints
    BY <2>3, LeaseCloseTakes
  <2>5. PICK r \in PooledConnection, retire \in BOOLEAN : LeaseCloseEffect(l, r, retire)
    BY LeaseCloseTakes
  <2>6. /\ r.at = conn[c].at /\ r.up = conn[c].up /\ r.retiring = conn[c].retiring
        /\ r.broken = conn[c].broken /\ Settle(c, r, retire)
    BY <2>3, <2>5 DEF LeaseCloseEffect
  <2> QED
    BY <2>1, <2>2, <2>4, <2>6, <1>SettlePass
<1>14. ASSUME NEW c \in Conns, WatchDone(c) PROVE \A d \in Conns : Passes(d)
  <2> USE <1>14
  <2>1. /\ UNCHANGED <<closeSoon, maint, toClose, pc, on, rpc, rconn>> /\ conn[c].up = FALSE
        /\ conn[c].at \in Endpoints
    BY WatchDoneTakes
       DEF WatchDone, procVars, closeVars, replVars, Inv, TypeOK, ConnType,
           PooledConnection
  <2>2. PICK s \in PooledConnection : WatchDoneEffect(c, s)
    BY WatchDoneTakes
  <2>3. /\ \A d \in Conns : d # c => conn'[d] = conn[d]
        /\ conn'[c].up = FALSE
    BY <2>1, <2>2 DEF WatchDoneEffect, Inv, TypeOK, ConnType
  <2>4. AllListed' = AllListed \/ AllListed' = AllListed \ {c}
    <3>1. s.at = conn[c].at
      BY <2>2 DEF WatchDoneEffect
    <3>2. UNCHANGED conns \/ conns' = [conns EXCEPT ![s.at] = Without(@, c)]
      BY <2>2 DEF WatchDoneEffect
    <3> QED
      BY <2>1, <3>1, <3>2, ListedSame, ListedDrops
  <2>5. \A d : HandKept(d)
    BY <2>1, <1>HandsStay DEF DiscardKept
  <2>6. Passes(c)
    BY <2>3 DEF Passes
  <2>7. \A d \in Conns : d # c => Passes(d)
    BY <2>3, <2>4, <2>5 DEF Passes, StaysUp, LeakInv, Retiring
  <2> QED
    BY <2>6, <2>7
<1>15. ASSUME NEW c \in Conns, WatchReplace(c)
      PROVE  \A d \in Conns : Passes(d)
  <2>1. /\ UNCHANGED <<conns, conn, closeSoon, maint, toClose, pc, on, rconn>>
        /\ StartReplacement(conn[c].at)
    BY <1>15 DEF WatchReplace, procVars, connVars, closeVars
  <2>2. DiscardKept
    BY <2>1, <1>StartDiscard DEF DiscardKept
  <2> QED
    BY <2>1, <2>2, <1>StillPass DEF RecordsStay
<1>16. ASSUME NEW c \in Conns, CloseSoon(c) PROVE \A d \in Conns : Passes(d)
  <2>1. /\ UNCHANGED <<conns, maint, toClose, pc, on, rpc, rconn>> /\ CloseConn(c)
        /\ closeSoon' = closeSoon \ {c}
    BY <1>16 DEF CloseSoon, procVars, replVars, closeVars
  <2> USE <2>1
  <2>2. \A d : Discarding(d)' <=> Discarding(d)
    BY DEF Discarding
  <2>3. \A d : d # c => HandKept(d)
    BY <2>2 DEF HandKept, Soon
  <2> QED
    BY <2>3, <1>ClosePass
<1>17. ASSUME NEW c \in Conns, ConnFails(c) PROVE \A d \in Conns : Passes(d)
  <2>1. /\ UNCHANGED <<conns, closeSoon, maint, toClose, pc, on, rpc, rconn>> /\ CloseConn(c)
    BY <1>17 DEF ConnFails, procVars, replVars, closeVars
  <2>2. \A d : HandKept(d)
    BY <2>1, <1>HandsStay DEF DiscardKept
  <2> QED
    BY <2>1, <2>2, <1>ClosePass
<1>18. ASSUME NEW e \in Endpoints, ReplaceLoop(e)
      PROVE  \A d \in Conns : Passes(d)
  <2> USE <1>18
  <2>1. UNCHANGED <<conns, conn, closeSoon, maint, toClose, pc, on>>
    BY DEF ReplaceLoop, procVars, connVars, closeVars
  <2>2. \A f \in Endpoints : rpc[f] = "discard" => rpc'[f] = "discard" /\ rconn'[f] = rconn[f]
    BY DEF ReplaceLoop, Inv, TypeOK, ReplType
  <2> QED
    BY <2>1, <2>2, <1>StillPass DEF DiscardKept, RecordsStay
<1>19. ASSUME NEW e \in Endpoints, ReplaceWake(e)
      PROVE  \A d \in Conns : Passes(d)
  <2> USE <1>19
  <2>1. UNCHANGED <<conns, conn, closeSoon, maint, toClose, pc, on>>
    BY DEF ReplaceWake, procVars, connVars, closeVars
  <2>2. \A f \in Endpoints : rpc[f] = "discard" => rpc'[f] = "discard" /\ rconn'[f] = rconn[f]
    BY DEF ReplaceWake, Inv, TypeOK, ReplType
  <2> QED
    BY <2>1, <2>2, <1>StillPass DEF DiscardKept, RecordsStay
<1>20. ASSUME NEW e \in Endpoints, ReplaceWatch(e)
      PROVE  \A d \in Conns : Passes(d)
  <2> USE <1>20
  <2>1. UNCHANGED <<conns, conn, closeSoon, maint, toClose, pc, on>>
    BY DEF ReplaceWatch, procVars, connVars, closeVars
  <2>2. \A f \in Endpoints : rpc[f] = "discard" => rpc'[f] = "discard" /\ rconn'[f] = rconn[f]
    BY DEF ReplaceWatch, Inv, TypeOK, ReplType
  <2> QED
    BY <2>1, <2>2, <1>StillPass DEF DiscardKept, RecordsStay
<1>21. ASSUME NEW e \in Endpoints, ReplaceExit(e)
      PROVE  \A d \in Conns : Passes(d)
  <2> USE <1>21
  <2>1. UNCHANGED <<conns, conn, closeSoon, maint, toClose, pc, on>>
    BY DEF ReplaceExit, procVars, connVars, closeVars
  <2>2. \A f \in Endpoints : rpc[f] = "discard" => rpc'[f] = "discard" /\ rconn'[f] = rconn[f]
    BY DEF ReplaceExit, Inv, TypeOK, ReplType
  <2> QED
    BY <2>1, <2>2, <1>StillPass DEF DiscardKept, RecordsStay
<1>22. ASSUME NEW e \in Endpoints, ReplaceDialed(e)
      PROVE  \A d \in Conns : Passes(d)
  <2> USE <1>22
  <2>1. UNCHANGED <<closeSoon, maint, toClose, pc, on>> /\ rpc[e] = "dialing"
    BY DEF ReplaceDialed, procVars, closeVars
  <2> USE <2>1
  <2>2. ASSUME NEW c \in Conns, DialEnds(e, c, TRUE), rconn' = [rconn EXCEPT ![e] = c],
               rpc' = [rpc EXCEPT ![e] = IF closing THEN "discard" ELSE "watch"]
        PROVE  \A d \in Conns : Passes(d)
    <3> USE <2>2
    <3>1. /\ \A f \in Endpoints : f # e => rpc'[f] = rpc[f] /\ rconn'[f] = rconn[f]
          /\ rconn'[e] = c /\ (closing => rpc'[e] = "discard")
      BY DEF Inv, TypeOK, ReplType
    <3>2. DiscardKept /\ (closing => Discarding(c)')
      BY <3>1 DEF DiscardKept, Discarding
    <3> QED
      BY <3>2, <1>DialPass
  <2>3. ASSUME DialEnds(e, None, FALSE), rpc' = [rpc EXCEPT ![e] = "loop"], UNCHANGED rconn
        PROVE  \A d \in Conns : Passes(d)
    <3> USE <2>3
    <3>1. DiscardKept
      BY DEF DiscardKept, Inv, TypeOK, ReplType
    <3> QED
      BY <3>1, <1>DialPass
  <2> QED
    BY <2>2, <2>3 DEF ReplaceDialed
<1>23. ASSUME NEW e \in Endpoints, ReplaceDiscard(e)
      PROVE  \A d \in Conns : Passes(d)
  <2> USE <1>23
  <2>1. /\ rconn[e] \in Conns /\ CloseConn(rconn[e])
        /\ UNCHANGED <<conns, closeSoon, maint, toClose, pc, on>>
    BY DEF ReplaceDiscard, procVars, closeVars, Inv, LoadInv, ReplPlaced
  <2> USE <2>1
  <2>2. \A f \in Endpoints : f # e => rpc'[f] = rpc[f] /\ rconn'[f] = rconn[f]
    BY DEF ReplaceDiscard, Inv, TypeOK, ReplType
  <2>3. \A d : d # rconn[e] /\ Discarding(d) => Discarding(d)'
    BY <2>2 DEF Discarding
  <2>4. \A d : d # rconn[e] => HandKept(d)
    BY <2>3 DEF HandKept, Soon
  <2> QED
    BY <2>4, <1>ClosePass
<1>24. ASSUME RetireExpired PROVE \A d \in Conns : Passes(d)
  <2> USE <1>24
  <2>1. /\ UNCHANGED <<conns, closeSoon, toClose, pc, on, rpc, rconn>> /\ maint.pc = "idle"
    BY DEF RetireExpired, procVars, replVars, closeVars
  <2> USE <2>1
  <2>2. PICK gone \in SUBSET AllListed, bare \in SUBSET Endpoints : RetireEffect(gone, bare)
    BY RetireExpiredTakes
  <2>3. \A c \in Conns : conn[c] \in PooledConnection
    BY DEF Inv, TypeOK, ConnType
  <2>4. \A c \in Conns : /\ conn'[c].up = conn[c].up /\ conn'[c].broken = conn[c].broken
                         /\ conn'[c].retiring => conn[c].retiring \/ c \in maint'.close
    BY <2>2, <2>3 DEF RetireEffect, PooledConnection
  <2>5. maint.close = {}
    BY DEF LeakInv, Retiring
  <2>6. \A d : Discarding(d)' <=> Discarding(d)
    BY DEF Discarding
  <2>7. \A d : HandKept(d)
    BY <2>5, <2>6 DEF HandKept, Soon
  <2>8. AllListed' = AllListed
    BY ListedSame
  <2> QED
    BY <2>4, <2>7, <2>8 DEF Passes, StaysUp, Hands, LeakInv, Retiring
<1>25. ASSUME RetireNext PROVE \A d \in Conns : Passes(d)
  <2> USE <1>25
  <2>1. UNCHANGED <<conns, closeSoon, toClose, pc, on, rconn>>
    BY DEF RetireNext, procVars, closeVars
  <2> USE <2>1
  <2>2. ASSUME NEW c \in maint.close, ClosesOne(c) PROVE \A d \in Conns : Passes(d)
    <3>1. CloseConn(c) /\ UNCHANGED rpc /\ c \in Conns /\ maint'.close = maint.close \ {c}
      BY <2>2 DEF ClosesOne, Inv, TypeOK, ReplType
    <3> USE <3>1
    <3>2. \A d : Discarding(d)' <=> Discarding(d)
      BY DEF Discarding
    <3>3. \A d : d # c => HandKept(d)
      BY <3>2 DEF HandKept, Soon
    <3> QED
      BY <3>3, <1>ClosePass
  <2>3. ASSUME NEW e \in maint.replace, ReplacesOne(e) PROVE \A d \in Conns : Passes(d)
    <3>1. UNCHANGED conn /\ StartReplacement(e) /\ maint'.close = maint.close
      BY <2>3 DEF ReplacesOne, Inv, TypeOK, ReplType
    <3> USE <3>1
    <3>2. \A d : Discarding(d) => Discarding(d)'
      BY <1>StartDiscard DEF Discarding
    <3>3. \A d : HandKept(d)
      BY <3>2 DEF HandKept, Soon
    <3> QED
      BY <3>3, <1>PassFrame, ListedSame
  <2> QED
    BY <2>2, <2>3, RetireNextTakes
<1>26. ASSUME MaintainExit PROVE \A d \in Conns : Passes(d)
  <2>1. /\ UNCHANGED <<conns, conn, closeSoon, toClose, pc, on, rpc, rconn>>
        /\ maint' = [maint EXCEPT !.pc = "done"]
    BY <1>26 DEF MaintainExit, procVars, connVars, closeVars, replVars
  <2> USE <2>1
  <2>2. maint'.close = maint.close
    BY DEF Inv, TypeOK, ReplType
  <2>3. \A d : Discarding(d)' <=> Discarding(d)
    BY DEF Discarding
  <2>4. \A d : HandKept(d)
    BY <2>2, <2>3 DEF HandKept, Soon
  <2> QED
    BY <2>4, <1>PassFrame, ListedSame
<1>27. ASSUME NEW k \in Closers, CloseAll(k) PROVE \A d \in Conns : Passes(d)
  <2>1. /\ UNCHANGED <<conns, closeSoon, maint, pc, on, rpc, rconn>>
        /\ conn' = [c \in Conns |-> [conn[c] EXCEPT !.retiring = @ \/ c \in AllListed]]
        /\ toClose' = [toClose EXCEPT ![k] = AllListed] /\ kpc[k] = "closeAll"
    BY <1>27 DEF CloseAll, procVars, replVars
  <2> USE <2>1
  <2>2. \A c \in Conns : conn[c] \in PooledConnection
    BY DEF Inv, TypeOK, ConnType
  <2>3. \A c \in Conns : /\ conn'[c].up = conn[c].up /\ conn'[c].broken = conn[c].broken
                         /\ conn'[c].retiring => conn[c].retiring \/ c \in AllListed
    BY <2>2 DEF PooledConnection
  <2>4. toClose[k] = {}
    BY DEF LeakInv, Retiring
  <2>5. \A d : Discarding(d)' <=> Discarding(d)
    BY DEF Discarding
  <2>6. toClose'[k] = AllListed /\ \A j \in Closers : j # k => toClose'[j] = toClose[j]
    BY DEF Inv, TypeOK, CloseType
  <2>7. \A d : HandKept(d)
    BY <2>4, <2>5, <2>6 DEF HandKept, Soon
  <2>8. AllListed' = AllListed
    BY ListedSame
  <2>9. \A d \in AllListed : Hands(d)'
    BY <2>6 DEF Hands
  <2> QED
    BY <2>3, <2>7, <2>8, <2>9 DEF Passes, StaysUp, LeakInv, Retiring
<1>28. ASSUME NEW k \in Closers, CloseNext(k) PROVE \A d \in Conns : Passes(d)
  <2> USE <1>28
  <2>1. UNCHANGED <<conns, closeSoon, maint, pc, on, rpc, rconn>>
    BY DEF CloseNext, procVars, replVars
  <2> USE <2>1
  <2>2. PICK c \in toClose[k] : CloseConn(c) /\ toClose' = [toClose EXCEPT ![k] = @ \ {c}]
    BY DEF CloseNext
  <2>3. /\ c \in Conns
        /\ \A j \in Closers : \A d : d # c /\ d \in toClose[j] => d \in toClose'[j]
    BY <2>2 DEF Inv, TypeOK, CloseType
  <2>4. \A d : Discarding(d)' <=> Discarding(d)
    BY DEF Discarding
  <2>5. \A d : d # c => HandKept(d)
    BY <2>3, <2>4 DEF HandKept, Soon
  <2> QED
    BY <2>2, <2>3, <2>5, <1>ClosePass
<1>29. CASE \E a \in Callers : AcquireStep(a)
  BY <1>29, <1>2, <1>3, <1>8, <1>6, <1>9, <1>7 DEF AcquireStep, Procs
<1>30. CASE \E p \in LeaseOps : LeaseAcquire(p) \/ Wake(p)
  BY <1>30, <1>10, <1>3 DEF Procs
<1>31. CASE \E p \in Procs : WaitEnds(p)
  BY <1>31, <1>4
<1>32. CASE \E p \in Ops \cup LeaseOps : DoFails(p) \/ DoStarts(p) \/ OperationEnds(p)
  BY <1>32, <1>1, <1>11, <1>5
     DEF OperationEnds, connVars, procVars, replVars, closeVars
<1>33. CASE \E p \in Ops \cup LeaseOps, who \in {"tracker", "consumer"} :
              ReleaseOnce(p, who)
  BY <1>33, <1>12
<1>34. CASE \E l \in Leases : LeaseClose(l)
  BY <1>34, <1>13
<1>35. CASE \E c \in Conns : WatchStep(c) \/ ConnFails(c)
  BY <1>35, <1>14, <1>15, <1>16, <1>17 DEF WatchStep
<1>36. CASE \E e \in Endpoints : ReplaceStep(e) \/ BackoffEnds(e)
  BY <1>36, <1>1, <1>18, <1>19, <1>22, <1>20, <1>23, <1>21
     DEF ReplaceStep, BackoffEnds, connVars, procVars, replVars, closeVars
<1>37. CASE RetireExpired \/ RetireNext \/ MaintainExit
  BY <1>37, <1>24, <1>25, <1>26
<1>38. CASE \E k \in Closers : CloseBegin(k) \/ CloseStep(k)
  BY <1>38, <1>1, <1>27, <1>28
     DEF CloseStep, CloseBegin, CloseDrain, CloseWake, CloseTimeout,
         CloseFinish, connVars, procVars, replVars, closeVars
<1>39. CASE \E p \in Procs \cup Closers : ContextDone(p)
  BY <1>39, <1>1 DEF ContextDone, connVars, procVars, replVars, closeVars
<1> QED
  BY <1>29, <1>30, <1>31, <1>32, <1>33, <1>34, <1>35, <1>36, <1>37, <1>38, <1>39
     DEF Next

\* What Passes gives after the step.
LEMMA PassKeeps ==
    ASSUME LeakInv, \A c \in Conns : Passes(c), NEW c \in Conns, conn'[c].up
    PROVE  /\ ~conn'[c].broken
           /\ c \in AllListed' \/ Hands(c)'
           /\ conn'[c].retiring => Hands(c)'
           /\ closed => Soon(c)'
           /\ closing /\ c \in AllListed' =>
                 conn[c].up /\ c \in AllListed /\ HandKept(c)
<1> USE Zenon
<1>1. ~conn'[c].broken /\ (StaysUp(c) \/ Arrives(c))
  BY DEF Passes
<1> USE <1>1
<1>2. closed => closing
  BY DEF LeakInv, Retiring
<1>3. CASE StaysUp(c)
  <2>1. conn[c].up => /\ c \in AllListed \/ Hands(c)
                      /\ conn[c].retiring => Hands(c)
                      /\ closed => Soon(c)
    BY DEF LeakInv, NoneLeaked, Accounted, ShutdownComplete, Retiring, Hands,
           Soon
  <2>2. HandKept(c) => (Hands(c) => Hands(c)') /\ (Soon(c) => Soon(c)')
    BY DEF HandKept, Hands
  <2> QED
    BY <1>3, <2>1, <2>2 DEF StaysUp
<1>4. CASE Arrives(c)
  BY <1>2, <1>4 DEF Arrives, Hands
<1> QED
  BY <1>3, <1>4

\* The parts of LeakInv about connections that are up.
UpOK ==
    /\ \A c \in Conns : conn[c].up => c \in AllListed \/ Hands(c)
    /\ \A c \in Conns : conn[c].broken => ~conn[c].up
    /\ \A c \in Conns : conn[c].retiring /\ conn[c].up => Hands(c)

\* They hold after every step.
LEMMA UpStep ==
    ASSUME Inv, LeakInv, Next
    PROVE  UpOK'
<1> USE Zenon
<1>1. \A c \in Conns : Passes(c)
  BY PassStep
<1> QED
  BY <1>1, PassKeeps DEF UpOK

\* CloseContext returns when it has closed every connection but those whose closing
\* it leaves to others.
LEMMA ShutStep ==
    ASSUME Inv, LeakInv, Next
    PROVE  ShutdownComplete'
<1> USE Zenon
<1>1. UNCHANGED closed => ShutdownComplete'
  BY PassStep, PassKeeps DEF ShutdownComplete, Soon
<1> USE <1>1
<1>2. ASSUME NEW k \in Closers, CloseFinish(k) PROVE ShutdownComplete'
  <2>1. /\ kpc[k] = "closing" /\ toClose[k] = {} /\ maint.pc = "done"
        /\ UNCHANGED <<conns, conn, closeSoon, pc, on, rpc, rconn>>
    BY <1>2 DEF CloseFinish, GoroutinesDone, connVars, procVars, replVars
  <2> USE <2>1
  <2>2. /\ maint.close = {} /\ closeMu = k
        /\ \A j \in Closers : toClose[j] # {} => closeMu = j
        /\ \A c \in AllListed : ~conn[c].up
    BY DEF LeakInv, Retiring
  <2>3. \A j \in Closers : toClose[j] = {}
    BY <2>2
  <2>4. \A c \in Conns : conn[c].up => Soon(c)
    BY <2>2, <2>3 DEF LeakInv, NoneLeaked, Accounted, Soon
  <2>5. \A c : Soon(c)' <=> Soon(c)
    BY DEF Soon, Discarding
  <2> QED
    BY <2>4, <2>5 DEF ShutdownComplete, Soon
<1>3. (\E a \in Callers : AcquireStep(a)) => ShutdownComplete'
  BY DEF AcquireStep, Acquire, Wake, AcquireDialed, AcquireWatch,
         AcquireDiscard, AcquireReplace, poolVars, Procs
<1>4. (\E p \in LeaseOps : LeaseAcquire(p) \/ Wake(p)) => ShutdownComplete'
  BY DEF LeaseAcquire, Wake, poolVars, Procs
<1>5. (\E p \in Procs : WaitEnds(p)) => ShutdownComplete'
  BY DEF WaitEnds, poolVars
<1>6. CASE \E p \in Ops \cup LeaseOps : DoFails(p) \/ DoStarts(p) \/ OperationEnds(p)
  BY <1>6 DEF DoFails, DoStarts, OperationEnds, poolVars
<1>7. CASE \E p \in Ops \cup LeaseOps, who \in {"tracker", "consumer"} :
              ReleaseOnce(p, who)
  BY <1>7 DEF ReleaseOnce, poolVars
<1>8. (\E l \in Leases : LeaseClose(l)) => ShutdownComplete'
  BY DEF LeaseClose, poolVars
<1>9. (\E c \in Conns : WatchStep(c) \/ ConnFails(c)) => ShutdownComplete'
  BY DEF WatchStep, WatchDone, WatchReplace, CloseSoon, ConnFails, poolVars
<1>10. (\E e \in Endpoints : ReplaceStep(e) \/ BackoffEnds(e)) => ShutdownComplete'
  BY DEF ReplaceStep, ReplaceLoop, ReplaceWake, ReplaceDialed, ReplaceWatch,
         ReplaceDiscard, ReplaceExit, BackoffEnds, poolVars
<1>11. (RetireExpired \/ RetireNext \/ MaintainExit) => ShutdownComplete'
  BY DEF RetireExpired, RetireNext, MaintainExit, poolVars
<1>12. (\E k \in Closers : CloseBegin(k) \/ CloseStep(k)) => ShutdownComplete'
  BY <1>2
     DEF CloseStep, CloseBegin, CloseDrain, CloseWake, CloseTimeout, CloseAll,
         CloseNext, poolVars
<1>13. (\E p \in Procs \cup Closers : ContextDone(p)) => ShutdownComplete'
  BY DEF ContextDone, poolVars
<1> QED
  BY <1>3, <1>4, <1>5, <1>6, <1>7, <1>8, <1>9, <1>10, <1>11, <1>12, <1>13
     DEF Next

\* maintain has connections to close or endpoints to fill only while it is at
\* it, and stops only for good.
MaintOK ==
    /\ maint.pc # "busy" => maint.close = {} /\ maint.replace = {}
    /\ maint.pc = "done" => closing

\* It stays so.
LEMMA MaintStep ==
    ASSUME Inv, LeakInv, Next
    PROVE  MaintOK'
<1> USE Zenon
<1>1. UNCHANGED <<maint, closing>> => MaintOK'
  BY SMT DEF MaintOK, LeakInv, Retiring
<1>2. ASSUME RetireExpired PROVE MaintOK'
  <2>1. PICK gone \in SUBSET AllListed, bare \in SUBSET Endpoints : RetireEffect(gone, bare)
    BY <1>2, RetireExpiredTakes
  <2> DEFINE shut == {c \in gone : conn[c].inFlight = 0}
  <2>2. maint' = [pc |-> IF shut \cup bare = {} THEN "idle" ELSE "busy",
                  close |-> shut, replace |-> bare]
    BY <2>1 DEF RetireEffect
  <2> HIDE DEF shut
  <2> QED
    BY <2>2 DEF MaintOK
<1>3. ASSUME RetireNext PROVE MaintOK'
  <2>1. maint \in [pc : {"idle", "busy", "done"}, close : SUBSET Conns,
                   replace : SUBSET Endpoints]
    BY DEF Inv, TypeOK, ReplType
  <2>2. ASSUME NEW c \in maint.close, ClosesOne(c) PROVE MaintOK'
    <3>1. maint' = [maint EXCEPT !.close = @ \ {c},
                       !.pc = IF maint.close = {c} /\ maint.replace = {}
                              THEN "idle" ELSE "busy"]
      BY <2>2 DEF ClosesOne
    <3> QED
      BY <2>1, <3>1 DEF MaintOK
  <2>3. ASSUME NEW e \in maint.replace, ReplacesOne(e) PROVE MaintOK'
    <3>1. /\ maint.close = {}
          /\ maint' = [maint EXCEPT !.replace = @ \ {e},
                          !.pc = IF maint.replace = {e} THEN "idle" ELSE "busy"]
      BY <2>3 DEF ReplacesOne
    <3> QED
      BY <2>1, <3>1 DEF MaintOK
  <2> QED
    BY <1>3, <2>2, <2>3, RetireNextTakes
<1>4. ASSUME MaintainExit PROVE MaintOK'
  <2>1. maint.pc = "idle" /\ closing' /\ maint' = [maint EXCEPT !.pc = "done"]
    BY <1>4 DEF MaintainExit, poolVars
  <2>2. maint'.close = maint.close /\ maint'.replace = maint.replace
    BY <2>1 DEF Inv, TypeOK, ReplType
  <2> QED
    BY <2>1, <2>2 DEF MaintOK, LeakInv, Retiring
<1>5. ASSUME NEW k \in Closers, CloseBegin(k) PROVE MaintOK'
  <2>1. UNCHANGED maint /\ (closing => closing')
    BY <1>5 DEF CloseBegin
  <2> QED
    BY <2>1 DEF MaintOK, LeakInv, Retiring
<1>6. (\E a \in Callers : AcquireStep(a)) => MaintOK'
  BY <1>1
     DEF AcquireStep, Acquire, Wake, AcquireDialed, AcquireWatch,
         AcquireDiscard, AcquireReplace, poolVars, Procs
<1>7. (\E p \in LeaseOps : LeaseAcquire(p) \/ Wake(p)) => MaintOK'
  BY <1>1 DEF LeaseAcquire, Wake, poolVars, Procs
<1>8. (\E p \in Procs : WaitEnds(p)) => MaintOK'
  BY <1>1 DEF WaitEnds, poolVars
<1>9. CASE \E p \in Ops \cup LeaseOps : DoFails(p) \/ DoStarts(p) \/ OperationEnds(p)
  BY <1>9, <1>1 DEF DoFails, DoStarts, OperationEnds, poolVars
<1>10. CASE \E p \in Ops \cup LeaseOps, who \in {"tracker", "consumer"} :
              ReleaseOnce(p, who)
  BY <1>10, <1>1 DEF ReleaseOnce, poolVars
<1>11. (\E l \in Leases : LeaseClose(l)) => MaintOK'
  BY <1>1 DEF LeaseClose, poolVars
<1>12. (\E c \in Conns : WatchStep(c) \/ ConnFails(c)) => MaintOK'
  BY <1>1 DEF WatchStep, WatchDone, WatchReplace, CloseSoon, ConnFails, poolVars
<1>13. (\E e \in Endpoints : ReplaceStep(e) \/ BackoffEnds(e)) => MaintOK'
  BY <1>1
     DEF ReplaceStep, ReplaceLoop, ReplaceWake, ReplaceDialed, ReplaceWatch,
         ReplaceDiscard, ReplaceExit, BackoffEnds, poolVars
<1>14. (RetireExpired \/ RetireNext \/ MaintainExit) => MaintOK'
  BY <1>2, <1>3, <1>4
<1>15. (\E k \in Closers : CloseBegin(k) \/ CloseStep(k)) => MaintOK'
  BY <1>1, <1>5
     DEF CloseStep, CloseDrain, CloseWake, CloseTimeout, CloseAll, CloseNext,
         CloseFinish, poolVars
<1>16. (\E p \in Procs \cup Closers : ContextDone(p)) => MaintOK'
  BY <1>1 DEF ContextDone, poolVars
<1> QED
  BY <1>6, <1>7, <1>8, <1>9, <1>10, <1>11, <1>12, <1>13, <1>14, <1>15, <1>16
     DEF Next

\* CloseContext has connections to close only while it closes them, holds
\* closeMu from its start to its end, and once it has taken the list of the
\* connections, the ones in the lists are down or in its hands.
CloserOK(k) ==
    /\ toClose[k] # {} => kpc[k] = "closing"
    /\ kpc[k] \in {"drain", "asleep", "closeAll", "closing"} => closing /\ closeMu = k
    /\ kpc[k] = "closing" => \A c \in AllListed : conn[c].up => c \in toClose[k]

\* So does every step of one.
LEMMA CloserStep ==
    ASSUME Inv, LeakInv, Next
    PROVE  \A j \in Closers : CloserOK(j)'
\* A CloseContext that stays where it is keeps its claims.
<1> USE Zenon
<1>CloserFrame.
    ASSUME Next, NEW k \in Closers, kpc'[k] = kpc[k],
           toClose'[k] \subseteq toClose[k],
           closing => closing', closeMu = k => closeMu' = k
    PROVE  CloserOK(k)'
  <2> USE <1>CloserFrame
  <2>1. CloserOK(k)
    BY DEF LeakInv, Retiring, CloserOK
  <2> USE <2>1
  <2>2. ASSUME kpc[k] = "closing", NEW c \in AllListed', conn'[c].up
        PROVE  c \in toClose'[k]
    <3> USE <2>2
    <3>1. c \in Conns
      BY ConnStep, SMT DEF AllListed, Listed, ConnOK, ConnType
    <3>2. conn[c].up /\ c \in AllListed /\ HandKept(c)
      BY <3>1, PassStep, PassKeeps DEF CloserOK
    <3> QED
      BY <3>2 DEF CloserOK, HandKept
  <2> QED
    BY <2>2 DEF CloserOK
\* One that moves before it takes the list of connections keeps them too.
<1>CloserMoves.
    ASSUME Next, NEW k \in Closers,
           kpc[k] \in {"drain", "asleep", "closeAll"},
           UNCHANGED <<closing, closeMu, toClose>>, kpc' = [kpc EXCEPT ![k] = kpc'[k]],
           kpc'[k] \in {"drain", "asleep", "closeAll"}
    PROVE  \A j \in Closers : CloserOK(j)'
  <2> USE <1>CloserMoves
  <2>1. \A j \in Closers : j # k => kpc'[j] = kpc[j]
    BY DEF Inv, TypeOK, CloseType
  <2>2. CloserOK(k)'
    BY DEF LeakInv, Retiring, CloserOK
  <2>3. \A j \in Closers : j # k => CloserOK(j)'
    BY <2>1, <1>CloserFrame
  <2> QED
    BY <2>2, <2>3
<1>1. ASSUME UNCHANGED <<kpc, toClose, closing, closeMu>>
      PROVE  \A j \in Closers : CloserOK(j)'
  BY <1>1, <1>CloserFrame
<1>2. ASSUME NEW k \in Closers, CloseBegin(k)
      PROVE  \A j \in Closers : CloserOK(j)'
  <2> USE <1>2
  <2>1. UNCHANGED toClose /\ kpc[k] = "idle" /\ closeMu = None /\ k # None
    BY PoolAssumption DEF CloseBegin
  <2>2. \A j \in Closers : kpc[j] \notin {"drain", "asleep", "closeAll", "closing"}
    BY <2>1, PoolAssumption DEF LeakInv, Retiring
  <2>3. \A j \in Closers : toClose[j] = {}
    BY <2>2 DEF LeakInv, Retiring
  <2>4. \/ kpc' = [kpc EXCEPT ![k] = "done"]
        \/ kpc' = [kpc EXCEPT ![k] = "drain"] /\ closing' /\ closeMu' = k
    BY DEF CloseBegin
  <2>5. /\ \A j \in Closers : j # k => kpc'[j] = kpc[j]
        /\ kpc'[k] = "done" \/ (kpc'[k] = "drain" /\ closing' /\ closeMu' = k)
    BY <2>4 DEF Inv, TypeOK, CloseType
  <2> QED
    BY <2>1, <2>2, <2>3, <2>5 DEF CloserOK
<1>3. ASSUME NEW k \in Closers, CloseDrain(k)
      PROVE  \A j \in Closers : CloserOK(j)'
  <2>1. /\ kpc[k] \in {"drain", "asleep", "closeAll"}
        /\ UNCHANGED <<closing, closeMu, toClose>>
        /\ \E v \in {"drain", "asleep", "closeAll"} : kpc' = [kpc EXCEPT ![k] = v]
    BY <1>3 DEF CloseDrain, poolVars
  <2>2. /\ kpc' = [kpc EXCEPT ![k] = kpc'[k]]
        /\ kpc'[k] \in {"drain", "asleep", "closeAll"}
    BY <2>1 DEF Inv, TypeOK, CloseType
  <2> QED
    BY <2>1, <2>2, <1>CloserMoves
<1>4. ASSUME NEW k \in Closers, CloseWake(k)
      PROVE  \A j \in Closers : CloserOK(j)'
  <2>1. /\ kpc[k] \in {"drain", "asleep", "closeAll"}
        /\ UNCHANGED <<closing, closeMu, toClose>>
        /\ \E v \in {"drain", "asleep", "closeAll"} : kpc' = [kpc EXCEPT ![k] = v]
    BY <1>4 DEF CloseWake, poolVars
  <2>2. /\ kpc' = [kpc EXCEPT ![k] = kpc'[k]]
        /\ kpc'[k] \in {"drain", "asleep", "closeAll"}
    BY <2>1 DEF Inv, TypeOK, CloseType
  <2> QED
    BY <2>1, <2>2, <1>CloserMoves
<1>5. ASSUME NEW k \in Closers, CloseTimeout(k)
      PROVE  \A j \in Closers : CloserOK(j)'
  <2>1. /\ kpc[k] \in {"drain", "asleep", "closeAll"}
        /\ UNCHANGED <<closing, closeMu, toClose>>
        /\ \E v \in {"drain", "asleep", "closeAll"} : kpc' = [kpc EXCEPT ![k] = v]
    BY <1>5 DEF CloseTimeout, poolVars
  <2>2. /\ kpc' = [kpc EXCEPT ![k] = kpc'[k]]
        /\ kpc'[k] \in {"drain", "asleep", "closeAll"}
    BY <2>1 DEF Inv, TypeOK, CloseType
  <2> QED
    BY <2>1, <2>2, <1>CloserMoves
<1>6. ASSUME NEW k \in Closers, CloseAll(k)
      PROVE  \A j \in Closers : CloserOK(j)'
  <2>1. /\ UNCHANGED <<conns, closing, closeMu>> /\ kpc[k] = "closeAll"
        /\ toClose' = [toClose EXCEPT ![k] = AllListed]
        /\ kpc' = [kpc EXCEPT ![k] = "closing"]
    BY <1>6 DEF CloseAll, poolVars
  <2> USE <2>1
  <2>2. /\ \A j \in Closers : j # k => kpc'[j] = kpc[j] /\ toClose'[j] = toClose[j]
        /\ kpc'[k] = "closing" /\ toClose'[k] = AllListed
    BY DEF Inv, TypeOK, CloseType
  <2>3. closing /\ closeMu = k /\ AllListed' = AllListed
    BY ListedSame DEF LeakInv, Retiring
  <2>4. CloserOK(k)'
    BY <2>2, <2>3 DEF CloserOK
  <2>5. \A j \in Closers : j # k => CloserOK(j)'
    BY <2>2, <1>CloserFrame
  <2> QED
    BY <2>4, <2>5
<1>7. ASSUME NEW k \in Closers, CloseNext(k)
      PROVE  \A j \in Closers : CloserOK(j)'
  <2> USE <1>7
  <2>1. UNCHANGED <<kpc, closing, closeMu>>
    BY DEF CloseNext, poolVars
  <2>2. \A j \in Closers : toClose'[j] \subseteq toClose[j]
    BY DEF CloseNext, Inv, TypeOK, CloseType
  <2> QED
    BY <2>1, <2>2, <1>CloserFrame
<1>8. ASSUME NEW k \in Closers, CloseFinish(k)
      PROVE  \A j \in Closers : CloserOK(j)'
  <2>1. /\ UNCHANGED <<closing, toClose>> /\ kpc[k] = "closing" /\ toClose[k] = {}
        /\ kpc' = [kpc EXCEPT ![k] = "done"]
    BY <1>8 DEF CloseFinish
  <2> USE <2>1
  <2>2. /\ \A j \in Closers : j # k => kpc'[j] = kpc[j]
        /\ kpc'[k] = "done"
    BY DEF Inv, TypeOK, CloseType
  <2>3. CloserOK(k)'
    BY <2>2 DEF CloserOK
  <2>4. closeMu = k
    BY DEF LeakInv, Retiring
  <2>5. \A j \in Closers : j # k => CloserOK(j)'
    BY <2>2, <2>4, <1>CloserFrame
  <2> QED
    BY <2>3, <2>5
<1>9. CASE \E a \in Callers : AcquireStep(a)
  BY <1>9, <1>1
     DEF AcquireStep, Acquire, Wake, AcquireDialed, AcquireWatch,
         AcquireDiscard, AcquireReplace, poolVars, closeVars, Procs
<1>10. CASE \E p \in LeaseOps : LeaseAcquire(p) \/ Wake(p)
  BY <1>10, <1>1 DEF LeaseAcquire, Wake, poolVars, closeVars, Procs
<1>11. CASE \E p \in Procs : WaitEnds(p)
  BY <1>11, <1>1 DEF WaitEnds, poolVars, closeVars
<1>12. CASE \E p \in Ops \cup LeaseOps : DoFails(p) \/ DoStarts(p) \/ OperationEnds(p)
  BY <1>12, <1>1 DEF DoFails, DoStarts, OperationEnds, poolVars, closeVars
<1>13. CASE \E p \in Ops \cup LeaseOps, who \in {"tracker", "consumer"} :
              ReleaseOnce(p, who)
  BY <1>13, <1>1 DEF ReleaseOnce, poolVars, closeVars
<1>14. CASE \E l \in Leases : LeaseClose(l)
  BY <1>14, <1>1 DEF LeaseClose, poolVars, closeVars
<1>15. CASE \E c \in Conns : WatchStep(c) \/ ConnFails(c)
  BY <1>15, <1>1
     DEF WatchStep, WatchDone, WatchReplace, CloseSoon, ConnFails, poolVars,
         closeVars
<1>16. CASE \E e \in Endpoints : ReplaceStep(e) \/ BackoffEnds(e)
  BY <1>16, <1>1
     DEF ReplaceStep, ReplaceLoop, ReplaceWake, ReplaceDialed, ReplaceWatch,
         ReplaceDiscard, ReplaceExit, BackoffEnds, poolVars, closeVars
<1>17. CASE RetireExpired \/ RetireNext \/ MaintainExit
  BY <1>17, <1>1
     DEF RetireExpired, RetireNext, MaintainExit, poolVars, closeVars
<1>18. CASE \E k \in Closers : CloseBegin(k) \/ CloseStep(k)
  BY <1>18, <1>2, <1>3, <1>4, <1>5, <1>6, <1>7, <1>8 DEF CloseStep
<1>19. CASE \E p \in Procs \cup Closers : ContextDone(p)
  BY <1>19, <1>1 DEF ContextDone, poolVars, closeVars
<1> QED
  BY <1>9, <1>10, <1>11, <1>12, <1>13, <1>14, <1>15, <1>16, <1>17, <1>18, <1>19
     DEF Next

\* The pool is closed only when it is closing, with closeMu free and maintain gone.
ClosedOK == closed => closing /\ closeMu = None /\ maint.pc = "done"

\* It stays so.
LEMMA ClosedStep ==
    ASSUME Inv, LeakInv, Next
    PROVE  ClosedOK'
<1> USE Zenon
<1>1. ASSUME UNCHANGED <<closed, closing, closeMu, maint>> PROVE ClosedOK'
  BY <1>1 DEF ClosedOK, LeakInv, Retiring
<1>2. \A k \in Closers : CloseBegin(k) => ClosedOK'
  BY DEF CloseBegin, ClosedOK, LeakInv, Retiring
<1>3. ASSUME NEW k \in Closers, CloseFinish(k) PROVE ClosedOK'
  BY <1>3 DEF CloseFinish, GoroutinesDone, ClosedOK, LeakInv, Retiring
<1>4. RetireExpired => ClosedOK'
  BY DEF RetireExpired, poolVars, ClosedOK, LeakInv, Retiring
<1>5. RetireNext => ClosedOK'
  BY DEF RetireNext, poolVars, ClosedOK, LeakInv, Retiring
<1>6. MaintainExit => ClosedOK'
  BY DEF MaintainExit, poolVars, ClosedOK, LeakInv, Retiring
<1>7. (\E a \in Callers : AcquireStep(a)) => ClosedOK'
  BY <1>1
     DEF AcquireStep, Acquire, Wake, AcquireDialed, AcquireWatch,
         AcquireDiscard, AcquireReplace, poolVars, Procs
<1>8. (\E p \in LeaseOps : LeaseAcquire(p) \/ Wake(p)) => ClosedOK'
  BY <1>1 DEF LeaseAcquire, Wake, poolVars, Procs
<1>9. (\E p \in Procs : WaitEnds(p)) => ClosedOK'
  BY <1>1 DEF WaitEnds, poolVars
<1>10. CASE \E p \in Ops \cup LeaseOps : DoFails(p) \/ DoStarts(p) \/ OperationEnds(p)
  BY <1>10, <1>1 DEF DoFails, DoStarts, OperationEnds, poolVars
<1>11. CASE \E p \in Ops \cup LeaseOps, who \in {"tracker", "consumer"} :
              ReleaseOnce(p, who)
  BY <1>11, <1>1 DEF ReleaseOnce, poolVars
<1>12. (\E l \in Leases : LeaseClose(l)) => ClosedOK'
  BY <1>1 DEF LeaseClose, poolVars
<1>13. (\E c \in Conns : WatchStep(c) \/ ConnFails(c)) => ClosedOK'
  BY <1>1 DEF WatchStep, WatchDone, WatchReplace, CloseSoon, ConnFails, poolVars
<1>14. (\E e \in Endpoints : ReplaceStep(e) \/ BackoffEnds(e)) => ClosedOK'
  BY <1>1
     DEF ReplaceStep, ReplaceLoop, ReplaceWake, ReplaceDialed, ReplaceWatch,
         ReplaceDiscard, ReplaceExit, BackoffEnds, poolVars
<1>15. (RetireExpired \/ RetireNext \/ MaintainExit) => ClosedOK'
  BY <1>4, <1>5, <1>6
<1>16. (\E k \in Closers : CloseBegin(k) \/ CloseStep(k)) => ClosedOK'
  BY <1>1, <1>2, <1>3
     DEF CloseStep, CloseDrain, CloseWake, CloseTimeout, CloseAll, CloseNext,
         poolVars
<1>17. (\E p \in Procs \cup Closers : ContextDone(p)) => ClosedOK'
  BY <1>1 DEF ContextDone, poolVars
<1> QED
  BY <1>7, <1>8, <1>9, <1>10, <1>11, <1>12, <1>13, <1>14, <1>15, <1>16, <1>17
     DEF Next

\* The watcher of a connection will be started.
Awaits(c) == \/ \E a \in Callers : pc[a] = "watch" /\ on[a] = c
             \/ \E e \in Endpoints : rpc[e] = "watch" /\ rconn[e] = c

\* Every connection of a list is watched, will be, or is left there for its
\* operations.
WatchedOK == \A c \in AllListed : \/ wpc[c] = "running" \/ Awaits(c)
                                  \/ conn[c].broken /\ conn[c].inFlight > 0

\* Whoever was about to start a watcher still is, ...
AwaitKept ==
    /\ \A a \in Callers : pc[a] = "watch" => pc'[a] = "watch" /\ on'[a] = on[a]
    /\ \A e \in Endpoints : rpc[e] = "watch" => rpc'[e] = "watch" /\ rconn'[e] = rconn[e]

\* ... and a broken connection still has operations.
Lasting(c) == conn[c].broken /\ conn[c].inFlight > 0
                 => conn'[c].broken /\ conn'[c].inFlight > 0

\* No step leaves a connection of a list unwatched.
LEMMA WatchedStep ==
    ASSUME Inv, LeakInv, Next
    PROVE  WatchedOK'
\* Then the connections stay watched.
<1> USE Zenon
<1>WatchedFrame.
    ASSUME AwaitKept, UNCHANGED wpc, AllListed' \subseteq AllListed,
           \A c \in AllListed' : Lasting(c)
    PROVE  WatchedOK'
  <2> USE <1>WatchedFrame
  <2>1. \A c \in AllListed : \/ wpc[c] = "running" \/ Awaits(c)
                             \/ conn[c].broken /\ conn[c].inFlight > 0
    BY DEF LeakInv, NoneLeaked, Accounted, Awaits
  <2>2. \A c : Awaits(c) => Awaits(c)'
    BY DEF Awaits, AwaitKept
  <2> QED
    BY <2>1, <2>2 DEF WatchedOK, Lasting
\* So it is when the lists and what connections carry stay.
<1>StillWatched.
    ASSUME AwaitKept, UNCHANGED <<wpc, conns>>,
           \A c \in Conns : Lasting(c)
    PROVE  WatchedOK'
  <2> USE <1>StillWatched
  <2>1. AllListed' = AllListed /\ AllListed \subseteq Conns
    BY ListedSame, ListedDialed DEF AllListed
  <2> QED
    BY <2>1, <1>WatchedFrame
\* What carries the same lasts.
<1>KeptLasts. ConnLoadKept => \A c \in Conns : Lasting(c)
  BY DEF ConnLoadKept, Lasting
\* A call that moves from elsewhere was to start no watcher.
<1>MoveAwait.
    ASSUME NEW p \in Procs, NEW v, pc[p] # "watch", pc' = [pc EXCEPT ![p] = v],
           UNCHANGED on \/ \E x : on' = [on EXCEPT ![p] = x],
           UNCHANGED <<rpc, rconn>>
    PROVE  AwaitKept
  <2> USE <1>MoveAwait
  <2>1. \A q \in Procs : q # p => pc'[q] = pc[q] /\ on'[q] = on[q]
    BY DEF Inv, TypeOK, ProcType
  <2> QED
    BY <2>1 DEF AwaitKept, Procs
\* Nor does a replacement start while another is to start a watcher.
<1>StartAwait. \A e : StartReplacement(e) =>
                  (\A f \in Endpoints : rpc[f] = "watch" => rpc'[f] = "watch")
  BY DEF StartReplacement, Inv, TypeOK, ReplType, LoadInv, ReplPlaced
\* A release takes a broken connection off its list with its last operation.
<1>SettleWatched.
    ASSUME NEW c \in Conns, NEW r \in PooledConnection,
           NEW retire \in BOOLEAN, Settle(c, r, retire),
           r.at = conn[c].at, r.at \in Endpoints, r.broken = conn[c].broken,
           r.leased => conn[c].leased, UNCHANGED wpc, AwaitKept
    PROVE  WatchedOK'
  <2> USE <1>SettleWatched
  <2>1. PICK s \in PooledConnection : SettleEffect(c, r, retire, s)
    BY SettleTakes
  <2>2. /\ \A d \in Conns : d # c => conn'[d] = conn[d]
        /\ conn'[c] = s
    BY <2>1 DEF SettleEffect, Inv, TypeOK, ConnType
  <2>3. /\ s.at = conn[c].at /\ s.broken = conn[c].broken
        /\ conn[c].broken => ~s.leased
    BY <2>1 DEF SettleEffect, Inv, LoadInv
  <2>4. s.inFlight \in Nat
    BY PoolAssumption, SMT DEF PooledConnection
  <2>5. AllListed \subseteq Conns
    BY ListedDialed, SMT DEF AllListed
  <2>6. CASE UNCHANGED conns /\ (s.inFlight = 0 /\ ~s.leased => ~s.broken /\ ~s.retiring)
    <3> USE <2>6
    <3>1. Lasting(c)
      BY <2>2, <2>3, <2>4, SMT DEF Lasting
    <3>2. \A d \in Conns : d # c => Lasting(d)
      BY <2>2 DEF Lasting
    <3> QED
      BY <3>1, <3>2, <1>StillWatched
  <2>7. CASE conns' = [conns EXCEPT ![s.at] = Without(@, c)]
    <3>1. AllListed' = AllListed \ {c}
      BY <2>3, <2>7, ListedDrops
    <3>2. \A d \in AllListed' : Lasting(d)
      BY <2>2, <2>5, <3>1 DEF Lasting
    <3> QED
      BY <3>1, <3>2, <1>WatchedFrame
  <2> QED
    BY <2>1, <2>6, <2>7 DEF SettleEffect
\* Who adds a connection to a list is to start its watcher.
<1>DialWatched.
    ASSUME NEW e \in Endpoints, NEW c, NEW ok, DialEnds(e, c, ok),
           UNCHANGED wpc, AwaitKept, ok /\ ~closing => Awaits(c)'
    PROVE  WatchedOK'
  <2> USE <1>DialWatched
  <2>1. \A d \in Conns : Lasting(d)
    BY DialEndsLoad, <1>KeptLasts
  <2>2. UNCHANGED conns => WatchedOK'
    BY <2>1, <1>StillWatched
  <2>3. CASE ok /\ ~closing /\ c \in Conns /\ conns' = [conns EXCEPT ![e] = Append(@, c)]
    <3> USE <2>3, Zenon
    <3>1. AllListed' = AllListed \cup {c}
      BY ListedGrows
    <3>2. \A d \in AllListed : \/ wpc[d] = "running" \/ Awaits(d)
                               \/ conn[d].broken /\ conn[d].inFlight > 0
      BY DEF LeakInv, NoneLeaked, Accounted, Awaits
    <3>3. \A d : Awaits(d) => Awaits(d)'
      BY DEF Awaits, AwaitKept
    <3>4. AllListed \subseteq Conns
      BY ListedDialed DEF AllListed
    <3> QED
      BY <2>1, <3>1, <3>2, <3>3, <3>4 DEF WatchedOK, Lasting
  <2> QED
    BY <2>2, <2>3 DEF DialEnds, Fresh
\* Connections stay watched across a release.
<1>ReleaseWatched.
    ASSUME NEW p \in Ops \cup LeaseOps, Busy(p), ReleaseOf(p),
           UNCHANGED wpc, AwaitKept
    PROVE  WatchedOK'
  <2> USE <1>ReleaseWatched
  <2>1. PICK c \in Conns : c = ConnOf(p)
    BY HolderDialed
  <2>2. conn[c].at \in Endpoints
    BY <2>1, HolderDialed
  <2>3. PICK r \in PooledConnection, retire \in BOOLEAN : ReleaseEffect(p, c, r, retire)
    BY <2>1, ReleaseTakes
  <2>4. /\ r.at = conn[c].at /\ r.broken = conn[c].broken /\ (r.leased => conn[c].leased)
        /\ Settle(c, r, retire)
    BY <2>3 DEF ReleaseEffect
  <2> QED
    BY <2>2, <2>4, <1>SettleWatched
<1>1. UNCHANGED <<connVars, wpc, pc, on, rpc, rconn>> => WatchedOK'
  BY <1>StillWatched DEF AwaitKept, Lasting, connVars
<1>2. ASSUME NEW a \in Callers, Acquire(a) PROVE WatchedOK'
  <2> USE <1>2
  <2>1. /\ a \in Procs /\ UNCHANGED <<conns, wpc, rpc, rconn>> /\ pc[a] # "watch"
    BY DEF Acquire, Procs, replVars
  <2>2. /\ \E v : pc' = [pc EXCEPT ![a] = v]
        /\ UNCHANGED on \/ \E x : on' = [on EXCEPT ![a] = x]
    BY AcquireTakes DEF Refused, Granted, Dials, Waits, Enqueue
  <2>3. AwaitKept
    BY <2>1, <2>2, <1>MoveAwait
  <2>4. UNCHANGED conn => WatchedOK'
    BY <2>1, <2>3, <1>StillWatched DEF Lasting
  <2>5. ASSUME NEW c \in Conns, Granted(a, c) PROVE \A d \in Conns : Lasting(d)
    <3>1. PICK s \in PooledConnection : GrantEffect(a, c, s)
      BY <2>5, GrantedTakes
    <3>2. /\ \A d \in Conns : d # c => conn'[d] = conn[d]
          /\ conn'[c] = s
      BY <3>1 DEF GrantEffect, Inv, TypeOK, ConnType
    <3>3. conn[c].inFlight \in Nat /\ s.broken = conn[c].broken
          /\ (s.inFlight = conn[c].inFlight \/ s.inFlight = conn[c].inFlight + 1)
      BY <3>1, PoolAssumption, SMT DEF GrantEffect, Inv, TypeOK, ConnType, PooledConnection
    <3> QED
      BY <3>2, <3>3, SMT DEF Lasting
  <2>6. (\E c \in Conns : Granted(a, c)) => WatchedOK'
    BY <2>1, <2>3, <2>5, <1>StillWatched
  <2> QED
    BY <2>4, <2>6, AcquireTakes DEF Refused, Dials, Waits
<1>3. ASSUME NEW p \in Procs, Wake(p) PROVE WatchedOK'
  <2> USE <1>3
  <2>1. /\ p \in Procs /\ UNCHANGED <<conns, conn, wpc, rpc, rconn>> /\ pc[p] # "watch"
    BY DEF Wake, Procs, Callers, connVars, replVars
  <2>2. AwaitKept
    BY <2>1, <1>MoveAwait DEF Wake
  <2> QED
    BY <2>1, <2>2, <1>StillWatched DEF Lasting
<1>4. ASSUME NEW p \in Procs, WaitEnds(p) PROVE WatchedOK'
  <2> USE <1>4
  <2>1. /\ p \in Procs /\ UNCHANGED <<conns, conn, wpc, rpc, rconn>> /\ pc[p] # "watch"
    BY DEF WaitEnds, Procs, Callers, connVars, replVars
  <2>2. AwaitKept
    BY <2>1, <1>MoveAwait DEF WaitEnds
  <2> QED
    BY <2>1, <2>2, <1>StillWatched DEF Lasting
<1>5. ASSUME NEW p \in Ops \cup LeaseOps, DoStarts(p) PROVE WatchedOK'
  <2> USE <1>5
  <2>1. /\ p \in Procs /\ UNCHANGED <<conns, conn, wpc, rpc, rconn>> /\ pc[p] # "watch"
    BY DEF DoStarts, Procs, Callers, connVars, replVars
  <2>2. AwaitKept
    BY <2>1, <1>MoveAwait DEF DoStarts
  <2> QED
    BY <2>1, <2>2, <1>StillWatched DEF Lasting
<1>6. ASSUME NEW a \in Callers, AcquireDiscard(a) PROVE WatchedOK'
  <2> USE <1>6
  <2>1. /\ a \in Procs /\ on[a] \in Conns /\ CloseConn(on[a]) /\ pc[a] # "watch"
        /\ UNCHANGED <<conns, wpc, rpc, rconn>>
    BY DEF AcquireDiscard, Procs, replVars, Inv, LoadInv, Placed
  <2>2. AwaitKept
    BY <2>1, <1>MoveAwait DEF AcquireDiscard
  <2> QED
    BY <2>1, <2>2, CloseConnLoad, <1>KeptLasts, <1>StillWatched
<1>7. ASSUME NEW a \in Callers, AcquireWatch(a) PROVE WatchedOK'
  <2> USE <1>7
  <2>1. UNCHANGED <<conns, conn, rpc, rconn>>
    BY DEF AcquireWatch, connVars, replVars
  <2> USE <2>1
  <2>2. \A d \in Conns : \/ wpc'[d] = "running"
                         \/ wpc'[d] = wpc[d] /\ d # on[a]
    BY DEF AcquireWatch, Inv, TypeOK, ConnType
  <2>3. \A b \in Callers : b # a => pc'[b] = pc[b] /\ on'[b] = on[b]
    BY DEF AcquireWatch, Inv, TypeOK, ProcType, Procs
  <2>4. \A d : d # on[a] /\ Awaits(d) => Awaits(d)'
    BY <2>3 DEF Awaits
  <2>5. AllListed' = AllListed /\ AllListed \subseteq Conns
    BY ListedSame, ListedDialed DEF AllListed
  <2>6. \A c \in AllListed : \/ wpc[c] = "running" \/ Awaits(c)
                             \/ conn[c].broken /\ conn[c].inFlight > 0
    BY DEF LeakInv, NoneLeaked, Accounted, Awaits
  <2> QED
    BY <2>2, <2>4, <2>5, <2>6 DEF WatchedOK
<1>8. ASSUME NEW e \in Endpoints, ReplaceWatch(e) PROVE WatchedOK'
  <2> USE <1>8
  <2>1. UNCHANGED <<conns, conn, pc, on>>
    BY DEF ReplaceWatch, connVars, procVars
  <2> USE <2>1
  <2>2. \A d \in Conns : \/ wpc'[d] = "running"
                         \/ wpc'[d] = wpc[d] /\ d # rconn[e]
    BY DEF ReplaceWatch, Inv, TypeOK, ConnType
  <2>3. \A f \in Endpoints : f # e => rpc'[f] = rpc[f] /\ rconn'[f] = rconn[f]
    BY DEF ReplaceWatch, Inv, TypeOK, ReplType, Procs
  <2>4. \A d : d # rconn[e] /\ Awaits(d) => Awaits(d)'
    BY <2>3 DEF Awaits
  <2>5. AllListed' = AllListed /\ AllListed \subseteq Conns
    BY ListedSame, ListedDialed DEF AllListed
  <2>6. \A c \in AllListed : \/ wpc[c] = "running" \/ Awaits(c)
                             \/ conn[c].broken /\ conn[c].inFlight > 0
    BY DEF LeakInv, NoneLeaked, Accounted, Awaits
  <2> QED
    BY <2>2, <2>4, <2>5, <2>6 DEF WatchedOK
<1>9. ASSUME NEW a \in Callers, AcquireReplace(a) PROVE WatchedOK'
  <2> USE <1>9
  <2>1. /\ a \in Procs /\ UNCHANGED <<conns, conn, wpc, on, rconn>>
        /\ pc[a] # "watch" /\ StartReplacement(target[a])
    BY DEF AcquireReplace, Procs, connVars
  <2> USE <2>1
  <2>2. \A b \in Callers : pc[b] = "watch" => pc'[b] = "watch"
    BY DEF AcquireReplace, Inv, TypeOK, ProcType, Procs
  <2>3. AwaitKept
    BY <2>2, <1>StartAwait DEF AwaitKept
  <2> QED
    BY <2>3, <1>StillWatched DEF Lasting
<1>10. ASSUME NEW a \in Callers, AcquireDialed(a) PROVE WatchedOK'
  <2> USE <1>10
  <2>1. /\ a \in Procs /\ target[a] \in Endpoints /\ pc[a] # "watch"
        /\ UNCHANGED <<wpc, rpc, rconn>>
    BY DEF AcquireDialed, Procs, replVars, Inv, LoadInv, Placed
  <2> USE <2>1
  <2>2. ASSUME NEW c \in Conns, DialEnds(target[a], c, TRUE),
               on' = [on EXCEPT ![a] = c],
               pc' = [pc EXCEPT ![a] = IF closing THEN "discard" ELSE "watch"]
        PROVE  WatchedOK'
    <3> USE <2>2
    <3>1. AwaitKept
      BY <1>MoveAwait
    <3>2. on'[a] = c /\ (~closing => pc'[a] = "watch")
      BY DEF Inv, TypeOK, ProcType
    <3>3. ~closing => Awaits(c)'
      BY <3>2 DEF Awaits
    <3> QED
      BY <3>1, <3>3, <1>DialWatched
  <2>3. ASSUME DialEnds(target[a], None, FALSE), pc' = [pc EXCEPT ![a] = "replace"],
               UNCHANGED on
        PROVE  WatchedOK'
    BY <2>3, <1>MoveAwait, <1>DialWatched
  <2> QED
    BY <2>2, <2>3 DEF AcquireDialed
<1>11. ASSUME NEW p \in LeaseOps, LeaseAcquire(p) PROVE WatchedOK'
  <2> USE <1>11
  <2>1. /\ p \in Procs /\ UNCHANGED <<conns, wpc, on, rpc, rconn>> /\ pc[p] # "watch"
    BY DEF LeaseAcquire, Procs, replVars
  <2>2. \E v : pc' = [pc EXCEPT ![p] = v]
    BY LeaseAcquireTakes DEF LeaseRefuses, LeaseGrants, LeaseWaits, Enqueue
  <2>3. AwaitKept
    BY <2>1, <2>2, <1>MoveAwait
  <2>4. UNCHANGED conn => WatchedOK'
    BY <2>1, <2>3, <1>StillWatched DEF Lasting
  <2>5. CASE LeaseGrants(p)
    <3> USE <2>5
    <3>1. PICK c \in Conns : c = on[Via[p]]
      BY LeaseGrantsTakes
    <3>2. PICK s \in PooledConnection : LeaseGrantEffect(c, s)
      BY <3>1, LeaseGrantsTakes
    <3>3. /\ \A d \in Conns : d # c => conn'[d] = conn[d]
          /\ conn'[c] = s
      BY <3>2 DEF LeaseGrantEffect, Inv, TypeOK, ConnType
    <3>4. conn[c].inFlight \in Nat
      BY PoolAssumption, SMT DEF Inv, TypeOK, ConnType, PooledConnection
    <3>5. \A d \in Conns : Lasting(d)
      BY <3>2, <3>3, <3>4, SMT DEF LeaseGrantEffect, Lasting
    <3> QED
      BY <2>1, <2>3, <3>5, <1>StillWatched
  <2> QED
    BY <2>4, <2>5, LeaseAcquireTakes DEF LeaseRefuses, LeaseWaits
<1>12. ASSUME NEW p \in Ops \cup LeaseOps, DoFails(p) PROVE WatchedOK'
  <2> USE <1>12
  <2>1. /\ p \in Procs /\ pc[p] # "watch" /\ Busy(p) /\ ReleaseOf(p)
        /\ UNCHANGED <<wpc, rpc, rconn>>
    BY DEF DoFails, Procs, Callers, Busy, replVars
  <2>2. AwaitKept
    BY <2>1, <1>MoveAwait DEF DoFails
  <2> QED
    BY <2>1, <2>2, <1>ReleaseWatched
<1>13. ASSUME NEW p \in Ops \cup LeaseOps, NEW who \in {"tracker", "consumer"}, ReleaseOnce(p, who)
      PROVE  WatchedOK'
  <2> USE <1>13
  <2>1. /\ p \in Procs /\ p \in ended /\ UNCHANGED <<wpc, on, rpc, rconn>>
    BY DEF ReleaseOnce, Procs, Callers, replVars
  <2> USE <2>1
  <2>2. CASE Released(p)
    <3>1. UNCHANGED <<pc, conns, conn>>
      BY <2>2 DEF ReleaseOnce, Released, connVars
    <3> QED
      BY <3>1, <1>StillWatched DEF AwaitKept, Lasting
  <2>3. CASE ~Released(p)
    <3> USE <2>3
    <3>1. pc' = [pc EXCEPT ![p] = "done"] /\ ReleaseOf(p)
      BY DEF ReleaseOnce, Released
    <3>2. pc[p] = "open"
      BY DEF Inv, LoadInv, Placed
    <3>3. AwaitKept
      BY <3>1, <3>2, <1>MoveAwait
    <3> QED
      BY <3>1, <3>2, <3>3, <1>ReleaseWatched DEF Busy
  <2> QED
    BY <2>2, <2>3
<1>14. ASSUME NEW l \in Leases, LeaseClose(l) PROVE WatchedOK'
  <2> USE <1>14
  <2>1. /\ l \in Procs /\ pc[l] # "watch" /\ UNCHANGED <<wpc, on, rpc, rconn>>
    BY DEF LeaseClose, Procs, Callers, replVars
  <2>2. AwaitKept
    BY <2>1, <1>MoveAwait DEF LeaseClose
  <2>3. PICK c \in Conns : c = on[l]
    BY LeaseCloseTakes
  <2>4. conn[c].at \in Endpoints
    BY <2>3, LeaseCloseTakes
  <2>5. PICK r \in PooledConnection, retire \in BOOLEAN : LeaseCloseEffect(l, r, retire)
    BY LeaseCloseTakes
  <2>6. /\ r.at = conn[c].at /\ r.broken = conn[c].broken /\ (r.leased => conn[c].leased)
        /\ Settle(c, r, retire)
    BY <2>3, <2>5 DEF LeaseCloseEffect
  <2> QED
    BY <2>1, <2>2, <2>4, <2>6, <1>SettleWatched
<1>15. ASSUME NEW c \in Conns, WatchDone(c) PROVE WatchedOK'
  <2> USE <1>15
  <2>1. UNCHANGED <<pc, on, rpc, rconn>> /\ conn[c].at \in Endpoints
    BY WatchDoneTakes DEF WatchDone, procVars, replVars
  <2>2. PICK s \in PooledConnection : WatchDoneEffect(c, s)
    BY WatchDoneTakes
  <2>3. /\ \A d \in Conns : d # c => conn'[d] = conn[d] /\ wpc'[d] = wpc[d]
        /\ conn'[c] = s
    BY <2>2 DEF WatchDoneEffect, Inv, TypeOK, ConnType
  <2>4. s.at = conn[c].at /\ s.broken /\ s.inFlight \in Nat
    BY <2>2, PoolAssumption, SMT DEF WatchDoneEffect, PooledConnection
  <2>5. \/ AllListed' = AllListed /\ s.inFlight # 0
        \/ AllListed' = AllListed \ {c}
    <3>1. \/ UNCHANGED conns /\ s.inFlight # 0
          \/ conns' = [conns EXCEPT ![s.at] = Without(@, c)]
      BY <2>2 DEF WatchDoneEffect
    <3> QED
      BY <2>1, <2>4, <3>1, ListedSame, ListedDrops
  <2>6. \A d : Awaits(d) => Awaits(d)'
    BY <2>1 DEF Awaits
  <2>7. \A d \in AllListed : /\ d \in Conns
                             /\ \/ wpc[d] = "running" \/ Awaits(d)
                                \/ conn[d].broken /\ conn[d].inFlight > 0
    BY ListedDialed, SMT DEF LeakInv, NoneLeaked, Accounted, Awaits, AllListed
  <2> QED
    BY <2>3, <2>4, <2>5, <2>6, <2>7, SMT DEF WatchedOK
<1>16. ASSUME NEW c \in Conns, WatchReplace(c) PROVE WatchedOK'
  <2> USE <1>16
  <2>1. /\ UNCHANGED <<conns, conn, pc, on, rconn>> /\ wpc[c] = "replace"
        /\ StartReplacement(conn[c].at)
    BY DEF WatchReplace, procVars, connVars
  <2> USE <2>1
  <2>2. \A d : Awaits(d) => Awaits(d)'
    BY <1>StartAwait DEF Awaits
  <2>3. \A d \in Conns : wpc[d] = "running" => wpc'[d] = "running"
    BY DEF WatchReplace, Inv, TypeOK, ConnType
  <2>4. \A d \in AllListed : /\ d \in Conns
                             /\ \/ wpc[d] = "running" \/ Awaits(d)
                                \/ conn[d].broken /\ conn[d].inFlight > 0
    BY ListedDialed DEF LeakInv, NoneLeaked, Accounted, Awaits, AllListed
  <2> QED
    BY <2>2, <2>3, <2>4, ListedSame DEF WatchedOK
<1>17. ASSUME NEW c \in Conns, CloseSoon(c) PROVE WatchedOK'
  <2>1. UNCHANGED <<conns, wpc, pc, on, rpc, rconn>> /\ CloseConn(c)
    BY <1>17 DEF CloseSoon, procVars, replVars
  <2> QED
    BY <2>1, CloseConnLoad, <1>KeptLasts, <1>StillWatched DEF AwaitKept
<1>18. ASSUME NEW c \in Conns, ConnFails(c) PROVE WatchedOK'
  <2>1. UNCHANGED <<conns, wpc, pc, on, rpc, rconn>> /\ CloseConn(c)
    BY <1>18 DEF ConnFails, procVars, replVars
  <2> QED
    BY <2>1, CloseConnLoad, <1>KeptLasts, <1>StillWatched DEF AwaitKept
<1>19. ASSUME NEW e \in Endpoints, ReplaceLoop(e) PROVE WatchedOK'
  <2> USE <1>19
  <2>1. UNCHANGED <<conns, conn, wpc, pc, on>>
    BY DEF ReplaceLoop, procVars, connVars
  <2>2. \A f \in Endpoints : rpc[f] = "watch" => rpc'[f] = "watch" /\ rconn'[f] = rconn[f]
    BY DEF ReplaceLoop, Inv, TypeOK, ReplType
  <2> QED
    BY <2>1, <2>2, <1>StillWatched DEF AwaitKept, Lasting
<1>20. ASSUME NEW e \in Endpoints, ReplaceWake(e) PROVE WatchedOK'
  <2> USE <1>20
  <2>1. UNCHANGED <<conns, conn, wpc, pc, on>>
    BY DEF ReplaceWake, procVars, connVars
  <2>2. \A f \in Endpoints : rpc[f] = "watch" => rpc'[f] = "watch" /\ rconn'[f] = rconn[f]
    BY DEF ReplaceWake, Inv, TypeOK, ReplType
  <2> QED
    BY <2>1, <2>2, <1>StillWatched DEF AwaitKept, Lasting
<1>21. ASSUME NEW e \in Endpoints, ReplaceExit(e) PROVE WatchedOK'
  <2> USE <1>21
  <2>1. UNCHANGED <<conns, conn, wpc, pc, on>>
    BY DEF ReplaceExit, procVars, connVars
  <2>2. \A f \in Endpoints : rpc[f] = "watch" => rpc'[f] = "watch" /\ rconn'[f] = rconn[f]
    BY DEF ReplaceExit, Inv, TypeOK, ReplType
  <2> QED
    BY <2>1, <2>2, <1>StillWatched DEF AwaitKept, Lasting
<1>22. ASSUME NEW e \in Endpoints, ReplaceDialed(e) PROVE WatchedOK'
  <2> USE <1>22
  <2>1. UNCHANGED <<wpc, pc, on>> /\ rpc[e] = "dialing"
    BY DEF ReplaceDialed, procVars
  <2> USE <2>1
  <2>2. ASSUME NEW c \in Conns, DialEnds(e, c, TRUE), rconn' = [rconn EXCEPT ![e] = c],
               rpc' = [rpc EXCEPT ![e] = IF closing THEN "discard" ELSE "watch"]
        PROVE  WatchedOK'
    <3> USE <2>2
    <3>1. /\ \A f \in Endpoints : f # e => rpc'[f] = rpc[f] /\ rconn'[f] = rconn[f]
          /\ rconn'[e] = c /\ (~closing => rpc'[e] = "watch")
      BY DEF Inv, TypeOK, ReplType
    <3>2. AwaitKept /\ (~closing => Awaits(c)')
      BY <3>1 DEF AwaitKept, Awaits
    <3> QED
      BY <3>2, <1>DialWatched
  <2>3. ASSUME DialEnds(e, None, FALSE), rpc' = [rpc EXCEPT ![e] = "loop"], UNCHANGED rconn
        PROVE  WatchedOK'
    <3> USE <2>3
    <3>1. AwaitKept
      BY DEF AwaitKept, Inv, TypeOK, ReplType
    <3> QED
      BY <3>1, <1>DialWatched
  <2> QED
    BY <2>2, <2>3 DEF ReplaceDialed
<1>23. ASSUME NEW e \in Endpoints, ReplaceDiscard(e) PROVE WatchedOK'
  <2> USE <1>23
  <2>1. /\ rconn[e] \in Conns /\ CloseConn(rconn[e]) /\ rpc[e] = "discard"
        /\ UNCHANGED <<conns, wpc, pc, on>>
    BY DEF ReplaceDiscard, procVars, Inv, LoadInv, ReplPlaced
  <2>2. \A f \in Endpoints : f # e => rpc'[f] = rpc[f] /\ rconn'[f] = rconn[f]
    BY DEF ReplaceDiscard, Inv, TypeOK, ReplType
  <2>3. AwaitKept
    BY <2>1, <2>2 DEF AwaitKept
  <2> QED
    BY <2>1, <2>3, CloseConnLoad, <1>KeptLasts, <1>StillWatched
<1>24. ASSUME RetireExpired PROVE WatchedOK'
  <2> USE <1>24
  <2>1. UNCHANGED <<conns, wpc, pc, on, rpc, rconn>>
    BY DEF RetireExpired, procVars, replVars
  <2>2. PICK gone \in SUBSET AllListed, bare \in SUBSET Endpoints : RetireEffect(gone, bare)
    BY RetireExpiredTakes
  <2>3. \A c \in Conns : conn[c] \in PooledConnection
    BY DEF Inv, TypeOK, ConnType
  <2>4. ConnLoadKept
    BY <2>2, <2>3 DEF RetireEffect, PooledConnection, ConnLoadKept
  <2> QED
    BY <2>1, <2>4, <1>KeptLasts, <1>StillWatched DEF AwaitKept
<1>25. ASSUME RetireNext PROVE WatchedOK'
  <2> USE <1>25
  <2>1. UNCHANGED <<conns, wpc, pc, on, rconn>>
    BY DEF RetireNext, procVars
  <2>2. ConnLoadKept
    BY RetireNextTakes, CloseConnLoad DEF ClosesOne, ReplacesOne, ConnLoadKept
  <2>3. \A f \in Endpoints : rpc[f] = "watch" => rpc'[f] = "watch"
    BY RetireNextTakes, <1>StartAwait DEF ClosesOne, ReplacesOne
  <2> QED
    BY <2>1, <2>2, <2>3, <1>KeptLasts, <1>StillWatched DEF AwaitKept
<1>26. ASSUME NEW k \in Closers, CloseAll(k) PROVE WatchedOK'
  <2>1. /\ UNCHANGED <<conns, wpc, pc, on, rpc, rconn>>
        /\ conn' = [c \in Conns |-> [conn[c] EXCEPT !.retiring = @ \/ c \in AllListed]]
    BY <1>26 DEF CloseAll, procVars, replVars
  <2>2. \A c \in Conns : conn[c] \in PooledConnection
    BY DEF Inv, TypeOK, ConnType
  <2>3. ConnLoadKept
    BY <2>1, <2>2 DEF PooledConnection, ConnLoadKept
  <2> QED
    BY <2>1, <2>3, <1>KeptLasts, <1>StillWatched DEF AwaitKept
<1>27. ASSUME NEW k \in Closers, CloseNext(k) PROVE WatchedOK'
  <2> USE <1>27
  <2>1. UNCHANGED <<conns, wpc, pc, on, rpc, rconn>>
    BY DEF CloseNext, procVars, replVars
  <2>2. ConnLoadKept
    BY CloseConnLoad DEF CloseNext, Inv, TypeOK, CloseType
  <2> QED
    BY <2>1, <2>2, <1>KeptLasts, <1>StillWatched DEF AwaitKept
<1>28. CASE \E a \in Callers : AcquireStep(a)
  BY <1>28, <1>2, <1>3, <1>10, <1>7, <1>6, <1>9 DEF AcquireStep, Procs
<1>29. CASE \E p \in LeaseOps : LeaseAcquire(p) \/ Wake(p)
  BY <1>29, <1>11, <1>3 DEF Procs
<1>30. CASE \E p \in Procs : WaitEnds(p)
  BY <1>30, <1>4
<1>31. CASE \E p \in Ops \cup LeaseOps : DoFails(p) \/ DoStarts(p) \/ OperationEnds(p)
  BY <1>31, <1>1, <1>12, <1>5 DEF OperationEnds, connVars, procVars, replVars
<1>32. CASE \E p \in Ops \cup LeaseOps, who \in {"tracker", "consumer"} :
              ReleaseOnce(p, who)
  BY <1>32, <1>13
<1>33. CASE \E l \in Leases : LeaseClose(l)
  BY <1>33, <1>14
<1>34. CASE \E c \in Conns : WatchStep(c) \/ ConnFails(c)
  BY <1>34, <1>15, <1>16, <1>17, <1>18 DEF WatchStep
<1>35. CASE \E e \in Endpoints : ReplaceStep(e) \/ BackoffEnds(e)
  BY <1>35, <1>1, <1>19, <1>20, <1>22, <1>8, <1>23, <1>21
     DEF ReplaceStep, BackoffEnds, connVars, procVars, replVars
<1>36. CASE RetireExpired \/ RetireNext \/ MaintainExit
  BY <1>36, <1>1, <1>24, <1>25 DEF MaintainExit, connVars, procVars, replVars
<1>37. CASE \E k \in Closers : CloseBegin(k) \/ CloseStep(k)
  BY <1>37, <1>1, <1>26, <1>27
     DEF CloseStep, CloseBegin, CloseDrain, CloseWake, CloseTimeout,
         CloseFinish, connVars, procVars, replVars
<1>38. CASE \E p \in Procs \cup Closers : ContextDone(p)
  BY <1>38, <1>1 DEF ContextDone, connVars, procVars, replVars
<1> QED
  BY <1>28, <1>29, <1>30, <1>31, <1>32, <1>33, <1>34, <1>35, <1>36, <1>37, <1>38
     DEF Next

\* At the start the connections that are up are in the lists, and watched.
LEMMA LeakInit ==
    ASSUME Init
    PROVE  LeakInv
<1> USE Zenon
<1>1. PICK first \in [Endpoints -> Conns] :
         /\ conns = [e \in Endpoints |-> <<first[e]>>]
         /\ conn = [c \in Conns |-> IF \E e \in Endpoints : first[e] = c
                                    THEN Dialed(CHOOSE e \in Endpoints : first[e] = c)
                                    ELSE NoConn]
         /\ wpc = [c \in Conns |-> IF \E e \in Endpoints : first[e] = c
                                   THEN "running" ELSE "none"]
  BY DEF Init
<1> USE <1>1
<1>2. \A e \in Endpoints : Listed(e) = {first[e]}
  BY SMT DEF Listed
<1>3. \A c : c \in AllListed <=> \E e \in Endpoints : first[e] = c
  BY <1>2 DEF AllListed
<1>4. \A c \in AllListed : wpc[c] = "running"
  BY <1>3
<1>5. \A c \in Conns : conn[c].broken = FALSE /\ conn[c].retiring = FALSE
  BY DEF Dialed, NoConn
<1>6. \A c \in Conns : conn[c].up => c \in AllListed
  BY <1>3 DEF NoConn
<1>7. /\ maint.pc = "idle" /\ maint.close = {} /\ maint.replace = {} /\ closed = FALSE
      /\ \A k \in Closers : kpc[k] = "idle" /\ toClose[k] = {}
  BY DEF Init
<1> QED
  BY <1>4, <1>5, <1>6, <1>7 DEF LeakInv, NoneLeaked, Accounted, ShutdownComplete, Retiring

\* Connections stay accounted for.
LEMMA LeakStep ==
    ASSUME Inv, LeakInv, [Next]_vars
    PROVE  LeakInv'
<1> USE Zenon
<1>1. CASE Next
  <2> USE <1>1
  <2>1. UpOK' /\ ShutdownComplete' /\ MaintOK' /\ ClosedOK' /\ WatchedOK'
    BY UpStep, ShutStep, MaintStep, ClosedStep, WatchedStep
  <2> USE <2>1
  <2>2. \A k \in Closers : CloserOK(k)'
    BY CloserStep
  <2>3. Accounted'
    BY DEF UpOK, WatchedOK, Accounted, Hands, Soon, Awaits
  <2>4. Retiring'
    BY <2>2 DEF UpOK, MaintOK, ClosedOK, CloserOK, Retiring, Hands, Soon
  <2> QED
    BY <2>3, <2>4 DEF LeakInv, NoneLeaked
<1>2. CASE UNCHANGED vars
  <2>1. UNCHANGED <<conns, conn, closeSoon, maint, toClose, kpc, pc, on, rpc, rconn, wpc,
                    closing, closed, closeMu>>
    BY <1>2 DEF vars, connVars, procVars, replVars, closeVars, poolVars
  <2>2. /\ AllListed' = AllListed
        /\ \A c : Discarding(c)' <=> Discarding(c)
    BY <2>1, ListedSame DEF Discarding
  <2> QED
    BY <2>1, <2>2 DEF LeakInv, NoneLeaked, Accounted, ShutdownComplete, Retiring
<1> QED
  BY <1>1, <1>2

-----------------------------------------------------------------------------
(***************************************************************************)
(* No wakeup is lost.                                                      *)
(***************************************************************************)

\* Who is still asleep after the step slept before it, with the same timer.
SleepersKept ==
    /\ sleeping' \subseteq sleeping
    /\ \A p \in sleeping' : p \in armed => p \in armed'
    /\ \A p \in sleeping' \cap Procs : pc'[p] = pc[p]
    /\ \A k \in sleeping' \cap Closers : kpc'[k] = kpc[k]

\* No connection has more capacity than before, ...
Tighter(c) ==
    /\ conn'[c].broken = conn[c].broken /\ conn'[c].draining = conn[c].draining
    /\ conn[c].leased => conn'[c].leased
    /\ conn'[c].inFlight >= conn[c].inFlight

\* ... and no endpoint more room.
Crowded == /\ \A c \in Conns : Tighter(c)
           /\ UNCHANGED <<conns, dialing>>

\* Then no connection becomes usable, no work ends and no room appears.
LEMMA CrowdedStays ==
    ASSUME Inv, Inv', Crowded, NEW p
    PROVE  /\ \A e : Listed(e)' = Listed(e)
           /\ \A c \in Conns : Usable(p, c)' => Usable(p, c)
           /\ Active # {} => Active' # {}
           /\ Scope(p) \subseteq Endpoints => Room(p)' = Room(p)
<1> USE Zenon
<1>1. \A e : Listed(e)' = Listed(e)
  BY DEF Crowded, Listed
<1>2. \A c \in Conns : conn[c].inFlight \in Nat /\ conn'[c].inFlight \in Nat
  BY PoolAssumption, SMT DEF Inv, TypeOK, ConnType, PooledConnection
<1>3. \A c \in Conns : Usable(p, c)' => Usable(p, c)
  BY <1>2, PoolAssumption, SMT DEF Crowded, Tighter, Usable
<1>4. AllListed' = AllListed /\ AllListed \subseteq Conns
  BY ListedSame, ListedDialed DEF Crowded, AllListed
<1>5. Active \subseteq Active'
  BY <1>2, <1>4, SMT DEF Active, Crowded, Tighter
<1>6. ASSUME NEW e \in Endpoints PROVE Load(e)' = Load(e)
  <2>1. Listed(e) \subseteq Conns
    BY ListedDialed
  <2>2. LiveConns(e)' = LiveConns(e)
    BY <1>1, <2>1 DEF LiveConns, Crowded, Tighter
  <2> QED
    BY <2>2 DEF Load, Crowded
<1>7. Scope(p)' = Scope(p)
  BY DEF Scope
<1>8. Scope(p) \subseteq Endpoints => Room(p)' = Room(p)
  BY <1>6, <1>7 DEF Room
<1> QED
  BY <1>1, <1>3, <1>5, <1>8

\* Sleepers who slept before still have reason to.
LEMMA SleepersStay ==
    ASSUME Inv, Inv', WakeInv, SleepersKept, Crowded,
           UNCHANGED <<closing, leaseClosed, leaseFlight>>
    PROVE  WakeInv'
<1> USE Zenon
<1>1. ASSUME NEW p \in sleeping' \cap Callers
      PROVE  /\ ~closing'
             /\ \A e \in Scope(p)' : \A c \in Listed(e)' : ~Usable(p, c)'
             /\ p \in armed' \/ Room(p)' = {}
  <2> USE <1>1
  <2>1. /\ ~closing /\ (p \in armed \/ Room(p) = {})
        /\ \A e \in Scope(p) : \A c \in Listed(e) : ~Usable(p, c)
    BY DEF WakeInv, SleepersKept
  <2>2. Scope(p)' = Scope(p) /\ Scope(p) \subseteq Endpoints
    BY InScope DEF Scope
  <2>3. \A e \in Endpoints : Listed(e) \subseteq Conns
    BY ListedDialed
  <2> QED
    BY <2>1, <2>2, <2>3, CrowdedStays DEF SleepersKept
<1>2. ASSUME NEW p \in sleeping' \cap LeaseOps
      PROVE  /\ ~closing' /\ Via[p] \notin leaseClosed'
             /\ leaseFlight'[Via[p]] = MaxInFlightPerConnection
  BY <1>2 DEF WakeInv, SleepersKept
<1>3. \A k \in sleeping' \cap Closers : Active' # {}
  BY CrowdedStays DEF WakeInv, SleepersKept
<1>4. /\ \A p \in sleeping' \cap Procs : pc'[p] = "asleep"
      /\ \A k \in sleeping' \cap Closers : kpc'[k] = "asleep"
  BY DEF WakeInv, SleepersKept
<1> QED
  BY <1>1, <1>2, <1>3, <1>4 DEF WakeInv

\* acquire finds no connection to select only when none has capacity for it.
LEMMA NoneSelectable ==
    ASSUME Inv, NEW a \in Callers
    PROVE  Selectable(a) = {} <=> \A e \in Scope(a) : \A c \in Listed(e) : ~Usable(a, c)
  BY Zenon DEF Inv, LeastSelected

\* A step that leaves the capacity alone, ...
LEMMA StillCrowded ==
    ASSUME Inv, UNCHANGED <<conns, conn, dialing>>
    PROVE  Crowded
  BY PoolAssumption DEF Crowded, Tighter, Inv, TypeOK, ConnType, PooledConnection

\* Every step that gives capacity signals, and every sleeper has looked.
LEMMA WakeStep ==
    ASSUME Inv, Inv', WakeInv, Next
    PROVE  WakeInv'
\* signalLocked wakes everyone.
<1> USE Zenon
<1>SignalWakes. Signal => WakeInv'
  BY DEF Signal, WakeInv
\* A call that moves while awake wakes nobody, and takes no one's reason.
<1>AwakeMoves.
    ASSUME NEW p \in Procs, pc[p] # "asleep",
           \E v : pc' = [pc EXCEPT ![p] = v], UNCHANGED <<sleeping, armed, kpc>>
    PROVE  SleepersKept
  <2> USE <1>AwakeMoves
  <2>1. p \notin sleeping
    BY DEF WakeInv
  <2>2. \A q \in Procs : q # p => pc'[q] = pc[q]
    BY DEF Inv, TypeOK, ProcType
  <2> QED
    BY <2>1, <2>2 DEF SleepersKept
\* Enqueue adds at most the call itself to the sleepers.
<1>EnqueueSleeps.
    ASSUME NEW p \in Procs, NEW timer \in BOOLEAN, Enqueue(p, timer),
           pc[p] # "asleep", UNCHANGED kpc
    PROVE  \/ SleepersKept
           \/ /\ sleeping' = sleeping \cup {p} /\ (timer => p \in armed')
              /\ pc'[p] = "asleep" /\ p \notin sleeping
              /\ \A q \in sleeping : q \in armed => q \in armed'
              /\ \A q \in Procs : q # p => pc'[q] = pc[q]
  <2> USE <1>EnqueueSleeps
  <2>1. p \notin sleeping /\ \A q \in sleeping \cap Procs : q # p
    BY DEF WakeInv
  <2>2. CASE /\ pc' = [pc EXCEPT ![p] = "failed"]
             /\ UNCHANGED waitVars
    BY <2>2, <1>AwakeMoves DEF waitVars
  <2>3. CASE /\ pc' = [pc EXCEPT ![p] = "asleep"] /\ sleeping' = sleeping \cup {p}
             /\ armed' = IF timer THEN armed \cup {p} ELSE armed \ {p}
    <3> USE <2>3
    <3>1. pc'[p] = "asleep" /\ \A q \in Procs : q # p => pc'[q] = pc[q]
      BY DEF Inv, TypeOK, ProcType
    <3> QED
      BY <2>1, <3>1
  <2> QED
    BY <2>2, <2>3 DEF Enqueue
\* A new sleeper with a reason to sleep joins the others.
<1>SleeperJoins.
    ASSUME Inv', WakeInv, NEW p \in Procs, UNCHANGED <<closing, leaseClosed, leaseFlight, kpc>>,
           Crowded, sleeping' = sleeping \cup {p}, pc'[p] = "asleep", p \notin sleeping,
           \A q \in sleeping : q \in armed => q \in armed',
           \A q \in Procs : q # p => pc'[q] = pc[q],
           ~closing,
           p \in Callers => /\ \A e \in Scope(p) : \A c \in Listed(e) : ~Usable(p, c)
                            /\ p \in armed' \/ Room(p) = {},
           p \in LeaseOps => /\ Via[p] \notin leaseClosed
                             /\ leaseFlight[Via[p]] = MaxInFlightPerConnection
    PROVE  WakeInv'
  <2> USE <1>SleeperJoins, Zenon
  <2>1. p \notin Closers
    BY PoolAssumption
  <2>2. ASSUME NEW q \in sleeping' \cap Callers
        PROVE  /\ ~closing'
               /\ \A e \in Scope(q)' : \A c \in Listed(e)' : ~Usable(q, c)'
               /\ q \in armed' \/ Room(q)' = {}
    <3> USE <2>2
    <3>1. /\ q \in armed' \/ Room(q) = {}
          /\ \A e \in Scope(q) : \A c \in Listed(e) : ~Usable(q, c)
      BY DEF WakeInv
    <3>2. Scope(q)' = Scope(q) /\ Scope(q) \subseteq Endpoints
      BY InScope DEF Scope
    <3>3. \A e \in Endpoints : Listed(e) \subseteq Conns
      BY ListedDialed
    <3> QED
      BY <3>1, <3>2, <3>3, CrowdedStays
  <2>3. ASSUME NEW q \in sleeping' \cap LeaseOps
        PROVE  /\ ~closing' /\ Via[q] \notin leaseClosed'
               /\ leaseFlight'[Via[q]] = MaxInFlightPerConnection
    BY <2>3 DEF WakeInv
  <2>4. \A k \in sleeping' \cap Closers : Active' # {} /\ kpc'[k] = "asleep"
    BY <2>1, CrowdedStays DEF WakeInv
  <2>5. \A q \in sleeping' \cap Procs : pc'[q] = "asleep"
    BY DEF WakeInv
  <2> QED
    BY <2>2, <2>3, <2>4, <2>5 DEF WakeInv
\* ... and one that only closes a connection: acquire does not look at it.
<1>CloseCrowded. \A c \in Conns : CloseConn(c) /\ UNCHANGED <<conns, dialing>> =>
                    Crowded
  BY PoolAssumption, SMT
     DEF CloseConn, Crowded, Tighter, Inv, TypeOK, ConnType, PooledConnection
<1>1. UNCHANGED <<closing, waitVars, dialing, conns, conn, leaseVars, pc, kpc>> =>
         WakeInv'
  BY StillCrowded, SleepersStay DEF SleepersKept, waitVars, leaseVars
<1>2. ASSUME NEW a \in Callers, Acquire(a) PROVE WakeInv'
  <2> USE <1>2
  <2>1. /\ a \in Procs /\ UNCHANGED <<closing, conns, leaseClosed, leaseFlight, kpc>>
        /\ pc[a] # "asleep" /\ a \notin LeaseOps
    BY PoolAssumption DEF Acquire, Procs, poolVars, leaseVars, closeVars
  <2>2. CASE Refused(a)
    <3>1. UNCHANGED <<conn, dialing, sleeping, armed>> /\ \E v : pc' = [pc EXCEPT ![a] = v]
      BY <2>2 DEF Refused
    <3> QED
      BY <2>1, <3>1, <1>AwakeMoves, StillCrowded, SleepersStay
  <2>3. ASSUME NEW c \in Conns, Granted(a, c) PROVE WakeInv'
    <3> USE <2>3
    <3>1. UNCHANGED <<dialing, sleeping, armed>> /\ \E v : pc' = [pc EXCEPT ![a] = v]
      BY DEF Granted
    <3>2. PICK s \in PooledConnection : GrantEffect(a, c, s)
      BY GrantedTakes
    <3>3. /\ \A d \in Conns : d # c => conn'[d] = conn[d]
          /\ conn'[c] = s
      BY <3>2 DEF GrantEffect, Inv, TypeOK, ConnType
    <3>4. \A d \in Conns : conn[d].inFlight \in Nat
      BY PoolAssumption, SMT DEF Inv, TypeOK, ConnType, PooledConnection
    <3>5. Usable(a, c)
      BY SelectableUsable DEF Granted
    <3>6. Tighter(c)
      BY <3>2, <3>3, <3>4, <3>5, SMT DEF Tighter, GrantEffect, Usable
    <3>7. \A d \in Conns : d # c => Tighter(d)
      BY <3>3, <3>4, SMT DEF Tighter
    <3>8. Crowded
      BY <2>1, <3>1, <3>6, <3>7 DEF Crowded
    <3> QED
      BY <2>1, <3>1, <3>8, <1>AwakeMoves, SleepersStay
  <2>4. \A e \in Endpoints : Dials(a, e) => WakeInv'
    BY <1>SignalWakes DEF Dials
  <2>5. CASE Waits(a)
    <3>1. /\ ~closing /\ Selectable(a) = {} /\ UNCHANGED <<conn, dialing>>
          /\ Enqueue(a, Room(a) # {})
      BY <2>5 DEF Waits
    <3> USE <3>1
    <3>2. Crowded
      BY <2>1, StillCrowded
    <3>3. \A e \in Scope(a) : \A c \in Listed(e) : ~Usable(a, c)
      BY NoneSelectable
    <3>4. SleepersKept => WakeInv'
      BY <2>1, <3>2, SleepersStay
    <3>5. CASE /\ sleeping' = sleeping \cup {a} /\ (Room(a) # {} => a \in armed')
               /\ pc'[a] = "asleep" /\ a \notin sleeping
               /\ \A q \in sleeping : q \in armed => q \in armed'
               /\ \A q \in Procs : q # a => pc'[q] = pc[q]
      BY <2>1, <3>2, <3>3, <3>5, <1>SleeperJoins
    <3> QED
      BY <2>1, <3>4, <3>5, <1>EnqueueSleeps
  <2> QED
    BY <2>2, <2>3, <2>4, <2>5, AcquireTakes
<1>3. ASSUME NEW p \in LeaseOps, LeaseAcquire(p) PROVE WakeInv'
  <2> USE <1>3
  <2>1. /\ p \in Procs /\ UNCHANGED <<closing, conns, dialing, leaseClosed, kpc>>
        /\ pc[p] # "asleep" /\ p \notin Callers
    BY PoolAssumption
       DEF LeaseAcquire, Procs, poolVars, dialVars, leaseVars, closeVars
  <2>2. CASE LeaseRefuses(p)
    <3>1. UNCHANGED <<conn, leaseFlight, sleeping, armed>> /\ \E v : pc' = [pc EXCEPT ![p] = v]
      BY <2>2 DEF LeaseRefuses
    <3> QED
      BY <2>1, <3>1, <1>AwakeMoves, StillCrowded, SleepersStay
  <2>3. LeaseGrants(p) => WakeInv'
    BY <1>SignalWakes DEF LeaseGrants
  <2>4. CASE LeaseWaits(p)
    <3>1. /\ Via[p] \notin leaseClosed /\ ~closing /\ UNCHANGED <<conn, leaseFlight>>
          /\ leaseFlight[Via[p]] >= MaxInFlightPerConnection /\ Enqueue(p, FALSE)
      BY <2>4 DEF LeaseWaits
    <3> USE <3>1
    <3>2. leaseFlight[Via[p]] \in 0..MaxInFlightPerConnection
      BY PoolAssumption DEF Inv, TypeOK, LeaseType
    <3>3. leaseFlight[Via[p]] = MaxInFlightPerConnection
      BY <3>2, PoolAssumption, SMT
    <3>4. Crowded
      BY <2>1, StillCrowded
    <3>5. SleepersKept => WakeInv'
      BY <2>1, <3>4, SleepersStay
    <3>6. CASE /\ sleeping' = sleeping \cup {p}
               /\ pc'[p] = "asleep" /\ p \notin sleeping
               /\ \A q \in sleeping : q \in armed => q \in armed'
               /\ \A q \in Procs : q # p => pc'[q] = pc[q]
      BY <2>1, <3>3, <3>4, <3>6, <1>SleeperJoins
    <3> QED
      BY <2>1, <3>5, <3>6, <1>EnqueueSleeps
  <2> QED
    BY <2>2, <2>3, <2>4, LeaseAcquireTakes
<1>4. ASSUME NEW p \in Procs, Wake(p) PROVE WakeInv'
  <2> USE <1>4, Zenon
  <2>1. /\ UNCHANGED <<closing, leaseClosed, leaseFlight, conns, conn, dialing, kpc>>
        /\ sleeping' = sleeping \ {p} /\ armed' = armed \ {p}
    BY DEF Wake, poolVars, closeVars, leaseVars, connVars, dialVars
  <2>2. \A q \in Procs : q # p => pc'[q] = pc[q]
    BY DEF Wake, Inv, TypeOK, ProcType
  <2>3. SleepersKept
    BY <2>1, <2>2 DEF SleepersKept
  <2> QED
    BY <2>1, <2>3, StillCrowded, SleepersStay
<1>5. ASSUME NEW p \in Procs, WaitEnds(p) PROVE WakeInv'
  <2> USE <1>5
  <2>1. /\ UNCHANGED <<closing, leaseClosed, leaseFlight, conns, conn, dialing, kpc>>
        /\ sleeping' = sleeping \ {p} /\ armed' = armed \ {p}
    BY DEF WaitEnds, poolVars, closeVars, leaseVars, connVars, dialVars
  <2>2. \A q \in Procs : q # p => pc'[q] = pc[q]
    BY DEF WaitEnds, Inv, TypeOK, ProcType
  <2>3. SleepersKept
    BY <2>1, <2>2 DEF SleepersKept
  <2> QED
    BY <2>1, <2>3, StillCrowded, SleepersStay
<1>6. ASSUME NEW p \in Ops \cup LeaseOps, DoStarts(p) PROVE WakeInv'
  <2> USE <1>6
  <2>1. /\ p \in Procs /\ UNCHANGED <<closing, leaseClosed, leaseFlight, sleeping, armed, kpc>>
        /\ UNCHANGED <<conns, conn, dialing>> /\ pc[p] # "asleep"
    BY DEF DoStarts, Procs, Callers, poolVars, waitVars, closeVars, leaseVars,
           connVars, dialVars
  <2>2. SleepersKept
    BY <2>1, <1>AwakeMoves DEF DoStarts
  <2> QED
    BY <2>1, <2>2, StillCrowded, SleepersStay
<1>7. ASSUME NEW a \in Callers, AcquireWatch(a) PROVE WakeInv'
  <2> USE <1>7
  <2>1. /\ a \in Procs /\ UNCHANGED <<closing, leaseClosed, leaseFlight, sleeping, armed, kpc>>
        /\ UNCHANGED <<conns, conn, dialing>> /\ pc[a] # "asleep"
    BY DEF AcquireWatch, Procs, Callers, poolVars, waitVars, closeVars,
           leaseVars, connVars, dialVars
  <2>2. SleepersKept
    BY <2>1, <1>AwakeMoves DEF AcquireWatch
  <2> QED
    BY <2>1, <2>2, StillCrowded, SleepersStay
<1>8. ASSUME NEW a \in Callers, AcquireReplace(a) PROVE WakeInv'
  <2> USE <1>8
  <2>1. /\ a \in Procs /\ UNCHANGED <<closing, leaseClosed, leaseFlight, sleeping, armed, kpc>>
        /\ UNCHANGED <<conns, conn, dialing>> /\ pc[a] # "asleep"
    BY DEF AcquireReplace, Procs, Callers, poolVars, waitVars, closeVars,
           leaseVars, connVars, dialVars
  <2>2. SleepersKept
    BY <2>1, <1>AwakeMoves DEF AcquireReplace
  <2> QED
    BY <2>1, <2>2, StillCrowded, SleepersStay
<1>9. \A a \in Callers : AcquireDialed(a) => WakeInv'
  BY <1>SignalWakes DEF AcquireDialed, DialEnds
<1>10. \A e \in Endpoints : ReplaceDialed(e) => WakeInv'
  BY <1>SignalWakes DEF ReplaceDialed, DialEnds
<1>11. ASSUME NEW a \in Callers, AcquireDiscard(a) PROVE WakeInv'
  <2> USE <1>11
  <2>1. /\ a \in Procs /\ on[a] \in Conns /\ CloseConn(on[a]) /\ pc[a] # "asleep"
        /\ UNCHANGED <<closing, leaseClosed, leaseFlight, sleeping, armed, kpc, conns, dialing>>
    BY DEF AcquireDiscard, Procs, poolVars, waitVars, closeVars, leaseVars,
           dialVars, Inv, LoadInv, Placed
  <2>2. SleepersKept
    BY <2>1, <1>AwakeMoves DEF AcquireDiscard
  <2> QED
    BY <2>1, <2>2, <1>CloseCrowded, SleepersStay
<1>12. \A p \in Ops \cup LeaseOps : DoFails(p) => WakeInv'
  BY <1>SignalWakes
     DEF DoFails, ReleaseOf, ReleaseOperation, ReleaseLeaseOperation, Settle
<1>13. ASSUME NEW p \in Ops \cup LeaseOps, NEW who \in {"tracker", "consumer"}, ReleaseOnce(p, who)
      PROVE  WakeInv'
  <2> USE <1>13
  <2>1. Signal => WakeInv'
    BY <1>SignalWakes
  <2>2. CASE UNCHANGED <<pc, conns, conn, leaseFlight, sleeping>>
    <3>1. UNCHANGED <<closing, leaseClosed, kpc, armed, dialing>>
      BY DEF ReleaseOnce, poolVars, closeVars, dialVars
    <3> QED
      BY <2>2, <3>1, StillCrowded, SleepersStay DEF SleepersKept
  <2> QED
    BY <2>1, <2>2
       DEF ReleaseOnce, ReleaseOf, ReleaseOperation, ReleaseLeaseOperation,
           Settle, connVars
<1>14. \A l \in Leases : LeaseClose(l) => WakeInv'
  BY <1>SignalWakes DEF LeaseClose, Settle
<1>15. \A c \in Conns : WatchDone(c) => WakeInv'
  BY <1>SignalWakes DEF WatchDone
<1>16. ASSUME NEW c \in Conns, CloseSoon(c) PROVE WakeInv'
  <2>1. /\ UNCHANGED <<closing, leaseClosed, leaseFlight, sleeping, armed, pc, kpc, conns, dialing>>
        /\ CloseConn(c)
    BY <1>16 DEF CloseSoon, poolVars, waitVars, closeVars, leaseVars, procVars, dialVars
  <2> QED
    BY <2>1, <1>CloseCrowded, SleepersStay DEF SleepersKept
<1>17. ASSUME NEW c \in Conns, ConnFails(c) PROVE WakeInv'
  <2>1. /\ UNCHANGED <<closing, leaseClosed, leaseFlight, sleeping, armed, pc, kpc, conns, dialing>>
        /\ CloseConn(c)
    BY <1>17 DEF ConnFails, poolVars, waitVars, closeVars, leaseVars, procVars, dialVars
  <2> QED
    BY <2>1, <1>CloseCrowded, SleepersStay DEF SleepersKept
<1>18. ASSUME NEW e \in Endpoints, ReplaceLoop(e) PROVE WakeInv'
  <2> USE <1>18
  <2>1. Signal => WakeInv'
    BY <1>SignalWakes
  <2>2. CASE UNCHANGED <<dialing, sleeping>>
    <3>1. UNCHANGED <<closing, leaseClosed, leaseFlight, kpc, armed, conns, conn, pc>>
      BY DEF ReplaceLoop, poolVars, closeVars, leaseVars, connVars, procVars
    <3> QED
      BY <2>2, <3>1, StillCrowded, SleepersStay DEF SleepersKept
  <2> QED
    BY <2>1, <2>2 DEF ReplaceLoop
<1>19. ASSUME NEW e \in Endpoints, ReplaceDiscard(e) PROVE WakeInv'
  <2>1. /\ rconn[e] \in Conns /\ CloseConn(rconn[e])
        /\ UNCHANGED <<closing, leaseClosed, leaseFlight, sleeping, armed, pc, kpc, conns, dialing>>
    BY <1>19 DEF ReplaceDiscard, poolVars, waitVars, closeVars, leaseVars, procVars, dialVars,
       Inv, LoadInv, ReplPlaced
  <2> QED
    BY <2>1, <1>CloseCrowded, SleepersStay DEF SleepersKept
<1>20. \A e \in Endpoints : ReplaceExit(e) => WakeInv'
  BY <1>SignalWakes DEF ReplaceExit
<1>21. RetireExpired => WakeInv'
  BY <1>SignalWakes DEF RetireExpired
<1>22. ASSUME RetireNext PROVE WakeInv'
  <2> USE <1>22
  <2>1. UNCHANGED <<closing, leaseClosed, leaseFlight, sleeping, armed, pc, kpc, conns, dialing>>
    BY DEF RetireNext, poolVars, waitVars, closeVars, leaseVars, procVars,
           dialVars
  <2> USE <2>1
  <2>2. ASSUME NEW c \in maint.close, ClosesOne(c) PROVE Crowded
    <3>1. CloseConn(c) /\ c \in Conns
      BY <2>2 DEF ClosesOne, Inv, TypeOK, ReplType
    <3> QED
      BY <3>1, <1>CloseCrowded
  <2>3. \A e \in maint.replace : ReplacesOne(e) => Crowded
    BY StillCrowded DEF ReplacesOne
  <2>4. Crowded
    BY <2>2, <2>3, RetireNextTakes
  <2> QED
    BY <2>4, SleepersStay DEF SleepersKept
<1>23. ASSUME NEW k \in Closers, CloseBegin(k) PROVE WakeInv'
  <2> USE <1>23
  <2>1. Signal => WakeInv'
    BY <1>SignalWakes
  <2>2. CASE UNCHANGED <<closing, sleeping>>
    <3> USE <2>2
    <3>1. UNCHANGED <<leaseClosed, leaseFlight, pc, conns, conn, dialing, armed>> /\ k \notin sleeping
      BY DEF CloseBegin, leaseVars, procVars, connVars, dialVars, WakeInv
    <3>2. \A j \in Closers : j # k => kpc'[j] = kpc[j]
      BY DEF CloseBegin, Inv, TypeOK, CloseType
    <3>3. SleepersKept
      BY <3>1, <3>2 DEF SleepersKept
    <3> QED
      BY <3>1, <3>3, StillCrowded, SleepersStay
  <2> QED
    BY <2>1, <2>2 DEF CloseBegin, Inv, TypeOK, PoolType
<1>24. ASSUME NEW k \in Closers, CloseDrain(k) PROVE WakeInv'
  <2> USE <1>24
  <2>1. /\ UNCHANGED <<closing, leaseClosed, leaseFlight, pc, conns, conn, dialing, armed>>
        /\ kpc[k] = "drain" /\ k \notin sleeping /\ k \notin Procs
    BY PoolAssumption
       DEF CloseDrain, poolVars, leaseVars, procVars, connVars, dialVars,
           WakeInv
  <2>2. \A j \in Closers : j # k => kpc'[j] = kpc[j]
    BY DEF CloseDrain, Inv, TypeOK, CloseType
  <2>3. UNCHANGED sleeping => WakeInv'
    BY <2>1, <2>2, StillCrowded, SleepersStay DEF SleepersKept
  <2>4. CASE Active # {} /\ sleeping' = sleeping \cup {k} /\ kpc' = [kpc EXCEPT ![k] = "asleep"]
    <3> USE <2>4
    <3>1. kpc'[k] = "asleep"
      BY DEF Inv, TypeOK, CloseType
    <3>2. Crowded
      BY <2>1, StillCrowded
    <3>3. ASSUME NEW q \in sleeping' \cap Callers
          PROVE  /\ ~closing'
                 /\ \A e \in Scope(q)' : \A c \in Listed(e)' : ~Usable(q, c)'
                 /\ q \in armed' \/ Room(q)' = {}
      <4> USE <3>3
      <4>1. q \in sleeping \cap Callers
        BY <2>1 DEF Procs
      <4>2. /\ ~closing /\ (q \in armed \/ Room(q) = {})
            /\ \A e \in Scope(q) : \A c \in Listed(e) : ~Usable(q, c)
        BY <4>1 DEF WakeInv
      <4>3. Scope(q)' = Scope(q) /\ Scope(q) \subseteq Endpoints
        BY InScope DEF Scope
      <4>4. \A e \in Endpoints : Listed(e) \subseteq Conns
        BY ListedDialed
      <4> QED
        BY <2>1, <3>2, <4>2, <4>3, <4>4, CrowdedStays
    <3>4. ASSUME NEW q \in sleeping' \cap LeaseOps
          PROVE  /\ ~closing' /\ Via[q] \notin leaseClosed'
                 /\ leaseFlight'[Via[q]] = MaxInFlightPerConnection
      BY <2>1, <3>4 DEF WakeInv, Procs
    <3>5. \A j \in sleeping' \cap Closers : Active' # {} /\ kpc'[j] = "asleep"
      BY <2>2, <3>1, <3>2, CrowdedStays DEF WakeInv
    <3>6. \A q \in sleeping' \cap Procs : pc'[q] = "asleep"
      BY <2>1 DEF WakeInv
    <3> QED
      BY <3>3, <3>4, <3>5, <3>6 DEF WakeInv
  <2> QED
    BY <2>3, <2>4 DEF CloseDrain
<1>25. ASSUME NEW k \in Closers, CloseWake(k) PROVE WakeInv'
  <2> USE <1>25
  <2>1. /\ UNCHANGED <<closing, leaseClosed, leaseFlight, pc, conns, conn, dialing>>
        /\ sleeping' \subseteq sleeping /\ k \notin sleeping' /\ armed' = armed
    BY DEF CloseWake, poolVars, waitVars, leaseVars, procVars, connVars,
           dialVars, WakeInv
  <2>2. \A j \in Closers : j # k => kpc'[j] = kpc[j]
    BY DEF CloseWake, Inv, TypeOK, CloseType
  <2>3. SleepersKept
    BY <2>1, <2>2 DEF SleepersKept
  <2> QED
    BY <2>1, <2>3, StillCrowded, SleepersStay
<1>26. ASSUME NEW k \in Closers, CloseTimeout(k) PROVE WakeInv'
  <2> USE <1>26
  <2>1. /\ UNCHANGED <<closing, leaseClosed, leaseFlight, pc, conns, conn, dialing>>
        /\ sleeping' \subseteq sleeping /\ k \notin sleeping' /\ armed' = armed
    BY DEF CloseTimeout, poolVars, waitVars, leaseVars, procVars, connVars,
           dialVars, WakeInv
  <2>2. \A j \in Closers : j # k => kpc'[j] = kpc[j]
    BY DEF CloseTimeout, Inv, TypeOK, CloseType
  <2>3. SleepersKept
    BY <2>1, <2>2 DEF SleepersKept
  <2> QED
    BY <2>1, <2>3, StillCrowded, SleepersStay
<1>27. ASSUME NEW k \in Closers, CloseAll(k) PROVE WakeInv'
  <2> USE <1>27
  <2>1. /\ UNCHANGED <<closing, leaseClosed, leaseFlight, pc, conns, dialing, sleeping, armed>>
        /\ conn' = [c \in Conns |-> [conn[c] EXCEPT !.retiring = @ \/ c \in AllListed]]
        /\ k \notin sleeping
    BY DEF CloseAll, poolVars, waitVars, leaseVars, procVars, dialVars, WakeInv
  <2> USE <2>1
  <2>2. \A j \in Closers : j # k => kpc'[j] = kpc[j]
    BY DEF CloseAll, Inv, TypeOK, CloseType
  <2>3. \A c \in Conns : conn[c] \in PooledConnection
    BY DEF Inv, TypeOK, ConnType
  <2>4. Crowded
    BY <2>3, PoolAssumption, SMT DEF Crowded, Tighter, PooledConnection
  <2>5. SleepersKept
    BY <2>2 DEF SleepersKept
  <2> QED
    BY <2>4, <2>5, SleepersStay
<1>28. ASSUME NEW k \in Closers, CloseNext(k) PROVE WakeInv'
  <2>1. /\ UNCHANGED <<closing, leaseClosed, leaseFlight, sleeping, armed, pc, kpc, conns, dialing>>
        /\ \E c \in toClose[k] : CloseConn(c)
    BY <1>28 DEF CloseNext, poolVars, waitVars, leaseVars, procVars, dialVars
  <2>2. Crowded
    BY <2>1, <1>CloseCrowded DEF Inv, TypeOK, CloseType
  <2> QED
    BY <2>1, <2>2, SleepersStay DEF SleepersKept
<1>29. \A k \in Closers : CloseFinish(k) => WakeInv'
  BY <1>SignalWakes DEF CloseFinish
<1>30. CASE \E a \in Callers : AcquireStep(a)
  BY <1>30, <1>2, <1>4, <1>9, <1>7, <1>11, <1>8 DEF AcquireStep, Procs
<1>31. CASE \E p \in LeaseOps : LeaseAcquire(p) \/ Wake(p)
  BY <1>31, <1>3, <1>4 DEF Procs
<1>32. (\E p \in Procs : WaitEnds(p)) => WakeInv' \* signalLocked wakes everyone.
  BY <1>5
<1>33. CASE \E p \in Ops \cup LeaseOps : DoFails(p) \/ DoStarts(p) \/ OperationEnds(p)
  BY <1>33, <1>1, <1>12, <1>6
     DEF OperationEnds, poolVars, waitVars, dialVars, connVars, procVars,
         leaseVars, closeVars
<1>34. CASE \E p \in Ops \cup LeaseOps, who \in {"tracker", "consumer"} :
              ReleaseOnce(p, who)
  BY <1>34, <1>13
<1>35. (\E l \in Leases : LeaseClose(l)) => WakeInv' \* signalLocked wakes everyone.
  BY <1>14
<1>36. CASE \E c \in Conns : WatchStep(c) \/ ConnFails(c)
  BY <1>36, <1>1, <1>15, <1>16, <1>17
     DEF WatchStep, WatchReplace, poolVars, waitVars, dialVars, connVars,
         procVars, leaseVars, closeVars
<1>37. CASE \E e \in Endpoints : ReplaceStep(e) \/ BackoffEnds(e)
  BY <1>37, <1>1, <1>18, <1>10, <1>19, <1>20
     DEF ReplaceStep, ReplaceWake, ReplaceWatch, BackoffEnds, poolVars,
         waitVars, dialVars, connVars, procVars, leaseVars, closeVars
<1>38. CASE RetireExpired \/ RetireNext \/ MaintainExit
  BY <1>38, <1>1, <1>21, <1>22
     DEF MaintainExit, poolVars, waitVars, dialVars, connVars, procVars,
         leaseVars, closeVars
<1>39. CASE \E k \in Closers : CloseBegin(k) \/ CloseStep(k)
  BY <1>39, <1>23, <1>24, <1>25, <1>26, <1>27, <1>28, <1>29
     DEF CloseStep
<1>40. CASE \E p \in Procs \cup Closers : ContextDone(p)
  BY <1>40, <1>1
     DEF ContextDone, poolVars, waitVars, dialVars, connVars, procVars,
         leaseVars, closeVars
<1> QED
  BY <1>30, <1>31, <1>32, <1>33, <1>34, <1>35, <1>36, <1>37, <1>38, <1>39,
     <1>40 DEF Next
\* The same when the step changes nothing.
LEMMA WakeKept ==
    ASSUME Inv, Inv', WakeInv, [Next]_vars
    PROVE  WakeInv'
<1> USE Zenon
<1>1. Next => WakeInv'
  BY WakeStep
<1>2. CASE UNCHANGED vars
  <2>1. UNCHANGED <<closing, sleeping, armed, dialing, conns, conn, leaseClosed,
                    leaseFlight, pc, kpc>>
    BY <1>2 DEF vars, poolVars, waitVars, dialVars, connVars, leaseVars, procVars, closeVars
  <2> QED
    BY <2>1, StillCrowded, SleepersStay DEF SleepersKept
<1> QED
  BY <1>1, <1>2

\* Whoever sleeps for a good reason has nothing to do.
LEMMA WakeEnough ==
    ASSUME Inv, WakeInv
    PROVE  NoLostWakeup
<1> USE Zenon
<1>1. ASSUME NEW p \in sleeping, p \in Callers
      PROVE  ~closing /\ Selectable(p) = {} /\ (Dialable(p) = {} \/ p \in armed)
  <2> USE <1>1
  <2>1. /\ ~closing /\ (p \in armed \/ Room(p) = {})
        /\ \A e \in Scope(p) : \A c \in Listed(e) : ~Usable(p, c)
    BY DEF WakeInv
  <2>2. Room(p) = {} => Dialable(p) = {}
    BY DEF Dialable
  <2> QED
    BY <2>1, <2>2, NoneSelectable
<1> QED
  BY <1>1 DEF WakeInv, NoLostWakeup

-----------------------------------------------------------------------------
(***************************************************************************)
(* The invariant holds of a new pool.                                      *)
(***************************************************************************)

\* The types and the counters alone.
Core == TypeOK /\ LoadInv

\* An operation that holds capacity is counted on a connection that was dialed.
LEMMA CoreDialed ==
    ASSUME Core, Counting, NEW p \in Ops \cup LeaseOps, Busy(p)
    PROVE  LET c == ConnOf(p) IN
           /\ c \in Conns /\ conn[c].at \in Endpoints /\ conn[c].inFlight > 0
           /\ p \in LeaseOps => leaseFlight[Via[p]] > 0
<1> USE Zenon
<1> DEFINE c == ConnOf(p)
<1>1. c \in Conns
  BY PoolAssumption DEF ConnOf, Busy, Core, LoadInv, Placed, Callers
<1>2. p \in Holders(c) /\ IsFiniteSet(Holders(c)) /\ conn[c].inFlight = Cardinality(Holders(c))
  BY <1>1 DEF Holders, Busy, Core, LoadInv, FinitelyBusy, InFlightExact
<1>3. Cardinality(Holders(c)) \in Nat /\ Cardinality(Holders(c)) # 0
  BY <1>2 DEF Counting, CountEmpty, CountNat
<1>4. conn[c].inFlight > 0
  BY <1>2, <1>3, SMT
<1>5. conn[c].at \in Endpoints
  BY <1>1, <1>4, SMT DEF Core, TypeOK, ConnType, PooledConnection, LoadInv, Filed, NoConn
<1>6. ASSUME p \in LeaseOps PROVE leaseFlight[Via[p]] > 0
  <2> USE <1>6
  <2> DEFINE l == Via[p]
  <2>1. l \in Leases
    BY PoolAssumption
  <2> HIDE DEF l
  <2>2. p \in LeaseHolders(l) /\ IsFiniteSet(LeaseHolders(l))
    BY <2>1 DEF LeaseHolders, Core, LoadInv, FinitelyBusy, l
  <2>3. LeaseHolders(l) = {q \in LeaseOps : Via[q] = l /\ pc[q] \in {"held", "open"}}
    BY DEF LeaseHolders, Busy
  <2>4. leaseFlight[l] = Cardinality(LeaseHolders(l))
    BY <2>1, <2>3 DEF Core, LoadInv, InFlightExact
  <2>5. Cardinality(LeaseHolders(l)) \in Nat /\ Cardinality(LeaseHolders(l)) # 0
    BY <2>2 DEF Counting, CountEmpty, CountNat
  <2> QED
    BY <2>4, <2>5, SMT DEF l
<1> QED
  BY <1>1, <1>4, <1>5, <1>6

\* New leaves a pool whose lists, counters and calls are as Core says.
LEMMA InitInv ==
    ASSUME Init, Counting
    PROVE  Core
<1> USE Zenon
<1>1. PICK first \in [Endpoints -> Conns] :
         /\ \A e, f \in Endpoints : first[e] = first[f] => e = f
         /\ conns = [e \in Endpoints |-> <<first[e]>>]
         /\ conn = [c \in Conns |-> IF \E e \in Endpoints : first[e] = c
                                    THEN Dialed(CHOOSE e \in Endpoints : first[e] = c)
                                    ELSE NoConn]
         /\ wpc = [c \in Conns |-> IF \E e \in Endpoints : first[e] = c
                                   THEN "running" ELSE "none"]
  BY DEF Init
<1>2. /\ closing = FALSE /\ closed = FALSE /\ closeMu = None
      /\ waiters = 0 /\ exactWaiters = [e \in Endpoints |-> 0]
      /\ registered = {} /\ sleeping = {} /\ armed = {}
      /\ dialing = [e \in Endpoints |-> 0]
      /\ backoff = [e \in Endpoints |-> FALSE]
      /\ closeSoon = {}
      /\ pc = [p \in Procs |-> "idle"]
      /\ on = [p \in Procs |-> None]
      /\ target = [p \in Procs |-> None]
      /\ ended = {} /\ calls = {}
      /\ leaseClosed = {} /\ leaseFlight = [l \in Leases |-> 0]
      /\ replacing = [e \in Endpoints |-> FALSE]
      /\ rpc = [e \in Endpoints |-> "off"]
      /\ rconn = [e \in Endpoints |-> None]
      /\ maint = [pc |-> "idle", close |-> {}, replace |-> {}]
      /\ kpc = [k \in Closers |-> "idle"]
      /\ toClose = [k \in Closers |-> {}]
      /\ ctxDone = {}
  BY DEF Init
<1>3. NoConn \in PooledConnection /\ \A e \in Endpoints : Dialed(e) \in PooledConnection
  <2>1. NoConn \in PooledConnection
    <3>1. 0 \in 0..MaxInFlightPerConnection
      BY PoolAssumption, SMT
    <3> QED
      BY <3>1 DEF NoConn, PooledConnection
  <2>2. ASSUME NEW e \in Endpoints PROVE Dialed(e) \in PooledConnection
    BY <2>1 DEF Dialed, PooledConnection
  <2> QED
    BY <2>1, <2>2
<1>4. /\ NoConn.at = None /\ ~NoConn.broken /\ NoConn.inFlight = 0
      /\ \A e \in Endpoints : /\ Dialed(e).at = e /\ ~Dialed(e).broken
                              /\ Dialed(e).inFlight = 0
  <2>1. NoConn.at = None /\ NoConn.broken = FALSE /\ NoConn.inFlight = 0
    BY DEF NoConn
  <2>2. ASSUME NEW e \in Endpoints
        PROVE  Dialed(e).at = e /\ Dialed(e).broken = FALSE /\ Dialed(e).inFlight = 0
    BY DEF NoConn, Dialed
  <2> QED
    BY <2>1, <2>2
<1>5. ASSUME NEW c \in Conns
      PROVE  \/ conn[c] = NoConn /\ wpc[c] = "none" /\ ~\E e \in Endpoints : first[e] = c
             \/ \E e \in Endpoints : first[e] = c /\ conn[c] = Dialed(e) /\ wpc[c] = "running"
  <2>1. CASE ~\E e \in Endpoints : first[e] = c
    BY <1>1, <2>1
  <2>2. ASSUME NEW e \in Endpoints, first[e] = c
        PROVE  conn[c] = Dialed(e) /\ wpc[c] = "running"
    <3> USE <2>2
    <3>1. (CHOOSE f \in Endpoints : first[f] = c) = e
      BY <1>1
    <3> QED
      BY <1>1, <3>1
  <2> QED
    BY <2>1, <2>2
<1>6. /\ conn = [c \in Conns |-> conn[c]] /\ wpc = [c \in Conns |-> wpc[c]]
  BY <1>1
<1>7. ConnType
  <2>1. conn \in [Conns -> PooledConnection]
    BY <1>3, <1>5, <1>6
  <2>2. wpc \in [Conns -> {"none", "running", "replace", "done"}]
    BY <1>5, <1>6
  <2>3. conns \in [Endpoints -> Seq(Conns)]
    BY <1>1, SMT
  <2> QED
    BY <1>2, <2>1, <2>2, <2>3 DEF ConnType
<1>8. PoolType /\ WaitType /\ DialType
  <2>1. 0 \in 0..MaxWaiters /\ 0 \in Nat
    BY PoolAssumption, SMT
  <2>2. WaitType
    BY <1>2, <2>1 DEF WaitType
  <2> QED
    BY <1>2, <2>1, <2>2 DEF PoolType, DialType
<1>9. ProcType
  <2>1. pc \in [Procs -> AcquirePC \cup {"held", "open", "done", "failed"}]
    BY <1>2 DEF AcquirePC
  <2>2. /\ on \in [Procs -> Conns \cup {None}]
        /\ target \in [Procs -> Endpoints \cup {None}]
    BY <1>2
  <2> QED
    BY <1>2, <2>1, <2>2 DEF ProcType
<1>10. LeaseType /\ ReplType /\ CloseType
  <2>1. LeaseType
    BY <1>2, PoolAssumption, SMT DEF LeaseType
  <2>2. ReplType
    BY <1>2 DEF ReplType
  <2>3. CloseType
    BY <1>2 DEF CloseType
  <2> QED
    BY <2>1, <2>2, <2>3
<1>11. Placed
  BY <1>2 DEF Placed, Released, Procs, Callers
<1>12. ReplPlaced
  BY <1>2 DEF ReplPlaced
<1>13. Filed
  <2>1. ASSUME NEW c \in Conns, conn[c].at = None PROVE conn[c] = NoConn /\ wpc[c] = "none"
    <3>1. ASSUME NEW e \in Endpoints PROVE conn[c] # Dialed(e)
      <4>1. Dialed(e).at = e /\ e # None
        BY <1>4, PoolAssumption
      <4> QED
        BY <2>1, <4>1
    <3> QED
      BY <1>5, <3>1
  <2>2. \A e \in Endpoints : \A k \in DOMAIN conns[e] : k = 1 /\ conns[e][k] = first[e]
    BY <1>1, SMT
  <2>3. \A e \in Endpoints : conn[first[e]].at = e
    BY <1>1, <1>4, <1>5, SMT
  <2>4. /\ \A a \in Callers : pc[a] # "watch"
        /\ \A e \in Endpoints : rpc[e] # "watch"
    BY <1>2 DEF Procs
  <2>5. ASSUME NEW e \in Endpoints, NEW k \in DOMAIN conns[e]
        PROVE  k = 1 /\ conn[conns[e][k]].at = e
    BY <2>2, <2>3
  <2>6. /\ \A e \in Endpoints : \A k \in DOMAIN conns[e] : conn[conns[e][k]].at = e
        /\ \A e \in Endpoints : \A j, k \in DOMAIN conns[e] :
              conns[e][j] = conns[e][k] => j = k
    <3>1. ASSUME NEW e \in Endpoints, NEW j \in DOMAIN conns[e], NEW k \in DOMAIN conns[e]
          PROVE  j = k
      <4>1. j = 1 /\ k = 1
        BY <2>5
      <4> QED
        BY <4>1
    <3> QED
      BY <2>5, <3>1
  <2>7. \A c \in Conns : conn[c].at = None => conn[c] = NoConn /\ wpc[c] = "none"
    BY <2>1
  <2> QED
    BY <2>4, <2>6, <2>7 DEF Filed
<1>14. QueueCounted /\ DialsCounted
  <2>1. \A e \in Endpoints : ExactOnly(e) = {} /\ Dialers(e) = {}
    BY <1>2 DEF ExactOnly, Dialers, Procs
  <2>2. QueueCounted
    BY <1>2, <2>1 DEF QueueCounted, Counting, CountEmpty
  <2>3. DialsCounted
    <3> SUFFICES ASSUME NEW e \in Endpoints
                 PROVE  /\ IsFiniteSet(Dialers(e))
                        /\ dialing[e] = Cardinality(Dialers(e))
                                        + (IF rpc[e] = "dialing" THEN 1 ELSE 0)
      BY DEF DialsCounted
    <3>1. dialing[e] = 0 /\ rpc[e] # "dialing"
      BY <1>2
    <3>2. IsFiniteSet(Dialers(e)) /\ Cardinality(Dialers(e)) = 0
      BY <2>1 DEF Counting, CountEmpty
    <3> QED
      BY <3>1, <3>2, SMT
  <2> QED
    BY <2>2, <2>3
<1>15. /\ \A c : Holders(c) = {}
       /\ \A l : LeaseHolders(l) = {}
  BY <1>2 DEF Holders, LeaseHolders, Busy, Procs, Callers
<1>16. FinitelyBusy
  BY <1>15 DEF FinitelyBusy, Counting, CountEmpty
<1>17. \A c \in Conns : conn[c].inFlight = 0 /\ ~conn[c].broken
  BY <1>4, <1>5, SMT
<1>18. InFlightExact
  BY <1>2, <1>15, <1>17, Counts DEF Counting, CountEmpty
<1>19. LeaseExclusive
  <2>1. ASSUME NEW l \in Leases PROVE ~InForce(l)
    <3>1. pc[l] = "idle" /\ leaseFlight[l] = 0
      BY <1>2 DEF Procs, Callers
    <3> QED
      BY <3>1, SMT DEF InForce
  <2> QED
    BY <2>1 DEF LeaseExclusive
<1>20. \A c \in Conns : conn[c].broken => ~conn[c].leased
  BY <1>17
<1> QED
  BY <1>7, <1>8, <1>9, <1>10, <1>11, <1>12, <1>13, <1>14, <1>16, <1>18, <1>19, <1>20
     DEF Core, TypeOK, LoadInv

-----------------------------------------------------------------------------
(***************************************************************************)
(* What the library's theorems on finite sets and on well-founded orders   *)
(* supply.                                                                 *)
(***************************************************************************)
Finite == INSTANCE FiniteSetTheorems
Order  == INSTANCE WellFoundedInduction

\* The library's notions of finiteness and cardinality are those of FiniteSets.
LEMMA SameCount ==
    \A S : /\ IsFiniteSet(S) <=> Finite!IsFiniteSet(S)
           /\ Cardinality(S) = Finite!Cardinality(S)
<1> USE Zenon
<1>1. \A S : IsFiniteSet(S) <=> Finite!IsFiniteSet(S)
  BY DEF IsFiniteSet, Finite!IsFiniteSet
<1>2. \A S : Cardinality(S) = Finite!Cardinality(S)
  BY DEF Cardinality, Finite!Cardinality
<1> QED
  BY <1>1, <1>2

\* Finite sets can be counted.
LEMMA Counted == Counting
<1> USE Zenon
<1>1. CountEmpty
  BY SameCount, Finite!FS_EmptySet DEF CountEmpty
<1>2. CountNat
  BY SameCount, Finite!FS_CardinalityType DEF CountNat
<1>3. CountAdd
  <2> SUFFICES ASSUME NEW S, NEW x, IsFiniteSet(S), x \notin S
               PROVE  /\ IsFiniteSet(S \cup {x})
                      /\ Cardinality(S \cup {x}) = Cardinality(S) + 1
    BY DEF CountAdd
  <2> QED
    BY SameCount, Finite!FS_AddElement
<1>4. CountRemove
  <2> SUFFICES ASSUME NEW S, NEW x, IsFiniteSet(S), x \in S
               PROVE  /\ IsFiniteSet(S \ {x})
                      /\ Cardinality(S \ {x}) = Cardinality(S) - 1
    BY DEF CountRemove
  <2> QED
    BY SameCount, Finite!FS_RemoveElement
<1>5. CountPart
  <2> SUFFICES ASSUME NEW S, IsFiniteSet(S), NEW T \in SUBSET S
               PROVE  IsFiniteSet(T) /\ Cardinality(T) <= Cardinality(S)
    BY DEF CountPart
  <2> QED
    BY SameCount, Finite!FS_Subset
<1> QED
  BY <1>1, <1>2, <1>3, <1>4, <1>5 DEF Counting

\* Every nonempty set of natural numbers has a least element.
LEMMA LeastNat ==
    ASSUME NEW T, T \subseteq Nat, T # {}
    PROVE  \E x \in T : \A y \in T : x <= y
<1> USE Zenon
<1> DEFINE R == Order!OpToRel(<, Nat)
<1>1. Order!IsWellFoundedOn(R, Nat)
  BY Order!NatLessThanWellFounded
<1>2. \A x, y \in Nat : <<x, y>> \in R <=> x < y
  BY DEF Order!OpToRel
<1> HIDE DEF R
<1>3. PICK x \in T : \A y \in T : ~ (<<y, x>> \in R)
  BY <1>1, Order!WFMin
<1>4. x \in Nat /\ \A y \in T : y \in Nat /\ ~(y < x)
  BY <1>2, <1>3
<1>5. \A y \in T : x <= y
  BY <1>4, SMT
<1> QED
  BY <1>5

\* acquire finds no connection to select only when none in its scope has
\* capacity for the call: there is a least loaded one among those that have.
LEMMA CoreSelects ==
    ASSUME Core, NEW a \in Callers
    PROVE  Selectable(a) = {} <=> \A e \in Scope(a) : \A c \in Listed(e) : ~Usable(a, c)
<1> USE Zenon
<1>1. PICK u : u = {c \in UNION {Listed(e) : e \in Scope(a)} : Usable(a, c)}
  OBVIOUS
<1>2. Selectable(a) = {c \in u : \A d \in u : conn[c].inFlight <= conn[d].inFlight}
  BY <1>1 DEF Selectable
<1>3. u \subseteq Conns
  <2>1. ASSUME NEW c \in u PROVE c \in Conns
    <3>1. PICK e \in Scope(a) : c \in Listed(e)
      BY <1>1, <2>1
    <3>2. e \in Endpoints
      BY <3>1, PoolAssumption DEF Scope
    <3>3. conns[e] \in Seq(Conns)
      BY <3>2 DEF Core, TypeOK, ConnType
    <3> QED
      BY <3>1, <3>3, SMT DEF Listed
  <2> QED
    BY <2>1
<1>4. \A c \in u : conn[c].inFlight \in Nat
  BY <1>3, PoolAssumption, SMT DEF Core, TypeOK, ConnType, PooledConnection
<1>5. ASSUME u # {} PROVE Selectable(a) # {}
  <2> DEFINE T == {conn[c].inFlight : c \in u}
  <2>1. T \subseteq Nat /\ T # {}
    BY <1>4, <1>5
  <2>2. PICK x \in T : \A y \in T : x <= y
    <3> HIDE DEF T
    <3> QED
      BY <2>1, LeastNat
  <2>3. PICK c \in u : x = conn[c].inFlight
    BY <2>2
  <2>4. \A d \in u : conn[c].inFlight <= conn[d].inFlight
    BY <2>2, <2>3
  <2> QED
    BY <1>2, <2>3, <2>4
<1>6. u = {} => Selectable(a) = {}
  BY <1>2
<1>7. u = {} <=> \A e \in Scope(a) : \A c \in Listed(e) : ~Usable(a, c)
  BY <1>1
<1> QED
  BY <1>5, <1>6, <1>7

-----------------------------------------------------------------------------
(***************************************************************************)
(* The inductive invariant, and what it gives.                             *)
(***************************************************************************)

\* Every step keeps Core.
LEMMA InvStep ==
    ASSUME Inv, [Next]_vars
    PROVE  Core'
<1> USE Zenon
<1>1. CASE Next
  <2> USE <1>1
  <2>1. PoolType' /\ CloseType' /\ ReplType' /\ LeaseType'
    BY PoolTypeStep, CloseTypeStep, ReplTypeStep, LeaseTypeStep
  <2>2. WaitType' /\ QueueCounted'
    BY Counted, QueueStep, SleepStep DEF QueueOK, SleepOK, WaitType
  <2>3. ProcType' /\ Placed'
    BY ProcStep DEF ProcOK
  <2>4. ConnType' /\ Filed'
    BY ConnStep DEF ConnOK
  <2>5. DialType' /\ DialsCounted'
    BY Counted, DialStep DEF DialOK
  <2>6. ReplPlaced'
    BY ReplPlacedStep
  <2>7. /\ FinitelyBusy' /\ InFlightExact' /\ LeaseExclusive'
        /\ \A c \in Conns : conn'[c].broken => ~conn'[c].leased
    BY Counted, CapacityStep DEF CapacityOK
  <2> QED
    BY <2>1, <2>2, <2>3, <2>4, <2>5, <2>6, <2>7 DEF Core, TypeOK, LoadInv
<1>2. CASE UNCHANGED vars
  <2>1. /\ UNCHANGED <<poolVars, waitVars, dialVars, connVars, procVars, opVars>>
        /\ UNCHANGED <<leaseVars, replVars, wpc, maint, closeVars, ctxDone>>
    BY <1>2 DEF vars
  <2> USE <2>1
  <2>2. PoolType' /\ CloseType' /\ ReplType' /\ LeaseType'
    BY DEF Inv, TypeOK, PoolType, CloseType, ReplType, LeaseType, poolVars,
           closeVars, replVars, leaseVars
  <2>3. WaitType' /\ DialType'
    BY DEF Inv, TypeOK, WaitType, DialType, waitVars, dialVars
  <2>4. ConnType' /\ ProcType'
    BY DEF Inv, TypeOK, ConnType, ProcType, connVars, procVars, opVars
  <2>5. Placed'
    BY DEF Inv, LoadInv, Placed, Released, procVars, opVars, leaseVars
  <2>6. ReplPlaced' /\ Filed'
    BY DEF Inv, LoadInv, ReplPlaced, Filed, connVars, procVars, replVars
  <2>7. QueueCounted'
    BY DEF Inv, LoadInv, QueueCounted, ExactOnly, waitVars
  <2>8. DialsCounted'
    BY DEF Inv, LoadInv, DialsCounted, Dialers, dialVars, procVars, replVars
  <2>9. CapacityOK'
    <3>1. UNCHANGED <<pc, on, conn, leaseFlight>>
      BY DEF procVars, leaseVars, connVars
    <3> USE <3>1
    <3>2. /\ \A p : ConnOf(p)' = ConnOf(p) /\ Busy(p)' = Busy(p)
          /\ \A l : InForce(l)' = InForce(l)
      BY DEF ConnOf, Busy, InForce
    <3>3. /\ \A c : Holders(c)' = Holders(c)
          /\ \A l : LeaseHolders(l)' = LeaseHolders(l)
      BY <3>2 DEF Holders, LeaseHolders
    <3>4. FinitelyBusy' /\ InFlightExact'
      BY <3>3, Counts DEF Inv, LoadInv, FinitelyBusy
    <3>5. LeaseExclusive'
      BY <3>2, <3>3 DEF Inv, LoadInv, LeaseExclusive
    <3> QED
      BY <3>4, <3>5 DEF Inv, LoadInv, CapacityOK
  <2> QED
    BY <2>2, <2>3, <2>4, <2>5, <2>6, <2>7, <2>8, <2>9
       DEF Core, Inv, TypeOK, LoadInv, CapacityOK
<1> QED
  BY <1>1, <1>2

\* Core is enough for Inv ...
LEMMA CoreInv ==
    ASSUME Core
    PROVE  Inv
  BY Counted, CoreDialed, CoreSelects, Zenon DEF Core, Inv, HoldersDialed, LeastSelected

\* ... which therefore always holds.
LEMMA InvAlways == Spec => []Inv
<1> USE Zenon
<1>1. Core => Inv
  BY CoreInv
<1>2. Core /\ [Next]_vars => Core'
  BY CoreInv, InvStep
<1>3. Init => Core
  BY Counted, InitInv
<1> QED
  BY <1>1, <1>2, <1>3, PTL DEF Spec

\* The pool's state has its types: no connection carries more than
\* MaxInFlightPerConnection operations, no more than MaxWaiters calls wait, and
\* no counter of pool.go goes below zero.
THEOREM TypeCorrect == Spec => []TypeOK
<1> USE Zenon
<1>1. Inv => TypeOK
  BY DEF Inv
<1> QED
  BY <1>1, InvAlways, PTL

\* Whichever of Do's error path, the goroutine that awaits the lifecycle and
\* the reader of EOF returns an operation's capacity, it is returned once: a
\* connection's inFlight is the number of operations that hold capacity on it,
\* and a lease's the number of its own.
THEOREM CapacityExact == Spec => []InFlightExact
<1> USE Zenon
<1>1. Inv => InFlightExact
  BY DEF Inv, LoadInv
<1> QED
  BY <1>1, InvAlways, PTL

\* A lease in force has its connection to itself until the connection breaks:
\* acquire gives it to no one else, and releases of other calls do not end it.
THEOREM LeasesExclusive == Spec => []LeaseExclusive
<1> USE Zenon
<1>1. Inv => LeaseExclusive
  BY DEF Inv, LoadInv
<1> QED
  BY <1>1, InvAlways, PTL

\* Every connection that is up is in the pool's lists or in the hands of who
\* closes it, every one in the lists has its watcher, now or soon, or is broken
\* and left there for its operations, and when CloseContext has returned with
\* the pool closed no connection is up but those others are about to close.
THEOREM ConnectionsAccounted == Spec => []NoneLeaked
<1> USE Zenon
<1>1. Inv /\ LeakInv /\ [Next]_vars => LeakInv'
  BY LeakStep
<1>2. Init => LeakInv
  BY LeakInit
<1>3. LeakInv => NoneLeaked
  BY DEF LeakInv
<1> QED
  BY <1>1, <1>2, <1>3, InvAlways, PTL DEF Spec

\* Nobody sleeps who has reason to be awake: while a call waits in acquire, the
\* pool is not closing and there is neither a connection to select nor an
\* endpoint to dial unless the call's timer is set; a call of a lease waits for
\* its lease's own operations; CloseContext for operations or leases.
THEOREM NoWakeupLost == Spec => []NoLostWakeup
<1> USE Zenon
<1>1. Init => WakeInv
  BY DEF Init, WakeInv
<1>2. Inv /\ Inv' /\ WakeInv /\ [Next]_vars => WakeInv'
  BY WakeKept
<1>3. Inv /\ WakeInv => NoLostWakeup
  BY WakeEnough
<1> QED
  BY <1>1, <1>2, <1>3, InvAlways, PTL DEF Spec

=============================================================================
