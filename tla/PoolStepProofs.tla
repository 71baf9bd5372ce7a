--------------------------- MODULE PoolStepProofs ---------------------------
(***************************************************************************)
(* What the handlers of the pool do to its lists, connections and calls, and *)
(* that each keeps the types of the state and the places of its calls.     *)
(***************************************************************************)
EXTENDS Pool, TLAPS

-----------------------------------------------------------------------------
(***************************************************************************)
(* Lists, records and processes.                                           *)
(***************************************************************************)

\* What a list holds is in the set it is a list of.
LEMMA SeqElements ==
    ASSUME NEW S, NEW s \in Seq(S)
    PROVE  \A k \in DOMAIN s : s[k] \in S
  OBVIOUS

\* removeConnectionIfUnusedLocked takes one connection out of a list and
\* leaves the rest in place.
LEMMA WithoutKeeps ==
    ASSUME NEW s \in Seq(Conns), NEW c,
           \A j, k \in DOMAIN s : s[j] = s[k] => j = k
    PROVE  LET t == Without(s, c) IN
           /\ t \in Seq(Conns)
           /\ \A j, k \in DOMAIN t : t[j] = t[k] => j = k
           /\ \A d : (\E k \in DOMAIN t : t[k] = d)
                       <=> d # c /\ \E k \in DOMAIN s : s[k] = d
<1> USE Zenon
<1>1. CASE \A k \in DOMAIN s : s[k] # c
  BY <1>1 DEF Without
<1>2. CASE ~(\A k \in DOMAIN s : s[k] # c)
  <2> DEFINE P(k) == s[k] = c /\ \A j \in 1..(k - 1) : s[j] # c
             i == CHOOSE k \in DOMAIN s : P(k)
             t == SubSeq(s, 1, i - 1) \o SubSeq(s, i + 1, Len(s))
  <2>1. \E k \in DOMAIN s : P(k)
    BY <1>2, SMT
  <2>2. i \in DOMAIN s /\ P(i)
    BY <2>1
  <2>3. Without(s, c) = t
    BY <1>2 DEF Without
  <2>4. i \in 1..Len(s) /\ s[i] = c
    BY <2>2, SMT
  <2> USE <2>4
  <2> HIDE DEF i
  <2> DEFINE a == SubSeq(s, 1, i - 1)
             b == SubSeq(s, i + 1, Len(s))
  <2>a. /\ a \in Seq(Conns) /\ Len(a) = i - 1
        /\ \A k \in 1..(i - 1) : a[k] = s[k]
    BY SMT
  <2>b. /\ b \in Seq(Conns) /\ Len(b) = Len(s) - i
        /\ \A k \in 1..(Len(s) - i) : b[k] = s[k + i]
    BY SMT
  <2>c. t = a \o b
    OBVIOUS
  <2> HIDE DEF a, b, t
  <2>5. /\ t \in Seq(Conns) /\ Len(t) = Len(s) - 1
        /\ \A k \in 1..(Len(s) - 1) : t[k] = IF k < i THEN s[k] ELSE s[k + 1]
    <3>1. t \in Seq(Conns) /\ Len(t) = Len(s) - 1
      BY <2>a, <2>b, <2>c, SMT
    <3>2. \A k \in 1..(Len(s) - 1) : k < i => t[k] = s[k]
      BY <2>a, <2>b, <2>c, SMT
    <3>3. ASSUME NEW k \in 1..(Len(s) - 1), ~(k < i) PROVE t[k] = s[k + 1]
      <4> USE <3>3
      <4>1. t[k] = b[k - (i - 1)]
        BY <2>a, <2>b, <2>c, SMT
      <4>2. k - (i - 1) \in 1..(Len(s) - i) /\ (k - (i - 1)) + i = k + 1
        BY SMT
      <4> QED
        BY <4>1, <4>2, <2>b
    <3> QED
      BY <3>1, <3>2, <3>3
  <2> USE <2>5
  <2>6. ASSUME NEW j \in DOMAIN t, NEW k \in DOMAIN t, t[j] = t[k] PROVE j = k
    <3> DEFINE f(n) == IF n < i THEN n ELSE n + 1
    <3>1. \A n \in DOMAIN t : n \in Nat /\ f(n) \in DOMAIN s /\ t[n] = s[f(n)]
      BY SMT
    <3>2. f(j) = f(k)
      BY <2>6, <3>1
    <3> QED
      BY <3>1, <3>2, SMT
  <2>7. ASSUME NEW k \in DOMAIN t
        PROVE  t[k] # c /\ \E j \in DOMAIN s : s[j] = t[k]
    BY SMT
  <2>8. ASSUME NEW k \in DOMAIN s, s[k] # c
        PROVE  \E j \in DOMAIN t : t[j] = s[k]
    <3>1. CASE k < i
      BY <3>1, SMT
    <3>2. CASE k > i
      <4>1. k - 1 \in 1..(Len(s) - 1)
        BY <3>2, SMT
      <4> QED
        BY <3>2, <4>1, SMT
    <3> QED
      BY <2>8, <3>1, <3>2, SMT
  <2> QED
    BY <2>3, <2>6, <2>7, <2>8, SMT
<1> QED
  BY <1>1, <1>2

-----------------------------------------------------------------------------
(***************************************************************************)
(* The shapes of the simpler parts of the state.                           *)
(***************************************************************************)

\* An operation that holds capacity is counted on a connection that was dialed,
\* and one of a lease on the lease as well.
HoldersDialed ==
    \A p \in Ops \cup LeaseOps : Busy(p) =>
        /\ ConnOf(p) \in Conns /\ conn[ConnOf(p)].at \in Endpoints
        /\ conn[ConnOf(p)].inFlight > 0
        /\ p \in LeaseOps => leaseFlight[Via[p]] > 0

\* acquire finds no connection to select only when none in its scope has
\* capacity for the call: there is a least loaded one among those that have.
LeastSelected ==
    \A a \in Callers :
        Selectable(a) = {} <=> \A e \in Scope(a) : \A c \in Listed(e) : ~Usable(a, c)

\* What the counters, the lists and the leases rest on. The last two follow
\* from the first two by the theorems on cardinality and on least numbers.
Inv == TypeOK /\ LoadInv /\ HoldersDialed /\ LeastSelected

\* closing, closed and the holder of closeMu keep their types.
LEMMA PoolTypeStep ==
    ASSUME Inv, Next
    PROVE  PoolType'
<1> USE Zenon
<1>1. UNCHANGED poolVars => PoolType'
  BY DEF PoolType, Inv, TypeOK, poolVars
<1> USE <1>1
<1>2. \A k \in Closers : CloseBegin(k) => PoolType'
  BY DEF CloseBegin, Inv, TypeOK, PoolType
<1>3. \A k \in Closers : CloseFinish(k) => PoolType'
  BY DEF CloseFinish, Inv, TypeOK, PoolType
<1>4. (\E a \in Callers : AcquireStep(a)) => PoolType'
  BY DEF AcquireStep, Acquire, Wake, AcquireDialed, AcquireWatch,
         AcquireDiscard, AcquireReplace, poolVars, Procs
<1>5. (\E p \in LeaseOps : LeaseAcquire(p) \/ Wake(p)) => PoolType'
  BY DEF LeaseAcquire, Wake, poolVars, Procs
<1>6. (\E p \in Procs : WaitEnds(p)) => PoolType'
  BY DEF WaitEnds, poolVars
<1>7. CASE \E p \in Ops \cup LeaseOps : DoFails(p) \/ DoStarts(p) \/ OperationEnds(p)
  BY <1>7 DEF DoFails, DoStarts, OperationEnds, poolVars
<1>8. CASE \E p \in Ops \cup LeaseOps, who \in {"tracker", "consumer"} :
              ReleaseOnce(p, who)
  BY <1>8 DEF ReleaseOnce, poolVars
<1>9. (\E l \in Leases : LeaseClose(l)) => PoolType'
  BY DEF LeaseClose, poolVars
<1>10. (\E c \in Conns : WatchStep(c) \/ ConnFails(c)) => PoolType'
  BY DEF WatchStep, WatchDone, WatchReplace, CloseSoon, ConnFails, poolVars
<1>11. (\E e \in Endpoints : ReplaceStep(e) \/ BackoffEnds(e)) => PoolType'
  BY DEF ReplaceStep, ReplaceLoop, ReplaceWake, ReplaceDialed, ReplaceWatch,
         ReplaceDiscard, ReplaceExit, BackoffEnds, poolVars
<1>12. (RetireExpired \/ RetireNext \/ MaintainExit) => PoolType'
  BY DEF RetireExpired, RetireNext, MaintainExit, poolVars
<1>13. (\E k \in Closers : CloseBegin(k) \/ CloseStep(k)) => PoolType'
  BY <1>2, <1>3
     DEF CloseStep, CloseDrain, CloseWake, CloseTimeout, CloseAll, CloseNext,
         poolVars
<1>14. (\E p \in Procs \cup Closers : ContextDone(p)) => PoolType'
  BY DEF ContextDone, poolVars
<1> QED
  BY <1>4, <1>5, <1>6, <1>7, <1>8, <1>9, <1>10, <1>11, <1>12, <1>13, <1>14
     DEF Next

\* The calls of CloseContext keep their types.
LEMMA CloseTypeStep ==
    ASSUME Inv, Next
    PROVE  CloseType'
<1> USE Zenon
<1>1. UNCHANGED closeVars => CloseType'
  BY DEF CloseType, Inv, TypeOK, closeVars
<1> USE <1>1
<1>2. \A k \in Closers : CloseBegin(k) => CloseType'
  BY DEF CloseBegin, Inv, TypeOK, CloseType
<1>3. \A k \in Closers : CloseDrain(k) => CloseType'
  BY DEF CloseDrain, Inv, TypeOK, CloseType
<1>4. \A k \in Closers : CloseWake(k) => CloseType'
  BY DEF CloseWake, Inv, TypeOK, CloseType
<1>5. \A k \in Closers : CloseTimeout(k) => CloseType'
  BY DEF CloseTimeout, Inv, TypeOK, CloseType
<1>6. \A k \in Closers : CloseNext(k) => CloseType'
  BY DEF CloseNext, Inv, TypeOK, CloseType
<1>7. \A k \in Closers : CloseFinish(k) => CloseType'
  BY DEF CloseFinish, Inv, TypeOK, CloseType
<1>8. ASSUME NEW k \in Closers, CloseAll(k) PROVE CloseType'
  <2>1. AllListed \subseteq Conns
    BY SMT DEF AllListed, Listed, Inv, TypeOK, ConnType
  <2> QED
    BY <1>8, <2>1 DEF CloseAll, Inv, TypeOK, CloseType
<1>9. (\E a \in Callers : AcquireStep(a)) => CloseType'
  BY DEF AcquireStep, Acquire, Wake, AcquireDialed, AcquireWatch,
         AcquireDiscard, AcquireReplace, closeVars, Procs
<1>10. (\E p \in LeaseOps : LeaseAcquire(p) \/ Wake(p)) => CloseType'
  BY DEF LeaseAcquire, Wake, closeVars, Procs
<1>11. (\E p \in Procs : WaitEnds(p)) => CloseType'
  BY DEF WaitEnds, closeVars
<1>12. CASE \E p \in Ops \cup LeaseOps : DoFails(p) \/ DoStarts(p) \/ OperationEnds(p)
  BY <1>12 DEF DoFails, DoStarts, OperationEnds, closeVars
<1>13. CASE \E p \in Ops \cup LeaseOps, who \in {"tracker", "consumer"} :
              ReleaseOnce(p, who)
  BY <1>13 DEF ReleaseOnce, closeVars
<1>14. (\E l \in Leases : LeaseClose(l)) => CloseType'
  BY DEF LeaseClose, closeVars
<1>15. (\E c \in Conns : WatchStep(c) \/ ConnFails(c)) => CloseType'
  BY DEF WatchStep, WatchDone, WatchReplace, CloseSoon, ConnFails, closeVars
<1>16. (\E e \in Endpoints : ReplaceStep(e) \/ BackoffEnds(e)) => CloseType'
  BY DEF ReplaceStep, ReplaceLoop, ReplaceWake, ReplaceDialed, ReplaceWatch,
         ReplaceDiscard, ReplaceExit, BackoffEnds, closeVars
<1>17. (RetireExpired \/ RetireNext \/ MaintainExit) => CloseType'
  BY DEF RetireExpired, RetireNext, MaintainExit, closeVars
<1>18. (\E k \in Closers : CloseBegin(k) \/ CloseStep(k)) => CloseType'
  BY <1>2, <1>3, <1>4, <1>5, <1>8, <1>6, <1>7 DEF CloseStep
<1>19. (\E p \in Procs \cup Closers : ContextDone(p)) => CloseType'
  BY DEF ContextDone, closeVars
<1> QED
  BY <1>9, <1>10, <1>11, <1>12, <1>13, <1>14, <1>15, <1>16, <1>17, <1>18, <1>19
     DEF Next

\* retireExpired: the connections of gone drain, the idle ones of them are to
\* be closed, and the endpoints of bare get a replacement.
RetireEffect(gone, bare) ==
    LET shut == {c \in gone : conn[c].inFlight = 0} IN
    /\ \A c \in gone : ~conn[c].broken /\ ~conn[c].draining /\ ~conn[c].leased
    /\ conn' = [c \in Conns |->
          IF c \in gone
          THEN [conn[c] EXCEPT !.draining = TRUE, !.retiring = @ \/ c \in shut]
          ELSE conn[c]]
    /\ maint' = [pc |-> IF shut \cup bare = {} THEN "idle" ELSE "busy",
                 close |-> shut, replace |-> bare]

\* Whatever lifetimes have passed, retireExpired has that effect.
LEMMA RetireExpiredTakes ==
    ASSUME RetireExpired
    PROVE  \E gone \in SUBSET AllListed, bare \in SUBSET Endpoints :
               RetireEffect(gone, bare)
<1> USE Zenon
<1> DEFINE mine == {c \in AllListed \cap Ageing : ~conn[c].broken /\ ~conn[c].draining
                                               /\ ~conn[c].leased}
           free(old) == {c \in mine \ old : conn[c].inFlight = 0}
           none(old, idle) == {e \in Endpoints : /\ Listed(e) \cap old # {}
                                                 /\ LiveConns(e) \subseteq old \cup idle}
           effect(gone, bare) ==
               LET shut == {c \in gone : conn[c].inFlight = 0} IN
               /\ conn' = [c \in Conns |->
                     IF c \in gone
                     THEN [conn[c] EXCEPT !.draining = TRUE, !.retiring = @ \/ c \in shut]
                     ELSE conn[c]]
               /\ maint' = [pc |-> IF shut \cup bare = {} THEN "idle" ELSE "busy",
                            close |-> shut, replace |-> bare]
<1>1. \E old \in SUBSET mine : \E idle \in SUBSET free(old) :
         effect(old \cup idle, none(old, idle))
  BY DEF RetireExpired
<1> HIDE DEF effect, none
<1>2. PICK old \in SUBSET mine : \E idle \in SUBSET free(old) :
         effect(old \cup idle, none(old, idle))
  BY <1>1
<1>3. PICK idle \in SUBSET free(old) : effect(old \cup idle, none(old, idle))
  BY <1>2
<1>4. old \cup idle \in SUBSET mine
  BY <1>2, <1>3
<1>5. none(old, idle) \in SUBSET Endpoints
  BY DEF none
<1>6. RetireEffect(old \cup idle, none(old, idle))
  BY <1>3, <1>4 DEF effect, RetireEffect
<1> QED
  BY <1>4, <1>5, <1>6

\* One step of what maintain does after retireExpired: it closes c ...
ClosesOne(c) ==
    /\ CloseConn(c) /\ UNCHANGED <<replacing, rpc>>
    /\ maint' = [maint EXCEPT !.close = @ \ {c},
                    !.pc = IF maint.close = {c} /\ maint.replace = {}
                           THEN "idle" ELSE "busy"]

\* ... or starts the replacement for e.
ReplacesOne(e) ==
    /\ maint.close = {} /\ StartReplacement(e) /\ UNCHANGED conn
    /\ maint' = [maint EXCEPT !.replace = @ \ {e},
                    !.pc = IF maint.replace = {e} THEN "idle" ELSE "busy"]

\* It does one of the two.
LEMMA RetireNextTakes ==
    ASSUME RetireNext
    PROVE  \/ \E c \in maint.close : ClosesOne(c)
           \/ \E e \in maint.replace : ReplacesOne(e)
  BY Zenon DEF RetireNext, ClosesOne, ReplacesOne

\* The replacement goroutines and maintain keep their types.
LEMMA ReplTypeStep ==
    ASSUME Inv, Next
    PROVE  ReplType'
<1> USE Zenon
<1>1. UNCHANGED <<replVars, maint>> => ReplType'
  BY DEF ReplType, Inv, TypeOK, replVars
<1>2. \A a \in Callers : AcquireReplace(a) => ReplType'
  BY DEF AcquireReplace, StartReplacement, Inv, TypeOK, ReplType
<1>3. \A c \in Conns : WatchReplace(c) => ReplType'
  BY DEF WatchReplace, StartReplacement, Inv, TypeOK, ReplType
<1>4. \A e \in Endpoints : ReplaceLoop(e) => ReplType'
  BY DEF ReplaceLoop, StartReplacement, Inv, TypeOK, ReplType
<1>5. \A e \in Endpoints : ReplaceWake(e) => ReplType'
  BY DEF ReplaceWake, StartReplacement, Inv, TypeOK, ReplType
<1>6. \A e \in Endpoints : ReplaceWatch(e) => ReplType'
  BY DEF ReplaceWatch, StartReplacement, Inv, TypeOK, ReplType
<1>7. \A e \in Endpoints : ReplaceDiscard(e) => ReplType'
  BY DEF ReplaceDiscard, StartReplacement, Inv, TypeOK, ReplType
<1>8. \A e \in Endpoints : ReplaceExit(e) => ReplType'
  BY DEF ReplaceExit, StartReplacement, Inv, TypeOK, ReplType
<1>9. ASSUME NEW e \in Endpoints, ReplaceDialed(e) PROVE ReplType'
  <2> USE <1>9
  <2>1. UNCHANGED <<replacing, maint>>
    BY DEF ReplaceDialed
  <2>2. \/ \E c \in Conns : /\ rconn' = [rconn EXCEPT ![e] = c]
                            /\ \/ rpc' = [rpc EXCEPT ![e] = "discard"]
                               \/ rpc' = [rpc EXCEPT ![e] = "watch"]
        \/ rpc' = [rpc EXCEPT ![e] = "loop"] /\ UNCHANGED rconn
    BY DEF ReplaceDialed
  <2> QED
    BY <2>1, <2>2, SMT DEF Inv, TypeOK, ReplType
<1>10. ASSUME RetireExpired PROVE ReplType'
  <2> USE <1>10
  <2>1. UNCHANGED replVars
    BY DEF RetireExpired
  <2>2. PICK gone \in SUBSET AllListed, bare \in SUBSET Endpoints :
           RetireEffect(gone, bare)
    BY RetireExpiredTakes
  <2>3. AllListed \subseteq Conns
    BY SMT DEF AllListed, Listed, Inv, TypeOK, ConnType
  <2>4. {c \in gone : conn[c].inFlight = 0} \subseteq Conns
    BY <2>3
  <2> QED
    BY <2>1, <2>2, <2>4 DEF RetireEffect, Inv, TypeOK, ReplType, replVars
<1>11. ASSUME RetireNext PROVE ReplType'
  <2> USE <1>11
  <2>1. CASE \E c \in maint.close : ClosesOne(c)
    <3>1. PICK c \in maint.close : ClosesOne(c)
      BY <2>1
    <3>2. UNCHANGED <<replacing, rpc, rconn>>
      BY <3>1 DEF RetireNext, ClosesOne
    <3>3. maint' \in [pc : {"idle", "busy", "done"}, close : SUBSET Conns,
                      replace : SUBSET Endpoints]
      BY <3>1 DEF ClosesOne, Inv, TypeOK, ReplType
    <3> QED
      BY <3>2, <3>3 DEF Inv, TypeOK, ReplType
  <2>2. CASE \E e \in maint.replace : ReplacesOne(e)
    <3>1. PICK e \in maint.replace : ReplacesOne(e)
      BY <2>2
    <3>2. e \in Endpoints /\ UNCHANGED rconn
      BY DEF RetireNext, Inv, TypeOK, ReplType
    <3>3. maint' \in [pc : {"idle", "busy", "done"}, close : SUBSET Conns,
                      replace : SUBSET Endpoints]
      BY <3>1 DEF ReplacesOne, Inv, TypeOK, ReplType
    <3>4. /\ replacing' \in [Endpoints -> BOOLEAN]
          /\ rpc' \in [Endpoints -> {"off", "loop", "sleep", "dialing", "watch",
                                     "discard", "exit"}]
      BY <3>1, <3>2 DEF ReplacesOne, StartReplacement, Inv, TypeOK, ReplType
    <3> QED
      BY <3>2, <3>3, <3>4 DEF Inv, TypeOK, ReplType
  <2> QED
    BY <2>1, <2>2, RetireNextTakes
<1>12. MaintainExit => ReplType'
  BY DEF MaintainExit, Inv, TypeOK, ReplType, replVars
<1>13. (\E a \in Callers : AcquireStep(a)) => ReplType'
  BY <1>1, <1>2
     DEF AcquireStep, Acquire, Wake, AcquireDialed, AcquireWatch,
         AcquireDiscard, replVars, Procs
<1>14. (\E p \in LeaseOps : LeaseAcquire(p) \/ Wake(p)) => ReplType'
  BY <1>1 DEF LeaseAcquire, Wake, replVars, Procs
<1>15. (\E p \in Procs : WaitEnds(p)) => ReplType'
  BY <1>1 DEF WaitEnds, replVars
<1>16. CASE \E p \in Ops \cup LeaseOps : DoFails(p) \/ DoStarts(p) \/ OperationEnds(p)
  BY <1>16, <1>1 DEF DoFails, DoStarts, OperationEnds, replVars
<1>17. CASE \E p \in Ops \cup LeaseOps, who \in {"tracker", "consumer"} :
              ReleaseOnce(p, who)
  BY <1>17, <1>1 DEF ReleaseOnce, replVars
<1>18. (\E l \in Leases : LeaseClose(l)) => ReplType'
  BY <1>1 DEF LeaseClose, replVars
<1>19. (\E c \in Conns : WatchStep(c) \/ ConnFails(c)) => ReplType'
  BY <1>1, <1>3 DEF WatchStep, WatchDone, CloseSoon, ConnFails, replVars
<1>20. (\E e \in Endpoints : ReplaceStep(e) \/ BackoffEnds(e)) => ReplType'
  BY <1>1, <1>4, <1>5, <1>9, <1>6, <1>7, <1>8
     DEF ReplaceStep, BackoffEnds, replVars
<1>21. (RetireExpired \/ RetireNext \/ MaintainExit) => ReplType'
  BY <1>10, <1>11, <1>12
<1>22. (\E k \in Closers : CloseBegin(k) \/ CloseStep(k)) => ReplType'
  BY <1>1
     DEF CloseStep, CloseBegin, CloseDrain, CloseWake, CloseTimeout, CloseAll,
         CloseNext, CloseFinish, replVars
<1>23. (\E p \in Procs \cup Closers : ContextDone(p)) => ReplType'
  BY <1>1 DEF ContextDone, replVars
<1> QED
  BY <1>13, <1>14, <1>15, <1>16, <1>17, <1>18, <1>19, <1>20, <1>21, <1>22, <1>23
     DEF Next

-----------------------------------------------------------------------------
(***************************************************************************)
(* Who sleeps, and the calls.                                              *)
(***************************************************************************)

SleepOK == sleeping \subseteq Procs \cup Closers /\ armed \subseteq Callers

\* Only calls sleep, and only calls of acquire have timers.
LEMMA SleepStep ==
    ASSUME Inv, Next
    PROVE  SleepOK'
<1> USE Zenon
<1>1. sleeping' \subseteq sleeping /\ armed' \subseteq armed => SleepOK'
  BY DEF SleepOK, Inv, TypeOK, WaitType
<1> USE <1>1
<1>2. ASSUME NEW a \in Callers, Acquire(a) PROVE SleepOK'
  <2>1. \/ sleeping' \subseteq sleeping /\ UNCHANGED armed
        \/ Enqueue(a, Room(a) # {})
    BY <1>2 DEF Acquire, Signal
  <2>2. Enqueue(a, Room(a) # {}) => SleepOK'
    BY DEF Enqueue, SleepOK, Procs, waitVars, Inv, TypeOK, WaitType
  <2> QED
    BY <2>1, <2>2
<1>3. ASSUME NEW p \in LeaseOps, LeaseAcquire(p) PROVE SleepOK'
  <2>1. \/ sleeping' \subseteq sleeping /\ UNCHANGED armed
        \/ Enqueue(p, FALSE)
    BY <1>3 DEF LeaseAcquire, Signal
  <2>2. Enqueue(p, FALSE) => SleepOK'
    BY DEF Enqueue, SleepOK, Procs, waitVars, Inv, TypeOK, WaitType
  <2> QED
    BY <2>1, <2>2
<1>4. \A p \in Ops \cup LeaseOps : DoFails(p) => SleepOK'
  BY DEF DoFails, ReleaseOf, ReleaseOperation, ReleaseLeaseOperation, Settle,
         Signal
<1>5. \A p \in Ops \cup LeaseOps : \A who \in {"tracker", "consumer"} :
         ReleaseOnce(p, who) =>
            SleepOK'
  BY SMT
     DEF ReleaseOnce, ReleaseOf, ReleaseOperation, ReleaseLeaseOperation,
         Settle, Signal
<1>6. \A l \in Leases : LeaseClose(l) => SleepOK'
  BY DEF LeaseClose, Settle, Signal
<1>7. \A k \in Closers : CloseDrain(k) => SleepOK'
  BY DEF CloseDrain, SleepOK, Inv, TypeOK, WaitType
<1>8. (\E a \in Callers : AcquireStep(a)) => SleepOK'
  BY <1>2
     DEF AcquireStep, Wake, AcquireDialed, AcquireWatch, AcquireDiscard,
         AcquireReplace, waitVars, Signal, DialEnds, Procs
<1>9. (\E p \in LeaseOps : LeaseAcquire(p) \/ Wake(p)) => SleepOK'
  BY <1>3 DEF Wake, waitVars, Signal, DialEnds, Procs
<1>10. (\E p \in Procs : WaitEnds(p)) => SleepOK'
  BY DEF WaitEnds, waitVars, Signal, DialEnds
<1>11. CASE \E p \in Ops \cup LeaseOps : DoFails(p) \/ DoStarts(p) \/ OperationEnds(p)
  BY <1>11, <1>4 DEF DoStarts, OperationEnds, waitVars, Signal, DialEnds
<1>12. CASE \E p \in Ops \cup LeaseOps, who \in {"tracker", "consumer"} :
              ReleaseOnce(p, who)
  BY <1>12, <1>5
<1>13. (\E l \in Leases : LeaseClose(l)) => SleepOK'
  BY <1>6
<1>14. (\E c \in Conns : WatchStep(c) \/ ConnFails(c)) => SleepOK'
  BY DEF WatchStep, WatchDone, WatchReplace, CloseSoon, ConnFails, waitVars,
         Signal, DialEnds
<1>15. (\E e \in Endpoints : ReplaceStep(e) \/ BackoffEnds(e)) => SleepOK'
  BY DEF ReplaceStep, ReplaceLoop, ReplaceWake, ReplaceDialed, ReplaceWatch,
         ReplaceDiscard, ReplaceExit, BackoffEnds, waitVars, Signal, DialEnds
<1>16. (RetireExpired \/ RetireNext \/ MaintainExit) => SleepOK'
  BY DEF RetireExpired, RetireNext, MaintainExit, waitVars, Signal, DialEnds
<1>17. (\E k \in Closers : CloseBegin(k) \/ CloseStep(k)) => SleepOK'
  BY <1>7
     DEF CloseStep, CloseBegin, CloseWake, CloseTimeout, CloseAll, CloseNext,
         CloseFinish, waitVars, Signal, DialEnds
<1>18. (\E p \in Procs \cup Closers : ContextDone(p)) => SleepOK'
  BY DEF ContextDone, waitVars, Signal, DialEnds
<1> QED
  BY <1>8, <1>9, <1>10, <1>11, <1>12, <1>13, <1>14, <1>15, <1>16, <1>17, <1>18
     DEF Next

\* What acquire looks through is what was configured and listed.
LEMMA InScope ==
    ASSUME Inv, NEW a \in Callers
    PROVE  /\ Scope(a) \subseteq Endpoints
           /\ Selectable(a) \subseteq Conns
           /\ Dialable(a) \subseteq Endpoints
<1> USE Zenon
<1>1. Scope(a) \subseteq Endpoints
  BY PoolAssumption DEF Scope
<1>2. \A e \in Endpoints : Listed(e) \subseteq Conns
  BY SMT DEF Listed, Inv, TypeOK, ConnType
<1>3. Selectable(a) \subseteq UNION {Listed(e) : e \in Scope(a)}
  BY DEF Selectable
<1>4. Dialable(a) \subseteq Scope(a)
  BY DEF Dialable, Room
<1> QED
  BY <1>1, <1>2, <1>3, <1>4

\* The four ways acquire's loop can go: the pool is closing, ...
Refused(a) ==
    /\ closing /\ Unregister(a)
    /\ pc' = [pc EXCEPT ![a] = "failed"]
    /\ UNCHANGED <<sleeping, armed, dialing, conn, on, target>>

\* ... a connection has capacity, ...
Granted(a, c) ==
    /\ ~closing /\ c \in Selectable(a) /\ Unregister(a)
    /\ conn' = IF a \in Leases THEN [conn EXCEPT ![c].leased = TRUE]
                               ELSE [conn EXCEPT ![c].inFlight = @ + 1]
    /\ on' = [on EXCEPT ![a] = c]
    /\ pc' = [pc EXCEPT ![a] = "held"]
    /\ UNCHANGED <<sleeping, armed, dialing, target>>

\* ... an endpoint has room for one more, ...
Dials(a, e) ==
    /\ ~closing /\ Selectable(a) = {} /\ e \in Dialable(a)
    /\ dialing' = [dialing EXCEPT ![e] = @ + 1]
    /\ target' = [target EXCEPT ![a] = e]
    /\ pc' = [pc EXCEPT ![a] = "dialing"]
    /\ Signal
    /\ UNCHANGED <<waiters, exactWaiters, registered, armed, conn, on>>

\* ... or the call waits, if it may.
Waits(a) ==
    /\ ~closing /\ Selectable(a) = {} /\ Dialable(a) = {}
    /\ Enqueue(a, Room(a) # {})
    /\ UNCHANGED <<dialing, conn, on, target>>

\* One pass of acquire's loop is one of the four.
LEMMA AcquireTakes ==
    ASSUME Inv, NEW a \in Callers, Acquire(a)
    PROVE  \/ Refused(a) \/ Waits(a)
           \/ \E c \in Conns : Granted(a, c)
           \/ \E e \in Endpoints : Dials(a, e)
<1> USE Zenon
<1>1. \/ Refused(a) \/ Waits(a)
      \/ \E c \in Selectable(a) : Granted(a, c)
      \/ \E e \in Dialable(a) : Dials(a, e)
  BY DEF Acquire, Refused, Granted, Dials, Waits
<1> QED
  BY <1>1, InScope

ProcOK == ProcType /\ Placed

\* p alone moves, to v, and has there what its next step needs.
Fits(p, v) ==
    /\ p \in Callers /\ v \in {"held", "watch", "discard"} => on'[p] \in Conns
    /\ p \in Callers /\ v \in {"dialing", "replace"} => target'[p] \in Endpoints
    /\ p \in Ops /\ v = "open" => on'[p] \in Conns
    /\ p \in Leases => v \notin {"open", "done"} /\ pc[p] \notin {"held", "done"}
    /\ p \in LeaseOps =>
          /\ v \in {"idle", "loop", "asleep", "held", "open", "done", "failed"}
          /\ v \in {"loop", "asleep", "held", "open"} => pc[Via[p]] \in {"held", "done"}
    /\ p \notin ended

Moves(p, v) ==
    /\ v \in AcquirePC \cup {"held", "open", "done", "failed"}
    /\ pc' = [pc EXCEPT ![p] = v]
    /\ \/ UNCHANGED on
       \/ \E c \in Conns \cup {None} : on' = [on EXCEPT ![p] = c]
    /\ \/ UNCHANGED target
       \/ \E e \in Endpoints \cup {None} : target' = [target EXCEPT ![p] = e]
    /\ UNCHANGED <<opVars, ctxDone, leaseClosed>>

\* Every call is where its next step can be taken.
LEMMA ProcStep ==
    ASSUME Inv, Next
    PROVE  ProcOK'
\* A move that fits leaves every call where its next step can be taken.
<1> USE Zenon
<1>MoveKeeps.
    ASSUME NEW p \in Procs, NEW v, Moves(p, v), Fits(p, v)
    PROVE  ProcOK'
  <2> USE <1>MoveKeeps
  <2>1. ProcType'
    <3>1. ProcType
      BY DEF Inv, TypeOK
    <3> QED
      BY <3>1 DEF Moves, ProcType, opVars
  <2>2. /\ pc' = [pc EXCEPT ![p] = v] /\ UNCHANGED <<ended, calls, leaseClosed>>
        /\ \A q \in Procs : q # p => on'[q] = on[q] /\ target'[q] = target[q]
        /\ \A q \in Procs : pc'[q] = IF q = p THEN v ELSE pc[q]
    BY DEF Moves, Inv, TypeOK, ProcType, opVars
  <2> USE <2>2
  <2>3. Callers \subseteq Procs /\ LeaseOps \subseteq Procs /\ Ops \subseteq Callers /\ Leases \subseteq Callers
    BY DEF Procs, Callers
  <2>4. Placed /\ Via \in [LeaseOps -> Leases] /\ LeaseOps \cap Callers = {} /\ Ops \cap Leases = {}
    BY PoolAssumption DEF Inv, LoadInv
  <2> USE <2>4
  <2>5. \A a \in Callers : pc'[a] \in {"held", "watch", "discard"} => on'[a] \in Conns
    BY <2>3, SMT DEF Placed, Fits
  <2>6. \A a \in Callers : pc'[a] \in {"dialing", "replace"} => target'[a] \in Endpoints
    BY <2>3, SMT DEF Placed, Fits
  <2>7. \A o \in Ops : pc'[o] = "open" => on'[o] \in Conns
    BY <2>3, SMT DEF Placed, Fits
  <2>8. \A l \in Leases : /\ pc'[l] # "open"
                          /\ pc'[l] = "done" => on'[l] \in Conns
                          /\ l \in leaseClosed' <=> pc'[l] = "done"
    BY <2>3, SMT DEF Placed, Fits
  <2>9. \A q \in LeaseOps : /\ pc'[q] \in {"idle", "loop", "asleep", "held", "open",
                                         "done", "failed"}
                            /\ pc'[q] \in {"loop", "asleep", "held", "open"} =>
                                  pc'[Via[q]] \in {"held", "done"}
    BY <2>3, SMT DEF Placed, Fits
  <2>10. \A q \in ended' : pc'[q] = IF Released(q)' THEN "done" ELSE "open"
    <3>1. ended \subseteq Procs
      BY <2>3 DEF Inv, TypeOK, ProcType
    <3>2. \A q \in ended : pc'[q] = pc[q]
      BY <3>1 DEF Fits
    <3>3. \A q : Released(q)' <=> Released(q)
      BY DEF Released
    <3> QED
      BY <3>2, <3>3, SMT DEF Placed
  <2>11. Placed'
    <3>1. \A q \in Ops \cup LeaseOps : Released(q)' => q \in ended'
      BY DEF Placed, Released
    <3> QED
      BY <2>5, <2>6, <2>7, <2>8, <2>9, <2>10, <3>1 DEF Placed
  <2> QED
    BY <2>1, <2>11 DEF ProcOK
\* A call of acquire is not an operation of a lease, and one that has not got
\* what it asks for has not ended.
<1>NotEnded. \A p \in Procs : pc[p] \notin {"open", "done"} => p \notin ended
  BY DEF Inv, LoadInv, Placed
\* What the four ways do to the calls.
<1>AcquireMoves.
    ASSUME NEW a \in Callers, Acquire(a)
    PROVE  \E v : Moves(a, v) /\ Fits(a, v)
  <2> USE <1>AcquireMoves
  <2>1. /\ a \in Procs /\ a \notin LeaseOps /\ a \notin ended /\ pc[a] \in {"idle", "loop"}
        /\ UNCHANGED <<opVars, ctxDone, leaseClosed>>
    BY <1>NotEnded, PoolAssumption DEF Acquire, Procs, leaseVars
  <2> USE <2>1
  <2>2. on \in [Procs -> Conns \cup {None}] /\ target \in [Procs -> Endpoints \cup {None}]
    BY DEF Inv, TypeOK, ProcType
  <2>3. CASE Refused(a)
    <3>1. Moves(a, "failed")
      BY <2>3 DEF Refused, Moves
    <3>2. Fits(a, "failed")
      BY DEF Fits
    <3> QED
      BY <3>1, <3>2
  <2>4. CASE Waits(a)
    <3>1. PICK v \in {"failed", "asleep"} : Moves(a, v)
      BY <2>4 DEF Waits, Enqueue, Moves, AcquirePC
    <3>2. Fits(a, v)
      BY DEF Fits
    <3> QED
      BY <3>1, <3>2
  <2>5. CASE \E c \in Conns : Granted(a, c)
    <3>1. PICK c \in Conns : Granted(a, c)
      BY <2>5
    <3>2. Moves(a, "held")
      BY <3>1 DEF Granted, Moves
    <3>3. on'[a] = c
      BY <2>2, <3>1 DEF Granted
    <3>4. Fits(a, "held")
      BY <3>3 DEF Fits
    <3> QED
      BY <3>2, <3>4
  <2>6. CASE \E e \in Endpoints : Dials(a, e)
    <3>1. PICK e \in Endpoints : Dials(a, e)
      BY <2>6
    <3>2. Moves(a, "dialing")
      BY <3>1 DEF Dials, Moves, AcquirePC
    <3>3. target'[a] = e
      BY <2>2, <3>1 DEF Dials
    <3>4. Fits(a, "dialing")
      BY <3>3 DEF Fits
    <3> QED
      BY <3>2, <3>4
  <2> QED
    BY <2>3, <2>4, <2>5, <2>6, AcquireTakes
\* What the end of a dial does to the call that dialed.
<1>DialedMoves.
    ASSUME NEW a \in Callers, AcquireDialed(a)
    PROVE  \E v : Moves(a, v) /\ Fits(a, v)
  <2> USE <1>DialedMoves
  <2>1. /\ a \in Procs /\ a \notin LeaseOps /\ a \notin ended /\ pc[a] = "dialing"
        /\ target[a] \in Endpoints
        /\ UNCHANGED <<opVars, ctxDone, leaseClosed>>
    BY <1>NotEnded, PoolAssumption DEF AcquireDialed, Procs, leaseVars, Inv, LoadInv, Placed
  <2> USE <2>1
  <2>2. on \in [Procs -> Conns \cup {None}] /\ target \in [Procs -> Endpoints \cup {None}]
    BY DEF Inv, TypeOK, ProcType
  <2>3. CASE \E c \in Conns : /\ on' = [on EXCEPT ![a] = c]
                              /\ target' = [target EXCEPT ![a] = None]
                              /\ pc' = [pc EXCEPT ![a] = IF closing THEN "discard" ELSE "watch"]
    <3>1. PICK c \in Conns, v \in {"discard", "watch"} :
             /\ on' = [on EXCEPT ![a] = c]
             /\ target' = [target EXCEPT ![a] = None]
             /\ pc' = [pc EXCEPT ![a] = v]
      BY <2>3
    <3> USE <3>1
    <3>2. Moves(a, v)
      BY DEF Moves, AcquirePC
    <3>3. on'[a] = c
      BY <2>2
    <3>4. Fits(a, v)
      BY <3>3 DEF Fits
    <3> QED
      BY <3>2, <3>4
  <2>4. CASE pc' = [pc EXCEPT ![a] = "replace"] /\ UNCHANGED <<on, target>>
    <3> USE <2>4
    <3>1. Moves(a, "replace")
      BY DEF Moves, AcquirePC
    <3>2. Fits(a, "replace")
      BY DEF Fits
    <3> QED
      BY <3>1, <3>2
  <2> QED
    BY <2>3, <2>4 DEF AcquireDialed
<1>1. UNCHANGED <<pc, on, target, ended, calls, ctxDone, leaseClosed>> =>
         ProcOK'
  BY SMT DEF ProcOK, Inv, TypeOK, ProcType, LoadInv, Placed, Released
<1>2. \A a \in Callers : Acquire(a) => ProcOK'
  BY <1>AcquireMoves, <1>MoveKeeps DEF Procs
<1>3. \A a \in Callers : AcquireDialed(a) => ProcOK'
  BY <1>DialedMoves, <1>MoveKeeps DEF Procs
<1>4. ASSUME NEW a \in Callers, AcquireWatch(a) PROVE ProcOK'
  <2> USE <1>4
  <2>1. a \in Procs /\ a \notin ended /\ a \notin LeaseOps /\ pc[a] \notin {"held", "done"}
    BY <1>NotEnded, PoolAssumption
       DEF AcquireWatch, Procs, Callers, Inv, LoadInv, Placed
  <2>2. Moves(a, "loop")
    BY DEF AcquireWatch, Moves, AcquirePC, procVars, leaseVars
  <2>3. Fits(a, "loop")
    BY <2>1 DEF Fits
  <2> QED
    BY <2>1, <2>2, <2>3, <1>MoveKeeps
<1>5. ASSUME NEW a \in Callers, AcquireDiscard(a) PROVE ProcOK'
  <2> USE <1>5, Zenon
  <2>1. a \in Procs /\ a \notin ended /\ a \notin LeaseOps /\ pc[a] \notin {"held", "done"}
    BY <1>NotEnded, PoolAssumption
       DEF AcquireDiscard, Procs, Callers, Inv, LoadInv, Placed
  <2>2. Moves(a, "failed")
    BY DEF AcquireDiscard, Moves, AcquirePC, procVars, leaseVars
  <2>3. Fits(a, "failed")
    BY <2>1 DEF Fits
  <2> QED
    BY <2>1, <2>2, <2>3, <1>MoveKeeps
<1>6. ASSUME NEW a \in Callers, AcquireReplace(a) PROVE ProcOK'
  <2> USE <1>6
  <2>1. a \in Procs /\ a \notin ended /\ a \notin LeaseOps /\ pc[a] \notin {"held", "done"}
    BY <1>NotEnded, PoolAssumption
       DEF AcquireReplace, Procs, Callers, Inv, LoadInv, Placed
  <2>2. PICK v \in {"failed", "loop"} : Moves(a, v)
    BY DEF AcquireReplace, Moves, AcquirePC, leaseVars
  <2>3. Fits(a, v)
    BY <2>1 DEF Fits
  <2> QED
    BY <2>1, <2>2, <2>3, <1>MoveKeeps
<1>7. ASSUME NEW p \in Procs, Wake(p) PROVE ProcOK'
  <2> USE <1>7
  <2>1. /\ p \in Procs /\ p \notin ended /\ pc[p] = "asleep"
        /\ p \in LeaseOps => pc[Via[p]] \in {"held", "done"}
    BY <1>NotEnded, PoolAssumption
       DEF Wake, Procs, Callers, Inv, LoadInv, Placed
  <2>2. Moves(p, "loop")
    BY DEF Wake, Moves, AcquirePC, procVars, leaseVars
  <2>3. Fits(p, "loop")
    BY <2>1 DEF Fits
  <2> QED
    BY <2>1, <2>2, <2>3, <1>MoveKeeps
<1>8. ASSUME NEW p \in Procs, WaitEnds(p) PROVE ProcOK'
  <2> USE <1>8
  <2>1. p \in Procs /\ p \notin ended /\ pc[p] = "asleep"
    BY <1>NotEnded, PoolAssumption
       DEF WaitEnds, Procs, Callers, Inv, LoadInv, Placed
  <2>2. Moves(p, "failed")
    BY DEF WaitEnds, Moves, AcquirePC, procVars, leaseVars
  <2>3. Fits(p, "failed")
    BY <2>1 DEF Fits
  <2> QED
    BY <2>1, <2>2, <2>3, <1>MoveKeeps
<1>9. ASSUME NEW p \in Ops \cup LeaseOps, DoFails(p) PROVE ProcOK'
  <2> USE <1>9
  <2>1. p \in Procs /\ p \notin ended /\ p \notin Leases
    BY <1>NotEnded, PoolAssumption
       DEF DoFails, Procs, Callers, Inv, LoadInv, Placed
  <2>2. Moves(p, "failed")
    BY DEF DoFails, Moves, AcquirePC, procVars, leaseVars
  <2>3. Fits(p, "failed")
    BY <2>1 DEF Fits
  <2> QED
    BY <2>1, <2>2, <2>3, <1>MoveKeeps
<1>10. ASSUME NEW p \in Ops \cup LeaseOps, DoStarts(p) PROVE ProcOK'
  <2> USE <1>10
  <2>1. /\ p \in Procs /\ p \notin ended /\ p \notin Leases /\ UNCHANGED on
        /\ p \in Ops => on[p] \in Conns
        /\ p \in LeaseOps => pc[Via[p]] \in {"held", "done"}
    BY <1>NotEnded, PoolAssumption
       DEF DoStarts, Procs, Callers, Inv, LoadInv, Placed
  <2>2. Moves(p, "open")
    BY DEF DoStarts, Moves, AcquirePC, procVars, leaseVars
  <2>3. Fits(p, "open")
    BY <2>1 DEF Fits
  <2> QED
    BY <2>1, <2>2, <2>3, <1>MoveKeeps
<1>11. ASSUME NEW p \in LeaseOps, LeaseAcquire(p) PROVE ProcOK'
  <2> USE <1>11
  <2>1. p \in Procs /\ p \notin ended /\ p \notin Callers /\ pc[Via[p]] \in {"held", "done"}
    BY <1>NotEnded, PoolAssumption DEF LeaseAcquire, Procs
  <2>2. PICK v \in {"failed", "held", "asleep"} : Moves(p, v)
    BY DEF LeaseAcquire, Enqueue, Moves, AcquirePC
  <2>3. Fits(p, v)
    BY <2>1 DEF Fits, Callers
  <2> QED
    BY <2>1, <2>2, <2>3, <1>MoveKeeps
<1>12. ASSUME NEW l \in Leases, LeaseClose(l) PROVE ProcOK'
  <2>1. /\ pc[l] = "held" /\ pc' = [pc EXCEPT ![l] = "done"]
        /\ leaseClosed' = leaseClosed \cup {l}
        /\ UNCHANGED <<on, target, opVars, ctxDone>>
    BY <1>12 DEF LeaseClose
  <2> USE <2>1
  <2>2. l \in Procs /\ l \notin Ops /\ l \notin LeaseOps /\ l \notin ended
    BY <1>NotEnded, PoolAssumption DEF Procs, Callers
  <2>3. ProcType'
    BY <2>2 DEF Inv, TypeOK, ProcType, opVars
  <2>4. \A q \in Procs : pc'[q] = IF q = l THEN "done" ELSE pc[q]
    BY DEF Inv, TypeOK, ProcType
  <2>5. /\ Placed /\ Callers \subseteq Procs /\ LeaseOps \subseteq Procs /\ Ops \subseteq Callers
        /\ Leases \subseteq Callers /\ Via \in [LeaseOps -> Leases] /\ ended \subseteq Procs
    BY PoolAssumption DEF Inv, LoadInv, TypeOK, ProcType, Procs, Callers
  <2>6. Placed'
    BY <2>2, <2>4, <2>5, SMT DEF Placed, Released, opVars
  <2> QED
    BY <2>3, <2>6 DEF ProcOK
<1>13. ASSUME NEW p \in Ops \cup LeaseOps, OperationEnds(p) PROVE ProcOK'
  <2>1. /\ pc[p] = "open" /\ p \notin ended /\ ended' = ended \cup {p}
        /\ UNCHANGED <<pc, on, target, calls, ctxDone, leaseClosed>>
    BY <1>13 DEF OperationEnds, procVars, leaseVars
  <2> USE <2>1
  <2>2. ProcType'
    BY DEF Inv, TypeOK, ProcType
  <2>3. ~Released(p) /\ \A q : Released(q)' <=> Released(q)
    BY DEF Inv, LoadInv, Placed, Released
  <2>4. Placed'
    BY <2>3, SMT DEF Inv, LoadInv, Placed
  <2> QED
    BY <2>2, <2>4 DEF ProcOK
<1>14. ASSUME NEW p \in Ops \cup LeaseOps, NEW who \in {"tracker", "consumer"}, ReleaseOnce(p, who)
      PROVE  ProcOK'
  <2> USE <1>14
  <2>1. /\ p \in ended /\ calls' = calls \cup {<<p, who>>}
        /\ UNCHANGED <<on, target, ended, ctxDone, leaseClosed>>
        /\ \/ pc' = [pc EXCEPT ![p] = "done"]
           \/ UNCHANGED pc /\ Released(p)
    BY DEF ReleaseOnce, Released
  <2> USE <2>1
  <2>2. p \in Procs /\ p \notin Leases
    BY PoolAssumption DEF Procs, Callers
  <2>3. pc[p] \in {"open", "done"}
    BY DEF Inv, LoadInv, Placed
  <2>4. ProcType'
    BY SMT DEF Inv, TypeOK, ProcType
  <2>5. /\ \A q \in Procs : q # p => pc'[q] = pc[q]
        /\ pc'[p] = "done"
    BY <2>2, SMT DEF Inv, TypeOK, ProcType, LoadInv, Placed
  <2>6. /\ Placed /\ Callers \subseteq Procs /\ LeaseOps \subseteq Procs /\ Ops \subseteq Callers
        /\ Leases \subseteq Callers /\ Via \in [LeaseOps -> Leases] /\ ended \subseteq Procs
    BY PoolAssumption DEF Inv, LoadInv, TypeOK, ProcType, Procs, Callers
  <2>7. Released(p)' /\ \A q : q # p => (Released(q)' <=> Released(q))
    BY DEF Released
  <2>8. Placed'
    BY <2>2, <2>3, <2>5, <2>6, <2>7, SMT DEF Placed
  <2> QED
    BY <2>4, <2>8 DEF ProcOK
<1>15. \A p \in Procs \cup Closers : ContextDone(p) => ProcOK'
  BY SMT DEF ContextDone, ProcOK, Inv, TypeOK, ProcType, LoadInv, Placed, Released,
         procVars, opVars, leaseVars
<1>16. CASE \E a \in Callers : AcquireStep(a)
  BY <1>16, <1>2, <1>7, <1>3, <1>4, <1>5, <1>6 DEF AcquireStep, Procs
<1>17. CASE \E p \in LeaseOps : LeaseAcquire(p) \/ Wake(p)
  BY <1>17, <1>11, <1>7 DEF Procs
<1>18. CASE \E p \in Procs : WaitEnds(p)
  BY <1>18, <1>8
<1>19. CASE \E p \in Ops \cup LeaseOps : DoFails(p) \/ DoStarts(p) \/ OperationEnds(p)
  BY <1>19, <1>9, <1>10, <1>13
<1>20. CASE \E p \in Ops \cup LeaseOps, who \in {"tracker", "consumer"} :
              ReleaseOnce(p, who)
  BY <1>20, <1>14
<1>21. CASE \E l \in Leases : LeaseClose(l)
  BY <1>21, <1>12
<1>22. CASE \E c \in Conns : WatchStep(c) \/ ConnFails(c)
  BY <1>22, <1>1
     DEF WatchStep, WatchDone, WatchReplace, CloseSoon, ConnFails, procVars,
         opVars, leaseVars
<1>23. CASE \E e \in Endpoints : ReplaceStep(e) \/ BackoffEnds(e)
  BY <1>23, <1>1
     DEF ReplaceStep, ReplaceLoop, ReplaceWake, ReplaceDialed, ReplaceWatch,
         ReplaceDiscard, ReplaceExit, BackoffEnds, procVars, opVars, leaseVars
<1>24. CASE RetireExpired \/ RetireNext \/ MaintainExit
  BY <1>24, <1>1
     DEF RetireExpired, RetireNext, MaintainExit, procVars, opVars, leaseVars
<1>25. CASE \E k \in Closers : CloseBegin(k) \/ CloseStep(k)
  BY <1>25, <1>1
     DEF CloseStep, CloseBegin, CloseDrain, CloseWake, CloseTimeout, CloseAll,
         CloseNext, CloseFinish, procVars, opVars, leaseVars
<1>26. CASE \E p \in Procs \cup Closers : ContextDone(p)
  BY <1>26, <1>15
<1> QED
  BY <1>16, <1>17, <1>18, <1>19, <1>20, <1>21, <1>22, <1>23, <1>24, <1>25,
     <1>26 DEF Next

-----------------------------------------------------------------------------
(***************************************************************************)
(* The connections.                                                        *)
(***************************************************************************)

\* A connection in a list is dialed to the list's endpoint.
LEMMA ListedDialed ==
    ASSUME Inv, NEW e \in Endpoints, NEW c \in Listed(e)
    PROVE  c \in Conns /\ conn[c].at = e /\ conn[c].at # None
<1> USE Zenon
<1>1. conns[e] \in Seq(Conns)
  BY DEF Inv, TypeOK, ConnType
<1>2. PICK k \in DOMAIN conns[e] : c = conns[e][k]
  BY DEF Listed
<1>3. c \in Conns
  BY <1>1, <1>2, SeqElements
<1>4. conn[c].at = e
  BY <1>2 DEF Inv, LoadInv, Filed
<1> QED
  BY <1>3, <1>4, PoolAssumption

\* An operation that holds capacity is counted on a connection that was dialed.
LEMMA HolderDialed ==
    ASSUME Inv, NEW p \in Ops \cup LeaseOps, Busy(p)
    PROVE  LET c == ConnOf(p) IN
           /\ c \in Conns /\ conn[c].at \in Endpoints /\ conn[c].inFlight > 0
           /\ p \in LeaseOps => leaseFlight[Via[p]] > 0
  BY Zenon DEF Inv, HoldersDialed

\* The connection of a lease that is open was dialed, and unless it is broken it
\* carries exactly what the lease counts.
LEMMA LeaseLoad ==
    ASSUME Inv, NEW l \in Leases, pc[l] = "held"
    PROVE  /\ on[l] \in Conns /\ conn[on[l]].at \in Endpoints
           /\ conn[on[l]].inFlight = leaseFlight[l]
<1> USE Zenon
<1> DEFINE c == on[l]
<1>1. c \in Conns
  BY DEF Inv, LoadInv, Placed, Callers
<1>2. InForce(l)
  BY DEF InForce
<1>3. /\ \A p \in Holders(c) : p \in LeaseOps /\ Via[p] = l
      /\ conn[c].leased \/ conn[c].broken
  BY <1>2 DEF Inv, LoadInv, LeaseExclusive
<1>4. conn[c].at \in Endpoints
  <2>1. NoConn.leased = FALSE /\ NoConn.broken = FALSE
    BY DEF NoConn
  <2>2. conn[c].at # None
    BY <1>1, <1>3, <2>1 DEF Inv, LoadInv, Filed
  <2>3. conn[c] \in PooledConnection
    BY <1>1 DEF Inv, TypeOK, ConnType
  <2> QED
    BY <2>2, <2>3 DEF PooledConnection
<1>5. Holders(c) = {p \in LeaseOps : Via[p] = l /\ pc[p] \in {"held", "open"}}
  BY <1>3 DEF Holders, ConnOf
<1> QED
  BY <1>1, <1>4, <1>5 DEF Inv, LoadInv, InFlightExact

\* releaseOperation and releaseLeaseOperation return one unit of capacity; the
\* lease ends with the last operation of a closed lease.
ReleaseEffect(p, c, r, retire) ==
    /\ r.at = conn[c].at /\ r.up = conn[c].up
    /\ r.inFlight = conn[c].inFlight - 1
    /\ r.draining = conn[c].draining /\ r.broken = conn[c].broken
    /\ r.retiring = conn[c].retiring
    /\ r.leased <=> /\ conn[c].leased
                    /\ ~(p \in LeaseOps /\ r.inFlight = 0 /\ Via[p] \in leaseClosed)
    /\ retire <=> r.inFlight = 0 /\ r.draining /\ ~r.leased
    /\ Settle(c, r, retire)
    /\ leaseFlight' = IF p \in LeaseOps THEN [leaseFlight EXCEPT ![Via[p]] = @ - 1]
                                        ELSE leaseFlight

\* Every release of an operation that holds capacity has that effect.
LEMMA ReleaseTakes ==
    ASSUME Inv, NEW p \in Ops \cup LeaseOps, Busy(p), ReleaseOf(p)
    PROVE  \E r \in PooledConnection, retire \in BOOLEAN :
               ReleaseEffect(p, ConnOf(p), r, retire)
<1> USE Zenon
<1> DEFINE c == ConnOf(p)
           back == Returned(conn[c])
<1>1. /\ c \in Conns /\ conn[c].inFlight > 0 /\ conn[c] \in PooledConnection
      /\ p \in LeaseOps => leaseFlight[Via[p]] > 0
  BY HolderDialed DEF Inv, TypeOK, ConnType
<1>2. /\ back \in PooledConnection /\ back.inFlight = conn[c].inFlight - 1
      /\ back.at = conn[c].at /\ back.up = conn[c].up /\ back.leased = conn[c].leased
      /\ back.draining = conn[c].draining /\ back.broken = conn[c].broken
      /\ back.retiring = conn[c].retiring
  BY <1>1, PoolAssumption, SMT DEF Returned, PooledConnection
<1>3. CASE p \in LeaseOps
  <2> USE <1>3
  <2> DEFINE l == Via[p]
             r == [back EXCEPT !.leased = @ /\ ~(back.inFlight = 0 /\ l \in leaseClosed)]
  <2>1. c = on[l]
    BY DEF ConnOf
  <2>2. /\ leaseFlight' = [leaseFlight EXCEPT ![l] = IF @ > 0 THEN @ - 1 ELSE @]
        /\ Settle(c, r, Drained(r))
    BY <2>1 DEF ReleaseOf, ReleaseLeaseOperation
  <2>3. leaseFlight' = [leaseFlight EXCEPT ![l] = @ - 1]
    BY <1>1, <2>2
  <2> HIDE DEF back
  <2>4. /\ r \in PooledConnection /\ r.inFlight = back.inFlight
        /\ r.at = back.at /\ r.up = back.up
        /\ r.draining = back.draining /\ r.broken = back.broken
        /\ r.retiring = back.retiring
        /\ r.leased <=> back.leased /\ ~(back.inFlight = 0 /\ l \in leaseClosed)
    BY <1>2 DEF PooledConnection
  <2> HIDE DEF r
  <2>5. Drained(r) \in BOOLEAN /\ (Drained(r) <=> r.inFlight = 0 /\ r.draining /\ ~r.leased)
    BY DEF Drained
  <2>6. ReleaseEffect(p, c, r, Drained(r))
    BY <1>2, <2>2, <2>3, <2>4, <2>5 DEF ReleaseEffect
  <2> QED
    BY <2>4, <2>5, <2>6
<1>4. CASE p \notin LeaseOps
  <2> USE <1>4, Zenon
  <2>1. c = on[p]
    BY DEF ConnOf
  <2>2. Settle(c, back, Drained(back)) /\ UNCHANGED leaseFlight
    BY <2>1 DEF ReleaseOf, ReleaseOperation
  <2> HIDE DEF back
  <2>3. Drained(back) \in BOOLEAN /\ (Drained(back) <=> back.inFlight = 0 /\ back.draining /\ ~back.leased)
    BY DEF Drained
  <2>4. ReleaseEffect(p, c, back, Drained(back))
    BY <1>2, <2>2, <2>3 DEF ReleaseEffect
  <2> QED
    BY <1>2, <2>3, <2>4
<1> QED
  BY <1>3, <1>4

\* A connection that settles keeps its record but for "retiring", and leaves
\* its list when it carries nothing and is broken or retiring, and only then.
SettleEffect(c, r, retire, s) ==
    /\ s.at = r.at /\ s.up = r.up /\ s.inFlight = r.inFlight /\ s.leased = r.leased
    /\ s.draining = r.draining /\ s.broken = r.broken
    /\ s.retiring <=> r.retiring \/ retire
    /\ conn' = [conn EXCEPT ![c] = s]
    /\ closeSoon' = IF retire THEN closeSoon \cup {c} ELSE closeSoon
    /\ sleeping' = {}
    /\ \/ UNCHANGED conns /\ (s.inFlight = 0 /\ ~s.leased => ~s.broken /\ ~s.retiring)
       \/ /\ s.inFlight = 0 /\ ~s.leased /\ (s.broken \/ s.retiring)
          /\ conns' = [conns EXCEPT ![s.at] = Without(@, c)]

\* Every release ends so.
LEMMA SettleTakes ==
    ASSUME NEW c \in Conns, NEW r \in PooledConnection, NEW retire \in BOOLEAN,
           Settle(c, r, retire)
    PROVE  \E s \in PooledConnection : SettleEffect(c, r, retire, s)
<1> USE Zenon
<1> DEFINE s == IF retire THEN [r EXCEPT !.retiring = TRUE] ELSE r
<1>1. /\ s \in PooledConnection
      /\ s.at = r.at /\ s.up = r.up /\ s.inFlight = r.inFlight /\ s.leased = r.leased
      /\ s.draining = r.draining /\ s.broken = r.broken
      /\ s.retiring <=> r.retiring \/ retire
  BY DEF PooledConnection
<1>2. /\ conn' = [conn EXCEPT ![c] = s]
      /\ closeSoon' = IF retire THEN closeSoon \cup {c} ELSE closeSoon
      /\ conns' = Unlisted(s, c) /\ sleeping' = {}
  BY DEF Settle, Signal
<1> HIDE DEF s
<1>3. \/ UNCHANGED conns /\ (s.inFlight = 0 /\ ~s.leased => ~s.broken /\ ~s.retiring)
      \/ /\ s.inFlight = 0 /\ ~s.leased /\ (s.broken \/ s.retiring)
         /\ conns' = [conns EXCEPT ![s.at] = Without(@, c)]
  BY <1>2 DEF Unlisted
<1>4. SettleEffect(c, r, retire, s)
  BY <1>1, <1>2, <1>3 DEF SettleEffect
<1> QED
  BY <1>1, <1>4

ConnOK == ConnType /\ Filed

\* No goroutine comes to wait for a watcher.
WatchKept ==
    /\ \A a \in Callers : pc'[a] = "watch" => pc[a] = "watch" /\ on'[a] = on[a]
    /\ \A e \in Endpoints : rpc'[e] = "watch" => rpc[e] = "watch" /\ rconn'[e] = rconn[e]

\* The lists stay, or a connection leaves one of them.
Relisted ==
    \/ UNCHANGED conns
    \/ \E e \in Endpoints, c \in Conns : conns' = [conns EXCEPT ![e] = Without(@, c)]

\* What acquire may choose is in the lists in its scope and has capacity.
LEMMA SelectableUsable ==
    ASSUME Inv, NEW a \in Callers, NEW c \in Selectable(a)
    PROVE  /\ c \in Conns /\ conn[c].at \in Endpoints /\ Usable(a, c)
           /\ \E e \in Scope(a) : c \in Listed(e)
<1> USE Zenon
<1>1. Usable(a, c) /\ \E e \in Scope(a) : c \in Listed(e)
  BY DEF Selectable
<1> QED
  BY <1>1, InScope, ListedDialed

\* What being granted a connection does to its record.
GrantEffect(a, c, s) ==
    /\ conn' = [conn EXCEPT ![c] = s]
    /\ s.at = conn[c].at /\ s.up = conn[c].up /\ s.draining = conn[c].draining
    /\ s.broken = conn[c].broken /\ s.retiring = conn[c].retiring
    /\ s.inFlight = IF a \in Leases THEN conn[c].inFlight ELSE conn[c].inFlight + 1
    /\ s.leased <=> a \in Leases

\* acquire grants within MaxInFlightPerConnection.
LEMMA GrantedTakes ==
    ASSUME Inv, NEW a \in Callers, NEW c \in Conns, Granted(a, c)
    PROVE  \E s \in PooledConnection : GrantEffect(a, c, s)
<1> USE Zenon
<1>1. /\ conn[c].at \in Endpoints /\ Usable(a, c)
      /\ conn \in [Conns -> PooledConnection]
  BY SelectableUsable DEF Granted, Inv, TypeOK, ConnType
<1>2. CASE a \in Leases
  <2> USE <1>2
  <2> DEFINE s == [conn[c] EXCEPT !.leased = TRUE]
  <2>1. conn' = [conn EXCEPT ![c] = s]
    BY DEF Granted
  <2>2. /\ s \in PooledConnection
        /\ s.at = conn[c].at /\ s.up = conn[c].up /\ s.draining = conn[c].draining
        /\ s.broken = conn[c].broken /\ s.retiring = conn[c].retiring
        /\ s.inFlight = conn[c].inFlight /\ s.leased = TRUE
    BY <1>1 DEF PooledConnection
  <2> HIDE DEF s
  <2>3. GrantEffect(a, c, s)
    BY <2>1, <2>2 DEF GrantEffect
  <2> QED
    BY <2>2, <2>3
<1>3. CASE a \notin Leases
  <2> USE <1>3
  <2> DEFINE s == [conn[c] EXCEPT !.inFlight = @ + 1]
  <2>1. conn' = [conn EXCEPT ![c] = s]
    BY DEF Granted
  <2>2. conn[c].inFlight < MaxInFlightPerConnection /\ ~conn[c].leased
    BY <1>1 DEF Usable
  <2>3. /\ s \in PooledConnection
        /\ s.at = conn[c].at /\ s.up = conn[c].up /\ s.draining = conn[c].draining
        /\ s.broken = conn[c].broken /\ s.retiring = conn[c].retiring
        /\ s.inFlight = conn[c].inFlight + 1 /\ s.leased = conn[c].leased
    BY <1>1, <2>2, PoolAssumption, SMT DEF PooledConnection
  <2> HIDE DEF s
  <2>4. GrantEffect(a, c, s)
    BY <2>1, <2>2, <2>3 DEF GrantEffect
  <2> QED
    BY <2>3, <2>4
<1> QED
  BY <1>2, <1>3

\* The three ways acquireOperation's loop can go.
LeaseRefuses(p) ==
    /\ Via[p] \in leaseClosed \/ closing \/ conn[on[Via[p]]].broken \/ ~conn[on[Via[p]]].up
    /\ Unregister(p)
    /\ pc' = [pc EXCEPT ![p] = "failed"]
    /\ UNCHANGED <<sleeping, armed, conn, leaseFlight>>

LeaseGrants(p) ==
    /\ Via[p] \notin leaseClosed /\ ~closing
    /\ ~conn[on[Via[p]]].broken /\ conn[on[Via[p]]].up
    /\ leaseFlight[Via[p]] < MaxInFlightPerConnection
    /\ leaseFlight' = [leaseFlight EXCEPT ![Via[p]] = @ + 1]
    /\ conn' = [conn EXCEPT ![on[Via[p]]].inFlight = @ + 1]
    /\ Unregister(p)
    /\ pc' = [pc EXCEPT ![p] = "held"]
    /\ Signal
    /\ UNCHANGED armed

LeaseWaits(p) ==
    /\ Via[p] \notin leaseClosed /\ ~closing
    /\ ~conn[on[Via[p]]].broken /\ conn[on[Via[p]]].up
    /\ leaseFlight[Via[p]] >= MaxInFlightPerConnection
    /\ Enqueue(p, FALSE)
    /\ UNCHANGED <<conn, leaseFlight>>

\* One pass of acquireOperation's loop is one of the three.
LEMMA LeaseAcquireTakes ==
    ASSUME NEW p \in LeaseOps, LeaseAcquire(p)
    PROVE  LeaseRefuses(p) \/ LeaseGrants(p) \/ LeaseWaits(p)
  BY Zenon DEF LeaseAcquire, LeaseRefuses, LeaseGrants, LeaseWaits

\* What a granted operation of a lease does to the record of its connection.
LeaseGrantEffect(c, s) ==
    /\ conn' = [conn EXCEPT ![c] = s]
    /\ s.at = conn[c].at /\ s.up = conn[c].up /\ s.draining = conn[c].draining
    /\ s.broken = conn[c].broken /\ s.retiring = conn[c].retiring
    /\ s.inFlight = conn[c].inFlight + 1 /\ s.leased = conn[c].leased

\* acquireOperation grants within MaxInFlightPerConnection: the connection of
\* the lease carries nothing but what the lease counts.
LEMMA LeaseGrantsTakes ==
    ASSUME Inv, NEW p \in LeaseOps, LeaseAcquire(p), LeaseGrants(p)
    PROVE  LET l == Via[p] IN
           /\ l \in Leases /\ pc[l] = "held" /\ on[l] \in Conns
           /\ conn[on[l]].at \in Endpoints
           /\ \E s \in PooledConnection : LeaseGrantEffect(on[l], s)
<1> USE Zenon
<1> DEFINE l == Via[p]
           c == on[l]
           s == [conn[c] EXCEPT !.inFlight = @ + 1]
<1>1. l \in Leases
  BY PoolAssumption
<1>2. pc[l] \in {"held", "done"} /\ l \notin leaseClosed
  BY DEF LeaseAcquire, LeaseGrants
<1>3. pc[l] = "held"
  BY <1>1, <1>2 DEF Inv, LoadInv, Placed
<1>4. c \in Conns /\ conn[c].at \in Endpoints /\ conn[c].inFlight = leaseFlight[l]
  BY <1>1, <1>3, LeaseLoad
<1> USE <1>4
<1>5. conn[c].inFlight < MaxInFlightPerConnection
  BY DEF LeaseGrants
<1>6. conn' = [conn EXCEPT ![c] = s]
  BY DEF LeaseGrants
<1>7. conn[c] \in PooledConnection
  BY DEF Inv, TypeOK, ConnType
<1>8. /\ s \in PooledConnection
      /\ s.at = conn[c].at /\ s.up = conn[c].up /\ s.draining = conn[c].draining
      /\ s.broken = conn[c].broken /\ s.retiring = conn[c].retiring
      /\ s.inFlight = conn[c].inFlight + 1 /\ s.leased = conn[c].leased
  BY <1>5, <1>7, PoolAssumption, SMT DEF PooledConnection
<1> HIDE DEF s
<1>9. LeaseGrantEffect(c, s)
  BY <1>6, <1>8 DEF LeaseGrantEffect
<1> QED
  BY <1>1, <1>3, <1>8, <1>9

\* What Lease.Close makes of the record of its connection.
LeaseCloseEffect(l, r, retire) ==
    LET c == on[l] IN
    /\ r.at = conn[c].at /\ r.up = conn[c].up /\ r.inFlight = conn[c].inFlight
    /\ r.draining = conn[c].draining /\ r.broken = conn[c].broken
    /\ r.retiring = conn[c].retiring
    /\ r.leased <=> conn[c].leased /\ leaseFlight[l] # 0
    /\ retire <=> leaseFlight[l] = 0 /\ r.draining
    /\ Settle(c, r, retire)

\* Lease.Close takes the lease off a connection with no operation of it.
LEMMA LeaseCloseTakes ==
    ASSUME Inv, NEW l \in Leases, LeaseClose(l)
    PROVE  /\ on[l] \in Conns /\ conn[on[l]].at \in Endpoints
           /\ \E r \in PooledConnection, retire \in BOOLEAN : LeaseCloseEffect(l, r, retire)
<1> USE Zenon
<1> DEFINE c == on[l]
           idle == leaseFlight[l] = 0
           r == [conn[c] EXCEPT !.leased = @ /\ ~idle]
<1>1. pc[l] = "held" /\ Settle(c, r, idle /\ r.draining)
  BY DEF LeaseClose
<1>2. c \in Conns /\ conn[c].at \in Endpoints
  BY <1>1, LeaseLoad
<1>3. conn[c] \in PooledConnection
  BY <1>2 DEF Inv, TypeOK, ConnType
<1>4. /\ r \in PooledConnection
      /\ r.at = conn[c].at /\ r.up = conn[c].up /\ r.inFlight = conn[c].inFlight
      /\ r.draining = conn[c].draining /\ r.broken = conn[c].broken
      /\ r.retiring = conn[c].retiring
      /\ r.leased <=> conn[c].leased /\ ~idle
  BY <1>3 DEF PooledConnection
<1> HIDE DEF r
<1>5. LeaseCloseEffect(l, r, idle /\ r.draining)
  BY <1>1, <1>4 DEF LeaseCloseEffect
<1> QED
  BY <1>2, <1>4, <1>5

\* What watchConnection makes of the record of a connection that is down.
WatchDoneEffect(c, s) ==
    /\ s.at = conn[c].at /\ s.up = conn[c].up /\ s.inFlight = conn[c].inFlight
    /\ s.draining = conn[c].draining /\ s.retiring = conn[c].retiring
    /\ s.broken /\ ~s.leased
    /\ conn' = [conn EXCEPT ![c] = s]
    /\ \/ UNCHANGED conns /\ s.inFlight # 0
       \/ s.inFlight = 0 /\ conns' = [conns EXCEPT ![s.at] = Without(@, c)]
    /\ \E w \in {"replace", "done"} : wpc' = [wpc EXCEPT ![c] = w]

\* It marks the connection broken, ends its lease and takes it off its list
\* once nothing runs on it.
LEMMA WatchDoneTakes ==
    ASSUME Inv, NEW c \in Conns, WatchDone(c)
    PROVE  /\ conn[c].at \in Endpoints
           /\ \E s \in PooledConnection : WatchDoneEffect(c, s)
<1> USE Zenon
<1> DEFINE s == [conn[c] EXCEPT !.broken = TRUE, !.leased = FALSE]
<1>1. conn[c] \in PooledConnection
  BY DEF Inv, TypeOK, ConnType
<1>2. conn[c].at \in Endpoints
  BY <1>1 DEF WatchDone, Inv, LoadInv, Filed, PooledConnection
<1>3. /\ s \in PooledConnection
      /\ s.at = conn[c].at /\ s.up = conn[c].up /\ s.inFlight = conn[c].inFlight
      /\ s.draining = conn[c].draining /\ s.retiring = conn[c].retiring
      /\ s.broken /\ ~s.leased
  BY <1>1 DEF PooledConnection
<1> USE <1>3
<1>4. /\ conn' = [conn EXCEPT ![c] = s] /\ conns' = Unlisted(s, c)
      /\ wpc' = [wpc EXCEPT ![c] = IF closing \/ s.retiring THEN "done" ELSE "replace"]
  BY DEF WatchDone
<1> USE <1>4
<1> HIDE DEF s
<1>5. \/ UNCHANGED conns /\ s.inFlight # 0
      \/ s.inFlight = 0 /\ conns' = [conns EXCEPT ![s.at] = Without(@, c)]
  BY DEF Unlisted
<1>6. \E w \in {"replace", "done"} : wpc' = [wpc EXCEPT ![c] = w]
  OBVIOUS
<1>7. WatchDoneEffect(c, s)
  BY <1>5, <1>6 DEF WatchDoneEffect
<1> QED
  BY <1>2, <1>7

\* The records, lists and watchers of the connections stay in order.
LEMMA ConnStep ==
    ASSUME Inv, Next
    PROVE  ConnOK'
\* The record of a connection that was never dialed.
<1> USE Zenon
<1>NoConnRecord.
    /\ NoConn \in PooledConnection
    /\ NoConn.at = None /\ NoConn.inFlight = 0
    /\ NoConn.up = FALSE /\ NoConn.leased = FALSE /\ NoConn.draining = FALSE
    /\ NoConn.broken = FALSE /\ NoConn.retiring = FALSE
  BY PoolAssumption, SMT DEF NoConn, PooledConnection
\* Records with the same fields are equal.
<1>SameRecord.
    ASSUME NEW r \in PooledConnection, NEW s \in PooledConnection,
           r.at = s.at, r.up = s.up, r.inFlight = s.inFlight, r.leased = s.leased,
           r.draining = s.draining, r.broken = s.broken, r.retiring = s.retiring
    PROVE  r = s
  BY <1>SameRecord, SMT DEF PooledConnection
\* A call that moves elsewhere does not come to wait for a watcher.
<1>MoveWatch.
    ASSUME NEW p \in Procs, NEW v, v # "watch", pc' = [pc EXCEPT ![p] = v],
           UNCHANGED on \/ \E x : on' = [on EXCEPT ![p] = x],
           UNCHANGED <<rpc, rconn>>
    PROVE  WatchKept
  <2> USE <1>MoveWatch
  <2>1. \A q \in Procs : q # p => pc'[q] = pc[q] /\ on'[q] = on[q]
    BY DEF Inv, TypeOK, ProcType
  <2>2. pc'[p] # "watch"
    BY DEF Inv, TypeOK, ProcType
  <2> QED
    BY <2>1, <2>2 DEF WatchKept, Procs
\* A list a connection has left holds the others as before.
<1>RelistedKeeps.
    ASSUME Relisted
    PROVE  /\ conns' \in [Endpoints -> Seq(Conns)]
           /\ \A e \in Endpoints : \A k \in DOMAIN conns'[e] :
                 \E j \in DOMAIN conns[e] : conns'[e][k] = conns[e][j]
           /\ \A e \in Endpoints : \A j, k \in DOMAIN conns'[e] :
                 conns'[e][j] = conns'[e][k] => j = k
  <2> USE <1>RelistedKeeps
  <2>1. /\ conns \in [Endpoints -> Seq(Conns)]
        /\ \A e \in Endpoints : \A j, k \in DOMAIN conns[e] :
              conns[e][j] = conns[e][k] => j = k
    BY DEF Inv, TypeOK, ConnType, LoadInv, Filed
  <2>2. CASE UNCHANGED conns
    BY <2>1, <2>2
  <2>3. ASSUME NEW e \in Endpoints, NEW c \in Conns,
               conns' = [conns EXCEPT ![e] = Without(@, c)]
        PROVE  /\ conns' \in [Endpoints -> Seq(Conns)]
               /\ \A f \in Endpoints : \A k \in DOMAIN conns'[f] :
                     \E j \in DOMAIN conns[f] : conns'[f][k] = conns[f][j]
               /\ \A f \in Endpoints : \A j, k \in DOMAIN conns'[f] :
                     conns'[f][j] = conns'[f][k] => j = k
    <3> DEFINE t == Without(conns[e], c)
    <3>1. /\ t \in Seq(Conns)
          /\ \A j, k \in DOMAIN t : t[j] = t[k] => j = k
          /\ \A k \in DOMAIN t : \E j \in DOMAIN conns[e] : t[k] = conns[e][j]
      <4>1. /\ conns[e] \in Seq(Conns)
            /\ \A j, k \in DOMAIN conns[e] : conns[e][j] = conns[e][k] => j = k
        BY <2>1
      <4>2. /\ t \in Seq(Conns)
            /\ \A j, k \in DOMAIN t : t[j] = t[k] => j = k
            /\ \A d : (\E k \in DOMAIN t : t[k] = d)
                        <=> d # c /\ \E k \in DOMAIN conns[e] : conns[e][k] = d
        BY <4>1, WithoutKeeps
      <4> QED
        BY <4>2
    <3> HIDE DEF t
    <3>2. conns' = [conns EXCEPT ![e] = t]
      BY <2>3 DEF t
    <3>3. conns'[e] = t /\ \A f \in Endpoints : f # e => conns'[f] = conns[f]
      BY <2>1, <3>2
    <3>4. conns' \in [Endpoints -> Seq(Conns)]
      BY <2>1, <3>1, <3>2
    <3>5. ASSUME NEW f \in Endpoints
          PROVE  /\ \A k \in DOMAIN conns'[f] :
                       \E j \in DOMAIN conns[f] : conns'[f][k] = conns[f][j]
                 /\ \A j, k \in DOMAIN conns'[f] : conns'[f][j] = conns'[f][k] => j = k
      <4>1. CASE f = e
        BY <3>1, <3>3, <4>1
      <4>2. CASE f # e
        BY <2>1, <3>3, <4>2
      <4> QED
        BY <4>1, <4>2
    <3> QED
      BY <3>4, <3>5
  <2> QED
    BY <2>2, <2>3 DEF Relisted
\* A step that changes the records of dialed connections only, and where none
\* was dialed, keeps the connections filed.
<1>RecordsKeep.
    ASSUME conn' \in [Conns -> PooledConnection],
           \A c \in Conns : conn'[c].at = conn[c].at,
           \A c \in Conns : conn[c].at = None => conn'[c] = NoConn /\ wpc'[c] = "none",
           wpc' \in [Conns -> {"none", "running", "replace", "done"}],
           closeSoon' \subseteq Conns, Relisted, WatchKept
    PROVE  ConnOK'
  <2> USE <1>RecordsKeep
  <2>1. /\ Filed /\ conns \in [Endpoints -> Seq(Conns)]
        /\ \A a \in Callers : pc[a] = "watch" => on[a] \in Conns
        /\ \A e \in Endpoints : rpc[e] = "watch" => rconn[e] \in Conns
    BY DEF Inv, TypeOK, ConnType, LoadInv, Placed, ReplPlaced
  <2>2. ConnType'
    BY <1>RelistedKeeps DEF ConnType
  <2>3. \A c \in Conns : conn'[c].at = None => conn'[c] = NoConn /\ wpc'[c] = "none"
    OBVIOUS
  <2>4. ASSUME NEW a \in Callers, pc'[a] = "watch" PROVE conn'[on'[a]].at # None
    <3>1. on[a] \in Conns /\ on'[a] = on[a] /\ conn[on[a]].at # None
      BY <2>1, <2>4 DEF WatchKept, Filed
    <3>2. conn'[on[a]].at = conn[on[a]].at
      BY <3>1
    <3> QED
      BY <3>1, <3>2
  <2>5. ASSUME NEW e \in Endpoints, rpc'[e] = "watch" PROVE conn'[rconn'[e]].at # None
    <3>1. rconn[e] \in Conns /\ rconn'[e] = rconn[e] /\ conn[rconn[e]].at # None
      BY <2>1, <2>5 DEF WatchKept, Filed
    <3>2. conn'[rconn[e]].at = conn[rconn[e]].at
      BY <3>1
    <3> QED
      BY <3>1, <3>2
  <2>6. \A e \in Endpoints : \A k \in DOMAIN conns[e] : conns[e][k] \in Conns
    BY <2>1, SeqElements
  <2>7. \A e \in Endpoints : \A k \in DOMAIN conns'[e] : conn'[conns'[e][k]].at = e
    <3>1. \A e \in Endpoints : \A k \in DOMAIN conns'[e] :
             \E j \in DOMAIN conns[e] : conns'[e][k] = conns[e][j]
      BY <1>RelistedKeeps
    <3>2. \A e \in Endpoints : \A k \in DOMAIN conns[e] : conn'[conns[e][k]].at = e
      BY <2>1, <2>6 DEF Filed
    <3> QED
      BY <3>1, <3>2, SMT
  <2> QED
    BY <2>2, <2>3, <2>4, <2>5, <2>7, <1>RelistedKeeps DEF ConnOK, Filed
\* So does one that changes the record of one connection, and its watcher.
<1>RecordKeeps.
    ASSUME NEW c \in Conns, NEW s \in PooledConnection,
           conn' = [conn EXCEPT ![c] = s], s.at = conn[c].at, s.at = None => s = NoConn,
           \/ UNCHANGED wpc
           \/ s.at # None /\ \E w \in {"running", "replace", "done"} :
                                 wpc' = [wpc EXCEPT ![c] = w],
           \/ UNCHANGED conns
           \/ s.at # None /\ conns' = [conns EXCEPT ![s.at] = Without(@, c)],
           closeSoon' \subseteq Conns, WatchKept
    PROVE  ConnOK'
  <2> USE <1>RecordKeeps
  <2>1. /\ conn \in [Conns -> PooledConnection]
        /\ wpc \in [Conns -> {"none", "running", "replace", "done"}]
        /\ \A d \in Conns : conn[d].at = None => conn[d] = NoConn /\ wpc[d] = "none"
    BY DEF Inv, TypeOK, ConnType, LoadInv, Filed
  <2> USE <2>1
  <2>2. conn' \in [Conns -> PooledConnection]
    OBVIOUS
  <2>3. \A d \in Conns : conn'[d] = IF d = c THEN s ELSE conn[d]
    OBVIOUS
  <2>4. wpc' \in [Conns -> {"none", "running", "replace", "done"}]
    OBVIOUS
  <2>5. \A d \in Conns : conn'[d].at = conn[d].at
    BY <2>3
  <2>6. \A d \in Conns : conn[d].at = None => wpc'[d] = "none"
    OBVIOUS
  <2>7. \A d \in Conns : conn[d].at = None => conn'[d] = NoConn /\ wpc'[d] = "none"
    BY <2>3, <2>6
  <2>8. Relisted
    BY DEF Relisted, PooledConnection
  <2> QED
    BY <2>2, <2>4, <2>5, <2>7, <2>8, <1>RecordsKeep
\* So does Conn.Close.
<1>CloseConnKeeps.
    ASSUME NEW c \in Conns, CloseConn(c), UNCHANGED <<conns, wpc>>,
           closeSoon' \subseteq Conns, WatchKept
    PROVE  ConnOK'
  <2> USE <1>CloseConnKeeps
  <2> DEFINE s == [conn[c] EXCEPT !.up = FALSE]
  <2>1. conn \in [Conns -> PooledConnection]
    BY DEF Inv, TypeOK, ConnType
  <2> USE <2>1
  <2>2. conn' = [conn EXCEPT ![c] = s]
    BY DEF CloseConn
  <2>3. s \in PooledConnection /\ s.at = conn[c].at
    BY DEF PooledConnection
  <2>4. s.at = None => s = NoConn
    <3>1. conn[c].at = None => conn[c] = NoConn
      BY DEF Inv, LoadInv, Filed
    <3>2. /\ s.up = FALSE /\ s.inFlight = conn[c].inFlight
          /\ s.leased = conn[c].leased /\ s.draining = conn[c].draining
          /\ s.broken = conn[c].broken /\ s.retiring = conn[c].retiring
      BY DEF PooledConnection
    <3> QED
      BY <2>3, <3>1, <3>2, <1>NoConnRecord, <1>SameRecord
  <2> HIDE DEF s
  <2> QED
    BY <2>2, <2>3, <2>4, <1>RecordKeeps
\* The end of a dial files the new connection.
<1>DialEndsKeeps.
    ASSUME NEW e \in Endpoints, NEW c \in Conns, DialEnds(e, c, TRUE),
           UNCHANGED <<wpc, closeSoon>>,
           \A a \in Callers : pc'[a] = "watch" =>
               on'[a] = c \/ (pc[a] = "watch" /\ on'[a] = on[a]),
           \A f \in Endpoints : rpc'[f] = "watch" =>
               rconn'[f] = c \/ (rpc[f] = "watch" /\ rconn'[f] = rconn[f])
    PROVE  ConnOK'
  <2> USE <1>DialEndsKeeps
  <2> DEFINE s == [Dialed(e) EXCEPT !.retiring = closing]
  <2>1. /\ conn[c].at = None /\ conn' = [conn EXCEPT ![c] = s]
        /\ conns' = IF closing THEN conns ELSE [conns EXCEPT ![e] = Append(@, c)]
    BY DEF DialEnds, Fresh
  <2>2. /\ closing \in BOOLEAN /\ conns \in [Endpoints -> Seq(Conns)]
        /\ conn \in [Conns -> PooledConnection] /\ Filed
        /\ wpc \in [Conns -> {"none", "running", "replace", "done"}]
        /\ \A a \in Callers : pc[a] = "watch" => on[a] \in Conns
        /\ \A f \in Endpoints : rpc[f] = "watch" => rconn[f] \in Conns
    BY DEF Inv, TypeOK, PoolType, ConnType, LoadInv, Placed, ReplPlaced
  <2>3. s \in PooledConnection /\ s.at = e /\ e # None
    <3>1. Dialed(e) \in PooledConnection /\ Dialed(e).at = e
      BY <1>NoConnRecord DEF PooledConnection, Dialed
    <3> QED
      BY <2>2, <3>1, PoolAssumption DEF PooledConnection
  <2> HIDE DEF s
  <2>4. \A d \in Conns : conn'[d] = IF d = c THEN s ELSE conn[d]
    BY <2>1, <2>2
  <2>5. /\ conns' \in [Endpoints -> Seq(Conns)]
        /\ \A f \in Endpoints : f # e => conns'[f] = conns[f]
        /\ \/ conns'[e] = conns[e]
           \/ conns'[e] = Append(conns[e], c)
    BY <2>1, <2>2, SMT
  <2>6. \A f \in Endpoints : \A k \in DOMAIN conns[f] :
           conns[f][k] \in Conns /\ conn[conns[f][k]].at = f /\ conns[f][k] # c
    <3>1. \A f \in Endpoints : conns[f] \in Seq(Conns) /\ f # None
      BY <2>2, PoolAssumption
    <3>2. \A f \in Endpoints : \A k \in DOMAIN conns[f] :
             conns[f][k] \in Conns /\ conn[conns[f][k]].at = f
      BY <2>2, <3>1, SeqElements DEF Filed
    <3>3. ASSUME NEW f \in Endpoints, NEW k \in DOMAIN conns[f], conns[f][k] = c
          PROVE  FALSE
      <4>1. conn[c].at = f
        BY <3>2, <3>3
      <4> QED
        BY <2>1, <3>1, <4>1
    <3> QED
      BY <3>2, <3>3
  <2>7. ASSUME NEW f \in Endpoints
        PROVE  /\ \A k \in DOMAIN conns'[f] : conn'[conns'[f][k]].at = f
               /\ \A j, k \in DOMAIN conns'[f] : conns'[f][j] = conns'[f][k] => j = k
    <3>1. \A j, k \in DOMAIN conns[f] : conns[f][j] = conns[f][k] => j = k
      BY <2>2 DEF Filed
    <3>2. CASE conns'[f] = conns[f]
      <4>1. \A d \in Conns : d # c => conn'[d] = conn[d]
        BY <2>4
      <4>2. ASSUME NEW k \in DOMAIN conns[f] PROVE conn'[conns[f][k]].at = f
        <5>1. conn'[conns[f][k]] = conn[conns[f][k]]
          BY <2>6, <4>1
        <5> QED
          BY <2>6, <5>1
      <4> QED
        BY <3>1, <3>2, <4>2
    <3>3. CASE f = e /\ conns'[f] = Append(conns[f], c)
      <4> USE <3>3
      <4>1. conns[f] \in Seq(Conns)
        BY <2>2
      <4>2. /\ DOMAIN conns'[f] = 1..(Len(conns[f]) + 1)
            /\ \A k \in 1..(Len(conns[f]) + 1) :
                  conns'[f][k] = IF k = Len(conns[f]) + 1 THEN c ELSE conns[f][k]
        BY <4>1, SMT
      <4>3. DOMAIN conns[f] = 1..Len(conns[f]) /\ Len(conns[f]) \in Nat
        BY <4>1, SMT
      <4>4. \A k \in 1..(Len(conns[f]) + 1) : k # Len(conns[f]) + 1 => k \in DOMAIN conns[f]
        BY <4>3, SMT
      <4>5. \A k \in DOMAIN conns'[f] : conn'[conns'[f][k]].at = f
        BY <2>3, <2>4, <2>6, <4>2, <4>4, SMT
      <4>6. \A j, k \in DOMAIN conns'[f] : conns'[f][j] = conns'[f][k] => j = k
        BY <2>6, <3>1, <4>2, <4>4, SMT
      <4> QED
        BY <4>5, <4>6
    <3> QED
      BY <2>5, <3>2, <3>3
  <2>8. ConnType'
    BY <2>1, <2>2, <2>3, <2>5 DEF ConnType, Inv, TypeOK
  <2>9. \A d \in Conns : conn'[d].at = None => conn'[d] = NoConn /\ wpc'[d] = "none"
    BY <2>2, <2>3, <2>4 DEF Filed
  <2>Dialed. \A d \in Conns : d = c \/ conn[d].at # None => conn'[d].at # None
    BY <2>3, <2>4
  <2>10. \A a \in Callers : pc'[a] = "watch" => conn'[on'[a]].at # None
    BY <2>2, <2>Dialed DEF Filed
  <2>11. \A f \in Endpoints : rpc'[f] = "watch" => conn'[rconn'[f]].at # None
    BY <2>2, <2>Dialed DEF Filed
  <2> QED
    BY <2>7, <2>8, <2>9, <2>10, <2>11 DEF ConnOK, Filed
\* A step that changes no connection keeps them filed.
<1>ConnFrame. UNCHANGED <<conns, conn, closeSoon, wpc>> /\ WatchKept => ConnOK'
  BY <1>RecordsKeep DEF Relisted, Inv, TypeOK, ConnType, LoadInv, Filed
\* The connections stay filed when one settles.
<1>SettleKeeps.
    ASSUME NEW c \in Conns, NEW r \in PooledConnection, NEW retire \in BOOLEAN,
           r.at = conn[c].at, r.at \in Endpoints, Settle(c, r, retire), UNCHANGED wpc,
           WatchKept
    PROVE  ConnOK'
  <2> USE <1>SettleKeeps
  <2>1. PICK s \in PooledConnection : SettleEffect(c, r, retire, s)
    BY SettleTakes
  <2>2. /\ s.at = conn[c].at /\ s.at # None /\ conn' = [conn EXCEPT ![c] = s]
        /\ \/ UNCHANGED conns
           \/ conns' = [conns EXCEPT ![s.at] = Without(@, c)]
        /\ closeSoon' = closeSoon \cup {c} \/ UNCHANGED closeSoon
    BY <2>1, PoolAssumption DEF SettleEffect
  <2>3. closeSoon' \subseteq Conns
    BY <2>2 DEF Inv, TypeOK, ConnType
  <2> QED
    BY <2>2, <2>3, <1>RecordKeeps
\* The connections stay filed when an operation's capacity is released.
<1>ReleaseKeeps.
    ASSUME NEW p \in Ops \cup LeaseOps, Busy(p), ReleaseOf(p), UNCHANGED wpc,
           WatchKept
    PROVE  ConnOK'
  <2> USE <1>ReleaseKeeps
  <2> DEFINE c == ConnOf(p)
  <2>1. c \in Conns /\ conn[c].at \in Endpoints
    BY HolderDialed
  <2> HIDE DEF c
  <2>2. PICK r \in PooledConnection, retire \in BOOLEAN : ReleaseEffect(p, c, r, retire)
    BY ReleaseTakes DEF c
  <2>3. r.at = conn[c].at /\ Settle(c, r, retire)
    BY <2>2 DEF ReleaseEffect
  <2> QED
    BY <2>1, <2>3, <1>SettleKeeps
\* They stay filed when a watcher of a dialed connection steps.
<1>WatcherKeeps.
    ASSUME NEW c \in Conns, conn[c].at # None,
           NEW w \in {"running", "replace", "done"}, wpc' = [wpc EXCEPT ![c] = w],
           UNCHANGED <<conns, conn, closeSoon>>, WatchKept
    PROVE  ConnOK'
  BY <1>WatcherKeeps, <1>RecordsKeep
     DEF Relisted, Inv, TypeOK, ConnType, LoadInv, Filed
<1>1. UNCHANGED <<connVars, wpc, pc, on, rpc, rconn>> => ConnOK'
  BY <1>ConnFrame DEF WatchKept, connVars
<1>2. ASSUME NEW a \in Callers, Acquire(a) PROVE ConnOK'
  <2> USE <1>2
  <2>1. /\ a \in Procs /\ UNCHANGED <<conns, closeSoon, wpc, rpc, rconn>>
    BY DEF Acquire, Procs, replVars
  <2>2. /\ closeSoon' \subseteq Conns
    BY <2>1 DEF Inv, TypeOK, ConnType
  <2>3. WatchKept
    <3>1. \E v : /\ v # "watch" /\ pc' = [pc EXCEPT ![a] = v]
                 /\ UNCHANGED on \/ \E x : on' = [on EXCEPT ![a] = x]
      BY AcquireTakes DEF Refused, Granted, Dials, Waits, Enqueue
    <3> QED
      BY <2>1, <3>1, <1>MoveWatch
  <2>4. UNCHANGED conn => ConnOK'
    BY <2>1, <2>3, <1>ConnFrame
  <2>5. ASSUME NEW c \in Conns, Granted(a, c) PROVE ConnOK'
    <3> USE <2>5
    <3>1. PICK s \in PooledConnection : GrantEffect(a, c, s)
      BY GrantedTakes
    <3>2. conn[c].at \in Endpoints /\ conn[c].at # None
      BY SelectableUsable, PoolAssumption, SMT DEF Granted
    <3>3. s.at = conn[c].at /\ conn' = [conn EXCEPT ![c] = s]
      BY <3>1 DEF GrantEffect
    <3> QED
      BY <2>1, <2>2, <2>3, <3>2, <3>3, <1>RecordKeeps
  <2> QED
    BY <2>4, <2>5, AcquireTakes DEF Refused, Dials, Waits
<1>3. ASSUME NEW p \in Procs, Wake(p) PROVE ConnOK'
  <2> USE <1>3
  <2>1. p \in Procs /\ UNCHANGED <<conns, conn, closeSoon, wpc>>
    BY DEF Wake, connVars, Procs
  <2>2. WatchKept
    BY <2>1, <1>MoveWatch DEF Wake, replVars
  <2> QED
    BY <2>1, <2>2, <1>ConnFrame
<1>4. ASSUME NEW p \in Procs, WaitEnds(p) PROVE ConnOK'
  <2> USE <1>4
  <2>1. p \in Procs /\ UNCHANGED <<conns, conn, closeSoon, wpc>>
    BY DEF WaitEnds, connVars, Procs
  <2>2. WatchKept
    BY <2>1, <1>MoveWatch DEF WaitEnds, replVars
  <2> QED
    BY <2>1, <2>2, <1>ConnFrame
<1>5. ASSUME NEW p \in Ops \cup LeaseOps, DoStarts(p) PROVE ConnOK'
  <2> USE <1>5
  <2>1. p \in Procs /\ UNCHANGED <<conns, conn, closeSoon, wpc>>
    BY DEF DoStarts, connVars, Procs, Callers
  <2>2. WatchKept
    BY <2>1, <1>MoveWatch DEF DoStarts, replVars
  <2> QED
    BY <2>1, <2>2, <1>ConnFrame
<1>6. ASSUME NEW a \in Callers, AcquireDialed(a) PROVE ConnOK'
  <2> USE <1>6
  <2>1. /\ a \in Procs /\ target[a] \in Endpoints /\ UNCHANGED <<wpc, closeSoon, rpc, rconn>>
    BY DEF AcquireDialed, Procs, replVars, Inv, LoadInv, Placed
  <2> USE <2>1
  <2>2. ASSUME NEW c \in Conns, DialEnds(target[a], c, TRUE),
               on' = [on EXCEPT ![a] = c],
               pc' = [pc EXCEPT ![a] = IF closing THEN "discard" ELSE "watch"]
        PROVE  ConnOK'
    <3> USE <2>2
    <3>1. /\ on'[a] = c
          /\ \A b \in Callers : b # a => pc'[b] = pc[b] /\ on'[b] = on[b]
      BY DEF Inv, TypeOK, ProcType, Procs
    <3>2. \A b \in Callers : pc'[b] = "watch" =>
             on'[b] = c \/ (pc[b] = "watch" /\ on'[b] = on[b])
      BY <3>1
    <3> QED
      BY <3>2, <1>DialEndsKeeps
  <2>3. ASSUME DialEnds(target[a], None, FALSE), pc' = [pc EXCEPT ![a] = "replace"],
               UNCHANGED on
        PROVE  ConnOK'
    <3> USE <2>3
    <3>1. UNCHANGED <<conns, conn>>
      BY DEF DialEnds
    <3> QED
      BY <3>1, <1>MoveWatch, <1>ConnFrame
  <2> QED
    BY <2>2, <2>3 DEF AcquireDialed
<1>7. ASSUME NEW a \in Callers, AcquireWatch(a) PROVE ConnOK'
  <2> USE <1>7
  <2>1. /\ a \in Procs /\ on[a] \in Conns /\ conn[on[a]].at # None
        /\ UNCHANGED <<conns, conn, closeSoon, rpc, rconn>>
    BY DEF AcquireWatch, Procs, connVars, replVars, Inv, LoadInv, Placed, Filed
  <2>2. WatchKept
    BY <2>1, <1>MoveWatch DEF AcquireWatch
  <2>3. wpc' = [wpc EXCEPT ![on[a]] = "running"]
    BY DEF AcquireWatch
  <2> QED
    BY <2>1, <2>2, <2>3, <1>WatcherKeeps
<1>8. ASSUME NEW a \in Callers, AcquireDiscard(a) PROVE ConnOK'
  <2> USE <1>8
  <2>1. /\ a \in Procs /\ on[a] \in Conns
        /\ UNCHANGED <<conns, closeSoon, wpc, rpc, rconn>> /\ CloseConn(on[a])
    BY DEF AcquireDiscard, Procs, replVars, Inv, LoadInv, Placed
  <2>2. WatchKept /\ closeSoon' \subseteq Conns
    BY <2>1, <1>MoveWatch DEF AcquireDiscard, Inv, TypeOK, ConnType
  <2> QED
    BY <2>1, <2>2, <1>CloseConnKeeps
<1>9. ASSUME NEW a \in Callers, AcquireReplace(a) PROVE ConnOK'
  <2> USE <1>9
  <2>1. a \in Procs /\ UNCHANGED <<conns, conn, closeSoon, wpc, on, rconn>>
    BY DEF AcquireReplace, Procs, connVars
  <2>2. /\ \A b \in Callers : pc'[b] = "watch" => pc[b] = "watch"
        /\ \A e \in Endpoints : rpc'[e] = "watch" => rpc[e] = "watch"
    <3>1. /\ \E v : v # "watch" /\ pc' = [pc EXCEPT ![a] = v]
          /\ \/ UNCHANGED rpc
             \/ \E e, v : v # "watch" /\ rpc' = [rpc EXCEPT ![e] = v]
      BY DEF AcquireReplace, StartReplacement
    <3>2. \A b \in Callers : pc'[b] = "watch" => pc[b] = "watch"
      BY <3>1 DEF Inv, TypeOK, ProcType, Procs
    <3> QED
      BY <3>1, <3>2 DEF Inv, TypeOK, ReplType
  <2> QED
    BY <2>1, <2>2, <1>ConnFrame DEF WatchKept
<1>10. ASSUME NEW p \in LeaseOps, LeaseAcquire(p) PROVE ConnOK'
  <2> USE <1>10
  <2>1. /\ p \in Procs /\ UNCHANGED <<conns, closeSoon, wpc, on, rpc, rconn>>
    BY DEF LeaseAcquire, Procs, replVars
  <2>2. WatchKept
    <3>1. \E v : v # "watch" /\ pc' = [pc EXCEPT ![p] = v]
      BY LeaseAcquireTakes DEF LeaseRefuses, LeaseGrants, LeaseWaits, Enqueue
    <3> QED
      BY <2>1, <3>1, <1>MoveWatch
  <2>3. UNCHANGED conn => ConnOK'
    BY <2>1, <2>2, <1>ConnFrame
  <2>4. ASSUME LeaseGrants(p) PROVE ConnOK'
    <3> USE <2>4
    <3> DEFINE c == on[Via[p]]
    <3>1. c \in Conns /\ conn[c].at \in Endpoints
      BY LeaseGrantsTakes
    <3>2. PICK s \in PooledConnection : LeaseGrantEffect(c, s)
      BY LeaseGrantsTakes
    <3> HIDE DEF c
    <3>3. s.at = conn[c].at /\ s.at # None /\ conn' = [conn EXCEPT ![c] = s]
      BY <3>1, <3>2, PoolAssumption DEF LeaseGrantEffect
    <3>4. closeSoon' \subseteq Conns
      BY <2>1 DEF Inv, TypeOK, ConnType
    <3> QED
      BY <2>1, <2>2, <3>1, <3>3, <3>4, <1>RecordKeeps
  <2> QED
    BY <2>3, <2>4, LeaseAcquireTakes DEF LeaseRefuses, LeaseWaits
<1>11. ASSUME NEW p \in Ops \cup LeaseOps, DoFails(p) PROVE ConnOK'
  <2> USE <1>11
  <2>1. p \in Procs /\ Busy(p) /\ ReleaseOf(p) /\ UNCHANGED <<wpc, rpc, rconn>>
    BY DEF DoFails, Procs, Callers, Busy, replVars
  <2>2. WatchKept
    BY <2>1, <1>MoveWatch DEF DoFails
  <2> QED
    BY <2>1, <2>2, <1>ReleaseKeeps
<1>12. ASSUME NEW p \in Ops \cup LeaseOps, NEW who \in {"tracker", "consumer"}, ReleaseOnce(p, who)
      PROVE  ConnOK'
  <2>1. p \in Procs /\ p \in ended /\ UNCHANGED <<wpc, on, rpc, rconn>>
    BY <1>12 DEF ReleaseOnce, Procs, Callers, replVars
  <2> USE <2>1
  <2>2. CASE Released(p)
    <3>1. UNCHANGED <<pc, conns, conn, closeSoon>>
      BY <1>12, <2>2 DEF ReleaseOnce, Released, connVars
    <3> QED
      BY <3>1, <1>ConnFrame DEF WatchKept
  <2>3. CASE ~Released(p)
    <3> USE <2>3
    <3>1. pc' = [pc EXCEPT ![p] = "done"] /\ ReleaseOf(p)
      BY <1>12 DEF ReleaseOnce, Released
    <3>2. Busy(p)
      BY DEF Busy, Inv, LoadInv, Placed
    <3>3. WatchKept
      BY <3>1, <1>MoveWatch
    <3> QED
      BY <3>1, <3>2, <3>3, <1>ReleaseKeeps
  <2> QED
    BY <2>2, <2>3
<1>13. ASSUME NEW l \in Leases, LeaseClose(l) PROVE ConnOK'
  <2> USE <1>13
  <2>1. l \in Procs /\ UNCHANGED <<wpc, on, rpc, rconn>>
    BY DEF LeaseClose, Procs, Callers, replVars
  <2>2. WatchKept
    BY <2>1, <1>MoveWatch DEF LeaseClose
  <2>3. on[l] \in Conns /\ conn[on[l]].at \in Endpoints
    BY LeaseCloseTakes
  <2>4. PICK r \in PooledConnection, retire \in BOOLEAN : LeaseCloseEffect(l, r, retire)
    BY LeaseCloseTakes
  <2>5. r.at = conn[on[l]].at /\ Settle(on[l], r, retire)
    BY <2>4 DEF LeaseCloseEffect
  <2> QED
    BY <2>1, <2>2, <2>3, <2>5, <1>SettleKeeps
<1>14. ASSUME NEW c \in Conns, WatchDone(c) PROVE ConnOK'
  <2> USE <1>14
  <2>1. /\ UNCHANGED <<closeSoon, pc, on, rpc, rconn>> /\ conn[c].at \in Endpoints
        /\ conn[c].at # None
    BY WatchDoneTakes, PoolAssumption DEF WatchDone, procVars, replVars
  <2>2. WatchKept /\ closeSoon' \subseteq Conns
    BY <2>1 DEF WatchKept, Inv, TypeOK, ConnType
  <2>3. PICK s \in PooledConnection : WatchDoneEffect(c, s)
    BY WatchDoneTakes
  <2>4. /\ s.at = conn[c].at /\ conn' = [conn EXCEPT ![c] = s]
        /\ \E w \in {"running", "replace", "done"} : wpc' = [wpc EXCEPT ![c] = w]
        /\ \/ UNCHANGED conns
           \/ conns' = [conns EXCEPT ![s.at] = Without(@, c)]
    BY <2>3 DEF WatchDoneEffect
  <2> QED
    BY <2>1, <2>2, <2>4, <1>RecordKeeps
<1>15. ASSUME NEW c \in Conns, WatchReplace(c) PROVE ConnOK'
  <2> USE <1>15
  <2>1. /\ UNCHANGED <<conns, conn, closeSoon, pc, on, rconn>> /\ conn[c].at # None
        /\ wpc' = [wpc EXCEPT ![c] = "done"]
    BY DEF WatchReplace, procVars, connVars, Inv, LoadInv, Filed
  <2>2. \A e \in Endpoints : rpc'[e] = "watch" => rpc[e] = "watch"
    BY DEF WatchReplace, StartReplacement, Inv, TypeOK, ReplType
  <2>3. WatchKept
    BY <2>1, <2>2 DEF WatchKept
  <2> QED
    BY <2>1, <2>3, <1>WatcherKeeps
<1>16. ASSUME NEW c \in Conns, CloseSoon(c) PROVE ConnOK'
  <2> USE <1>16
  <2>1. UNCHANGED <<conns, wpc, pc, on, rpc, rconn>> /\ CloseConn(c)
    BY DEF CloseSoon, procVars, replVars
  <2>2. WatchKept /\ closeSoon' \subseteq Conns
    BY <2>1 DEF CloseSoon, WatchKept, Inv, TypeOK, ConnType
  <2> QED
    BY <2>1, <2>2, <1>CloseConnKeeps
<1>17. ASSUME NEW c \in Conns, ConnFails(c) PROVE ConnOK'
  <2> USE <1>17
  <2>1. UNCHANGED <<conns, wpc, pc, on, rpc, rconn>> /\ CloseConn(c)
    BY DEF ConnFails, procVars, replVars
  <2>2. WatchKept /\ closeSoon' \subseteq Conns
    BY <2>1 DEF ConnFails, WatchKept, Inv, TypeOK, ConnType
  <2> QED
    BY <2>1, <2>2, <1>CloseConnKeeps
<1>18. ASSUME NEW e \in Endpoints, ReplaceLoop(e) PROVE ConnOK'
  <2> USE <1>18
  <2>1. UNCHANGED <<conns, conn, closeSoon, wpc, pc, on, rconn>>
    BY DEF ReplaceLoop, procVars, connVars
  <2>2. \A f \in Endpoints : rpc'[f] = "watch" => rpc[f] = "watch"
    BY DEF ReplaceLoop, Inv, TypeOK, ReplType
  <2> QED
    BY <2>1, <2>2, <1>ConnFrame DEF WatchKept
<1>19. ASSUME NEW e \in Endpoints, ReplaceWake(e) PROVE ConnOK'
  <2> USE <1>19
  <2>1. UNCHANGED <<conns, conn, closeSoon, wpc, pc, on, rconn>>
    BY DEF ReplaceWake, procVars, connVars
  <2>2. \A f \in Endpoints : rpc'[f] = "watch" => rpc[f] = "watch"
    BY DEF ReplaceWake, Inv, TypeOK, ReplType
  <2> QED
    BY <2>1, <2>2, <1>ConnFrame DEF WatchKept
<1>20. ASSUME NEW e \in Endpoints, ReplaceExit(e) PROVE ConnOK'
  <2> USE <1>20
  <2>1. UNCHANGED <<conns, conn, closeSoon, wpc, pc, on, rconn>>
    BY DEF ReplaceExit, procVars, connVars
  <2>2. \A f \in Endpoints : rpc'[f] = "watch" => rpc[f] = "watch"
    BY DEF ReplaceExit, Inv, TypeOK, ReplType
  <2> QED
    BY <2>1, <2>2, <1>ConnFrame DEF WatchKept
<1>21. ASSUME NEW e \in Endpoints, ReplaceDialed(e) PROVE ConnOK'
  <2> USE <1>21
  <2>1. UNCHANGED <<wpc, closeSoon, pc, on>>
    BY DEF ReplaceDialed, procVars
  <2> USE <2>1
  <2>2. ASSUME NEW c \in Conns, DialEnds(e, c, TRUE), rconn' = [rconn EXCEPT ![e] = c],
               rpc' = [rpc EXCEPT ![e] = IF closing THEN "discard" ELSE "watch"]
        PROVE  ConnOK'
    <3> USE <2>2
    <3>1. \A f \in Endpoints : rpc'[f] = "watch" =>
             rconn'[f] = c \/ (rpc[f] = "watch" /\ rconn'[f] = rconn[f])
      BY DEF Inv, TypeOK, ReplType
    <3> QED
      BY <3>1, <1>DialEndsKeeps
  <2>3. ASSUME DialEnds(e, None, FALSE), rpc' = [rpc EXCEPT ![e] = "loop"],
               UNCHANGED rconn
        PROVE  ConnOK'
    <3> USE <2>3
    <3>1. UNCHANGED <<conns, conn>>
      BY DEF DialEnds
    <3>2. WatchKept
      BY DEF WatchKept, Inv, TypeOK, ReplType
    <3> QED
      BY <3>1, <3>2, <1>ConnFrame
  <2> QED
    BY <2>2, <2>3 DEF ReplaceDialed
<1>22. ASSUME NEW e \in Endpoints, ReplaceWatch(e) PROVE ConnOK'
  <2> USE <1>22
  <2>1. /\ rconn[e] \in Conns /\ conn[rconn[e]].at # None
        /\ UNCHANGED <<conns, conn, closeSoon, pc, on>>
        /\ wpc' = [wpc EXCEPT ![rconn[e]] = "running"]
    BY DEF ReplaceWatch, connVars, procVars, Inv, LoadInv, ReplPlaced, Filed
  <2>2. WatchKept
    BY <2>1 DEF ReplaceWatch, WatchKept, Inv, TypeOK, ReplType
  <2> QED
    BY <2>1, <2>2, <1>WatcherKeeps
<1>23. ASSUME NEW e \in Endpoints, ReplaceDiscard(e) PROVE ConnOK'
  <2> USE <1>23
  <2>1. /\ rconn[e] \in Conns /\ CloseConn(rconn[e])
        /\ UNCHANGED <<conns, closeSoon, wpc, pc, on>>
    BY DEF ReplaceDiscard, procVars, Inv, LoadInv, ReplPlaced
  <2>2. WatchKept /\ closeSoon' \subseteq Conns
    BY <2>1 DEF ReplaceDiscard, WatchKept, Inv, TypeOK, ReplType, ConnType
  <2> QED
    BY <2>1, <2>2, <1>CloseConnKeeps
<1>24. ASSUME RetireExpired PROVE ConnOK'
  <2> USE <1>24
  <2>1. UNCHANGED <<conns, closeSoon, wpc, pc, on, rpc, rconn>>
    BY DEF RetireExpired, procVars, replVars
  <2>2. PICK gone \in SUBSET AllListed, bare \in SUBSET Endpoints :
           RetireEffect(gone, bare)
    BY RetireExpiredTakes
  <2>3. \A c \in gone : c \in Conns /\ conn[c].at # None
    BY ListedDialed, SMT DEF AllListed
  <2>4. \A c \in Conns : conn[c] \in PooledConnection
    BY DEF Inv, TypeOK, ConnType
  <2>5. /\ conn' \in [Conns -> PooledConnection]
        /\ \A c \in Conns : conn'[c].at = conn[c].at /\ (c \notin gone => conn'[c] = conn[c])
    BY <2>2, <2>4 DEF RetireEffect, PooledConnection
  <2> QED
    BY <2>1, <2>3, <2>5, <1>RecordsKeep
       DEF Relisted, WatchKept, Inv, TypeOK, ConnType, LoadInv, Filed
<1>25. ASSUME RetireNext PROVE ConnOK'
  <2> USE <1>25
  <2>1. UNCHANGED <<conns, closeSoon, wpc, pc, on, rconn>>
    BY DEF RetireNext, procVars
  <2>2. ASSUME NEW c \in maint.close, ClosesOne(c) PROVE ConnOK'
    <3>1. c \in Conns /\ closeSoon' \subseteq Conns
      BY <2>1 DEF Inv, TypeOK, ReplType, ConnType
    <3>2. CloseConn(c) /\ UNCHANGED rpc
      BY <2>2 DEF ClosesOne
    <3> QED
      BY <2>1, <3>1, <3>2, <1>CloseConnKeeps DEF WatchKept
  <2>3. ASSUME NEW e \in maint.replace, ReplacesOne(e) PROVE ConnOK'
    <3>1. UNCHANGED conn /\ StartReplacement(e)
      BY <2>3 DEF ReplacesOne
    <3>2. \A f \in Endpoints : rpc'[f] = "watch" => rpc[f] = "watch"
      BY <3>1 DEF StartReplacement, Inv, TypeOK, ReplType
    <3> QED
      BY <2>1, <3>1, <3>2, <1>ConnFrame DEF WatchKept
  <2> QED
    BY <2>2, <2>3, RetireNextTakes
<1>26. ASSUME NEW k \in Closers, CloseAll(k) PROVE ConnOK'
  <2>1. /\ UNCHANGED <<conns, closeSoon, wpc, pc, on, rpc, rconn>>
        /\ conn' = [c \in Conns |-> [conn[c] EXCEPT !.retiring = @ \/ c \in AllListed]]
    BY <1>26 DEF CloseAll, procVars, replVars
  <2>2. \A c \in AllListed : c \in Conns /\ conn[c].at # None
    BY ListedDialed, SMT DEF AllListed
  <2>3. \A c \in Conns : conn[c] \in PooledConnection
    BY DEF Inv, TypeOK, ConnType
  <2> USE <2>3
  <2>4. /\ conn' \in [Conns -> PooledConnection]
        /\ \A c \in Conns : conn'[c].at = conn[c].at
    BY <2>1 DEF PooledConnection
  <2>5. ASSUME NEW c \in Conns, conn[c].at = None PROVE conn'[c] = NoConn
    <3>1. conn[c] = NoConn /\ c \notin AllListed
      BY <2>2, <2>5 DEF Inv, LoadInv, Filed
    <3>2. conn'[c] = [conn[c] EXCEPT !.retiring = @ \/ c \in AllListed]
      BY <2>1
    <3>3. /\ conn'[c].at = conn[c].at /\ conn'[c].up = conn[c].up
          /\ conn'[c].inFlight = conn[c].inFlight /\ conn'[c].leased = conn[c].leased
          /\ conn'[c].draining = conn[c].draining /\ conn'[c].broken = conn[c].broken
          /\ conn'[c].retiring = conn[c].retiring
      BY <3>1, <3>2 DEF PooledConnection
    <3> QED
      BY <2>4, <3>1, <3>3, <1>SameRecord
  <2> QED
    BY <2>1, <2>4, <2>5, <1>RecordsKeep DEF Relisted, WatchKept, Inv, TypeOK, ConnType,
       LoadInv, Filed
<1>27. ASSUME NEW k \in Closers, CloseNext(k) PROVE ConnOK'
  <2> USE <1>27
  <2>1. UNCHANGED <<conns, closeSoon, wpc, pc, on, rpc, rconn>>
    BY DEF CloseNext, procVars, replVars
  <2>2. PICK c \in toClose[k] : CloseConn(c)
    BY DEF CloseNext
  <2>3. c \in Conns /\ closeSoon' \subseteq Conns
    BY <2>1 DEF Inv, TypeOK, CloseType, ConnType
  <2> QED
    BY <2>1, <2>2, <2>3, <1>CloseConnKeeps DEF WatchKept
<1>28. CASE \E a \in Callers : AcquireStep(a)
  BY <1>28, <1>2, <1>3, <1>6, <1>7, <1>8, <1>9 DEF AcquireStep, Procs
<1>29. CASE \E p \in LeaseOps : LeaseAcquire(p) \/ Wake(p)
  BY <1>29, <1>10, <1>3 DEF Procs
<1>30. CASE \E p \in Procs : WaitEnds(p)
  BY <1>30, <1>4
<1>31. CASE \E p \in Ops \cup LeaseOps : DoFails(p) \/ DoStarts(p) \/ OperationEnds(p)
  BY <1>31, <1>1, <1>11, <1>5 DEF OperationEnds, connVars, procVars, replVars
<1>32. CASE \E p \in Ops \cup LeaseOps, who \in {"tracker", "consumer"} :
              ReleaseOnce(p, who)
  BY <1>32, <1>12
<1>33. CASE \E l \in Leases : LeaseClose(l)
  BY <1>33, <1>13
<1>34. CASE \E c \in Conns : WatchStep(c) \/ ConnFails(c)
  BY <1>34, <1>14, <1>15, <1>16, <1>17 DEF WatchStep
<1>35. CASE \E e \in Endpoints : ReplaceStep(e) \/ BackoffEnds(e)
  BY <1>35, <1>1, <1>18, <1>19, <1>21, <1>22, <1>23, <1>20
     DEF ReplaceStep, BackoffEnds, connVars, procVars, replVars
<1>36. CASE RetireExpired \/ RetireNext \/ MaintainExit
  BY <1>36, <1>1, <1>24, <1>25 DEF MaintainExit, connVars, procVars, replVars
<1>37. CASE \E k \in Closers : CloseBegin(k) \/ CloseStep(k)
  BY <1>37, <1>1, <1>26, <1>27
     DEF CloseStep, CloseBegin, CloseDrain, CloseWake, CloseTimeout,
         CloseFinish, connVars, procVars, replVars
<1>38. CASE \E p \in Procs \cup Closers : ContextDone(p)
  BY <1>38, <1>1 DEF ContextDone, connVars, procVars, replVars
<1> QED
  BY <1>28, <1>29, <1>30, <1>31, <1>32, <1>33, <1>34, <1>35, <1>36, <1>37, <1>38
     DEF Next

\* A replacement goroutine has the connection it is to watch or close.
LEMMA ReplPlacedStep ==
    ASSUME Inv, Next
    PROVE  ReplPlaced'
<1> USE Zenon
<1>1. UNCHANGED <<replacing, rpc, rconn>> => ReplPlaced'
  BY DEF ReplPlaced, Inv, LoadInv
<1>Started. ASSUME NEW e, StartReplacement(e), UNCHANGED rconn PROVE ReplPlaced'
  <2> USE <1>Started
  <2>1. \/ UNCHANGED <<rpc, replacing>>
        \/ /\ rpc' = [rpc EXCEPT ![e] = "loop"]
           /\ replacing' = [replacing EXCEPT ![e] = TRUE]
    BY DEF StartReplacement
  <2> QED
    BY <2>1, SMT DEF ReplPlaced, Inv, TypeOK, ReplType, LoadInv
<1>2. \A a \in Callers : AcquireReplace(a) => ReplPlaced'
  BY <1>Started DEF AcquireReplace
<1>3. \A c \in Conns : WatchReplace(c) => ReplPlaced'
  BY <1>Started DEF WatchReplace
<1>4. ASSUME NEW e \in Endpoints, ReplaceLoop(e) PROVE ReplPlaced'
  BY <1>4, SMT
     DEF ReplaceLoop, StartReplacement, ReplPlaced, Inv, TypeOK, ReplType,
         LoadInv
<1>5. ASSUME NEW e \in Endpoints, ReplaceWake(e) PROVE ReplPlaced'
  BY <1>5
     DEF ReplaceWake, StartReplacement, ReplPlaced, Inv, TypeOK, ReplType,
         LoadInv
<1>6. ASSUME NEW e \in Endpoints, ReplaceWatch(e) PROVE ReplPlaced'
  BY <1>6
     DEF ReplaceWatch, StartReplacement, ReplPlaced, Inv, TypeOK, ReplType,
         LoadInv
<1>7. ASSUME NEW e \in Endpoints, ReplaceDiscard(e) PROVE ReplPlaced'
  BY <1>7
     DEF ReplaceDiscard, StartReplacement, ReplPlaced, Inv, TypeOK, ReplType,
         LoadInv
<1>8. \A e \in Endpoints : ReplaceExit(e) => ReplPlaced'
  BY SMT
     DEF ReplaceExit, StartReplacement, ReplPlaced, Inv, TypeOK, ReplType,
         LoadInv
<1>9. ASSUME NEW e \in Endpoints, ReplaceDialed(e) PROVE ReplPlaced'
  <2>1. /\ UNCHANGED replacing /\ rpc[e] = "dialing"
        /\ \/ \E c \in Conns : \E v : /\ rconn' = [rconn EXCEPT ![e] = c]
                                     /\ rpc' = [rpc EXCEPT ![e] = v] /\ v # "off"
           \/ rpc' = [rpc EXCEPT ![e] = "loop"] /\ UNCHANGED rconn
    BY <1>9 DEF ReplaceDialed
  <2> QED
    BY <2>1, SMT DEF ReplPlaced, Inv, TypeOK, ReplType, LoadInv
<1>10. RetireNext => ReplPlaced'
  BY <1>1, <1>Started DEF RetireNext
<1>11. (\E a \in Callers : AcquireStep(a)) => ReplPlaced'
  BY <1>1, <1>2
     DEF AcquireStep, Acquire, Wake, AcquireDialed, AcquireWatch,
         AcquireDiscard, replVars, Procs
<1>12. (\E p \in LeaseOps : LeaseAcquire(p) \/ Wake(p)) => ReplPlaced'
  BY <1>1 DEF LeaseAcquire, Wake, replVars, Procs
<1>13. (\E p \in Procs : WaitEnds(p)) => ReplPlaced'
  BY <1>1 DEF WaitEnds, replVars
<1>14. CASE \E p \in Ops \cup LeaseOps : DoFails(p) \/ DoStarts(p) \/ OperationEnds(p)
  BY <1>14, <1>1 DEF DoFails, DoStarts, OperationEnds, replVars
<1>15. CASE \E p \in Ops \cup LeaseOps, who \in {"tracker", "consumer"} :
              ReleaseOnce(p, who)
  BY <1>15, <1>1 DEF ReleaseOnce, replVars
<1>16. (\E l \in Leases : LeaseClose(l)) => ReplPlaced'
  BY <1>1 DEF LeaseClose, replVars
<1>17. (\E c \in Conns : WatchStep(c) \/ ConnFails(c)) => ReplPlaced'
  BY <1>1, <1>3 DEF WatchStep, WatchDone, CloseSoon, ConnFails, replVars
<1>18. (\E e \in Endpoints : ReplaceStep(e) \/ BackoffEnds(e)) => ReplPlaced'
  BY <1>1, <1>4, <1>5, <1>9, <1>6, <1>7, <1>8
     DEF ReplaceStep, BackoffEnds, replVars
<1>19. (RetireExpired \/ RetireNext \/ MaintainExit) => ReplPlaced'
  BY <1>1, <1>10 DEF RetireExpired, MaintainExit, replVars
<1>20. (\E k \in Closers : CloseBegin(k) \/ CloseStep(k)) => ReplPlaced'
  BY <1>1
     DEF CloseStep, CloseBegin, CloseDrain, CloseWake, CloseTimeout, CloseAll,
         CloseNext, CloseFinish, replVars
<1>21. (\E p \in Procs \cup Closers : ContextDone(p)) => ReplPlaced'
  BY <1>1 DEF ContextDone, replVars
<1> QED
  BY <1>11, <1>12, <1>13, <1>14, <1>15, <1>16, <1>17, <1>18, <1>19, <1>20, <1>21
     DEF Next

-----------------------------------------------------------------------------
(***************************************************************************)
(* What a connection says of its load.                                     *)
(***************************************************************************)

\* Every connection says of its load what it said before.
ConnLoadKept ==
    \A c \in Conns : /\ conn'[c].inFlight = conn[c].inFlight
                     /\ conn'[c].leased = conn[c].leased
                     /\ conn'[c].broken = conn[c].broken

\* A new connection carries nothing, as it did before it was dialed.
LEMMA DialEndsLoad ==
    ASSUME Inv, NEW e, NEW c, NEW ok, DialEnds(e, c, ok)
    PROVE  ConnLoadKept
<1> USE Zenon
<1>1. ~ok => ConnLoadKept
  BY DEF DialEnds, ConnLoadKept
<1>2. CASE ok
  <2> DEFINE s == [Dialed(e) EXCEPT !.retiring = closing]
  <2>1. c \in Conns /\ conn[c].at = None /\ conn' = [conn EXCEPT ![c] = s]
    BY <1>2 DEF DialEnds, Fresh
  <2>2. conn[c] = NoConn
    BY <2>1 DEF Inv, LoadInv, Filed
  <2>3. s.inFlight = NoConn.inFlight /\ s.leased = NoConn.leased /\ s.broken = NoConn.broken
    BY DEF Dialed, NoConn
  <2> HIDE DEF s
  <2>4. \A d \in Conns : conn'[d] = IF d = c THEN s ELSE conn[d]
    BY <2>1 DEF Inv, TypeOK, ConnType
  <2> QED
    BY <2>2, <2>3, <2>4 DEF ConnLoadKept
<1> QED
  BY <1>1, <1>2

\* Nor does closing one change its load.
LEMMA CloseConnLoad ==
    ASSUME Inv, NEW c, CloseConn(c)
    PROVE  ConnLoadKept
  BY DEF ConnLoadKept, CloseConn, Inv, TypeOK, ConnType, PooledConnection

-----------------------------------------------------------------------------
(***************************************************************************)
(* The leases.                                                             *)
(***************************************************************************)

\* A lease counts between nothing and MaxInFlightPerConnection operations.
LEMMA LeaseTypeStep ==
    ASSUME Inv, Next
    PROVE  LeaseType'
\* Returning capacity keeps the count of the lease in its range.
<1> USE Zenon
<1>ReleaseLeaseType.
    ASSUME NEW p \in Ops \cup LeaseOps, Busy(p), ReleaseOf(p), UNCHANGED leaseClosed
    PROVE  LeaseType'
  <2> USE <1>ReleaseLeaseType
  <2>1. PICK c \in Conns : c = ConnOf(p)
    BY HolderDialed
  <2>2. PICK r \in PooledConnection, retire \in BOOLEAN : ReleaseEffect(p, c, r, retire)
    BY <2>1, ReleaseTakes
  <2>3. leaseFlight' = IF p \in LeaseOps THEN [leaseFlight EXCEPT ![Via[p]] = @ - 1]
                                         ELSE leaseFlight
    BY <2>2 DEF ReleaseEffect
  <2>4. p \in LeaseOps => leaseFlight[Via[p]] > 0 /\ Via[p] \in Leases
    BY HolderDialed, PoolAssumption
  <2> QED
    BY <2>3, <2>4, PoolAssumption, SMT DEF Inv, TypeOK, LeaseType
<1>1. UNCHANGED leaseVars => LeaseType'
  BY DEF LeaseType, Inv, TypeOK, leaseVars
<1>2. ASSUME NEW p \in LeaseOps, LeaseAcquire(p) PROVE LeaseType'
  <2> USE <1>2
  <2>1. UNCHANGED leaseClosed
    BY DEF LeaseAcquire
  <2>2. Via[p] \in Leases
    BY PoolAssumption
  <2>3. LeaseGrants(p) => LeaseType'
    BY <2>1, <2>2, PoolAssumption, SMT DEF LeaseGrants, LeaseType, Inv, TypeOK
  <2>4. (LeaseRefuses(p) \/ LeaseWaits(p)) => LeaseType'
    BY <2>1 DEF LeaseRefuses, LeaseWaits, LeaseType, Inv, TypeOK
  <2> QED
    BY <2>3, <2>4, LeaseAcquireTakes
<1>3. \A p \in Ops \cup LeaseOps : DoFails(p) => LeaseType'
  BY <1>ReleaseLeaseType DEF DoFails, Busy
<1>4. ASSUME NEW p \in Ops \cup LeaseOps, NEW who \in {"tracker", "consumer"}, ReleaseOnce(p, who)
      PROVE  LeaseType'
  <2> USE <1>4
  <2>1. p \in ended /\ UNCHANGED leaseClosed
    BY DEF ReleaseOnce
  <2> USE <2>1
  <2>2. CASE Released(p)
    <3>1. UNCHANGED leaseFlight
      BY <2>2 DEF ReleaseOnce, Released
    <3> QED
      BY <3>1 DEF LeaseType, Inv, TypeOK
  <2>3. CASE ~Released(p)
    <3> USE <2>3
    <3>1. ReleaseOf(p)
      BY DEF ReleaseOnce, Released
    <3>2. Busy(p)
      BY DEF Busy, Inv, LoadInv, Placed
    <3> QED
      BY <3>1, <3>2, <1>ReleaseLeaseType
  <2> QED
    BY <2>2, <2>3
<1>5. \A l \in Leases : LeaseClose(l) => LeaseType'
  BY DEF LeaseClose, LeaseType, Inv, TypeOK
<1>6. CASE \E a \in Callers : AcquireStep(a)
  BY <1>6, <1>1
     DEF AcquireStep, Acquire, Wake, AcquireDialed, AcquireWatch,
         AcquireDiscard, AcquireReplace, leaseVars, Procs
<1>7. CASE \E p \in LeaseOps : LeaseAcquire(p) \/ Wake(p)
  BY <1>7, <1>1, <1>2 DEF Wake, leaseVars, Procs
<1>8. CASE \E p \in Procs : WaitEnds(p)
  BY <1>8, <1>1 DEF WaitEnds, leaseVars
<1>9. CASE \E p \in Ops \cup LeaseOps : DoFails(p) \/ DoStarts(p) \/ OperationEnds(p)
  BY <1>9, <1>1, <1>3 DEF DoStarts, OperationEnds, leaseVars
<1>10. CASE \E p \in Ops \cup LeaseOps, who \in {"tracker", "consumer"} :
              ReleaseOnce(p, who)
  BY <1>10, <1>4
<1>11. CASE \E l \in Leases : LeaseClose(l)
  BY <1>11, <1>5
<1>12. CASE \E c \in Conns : WatchStep(c) \/ ConnFails(c)
  BY <1>12, <1>1
     DEF WatchStep, WatchDone, WatchReplace, CloseSoon, ConnFails, leaseVars
<1>13. CASE \E e \in Endpoints : ReplaceStep(e) \/ BackoffEnds(e)
  BY <1>13, <1>1
     DEF ReplaceStep, ReplaceLoop, ReplaceWake, ReplaceDialed, ReplaceWatch,
         ReplaceDiscard, ReplaceExit, BackoffEnds, leaseVars
<1>14. CASE RetireExpired \/ RetireNext \/ MaintainExit
  BY <1>14, <1>1 DEF RetireExpired, RetireNext, MaintainExit, leaseVars
<1>15. CASE \E k \in Closers : CloseBegin(k) \/ CloseStep(k)
  BY <1>15, <1>1
     DEF CloseStep, CloseBegin, CloseDrain, CloseWake, CloseTimeout, CloseAll,
         CloseNext, CloseFinish, leaseVars
<1>16. CASE \E p \in Procs \cup Closers : ContextDone(p)
  BY <1>16, <1>1 DEF ContextDone, leaseVars
<1> QED
  BY <1>6, <1>7, <1>8, <1>9, <1>10, <1>11, <1>12, <1>13, <1>14, <1>15, <1>16
     DEF Next

-----------------------------------------------------------------------------
(***************************************************************************)
(* Capacity.                                                               *)
(***************************************************************************)

CapacityOK ==
    /\ FinitelyBusy /\ InFlightExact /\ LeaseExclusive
    /\ \A c \in Conns : conn[c].broken => ~conn[c].leased

\* InFlightExact in terms of the sets that are counted.
LEMMA Counts ==
    /\ InFlightExact <=> /\ \A c \in Conns : conn[c].inFlight = Cardinality(Holders(c))
                         /\ \A l \in Leases : leaseFlight[l] = Cardinality(LeaseHolders(l))
    /\ InFlightExact' <=>
          /\ \A c \in Conns : conn'[c].inFlight = Cardinality(Holders(c)')
          /\ \A l \in Leases : leaseFlight'[l] = Cardinality(LeaseHolders(l)')
<1> USE Zenon
<1>1. \A l : LeaseHolders(l) = {p \in LeaseOps : Via[p] = l /\ pc[p] \in {"held", "open"}}
  BY DEF LeaseHolders, Busy
<1>2. \A l : LeaseHolders(l)' = {p \in LeaseOps : Via[p] = l /\ pc'[p] \in {"held", "open"}}
  BY DEF LeaseHolders, Busy
<1> QED
  BY <1>1, <1>2 DEF InFlightExact

\* The operations that hold capacity, where they hold it, the leases and what
\* their connections say of it stay.
SameLoad ==
    /\ \A p \in Ops \cup LeaseOps : Busy(p)' <=> Busy(p)
    /\ \A p \in Ops \cup LeaseOps : Busy(p) => ConnOf(p)' = ConnOf(p)
    /\ \A l \in Leases : pc'[l] = "held" <=> pc[l] = "held"
    /\ \A l \in Leases : pc[l] \in {"held", "done"} => on'[l] = on[l]
    /\ UNCHANGED leaseFlight
    /\ ConnLoadKept

\* Everyone but p holds what it held.
OthersStay(p) ==
    \A q \in Ops \cup LeaseOps : q # p =>
        /\ Busy(q)' <=> Busy(q)
        /\ Busy(q) => ConnOf(q)' = ConnOf(q)

\* p is given capacity on c ...
Starts(p, c) == /\ ~Busy(p) /\ Busy(p)' /\ ConnOf(p)' = c /\ OthersStay(p)

\* ... or returns it.
Stops(p, c) == /\ Busy(p) /\ ~Busy(p)' /\ ConnOf(p) = c /\ OthersStay(p)

\* LeaseExclusive for the lease l, spelled out.
ExclusiveFor(l) ==
    InForce(l) =>
        /\ \A q \in Ops \cup LeaseOps : Busy(q) /\ ConnOf(q) = on[l] =>
              q \in LeaseOps /\ Via[q] = l
        /\ \A m \in Leases : InForce(m) /\ on[m] = on[l] => m = l
        /\ conn[on[l]].leased \/ conn[on[l]].broken

\* What counting the holders rests on.
CountEmpty == /\ IsFiniteSet({}) /\ Cardinality({}) = 0
              /\ \A S : IsFiniteSet(S) /\ Cardinality(S) = 0 => S = {}
CountNat == \A S : IsFiniteSet(S) => Cardinality(S) \in Nat
CountAdd == \A S, x : IsFiniteSet(S) /\ x \notin S =>
               /\ IsFiniteSet(S \cup {x})
               /\ Cardinality(S \cup {x}) = Cardinality(S) + 1
CountRemove == \A S, x : IsFiniteSet(S) /\ x \in S =>
                  /\ IsFiniteSet(S \ {x})
                  /\ Cardinality(S \ {x}) = Cardinality(S) - 1
CountPart == \A S : IsFiniteSet(S) => \A T \in SUBSET S :
                /\ IsFiniteSet(T) /\ Cardinality(T) <= Cardinality(S)
Counting == CountEmpty /\ CountNat /\ CountAdd /\ CountRemove /\ CountPart

\* A finite set with one member more or less.
LEMMA CountOne ==
    ASSUME Counting, NEW S, IsFiniteSet(S), NEW x
    PROVE  /\ Cardinality(S) \in Nat
           /\ IsFiniteSet(S \cup {x}) /\ IsFiniteSet(S \ {x})
           /\ Cardinality(S \cup {x}) \in Nat /\ Cardinality(S \ {x}) \in Nat
           /\ Cardinality(S \cup {x}) =
                 IF x \in S THEN Cardinality(S) ELSE Cardinality(S) + 1
           /\ Cardinality(S \ {x}) =
                 IF x \in S THEN Cardinality(S) - 1 ELSE Cardinality(S)
<1> USE Zenon
<1>1. Cardinality(S) \in Nat
  BY DEF Counting, CountNat
<1>2. x \in S => S \cup {x} = S
  OBVIOUS
<1>3. x \notin S => S \ {x} = S
  OBVIOUS
<1>4. /\ IsFiniteSet(S \cup {x})
      /\ Cardinality(S \cup {x}) =
            IF x \in S THEN Cardinality(S) ELSE Cardinality(S) + 1
  BY <1>2 DEF Counting, CountAdd
<1>5. /\ IsFiniteSet(S \ {x})
      /\ Cardinality(S \ {x}) =
            IF x \in S THEN Cardinality(S) - 1 ELSE Cardinality(S)
  BY <1>3 DEF Counting, CountRemove
<1>6. Cardinality(S \cup {x}) \in Nat /\ Cardinality(S \ {x}) \in Nat
  BY <1>4, <1>5 DEF Counting, CountNat
<1> QED
  BY <1>1, <1>4, <1>5, <1>6

\* Capacity stays exact and leases exclusive.  (That finite sets can be counted
\* is a fact of the library, which PoolProofs supplies.)
LEMMA CapacityStep ==
    ASSUME Inv, Next, Counting
    PROVE  CapacityOK'
\* The counters before the step.
<1> USE Zenon
<1>Counted. /\ \A d \in Conns : conn[d].inFlight = Cardinality(Holders(d)) /\ conn[d].inFlight \in Int
            /\ \A m \in Leases : leaseFlight[m] = Cardinality(LeaseHolders(m)) /\ leaseFlight[m] \in Int
  <2>1. InFlightExact
    BY DEF Inv, LoadInv
  <2>2. /\ \A d \in Conns : conn[d].inFlight = Cardinality(Holders(d))
        /\ \A m \in Leases : leaseFlight[m] = Cardinality(LeaseHolders(m))
    BY <2>1, Counts
  <2>3. \A d \in Conns : conn[d].inFlight \in Int
    BY PoolAssumption, SMT DEF Inv, TypeOK, ConnType, PooledConnection
  <2>4. \A m \in Leases : leaseFlight[m] \in Int
    BY PoolAssumption, SMT DEF Inv, TypeOK, LeaseType
  <2> QED
    BY <2>2, <2>3, <2>4
\* A lease in force has a connection; its operations hold capacity there.
<1>InForceOn.
    ASSUME NEW l \in Leases, InForce(l)
    PROVE  on[l] \in Conns /\ pc[l] \in {"held", "done"} /\ on[l] # None
  <2> USE <1>InForceOn
  <2>0. l \in Callers /\ None \notin Conns /\ Placed
    BY PoolAssumption DEF Callers, Inv, LoadInv
  <2>3. pc[l] \in {"held", "done"} => on[l] \in Conns
    <3>1. pc[l] = "held" => on[l] \in Conns
      BY <2>0 DEF Placed
    <3>2. pc[l] = "done" => on[l] \in Conns
      BY <2>0 DEF Placed
    <3> QED
      BY <3>1, <3>2
  <2>1. CASE pc[l] = "held"
    BY <2>0, <2>1, <2>3
  <2>2. CASE leaseFlight[l] > 0
    <3>1. leaseFlight[l] = Cardinality(LeaseHolders(l))
      BY Counts DEF Inv, LoadInv
    <3>2. LeaseHolders(l) # {}
      BY <2>2, <3>1, SMT DEF Counting, CountEmpty
    <3>3. PICK p \in LeaseOps : Via[p] = l /\ Busy(p)
      BY <3>2 DEF LeaseHolders
    <3>4. pc[l] \in {"held", "done"}
      BY <3>3 DEF Busy, Inv, LoadInv, Placed
    <3> QED
      BY <2>0, <2>3, <3>4
  <2> QED
    BY <2>1, <2>2 DEF InForce
\* Then capacity stays exact.
<1>LoadFrame.
    ASSUME SameLoad
    PROVE  CapacityOK'
  <2> USE <1>LoadFrame
  <2>1. \A c : Holders(c)' = Holders(c)
    BY DEF SameLoad, Holders, Busy
  <2>2. \A l : LeaseHolders(l)' = LeaseHolders(l)
    BY DEF SameLoad, LeaseHolders
  <2>3. FinitelyBusy'
    BY <2>1, <2>2 DEF Inv, LoadInv, FinitelyBusy
  <2>4. InFlightExact'
    BY <2>1, <2>2, Counts DEF Inv, LoadInv, SameLoad, ConnLoadKept
  <2>5. \A l \in Leases : /\ InForce(l)' <=> InForce(l)
                          /\ InForce(l) => on'[l] = on[l] /\ on[l] \in Conns
    BY <1>InForceOn DEF SameLoad, InForce
  <2>6. LeaseExclusive'
    <3>1. LeaseExclusive /\ ConnLoadKept
      BY DEF Inv, LoadInv, SameLoad
    <3> SUFFICES ASSUME NEW l \in Leases, InForce(l)'
                 PROVE  /\ \A p \in Holders(on[l])' : p \in LeaseOps /\ Via[p] = l
                        /\ \A m \in Leases : InForce(m)' /\ on'[m] = on'[l] => m = l
                        /\ conn'[on'[l]].leased \/ conn'[on'[l]].broken
      BY DEF LeaseExclusive
    <3>2. InForce(l) /\ on'[l] = on[l] /\ on[l] \in Conns
      BY <2>5
    <3>3. \A p \in Holders(on[l])' : p \in Holders(on[l])
      <4>1. Holders(on[l])' = Holders(on[l])
        BY <2>1, <3>2 DEF Holders, Busy
      <4> QED
        BY <4>1
    <3> QED
      BY <2>5, <3>1, <3>2, <3>3 DEF LeaseExclusive, ConnLoadKept
  <2>7. \A c \in Conns : conn'[c].broken => ~conn'[c].leased
    BY DEF Inv, LoadInv, SameLoad, ConnLoadKept
  <2> QED
    BY <2>3, <2>4, <2>6, <2>7 DEF CapacityOK
\* A step that only moves a call that holds nothing changes no load.
<1>MoveLoad.
    ASSUME NEW p \in Procs, pc[p] \notin {"held", "open", "done"},
           NEW v, v \notin {"held", "open"}, pc' = [pc EXCEPT ![p] = v],
           UNCHANGED on \/ \E x : on' = [on EXCEPT ![p] = x],
           UNCHANGED leaseFlight,
           ConnLoadKept
    PROVE  CapacityOK'
  <2> USE <1>MoveLoad
  <2>1. /\ \A q \in Procs : q # p => pc'[q] = pc[q] /\ on'[q] = on[q]
        /\ pc'[p] = v
    BY DEF Inv, TypeOK, ProcType
  <2>2. Ops \subseteq Procs /\ LeaseOps \subseteq Procs /\ Leases \subseteq Procs /\ Via \in [LeaseOps -> Leases]
    BY PoolAssumption DEF Procs, Callers
  <2> USE <2>2
  <2>3. \A q \in Ops \cup LeaseOps : Busy(q)' <=> Busy(q)
    BY <2>1 DEF Busy
  <2>4. \A q \in LeaseOps : Busy(q) => pc[Via[q]] \in {"held", "done"}
    BY DEF Busy, Inv, LoadInv, Placed
  <2>5. \A q \in Ops \cup LeaseOps : Busy(q) => ConnOf(q)' = ConnOf(q)
    BY <2>1, <2>4, SMT DEF Busy, ConnOf
  <2>6. \A l \in Leases : /\ pc'[l] = "held" <=> pc[l] = "held"
                          /\ pc[l] \in {"held", "done"} => on'[l] = on[l]
    BY <2>1
  <2>7. SameLoad
    BY <2>3, <2>5, <2>6 DEF SameLoad
  <2> QED
    BY <2>7, <1>LoadFrame
\* A step that moves no call and leaves the load of every connection.
<1>StillLoad. UNCHANGED <<pc, on, leaseFlight>> /\ ConnLoadKept => CapacityOK'
  BY <1>LoadFrame DEF SameLoad, Busy, ConnOf
\* The sets that are counted grow by one then.
<1>StartCounts.
    ASSUME NEW p \in Ops \cup LeaseOps, NEW c \in Conns, Starts(p, c)
    PROVE  /\ FinitelyBusy'
           /\ \A d \in Conns : Holders(d)' = IF d = c THEN Holders(d) \cup {p} ELSE Holders(d)
           /\ \A d \in Conns : Cardinality(Holders(d)') =
                 IF d = c THEN Cardinality(Holders(d)) + 1
                          ELSE Cardinality(Holders(d))
           /\ \A l \in Leases : Cardinality(LeaseHolders(l)') =
                 IF p \in LeaseOps /\ Via[p] = l THEN Cardinality(LeaseHolders(l)) + 1
                                                 ELSE Cardinality(LeaseHolders(l))
  <2> USE <1>StartCounts
  <2>1. /\ \A d : Holders(d)' = {q \in Ops \cup LeaseOps : Busy(q)' /\ ConnOf(q)' = d}
        /\ \A d : Holders(d) = {q \in Ops \cup LeaseOps : Busy(q) /\ ConnOf(q) = d}
    BY DEF Holders, Busy
  <2>2. \A d : Holders(d)' = IF d = c THEN Holders(d) \cup {p} ELSE Holders(d)
    BY <2>1 DEF Starts, OthersStay
  <2>3. \A d : p \notin Holders(d)
    BY <2>1 DEF Starts
  <2>4. \A l : LeaseHolders(l)' = IF p \in LeaseOps /\ Via[p] = l THEN LeaseHolders(l) \cup {p}
                                                                ELSE LeaseHolders(l)
    BY DEF Starts, OthersStay, LeaseHolders
  <2>5. \A l : p \notin LeaseHolders(l)
    BY DEF Starts, LeaseHolders
  <2>6. \A S : IsFiniteSet(S) /\ p \notin S =>
           /\ IsFiniteSet(S \cup {p}) /\ Cardinality(S \cup {p}) = Cardinality(S) + 1
    BY DEF Counting, CountAdd
  <2>7. /\ \A d \in Conns : IsFiniteSet(Holders(d)) /\ Cardinality(Holders(d)) \in Nat
        /\ \A l \in Leases : IsFiniteSet(LeaseHolders(l)) /\ Cardinality(LeaseHolders(l)) \in Nat
    BY DEF Counting, CountNat, Inv, LoadInv, FinitelyBusy
  <2> USE <2>7
  <2>8. \A d \in Conns : /\ IsFiniteSet(Holders(d)')
                         /\ Cardinality(Holders(d)') =
                               IF d = c THEN Cardinality(Holders(d)) + 1
                                        ELSE Cardinality(Holders(d))
    <3> TAKE d \in Conns
    <3>1. CASE d = c
      BY <2>2, <2>3, <2>6, <3>1
    <3>2. CASE d # c
      BY <2>2, <3>2
    <3> QED
      BY <3>1, <3>2
  <2>9. \A l \in Leases : /\ IsFiniteSet(LeaseHolders(l)')
                          /\ Cardinality(LeaseHolders(l)') =
                               IF p \in LeaseOps /\ Via[p] = l THEN Cardinality(LeaseHolders(l)) + 1
                                                               ELSE Cardinality(LeaseHolders(l))
    <3> TAKE l \in Leases
    <3>1. CASE p \in LeaseOps /\ Via[p] = l
      BY <2>4, <2>5, <2>6, <3>1
    <3>2. CASE ~(p \in LeaseOps /\ Via[p] = l)
      BY <2>4, <3>2
    <3> QED
      BY <3>1, <3>2
  <2> QED
    BY <2>2, <2>8, <2>9 DEF FinitelyBusy
\* They shrink by one when capacity is returned.
<1>StopCounts.
    ASSUME NEW p \in Ops \cup LeaseOps, NEW c \in Conns, Stops(p, c)
    PROVE  /\ FinitelyBusy'
           /\ \A d \in Conns : Holders(d)' \subseteq Holders(d)
           /\ \A d \in Conns : Cardinality(Holders(d)') =
                 IF d = c THEN Cardinality(Holders(d)) - 1
                          ELSE Cardinality(Holders(d))
           /\ \A l \in Leases : Cardinality(LeaseHolders(l)') =
                 IF p \in LeaseOps /\ Via[p] = l THEN Cardinality(LeaseHolders(l)) - 1
                                                 ELSE Cardinality(LeaseHolders(l))
  <2> USE <1>StopCounts
  <2>1. /\ \A d : Holders(d)' = {q \in Ops \cup LeaseOps : Busy(q)' /\ ConnOf(q)' = d}
        /\ \A d : Holders(d) = {q \in Ops \cup LeaseOps : Busy(q) /\ ConnOf(q) = d}
    BY DEF Holders, Busy
  <2>2. \A d : Holders(d)' = IF d = c THEN Holders(d) \ {p} ELSE Holders(d)
    BY <2>1 DEF Stops, OthersStay
  <2>3. p \in Holders(c)
    BY <2>1 DEF Stops
  <2>4. \A l : LeaseHolders(l)' = IF p \in LeaseOps /\ Via[p] = l THEN LeaseHolders(l) \ {p}
                                                                ELSE LeaseHolders(l)
    BY SMT DEF Stops, OthersStay, LeaseHolders
  <2>5. \A l : p \in LeaseOps /\ Via[p] = l => p \in LeaseHolders(l)
    BY DEF Stops, LeaseHolders
  <2>6. \A S : IsFiniteSet(S) /\ p \in S =>
           /\ IsFiniteSet(S \ {p}) /\ Cardinality(S \ {p}) = Cardinality(S) - 1
    BY DEF Counting, CountRemove
  <2>7. /\ \A d \in Conns : IsFiniteSet(Holders(d)) /\ Cardinality(Holders(d)) \in Nat
        /\ \A l \in Leases : IsFiniteSet(LeaseHolders(l)) /\ Cardinality(LeaseHolders(l)) \in Nat
    BY DEF Counting, CountNat, Inv, LoadInv, FinitelyBusy
  <2> USE <2>7
  <2>8. \A d \in Conns : /\ IsFiniteSet(Holders(d)')
                         /\ Cardinality(Holders(d)') =
                               IF d = c THEN Cardinality(Holders(d)) - 1
                                        ELSE Cardinality(Holders(d))
    <3> TAKE d \in Conns
    <3>1. CASE d = c
      BY <2>2, <2>3, <2>6, <3>1
    <3>2. CASE d # c
      BY <2>2, <3>2
    <3> QED
      BY <3>1, <3>2
  <2>9. \A l \in Leases : /\ IsFiniteSet(LeaseHolders(l)')
                          /\ Cardinality(LeaseHolders(l)') =
                               IF p \in LeaseOps /\ Via[p] = l THEN Cardinality(LeaseHolders(l)) - 1
                                                               ELSE Cardinality(LeaseHolders(l))
    <3> TAKE l \in Leases
    <3>1. CASE p \in LeaseOps /\ Via[p] = l
      BY <2>4, <2>5, <2>6, <3>1
    <3>2. CASE ~(p \in LeaseOps /\ Via[p] = l)
      BY <2>4, <3>2
    <3> QED
      BY <3>1, <3>2
  <2>10. \A d \in Conns : Holders(d)' \subseteq Holders(d)
    BY <2>2
  <2> QED
    BY <2>8, <2>9, <2>10 DEF FinitelyBusy
\* A connection that carries nothing has no holders.
<1>IdleUnheld. \A c \in Conns : conn[c].inFlight = 0 => Holders(c) = {}
  BY <1>Counted
     DEF Counting, CountEmpty, Inv, LoadInv, FinitelyBusy, InFlightExact
\* Every lease is exclusive when each is.
<1>ExclusiveEach.
    /\ LeaseExclusive => \A l \in Leases : ExclusiveFor(l)
    /\ (\A l \in Leases : ExclusiveFor(l)') => LeaseExclusive'
  <2>1. LeaseExclusive => \A l \in Leases : ExclusiveFor(l)
    BY DEF LeaseExclusive, ExclusiveFor, Holders, Busy
  <2>2. (\A l \in Leases : ExclusiveFor(l)') => LeaseExclusive'
    BY DEF LeaseExclusive, ExclusiveFor, Holders, Busy
  <2> QED
    BY <2>1, <2>2
\* The lease that acquire grants is the only claim on its connection, and the
\* operation it grants goes to a connection without one.
<1>GrantedLoad.
    ASSUME NEW a \in Callers, Acquire(a), NEW c \in Conns, Granted(a, c)
    PROVE  CapacityOK'
  <2> USE <1>GrantedLoad
  <2>1. PICK s \in PooledConnection : GrantEffect(a, c, s)
    BY GrantedTakes
  <2>2. /\ a \in Procs /\ a \notin LeaseOps /\ UNCHANGED leaseFlight
        /\ pc[a] \in {"idle", "loop"}
        /\ pc' = [pc EXCEPT ![a] = "held"] /\ on' = [on EXCEPT ![a] = c]
    BY PoolAssumption DEF Acquire, Granted, leaseVars, Procs
  <2>3. /\ \A q \in Procs : q # a => pc'[q] = pc[q] /\ on'[q] = on[q]
        /\ pc'[a] = "held" /\ on'[a] = c
    BY <2>2 DEF Inv, TypeOK, ProcType
  <2>4. Ops \subseteq Procs /\ LeaseOps \subseteq Procs /\ Leases \subseteq Procs /\ Via \in [LeaseOps -> Leases]
    BY PoolAssumption DEF Procs, Callers
  <2>5. \A q \in LeaseOps : Busy(q) => pc[Via[q]] \in {"held", "done"}
    BY DEF Busy, Inv, LoadInv, Placed
  <2>6. OthersStay(a)
    BY <2>2, <2>3, <2>4, <2>5 DEF OthersStay, Busy, ConnOf
  <2>7. ~conn[c].broken /\ ~conn[c].leased /\ (a \in Leases => conn[c].inFlight = 0)
    BY SelectableUsable DEF Granted, Usable
  <2>8. \A l \in Leases : InForce(l) => on[l] # c /\ on[l] \in Conns
    BY <2>7, <1>InForceOn DEF Inv, LoadInv, LeaseExclusive
  <2>9. \A l \in Leases : l # a => (InForce(l)' <=> InForce(l)) /\ on'[l] = on[l]
    BY <2>2, <2>3, <2>4 DEF InForce
  <2>10. /\ \A d \in Conns : d # c => conn'[d] = conn[d]
         /\ conn'[c] = s
    BY <2>1 DEF GrantEffect, Inv, TypeOK, ConnType
  <2>11. /\ s.broken = conn[c].broken /\ (s.leased <=> a \in Leases)
         /\ s.inFlight = IF a \in Leases THEN conn[c].inFlight ELSE conn[c].inFlight + 1
    BY <2>1 DEF GrantEffect
  <2>12. \A d \in Conns : conn'[d].broken => ~conn'[d].leased
    BY <2>7, <2>10, <2>11 DEF Inv, LoadInv
  <2>13. CASE a \in Leases
    <3>1. \A q \in Ops \cup LeaseOps : q # a
      BY <2>2, <2>13, PoolAssumption
    <3>2. /\ \A d : Holders(d)' = Holders(d)
          /\ \A l : LeaseHolders(l)' = LeaseHolders(l)
      BY <2>6, <3>1 DEF OthersStay, Holders, LeaseHolders, Busy
    <3>3. FinitelyBusy'
      BY <3>2 DEF Inv, LoadInv, FinitelyBusy
    <3>4. InFlightExact'
      BY <2>2, <2>10, <2>11, <2>13, <3>2, Counts DEF Inv, LoadInv
    <3>5. Holders(c)' = {}
      BY <2>7, <2>13, <3>2, <1>IdleUnheld
    <3>6. LeaseExclusive'
      <4> SUFFICES ASSUME NEW l \in Leases PROVE ExclusiveFor(l)'
        BY <1>ExclusiveEach
      <4>1. CASE l = a
        <5>1. \A q \in Ops \cup LeaseOps : ~(Busy(q)' /\ ConnOf(q)' = c)
          BY <3>5 DEF Holders, Busy
        <5> QED
          BY <2>3, <2>8, <2>9, <2>10, <2>11, <2>13, <4>1, <5>1
             DEF ExclusiveFor
      <4>2. CASE l # a
        <5>1. ExclusiveFor(l)
          BY <1>ExclusiveEach DEF Inv, LoadInv
        <5>2. \A q \in Ops \cup LeaseOps : /\ Busy(q)' <=> Busy(q)
                                           /\ Busy(q) => ConnOf(q)' = ConnOf(q)
          BY <2>6, <3>1 DEF OthersStay
        <5>3. on'[l] = on[l] /\ (InForce(l)' <=> InForce(l))
          BY <2>9, <4>2
        <5>4. InForce(l) => conn'[on[l]] = conn[on[l]]
          BY <2>8, <2>10
        <5>5. InForce(l) => \A m \in Leases : InForce(m)' /\ on'[m] = on[l] => m = l
          BY <2>3, <2>8, <2>9, <5>1 DEF ExclusiveFor
        <5> QED
          BY <5>1, <5>2, <5>3, <5>4, <5>5 DEF ExclusiveFor
      <4> QED
        BY <4>1, <4>2
    <3> QED
      BY <2>12, <3>3, <3>4, <3>6 DEF CapacityOK
  <2>14. CASE a \notin Leases
    <3> USE <2>14
    <3>1. a \in Ops /\ \A l \in Leases : l # a
      BY DEF Callers
    <3>2. Starts(a, c)
      BY <2>2, <2>3, <2>6 DEF Starts, Busy, ConnOf
    <3>3. FinitelyBusy'
      BY <3>1, <3>2, <1>StartCounts
    <3>4. InFlightExact'
      <4>1. /\ \A d \in Conns : Cardinality(Holders(d)') =
                  IF d = c THEN Cardinality(Holders(d)) + 1
                           ELSE Cardinality(Holders(d))
            /\ \A l \in Leases : Cardinality(LeaseHolders(l)') =
                  IF a \in LeaseOps /\ Via[a] = l THEN Cardinality(LeaseHolders(l)) + 1
                                                  ELSE Cardinality(LeaseHolders(l))
        BY <3>1, <3>2, <1>StartCounts
      <4>2. /\ \A d \in Conns : conn[d].inFlight = Cardinality(Holders(d)) /\ conn[d].inFlight \in Int
            /\ \A l \in Leases : leaseFlight[l] = Cardinality(LeaseHolders(l)) /\ leaseFlight[l] \in Int
        BY <1>Counted
      <4>3. \A l \in Leases : leaseFlight'[l] = Cardinality(LeaseHolders(l)')
        BY <2>2, <4>1, <4>2
      <4>4. \A d \in Conns : conn'[d].inFlight = Cardinality(Holders(d)')
        BY <2>10, <2>11, <4>1, <4>2
      <4> QED
        BY <4>3, <4>4, Counts
    <3>5. LeaseExclusive'
      <4> SUFFICES ASSUME NEW l \in Leases PROVE ExclusiveFor(l)'
        BY <1>ExclusiveEach
      <4>1. ExclusiveFor(l)
        BY <1>ExclusiveEach DEF Inv, LoadInv
      <4>2. InForce(l) => \A q \in Ops \cup LeaseOps : Busy(q)' /\ ConnOf(q)' = on[l] =>
                             Busy(q) /\ ConnOf(q) = on[l]
        BY <2>8, <3>2 DEF Starts, OthersStay
      <4>3. InForce(l) => conn'[on[l]] = conn[on[l]]
        BY <2>8, <2>10
      <4> QED
        BY <2>9, <3>1, <4>1, <4>2, <4>3 DEF ExclusiveFor
    <3> QED
      BY <2>12, <3>3, <3>4, <3>5 DEF CapacityOK
  <2> QED
    BY <2>13, <2>14
\* acquireOperation's grant goes to the connection of its own lease.
<1>LeaseGrantsLoad.
    ASSUME NEW p \in LeaseOps, LeaseAcquire(p), LeaseGrants(p)
    PROVE  CapacityOK'
  <2> USE <1>LeaseGrantsLoad
  <2> DEFINE l == Via[p]
             c == on[l]
  <2>1. l \in Leases /\ pc[l] = "held" /\ c \in Conns
    BY LeaseGrantsTakes
  <2>2. PICK s \in PooledConnection : LeaseGrantEffect(c, s)
    BY LeaseGrantsTakes
  <2>3. /\ pc[p] \in {"idle", "loop"} /\ UNCHANGED on /\ p \in Procs
        /\ pc' = [pc EXCEPT ![p] = "held"]
        /\ leaseFlight' = [leaseFlight EXCEPT ![l] = @ + 1]
    BY DEF LeaseAcquire, LeaseGrants, Procs
  <2>4. ConnOf(p) = c
    BY DEF ConnOf
  <2> HIDE DEF c, l
  <2>5. /\ \A q \in Procs : q # p => pc'[q] = pc[q]
        /\ pc'[p] = "held"
    BY <2>3 DEF Inv, TypeOK, ProcType
  <2>6. Ops \subseteq Procs /\ LeaseOps \subseteq Procs /\ Leases \subseteq Procs /\ p \notin Leases
    BY PoolAssumption DEF Procs, Callers
  <2>7. Starts(p, c)
    BY <2>3, <2>4, <2>5, <2>6 DEF Starts, OthersStay, Busy, ConnOf
  <2>8. /\ \A d \in Conns : d # c => conn'[d] = conn[d]
        /\ conn'[c] = s
    BY <2>1, <2>2 DEF LeaseGrantEffect, Inv, TypeOK, ConnType
  <2>9. s.broken = conn[c].broken /\ s.leased = conn[c].leased /\ s.inFlight = conn[c].inFlight + 1
    BY <2>2 DEF LeaseGrantEffect
  <2>10. \A d \in Conns : conn'[d].broken => ~conn'[d].leased
    BY <2>8, <2>9 DEF Inv, LoadInv
  <2>11. FinitelyBusy'
    BY <2>1, <2>7, <1>StartCounts
  <2>12. InFlightExact'
    <3>1. /\ \A d \in Conns : Cardinality(Holders(d)') =
                IF d = c THEN Cardinality(Holders(d)) + 1
                         ELSE Cardinality(Holders(d))
          /\ \A m \in Leases : Cardinality(LeaseHolders(m)') =
                IF p \in LeaseOps /\ Via[p] = m THEN Cardinality(LeaseHolders(m)) + 1
                                                ELSE Cardinality(LeaseHolders(m))
      BY <2>1, <2>7, <1>StartCounts
    <3>2. /\ \A d \in Conns : conn[d].inFlight = Cardinality(Holders(d)) /\ conn[d].inFlight \in Int
          /\ \A m \in Leases : leaseFlight[m] = Cardinality(LeaseHolders(m)) /\ leaseFlight[m] \in Int
      BY <1>Counted
    <3>3. \A m \in Leases : leaseFlight'[m] = IF m = l THEN leaseFlight[m] + 1
                                                       ELSE leaseFlight[m]
      BY <2>1, <2>3 DEF Inv, TypeOK, LeaseType
    <3>4. \A m \in Leases : leaseFlight'[m] = Cardinality(LeaseHolders(m)')
      BY <3>1, <3>2, <3>3 DEF l
    <3>5. \A d \in Conns : conn'[d].inFlight = Cardinality(Holders(d)')
      BY <2>8, <2>9, <3>1, <3>2
    <3> QED
      BY <3>4, <3>5, Counts
  <2>13. LeaseExclusive'
    <3>1. InForce(l) /\ pc'[l] = "held"
      BY <2>1, <2>5, <2>6 DEF InForce
    <3>2. \A m \in Leases : InForce(m)' <=> InForce(m)
      <4> TAKE m \in Leases
      <4>1. CASE m = l
        BY <3>1, <4>1 DEF InForce
      <4>2. CASE m # l
        BY <2>1, <2>3, <2>5, <2>6, <4>2 DEF InForce, Inv, TypeOK, LeaseType
      <4> QED
        BY <4>1, <4>2
    <3>3. \A m \in Leases : InForce(m) /\ m # l => on[m] # c /\ on[m] \in Conns
      BY <2>1, <3>1, <1>InForceOn DEF Inv, LoadInv, LeaseExclusive, c
    <3> SUFFICES ASSUME NEW m \in Leases PROVE ExclusiveFor(m)'
      BY <1>ExclusiveEach
    <3>4. ExclusiveFor(m)
      BY <1>ExclusiveEach DEF Inv, LoadInv
    <3>5. CASE m = l
      <4> USE <3>5
      <4>1. \A q \in Ops \cup LeaseOps : Busy(q)' /\ ConnOf(q)' = c =>
               q = p \/ (Busy(q) /\ ConnOf(q) = c)
        BY <2>7 DEF Starts, OthersStay
      <4>2. p \in LeaseOps /\ Via[p] = l
        BY DEF l
      <4>3. on[m] = c /\ on'[m] = c
        BY <2>3 DEF c
      <4> QED
        BY <2>3, <2>8, <2>9, <2>1, <3>2, <3>4, <4>1, <4>2, <4>3
           DEF ExclusiveFor
    <3>6. CASE m # l
      <4> USE <3>6
      <4>1. InForce(m) => \A q \in Ops \cup LeaseOps : Busy(q)' /\ ConnOf(q)' = on[m] =>
                             Busy(q) /\ ConnOf(q) = on[m]
        BY <2>7, <3>3 DEF Starts, OthersStay
      <4>2. InForce(m) => conn'[on[m]] = conn[on[m]]
        BY <2>8, <3>3
      <4> QED
        BY <2>3, <3>2, <3>4, <4>1, <4>2 DEF ExclusiveFor
    <3> QED
      BY <3>5, <3>6
  <2> QED
    BY <2>10, <2>11, <2>12, <2>13 DEF CapacityOK
\* A release takes the lease off its connection only with the last operation of
\* a closed lease.
<1>ReleaseLoad.
    ASSUME NEW p \in Ops \cup LeaseOps, Busy(p), ReleaseOf(p),
           NEW v \in {"failed", "done"}, pc' = [pc EXCEPT ![p] = v],
           UNCHANGED on \/ on' = [on EXCEPT ![p] = None]
    PROVE  CapacityOK'
  <2> USE <1>ReleaseLoad
  <2>1. PICK c \in Conns : c = ConnOf(p)
    BY HolderDialed
  <2>2. PICK r \in PooledConnection, retire \in BOOLEAN : ReleaseEffect(p, c, r, retire)
    BY <2>1, ReleaseTakes
  <2>3. /\ p \in Procs /\ Ops \subseteq Procs /\ LeaseOps \subseteq Procs
        /\ Leases \subseteq Procs /\ p \notin Leases /\ Via \in [LeaseOps -> Leases]
    BY PoolAssumption DEF Procs, Callers
  <2>4. /\ \A q \in Procs : q # p => pc'[q] = pc[q] /\ on'[q] = on[q]
        /\ pc'[p] \in {"failed", "done"}
    BY <2>3 DEF Inv, TypeOK, ProcType
  <2>5. Stops(p, c)
    BY <2>1, <2>3, <2>4, SMT DEF Stops, OthersStay, Busy, ConnOf
  <2>6. Settle(c, r, retire)
    BY <2>2 DEF ReleaseEffect
  <2>7. PICK s \in PooledConnection : SettleEffect(c, r, retire, s)
    BY <2>1, <2>6, SettleTakes
  <2>8. /\ \A d \in Conns : d # c => conn'[d] = conn[d]
        /\ conn'[c] = s
    BY <2>1, <2>7 DEF SettleEffect, Inv, TypeOK, ConnType
  <2>9. /\ s.broken = conn[c].broken /\ s.inFlight = conn[c].inFlight - 1
        /\ s.leased <=> /\ conn[c].leased
                        /\ ~(p \in LeaseOps /\ s.inFlight = 0 /\ Via[p] \in leaseClosed)
    BY <2>2, <2>7 DEF ReleaseEffect, SettleEffect
  <2>10. leaseFlight' = IF p \in LeaseOps THEN [leaseFlight EXCEPT ![Via[p]] = @ - 1]
                                          ELSE leaseFlight
    BY <2>2 DEF ReleaseEffect
  <2>11. \A d \in Conns : conn'[d].broken => ~conn'[d].leased
    BY <2>8, <2>9 DEF Inv, LoadInv
  <2>12. FinitelyBusy'
    BY <2>1, <2>5, <1>StopCounts
  <2>13. /\ \A d \in Conns : conn[d].inFlight = Cardinality(Holders(d)) /\ conn[d].inFlight \in Int
         /\ \A m \in Leases : leaseFlight[m] = Cardinality(LeaseHolders(m)) /\ leaseFlight[m] \in Int
    BY <1>Counted
  <2>14. \A m \in Leases : leaseFlight'[m] =
            IF p \in LeaseOps /\ Via[p] = m THEN leaseFlight[m] - 1
                                            ELSE leaseFlight[m]
    BY <2>3, <2>10 DEF Inv, TypeOK, LeaseType
  <2>15. InFlightExact'
    <3>1. /\ \A d \in Conns : Cardinality(Holders(d)') =
                IF d = c THEN Cardinality(Holders(d)) - 1
                         ELSE Cardinality(Holders(d))
          /\ \A m \in Leases : Cardinality(LeaseHolders(m)') =
                IF p \in LeaseOps /\ Via[p] = m THEN Cardinality(LeaseHolders(m)) - 1
                                                ELSE Cardinality(LeaseHolders(m))
      BY <2>1, <2>5, <1>StopCounts
    <3>2. \A m \in Leases : leaseFlight'[m] = Cardinality(LeaseHolders(m)')
      BY <2>13, <2>14, <3>1
    <3>3. \A d \in Conns : conn'[d].inFlight = Cardinality(Holders(d)')
      BY <2>8, <2>9, <2>13, <3>1
    <3> QED
      BY <3>2, <3>3, Counts
  <2>16. LeaseExclusive'
    <3> SUFFICES ASSUME NEW m \in Leases, InForce(m)' PROVE ExclusiveFor(m)'
      BY <1>ExclusiveEach DEF ExclusiveFor
    <3>1. \A k \in Leases : (InForce(k)' => InForce(k)) /\ pc'[k] = pc[k] /\ on'[k] = on[k]
      <4> SUFFICES ASSUME NEW k \in Leases
                   PROVE  (InForce(k)' => InForce(k)) /\ pc'[k] = pc[k] /\ on'[k] = on[k]
        OBVIOUS
      <4>1. pc'[k] = pc[k] /\ on'[k] = on[k]
        BY <2>3, <2>4
      <4>2. leaseFlight[k] \in Int /\ leaseFlight'[k] \in {leaseFlight[k], leaseFlight[k] - 1}
        BY <2>13, <2>14
      <4>3. leaseFlight'[k] > 0 => leaseFlight[k] > 0
        BY <4>2, SMT
      <4> QED
        BY <4>1, <4>3 DEF InForce
    <3>2. InForce(m) /\ ExclusiveFor(m) /\ on[m] \in Conns
      BY <3>1, <1>ExclusiveEach, <1>InForceOn DEF Inv, LoadInv
    <3>3. \A q \in Ops \cup LeaseOps : Busy(q)' => Busy(q) /\ ConnOf(q)' = ConnOf(q)
      BY <2>5 DEF Stops, OthersStay
    <3>4. conn'[on[m]].leased \/ conn'[on[m]].broken
      <4>1. CASE on[m] # c
        BY <2>8, <3>2, <4>1 DEF ExclusiveFor
      <4>2. CASE on[m] = c
        <5> USE <4>2
        <5>1. p \in LeaseOps /\ Via[p] = m
          BY <2>1, <3>2 DEF ExclusiveFor
        <5>2. ASSUME s.inFlight = 0, m \in leaseClosed PROVE FALSE
          <6> USE <5>2
          <6>1. pc[m] = "done" /\ leaseFlight'[m] > 0
            BY <3>1 DEF InForce, Inv, LoadInv, Placed
          <6>2. Cardinality(LeaseHolders(m)') > 0
            BY <2>15, <6>1, Counts
          <6>3. LeaseHolders(m)' # {}
            BY <6>2, SMT DEF Counting, CountEmpty
          <6>4. PICK q \in LeaseOps : Via[q] = m /\ Busy(q)'
            BY <6>3 DEF LeaseHolders
          <6>5. ConnOf(q)' = c
            BY <3>1, <6>4 DEF ConnOf
          <6>6. q \in Holders(c)'
            BY <6>4, <6>5 DEF Holders, Busy
          <6>7. conn'[c].inFlight = 0
            BY <2>8
          <6>8. conn'[c].inFlight = Cardinality(Holders(c)')
            BY <2>1, <2>15, Counts
          <6>9. IsFiniteSet(Holders(c)')
            BY <2>1, <2>12 DEF FinitelyBusy
          <6>10. \A S : IsFiniteSet(S) /\ Cardinality(S) = 0 => S = {}
            BY DEF Counting, CountEmpty
          <6> QED
            BY <6>6, <6>7, <6>8, <6>9, <6>10
        <5> QED
          BY <2>8, <2>9, <3>2, <5>1, <5>2, <2>1 DEF ExclusiveFor
      <4> QED
        BY <4>1, <4>2
    <3> QED
      BY <3>1, <3>2, <3>3, <3>4 DEF ExclusiveFor
  <2> QED
    BY <2>11, <2>12, <2>15, <2>16 DEF CapacityOK
\* Lease.Close leaves the connection leased while operations of the lease run.
<1>LeaseCloseLoad.
    ASSUME NEW l \in Leases, LeaseClose(l)
    PROVE  CapacityOK'
  <2> USE <1>LeaseCloseLoad
  <2> DEFINE c == on[l]
  <2>1. c \in Conns
    BY LeaseCloseTakes
  <2>2. PICK r \in PooledConnection, retire \in BOOLEAN : LeaseCloseEffect(l, r, retire)
    BY LeaseCloseTakes
  <2>3. /\ l \in Procs /\ Ops \subseteq Procs /\ LeaseOps \subseteq Procs
        /\ Leases \subseteq Procs /\ l \notin Ops \cup LeaseOps
    BY PoolAssumption DEF Procs, Callers
  <2>4. /\ pc[l] = "held" /\ UNCHANGED <<on, leaseFlight>> /\ pc' = [pc EXCEPT ![l] = "done"]
        /\ Settle(c, r, retire)
    BY <2>2 DEF LeaseClose, LeaseCloseEffect
  <2>5. /\ \A q \in Procs : q # l => pc'[q] = pc[q]
        /\ pc'[l] = "done"
    BY <2>3, <2>4 DEF Inv, TypeOK, ProcType
  <2>6. \A q \in Ops \cup LeaseOps : (Busy(q)' <=> Busy(q)) /\ ConnOf(q)' = ConnOf(q)
    BY <2>3, <2>4, <2>5 DEF Busy, ConnOf
  <2>7. PICK s \in PooledConnection : SettleEffect(c, r, retire, s)
    BY <2>1, <2>4, SettleTakes
  <2>8. /\ s.broken = conn[c].broken /\ s.inFlight = conn[c].inFlight
        /\ s.leased <=> conn[c].leased /\ leaseFlight[l] # 0
    BY <2>2, <2>7 DEF LeaseCloseEffect, SettleEffect
  <2> HIDE DEF c
  <2>9. /\ \A d \in Conns : d # c => conn'[d] = conn[d]
        /\ conn'[c] = s
    BY <2>1, <2>7 DEF SettleEffect, Inv, TypeOK, ConnType
  <2>10. \A d \in Conns : conn'[d].broken => ~conn'[d].leased
    BY <2>8, <2>9 DEF Inv, LoadInv
  <2>11. /\ \A d : Holders(d)' = Holders(d)
         /\ \A m : LeaseHolders(m)' = LeaseHolders(m)
    BY <2>6 DEF Holders, LeaseHolders, Busy
  <2>12. FinitelyBusy'
    BY <2>11 DEF Inv, LoadInv, FinitelyBusy
  <2>13. InFlightExact'
    BY <2>4, <2>8, <2>9, <2>11, Counts DEF Inv, LoadInv
  <2>14. LeaseExclusive'
    <3> SUFFICES ASSUME NEW m \in Leases, InForce(m)' PROVE ExclusiveFor(m)'
      BY <1>ExclusiveEach DEF ExclusiveFor
    <3>1. \A k \in Leases : InForce(k)' => InForce(k)
      BY <2>3, <2>4, <2>5 DEF InForce
    <3>2. InForce(m) /\ ExclusiveFor(m) /\ on[m] \in Conns
      BY <3>1, <1>ExclusiveEach, <1>InForceOn DEF Inv, LoadInv
    <3> USE <3>2
    <3>3. conn'[on[m]].leased \/ conn'[on[m]].broken
      <4>1. CASE m = l
        <5> USE <4>1
        <5>1. leaseFlight[l] # 0
          BY <2>4, <2>5, SMT DEF InForce, Inv, TypeOK, LeaseType
        <5> QED
          BY <2>8, <2>9, <5>1, <2>1 DEF ExclusiveFor, c
      <4>2. CASE m # l
        <5>1. InForce(l)
          BY <2>4 DEF InForce
        <5>2. on[m] # c
          BY <4>2, <5>1 DEF ExclusiveFor, c
        <5> QED
          BY <2>9, <5>2 DEF ExclusiveFor
      <4> QED
        BY <4>1, <4>2
    <3> QED
      BY <2>4, <2>6, <3>1, <3>3 DEF ExclusiveFor
  <2> QED
    BY <2>10, <2>12, <2>13, <2>14 DEF CapacityOK
\* A broken connection is no longer leased.
<1>WatchDoneLoad.
    ASSUME NEW c \in Conns, WatchDone(c)
    PROVE  CapacityOK'
  <2> USE <1>WatchDoneLoad
  <2>1. PICK s \in PooledConnection : WatchDoneEffect(c, s)
    BY WatchDoneTakes
  <2>2. UNCHANGED <<pc, on, leaseFlight>>
    BY DEF WatchDone, procVars, leaseVars
  <2>3. s.broken /\ ~s.leased /\ s.inFlight = conn[c].inFlight
    BY <2>1 DEF WatchDoneEffect
  <2>4. /\ \A d \in Conns : d # c => conn'[d] = conn[d]
        /\ conn'[c] = s
    BY <2>1 DEF WatchDoneEffect, Inv, TypeOK, ConnType
  <2>5. \A d \in Conns : conn'[d].broken => ~conn'[d].leased
    BY <2>3, <2>4 DEF Inv, LoadInv
  <2>6. \A q \in Ops \cup LeaseOps : (Busy(q)' <=> Busy(q)) /\ ConnOf(q)' = ConnOf(q)
    BY <2>2 DEF Busy, ConnOf
  <2>7. /\ \A d : Holders(d)' = Holders(d)
        /\ \A m : LeaseHolders(m)' = LeaseHolders(m)
    BY <2>6 DEF Holders, LeaseHolders, Busy
  <2>8. FinitelyBusy'
    BY <2>7 DEF Inv, LoadInv, FinitelyBusy
  <2>9. InFlightExact'
    BY <2>2, <2>3, <2>4, <2>7, Counts DEF Inv, LoadInv
  <2>10. LeaseExclusive'
    <3> SUFFICES ASSUME NEW m \in Leases, InForce(m)' PROVE ExclusiveFor(m)'
      BY <1>ExclusiveEach DEF ExclusiveFor
    <3>1. \A k \in Leases : InForce(k)' <=> InForce(k)
      BY <2>2 DEF InForce
    <3>2. InForce(m) /\ ExclusiveFor(m) /\ on[m] \in Conns
      BY <3>1, <1>ExclusiveEach, <1>InForceOn DEF Inv, LoadInv
    <3>3. conn'[on[m]].leased \/ conn'[on[m]].broken
      BY <2>3, <2>4, <3>2 DEF ExclusiveFor
    <3> QED
      BY <2>2, <2>6, <3>1, <3>2, <3>3 DEF ExclusiveFor
  <2> QED
    BY <2>5, <2>8, <2>9, <2>10 DEF CapacityOK
<1>1. UNCHANGED <<conn, pc, on, leaseFlight>> => CapacityOK'
  BY <1>StillLoad DEF ConnLoadKept
<1>2. ASSUME NEW a \in Callers, Acquire(a) PROVE CapacityOK'
  <2> USE <1>2
  <2>1. /\ a \in Procs /\ UNCHANGED leaseFlight /\ pc[a] \notin {"held", "open", "done"}
    BY DEF Acquire, Procs, leaseVars
  <2>2. ASSUME UNCHANGED conn,
               \E v : v \notin {"held", "open"} /\ pc' = [pc EXCEPT ![a] = v] /\ UNCHANGED on
        PROVE  CapacityOK'
    BY <2>1, <2>2, <1>MoveLoad DEF ConnLoadKept
  <2>3. (Refused(a) \/ Waits(a) \/ \E e \in Endpoints : Dials(a, e)) => CapacityOK'
    BY <2>2 DEF Refused, Dials, Waits, Enqueue
  <2> QED
    BY <2>3, AcquireTakes, <1>GrantedLoad
<1>3. ASSUME NEW p \in Procs, Wake(p) PROVE CapacityOK'
  <2> USE <1>3
  <2>1. /\ p \in Procs /\ UNCHANGED leaseFlight /\ ConnLoadKept
        /\ pc[p] \notin {"held", "open", "done"}
    BY DEF Wake, Procs, connVars, leaseVars, ConnLoadKept
  <2> QED
    BY <2>1, <1>MoveLoad DEF Wake
<1>4. ASSUME NEW p \in Procs, WaitEnds(p) PROVE CapacityOK'
  <2> USE <1>4
  <2>1. /\ p \in Procs /\ UNCHANGED leaseFlight /\ ConnLoadKept
        /\ pc[p] \notin {"held", "open", "done"}
    BY DEF WaitEnds, Procs, connVars, leaseVars, ConnLoadKept
  <2> QED
    BY <2>1, <1>MoveLoad DEF WaitEnds
<1>5. ASSUME NEW a \in Callers, AcquireWatch(a) PROVE CapacityOK'
  <2> USE <1>5
  <2>1. /\ a \in Procs /\ UNCHANGED leaseFlight /\ ConnLoadKept
        /\ pc[a] \notin {"held", "open", "done"}
    BY DEF AcquireWatch, Procs, connVars, leaseVars, ConnLoadKept
  <2> QED
    BY <2>1, <1>MoveLoad DEF AcquireWatch
<1>6. ASSUME NEW a \in Callers, AcquireReplace(a) PROVE CapacityOK'
  <2> USE <1>6
  <2>1. /\ a \in Procs /\ UNCHANGED <<on, leaseFlight>> /\ ConnLoadKept
        /\ pc[a] \notin {"held", "open", "done"}
    BY DEF AcquireReplace, Procs, connVars, leaseVars, ConnLoadKept
  <2>2. \E v : v \notin {"held", "open"} /\ pc' = [pc EXCEPT ![a] = v]
    BY DEF AcquireReplace
  <2> QED
    BY <2>1, <2>2, <1>MoveLoad
<1>7. ASSUME NEW a \in Callers, AcquireDialed(a) PROVE CapacityOK'
  <2> USE <1>7
  <2>1. /\ a \in Procs /\ UNCHANGED leaseFlight /\ pc[a] \notin {"held", "open", "done"}
    BY DEF AcquireDialed, Procs, leaseVars
  <2>2. /\ \E c, ok : DialEnds(target[a], c, ok)
        /\ \E v : v \notin {"held", "open"} /\ pc' = [pc EXCEPT ![a] = v]
        /\ UNCHANGED on \/ \E c : on' = [on EXCEPT ![a] = c]
    BY DEF AcquireDialed
  <2>3. ConnLoadKept
    BY <2>2, DialEndsLoad
  <2> QED
    BY <2>1, <2>2, <2>3, <1>MoveLoad
<1>8. ASSUME NEW a \in Callers, AcquireDiscard(a) PROVE CapacityOK'
  <2> USE <1>8
  <2>1. /\ a \in Procs /\ UNCHANGED leaseFlight /\ pc[a] \notin {"held", "open", "done"}
        /\ CloseConn(on[a])
    BY DEF AcquireDiscard, Procs, leaseVars
  <2>2. ConnLoadKept
    BY <2>1, CloseConnLoad
  <2> QED
    BY <2>1, <2>2, <1>MoveLoad DEF AcquireDiscard
<1>9. ASSUME NEW p \in LeaseOps, LeaseAcquire(p) PROVE CapacityOK'
  <2> USE <1>9
  <2>1. LeaseGrants(p) => CapacityOK'
    BY <1>LeaseGrantsLoad
  <2>2. CASE LeaseRefuses(p) \/ LeaseWaits(p)
    <3>1. /\ p \in Procs /\ UNCHANGED on /\ pc[p] \notin {"held", "open", "done"}
      BY DEF LeaseAcquire, Procs
    <3>2. /\ UNCHANGED <<conn, leaseFlight>>
          /\ \E v : v \notin {"held", "open"} /\ pc' = [pc EXCEPT ![p] = v]
      BY <2>2 DEF LeaseRefuses, LeaseWaits, Enqueue
    <3> QED
      BY <3>1, <3>2, <1>MoveLoad DEF ConnLoadKept
  <2> QED
    BY <2>1, <2>2, LeaseAcquireTakes
<1>10. \A p \in Ops \cup LeaseOps : DoFails(p) => CapacityOK'
  BY <1>ReleaseLoad DEF DoFails, Busy
<1>11. ASSUME NEW p \in Ops \cup LeaseOps, DoStarts(p) PROVE CapacityOK'
  <2>1. /\ pc[p] = "held" /\ pc' = [pc EXCEPT ![p] = "open"]
        /\ UNCHANGED <<on, conn, leaseFlight>>
    BY <1>11 DEF DoStarts, connVars, leaseVars
  <2> USE <2>1
  <2>2. \A q \in Ops \cup LeaseOps : (Busy(q)' <=> Busy(q)) /\ ConnOf(q)' = ConnOf(q)
    BY DEF Busy, ConnOf, Inv, TypeOK, ProcType, Procs, Callers
  <2>3. \A l \in Leases : pc'[l] = pc[l]
    BY PoolAssumption, SMT DEF Inv, TypeOK, ProcType, Procs, Callers
  <2>4. SameLoad
    BY <2>2, <2>3 DEF SameLoad, ConnLoadKept
  <2> QED
    BY <2>4, <1>LoadFrame
<1>12. ASSUME NEW p \in Ops \cup LeaseOps, NEW who \in {"tracker", "consumer"}, ReleaseOnce(p, who)
      PROVE  CapacityOK'
  <2> USE <1>12
  <2>1. p \in ended /\ UNCHANGED on
    BY DEF ReleaseOnce
  <2> USE <2>1
  <2>2. CASE Released(p)
    <3>1. UNCHANGED <<pc, conn, leaseFlight>>
      BY <2>2 DEF ReleaseOnce, Released, connVars
    <3> QED
      BY <3>1, <1>StillLoad DEF ConnLoadKept
  <2>3. CASE ~Released(p)
    <3> USE <2>3
    <3>1. pc' = [pc EXCEPT ![p] = "done"] /\ ReleaseOf(p)
      BY DEF ReleaseOnce, Released
    <3>2. Busy(p)
      BY DEF Busy, Inv, LoadInv, Placed
    <3> QED
      BY <3>1, <3>2, <1>ReleaseLoad
  <2> QED
    BY <2>2, <2>3
<1>13. \A l \in Leases : LeaseClose(l) => CapacityOK'
  BY <1>LeaseCloseLoad
<1>14. \A c \in Conns : WatchDone(c) => CapacityOK'
  BY <1>WatchDoneLoad
<1>15. ASSUME NEW c \in Conns, CloseSoon(c) PROVE CapacityOK'
  <2> USE <1>15
  <2>1. UNCHANGED <<pc, on, leaseFlight>>
    BY DEF CloseSoon, procVars, leaseVars
  <2>2. ConnLoadKept
    BY CloseConnLoad DEF CloseSoon
  <2> QED
    BY <2>1, <2>2, <1>StillLoad
<1>16. ASSUME NEW c \in Conns, ConnFails(c) PROVE CapacityOK'
  <2> USE <1>16
  <2>1. UNCHANGED <<pc, on, leaseFlight>>
    BY DEF ConnFails, procVars, leaseVars
  <2>2. ConnLoadKept
    BY CloseConnLoad DEF ConnFails
  <2> QED
    BY <2>1, <2>2, <1>StillLoad
<1>17. ASSUME NEW e \in Endpoints, ReplaceDialed(e) PROVE CapacityOK'
  <2> USE <1>17
  <2>1. UNCHANGED <<pc, on, leaseFlight>>
    BY DEF ReplaceDialed, procVars, leaseVars
  <2>2. ConnLoadKept
    BY DialEndsLoad DEF ReplaceDialed
  <2> QED
    BY <2>1, <2>2, <1>StillLoad
<1>18. ASSUME NEW e \in Endpoints, ReplaceDiscard(e) PROVE CapacityOK'
  <2> USE <1>18
  <2>1. UNCHANGED <<pc, on, leaseFlight>>
    BY DEF ReplaceDiscard, procVars, leaseVars
  <2>2. ConnLoadKept
    BY CloseConnLoad DEF ReplaceDiscard
  <2> QED
    BY <2>1, <2>2, <1>StillLoad
<1>19. ASSUME RetireExpired PROVE CapacityOK'
  <2> USE <1>19
  <2>1. UNCHANGED <<pc, on, leaseFlight>>
    BY DEF RetireExpired, procVars, leaseVars
  <2>2. PICK gone \in SUBSET AllListed, bare \in SUBSET Endpoints : RetireEffect(gone, bare)
    BY RetireExpiredTakes
  <2>3. \A c \in Conns : conn[c] \in PooledConnection
    BY DEF Inv, TypeOK, ConnType
  <2>4. ConnLoadKept
    BY <2>2, <2>3 DEF RetireEffect, PooledConnection, ConnLoadKept
  <2> QED
    BY <2>1, <2>4, <1>StillLoad
<1>20. ASSUME RetireNext PROVE CapacityOK'
  <2> USE <1>20
  <2>1. UNCHANGED <<pc, on, leaseFlight>>
    BY DEF RetireNext, procVars, leaseVars
  <2>2. ConnLoadKept
    BY RetireNextTakes, CloseConnLoad DEF ClosesOne, ReplacesOne, ConnLoadKept
  <2> QED
    BY <2>1, <2>2, <1>StillLoad
<1>21. ASSUME NEW k \in Closers, CloseAll(k) PROVE CapacityOK'
  <2> USE <1>21
  <2>1. UNCHANGED <<pc, on, leaseFlight>>
    BY DEF CloseAll, procVars, leaseVars
  <2>2. conn' = [c \in Conns |-> [conn[c] EXCEPT !.retiring = @ \/ c \in AllListed]]
    BY DEF CloseAll
  <2>3. \A c \in Conns : conn[c] \in PooledConnection
    BY DEF Inv, TypeOK, ConnType
  <2>4. ConnLoadKept
    BY <2>2, <2>3 DEF PooledConnection, ConnLoadKept
  <2> QED
    BY <2>1, <2>4, <1>StillLoad
<1>22. ASSUME NEW k \in Closers, CloseNext(k) PROVE CapacityOK'
  <2> USE <1>22
  <2>1. UNCHANGED <<pc, on, leaseFlight>>
    BY DEF CloseNext, procVars, leaseVars
  <2>2. ConnLoadKept
    BY CloseConnLoad DEF CloseNext
  <2> QED
    BY <2>1, <2>2, <1>StillLoad
<1>23. CASE \E a \in Callers : AcquireStep(a)
  BY <1>23, <1>2, <1>3, <1>7, <1>5, <1>8, <1>6 DEF AcquireStep, Procs
<1>24. CASE \E p \in LeaseOps : LeaseAcquire(p) \/ Wake(p)
  BY <1>24, <1>9, <1>3 DEF Procs
<1>25. CASE \E p \in Procs : WaitEnds(p)
  BY <1>25, <1>4
<1>26. CASE \E p \in Ops \cup LeaseOps : DoFails(p) \/ DoStarts(p) \/ OperationEnds(p)
  BY <1>26, <1>1, <1>10, <1>11 DEF OperationEnds, connVars, procVars, leaseVars
<1>27. CASE \E p \in Ops \cup LeaseOps, who \in {"tracker", "consumer"} :
              ReleaseOnce(p, who)
  BY <1>27, <1>12
<1>28. CASE \E l \in Leases : LeaseClose(l)
  BY <1>28, <1>13
<1>29. CASE \E c \in Conns : WatchStep(c) \/ ConnFails(c)
  BY <1>29, <1>1, <1>14, <1>15, <1>16
     DEF WatchStep, WatchReplace, connVars, procVars, leaseVars
<1>30. CASE \E e \in Endpoints : ReplaceStep(e) \/ BackoffEnds(e)
  BY <1>30, <1>1, <1>17, <1>18
     DEF ReplaceStep, ReplaceLoop, ReplaceWake, ReplaceWatch, ReplaceExit,
         BackoffEnds, connVars, procVars, leaseVars
<1>31. CASE RetireExpired \/ RetireNext \/ MaintainExit
  BY <1>31, <1>1, <1>19, <1>20 DEF MaintainExit, connVars, procVars, leaseVars
<1>32. CASE \E k \in Closers : CloseBegin(k) \/ CloseStep(k)
  BY <1>32, <1>1, <1>21, <1>22
     DEF CloseStep, CloseBegin, CloseDrain, CloseWake, CloseTimeout,
         CloseFinish, connVars, procVars, leaseVars
<1>33. CASE \E p \in Procs \cup Closers : ContextDone(p)
  BY <1>33, <1>1 DEF ContextDone, connVars, procVars, leaseVars
<1> QED
  BY <1>23, <1>24, <1>25, <1>26, <1>27, <1>28, <1>29, <1>30, <1>31, <1>32, <1>33
     DEF Next

-----------------------------------------------------------------------------
(***************************************************************************)
(* The waiting calls.                                                      *)
(***************************************************************************)

QueueOK ==
    /\ waiters \in 0..MaxWaiters
    /\ exactWaiters \in [Endpoints -> 0..MaxWaiters]
    /\ registered \subseteq Procs
    /\ QueueCounted

\* Pool.waiters and endpointState.waiters stay exact and within MaxWaiters.
LEMMA QueueStep ==
    ASSUME Inv, Next, Counting
    PROVE  QueueOK'
\* A queue that is counted and within MaxWaiters has the counters' types.
<1> USE Zenon
<1>QueueFromCount.
    ASSUME registered' \subseteq Procs, IsFiniteSet(registered'),
           waiters' = Cardinality(registered'), waiters' <= MaxWaiters,
           exactWaiters' = [e \in Endpoints |-> Cardinality(ExactOnly(e)')]
    PROVE  QueueOK'
  <2> USE <1>QueueFromCount
  <2>1. \A e \in Endpoints : ExactOnly(e)' \subseteq registered'
    BY DEF ExactOnly
  <2>2. waiters' \in Nat /\ MaxWaiters \in Nat
    BY PoolAssumption DEF Counting, CountNat
  <2>3. ASSUME NEW e \in Endpoints
        PROVE  Cardinality(ExactOnly(e)') \in 0..MaxWaiters
    <3>1. /\ IsFiniteSet(ExactOnly(e)')
          /\ Cardinality(ExactOnly(e)') <= Cardinality(registered')
      BY <2>1 DEF Counting, CountPart
    <3>2. Cardinality(ExactOnly(e)') \in Nat
      BY <3>1 DEF Counting, CountNat
    <3> QED
      BY <2>2, <3>1, <3>2, SMT
  <2>4. exactWaiters' \in [Endpoints -> 0..MaxWaiters]
    BY <2>3
  <2> QED
    BY <2>2, <2>4, SMT DEF QueueOK, QueueCounted
\* Registering and unregistering look at the endpoint a call is confined to.
<1>ExactOf.
    ASSUME NEW p \in Procs, NEW e \in Endpoints
    PROVE  (e = IF p \in Callers THEN Exact[p] ELSE None) <=> p \in Callers /\ Exact[p] = e
  BY PoolAssumption
\* unregisterWaiterLocked keeps the counters exact.
<1>UnregisterCounts.
    ASSUME NEW p \in Procs, Unregister(p)
    PROVE  QueueOK'
  <2> USE <1>UnregisterCounts
  <2> DEFINE exact == IF p \in Callers THEN Exact[p] ELSE None
  <2>1. /\ waiters' = IF p \in registered THEN waiters - 1 ELSE waiters
        /\ exactWaiters' = [e \in Endpoints |->
              IF p \in registered /\ e = exact THEN exactWaiters[e] - 1
                                               ELSE exactWaiters[e]]
        /\ registered' = registered \ {p}
    BY DEF Unregister
  <2>2. /\ waiters \in 0..MaxWaiters /\ MaxWaiters \in Nat
        /\ registered \subseteq Procs /\ IsFiniteSet(registered)
        /\ waiters = Cardinality(registered)
        /\ \A e \in Endpoints : exactWaiters[e] = Cardinality(ExactOnly(e))
    BY PoolAssumption DEF Inv, TypeOK, WaitType, LoadInv, QueueCounted
  <2>3. \A e \in Endpoints : e = exact <=> p \in Callers /\ Exact[p] = e
    BY <1>ExactOf
  <2> HIDE DEF exact
  <2>4. /\ IsFiniteSet(registered')
        /\ Cardinality(registered') = IF p \in registered THEN waiters - 1 ELSE waiters
    BY <2>1, <2>2, CountOne
  <2>5. waiters' = Cardinality(registered') /\ waiters' <= MaxWaiters
    BY <2>1, <2>2, <2>4, SMT
  <2>6. ASSUME NEW e \in Endpoints
        PROVE  Cardinality(ExactOnly(e)') =
                  IF p \in registered /\ e = exact THEN exactWaiters[e] - 1
                                                   ELSE exactWaiters[e]
    <3>1. /\ ExactOnly(e)' = ExactOnly(e) \ {p}
          /\ p \in ExactOnly(e) <=> p \in registered /\ e = exact
      BY <2>1, <2>3 DEF ExactOnly
    <3>2. IsFiniteSet(ExactOnly(e))
      <4>1. ExactOnly(e) \in SUBSET registered
        BY DEF ExactOnly
      <4> QED
        BY <2>2, <4>1 DEF Counting, CountPart
    <3>3. Cardinality(ExactOnly(e) \ {p}) =
             IF p \in ExactOnly(e) THEN Cardinality(ExactOnly(e)) - 1
                                    ELSE Cardinality(ExactOnly(e))
      BY <3>2, CountOne
    <3> QED
      BY <2>2, <3>1, <3>3
  <2>7. exactWaiters' = [e \in Endpoints |-> Cardinality(ExactOnly(e)')]
    BY <2>1, <2>6
  <2>8. registered' \subseteq Procs
    BY <2>1, <2>2
  <2> QED
    BY <2>4, <2>5, <2>7, <2>8, <1>QueueFromCount
\* A call that starts to wait is counted once, within MaxWaiters.
<1>EnqueueCounts.
    ASSUME NEW p \in Procs, NEW timer, Enqueue(p, timer)
    PROVE  QueueOK'
  <2> USE <1>EnqueueCounts
  <2> DEFINE exact == IF p \in Callers THEN Exact[p] ELSE None
             new   == p \notin registered
  <2>1. UNCHANGED waitVars => QueueOK'
    BY DEF waitVars, QueueOK, QueueCounted, ExactOnly, Inv, TypeOK, WaitType,
           LoadInv
  <2>2. CASE ~(new /\ waiters = MaxWaiters)
    <3> USE <2>2
    <3>1. /\ waiters' = IF new THEN waiters + 1 ELSE waiters
          /\ exactWaiters' = [e \in Endpoints |->
                IF new /\ e = exact THEN exactWaiters[e] + 1 ELSE exactWaiters[e]]
          /\ registered' = registered \cup {p}
      BY DEF Enqueue
    <3>2. /\ waiters \in 0..MaxWaiters /\ MaxWaiters \in Nat
          /\ registered \subseteq Procs /\ IsFiniteSet(registered)
          /\ waiters = Cardinality(registered)
          /\ \A e \in Endpoints : exactWaiters[e] = Cardinality(ExactOnly(e))
      BY PoolAssumption DEF Inv, TypeOK, WaitType, LoadInv, QueueCounted
    <3>3. \A e \in Endpoints : e = exact <=> p \in Callers /\ Exact[p] = e
      BY <1>ExactOf
    <3> HIDE DEF exact
    <3>4. /\ IsFiniteSet(registered')
          /\ Cardinality(registered') = IF new THEN waiters + 1 ELSE waiters
      BY <3>1, <3>2, CountOne
    <3>5. waiters' = Cardinality(registered') /\ waiters' <= MaxWaiters
      BY <3>1, <3>2, <3>4, SMT
    <3>6. ASSUME NEW e \in Endpoints
          PROVE  Cardinality(ExactOnly(e)') =
                    IF new /\ e = exact THEN exactWaiters[e] + 1 ELSE exactWaiters[e]
      <4>1. /\ ExactOnly(e)' = IF e = exact THEN ExactOnly(e) \cup {p} ELSE ExactOnly(e)
            /\ e = exact => (p \in ExactOnly(e) <=> ~new)
        BY <3>1, <3>3 DEF ExactOnly
      <4>2. IsFiniteSet(ExactOnly(e))
        <5>1. ExactOnly(e) \in SUBSET registered
          BY DEF ExactOnly
        <5> QED
          BY <3>2, <5>1 DEF Counting, CountPart
      <4>3. Cardinality(ExactOnly(e) \cup {p}) =
               IF p \in ExactOnly(e) THEN Cardinality(ExactOnly(e))
                                      ELSE Cardinality(ExactOnly(e)) + 1
        BY <4>2, CountOne
      <4> QED
        BY <3>2, <4>1, <4>3
    <3>7. exactWaiters' = [e \in Endpoints |-> Cardinality(ExactOnly(e)')]
      BY <3>1, <3>6
    <3>8. registered' \subseteq Procs
      BY <3>1, <3>2
    <3> QED
      BY <3>4, <3>5, <3>7, <3>8, <1>QueueFromCount
  <2> QED
    BY <2>1, <2>2 DEF Enqueue
<1>1. UNCHANGED <<waiters, exactWaiters, registered>> => QueueOK'
  BY DEF QueueOK, QueueCounted, ExactOnly, Inv, TypeOK, WaitType, LoadInv
<1> USE <1>1
<1>2. ASSUME NEW a \in Callers, Acquire(a) PROVE QueueOK'
  <2>1. a \in Procs
    BY DEF Procs
  <2>2. \/ Unregister(a) \/ UNCHANGED <<waiters, exactWaiters, registered>>
        \/ Enqueue(a, Room(a) # {})
    BY <1>2 DEF Acquire
  <2> QED
    BY <2>1, <2>2, <1>UnregisterCounts, <1>EnqueueCounts
<1>3. ASSUME NEW p \in LeaseOps, LeaseAcquire(p) PROVE QueueOK'
  <2>1. p \in Procs
    BY DEF Procs
  <2>2. Unregister(p) \/ Enqueue(p, FALSE)
    BY <1>3 DEF LeaseAcquire
  <2> QED
    BY <2>1, <2>2, <1>UnregisterCounts, <1>EnqueueCounts
<1>4. \A p \in Procs : WaitEnds(p) => QueueOK'
  BY <1>UnregisterCounts DEF WaitEnds
<1>5. CASE \E a \in Callers : AcquireStep(a)
  BY <1>5, <1>2
     DEF AcquireStep, Wake, AcquireDialed, AcquireWatch, AcquireDiscard,
         AcquireReplace, waitVars, Procs
<1>6. CASE \E p \in LeaseOps : LeaseAcquire(p) \/ Wake(p)
  BY <1>6, <1>3 DEF Wake, waitVars, Procs
<1>7. CASE \E p \in Procs : WaitEnds(p)
  BY <1>7, <1>4
<1>8. CASE \E p \in Ops \cup LeaseOps : DoFails(p) \/ DoStarts(p) \/ OperationEnds(p)
  BY <1>8 DEF DoFails, DoStarts, OperationEnds, waitVars
<1>9. CASE \E p \in Ops \cup LeaseOps, who \in {"tracker", "consumer"} :
              ReleaseOnce(p, who)
  BY <1>9 DEF ReleaseOnce, waitVars
<1>10. CASE \E l \in Leases : LeaseClose(l)
  BY <1>10 DEF LeaseClose, waitVars
<1>11. CASE \E c \in Conns : WatchStep(c) \/ ConnFails(c)
  BY <1>11
     DEF WatchStep, WatchDone, WatchReplace, CloseSoon, ConnFails, waitVars
<1>12. CASE \E e \in Endpoints : ReplaceStep(e) \/ BackoffEnds(e)
  BY <1>12
     DEF ReplaceStep, ReplaceLoop, ReplaceWake, ReplaceDialed, ReplaceWatch,
         ReplaceDiscard, ReplaceExit, BackoffEnds, waitVars
<1>13. CASE RetireExpired \/ RetireNext \/ MaintainExit
  BY <1>13 DEF RetireExpired, RetireNext, MaintainExit, waitVars
<1>14. CASE \E k \in Closers : CloseBegin(k) \/ CloseStep(k)
  BY <1>14
     DEF CloseStep, CloseBegin, CloseDrain, CloseWake, CloseTimeout, CloseAll,
         CloseNext, CloseFinish, waitVars
<1>15. CASE \E p \in Procs \cup Closers : ContextDone(p)
  BY <1>15 DEF ContextDone, waitVars
<1> QED
  BY <1>5, <1>6, <1>7, <1>8, <1>9, <1>10, <1>11, <1>12, <1>13, <1>14, <1>15
     DEF Next

-----------------------------------------------------------------------------
(***************************************************************************)
(* The dials.                                                              *)
(***************************************************************************)

DialOK == DialType /\ DialsCounted

DialKept ==
    /\ UNCHANGED dialing /\ backoff' \in [Endpoints -> BOOLEAN]
    /\ \A e \in Endpoints : Dialers(e)' = Dialers(e)
    /\ \A e \in Endpoints : rpc'[e] = "dialing" <=> rpc[e] = "dialing"

\* endpointState.dialing counts the dials under way.
LEMMA DialStep ==
    ASSUME Inv, Next, Counting
    PROVE  DialOK'
\* A step that begins and ends no dial keeps their number.
<1> USE Zenon
<1>DialFrame.
    ASSUME DialKept
    PROVE  DialOK'
  <2> USE <1>DialFrame
  <2>1. DialsCounted'
    BY DEF DialKept, DialsCounted, Inv, LoadInv
  <2> QED
    BY <2>1 DEF DialKept, DialOK, DialType, Inv, TypeOK
\* A call that moves, but not to or from a dial, leaves them as they are.
<1>MoveDialers.
    ASSUME NEW p \in Procs, pc[p] # "dialing", NEW v, v # "dialing",
           pc' = [pc EXCEPT ![p] = v],
           UNCHANGED target \/ \E x : target' = [target EXCEPT ![p] = x]
    PROVE  \A e : Dialers(e)' = Dialers(e)
  <2> USE <1>MoveDialers
  <2>1. \A q \in Procs : q # p => pc'[q] = pc[q] /\ target'[q] = target[q]
    BY DEF Inv, TypeOK, ProcType
  <2>2. pc'[p] # "dialing"
    BY DEF Inv, TypeOK, ProcType
  <2>3. \A a \in Callers : /\ pc'[a] = "dialing" <=> pc[a] = "dialing"
                           /\ pc[a] = "dialing" => target'[a] = target[a]
    BY <2>1, <2>2 DEF Procs
  <2> QED
    BY <2>3 DEF Dialers
\* A dial of acquire begins.
<1>DialBegins.
    ASSUME NEW a \in Callers, NEW e \in Endpoints, pc[a] # "dialing",
           pc' = [pc EXCEPT ![a] = "dialing"], target' = [target EXCEPT ![a] = e],
           dialing' = [dialing EXCEPT ![e] = @ + 1], UNCHANGED <<backoff, rpc>>
    PROVE  DialOK'
  <2> USE <1>DialBegins
  <2>1. \A b \in Callers : /\ pc'[b] = IF b = a THEN "dialing" ELSE pc[b]
                           /\ target'[b] = IF b = a THEN e ELSE target[b]
    BY DEF Inv, TypeOK, ProcType, Procs
  <2>2. /\ dialing \in [Endpoints -> Nat] /\ backoff \in [Endpoints -> BOOLEAN] /\ DialsCounted
    BY DEF Inv, TypeOK, DialType, LoadInv
  <2>3. \A f \in Endpoints : Dialers(f)' = IF f = e THEN Dialers(f) \cup {a} ELSE Dialers(f)
    BY <2>1 DEF Dialers
  <2>4. a \notin Dialers(e)
    BY DEF Dialers
  <2>5. ASSUME NEW f \in Endpoints
        PROVE  /\ IsFiniteSet(Dialers(f)')
               /\ Cardinality(Dialers(f)') = Cardinality(Dialers(f)) + (IF f = e THEN 1 ELSE 0)
               /\ Cardinality(Dialers(f)) \in Nat
    <3>1. IsFiniteSet(Dialers(f)) /\ Cardinality(Dialers(f)) \in Nat
      BY <2>2 DEF DialsCounted, Counting, CountNat
    <3> USE <3>1
    <3>2. /\ IsFiniteSet(Dialers(f) \cup {a})
          /\ a \notin Dialers(f) => Cardinality(Dialers(f) \cup {a}) = Cardinality(Dialers(f)) + 1
      BY CountOne
    <3>3. CASE f = e
      BY <2>3, <2>4, <3>2, <3>3
    <3>4. CASE f # e
      BY <2>3, <3>4, SMT
    <3> QED
      BY <3>3, <3>4
  <2>6. \A f \in Endpoints : dialing'[f] = dialing[f] + (IF f = e THEN 1 ELSE 0)
    BY <2>2, SMT
  <2>7. DialsCounted'
    BY <2>2, <2>5, <2>6, SMT DEF DialsCounted
  <2> QED
    BY <2>2, <2>7, SMT DEF DialOK, DialType
\* A dial of acquire ends.
<1>DialOver.
    ASSUME NEW a \in Callers, NEW e \in Endpoints, pc[a] = "dialing", target[a] = e,
           NEW v, v # "dialing", pc' = [pc EXCEPT ![a] = v],
           UNCHANGED target \/ \E x : target' = [target EXCEPT ![a] = x],
           dialing' = [dialing EXCEPT ![e] = @ - 1], UNCHANGED rpc,
           backoff' \in [Endpoints -> BOOLEAN]
    PROVE  DialOK'
  <2> USE <1>DialOver
  <2>1. /\ \A b \in Callers : b # a => pc'[b] = pc[b] /\ target'[b] = target[b]
        /\ pc'[a] # "dialing"
    BY DEF Inv, TypeOK, ProcType, Procs
  <2>2. /\ dialing \in [Endpoints -> Nat] /\ DialsCounted
    BY DEF Inv, TypeOK, DialType, LoadInv
  <2>3. /\ \A f \in Endpoints : Dialers(f)' = IF f = e THEN Dialers(f) \ {a} ELSE Dialers(f)
        /\ a \in Dialers(e)
    BY <2>1 DEF Dialers
  <2>4. ASSUME NEW f \in Endpoints
        PROVE  /\ IsFiniteSet(Dialers(f)')
               /\ Cardinality(Dialers(f)') = Cardinality(Dialers(f)) - (IF f = e THEN 1 ELSE 0)
               /\ Cardinality(Dialers(f)) \in Nat /\ Cardinality(Dialers(f)') \in Nat
    <3>1. IsFiniteSet(Dialers(f)) /\ Cardinality(Dialers(f)) \in Nat
      BY <2>2 DEF DialsCounted, Counting, CountNat
    <3> USE <3>1
    <3>2. /\ IsFiniteSet(Dialers(f) \ {a})
          /\ a \in Dialers(f) => Cardinality(Dialers(f) \ {a}) = Cardinality(Dialers(f)) - 1
          /\ Cardinality(Dialers(f) \ {a}) \in Nat
      BY CountOne
    <3>3. CASE f = e
      BY <2>3, <3>2, <3>3
    <3>4. CASE f # e
      BY <2>3, <3>4, SMT
    <3> QED
      BY <3>3, <3>4
  <2>5. \A f \in Endpoints : dialing'[f] = dialing[f] - (IF f = e THEN 1 ELSE 0)
    BY <2>2, SMT
  <2>6. DialsCounted'
    BY <2>2, <2>4, <2>5, SMT DEF DialsCounted
  <2>7. dialing' \in [Endpoints -> Nat]
    <3>1. \A f \in Endpoints : dialing'[f] \in Nat
      BY <2>4, <2>6, SMT DEF DialsCounted
    <3>2. dialing' = [f \in Endpoints |-> dialing'[f]]
      BY <2>2
    <3> QED
      BY <3>1, <3>2
  <2> QED
    BY <2>6, <2>7 DEF DialOK, DialType
\* startReplacement starts no dial itself.
<1>StartDials. \A x : StartReplacement(x) =>
                  (\A e \in Endpoints : rpc'[e] = "dialing" <=> rpc[e] = "dialing")
  BY DEF StartReplacement, Inv, TypeOK, ReplType, LoadInv, ReplPlaced
<1>1. UNCHANGED <<dialing, backoff, pc, target, rpc>> => DialOK'
  BY <1>DialFrame DEF DialKept, Dialers, Inv, TypeOK, DialType
<1>2. ASSUME NEW a \in Callers, Acquire(a) PROVE DialOK'
  <2> USE <1>2
  <2>1. /\ a \in Procs /\ pc[a] # "dialing" /\ UNCHANGED <<backoff, rpc>>
    BY DEF Acquire, Procs, replVars
  <2> USE <2>1
  <2>2. ASSUME Refused(a) \/ Waits(a) \/ \E c : Granted(a, c) PROVE DialOK'
    <3>1. /\ UNCHANGED <<dialing, target>>
          /\ \E v : v # "dialing" /\ pc' = [pc EXCEPT ![a] = v]
      BY <2>2 DEF Refused, Waits, Granted, Enqueue
    <3>2. \A e : Dialers(e)' = Dialers(e)
      BY <3>1, <1>MoveDialers
    <3> QED
      BY <3>1, <3>2, <1>DialFrame DEF DialKept, Inv, TypeOK, DialType
  <2>3. \A e \in Endpoints : Dials(a, e) => DialOK'
    BY <1>DialBegins DEF Dials
  <2> QED
    BY <2>2, <2>3, AcquireTakes
<1>3. ASSUME NEW p \in Procs, Wake(p) PROVE DialOK'
  <2> USE <1>3
  <2>1. /\ p \in Procs /\ pc[p] # "dialing" /\ UNCHANGED <<dialing, backoff, rpc>>
    BY DEF Wake, Procs, Callers, dialVars, replVars
  <2>2. \A e : Dialers(e)' = Dialers(e)
    BY <2>1, <1>MoveDialers DEF Wake
  <2> QED
    BY <2>1, <2>2, <1>DialFrame DEF DialKept, Inv, TypeOK, DialType
<1>4. ASSUME NEW p \in Procs, WaitEnds(p) PROVE DialOK'
  <2> USE <1>4
  <2>1. /\ p \in Procs /\ pc[p] # "dialing" /\ UNCHANGED <<dialing, backoff, rpc>>
    BY DEF WaitEnds, Procs, Callers, dialVars, replVars
  <2>2. \A e : Dialers(e)' = Dialers(e)
    BY <2>1, <1>MoveDialers DEF WaitEnds
  <2> QED
    BY <2>1, <2>2, <1>DialFrame DEF DialKept, Inv, TypeOK, DialType
<1>5. ASSUME NEW p \in Ops \cup LeaseOps, DoFails(p) PROVE DialOK'
  <2> USE <1>5
  <2>1. /\ p \in Procs /\ pc[p] # "dialing" /\ UNCHANGED <<dialing, backoff, rpc>>
    BY DEF DoFails, Procs, Callers, dialVars, replVars
  <2>2. \A e : Dialers(e)' = Dialers(e)
    BY <2>1, <1>MoveDialers DEF DoFails
  <2> QED
    BY <2>1, <2>2, <1>DialFrame DEF DialKept, Inv, TypeOK, DialType
<1>6. ASSUME NEW p \in Ops \cup LeaseOps, DoStarts(p) PROVE DialOK'
  <2> USE <1>6
  <2>1. /\ p \in Procs /\ pc[p] # "dialing" /\ UNCHANGED <<dialing, backoff, rpc>>
    BY DEF DoStarts, Procs, Callers, dialVars, replVars
  <2>2. \A e : Dialers(e)' = Dialers(e)
    BY <2>1, <1>MoveDialers DEF DoStarts
  <2> QED
    BY <2>1, <2>2, <1>DialFrame DEF DialKept, Inv, TypeOK, DialType
<1>7. ASSUME NEW a \in Callers, AcquireWatch(a) PROVE DialOK'
  <2> USE <1>7
  <2>1. /\ a \in Procs /\ pc[a] # "dialing" /\ UNCHANGED <<dialing, backoff, rpc>>
    BY DEF AcquireWatch, Procs, Callers, dialVars, replVars
  <2>2. \A e : Dialers(e)' = Dialers(e)
    BY <2>1, <1>MoveDialers DEF AcquireWatch
  <2> QED
    BY <2>1, <2>2, <1>DialFrame DEF DialKept, Inv, TypeOK, DialType
<1>8. ASSUME NEW a \in Callers, AcquireDiscard(a) PROVE DialOK'
  <2> USE <1>8
  <2>1. /\ a \in Procs /\ pc[a] # "dialing" /\ UNCHANGED <<dialing, backoff, rpc>>
    BY DEF AcquireDiscard, Procs, Callers, dialVars, replVars
  <2>2. \A e : Dialers(e)' = Dialers(e)
    BY <2>1, <1>MoveDialers DEF AcquireDiscard
  <2> QED
    BY <2>1, <2>2, <1>DialFrame DEF DialKept, Inv, TypeOK, DialType
<1>9. ASSUME NEW l \in Leases, LeaseClose(l) PROVE DialOK'
  <2> USE <1>9
  <2>1. /\ l \in Procs /\ pc[l] # "dialing" /\ UNCHANGED <<dialing, backoff, rpc>>
    BY DEF LeaseClose, Procs, Callers, dialVars, replVars
  <2>2. \A e : Dialers(e)' = Dialers(e)
    BY <2>1, <1>MoveDialers DEF LeaseClose
  <2> QED
    BY <2>1, <2>2, <1>DialFrame DEF DialKept, Inv, TypeOK, DialType
<1>10. ASSUME NEW a \in Callers, AcquireReplace(a) PROVE DialOK'
  <2> USE <1>10
  <2>1. /\ a \in Procs /\ pc[a] # "dialing" /\ UNCHANGED <<dialing, backoff>>
    BY DEF AcquireReplace, Procs, dialVars
  <2>2. \A e : Dialers(e)' = Dialers(e)
    BY <2>1, <1>MoveDialers DEF AcquireReplace
  <2>3. StartReplacement(target[a])
    BY DEF AcquireReplace
  <2> QED
    BY <2>1, <2>2, <2>3, <1>StartDials, <1>DialFrame
       DEF DialKept, Inv, TypeOK, DialType
<1>11. ASSUME NEW a \in Callers, AcquireDialed(a) PROVE DialOK'
  <2> USE <1>11
  <2> DEFINE e == target[a]
  <2>1. /\ pc[a] = "dialing" /\ e \in Endpoints /\ UNCHANGED rpc
    BY DEF AcquireDialed, replVars, Inv, LoadInv, Placed
  <2>2. /\ \E v : v # "dialing" /\ pc' = [pc EXCEPT ![a] = v]
        /\ UNCHANGED target \/ \E x : target' = [target EXCEPT ![a] = x]
        /\ \E c, ok : DialEnds(e, c, ok)
    BY DEF AcquireDialed
  <2> HIDE DEF e
  <2>3. /\ dialing' = [dialing EXCEPT ![e] = @ - 1]
        /\ \/ UNCHANGED backoff
           \/ \E b \in BOOLEAN : backoff' = [backoff EXCEPT ![e] = b]
    BY <2>2 DEF DialEnds
  <2>4. backoff' \in [Endpoints -> BOOLEAN]
    BY <2>3 DEF Inv, TypeOK, DialType
  <2> QED
    BY <2>1, <2>2, <2>3, <2>4, <1>DialOver DEF e
<1>12. ASSUME NEW p \in LeaseOps, LeaseAcquire(p) PROVE DialOK'
  <2> USE <1>12
  <2>1. /\ p \in Procs /\ pc[p] # "dialing" /\ UNCHANGED <<dialing, backoff, target, rpc>>
    BY DEF LeaseAcquire, Procs, dialVars, replVars
  <2>2. \E v : v # "dialing" /\ pc' = [pc EXCEPT ![p] = v]
    BY LeaseAcquireTakes DEF LeaseRefuses, LeaseGrants, LeaseWaits, Enqueue
  <2>3. \A e : Dialers(e)' = Dialers(e)
    BY <2>1, <2>2, <1>MoveDialers
  <2> QED
    BY <2>1, <2>3, <1>DialFrame DEF DialKept, Inv, TypeOK, DialType
<1>13. ASSUME NEW p \in Ops \cup LeaseOps, NEW who \in {"tracker", "consumer"}, ReleaseOnce(p, who)
      PROVE  DialOK'
  <2>1. /\ p \in Procs /\ p \in ended /\ UNCHANGED <<dialing, backoff, target, rpc>>
        /\ UNCHANGED pc \/ pc' = [pc EXCEPT ![p] = "done"]
    BY <1>13 DEF ReleaseOnce, Procs, Callers, dialVars, replVars
  <2> USE <2>1
  <2>2. pc[p] # "dialing"
    BY DEF Inv, LoadInv, Placed
  <2>3. \A e : Dialers(e)' = Dialers(e)
    BY <2>2, <1>MoveDialers DEF Dialers
  <2> QED
    BY <2>3, <1>DialFrame DEF DialKept, Inv, TypeOK, DialType
<1>14. ASSUME NEW c \in Conns, WatchReplace(c) PROVE DialOK'
  <2>1. UNCHANGED <<dialing, backoff, pc, target>> /\ StartReplacement(conn[c].at)
    BY <1>14 DEF WatchReplace, dialVars, procVars
  <2> QED
    BY <2>1, <1>StartDials, <1>DialFrame
       DEF DialKept, Dialers, Inv, TypeOK, DialType
<1>15. ASSUME RetireNext PROVE DialOK'
  <2> USE <1>15
  <2>1. UNCHANGED <<dialing, backoff, pc, target>>
    BY DEF RetireNext, dialVars, procVars
  <2>2. UNCHANGED rpc \/ \E e : StartReplacement(e)
    BY DEF RetireNext
  <2> QED
    BY <2>1, <2>2, <1>StartDials, <1>DialFrame
       DEF DialKept, Dialers, Inv, TypeOK, DialType
<1>16. ASSUME NEW e \in Endpoints, ReplaceWake(e) PROVE DialOK'
  <2> USE <1>16
  <2>1. UNCHANGED <<dialing, backoff, pc, target>>
    BY DEF ReplaceWake, dialVars, procVars
  <2>2. \A f \in Endpoints : rpc'[f] = "dialing" <=> rpc[f] = "dialing"
    BY DEF ReplaceWake, Inv, TypeOK, ReplType
  <2> QED
    BY <2>1, <2>2, <1>DialFrame
       DEF DialKept, Dialers, Inv, TypeOK, DialType
<1>17. ASSUME NEW e \in Endpoints, ReplaceWatch(e) PROVE DialOK'
  <2> USE <1>17
  <2>1. UNCHANGED <<dialing, backoff, pc, target>>
    BY DEF ReplaceWatch, dialVars, procVars
  <2>2. \A f \in Endpoints : rpc'[f] = "dialing" <=> rpc[f] = "dialing"
    BY DEF ReplaceWatch, Inv, TypeOK, ReplType
  <2> QED
    BY <2>1, <2>2, <1>DialFrame
       DEF DialKept, Dialers, Inv, TypeOK, DialType
<1>18. ASSUME NEW e \in Endpoints, ReplaceDiscard(e) PROVE DialOK'
  <2> USE <1>18
  <2>1. UNCHANGED <<dialing, backoff, pc, target>>
    BY DEF ReplaceDiscard, dialVars, procVars
  <2>2. \A f \in Endpoints : rpc'[f] = "dialing" <=> rpc[f] = "dialing"
    BY DEF ReplaceDiscard, Inv, TypeOK, ReplType
  <2> QED
    BY <2>1, <2>2, <1>DialFrame
       DEF DialKept, Dialers, Inv, TypeOK, DialType
<1>19. ASSUME NEW e \in Endpoints, ReplaceExit(e) PROVE DialOK'
  <2> USE <1>19
  <2>1. UNCHANGED <<dialing, backoff, pc, target>>
    BY DEF ReplaceExit, dialVars, procVars
  <2>2. \A f \in Endpoints : rpc'[f] = "dialing" <=> rpc[f] = "dialing"
    BY DEF ReplaceExit, Inv, TypeOK, ReplType
  <2> QED
    BY <2>1, <2>2, <1>DialFrame
       DEF DialKept, Dialers, Inv, TypeOK, DialType
<1>20. ASSUME NEW e \in Endpoints, ReplaceLoop(e) PROVE DialOK'
  <2> USE <1>20
  <2>1. UNCHANGED <<backoff, pc, target>> /\ rpc[e] = "loop"
    BY DEF ReplaceLoop, procVars
  <2> USE <2>1
  <2>2. \A f : Dialers(f)' = Dialers(f)
    BY DEF Dialers
  <2>3. ASSUME NEW v, v # "dialing", rpc' = [rpc EXCEPT ![e] = v], UNCHANGED dialing
        PROVE  DialOK'
    <3> USE <2>3
    <3>1. \A f \in Endpoints : rpc'[f] = "dialing" <=> rpc[f] = "dialing"
      BY DEF Inv, TypeOK, ReplType
    <3> QED
      BY <2>2, <3>1, <1>DialFrame DEF DialKept, Inv, TypeOK, DialType
  <2>4. ASSUME rpc' = [rpc EXCEPT ![e] = "dialing"], dialing' = [dialing EXCEPT ![e] = @ + 1]
        PROVE  DialOK'
    <3>1. /\ \A f \in Endpoints : /\ dialing[f] \in Nat
                                  /\ dialing'[f] = IF f = e THEN dialing[f] + 1 ELSE dialing[f]
                                  /\ rpc'[f] = IF f = e THEN "dialing" ELSE rpc[f]
          /\ dialing' \in [Endpoints -> Nat] /\ backoff' \in [Endpoints -> BOOLEAN]
      BY <2>4, SMT DEF Inv, TypeOK, DialType, ReplType
    <3>2. \A f \in Endpoints : /\ IsFiniteSet(Dialers(f)) /\ Cardinality(Dialers(f)) \in Nat
                               /\ dialing[f] = Cardinality(Dialers(f))
                                               + (IF rpc[f] = "dialing" THEN 1 ELSE 0)
      BY DEF Inv, LoadInv, DialsCounted, Counting, CountNat
    <3>3. DialsCounted'
      BY <2>2, <3>1, <3>2, SMT DEF DialsCounted
    <3> QED
      BY <3>1, <3>3 DEF DialOK, DialType
  <2> QED
    BY <2>3, <2>4 DEF ReplaceLoop
<1>21. ASSUME NEW e \in Endpoints, ReplaceDialed(e) PROVE DialOK'
  <2>1. /\ UNCHANGED <<pc, target>> /\ rpc[e] = "dialing"
        /\ \E v : v # "dialing" /\ rpc' = [rpc EXCEPT ![e] = v]
        /\ \E c, ok : DialEnds(e, c, ok)
    BY <1>21 DEF ReplaceDialed, procVars
  <2> USE <2>1
  <2>2. /\ dialing' = [dialing EXCEPT ![e] = @ - 1]
        /\ \/ UNCHANGED backoff
           \/ \E b \in BOOLEAN : backoff' = [backoff EXCEPT ![e] = b]
    BY DEF DialEnds
  <2>3. \A f : Dialers(f)' = Dialers(f)
    BY DEF Dialers
  <2>4. \A f \in Endpoints : /\ IsFiniteSet(Dialers(f)) /\ Cardinality(Dialers(f)) \in Nat
                             /\ dialing[f] = Cardinality(Dialers(f))
                                             + (IF rpc[f] = "dialing" THEN 1 ELSE 0)
    BY DEF Inv, LoadInv, DialsCounted, Counting, CountNat
  <2>5. \A f \in Endpoints : /\ dialing'[f] = IF f = e THEN dialing[f] - 1 ELSE dialing[f]
                             /\ f # e => rpc'[f] = rpc[f]
                             /\ f = e => rpc'[f] # "dialing"
    BY <2>2 DEF Inv, TypeOK, DialType, ReplType
  <2>6. DialsCounted'
    BY <2>3, <2>4, <2>5, SMT DEF DialsCounted
  <2>7. \A f \in Endpoints : dialing'[f] \in Nat
    BY <2>4, <2>5, SMT
  <2>8. dialing' \in [Endpoints -> Nat] /\ backoff' \in [Endpoints -> BOOLEAN]
    BY <2>2, <2>7 DEF Inv, TypeOK, DialType
  <2> QED
    BY <2>6, <2>8 DEF DialOK, DialType
<1>22. ASSUME NEW e \in Endpoints, BackoffEnds(e) PROVE DialOK'
  <2>1. UNCHANGED <<dialing, pc, target, rpc>> /\ backoff' = [backoff EXCEPT ![e] = FALSE]
    BY <1>22 DEF BackoffEnds, procVars, replVars
  <2> QED
    BY <2>1, <1>DialFrame DEF DialKept, Dialers, Inv, TypeOK, DialType
<1>23. CASE \E a \in Callers : AcquireStep(a)
  BY <1>23, <1>2, <1>3, <1>11, <1>7, <1>8, <1>10 DEF AcquireStep, Procs
<1>24. CASE \E p \in LeaseOps : LeaseAcquire(p) \/ Wake(p)
  BY <1>24, <1>12, <1>3 DEF Procs
<1>25. CASE \E p \in Procs : WaitEnds(p)
  BY <1>25, <1>4
<1>26. CASE \E p \in Ops \cup LeaseOps : DoFails(p) \/ DoStarts(p) \/ OperationEnds(p)
  BY <1>26, <1>1, <1>5, <1>6 DEF OperationEnds, dialVars, procVars, replVars
<1>27. CASE \E p \in Ops \cup LeaseOps, who \in {"tracker", "consumer"} :
              ReleaseOnce(p, who)
  BY <1>27, <1>13
<1>28. CASE \E l \in Leases : LeaseClose(l)
  BY <1>28, <1>9
<1>29. CASE \E c \in Conns : WatchStep(c) \/ ConnFails(c)
  BY <1>29, <1>1, <1>14
     DEF WatchStep, WatchDone, CloseSoon, ConnFails, dialVars, procVars,
         replVars
<1>30. CASE \E e \in Endpoints : ReplaceStep(e) \/ BackoffEnds(e)
  BY <1>30, <1>20, <1>16, <1>21, <1>17, <1>18, <1>19, <1>22 DEF ReplaceStep
<1>31. CASE RetireExpired \/ RetireNext \/ MaintainExit
  BY <1>31, <1>1, <1>15
     DEF RetireExpired, MaintainExit, dialVars, procVars, replVars
<1>32. CASE \E k \in Closers : CloseBegin(k) \/ CloseStep(k)
  BY <1>32, <1>1
     DEF CloseStep, CloseBegin, CloseDrain, CloseWake, CloseTimeout, CloseAll,
         CloseNext, CloseFinish, dialVars, procVars, replVars
<1>33. CASE \E p \in Procs \cup Closers : ContextDone(p)
  BY <1>33, <1>1 DEF ContextDone, dialVars, procVars, replVars
<1> QED
  BY <1>23, <1>24, <1>25, <1>26, <1>27, <1>28, <1>29, <1>30, <1>31, <1>32, <1>33
     DEF Next

=============================================================================
