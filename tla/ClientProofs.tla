---------------------------- MODULE ClientProofs ----------------------------
(***************************************************************************)
(* What the calls of a Client get, for every number of calls, executor     *)
(* capacity, page size and directory: the streams they are given are       *)
(* closed, the entries are exact, and the answers are the server's.        *)
(*                                                                         *)
(* A step of one call leaves the others alone, so the invariant is one of  *)
(* each call by itself (CallInv).                                          *)
(***************************************************************************)
EXTENDS Client, SequenceTheorems, TLAPS

\* The stream a call names is the only one it can have open.
Holds(c) ==
  /\ open[c] \subseteq {stream[c]}
  /\ stream[c] = 0 => open[c] = {}
  /\ pc[c] \in {"idle", "turning", "over"} => stream[c] = 0

\* Where a call can be, and what it knows there.
Stands(c) ==
  /\ pc[c] \in {"idle", "reading", "ending", "turning"} => err[c] = "none" /\ ~done[c]
  /\ pc[c] # "over" => result[c] = "none"
  /\ pc[c] = "idle" => out[c] = <<>>
  /\ pc[c] = "between" => kind[c] \in Searches
  /\ pc[c] = "turning" => kind[c] = "paged" /\ cookie[c] = served[c]

\* The entries returned are the ones the server has passed.
Counts(c) ==
  /\ out[c] = [i \in 1..Len(out[c]) |-> i]
  /\ kind[c] \in Searches => served[c] = Len(out[c])

\* The terminal response of a page, and of the search.
Ends(c) ==
  kind[c] \in Searches =>
    /\ pc[c] = "ending" =>
         /\ code[c] = "success"
         /\ cookie[c] \in {EmptyCookie, BadControl, served[c]}
         /\ cookie[c] = EmptyCookie => served[c] = matches[c]
         /\ kind[c] # "paged" => cookie[c] = EmptyCookie
    /\ pc[c] = "between" /\ done[c] /\ err[c] = "none" =>
         code[c] = "success" /\ served[c] = matches[c]
    /\ err[c] = "notfound" => code[c] = "noSuchObject"
    /\ code[c] = "noSuchObject" /\ pc[c] # "over" =>
         pc[c] = "between" /\ err[c] = "notfound"

\* How often Get has called Next.
Asks(c) ==
  kind[c] = "get" =>
    /\ Len(out[c]) <= asked[c]
    /\ pc[c] = "idle" => asked[c] = 0
    /\ pc[c] \in {"reading", "ending"} => asked[c] = Len(out[c]) + 1
    /\ pc[c] = "between" => asked[c] = Len(out[c]) \/ err[c] # "none" \/ done[c]
    /\ pc[c] = "between" /\ Len(out[c]) = 2 => err[c] = "none"

\* What a call that has returned may have returned.
Returned(c) ==
  pc[c] = "over" =>
    /\ kind[c] # "get" /\ result[c] = "ok" /\ kind[c] \in Searches =>
         Len(out[c]) = matches[c]
    /\ kind[c] = "get" /\ result[c] = "ok" => code[c] = "success" /\ matches[c] = 1
    /\ result[c] = "notfound" =>
         \/ code[c] = "noSuchObject" /\ kind[c] # "whoami"
         \/ code[c] = "success" /\ kind[c] = "get" /\ matches[c] = 0
    /\ kind[c] \in Searches /\ code[c] = "noSuchObject" => result[c] = "notfound"
    /\ kind[c] \in {"write", "whoami"} /\ result[c] = "ok" => code[c] = "success"
    /\ kind[c] = "compare" => result[c] # "ok"
    /\ result[c] \in {"true", "false"} => kind[c] = "compare" /\ code[c] = result[c]

CallInv(c) ==
  Holds(c) /\ Stands(c) /\ Counts(c) /\ Ends(c) /\ Asks(c) /\ Returned(c)

ClientInv == TypeOK /\ \A c \in Calls : CallInv(c)

-----------------------------------------------------------------------------
\* The initial state has no stream, no entry and no answer.
LEMMA ClientInit == Init => ClientInv
<1> USE Zenon
<1> SUFFICES ASSUME Init PROVE ClientInv
  OBVIOUS
<1>1. TypeOK
  BY ClientAssumption, SMT DEF Init, TypeOK, Codes, Errors, EmptyCookie
<1>2. ASSUME NEW c \in Calls PROVE CallInv(c)
  <2>1. /\ pc[c] = "idle" /\ stream[c] = 0 /\ open[c] = {} /\ served[c] = 0
        /\ out[c] = <<>> /\ asked[c] = 0 /\ err[c] = "none" /\ ~done[c]
        /\ result[c] = "none" /\ code[c] = "none"
    BY <1>2 DEF Init
  <2>2. Len(<<>>) = 0 /\ <<>> = [i \in 1..0 |-> i]
    BY SMT
  <2>3. Holds(c) /\ Stands(c) /\ Ends(c) /\ Returned(c)
    BY <2>1 DEF Holds, Stands, Ends, Returned
  <2>4. Counts(c) /\ Asks(c)
    BY <2>1, <2>2, SMT DEF Counts, Asks
  <2> QED
    BY <2>3, <2>4 DEF CallInv
<1> QED
  BY <1>1, <1>2 DEF ClientInv

\* Appending the next number to the numbers up to n gives those up to n + 1.
LEMMA AppendNext ==
  ASSUME NEW s \in Seq(Nat), s = [i \in 1..Len(s) |-> i]
  PROVE  /\ Append(s, Len(s) + 1) \in Seq(Nat)
         /\ Len(Append(s, Len(s) + 1)) = Len(s) + 1
         /\ Append(s, Len(s) + 1) = [i \in 1..(Len(s) + 1) |-> i]
<1> USE Zenon
<1>1. Len(s) \in Nat
  BY LenProperties
<1>2. /\ Append(s, Len(s) + 1) \in Seq(Nat)
      /\ Len(Append(s, Len(s) + 1)) = Len(s) + 1
      /\ \A i \in 1..Len(s) : Append(s, Len(s) + 1)[i] = s[i]
      /\ Append(s, Len(s) + 1)[Len(s) + 1] = Len(s) + 1
  BY <1>1, AppendProperties, SMT
<1>3. \A i \in 1..(Len(s) + 1) : Append(s, Len(s) + 1)[i] = i
  BY <1>1, <1>2, SMT
<1> QED
  BY <1>1, <1>2, <1>3, SMT

-----------------------------------------------------------------------------
\* Every step keeps the types; the position a page is started from is one.
LEMMA TypeStep ==
  ASSUME TypeOK, NEW c \in Calls, Stands(c), Step(c)
  PROVE  TypeOK'
<1> USE Zenon
<1>1. CASE Start(c)
  <2>1. serial[c] + 1 \in Nat
    BY SMT DEF TypeOK
  <2> QED
    BY <1>1, <2>1
       DEF TypeOK, Start, StartPage, ExecuteStream, Goto, request, rows, Codes, EmptyCookie
<1>2. CASE StartFails(c)
  BY <1>2 DEF TypeOK, StartFails, Goto, Returns, Errors, request, transport, server, rows
<1>3. CASE NextCall(c)
  BY <1>3, SMT DEF TypeOK, NextCall, Goto, request, transport, server
<1>4. CASE NextEntry(c)
  <2>1. /\ served[c] + 1 \in Nat /\ sent[c] + 1 \in Nat
        /\ Append(out[c], served[c] + 1) \in Seq(Nat)
    BY AppendProperties, SMT DEF TypeOK
  <2>2. /\ served' = [served EXCEPT ![c] = served[c] + 1]
        /\ sent' = [sent EXCEPT ![c] = sent[c] + 1]
        /\ out' = [out EXCEPT ![c] = Append(out[c], served[c] + 1)]
        /\ pc' = [pc EXCEPT ![c] = "between"]
        /\ UNCHANGED <<kind, matches, stream, serial, open, code, cookie, asked,
                       err, done, closed, result>>
    BY <1>4 DEF NextEntry, Goto, request, transport
  <2> QED
    BY <2>1, <2>2 DEF TypeOK
<1>5. CASE NextReference(c)
  BY <1>5 DEF TypeOK, NextReference, vars, request, transport, server, rows
<1>6. CASE NextFails(c)
  BY <1>6 DEF TypeOK, NextFails, Fails, Goto, Errors, request, transport, server
<1>7. ASSUME NEW r \in {"success", "noSuchObject", "other"},
             NEW k \in {EmptyCookie, BadControl} \cup 0..MaxMatches, NextDone(c, r, k)
      PROVE  TypeOK'
  <2>1. k \in Int
    BY <1>7, ClientAssumption, SMT DEF EmptyCookie, BadControl
  <2>2. ResultError(c, r) \in Errors
    BY DEF ResultError, Errors
  <2> QED
    BY <1>7, <2>1, <2>2 DEF TypeOK, NextDone, Fails, Goto, Codes, request, transport
<1>8. CASE PageEnd(c)
  BY <1>8 DEF TypeOK, PageEnd, CloseStream, Fails, Goto, Errors, request, server
<1>9. CASE PageEndFails(c)
  BY <1>9 DEF TypeOK, PageEndFails, CloseStream, Fails, Goto, Errors, request, server
<1>10. CASE TurnPage(c)
  <2>1. serial[c] + 1 \in Nat /\ cookie[c] \in Nat
    BY <1>10, SMT DEF TypeOK, TurnPage, Stands
  <2> QED
    BY <1>10, <2>1
       DEF TypeOK, TurnPage, StartPage, ExecuteStream, Goto, request, rows, Codes
<1>11. CASE TurnPageFails(c)
  BY <1>11 DEF TypeOK, TurnPageFails, Fails, Goto, Errors, request, transport, server
<1>12. CASE Close(c)
  BY <1>12 DEF TypeOK, Close, CloseStream, Returns, Goto, request, server
<1>13. CASE GetReturn(c)
  <2>1. err[c] \in Errors \cup {"none"} /\ "error" \in Errors /\ "notfound" \in Errors
    BY DEF TypeOK, Errors
  <2> QED
    BY <1>13, <2>1 DEF TypeOK, GetReturn, CloseStream, Returns, Goto, request, server
<1>14. ASSUME NEW r \in Codes, SingleResponse(c, r) PROVE TypeOK'
  BY <1>14 DEF TypeOK, SingleResponse, Goto, request, transport, rows
<1>15. CASE SingleReturn(c)
  <2>1. ResultError(c, code[c]) \in Errors /\ "error" \in Errors
    BY DEF ResultError, Errors
  <2> QED
    BY <1>15, <2>1
       DEF TypeOK, SingleReturn, CloseStream, Returns, Goto, request, server, rows
<1>16. CASE SingleFails(c)
  BY <1>16 DEF TypeOK, SingleFails, CloseStream, Returns, Goto, Errors, request, server, rows
<1> QED
  BY <1>1, <1>2, <1>3, <1>4, <1>5, <1>6, <1>7, <1>8, <1>9, <1>10, <1>11, <1>12,
     <1>13, <1>14, <1>15, <1>16 DEF Step, Reply, Proceed

\* Nothing of call d changes.
Same(d) ==
  /\ kind'[d] = kind[d] /\ matches'[d] = matches[d] /\ pc'[d] = pc[d]
  /\ stream'[d] = stream[d] /\ serial'[d] = serial[d] /\ open'[d] = open[d]
  /\ served'[d] = served[d] /\ code'[d] = code[d] /\ cookie'[d] = cookie[d]
  /\ out'[d] = out[d] /\ asked'[d] = asked[d] /\ err'[d] = err[d]
  /\ done'[d] = done[d] /\ result'[d] = result[d]

\* A call's step is its own.
LEMMA Elsewhere ==
  ASSUME TypeOK, NEW c \in Calls, Step(c), NEW d \in Calls, d # c
  PROVE  Same(d)
<1> USE Zenon
<1>1. CASE Start(c)
  BY <1>1 DEF TypeOK, Same, Start, StartPage, ExecuteStream, Goto, request, rows
<1>2. CASE StartFails(c)
  BY <1>2 DEF TypeOK, Same, StartFails, Goto, Returns, request, transport, server, rows
<1>3. CASE NextCall(c)
  BY <1>3 DEF TypeOK, Same, NextCall, Goto, request, transport, server
<1>4. CASE NextEntry(c)
  BY <1>4 DEF TypeOK, Same, NextEntry, Goto, request, transport
<1>5. CASE NextReference(c)
  BY <1>5 DEF TypeOK, Same, NextReference, vars, request, transport, server, rows
<1>6. CASE NextFails(c)
  BY <1>6 DEF TypeOK, Same, NextFails, Fails, Goto, request, transport, server
<1>7. CASE \E r, k : NextDone(c, r, k)
  BY <1>7, SMT DEF TypeOK, Same, NextDone, Fails, Goto, request, transport
<1>8. CASE PageEnd(c)
  BY <1>8, SMT DEF TypeOK, Same, PageEnd, CloseStream, Fails, Goto, request, server
<1>9. CASE PageEndFails(c)
  BY <1>9 DEF TypeOK, Same, PageEndFails, CloseStream, Fails, Goto, request, server
<1>10. CASE TurnPage(c)
  BY <1>10 DEF TypeOK, Same, TurnPage, StartPage, ExecuteStream, Goto, request, rows
<1>11. CASE TurnPageFails(c)
  BY <1>11 DEF TypeOK, Same, TurnPageFails, Fails, Goto, request, transport, server
<1>12. CASE Close(c)
  BY <1>12 DEF TypeOK, Same, Close, CloseStream, Returns, Goto, request, server
<1>13. CASE GetReturn(c)
  BY <1>13 DEF TypeOK, Same, GetReturn, CloseStream, Returns, Goto, request, server
<1>14. CASE \E r : SingleResponse(c, r)
  BY <1>14 DEF TypeOK, Same, SingleResponse, Goto, request, transport, rows
<1>15. CASE SingleReturn(c)
  BY <1>15 DEF TypeOK, Same, SingleReturn, CloseStream, Returns, Goto, request, server, rows
<1>16. CASE SingleFails(c)
  BY <1>16 DEF TypeOK, Same, SingleFails, CloseStream, Returns, Goto, request, server, rows
<1> QED
  BY <1>1, <1>2, <1>3, <1>4, <1>5, <1>6, <1>7, <1>8, <1>9, <1>10, <1>11, <1>12,
     <1>13, <1>14, <1>15, <1>16 DEF Step, Reply, Proceed

\* The invariant of a call is about that call alone.
LEMMA SameInv == ASSUME NEW d, CallInv(d), Same(d) PROVE CallInv(d)'
<1> USE Zenon
<1>1. Holds(d)' /\ Stands(d)'
  BY DEF CallInv, Same, Holds, Stands
<1>2. Counts(d)' /\ Ends(d)'
  BY DEF CallInv, Same, Counts, Ends
<1>3. Asks(d)' /\ Returned(d)'
  BY DEF CallInv, Same, Asks, Returned
<1> QED
  BY <1>1, <1>2, <1>3 DEF CallInv

-----------------------------------------------------------------------------
\* The steps of a call keep its invariant.
LEMMA OwnStep ==
  ASSUME TypeOK, NEW c \in Calls, CallInv(c), Step(c)
  PROVE  CallInv(c)'
<1> USE Zenon
<1> USE DEF Searches
<1>0. /\ kind[c] \in CallKinds /\ served[c] \in Nat /\ matches[c] \in Nat
      /\ out[c] \in Seq(Nat) /\ Len(out[c]) \in Nat /\ asked[c] \in 0..2
      /\ serial[c] \in Nat /\ done[c] \in BOOLEAN
  BY LenProperties DEF TypeOK
<1>a. kind[c] = "get" /\ pc[c] \in {"reading", "ending"} => Len(out[c]) # 2
  <2>1. \A a \in 0..2, n \in Nat : a = n + 1 => n # 2
    BY SMT
  <2> QED
    BY <1>0, <2>1 DEF CallInv, Asks
<1>1. CASE Start(c)
  <2>1. /\ pc[c] = "idle" /\ stream[c] = 0
        /\ kind'[c] = kind[c] /\ matches'[c] = matches[c]
        /\ pc'[c] = IF kind[c] \in Searches THEN "between" ELSE "reading"
        /\ stream'[c] = serial[c] + 1 /\ open'[c] = open[c] \cup {serial[c] + 1}
        /\ served'[c] = 0 /\ cookie'[c] = cookie[c] /\ out'[c] = out[c]
        /\ asked'[c] = asked[c] /\ err'[c] = err[c] /\ done'[c] = done[c]
        /\ result'[c] = result[c] /\ code'[c] = "none"
    BY <1>1 DEF TypeOK, Start, StartPage, ExecuteStream, Goto, request, rows
  <2>2. Holds(c)' /\ Stands(c)'
    BY <1>0, <2>1, SMT DEF CallInv, Holds, Stands
  <2>3. out[c] = <<>> /\ ~done[c] /\ err[c] = "none" /\ Len(out[c]) = 0
    BY <2>1 DEF CallInv, Stands
  <2>4. Counts(c)' /\ Ends(c)' /\ Returned(c)'
    BY <2>1, <2>3 DEF CallInv, Counts, Ends, Returned
  <2>5. Asks(c)'
    BY <2>1, <2>3, ZenonT(60) DEF CallInv, Asks
  <2> QED
    BY <2>2, <2>4, <2>5 DEF CallInv
<1>2. CASE StartFails(c)
  <2>1. /\ pc[c] = "idle" /\ pc'[c] = "over" /\ result'[c] = "error"
        /\ kind'[c] = kind[c] /\ matches'[c] = matches[c]
        /\ stream'[c] = stream[c] /\ open'[c] = open[c] /\ served'[c] = served[c]
        /\ out'[c] = out[c] /\ asked'[c] = asked[c] /\ code'[c] = code[c]
        /\ err'[c] = err[c]
    BY <1>2 DEF TypeOK, StartFails, Goto, Returns, request, transport, server, rows
  <2> QED
    BY <2>1 DEF CallInv, Holds, Stands, Counts, Ends, Asks, Returned
<1>3. CASE NextCall(c)
  <2>1. /\ pc[c] = "between"
        /\ kind[c] = "get" => asked[c] = Len(out[c])
        /\ pc'[c] = IF done[c] \/ err[c] # "none" THEN "between" ELSE "reading"
        /\ asked'[c] = IF kind[c] = "get" THEN asked[c] + 1 ELSE asked[c]
        /\ kind'[c] = kind[c] /\ matches'[c] = matches[c] /\ code'[c] = code[c]
        /\ stream'[c] = stream[c] /\ open'[c] = open[c] /\ served'[c] = served[c]
        /\ cookie'[c] = cookie[c] /\ out'[c] = out[c] /\ err'[c] = err[c]
        /\ done'[c] = done[c] /\ result'[c] = result[c]
    BY <1>3 DEF TypeOK, NextCall, Goto, request, transport, server
  <2>2. CASE done[c] \/ err[c] # "none"
    <3>1. pc'[c] = "between" /\ kind[c] \in Searches
      BY <2>1, <2>2 DEF CallInv, Stands
    <3>2. Holds(c)' /\ Stands(c)' /\ Returned(c)' /\ Counts(c)' /\ Ends(c)'
      BY <2>1, <3>1, ZenonT(60) DEF CallInv, Holds, Stands, Returned, Counts, Ends
    <3>3. Asks(c)'
      BY <1>0, <2>1, <2>2, <3>1, SMT DEF CallInv, Asks
    <3> QED
      BY <3>2, <3>3, ZenonT(60) DEF CallInv
  <2>3. CASE ~done[c] /\ err[c] = "none"
    <3>1. pc'[c] = "reading" /\ kind[c] \in Searches
      BY <2>1, <2>3 DEF CallInv, Stands
    <3>2. Holds(c)' /\ Stands(c)' /\ Returned(c)' /\ Counts(c)' /\ Ends(c)'
      BY <2>1, <2>3, <3>1 DEF CallInv, Holds, Stands, Returned, Counts, Ends
    <3>3. Asks(c)'
      <4>1. \A n \in Nat : n <= n + 1
        BY SMT
      <4>2. kind[c] = "get" => asked'[c] = Len(out[c]) + 1 /\ Len(out[c]) <= asked'[c]
        BY <1>0, <2>1, <4>1
      <4> QED
        BY <2>1, <3>1, <4>2 DEF Asks
    <3> QED
      BY <3>2, <3>3 DEF CallInv
  <2> QED
    BY <2>2, <2>3
<1>4. CASE NextEntry(c)
  <2>1. /\ pc[c] = "reading" /\ kind[c] \in Searches /\ pc'[c] = "between"
        /\ served'[c] = served[c] + 1 /\ out'[c] = Append(out[c], served[c] + 1)
        /\ kind'[c] = kind[c] /\ matches'[c] = matches[c] /\ asked'[c] = asked[c]
        /\ stream'[c] = stream[c] /\ open'[c] = open[c] /\ err'[c] = err[c]
        /\ done'[c] = done[c] /\ result'[c] = result[c] /\ code'[c] = code[c]
    BY <1>4 DEF TypeOK, NextEntry, Goto, request, transport
  <2>2. /\ served[c] = Len(out[c]) /\ err[c] = "none" /\ ~done[c]
        /\ out[c] = [i \in 1..Len(out[c]) |-> i]
    BY <2>1 DEF CallInv, Counts, Stands
  <2>3. /\ Len(out'[c]) = Len(out[c]) + 1
        /\ out'[c] = [i \in 1..(Len(out[c]) + 1) |-> i]
    <3> DEFINE s == out[c]
    <3>1. s \in Seq(Nat) /\ s = [i \in 1..Len(s) |-> i]
      BY <1>0, <2>2
    <3>2. out'[c] = Append(s, Len(s) + 1)
      BY <2>1, <2>2
    <3> HIDE DEF s
    <3>3. /\ Len(Append(s, Len(s) + 1)) = Len(s) + 1
          /\ Append(s, Len(s) + 1) = [i \in 1..(Len(s) + 1) |-> i]
      BY <3>1, AppendNext
    <3> QED
      BY <3>2, <3>3 DEF s
  <2>4. Holds(c)' /\ Stands(c)' /\ Ends(c)' /\ Returned(c)'
    BY <2>1, <2>2 DEF CallInv, Holds, Stands, Ends, Returned
  <2>5. Counts(c)'
    BY <2>1, <2>2, <2>3, ZenonT(60) DEF Counts
  <2>6. Asks(c)'
    <3>1. kind[c] = "get" => asked[c] = Len(out[c]) + 1
      BY <2>1 DEF CallInv, Asks
    <3>2. \A n \in Nat : n + 1 <= n + 1
      BY SMT
    <3> QED
      BY <1>0, <2>1, <2>2, <2>3, <3>1, <3>2 DEF Asks
  <2> QED
    BY <2>4, <2>5, <2>6 DEF CallInv
<1>5. CASE NextReference(c)
  <2>1. Same(c)
    BY <1>5 DEF NextReference, Same, vars, request, transport, server, rows
  <2> QED
    BY <2>1, SameInv
<1>6. CASE NextFails(c)
  <2>1. /\ pc[c] \in {"reading", "ending"} /\ kind[c] \in Searches
        /\ pc'[c] = "between" /\ err'[c] = "error" /\ code'[c] = code[c]
        /\ kind'[c] = kind[c] /\ matches'[c] = matches[c] /\ asked'[c] = asked[c]
        /\ stream'[c] = stream[c] /\ open'[c] = open[c] /\ served'[c] = served[c]
        /\ out'[c] = out[c] /\ result'[c] = result[c]
    BY <1>6 DEF TypeOK, NextFails, Fails, Goto, request, transport, server
  <2>2. Holds(c)' /\ Stands(c)' /\ Returned(c)'
    BY <1>0, <2>1 DEF CallInv, Holds, Stands, Returned
  <2>3. Counts(c)' /\ Ends(c)'
    BY <2>1 DEF CallInv, Counts, Ends
  <2>4. Asks(c)'
    BY <1>a, <2>1 DEF CallInv, Asks
  <2> QED
    BY <2>2, <2>3, <2>4 DEF CallInv
<1>7. ASSUME NEW r, NEW k, NextDone(c, r, k) PROVE CallInv(c)'
  <2>1. /\ pc[c] = "reading" /\ kind[c] \in Searches
        /\ \/ k = EmptyCookie /\ (r = "success" => served[c] = matches[c])
           \/ kind[c] = "paged" /\ k = BadControl
           \/ kind[c] = "paged" /\ k = served[c]
    BY <1>7 DEF NextDone
  <2>2. /\ code'[c] = r /\ cookie'[c] = k
        /\ \/ r = "success" /\ pc'[c] = "ending" /\ err'[c] = err[c]
           \/ /\ pc'[c] = "between" /\ r # "success"
              /\ err'[c] = ResultError(c, r)
        /\ kind'[c] = kind[c] /\ matches'[c] = matches[c] /\ asked'[c] = asked[c]
        /\ stream'[c] = stream[c] /\ open'[c] = open[c] /\ served'[c] = served[c]
        /\ out'[c] = out[c] /\ done'[c] = done[c] /\ result'[c] = result[c]
    BY <1>7, SMT DEF TypeOK, NextDone, Fails, Goto, request, transport
  <2>a. /\ ResultError(c, r) \in {"error", "notfound"}
        /\ ResultError(c, r) = "notfound" <=> r = "noSuchObject"
    BY <2>1 DEF ResultError
  <2>3. Holds(c)' /\ Stands(c)' /\ Counts(c)' /\ Returned(c)'
    BY <2>1, <2>2 DEF CallInv, Holds, Stands, Counts, Returned
  <2>4. Asks(c)'
    BY <1>a, <2>1, <2>2, <2>a DEF CallInv, Asks
  <2>5. Ends(c)'
    <3>1. served[c] # EmptyCookie /\ BadControl # EmptyCookie
      BY <1>0, SMT DEF EmptyCookie, BadControl
    <3>2. CASE r = "success" /\ pc'[c] = "ending"
      <4>1. err'[c] = "none" /\ done'[c] = FALSE
        BY <1>0, <2>1, <2>2, <3>2 DEF CallInv, Stands
      <4> QED
        BY <2>1, <2>2, <3>1, <3>2, <4>1 DEF Ends
    <3>3. CASE pc'[c] = "between" /\ err'[c] = ResultError(c, r)
      BY <2>2, <2>a, <3>3 DEF Ends
    <3> QED
      BY <2>2, <3>2, <3>3
  <2> QED
    BY <2>3, <2>4, <2>5 DEF CallInv
<1>8. CASE PageEnd(c) \/ PageEndFails(c)
  <2>1. /\ pc[c] = "ending" /\ kind[c] \in Searches
        /\ stream'[c] = 0 /\ open'[c] = open[c] \ {stream[c]}
        /\ kind'[c] = kind[c] /\ matches'[c] = matches[c] /\ asked'[c] = asked[c]
        /\ served'[c] = served[c] /\ code'[c] = code[c] /\ cookie'[c] = cookie[c]
        /\ out'[c] = out[c] /\ result'[c] = result[c]
    BY <1>8 DEF TypeOK, PageEnd, PageEndFails, CloseStream, request, server
  <2>2. \/ /\ kind[c] # "paged" \/ cookie[c] = EmptyCookie
           /\ pc'[c] = "between" /\ done'[c] = TRUE /\ err'[c] = err[c]
        \/ pc'[c] = "between" /\ err'[c] = "error" /\ done'[c] = done[c]
        \/ /\ kind[c] = "paged" /\ cookie[c] \notin {EmptyCookie, BadControl}
           /\ pc'[c] = "turning" /\ err'[c] = err[c] /\ done'[c] = done[c]
    BY <1>8 DEF TypeOK, PageEnd, PageEndFails, Fails, Goto
  <2>3. Holds(c)' /\ Counts(c)' /\ Returned(c)'
    BY <2>1, <2>2 DEF CallInv, Holds, Counts, Returned
  <2>4. Stands(c)' /\ Ends(c)'
    BY <2>1, <2>2, ZenonT(60) DEF CallInv, Stands, Ends
  <2>5. Asks(c)'
    BY <1>a, <2>1, <2>2 DEF CallInv, Asks
  <2> QED
    BY <2>3, <2>4, <2>5 DEF CallInv
<1>9. CASE TurnPage(c)
  <2>1. /\ pc[c] = "turning" /\ stream[c] = 0 /\ pc'[c] = "reading"
        /\ stream'[c] = serial[c] + 1 /\ open'[c] = open[c] \cup {serial[c] + 1}
        /\ served'[c] = IF cookie[c] = EmptyCookie THEN 0 ELSE cookie[c]
        /\ kind'[c] = kind[c] /\ matches'[c] = matches[c] /\ asked'[c] = asked[c]
        /\ out'[c] = out[c] /\ err'[c] = err[c] /\ done'[c] = done[c]
        /\ result'[c] = result[c] /\ code'[c] = "none"
    BY <1>9 DEF TypeOK, TurnPage, StartPage, ExecuteStream, Goto, request, rows
  <2>2. kind[c] = "paged" /\ served'[c] = served[c] /\ err[c] = "none" /\ ~done[c]
    <3>1. served[c] # EmptyCookie
      BY <1>0, SMT DEF EmptyCookie
    <3> QED
      BY <2>1, <3>1 DEF CallInv, Stands
  <2>3. Holds(c)'
    <3>1. serial[c] + 1 # 0
      BY <1>0, SMT
    <3> QED
      BY <2>1, <3>1 DEF CallInv, Holds
  <2>4. Stands(c)' /\ Counts(c)' /\ Ends(c)' /\ Returned(c)'
    BY <2>1, <2>2 DEF CallInv, Stands, Counts, Ends, Returned
  <2>5. Asks(c)'
    BY <2>1, <2>2 DEF Asks
  <2> QED
    BY <2>3, <2>4, <2>5 DEF CallInv
<1>10. CASE TurnPageFails(c)
  <2>1. /\ pc[c] = "turning" /\ pc'[c] = "between" /\ err'[c] = "error"
        /\ kind'[c] = kind[c] /\ matches'[c] = matches[c] /\ asked'[c] = asked[c]
        /\ stream'[c] = stream[c] /\ open'[c] = open[c] /\ served'[c] = served[c]
        /\ out'[c] = out[c] /\ result'[c] = result[c] /\ code'[c] = code[c]
    BY <1>10 DEF TypeOK, TurnPageFails, Fails, Goto, request, transport, server
  <2>2. Holds(c)' /\ Stands(c)' /\ Returned(c)'
    BY <1>0, <2>1 DEF CallInv, Holds, Stands, Returned
  <2>3. Counts(c)' /\ Ends(c)' /\ Asks(c)'
    BY <2>1 DEF CallInv, Counts, Stands, Ends, Asks
  <2> QED
    BY <2>2, <2>3 DEF CallInv
<1>11. CASE Close(c)
  <2>1. /\ pc[c] = "between" /\ kind[c] # "get" /\ pc'[c] = "over"
        /\ stream'[c] = 0 /\ open'[c] = open[c] \ {stream[c]}
        /\ kind'[c] = kind[c] /\ matches'[c] = matches[c] /\ served'[c] = served[c]
        /\ code'[c] = code[c] /\ out'[c] = out[c] /\ err'[c] = err[c]
        /\ result'[c] = IF err[c] # "none" THEN err[c] ELSE IF done[c] THEN "ok" ELSE "stopped"
    BY <1>11 DEF TypeOK, Close, CloseStream, Returns, Goto, request, server
  <2>2. Holds(c)' /\ Stands(c)' /\ Counts(c)' /\ Ends(c)' /\ Asks(c)'
    BY <2>1 DEF CallInv, Holds, Stands, Counts, Ends, Asks
  <2>3. kind[c] \in Searches /\ err[c] \in {"none", "error", "notfound"}
    BY <2>1 DEF CallInv, Stands, TypeOK, Errors
  <2>4. result'[c] = "ok" => Len(out[c]) = matches[c]
    <3>1. result'[c] = "ok" => done[c] /\ err[c] = "none"
      BY <2>1, <2>3
    <3> QED
      BY <2>1, <2>3, <3>1 DEF CallInv, Ends, Counts
  <2>5. /\ result'[c] = "notfound" => code[c] = "noSuchObject"
        /\ code[c] = "noSuchObject" => result'[c] = "notfound"
        /\ result'[c] \notin {"true", "false"}
    BY <2>1, <2>3 DEF CallInv, Ends
  <2>6. Returned(c)'
    BY <2>1, <2>3, <2>4, <2>5 DEF Returned
  <2> QED
    BY <2>2, <2>6 DEF CallInv
<1>12. CASE GetReturn(c)
  <2>1. /\ pc[c] = "between" /\ kind[c] = "get" /\ pc'[c] = "over"
        /\ asked[c] > Len(out[c]) \/ Len(out[c]) = 2
        /\ stream'[c] = 0 /\ open'[c] = open[c] \ {stream[c]}
        /\ kind'[c] = kind[c] /\ matches'[c] = matches[c] /\ served'[c] = served[c]
        /\ code'[c] = code[c] /\ out'[c] = out[c] /\ asked'[c] = asked[c]
        /\ err'[c] = err[c]
        /\ result'[c] = IF Len(out[c]) = 2 THEN "error"
                        ELSE IF err[c] # "none" THEN err[c]
                        ELSE IF Len(out[c]) = 0 THEN "notfound" ELSE "ok"
    BY <1>12 DEF TypeOK, GetReturn, CloseStream, Returns, Goto, request, server
  <2>2. Holds(c)' /\ Stands(c)' /\ Counts(c)' /\ Ends(c)' /\ Asks(c)'
    BY <2>1 DEF CallInv, Holds, Stands, Counts, Ends, Asks
  <2>a. /\ pc'[c] = "over" /\ kind'[c] = "get" /\ kind[c] = "get"
        /\ code'[c] = code[c] /\ matches'[c] = matches[c]
    BY <2>1
  <2>3. CASE Len(out[c]) = 2
    <3>1. err[c] = "none" /\ result'[c] = "error"
      BY <2>1, <2>3 DEF CallInv, Asks
    <3>2. code[c] # "noSuchObject"
      BY <2>1, <3>1 DEF CallInv, Ends
    <3> QED
      BY <2>2, <2>a, <3>1, <3>2 DEF CallInv, Returned
  <2>4. CASE Len(out[c]) # 2 /\ err[c] # "none"
    <3>1. result'[c] = err[c] /\ err[c] \in {"error", "notfound"}
      BY <2>1, <2>4 DEF TypeOK, Errors
    <3>2. err[c] = "notfound" <=> code[c] = "noSuchObject"
      BY <2>1 DEF CallInv, Ends
    <3> QED
      BY <2>2, <2>a, <3>1, <3>2 DEF CallInv, Returned
  <2>5. CASE Len(out[c]) # 2 /\ err[c] = "none"
    <3>1. asked[c] # Len(out[c]) /\ Len(out[c]) \in {0, 1}
      <4>1. asked[c] > Len(out[c])
        BY <2>1, <2>5
      <4>2. \A a \in 0..2, n \in Nat : a > n => a # n /\ n \in {0, 1}
        BY SMT
      <4> QED
        BY <1>0, <4>1, <4>2
    <3>2. done[c]
      BY <2>1, <2>5, <3>1 DEF CallInv, Asks
    <3>3. code[c] = "success" /\ matches[c] = Len(out[c])
      BY <2>1, <2>5, <3>2 DEF CallInv, Ends, Counts
    <3>4. \/ Len(out[c]) = 0 /\ result'[c] = "notfound"
          \/ Len(out[c]) = 1 /\ result'[c] = "ok"
      <4>1. 1 # 0
        BY SMT
      <4> QED
        BY <2>1, <2>5, <3>1, <4>1
    <3> QED
      BY <2>2, <2>a, <3>3, <3>4 DEF CallInv, Returned
  <2> QED
    BY <2>3, <2>4, <2>5
<1>13. ASSUME NEW r, SingleResponse(c, r) PROVE CallInv(c)'
  <2>1. /\ pc[c] = "reading" /\ kind[c] \notin Searches /\ pc'[c] = "ending"
        /\ kind'[c] = kind[c] /\ stream'[c] = stream[c] /\ open'[c] = open[c]
        /\ out'[c] = out[c] /\ err'[c] = err[c] /\ done'[c] = done[c]
        /\ result'[c] = result[c]
    BY <1>13 DEF TypeOK, SingleResponse, Goto, request, transport, rows
  <2> QED
    BY <2>1 DEF CallInv, Holds, Stands, Counts, Ends, Asks, Returned
<1>14. CASE SingleReturn(c) \/ SingleFails(c)
  <2>1. /\ kind[c] \notin Searches /\ pc'[c] = "over"
        /\ stream'[c] = 0 /\ open'[c] = open[c] \ {stream[c]}
        /\ kind'[c] = kind[c] /\ code'[c] = code[c] /\ out'[c] = out[c]
    BY <1>14 DEF TypeOK, SingleReturn, SingleFails, CloseStream, Goto, request,
                 server, rows
  <2>2. \/ result'[c] = "error"
        \/ /\ result'[c] = "notfound"
           /\ code[c] = "noSuchObject" /\ kind[c] # "whoami"
        \/ result'[c] = "ok" /\ code[c] = "success" /\ kind[c] # "compare"
        \/ /\ result'[c] = code[c] /\ code[c] \in {"true", "false"}
           /\ kind[c] = "compare"
    <3>1. CASE SingleFails(c)
      BY <3>1 DEF TypeOK, SingleFails, Returns
    <3>2. CASE SingleReturn(c)
      <4>1. result'[c] = IF code[c] \notin Accepted(c) THEN ResultError(c, code[c])
                         ELSE IF kind[c] \in {"write", "whoami"} THEN "ok"
                         ELSE IF code[c] \in {"true", "false"} THEN code[c] ELSE "error"
        BY <3>2 DEF TypeOK, SingleReturn, Returns
      <4>2. kind[c] \in {"write", "whoami", "compare"}
        BY <1>0, <2>1 DEF CallKinds
      <4>3. CASE code[c] \notin Accepted(c)
        BY <4>1, <4>3 DEF ResultError
      <4>4. CASE code[c] \in Accepted(c)
        BY <4>1, <4>2, <4>4 DEF Accepted
      <4> QED
        BY <4>3, <4>4
    <3> QED
      BY <1>14, <3>1, <3>2
  <2>3. Holds(c)' /\ Stands(c)' /\ Counts(c)' /\ Ends(c)' /\ Asks(c)'
    BY <2>1 DEF CallInv, Holds, Stands, Counts, Ends, Asks
  <2>4. Returned(c)'
    BY <2>1, <2>2 DEF Returned
  <2> QED
    BY <2>3, <2>4 DEF CallInv
<1> QED
  BY <1>1, <1>2, <1>3, <1>4, <1>5, <1>6, <1>7, <1>8, <1>9, <1>10, <1>11, <1>12,
     <1>13, <1>14 DEF Step, Reply, Proceed

-----------------------------------------------------------------------------
\* The invariant is kept by the steps of all calls.
LEMMA ClientStep == ClientInv /\ [Next]_vars => ClientInv'
<1> USE Zenon
<1> SUFFICES ASSUME ClientInv, [Next]_vars PROVE ClientInv'
  OBVIOUS
<1>1. ASSUME NEW c \in Calls, Step(c) PROVE ClientInv'
  <2>1. TypeOK'
    BY <1>1, TypeStep DEF ClientInv, CallInv
  <2>2. ASSUME NEW d \in Calls PROVE CallInv(d)'
    <3>1. CASE d = c
      BY <1>1, <3>1, OwnStep DEF ClientInv
    <3>2. CASE d # c
      <4>1. Same(d)
        BY <1>1, <2>2, <3>2, Elsewhere DEF ClientInv
      <4> QED
        BY <2>2, <4>1, SameInv DEF ClientInv
    <3> QED
      BY <3>1, <3>2
  <2> QED
    BY <2>1, <2>2 DEF ClientInv
<1>2. CASE UNCHANGED vars
  <2>1. TypeOK'
    BY <1>2 DEF ClientInv, TypeOK, vars, request, transport, server, rows
  <2>2. ASSUME NEW d \in Calls PROVE CallInv(d)'
    <3>1. Same(d)
      BY <1>2 DEF Same, vars, request, transport, server, rows
    <3> QED
      BY <2>2, <3>1, SameInv DEF ClientInv
  <2> QED
    BY <2>1, <2>2 DEF ClientInv
<1> QED
  BY <1>1, <1>2 DEF Next, Finished

\* Every reachable state of the Client's calls satisfies the invariant.
LEMMA ClientInvAlways == Spec => []ClientInv
  BY ClientInit, ClientStep, PTL DEF Spec

\* No call loses a response stream of the executor: Next closes a page's
\* stream before the next page, and the deferred Close of Get, ExecuteSingle
\* and Entries.Close close the last (client.go closeStream).
THEOREM StreamsReleasedAlways == Spec => []StreamsReleased
<1> USE Zenon
<1>1. ClientInv => StreamsReleased
  BY DEF ClientInv, CallInv, Holds, StreamsReleased
<1> QED
  BY <1>1, ClientInvAlways, PTL

\* A search returns the matching entries in order, each once, over any number
\* of pages of any size (client.go Entries.Next, startPage).
THEOREM EntriesExactAlways == Spec => []EntriesExact
<1> USE Zenon
<1>1. ClientInv => EntriesExact
  <2> SUFFICES ASSUME ClientInv, NEW c \in Calls
               PROVE  /\ out[c] = [i \in 1..Len(out[c]) |-> i]
                      /\ kind[c] # "get" /\ result[c] = "ok" /\ kind[c] \in Searches =>
                            Len(out[c]) = matches[c]
    BY DEF EntriesExact
  <2>1. Counts(c) /\ Stands(c) /\ Returned(c)
    BY DEF ClientInv, CallInv
  <2> QED
    BY <2>1 DEF Counts, Stands, Returned
<1> QED
  BY <1>1, ClientInvAlways, PTL

\* Get, the writes, Compare and WhoAmI answer what the server answered, and
\* ErrNotFound stands for noSuchObject or for a Get without an entry (client.go
\* Get, ExecuteSingle, compare, ResultError.Is).
THEOREM AnswerTruthfulAlways == Spec => []AnswerTruthful
<1> USE Zenon
<1>1. ClientInv => AnswerTruthful
  <2> SUFFICES ASSUME ClientInv, NEW c \in Calls
               PROVE  /\ kind[c] = "get" /\ result[c] = "ok" =>
                           code[c] = "success" /\ matches[c] = 1
                      /\ result[c] = "notfound" =>
                           \/ code[c] = "noSuchObject" /\ kind[c] # "whoami"
                           \/ code[c] = "success" /\ kind[c] = "get" /\ matches[c] = 0
                      /\ kind[c] \in Searches /\ pc[c] = "over" /\ code[c] = "noSuchObject" =>
                           result[c] = "notfound"
                      /\ kind[c] \in {"write", "whoami"} /\ result[c] = "ok" =>
                           code[c] = "success"
                      /\ kind[c] = "compare" => result[c] # "ok"
                      /\ result[c] \in {"true", "false"} =>
                           kind[c] = "compare" /\ code[c] = result[c]
    BY DEF AnswerTruthful
  <2>1. Stands(c) /\ Returned(c)
    BY DEF ClientInv, CallInv
  <2>2. CASE pc[c] = "over"
    BY <2>1, <2>2 DEF Returned
  <2>3. CASE pc[c] # "over"
    BY <2>1, <2>3 DEF Stands
  <2> QED
    BY <2>2, <2>3
<1> QED
  BY <1>1, ClientInvAlways, PTL

\* Once a search is done or has failed it stays so, and reads nothing more
\* (client.go Entries.Next, Err).
THEOREM StopFinalAlways == Spec => StopFinal
<1> USE Zenon
<1> DEFINE Stop(c) == done[c] \/ err[c] # "none" =>
        /\ out'[c] = out[c] /\ serial'[c] = serial[c]
        /\ err'[c] = err[c] /\ (done[c] => done'[c])
<1>1. ASSUME ClientInv, [Next]_vars, NEW c \in Calls PROVE Stop(c)
  <2>1. ASSUME Same(c) PROVE Stop(c)
    BY <2>1 DEF Same
  <2>2. ASSUME Step(c), done[c] \/ err[c] # "none" PROVE Stop(c)
    <3>1. pc[c] \notin {"idle", "reading", "ending", "turning"}
      BY <1>1, <2>2, ZenonT(60) DEF ClientInv, CallInv, Stands
    <3>2. NextCall(c) \/ Close(c) \/ GetReturn(c)
      BY <2>2, <3>1
         DEF Step, Reply, Proceed, Start, StartFails, NextEntry, NextReference,
             NextFails, NextDone, PageEnd, PageEndFails, TurnPage, TurnPageFails,
             SingleResponse, SingleReturn, SingleFails
    <3>3. UNCHANGED <<out, serial, err>> /\ (done[c] => done'[c])
      <4>1. CASE NextCall(c)
        BY <4>1 DEF NextCall, transport
      <4>2. CASE Close(c) \/ GetReturn(c)
        BY <1>1, <4>2 DEF Close, GetReturn, CloseStream, ClientInv, TypeOK
      <4> QED
        BY <3>2, <4>1, <4>2
    <3> QED
      BY <3>3
  <2>3. CASE UNCHANGED vars
    BY <2>1, <2>3 DEF Same, vars, request, transport, server, rows
  <2>4. ASSUME NEW d \in Calls, Step(d), d # c PROVE Stop(c)
    BY <1>1, <2>1, <2>4, Elsewhere DEF ClientInv
  <2> QED
    BY <1>1, <2>2, <2>3, <2>4 DEF Next, Finished
<1>2. ClientInv /\ [Next]_vars => [\A c \in Calls : Stop(c)]_vars
  BY <1>1
<1> QED
  BY <1>2, ClientInvAlways, PTL DEF Spec, StopFinal

=============================================================================
