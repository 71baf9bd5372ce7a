----------------------------- MODULE SetupProofs ----------------------------
(***************************************************************************)
(* What authentication promises, for every number of GSSAPI rounds: the    *)
(* handles of the library are released exactly once, and an identity is    *)
(* earned.  Both are shown of the authenticator on its own (AuthSpec), and *)
(* then of setup as a whole, which implements it.                          *)
(***************************************************************************)
EXTENDS Setup, TLAPS

-----------------------------------------------------------------------------
(***************************************************************************)
(* Handles.  A handle the library gave out is owned by the authenticator,  *)
(* through a field or (in Begin) a local, or it has been released.         *)
(***************************************************************************)
Owned == IF auth = "begun" THEN {"provider"} ELSE field

AuthStates == {"begin", "bound", "begun", "import", "init", "continue", "token",
               "reply", "unwrap", "wrap", "select", "final", "close", "over"}

HandleInv ==
    /\ auth \in AuthStates
    /\ got \subseteq Handles
    /\ Owned \subseteq got
    /\ freed = [h \in Handles |-> IF h \in got \ Owned THEN 1 ELSE 0]
    /\ auth \in {"begin", "bound"} => got = {} /\ field = {}
    /\ auth = "begun" => got = {"provider"} /\ field = {}
    /\ auth = "import" => got = {"provider"}
    /\ auth = "init" => got = {"provider", "name"} /\ "name" \in field
    /\ auth = "over" => field = {}

\* The invariant says what Begin, Authenticate and Close promise.
LEMMA HandleInvImplies == HandleInv => HandlesReleased
<1> USE Zenon
<1> SUFFICES ASSUME HandleInv PROVE HandlesReleased
  OBVIOUS
<1>1. \A h \in Handles : freed[h] = IF h \in got \ Owned THEN 1 ELSE 0
  BY DEF HandleInv
<1>2. \A h \in field : h \in Handles /\ h \in Owned
  BY DEF HandleInv, Owned
<1>3. auth = "over" => Owned = {} /\ got \subseteq Handles
  BY DEF HandleInv, Owned
<1> QED
  BY <1>1, <1>2, <1>3, SMT DEF HandlesReleased

\* Begin has no handle yet.
LEMMA HandleInvInit == AuthInit => HandleInv
BY Zenon DEF AuthInit, HandleInv, Owned, AuthStates, Handles

\* Every step of the authenticator keeps the books.
LEMMA HandleInvStep ==
    ASSUME ~NameWithError, HandleInv, AuthStep
    PROVE  HandleInv'
<1> USE Zenon
<1> USE DEF HandleInv, Owned, AuthStates, Handles
<1>1. CASE Unauthenticated
  BY <1>1 DEF Unauthenticated, held
<1>2. CASE BindStart
  BY <1>2 DEF BindStart, BeginFails, Ask, held
<1>3. CASE BindReturn
  BY <1>3 DEF BindReturn, Abort, held
<1>4. CASE NewProvider
  <2>1. auth = "begin" /\ got = {} /\ field = {} /\ field' = field
    BY <1>4 DEF NewProvider, held
  <2>2. CASE got' = got /\ freed' = freed /\ auth' = "over"
    BY <2>1, <2>2
  <2>3. CASE got' = {"provider"} /\ Release({"provider"}) /\ auth' = "over"
    BY <2>1, <2>3, SMT DEF Release
  <2>4. CASE got' = {"provider"} /\ freed' = freed /\ auth' = "begun"
    BY <2>1, <2>4
  <2> QED
    BY <1>4, <2>1, <2>2, <2>3, <2>4 DEF NewProvider, BeginFails, held
<1>5. CASE Begun
  BY <1>5, SMT DEF Begun, BeginFails, Release
<1>6. CASE ImportName
  BY <1>6 DEF ImportName, Abort, held
<1>7. CASE InitSecContext
  BY <1>7, SMT DEF InitSecContext, Abort, Release, held
<1>8. CASE Continue
  BY <1>8 DEF Continue, Abort, held
<1>9. CASE SendToken
  BY <1>9 DEF SendToken, Abort, Ask, held
<1>10. CASE TokenReply
  BY <1>10 DEF TokenReply, Abort, held
<1>11. CASE Unwrap
  BY <1>11 DEF Unwrap, Abort, held
<1>12. CASE Wrap
  BY <1>12 DEF Wrap, Abort, held
<1>13. CASE SendSelection
  BY <1>13 DEF SendSelection, Abort, Ask, held
<1>14. CASE FinalReply
  BY <1>14 DEF FinalReply, Abort, held
<1>15. CASE CloseAuth
  BY <1>15, SMT DEF CloseAuth, Release
<1> QED
  BY <1>1, <1>2, <1>3, <1>4, <1>5, <1>6, <1>7, <1>8, <1>9, <1>10, <1>11,
     <1>12, <1>13, <1>14, <1>15 DEF AuthStep

\* The server's answers and the deadline do not touch the handles.
LEMMA HandleInvNext ==
    ASSUME ~NameWithError
    PROVE  HandleInv /\ [AuthNext]_<<authVars, ctxDone>> => HandleInv'
<1> USE Zenon
<1> SUFFICES ASSUME HandleInv, [AuthNext]_<<authVars, ctxDone>> PROVE HandleInv'
  OBVIOUS
<1>1. ASSUME UNCHANGED <<auth, held>> PROVE HandleInv'
  BY <1>1 DEF HandleInv, Owned, held
<1>2. CASE AuthStep
  BY <1>2, HandleInvStep
<1>3. CASE \E r \in Result : Answered(r)
  BY <1>1, <1>3 DEF Answered
<1>4. CASE UNCHANGED authVars
  BY <1>1, <1>4 DEF authVars
<1> QED
  BY <1>2, <1>3, <1>4 DEF AuthNext

\* Every GSSAPI handle is released exactly once, on every path out of Begin,
\* Authenticate and Close (auth/gssapi/gssapi.go), whatever the library, the
\* server and the context do, if the library's ImportName gives out no name
\* when it fails.
THEOREM HandlesReleasedAlways == ~NameWithError /\ AuthSpec => []HandlesReleased
<1> USE Zenon
<1>1. ASSUME ~NameWithError PROVE AuthSpec => []HandlesReleased
  <2>1. HandleInv /\ [AuthNext]_<<authVars, ctxDone>> => HandleInv'
    BY <1>1, HandleInvNext
  <2> QED
    BY <2>1, HandleInvInit, HandleInvImplies, PTL DEF AuthSpec
<1> QED
  BY <1>1

-----------------------------------------------------------------------------
(***************************************************************************)
(* The identity.  The history of answers grows with the conversation: one  *)
(* answer with a token for each round, then the final one.                 *)
(***************************************************************************)
Progress == [code |-> "progress", creds |-> TRUE]

\* n rounds have been answered, and nothing else.
Progressed(n) == Len(binds) = n /\ \A k \in 1..n : binds[k] = Progress

\* A Bind was sent after n rounds; its answer, once there, is the last one.
AwaitedAfter(n) ==
    \/ exchange.code \in {"asked", "error"} /\ Progressed(n)
    \/ /\ exchange \in Response
       /\ Len(binds) = n + 1 /\ binds[n + 1] = exchange
       /\ \A k \in 1..n : binds[k] = Progress

TalkType ==
    /\ auth \in AuthStates
    /\ binds \in Seq(Response)
    /\ round \in 0 .. MaxRounds
    /\ info \in Info
    /\ exchange \in Response \cup {Bind("none"), Bind("asked"), Bind("error")}

\* What has been said by the time the conversation is at a.
Said(a) ==
    CASE a = "begin" -> binds = <<>> /\ round = 0
      [] a = "bound" -> mech = "bind" /\ AwaitedAfter(0)
      [] a \in {"begun", "import", "init"} ->
            mech = "gssapi" /\ binds = <<>> /\ round = 0
      [] a = "continue" -> mech = "gssapi" /\ Progressed(round)
      [] a = "token" -> mech = "gssapi" /\ round >= 1 /\ Progressed(round - 1)
      [] a = "reply" -> /\ mech = "gssapi" /\ round >= 1
                        /\ AwaitedAfter(round - 1)
                        /\ info.full # info.needed
      [] a = "unwrap" -> /\ mech = "gssapi" /\ Progressed(round)
                         /\ info.full /\ ~info.needed
      [] a = "wrap" -> /\ mech = "gssapi" /\ Progressed(round)
                       /\ info.full /\ ~info.needed /\ info.sound
      [] a = "select" -> /\ mech = "gssapi" /\ Progressed(round)
                         /\ info.full /\ ~info.needed /\ info.sound
                         /\ offer \in {"auth", "any"}
      [] a = "final" -> /\ mech = "gssapi" /\ AwaitedAfter(round)
                        /\ info.full /\ ~info.needed /\ info.sound
                        /\ offer \in {"auth", "any"}
      [] OTHER -> failed \/ Earned

IdentityInv ==
    /\ TalkType
    /\ exchange.code = "asked" => auth \in {"bound", "reply", "final"}
    /\ Said(auth)

\* Once authenticate is over, what has been said is what earns the identity.
LEMMA IdentityInvImplies == IdentityInv => IdentityEarned
BY Zenon DEF IdentityInv, IdentityEarned, Said

\* Nothing has been said at first.
LEMMA IdentityInvInit == AuthInit => IdentityInv
<1> USE Zenon
<1> SUFFICES ASSUME AuthInit PROVE IdentityInv
  OBVIOUS
<1>1. TalkType
  BY AuthAssumption, SMT DEF AuthInit, TalkType, AuthStates, NoInfo, Info
<1> QED
  BY <1>1 DEF AuthInit, IdentityInv, Said, Bind

\* A new answer is the last of the history.
LEMMA AnswerRecorded ==
    ASSUME TalkType, NEW n \in Nat, Progressed(n), NEW r \in Result,
           exchange.code = "asked", Answered(r)
    PROVE  AwaitedAfter(n)'
<1> USE Zenon
<1>1. CASE r.code = "error"
  BY <1>1 DEF Answered, AwaitedAfter, Progressed
<1>2. CASE r.code # "error"
  <2>1. r \in Response
    BY <1>2, SMT DEF Result, Bind
  <2>2. exchange' = r /\ binds' = Append(binds, r) /\ binds \in Seq(Response)
    BY <1>2 DEF Answered, TalkType
  <2>3. /\ Len(binds') = n + 1 /\ binds'[n + 1] = r
        /\ \A k \in 1..n : binds'[k] = binds[k]
    BY <2>1, <2>2, SMT DEF Progressed
  <2> QED
    BY <2>1, <2>2, <2>3 DEF AwaitedAfter, Progressed
<1> QED
  BY <1>1, <1>2

\* The server answers: the history has grown by what the authenticator sees.
LEMMA AnswerKeeps ==
    ASSUME IdentityInv, NEW r \in Result, Answered(r)
    PROVE  IdentityInv'
<1> USE Zenon
<1>1. exchange.code = "asked" /\ auth \in {"bound", "reply", "final"}
  BY DEF Answered, IdentityInv
<1>2. UNCHANGED <<mech, auth, round, info, offer, failed>>
  BY DEF Answered, talk
<1>3. TalkType'
  <2>1. r.code # "error" => r \in Response
    BY SMT DEF Result, Bind
  <2>2. binds' \in Seq(Response)
    BY <2>1, SMT DEF Answered, IdentityInv, TalkType
  <2>3. exchange' = r
    BY DEF Answered
  <2> QED
    BY <1>2, <2>2, <2>3 DEF Result, IdentityInv, TalkType
<1>4. exchange'.code # "asked"
  <2>1. r.code # "asked"
    BY SMT DEF Result, Response, Bind
  <2> QED
    BY <2>1 DEF Answered
<1>5. ASSUME NEW n \in Nat, AwaitedAfter(n) PROVE AwaitedAfter(n)'
  <2>1. exchange \notin Response
    BY <1>1 DEF Response
  <2>2. Progressed(n)
    BY <1>5, <2>1 DEF AwaitedAfter
  <2> QED
    BY <1>1, <2>2, AnswerRecorded DEF IdentityInv
<1>6. round \in Nat /\ (round >= 1 => round - 1 \in Nat)
  BY AuthAssumption, SMT DEF IdentityInv, TalkType
<1>7. Said(auth)'
  BY <1>1, <1>2, <1>5, <1>6 DEF Said, IdentityInv
<1> QED
  BY <1>2, <1>3, <1>4, <1>7 DEF IdentityInv

\* A step that fails leaves nothing to be earned.
LEMMA AbortKeeps ==
    ASSUME TalkType', auth' \in {"close", "over"}, failed' = TRUE,
           exchange'.code # "asked"
    PROVE  IdentityInv'
BY Zenon DEF IdentityInv, Said

\* The conversation advances only on the answer it waits for.
LEMMA IdentityInvStep ==
    ASSUME IdentityInv, AuthStep
    PROVE  IdentityInv'
<1> USE Zenon
<1>0. /\ TalkType /\ MaxRounds \in Nat
      /\ Bind("none").code = "none" /\ Bind("asked").code = "asked"
  BY AuthAssumption DEF IdentityInv, Bind
<1> USE DEF AuthStates
<1>1. CASE Unauthenticated
  BY <1>0, <1>1 DEF Unauthenticated, talk, TalkType, IdentityInv, Said, Earned
<1>2. CASE BindStart
  <2>1. TalkType'
    BY <1>0, <1>2 DEF BindStart, BeginFails, Ask, talk, TalkType
  <2>2. CASE ctxDone
    BY <1>2, <2>1, <2>2, AbortKeeps DEF BindStart, BeginFails, IdentityInv
  <2>3. CASE ~ctxDone
    <3>1. auth' = "bound" /\ mech' = "bind" /\ binds' = <<>> /\ exchange'.code = "asked"
      BY <1>0, <1>2, <2>3 DEF BindStart, Ask, IdentityInv, Said
    <3> QED
      BY <2>1, <3>1, SMT DEF IdentityInv, Said, AwaitedAfter, Progressed
  <2> QED
    BY <2>2, <2>3
<1>3. CASE BindReturn
  <2>1. TalkType' /\ exchange'.code # "asked"
    BY <1>0, <1>3 DEF BindReturn, Abort, talk, TalkType
  <2>2. CASE exchange.code # "success"
    BY <1>3, <2>1, <2>2, AbortKeeps DEF BindReturn, Abort
  <2>3. CASE exchange.code = "success"
    <3>1. mech = "bind" /\ Len(binds) = 1 /\ binds[1] = exchange
      BY <1>3, <2>3, SMT DEF BindReturn, IdentityInv, Said, AwaitedAfter
    <3>2. Earned'
      BY <1>0, <1>3, <2>3, <3>1, SMT DEF BindReturn, Earned, Bound, TalkType
    <3> QED
      BY <1>3, <2>1, <2>3, <3>2 DEF BindReturn, IdentityInv, Said
  <2> QED
    BY <2>2, <2>3
<1>4. CASE NewProvider
  <2>1. TalkType' /\ exchange'.code # "asked"
    BY <1>0, <1>4 DEF NewProvider, BeginFails, talk, TalkType, IdentityInv
  <2>2. CASE auth' = "over" /\ failed' = TRUE
    BY <2>1, <2>2, AbortKeeps
  <2>3. CASE auth' = "begun"
    BY <1>4, <2>1, <2>3 DEF NewProvider, talk, IdentityInv, Said
  <2> QED
    BY <1>4, <2>2, <2>3 DEF NewProvider, BeginFails
<1>5. CASE Begun
  <2>1. TalkType' /\ exchange'.code # "asked"
    BY <1>0, <1>5 DEF Begun, BeginFails, talk, TalkType, IdentityInv
  <2>2. CASE auth' = "over" /\ failed' = TRUE
    BY <2>1, <2>2, AbortKeeps
  <2>3. CASE auth' = "import"
    BY <1>5, <2>1, <2>3 DEF Begun, talk, IdentityInv, Said
  <2> QED
    BY <1>5, <2>2, <2>3 DEF Begun, BeginFails
<1>6. CASE ImportName
  <2>1. TalkType' /\ exchange'.code # "asked"
    BY <1>0, <1>6 DEF ImportName, Abort, talk, TalkType, IdentityInv
  <2>2. CASE auth' = "close" /\ failed' = TRUE
    BY <2>1, <2>2, AbortKeeps
  <2>3. CASE auth' = "init"
    BY <1>6, <2>1, <2>3 DEF ImportName, talk, IdentityInv, Said
  <2> QED
    BY <1>6, <2>2, <2>3 DEF ImportName, Abort
<1>7. CASE InitSecContext
  <2>1. TalkType' /\ exchange'.code # "asked"
    BY <1>0, <1>7 DEF InitSecContext, Abort, talk, TalkType, IdentityInv
  <2>2. CASE auth' = "close" /\ failed' = TRUE
    BY <2>1, <2>2, AbortKeeps
  <2>3. CASE auth' = "continue"
    BY <1>7, <2>1, <2>3, SMT
       DEF InitSecContext, Abort, talk, IdentityInv, Said, Progressed
  <2> QED
    BY <1>7, <2>2, <2>3 DEF InitSecContext, Abort
<1>8. CASE Continue
  <2>1. TalkType' /\ exchange'.code # "asked"
    BY <1>0, <1>8, SMT DEF Continue, Abort, TalkType, IdentityInv
  <2>2. CASE auth' = "close" /\ failed' = TRUE
    BY <2>1, <2>2, AbortKeeps
  <2>3. CASE auth' = "token"
    <3>1. /\ mech' = "gssapi" /\ round' = round + 1 /\ round \in Nat
          /\ binds' = binds /\ Progressed(round)
      BY <1>0, <1>8, <2>3, SMT DEF Continue, Abort, IdentityInv, Said, TalkType
    <3>2. round' >= 1 /\ Progressed(round - 1)'
      BY <3>1, SMT DEF Progressed
    <3> QED
      BY <2>1, <2>3, <3>1, <3>2 DEF IdentityInv, Said
  <2> QED
    BY <1>8, <2>2, <2>3 DEF Continue, Abort
<1>9. CASE SendToken
  <2>1. TalkType'
    BY <1>0, <1>9 DEF SendToken, Abort, Ask, talk, TalkType
  <2>2. CASE auth' = "close" /\ failed' = TRUE /\ UNCHANGED exchange
    BY <1>9, <2>1, <2>2, AbortKeeps DEF SendToken, IdentityInv
  <2>3. CASE auth' = "reply" /\ exchange' = Bind("asked")
    BY <1>0, <1>9, <2>1, <2>3
       DEF SendToken, Abort, talk, IdentityInv, Said, AwaitedAfter, Progressed
  <2> QED
    BY <1>9, <2>2, <2>3 DEF SendToken, Abort, Ask
<1>10. CASE TokenReply
  <2>1. TalkType' /\ exchange'.code # "asked"
    BY <1>0, <1>10 DEF TokenReply, Abort, talk, TalkType
  <2>2. CASE exchange # Progress
    BY <1>10, <2>1, <2>2, AbortKeeps DEF TokenReply, Abort, Progress
  <2>3. CASE exchange = Progress
    <3>1. /\ mech = "gssapi" /\ round \in Nat /\ round >= 1
          /\ AwaitedAfter(round - 1) /\ info.full # info.needed
      BY <1>0, <1>10, SMT DEF TokenReply, IdentityInv, Said, TalkType
    <3>2. Progressed(round)
      <4>1. Len(binds) = (round - 1) + 1 /\ binds[(round - 1) + 1] = Progress
            /\ \A k \in 1 .. round - 1 : binds[k] = Progress
        BY <2>3, <3>1 DEF AwaitedAfter, Progress
      <4> QED
        BY <3>1, <4>1, SMT DEF Progressed
    <3>3. /\ auth' = IF info.needed THEN "continue" ELSE "unwrap"
          /\ UNCHANGED <<mech, round, info, binds>>
      BY <1>10, <2>3 DEF TokenReply, Progress, talk
    <3>4. Progressed(round)'
      BY <3>2, <3>3 DEF Progressed
    <3>5. info.full \in BOOLEAN /\ info.needed \in BOOLEAN
      BY <1>0 DEF TalkType, Info
    <3> QED
      BY <2>1, <3>1, <3>3, <3>4, <3>5 DEF IdentityInv, Said
  <2> QED
    BY <2>2, <2>3
<1>11. CASE Unwrap
  <2>1. TalkType' /\ exchange'.code # "asked"
    BY <1>0, <1>11 DEF Unwrap, Abort, TalkType, IdentityInv
  <2>2. CASE auth' = "close" /\ failed' = TRUE
    BY <2>1, <2>2, AbortKeeps
  <2>3. CASE auth' = "wrap"
    BY <1>11, <2>1, <2>3 DEF Unwrap, Abort, IdentityInv, Said, Progressed
  <2> QED
    BY <1>11, <2>2, <2>3 DEF Unwrap, Abort
<1>12. CASE Wrap
  <2>1. TalkType' /\ exchange'.code # "asked"
    BY <1>0, <1>12 DEF Wrap, Abort, talk, TalkType, IdentityInv
  <2>2. CASE auth' = "close" /\ failed' = TRUE
    BY <2>1, <2>2, AbortKeeps
  <2>3. CASE auth' = "select"
    BY <1>12, <2>1, <2>3 DEF Wrap, Abort, talk, IdentityInv, Said, Progressed
  <2> QED
    BY <1>12, <2>2, <2>3 DEF Wrap, Abort
<1>13. CASE SendSelection
  <2>1. TalkType'
    BY <1>0, <1>13 DEF SendSelection, Abort, Ask, talk, TalkType
  <2>2. CASE auth' = "close" /\ failed' = TRUE /\ UNCHANGED exchange
    BY <1>13, <2>1, <2>2, AbortKeeps DEF SendSelection, IdentityInv
  <2>3. CASE auth' = "final" /\ exchange' = Bind("asked")
    BY <1>0, <1>13, <2>1, <2>3
       DEF SendSelection, talk, IdentityInv, Said, AwaitedAfter, Progressed
  <2> QED
    BY <1>13, <2>2, <2>3 DEF SendSelection, Abort, Ask
<1>14. CASE FinalReply
  <2> DEFINE ok == [code |-> "success", creds |-> FALSE]
  <2>1. TalkType' /\ exchange'.code # "asked"
    BY <1>0, <1>14 DEF FinalReply, Abort, talk, TalkType
  <2>2. CASE exchange # ok
    BY <1>14, <2>1, <2>2, AbortKeeps DEF FinalReply, Abort
  <2>3. CASE exchange = ok
    <3>1. /\ mech = "gssapi" /\ AwaitedAfter(round) /\ round \in Nat
          /\ round <= MaxRounds
          /\ info.full /\ ~info.needed /\ info.sound /\ offer \in {"auth", "any"}
      BY <1>0, <1>14, SMT DEF FinalReply, IdentityInv, Said, TalkType
    <3>2. /\ Len(binds) = round + 1 /\ binds[round + 1] = ok
          /\ \A k \in 1 .. round : binds[k] = Progress
      BY <2>3, <3>1 DEF AwaitedAfter
    <3>3. /\ UNCHANGED <<mech, round, info, offer, binds>>
          /\ auth' = "close" /\ identity' = TRUE
      BY <1>14, <2>3 DEF FinalReply, talk
    <3>4. Bound(binds) /\ ~binds[Len(binds)].creds
      BY <3>1, <3>2, SMT DEF Bound
    <3>5. Earned'
      BY <3>1, <3>2, <3>3, <3>4 DEF Earned, Bound, Progress
    <3> QED
      BY <2>1, <3>3, <3>5 DEF IdentityInv, Said
  <2> QED
    BY <2>2, <2>3
<1>15. CASE CloseAuth
  <2>1. TalkType' /\ exchange'.code # "asked"
    <3>1. /\ \/ round' = 0 /\ info' = NoInfo /\ binds' = <<>>
             \/ UNCHANGED <<round, info, binds>>
          /\ auth = "close" /\ auth' = "over" /\ exchange' = exchange
      BY <1>15 DEF CloseAuth, talk
    <3>2. NoInfo \in Info /\ <<>> \in Seq(Response) /\ 0 \in 0 .. MaxRounds
      BY <1>0, SMT DEF NoInfo, Info
    <3>3. exchange.code # "asked"
      BY <3>1 DEF IdentityInv
    <3>4. TalkType'
      BY <1>0, <3>1, <3>2 DEF TalkType
    <3> QED
      BY <3>1, <3>3, <3>4
  <2>2. CASE failed'
    BY <1>15, <2>1, <2>2 DEF CloseAuth, IdentityInv, Said
  <2>3. CASE ~failed'
    <3>1. UNCHANGED <<mech, identity, failed, round, info, offer, binds>>
      BY <1>15, <2>3 DEF CloseAuth, talk
    <3>2. Earned
      BY <1>15, <2>3, <3>1 DEF CloseAuth, IdentityInv, Said
    <3>3. Earned'
      BY <3>1, <3>2 DEF Earned, Bound
    <3> QED
      BY <1>15, <2>1, <3>3 DEF CloseAuth, IdentityInv, Said
  <2> QED
    BY <2>2, <2>3
<1> QED
  BY <1>1, <1>2, <1>3, <1>4, <1>5, <1>6, <1>7, <1>8, <1>9, <1>10, <1>11,
     <1>12, <1>13, <1>14, <1>15 DEF AuthStep

\* So every step of the authenticator keeps the invariant.
LEMMA IdentityInvNext == IdentityInv /\ [AuthNext]_<<authVars, ctxDone>> => IdentityInv'
<1> USE Zenon
<1> SUFFICES ASSUME IdentityInv, [AuthNext]_<<authVars, ctxDone>> PROVE IdentityInv'
  OBVIOUS
<1>1. CASE AuthStep
  BY <1>1, IdentityInvStep
<1>2. CASE \E r \in Result : Answered(r)
  BY <1>2, AnswerKeeps
<1>3. CASE UNCHANGED authVars
  BY <1>3
     DEF authVars, talk, IdentityInv, TalkType, Said, AwaitedAfter, Progressed,
         Earned, Bound
<1> QED
  BY <1>1, <1>2, <1>3 DEF AuthNext

\* A connection gets its identity only after the Binds that earn it, whatever
\* the server answers and however many rounds GSSAPI is allowed
\* (bindAuthenticator.Authenticate, gssapi Authenticate, establishContext).
THEOREM IdentityEarnedAlways == AuthSpec => []IdentityEarned
  BY IdentityInvInit, IdentityInvNext, IdentityInvImplies, PTL DEF AuthSpec

-----------------------------------------------------------------------------
(***************************************************************************)
(* Setup implements the authenticator: initialize runs its steps while it  *)
(* is authenticating, and the session answers its Binds.                   *)
(***************************************************************************)
SessionType ==
    /\ reply \in [Ops -> Response \cup {Unanswered}]
    /\ using \in [Goroutines -> 0 .. MaxOps]
    /\ operations \in 0 .. MaxOps

\* The session has no operation at first.
LEMMA SessionTypeInit == Init => SessionType
BY SetupAssumption, SMT DEF Init, SessionType

\* The session numbers its operations, and a stream hands over what the peer
\* sent.
LEMMA SessionTypeStep == SessionType /\ [Next]_vars => SessionType'
<1> USE Zenon
<1> SUFFICES ASSUME SessionType, [Next]_vars PROVE SessionType'
  OBVIOUS
<1>1. ASSUME UNCHANGED <<reply, operations>>,
             \/ UNCHANGED using
             \/ \E g : using' = [using EXCEPT ![g] = 0]
      PROVE  SessionType'
  BY <1>1, SetupAssumption, SMT DEF SessionType
<1>2. ASSUME NEW o \in Ops, NEW r \in Response, Respond(o, r) PROVE SessionType'
  BY <1>2 DEF Respond, SessionType, sessionVars
<1>3. ASSUME NEW g \in Goroutines, StreamNext(g) PROVE SessionType'
  <2> DEFINE o == using[g]
  <2>1. /\ reply' = [reply EXCEPT ![o] = Unanswered]
        /\ using' = [using EXCEPT ![g] = 0] /\ UNCHANGED operations
    BY <1>3 DEF StreamNext
  <2> HIDE DEF o
  <2>2. 0 \in 0 .. MaxOps
    BY SetupAssumption, SMT
  <2> QED
    BY <2>1, <2>2 DEF SessionType
<1>4. CASE InitializeStep
  <2>1. CASE InitReturned
    BY <1>1, <2>1 DEF InitReturned, sessionVars
  <2>2. CASE ~InitReturned
    BY <1>1, <1>4, <2>2
       DEF InitializeStep, DialTCP, Handshake, StartAuth, Authenticating,
           AuthReturned, RequireIdle, StartInit, Transition, CloseSession,
           Deactivate, MarkReady, Published, Failing, opVars, sessionVars
  <2> QED
    BY <2>1, <2>2
<1>5. ASSUME NEW g \in Goroutines, NEW m, SessionDo(g, m) PROVE SessionType'
  <2>1. operations < MaxOps /\ operations' = operations + 1 /\ UNCHANGED reply
        /\ using' = [using EXCEPT ![g] = operations + 1]
    BY <1>5 DEF SessionDo
  <2>2. operations + 1 \in 0 .. MaxOps
    BY <2>1, SetupAssumption, SMT DEF SessionType
  <2> QED
    BY <2>1, <2>2 DEF SessionType
<1>6. CASE SessionRefuses
  BY <1>1, <1>6 DEF SessionRefuses, opVars, sessionVars
<1>7. ASSUME NEW o \in Ops, CallStep(o) PROVE SessionType'
  <2>1. ASSUME DoFails(o) PROVE SessionType'
    BY <1>1, <2>1 DEF DoFails
  <2> QED
    BY <1>1, <1>7, <2>1
       DEF CallStep, DoReserve, DoInstall, DoWriteFails, SetupCanceled,
           Watch, AbandonReserve, AbandonBury, AbandonWritten, sessionVars
<1>8. ASSUME NEW o \in Ops, PeerStep(o) PROVE SessionType'
  BY <1>1, <1>2, <1>8 DEF PeerStep, DoWritten
<1>9. CASE StreamStep \/ StreamClose
  BY <1>1, <1>3, <1>9
     DEF StreamStep, StreamFails, StreamClosed, StreamClose, sessionVars
<1>10. CASE Kill \/ ReaderFails \/ SetupTimeout
  BY <1>1, <1>10 DEF Kill, ReaderFails, SetupTimeout, opVars, sessionVars
<1>11. CASE UNCHANGED vars
  BY <1>1, <1>11 DEF vars, opVars, sessionVars
<1> QED
  BY <1>4, <1>5, <1>6, <1>7, <1>8, <1>9, <1>10, <1>11 DEF Next

AuthenticatorStep == [AuthNext]_<<authVars, ctxDone>>

\* An answer of the session, or none, is a step of the authenticator.
LEMMA AnswerIsStep ==
    ASSUME NEW g, NEW r \in Result, Answer(g, r), UNCHANGED ctxDone
    PROVE  AuthenticatorStep
BY Zenon DEF Answer, AuthenticatorStep, AuthNext

\* A step of setup is one of the authenticator, or leaves it alone.
LEMMA SetupStep == SessionType /\ [Next]_vars => AuthenticatorStep
<1> USE Zenon
<1> SUFFICES ASSUME SessionType, [Next]_vars PROVE AuthenticatorStep
  OBVIOUS
<1>1. ASSUME UNCHANGED authVars, ctxDone' = ctxDone \/ ctxDone' = TRUE
      PROVE  AuthenticatorStep
  BY <1>1 DEF AuthenticatorStep, AuthNext
<1>2. Bind("error") \in Result
  BY DEF Result
<1>3. CASE Authenticating
  BY <1>3 DEF Authenticating, AuthenticatorStep, AuthNext
<1>4. CASE InitializeStep /\ ~Authenticating
  BY <1>1, <1>4
     DEF InitializeStep, DialTCP, Handshake, StartAuth,
         AuthReturned, RequireIdle, StartInit, Transition, InitReturned,
         CloseSession, Deactivate, MarkReady, Published, Failing
<1>5. CASE \E g \in Goroutines, m \in {"drain", "abandon", "close"} : SessionDo(g, m)
  BY <1>1, <1>5 DEF SessionDo
<1>6. CASE SessionRefuses
  BY <1>2, <1>6 DEF SessionRefuses, AuthenticatorStep, AuthNext
<1>7. ASSUME NEW o \in Ops, CallStep(o) PROVE AuthenticatorStep
  <2>1. ASSUME DoFails(o) PROVE AuthenticatorStep
    BY <1>2, <2>1, AnswerIsStep DEF DoFails
  <2> QED
    BY <1>1, <1>7, <2>1
       DEF CallStep, DoReserve, DoInstall, DoWriteFails, SetupCanceled, Watch,
           AbandonReserve, AbandonBury, AbandonWritten
<1>8. ASSUME NEW o \in Ops, PeerStep(o) PROVE AuthenticatorStep
  BY <1>1, <1>8 DEF PeerStep, DoWritten, Respond
<1>9. ASSUME NEW g \in Goroutines, StreamNext(g) PROVE AuthenticatorStep
  <2> DEFINE r == reply[using[g]]
  <2>1. UNCHANGED ctxDone /\ (Answer(g, r) \/ Answer(g, Bind("error")))
    BY <1>9 DEF StreamNext
  <2>2. using[g] \in Ops
    BY <1>9, SetupAssumption, SMT DEF StreamNext, SessionType, Ops
  <2>3. r \in Result
    BY <1>9, <2>2 DEF StreamNext, SessionType, Result
  <2> QED
    BY <1>2, <2>1, <2>3, AnswerIsStep
<1>10. ASSUME NEW g \in Goroutines, StreamFails(g) PROVE AuthenticatorStep
  BY <1>2, <1>10, AnswerIsStep DEF StreamFails
<1>11. CASE StreamClosed \/ StreamClose \/ Kill \/ ReaderFails \/ SetupTimeout
  BY <1>1, <1>11
     DEF StreamClosed, StreamClose, Kill, ReaderFails, SetupTimeout
<1>12. CASE UNCHANGED vars
  BY <1>1, <1>12 DEF vars
<1> QED
  BY <1>3, <1>4, <1>5, <1>6, <1>7, <1>8, <1>9, <1>10, <1>11, <1>12
     DEF Next, StreamStep

\* Setup implements the authenticator (initialize, initializationSession.Do
\* and initializationStream.Next never do to it what authenticate would not).
THEOREM SetupImplementsAuth == Spec => AuthSpec
<1> USE Zenon
<1>1. Init => AuthInit /\ SessionType
  BY SessionTypeInit DEF Init
<1>2. SessionType /\ [Next]_vars => SessionType'
  BY SessionTypeStep
<1>3. SessionType /\ [Next]_vars => [AuthNext]_<<authVars, ctxDone>>
  BY SetupStep DEF AuthenticatorStep
<1> QED
  BY <1>1, <1>2, <1>3, PTL DEF Spec, AuthSpec

\* So no setup ends with an identity that the server's answers did not earn,
\* and none leaks a GSSAPI handle (under the same condition on the library).
THEOREM SetupAuthenticates ==
    /\ Spec => []IdentityEarned
    /\ ~NameWithError /\ Spec => []HandlesReleased
<1> USE Zenon
<1>1. Spec => []IdentityEarned
  BY SetupImplementsAuth, IdentityEarnedAlways, PTL
<1>2. ~NameWithError /\ Spec => []HandlesReleased
  BY SetupImplementsAuth, HandlesReleasedAlways, PTL
<1> QED
  BY <1>1, <1>2

-----------------------------------------------------------------------------
(***************************************************************************)
(* What Dial and Bootstrap leave behind.                                   *)
(***************************************************************************)
Early   == {"dial", "handshake", "transport"}
Later   == {"authIdle", "entering", "initializer", "initIdle", "closing",
            "marking", "published", "ready"}
Ending  == {"failing", "canceling", "retiring", "failed"}
Settled == {"marking", "published", "ready"}

\* How far authentication is, and what is open, at each step of initialize.
PhaseInv ==
    /\ init \in Early \cup {"auth"} \cup Later \cup Ending
    /\ init \in Early => auth = "begin"
    /\ init \in Later => auth = "over" /\ ~failed
    /\ init \in Ending => auth \in {"begin", "over"}
    /\ init \in {"dial", "handshake", "canceling", "retiring", "failed"} \cup Settled => ~active
    /\ down => socket = "closed" /\ state = "closed"
    /\ init \in {"dial", "failed"} => socket # "open"
    /\ state = "ready" => init \in {"published", "ready"}

\* Before the transport is there, nothing of a connection is.
QuietInv ==
    init \in {"dial", "handshake"} =>
        /\ do = [o \in Ops |-> "none"] /\ abandon = [o \in Ops |-> "none"]
        /\ using = [g \in Goroutines |-> 0]
        /\ pending = {} /\ streams = {}
        /\ lock = 0 /\ state = "dialing"
        /\ ~down /\ ~killing

\* So nothing but dial runs.
LEMMA QuietOnly ==
    ASSUME QuietInv, Next, init \in {"dial", "handshake"}
    PROVE  DialTCP \/ Handshake
<1> USE Zenon
<1>1. /\ do = [o \in Ops |-> "none"] /\ abandon = [o \in Ops |-> "none"]
      /\ using = [g \in Goroutines |-> 0]
      /\ pending = {} /\ streams = {} /\ lock = 0 /\ state = "dialing"
      /\ ~down /\ ~killing
  BY DEF QuietInv
<1>2. InitializeStep => DialTCP \/ Handshake
  BY DEF InitializeStep, StartAuth, Authenticating, AuthReturned, RequireIdle,
         StartInit, Transition, InitReturned, CloseSession, MarkReady,
         Published, Failing
<1>3. \A g \in Goroutines : \A m \in {"drain", "abandon", "close"} : ~SessionDo(g, m)
  BY DEF SessionDo, Calls
<1>4. ~SessionRefuses /\ ~SetupTimeout /\ ~Kill /\ ~ReaderFails
  BY <1>1 DEF SessionRefuses, SetupTimeout, Kill, ReaderFails
<1>5. \A o \in Ops : ~Pending(o) /\ o # 0
  BY <1>1, SetupAssumption, SMT DEF Pending, Ops
<1>6. \A o \in Ops : ~CallStep(o)
  BY <1>1, <1>5
     DEF CallStep, DoReserve, DoInstall, DoWriteFails, SetupCanceled, Watch,
         AbandonReserve, AbandonBury, AbandonWritten
<1>7. \A o \in Ops : ~PeerStep(o)
  BY <1>1 DEF PeerStep, DoWritten, Respond
<1>8. ~StreamStep /\ ~StreamClose
  BY <1>1 DEF StreamStep, StreamNext, StreamFails, StreamClosed, StreamClose,
              Goroutines
<1> QED
  BY <1>2, <1>3, <1>4, <1>6, <1>7, <1>8 DEF Next

\* And nothing goes back to dialing.
LEMMA QuietStep == QuietInv /\ [Next]_vars => QuietInv'
<1> USE Zenon
<1> SUFFICES ASSUME QuietInv, [Next]_vars, init' \in {"dial", "handshake"}
             PROVE  QuietInv'
  BY DEF QuietInv
<1>1. CASE UNCHANGED vars
  BY <1>1
     DEF vars, connVars, tableVars, sessionVars, opVars, QuietInv
<1>2. CASE Next
  <2>1. ~InitializeStep => UNCHANGED init
    BY <1>2
       DEF Next, SessionDo, SessionRefuses, CallStep, DoReserve, DoInstall,
           DoWriteFails, DoFails, SetupCanceled, Watch, AbandonReserve,
           AbandonBury, AbandonWritten, PeerStep, DoWritten, Respond,
           StreamStep, StreamNext, StreamFails, StreamClosed, StreamClose,
           Kill, ReaderFails, SetupTimeout
  <2>2. InitializeStep => init \in {"dial", "handshake"}
    <3>1. ASSUME StartAuth \/ StartInit PROVE FALSE
      BY <3>1 DEF StartAuth, StartInit, Transition, Goto
    <3>2. ASSUME AuthReturned \/ InitReturned \/ Published PROVE FALSE
      BY <3>2 DEF AuthReturned, InitReturned, Published, Goto
    <3>3. ASSUME \/ RequireIdle("authIdle", "entering")
                 \/ RequireIdle("initIdle", "closing")
          PROVE  FALSE
      BY <3>3 DEF RequireIdle, Goto
    <3>4. ASSUME CloseSession \/ MarkReady \/ Failing PROVE FALSE
      BY <3>4 DEF CloseSession, Deactivate, MarkReady, Failing, Goto
    <3>5. ~Authenticating
      BY DEF Authenticating
    <3> QED
      BY <3>1, <3>2, <3>3, <3>4, <3>5 DEF InitializeStep, DialTCP, Handshake
  <2>3. DialTCP \/ Handshake
    BY <1>2, <2>1, <2>2, QuietOnly
  <2>4. UNCHANGED <<do, abandon, using, pending, streams, lock, down, killing>>
    BY <2>3 DEF DialTCP, Handshake, tableVars, sessionVars, opVars
  <2>5. init \in {"dial", "handshake"} /\ state' = state
    BY <2>3 DEF DialTCP, Handshake, Goto
  <2> QED
    BY <2>4, <2>5 DEF QuietInv
<1> QED
  BY <1>1, <1>2

\* Closing the connection keeps all of it.
LEMMA RetirePhase ==
    ASSUME PhaseInv, Retire, UNCHANGED <<auth, failed, active>>,
           init' = init \/ (init = "retiring" /\ init' = "failed")
    PROVE  PhaseInv'
<1> USE Zenon
<1>1. down' /\ socket' = "closed" /\ state' = "closed"
  BY DEF PhaseInv, Retire, tableVars, T!Shutdown
<1> QED
  BY <1>1 DEF PhaseInv, Early, Later, Ending, Settled

\* Only the end of the connection sets down.
LEMMA TableKeepsUp ==
    /\ \A p, i : T!Take(p, i) \/ T!Release(p, i) \/ T!File(p, i)
                 \/ T!Complete(p, i) \/ T!Bury(p, i) => down' = down
    /\ \A p : Reserve(p) => down' = down
BY Zenon DEF T!Take, T!Release, T!File, T!Complete, T!Bury, Reserve

\* initialize opens, publishes and closes in the order it should.
LEMMA PhaseStep == QuietInv /\ PhaseInv /\ [Next]_vars => PhaseInv'
<1> USE Zenon
<1> SUFFICES ASSUME QuietInv, PhaseInv, [Next]_vars PROVE PhaseInv'
  OBVIOUS
<1>1. ASSUME UNCHANGED <<init, auth, failed, active, down, socket, state>>
      PROVE  PhaseInv'
  BY <1>1 DEF PhaseInv
<1> DEFINE Rest == UNCHANGED <<auth, failed, active, down, socket, state>>
<1>2. CASE DialTCP
  <2>1. /\ init = "dial" /\ ~down /\ state = "dialing"
        /\ UNCHANGED <<auth, failed, active, down, state>>
    BY <1>2 DEF DialTCP, authVars, tableVars, sessionVars, QuietInv
  <2>2. \/ init' = "failed" /\ UNCHANGED socket
        \/ init' = "handshake"
    BY <1>2 DEF DialTCP, Goto
  <2> QED
    BY <2>1, <2>2 DEF PhaseInv, Early, Later, Ending, Settled
<1>3. CASE Handshake
  <2>1. /\ init = "handshake" /\ ~down /\ state = "dialing"
        /\ UNCHANGED <<auth, failed, down>>
    BY <1>3 DEF Handshake, authVars, tableVars, QuietInv
  <2>2. \/ init' = "failed" /\ socket' = "closed" /\ UNCHANGED <<state, active>>
        \/ init' = "transport" /\ state' = "transportSetup"
    BY <1>3 DEF Handshake, Goto
  <2> QED
    BY <2>1, <2>2, SMT DEF PhaseInv, Early, Later, Ending, Settled
<1>4. CASE StartAuth \/ StartInit
  BY <1>4, SMT
     DEF StartAuth, StartInit, Transition, Goto, authVars, tableVars, sessionVars,
         PhaseInv, Early, Later, Ending, Settled
<1>5. CASE Authenticating
  <2>1. init = "auth" /\ UNCHANGED <<init, active, down, socket, state>>
    BY <1>5 DEF Authenticating, connVars, tableVars, sessionVars
  <2> QED
    BY <2>1 DEF PhaseInv, Early, Later, Ending, Settled
<1>6. CASE AuthReturned
  BY <1>6
     DEF AuthReturned, Goto, authVars, connVars, tableVars, sessionVars,
         PhaseInv, Early, Later, Ending, Settled
<1>7. CASE RequireIdle("authIdle", "entering") \/ RequireIdle("initIdle", "closing")
  <2>1. Rest
    BY <1>7 DEF RequireIdle, authVars, connVars, tableVars, sessionVars
  <2>2. /\ init \in {"authIdle", "initIdle"}
        /\ init' \in {"failing", "entering", "closing"}
    BY <1>7 DEF RequireIdle, Goto
  <2> QED
    BY <2>1, <2>2 DEF PhaseInv, Early, Later, Ending, Settled
<1>8. CASE InitReturned
  <2>1. Rest
    BY <1>8 DEF InitReturned, authVars, connVars, tableVars, sessionVars
  <2>2. init = "initializer" /\ init' \in {"failing", "initIdle"}
    BY <1>8 DEF InitReturned, Goto
  <2> QED
    BY <2>1, <2>2 DEF PhaseInv, Early, Later, Ending, Settled
<1>9. CASE CloseSession
  BY <1>9
     DEF CloseSession, Deactivate, Goto, authVars, connVars, tableVars, PhaseInv,
         Early, Later, Ending, Settled
<1>10. CASE MarkReady
  BY <1>10
     DEF MarkReady, Goto, authVars, tableVars, sessionVars, PhaseInv, Early,
         Later, Ending, Settled
<1>11. CASE Published
  BY <1>11
     DEF Published, Goto, authVars, connVars, tableVars, sessionVars, PhaseInv,
         Early, Later, Ending, Settled
<1>12. CASE Failing
  <2>1. CASE init = "failing"
    BY <1>12, <2>1, SMT
       DEF Failing, Deactivate, Goto, authVars, connVars, tableVars, PhaseInv,
           Early, Later, Ending, Settled
  <2>2. CASE init = "canceling"
    BY <1>12, <2>2, SMT
       DEF Failing, Goto, authVars, connVars, tableVars, sessionVars, PhaseInv,
           Early, Later, Ending, Settled
  <2>3. CASE init = "retiring"
    BY <1>12, <2>3, RetirePhase DEF Failing, Goto, authVars, sessionVars
  <2> QED
    BY <1>12, <2>1, <2>2, <2>3 DEF Failing
<1>13. CASE InitializeStep
  BY <1>2, <1>3, <1>4, <1>5, <1>6, <1>7, <1>8, <1>9, <1>10, <1>11, <1>12,
     <1>13 DEF InitializeStep
<1>14. CASE \E g \in Goroutines, m \in {"drain", "abandon", "close"} : SessionDo(g, m)
  BY <1>1, <1>14 DEF SessionDo, authVars, connVars, tableVars
<1>15. ASSUME NEW g, NEW r, Answer(g, r) PROVE UNCHANGED <<auth, failed>>
  BY <1>15 DEF Answer, Answered, authVars
<1>16. CASE SessionRefuses
  BY <1>1, <1>16
     DEF SessionRefuses, Answered, connVars, tableVars, sessionVars
<1>17. ASSUME NEW o \in Ops, CallStep(o) PROVE PhaseInv'
  <2>1. ASSUME DoFails(o) PROVE UNCHANGED <<init, auth, failed, active>>
    BY <1>15, <2>1 DEF DoFails
  <2>2. CASE DoReserve(o)
    BY <1>1, <2>1, <2>2, TableKeepsUp
       DEF DoReserve, authVars, tableVars, sessionVars
  <2>3. CASE DoInstall(o)
    BY <1>1, <2>1, <2>3, TableKeepsUp
       DEF DoInstall, authVars, tableVars, sessionVars
  <2>4. CASE DoWriteFails(o)
    BY <1>1, <2>1, <2>4, TableKeepsUp, RetirePhase DEF DoWriteFails
  <2>5. CASE SetupCanceled(o) \/ Watch(o)
    BY <1>1, <2>5
       DEF SetupCanceled, Watch, authVars, connVars, tableVars, sessionVars
  <2>6. CASE AbandonReserve(o) \/ AbandonBury(o) \/ AbandonWritten(o)
    <3>1. down' = down
      BY <2>6, TableKeepsUp
         DEF AbandonReserve, AbandonBury, AbandonWritten, AbandonReleases,
             tableVars
    <3> QED
      BY <1>1, <2>6, <3>1
         DEF AbandonReserve, AbandonBury, AbandonWritten, authVars, sessionVars
  <2> QED
    BY <1>17, <2>2, <2>3, <2>4, <2>5, <2>6 DEF CallStep
<1>18. ASSUME NEW o \in Ops, PeerStep(o) PROVE PhaseInv'
  BY <1>1, <1>18, TableKeepsUp
     DEF PeerStep, DoWritten, Respond, authVars, connVars, tableVars, sessionVars
<1>19. CASE StreamStep \/ StreamClose
  BY <1>1, <1>15, <1>19
     DEF StreamStep, StreamNext, StreamFails, StreamClosed, StreamClose, authVars,
         connVars, tableVars, sessionVars
<1>20. CASE Kill \/ ReaderFails
  BY <1>20, RetirePhase DEF Kill, ReaderFails, authVars, sessionVars
<1>21. CASE SetupTimeout \/ UNCHANGED vars
  BY <1>1, <1>21
     DEF SetupTimeout, vars, authVars, connVars, tableVars, sessionVars
<1> QED
  BY <1>13, <1>14, <1>16, <1>17, <1>18, <1>19, <1>20, <1>21 DEF Next

\* A new Dial has opened nothing.
LEMMA PhaseInit == Init => QuietInv /\ PhaseInv
BY Zenon DEF Init, AuthInit, T!Init, QuietInv, PhaseInv, Early, Later, Ending, Settled

\* A failed Dial or Bootstrap leaves no socket, no session, no ready
\* connection and no handle behind (dial, initialize and its deferred calls),
\* if the library's ImportName gives out no name when it fails.
THEOREM FailsClosedAlways == ~NameWithError /\ Spec => []FailsClosed
<1> USE Zenon
<1>1. Init => QuietInv /\ PhaseInv /\ HandleInv
  BY PhaseInit, HandleInvInit DEF Init
<1>2. QuietInv /\ PhaseInv /\ [Next]_vars => (QuietInv /\ PhaseInv)'
  BY QuietStep, PhaseStep
<1>3. PhaseInv /\ HandleInv => FailsClosed
  <2> SUFFICES ASSUME PhaseInv, HandleInv, init = "failed" PROVE FailsClosed
    BY DEF FailsClosed
  <2>1. /\ auth \in {"begin", "over"} /\ socket # "open" /\ ~active
        /\ state # "ready"
    BY DEF PhaseInv, Ending
  <2>2. \A h \in got : freed[h] = 1
    <3>1. auth = "begin" => got = {}
      BY DEF HandleInv
    <3>2. HandlesReleased
      BY HandleInvImplies
    <3> QED
      BY <2>1, <3>1, <3>2 DEF HandlesReleased
  <2> QED
    BY <2>1, <2>2 DEF FailsClosed
<1>4. ASSUME ~NameWithError PROVE Spec => []FailsClosed
  <2>1. HandleInv /\ [AuthNext]_<<authVars, ctxDone>> => HandleInv'
    BY <1>4, HandleInvNext
  <2>2. AuthSpec => []HandleInv
    BY <2>1, HandleInvInit, PTL DEF AuthSpec
  <2> QED
    BY <1>1, <1>2, <1>3, <2>2, SetupImplementsAuth, PTL DEF Spec
<1> QED
  BY <1>4

-----------------------------------------------------------------------------
(***************************************************************************)
(* The published connection is clean.                                      *)
(***************************************************************************)
Busy == {"reserving", "installing", "writing"}

\* A Do call that may still reach the wire holds the session's lock, which
\* deactivate waits for; and no call starts after deactivate.
LockInv ==
    /\ \A o \in Ops : do[o] \in Busy => lock = o
    /\ DOMAIN do = Ops
    /\ init \in Settled => lock = 0

\* A sendAbandon goroutine on its way to the wire has reserved an ID, and a
\* ready connection has none in use.
CleanInv ==
    /\ DOMAIN abandon = Ops
    /\ ~down => \A o \in Ops : abandon[o] \in {"reserved", "buried"} =>
                    \E i \in MessageIDs : <<Abandon(o), i>> \in reserved
    /\ state = "ready" => T!Held = {}

\* The session's lock is passed on as Do takes and gives it back.
LEMMA LockStep == LockInv /\ PhaseInv /\ [Next]_vars => LockInv'
<1> USE Zenon
<1> SUFFICES ASSUME LockInv, PhaseInv, [Next]_vars PROVE LockInv'
  OBVIOUS
<1>1. ASSUME UNCHANGED <<do, lock, init>> PROVE LockInv'
  BY <1>1 DEF LockInv
<1>2. ASSUME UNCHANGED <<do, lock>>, init' \notin Settled PROVE LockInv'
  BY <1>2 DEF LockInv
<1>3. ASSUME UNCHANGED <<do, lock>>, lock = 0 PROVE LockInv'
  BY <1>3 DEF LockInv
<1>4. ASSUME NEW o \in Ops, lock = o, do[o] \in Busy, UNCHANGED init,
             NEW d, d \notin Busy, do' = [do EXCEPT ![o] = d], lock' = 0
      PROVE  LockInv'
  BY <1>4 DEF LockInv
<1>5. ASSUME NEW o, do[o] \notin Busy, UNCHANGED <<init, lock>>,
             NEW d, d \notin Busy, do' = [do EXCEPT ![o] = d]
      PROVE  LockInv'
  BY <1>5 DEF LockInv
<1>6. CASE InitializeStep
  <2>1. UNCHANGED <<do, lock>>
    BY <1>6
       DEF InitializeStep, DialTCP, Handshake, StartAuth, Authenticating,
           AuthReturned, RequireIdle, StartInit, Transition, InitReturned,
           CloseSession, Deactivate, MarkReady, Published, Failing, opVars,
           sessionVars
  <2>2. init' \notin Settled \/ lock = 0
    <3>1. CASE DialTCP \/ Handshake \/ StartAuth \/ StartInit
      BY <3>1 DEF DialTCP, Handshake, StartAuth, StartInit, Transition, Goto, Settled
    <3>2. CASE Authenticating
      BY <3>2 DEF Authenticating, Settled
    <3>3. CASE AuthReturned \/ InitReturned
      BY <3>3 DEF AuthReturned, InitReturned, Goto, Settled
    <3>4. CASE \/ RequireIdle("authIdle", "entering")
               \/ RequireIdle("initIdle", "closing")
      BY <3>4 DEF RequireIdle, Goto, Settled
    <3>5. CASE CloseSession \/ MarkReady \/ Published
      BY <3>5 DEF CloseSession, Deactivate, MarkReady, Published, Settled, LockInv
    <3>6. CASE Failing
      BY <3>6 DEF Failing, Deactivate, Goto, Settled
    <3> QED
      BY <1>6, <3>1, <3>2, <3>3, <3>4, <3>5, <3>6 DEF InitializeStep
  <2> QED
    BY <1>2, <1>3, <2>1, <2>2
<1>7. ASSUME NEW g \in Goroutines, NEW m, SessionDo(g, m) PROVE LockInv'
  <2> DEFINE o == operations + 1
  <2>1. /\ lock = 0 /\ lock' = o /\ active /\ UNCHANGED init
        /\ do' = [do EXCEPT ![o] = "reserving"]
    BY <1>7 DEF SessionDo
  <2>2. init' \notin Settled
    BY <2>1 DEF PhaseInv
  <2>3. \A q \in Ops : q # 0
    BY SetupAssumption, SMT DEF Ops
  <2> HIDE DEF o
  <2> QED
    BY <2>1, <2>2, <2>3 DEF LockInv
<1>8. CASE SessionRefuses
  BY <1>1, <1>8 DEF SessionRefuses, sessionVars, opVars
<1>9. ASSUME NEW o \in Ops, CallStep(o) PROVE LockInv'
  <2>1. ASSUME DoFails(o), do[o] \in Busy PROVE LockInv'
    <3>1. lock = o /\ "over" \notin Busy
      BY <2>1 DEF LockInv, Busy
    <3>2. do' = [do EXCEPT ![o] = "over"] /\ lock' = 0 /\ UNCHANGED init
      BY <2>1 DEF DoFails
    <3> QED
      BY <1>4, <2>1, <3>1, <3>2
  <2>2. ASSUME NEW d \in Busy, NEW b \in Busy, do[o] = b,
               do' = [do EXCEPT ![o] = d], UNCHANGED <<lock, init>>
        PROVE  LockInv'
    BY <2>2 DEF LockInv
  <2>3. CASE DoReserve(o)
    BY <2>1, <2>2, <2>3 DEF DoReserve, sessionVars, Busy
  <2>4. CASE DoInstall(o)
    BY <2>1, <2>2, <2>4 DEF DoInstall, sessionVars, Busy
  <2>5. CASE DoWriteFails(o)
    BY <2>1, <2>5 DEF DoWriteFails, Busy
  <2>6. CASE SetupCanceled(o) \/ Watch(o) \/ AbandonReserve(o) \/ AbandonBury(o)
             \/ AbandonWritten(o)
    BY <1>1, <2>6
       DEF SetupCanceled, Watch, AbandonReserve, AbandonBury, AbandonWritten,
           sessionVars
  <2> QED
    BY <1>9, <2>3, <2>4, <2>5, <2>6 DEF CallStep
<1>10. ASSUME NEW o \in Ops, PeerStep(o) PROVE LockInv'
  <2>1. CASE DoWritten(o)
    <3>1. lock = o /\ do[o] \in Busy /\ "stream" \notin Busy
      BY <2>1 DEF DoWritten, LockInv, Busy
    <3>2. do' = [do EXCEPT ![o] = "stream"] /\ lock' = 0 /\ UNCHANGED init
      BY <2>1 DEF DoWritten
    <3> QED
      BY <1>4, <3>1, <3>2
  <2>2. CASE \E r : Respond(o, r)
    BY <1>1, <2>2 DEF Respond, sessionVars
  <2> QED
    BY <1>10, <2>1, <2>2 DEF PeerStep
<1>11. CASE StreamStep \/ StreamClose
  <2>1. "over" \notin Busy /\ "left" \notin Busy /\ "closing" \notin Busy
        /\ "stream" \notin Busy
    BY DEF Busy
  <2>2. ASSUME NEW g, StreamNext(g) PROVE LockInv'
    <3>1. /\ do[using[g]] = "stream" /\ do' = [do EXCEPT ![using[g]] = "over"]
          /\ UNCHANGED <<init, lock>>
      BY <2>2 DEF StreamNext
    <3> QED
      BY <1>5, <2>1, <3>1
  <2>3. ASSUME NEW g, StreamFails(g) PROVE LockInv'
    <3>1. /\ do[using[g]] = "stream" /\ do' = [do EXCEPT ![using[g]] = "left"]
          /\ UNCHANGED <<init, lock>>
      BY <2>3 DEF StreamFails, sessionVars
    <3> QED
      BY <1>5, <2>1, <3>1
  <2>4. CASE StreamClose
    <3>1. /\ do[using["setup"]] = "stream"
          /\ do' = [do EXCEPT ![using["setup"]] = "closing"]
          /\ UNCHANGED <<init, lock>>
      BY <2>4 DEF StreamClose, sessionVars
    <3> QED
      BY <1>5, <2>1, <3>1
  <2>5. CASE StreamClosed
    <3>1. /\ do[using["setup"]] = "closing"
          /\ do' = [do EXCEPT ![using["setup"]] = "over"]
          /\ UNCHANGED <<init, lock>>
      BY <2>5 DEF StreamClosed
    <3> QED
      BY <1>5, <2>1, <3>1
  <2> QED
    BY <1>11, <2>2, <2>3, <2>4, <2>5 DEF StreamStep
<1>12. CASE Kill \/ ReaderFails \/ SetupTimeout \/ UNCHANGED vars
  BY <1>1, <1>12
     DEF Kill, ReaderFails, SetupTimeout, vars, sessionVars, opVars
<1> QED
  BY <1>6, <1>7, <1>8, <1>9, <1>10, <1>11, <1>12 DEF Next

\* The names of requesters are distinct.
LEMMA RequestersDistinct ==
    ASSUME NEW o, NEW q, NEW i, NEW j
    PROVE  /\ <<Request(q), j>> # <<Abandon(o), i>>
           /\ <<Abandon(q), j>> = <<Abandon(o), i>> => q = o
<1> USE Zenon
<1>1. "request" # "abandon"
  OBVIOUS
<1>2. Request(q) # Abandon(o) /\ (Abandon(q) = Abandon(o) => q = o)
  BY <1>1 DEF Request, Abandon
<1> QED
  BY <1>2

\* Where the tables stay as they are and no sendAbandon begins, all stays clean.
LEMMA CleanKept ==
    ASSUME CleanInv, UNCHANGED <<reserved, pending, tombstones, down>>,
           state' = "ready" => state = "ready" \/ T!Held = {},
           DOMAIN abandon' = Ops,
           \A o \in Ops : abandon'[o] \in {"reserved", "buried"} =>
                abandon[o] \in {"reserved", "buried"}
    PROVE  CleanInv'
BY Zenon DEF CleanInv, T!Held

\* A retired connection has nothing to keep clean.
LEMMA CleanRetired ==
    ASSUME CleanInv, PhaseInv, Retire, UNCHANGED abandon
    PROVE  CleanInv'
<1> USE Zenon
<1>1. down' /\ state' = "closed"
  BY DEF PhaseInv, Retire, tableVars, T!Shutdown
<1> QED
  BY <1>1 DEF CleanInv

\* While an ID moves the connection is not ready, and the reservation of a
\* sendAbandon goroutine is its own to release.
LEMMA CleanMoves ==
    ASSUME CleanInv, state # "ready", UNCHANGED state, UNCHANGED abandon,
           NEW q, NEW j,
           \/ T!Take(Request(q), j) \/ T!Release(Request(q), j)
           \/ T!File(Request(q), j) \/ T!Complete(Request(q), j)
    PROVE  CleanInv'
<1> USE Zenon
<1>1. down' = down
  BY DEF T!Take, T!Release, T!File, T!Complete
<1>2. reserved \subseteq reserved' \cup {<<Request(q), j>>}
  BY DEF T!Take, T!Release, T!File, T!Complete
<1>3. \A o \in Ops, i \in MessageIDs :
         <<Abandon(o), i>> \in reserved => <<Abandon(o), i>> \in reserved'
  BY <1>2, RequestersDistinct
<1> QED
  BY <1>1, <1>3 DEF CleanInv

\* Nothing moves on a ready connection.
LEMMA ReadyStill ==
    ASSUME CleanInv, PhaseInv, LockInv, state = "ready"
    PROVE  /\ \A p, i : ~T!Release(p, i) /\ ~T!File(p, i) /\ ~T!Complete(p, i)
                        /\ ~T!Bury(p, i)
           /\ \A o \in Ops : /\ do[o] \notin Busy /\ ~Pending(o)
                             /\ abandon[o] \notin {"reserved", "buried"}
<1> USE Zenon
<1>1. T!Held = {} /\ ~down /\ lock = 0
  BY DEF CleanInv, PhaseInv, LockInv, Settled
<1>2. reserved = {} /\ pending = {} /\ tombstones = {}
  BY <1>1 DEF T!Held
<1>3. \A o \in Ops : o # 0
  BY SetupAssumption, SMT DEF Ops
<1> QED
  BY <1>1, <1>2, <1>3
     DEF T!Release, T!File, T!Complete, T!Bury, LockInv, Pending, CleanInv

\* Every step keeps the connection clean.
LEMMA CleanStep == CleanInv /\ PhaseInv /\ LockInv /\ [Next]_vars => CleanInv'
<1> USE Zenon
<1> SUFFICES ASSUME CleanInv, PhaseInv, LockInv, [Next]_vars PROVE CleanInv'
  OBVIOUS
<1>0. DOMAIN abandon = Ops
  BY DEF CleanInv
<1>1. ASSUME UNCHANGED <<reserved, pending, tombstones, down, state, abandon>>
      PROVE  CleanInv'
  BY <1>0, <1>1, CleanKept
<1>2. CASE InitializeStep
  <2>1. CASE Failing /\ init = "retiring"
    BY <2>1, CleanRetired DEF Failing, opVars
  <2>2. CASE ~(Failing /\ init = "retiring")
    <3>1. UNCHANGED <<reserved, pending, tombstones, down, abandon>>
      BY <1>2, <2>2
         DEF InitializeStep, DialTCP, Handshake, StartAuth, Authenticating,
             AuthReturned, RequireIdle, StartInit, Transition, InitReturned,
             CloseSession, Deactivate, MarkReady, Published, Failing, connVars,
             tableVars, opVars
    <3>2. state' = "ready" => state = "ready" \/ T!Held = {}
      <4>1. CASE MarkReady
        BY <4>1 DEF MarkReady, Idle
      <4>2. CASE StartAuth \/ StartInit \/ Handshake
        BY <4>2 DEF StartAuth, StartInit, Transition, Handshake
      <4>3. CASE ~MarkReady /\ ~StartAuth /\ ~StartInit /\ ~Handshake
        <5>1. state' = state
          BY <1>2, <2>2, <4>3
             DEF InitializeStep, DialTCP, Authenticating, AuthReturned,
                 RequireIdle, InitReturned, CloseSession, Deactivate,
                 Published, Failing, connVars
        <5> QED
          BY <5>1
      <4> QED
        BY <4>1, <4>2, <4>3
    <3> QED
      BY <1>0, <3>1, <3>2, CleanKept
  <2> QED
    BY <2>1, <2>2
<1>3. CASE \E g \in Goroutines, m \in {"drain", "abandon", "close"} : SessionDo(g, m)
  BY <1>1, <1>3 DEF SessionDo, connVars, tableVars
<1>4. CASE SessionRefuses
  BY <1>1, <1>4 DEF SessionRefuses, connVars, tableVars, opVars
<1>5. ASSUME NEW o \in Ops, CallStep(o) PROVE CleanInv'
  <2>1. ASSUME DoFails(o) PROVE UNCHANGED abandon
    BY <2>1 DEF DoFails
  <2>2. state = "ready" => do[o] \notin Busy
    BY ReadyStill
  <2>3. CASE DoReserve(o)
    <3>1. state # "ready" /\ UNCHANGED <<state, abandon>>
      BY <2>1, <2>2, <2>3 DEF DoReserve, Busy
    <3>2. CASE \E i : T!Take(Request(o), i)
      BY <3>1, <3>2, CleanMoves
    <3>3. CASE UNCHANGED tableVars
      BY <1>1, <3>1, <3>3 DEF tableVars
    <3> QED
      BY <2>3, <3>2, <3>3 DEF DoReserve, Reserve
  <2>4. CASE DoInstall(o)
    <3>1. state # "ready" /\ UNCHANGED <<state, abandon>>
      BY <2>1, <2>2, <2>4 DEF DoInstall, Busy
    <3>2. CASE \E i : T!File(Request(o), i) \/ T!Release(Request(o), i)
      BY <3>1, <3>2, CleanMoves
    <3>3. CASE UNCHANGED tableVars
      BY <1>1, <3>1, <3>3 DEF tableVars
    <3> QED
      BY <2>4, <3>2, <3>3 DEF DoInstall
  <2>5. CASE DoWriteFails(o)
    <3>1. state # "ready" /\ UNCHANGED abandon
      BY <2>1, <2>2, <2>5 DEF DoWriteFails, Busy
    <3>2. CASE Retire
      BY <3>1, <3>2, CleanRetired
    <3>3. CASE UNCHANGED state /\ \E i : T!Complete(Request(o), i)
      BY <3>1, <3>3, CleanMoves
    <3> QED
      BY <2>5, <3>2, <3>3 DEF DoWriteFails
  <2>6. CASE SetupCanceled(o)
    BY <1>1, <2>6 DEF SetupCanceled, connVars, tableVars
  <2>7. CASE Watch(o)
    <3>1. /\ UNCHANGED <<reserved, pending, tombstones, down, state>>
          /\ \/ UNCHANGED abandon
             \/ abandon' = [abandon EXCEPT ![o] = "spawned"]
      BY <2>7 DEF Watch, CancelOperation, tableVars
    <3> QED
      BY <1>0, <3>1, CleanKept
  <2>8. CASE AbandonReserve(o)
    <3>1. UNCHANGED state
      BY <2>8 DEF AbandonReserve
    <3>2. CASE UNCHANGED tableVars /\ abandon' = [abandon EXCEPT ![o] = "done"]
      BY <1>0, <3>1, <3>2, CleanKept DEF tableVars
    <3>3. CASE /\ Reserve(Abandon(o)) /\ Pending(o)
               /\ abandon' = [abandon EXCEPT ![o] = "reserved"]
      <4>1. state # "ready"
        BY <3>3, ReadyStill
      <4>2. PICK i \in MessageIDs : T!Take(Abandon(o), i)
        <5> DEFINE free == {i \in MessageIDs : ~T!Used(i)}
        <5>1. free # {} /\ T!Take(Abandon(o), CHOOSE i \in free : TRUE)
          BY <3>3 DEF Reserve
        <5>2. (CHOOSE i \in free : TRUE) \in free
          BY <5>1
        <5> QED
          BY <5>1, <5>2
      <4>3. reserved' = reserved \cup {<<Abandon(o), i>>} /\ down' = down
        BY <4>2 DEF T!Take
      <4> QED
        BY <1>0, <3>1, <3>3, <4>1, <4>3 DEF CleanInv
    <3> QED
      BY <2>8, <3>2, <3>3 DEF AbandonReserve
  <2>9. ASSUME NEW kill, AbandonReleases(o, kill), UNCHANGED state,
               abandon[o] \in {"reserved", "buried"}
        PROVE  CleanInv'
    <3>1. state # "ready" /\ abandon' = [abandon EXCEPT ![o] = "done"]
      BY <2>9, ReadyStill DEF AbandonReleases
    <3>2. CASE UNCHANGED tableVars
      BY <1>0, <2>9, <3>1, <3>2, CleanKept DEF tableVars
    <3>3. CASE \E i \in MessageIDs : T!Release(Abandon(o), i)
      <4>1. PICK i \in MessageIDs : T!Release(Abandon(o), i)
        BY <3>3
      <4>2. reserved' = reserved \ {<<Abandon(o), i>>} /\ down' = down
        BY <4>1 DEF T!Release
      <4>3. \A q \in Ops \ {o}, j \in MessageIDs :
               <<Abandon(q), j>> \in reserved => <<Abandon(q), j>> \in reserved'
        BY <4>2, RequestersDistinct
      <4> QED
        BY <1>0, <2>9, <3>1, <4>2, <4>3 DEF CleanInv
    <3> QED
      BY <2>9, <3>2, <3>3 DEF AbandonReleases
  <2>10. CASE AbandonBury(o)
    <3>1. UNCHANGED state /\ abandon[o] = "reserved"
      BY <2>10 DEF AbandonBury
    <3>2. CASE /\ \E i \in MessageIDs : T!Bury(Request(o), i)
               /\ abandon' = [abandon EXCEPT ![o] = "buried"]
      <4>1. UNCHANGED <<reserved, down>>
        BY <3>2 DEF T!Bury
      <4>2. state # "ready"
        <5>1. abandon[o] \in {"reserved", "buried"}
          BY <3>1
        <5> QED
          BY <5>1, ReadyStill
      <4> QED
        BY <1>0, <3>1, <3>2, <4>1, <4>2 DEF CleanInv
    <3> QED
      BY <2>9, <2>10, <3>1, <3>2 DEF AbandonBury
  <2>11. CASE AbandonWritten(o)
    BY <2>9, <2>11 DEF AbandonWritten
  <2> QED
    BY <1>5, <2>3, <2>4, <2>5, <2>6, <2>7, <2>8, <2>10, <2>11 DEF CallStep
<1>6. ASSUME NEW o \in Ops, PeerStep(o) PROVE CleanInv'
  <2>1. CASE DoWritten(o)
    BY <1>1, <2>1 DEF DoWritten, connVars, tableVars
  <2>2. CASE \E r : Respond(o, r)
    <3>1. /\ \E i : T!Complete(Request(o), i)
          /\ UNCHANGED <<state, abandon>>
      BY <2>2 DEF Respond
    <3>2. state # "ready"
      BY <3>1, ReadyStill
    <3> QED
      BY <3>1, <3>2, CleanMoves
  <2> QED
    BY <1>6, <2>1, <2>2 DEF PeerStep
<1>7. CASE StreamStep
  BY <1>1, <1>7
     DEF StreamStep, StreamNext, StreamFails, StreamClosed, connVars, tableVars
<1>8. CASE StreamClose
  <2> DEFINE o == using["setup"]
  <2>1. /\ UNCHANGED <<reserved, pending, tombstones, down, state>>
        /\ \/ UNCHANGED abandon
           \/ abandon' = [abandon EXCEPT ![o] = "spawned"]
    BY <1>8 DEF StreamClose, CancelOperation, tableVars
  <2> HIDE DEF o
  <2> QED
    BY <1>0, <2>1, CleanKept
<1>9. CASE Kill \/ ReaderFails
  BY <1>9, CleanRetired DEF Kill, ReaderFails, opVars
<1>10. CASE SetupTimeout \/ UNCHANGED vars
  BY <1>1, <1>10 DEF SetupTimeout, vars, connVars, tableVars, opVars
<1> QED
  BY <1>2, <1>3, <1>4, <1>5, <1>6, <1>7, <1>8, <1>9, <1>10 DEF Next

\* All of it holds before Dial.
LEMMA CleanInit == Init => LockInv /\ CleanInv
<1> USE Zenon
<1> SUFFICES ASSUME Init PROVE LockInv /\ CleanInv
  OBVIOUS
<1>1. /\ do = [o \in Ops |-> "none"] /\ abandon = [o \in Ops |-> "none"]
      /\ lock = 0 /\ state = "dialing"
  BY DEF Init
<1> QED
  BY <1>1 DEF LockInv, CleanInv, Busy

\* What markReady publishes is clean, whatever the initializer and a retained
\* session did before and do after (bootstrap.go markReady).
THEOREM ReadyCleanAlways == Spec => []ReadyClean
<1> USE Zenon
<1>1. Init => QuietInv /\ PhaseInv /\ LockInv /\ CleanInv
  BY PhaseInit, CleanInit
<1>2. QuietInv /\ PhaseInv /\ LockInv /\ CleanInv /\ [Next]_vars
      => (QuietInv /\ PhaseInv /\ LockInv /\ CleanInv)'
  BY QuietStep, PhaseStep, LockStep, CleanStep
<1>3. PhaseInv /\ LockInv /\ CleanInv /\ IdentityEarned => ReadyClean
  <2> SUFFICES ASSUME PhaseInv, LockInv, CleanInv, IdentityEarned, state = "ready"
               PROVE  ReadyClean
    BY DEF ReadyClean
  <2>1. Idle
    BY DEF CleanInv, Idle
  <2>2. init \in {"published", "ready"} /\ ~active /\ lock = 0
    BY DEF PhaseInv, LockInv, Settled
  <2>3. \A o \in Ops : /\ do[o] \notin {"reserving", "installing", "writing"}
                       /\ abandon[o] \notin {"reserved", "buried"}
    BY ReadyStill DEF Busy
  <2>4. auth = "over" /\ ~failed
    BY <2>2 DEF PhaseInv, Later, Settled
  <2>5. identity
    BY <2>4 DEF IdentityEarned, Earned
  <2> QED
    BY <2>1, <2>2, <2>3, <2>4, <2>5 DEF ReadyClean
<1>4. Spec => []IdentityEarned
  BY SetupImplementsAuth, IdentityEarnedAlways, PTL
<1> QED
  BY <1>1, <1>2, <1>3, <1>4, PTL DEF Spec

=============================================================================
