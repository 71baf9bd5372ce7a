-------------------------------- MODULE Auth --------------------------------
(***************************************************************************)
(* Authenticating one new connection: Dialer.authenticate (bootstrap.go)   *)
(* driving no authenticator, the one-Bind authenticator of Anonymous and   *)
(* SimpleBind (auth/auth.go, auth/simple.go) or the GSSAPI SASL            *)
(* conversation (auth/gssapi).  The GSSAPI library is external: each call  *)
(* of it succeeds, fails, or answers what the code does not expect.        *)
(*                                                                         *)
(* The Bind operations themselves are the environment's: the authenticator *)
(* asks for one (exchange) and goes on when it is answered.                *)
(***************************************************************************)
EXTENDS Integers, Sequences, FiniteSets

CONSTANTS
    Mechanisms,    \* a subset of {"none", "bind", "gssapi"}
    MaxRounds,     \* options.maxRounds
    NameWithError  \* does the library's ImportName give out a name when it fails?

ASSUME AuthAssumption ==
    /\ Mechanisms \subseteq {"none", "bind", "gssapi"}
    /\ MaxRounds \in Nat \ {0}
    /\ NameWithError \in BOOLEAN

VARIABLES
    mech,      \* Dialer.Authentication
    auth,      \* where authenticate is
    ctxDone,   \* the setup context is done
    got,       \* GSSAPI handles obtained from the library, ever
    freed,     \* how often each handle was released
    field,     \* authenticator.{provider, targetName, context} that are set
    round,     \* Continue calls made by establishContext
    info,      \* what the latest Continue reported
    offer,     \* the server's security-layer offer
    exchange,  \* the Bind in progress
    binds,     \* the results of all Binds so far, as the server sent them
    identity,  \* authenticate has an identity to return
    failed     \* authenticate returns an error

held     == <<got, freed, field>>
talk     == <<round, info, offer>>
authVars == <<mech, auth, held, talk, exchange, binds, identity, failed>>

Handles == {"provider", "name", "context"}

\* A Bind answered by the server: the code, and whether credentials came.
Response == [code : {"success", "progress", "refused"}, creds : BOOLEAN]

\* exchangeBind also fails, for want of exactly one response it can decode.
Bind(c) == [code |-> c, creds |-> FALSE]
Result  == Response \cup {Bind("error")}

\* What Continue and ContinueNeeded report: established, more to come, and
\* with the flags and the mechanism that were asked for.
Info   == [full : BOOLEAN, needed : BOOLEAN, sound : BOOLEAN]
NoInfo == [full |-> FALSE, needed |-> FALSE, sound |-> FALSE]

\* The unwrapped offer: authentication only, authentication among others,
\* only layers that protect, authentication only with a buffer size, not four
\* bytes, or encrypted.
Offers == {"auth", "any", "layers", "buffer", "invalid", "encrypted"}

AuthInit ==
    /\ ctxDone = FALSE
    /\ mech \in Mechanisms
    /\ auth = "begin"
    /\ got = {}
    /\ freed = [h \in Handles |-> 0]
    /\ field = {}
    /\ round = 0
    /\ info = NoInfo
    /\ offer = "none"
    /\ exchange = Bind("none")
    /\ binds = <<>>
    /\ identity = FALSE
    /\ failed = FALSE

-----------------------------------------------------------------------------
\* Authenticate returns an error; Close follows.
Abort == auth' = "close" /\ failed' = TRUE

\* Begin returned no authenticator.
BeginFails == auth' = "over" /\ failed' = TRUE

Release(hs) == freed' = [h \in Handles |-> freed[h] + IF h \in hs THEN 1 ELSE 0]

\* exchangeBind starts; p is where its result is awaited.
Ask(p) == auth' = p /\ exchange' = Bind("asked") /\ UNCHANGED failed

\* The environment answers the Bind.
Answered(r) ==
    /\ exchange.code = "asked"
    /\ exchange' = r
    /\ binds' = IF r.code = "error" THEN binds ELSE Append(binds, r)
    /\ UNCHANGED <<mech, auth, held, talk, identity, failed>>

-----------------------------------------------------------------------------
(* No authentication, and a single Bind *)

Unauthenticated ==
    /\ auth = "begin" /\ mech = "none"
    /\ auth' = "over"
    /\ identity' = TRUE
    /\ UNCHANGED <<mech, held, talk, exchange, binds, failed>>

\* Anonymous.Begin and SimpleBind.Begin, then the Bind itself
BindStart ==
    /\ auth = "begin" /\ mech = "bind"
    /\ IF ctxDone THEN BeginFails /\ UNCHANGED exchange ELSE Ask("bound")
    /\ UNCHANGED <<mech, held, talk, binds, identity>>

\* bindAuthenticator.Authenticate returns: success alone gives the identity.
BindReturn ==
    /\ auth = "bound"
    /\ exchange.code # "asked"
    /\ exchange' = Bind("none")
    /\ IF exchange.code = "success"
       THEN auth' = "close" /\ identity' = TRUE /\ UNCHANGED failed
       ELSE Abort /\ UNCHANGED identity
    /\ UNCHANGED <<mech, held, talk, binds>>

-----------------------------------------------------------------------------
(* GSSAPI: Begin and the handles *)

\* The provider factory is called.  A provider that comes with an error is
\* released at once.
NewProvider ==
    /\ auth = "begin" /\ mech = "gssapi"
    /\ \/ \* the context is done, or the factory fails
          /\ BeginFails
          /\ UNCHANGED held
       \/ /\ ~ctxDone
          /\ got' = got \cup {"provider"}
          /\ Release({"provider"})
          /\ BeginFails
          /\ UNCHANGED field
       \/ /\ ~ctxDone
          /\ got' = got \cup {"provider"}
          /\ auth' = "begun"
          /\ UNCHANGED <<freed, field, failed>>
    /\ UNCHANGED <<mech, talk, exchange, binds, identity>>

\* The context is looked at again before the provider is kept.
Begun ==
    /\ auth = "begun"
    /\ IF ctxDone
       THEN BeginFails /\ Release({"provider"}) /\ UNCHANGED field
       ELSE auth' = "import" /\ field' = {"provider"} /\ UNCHANGED <<freed, failed>>
    /\ UNCHANGED <<mech, got, talk, exchange, binds, identity>>

\* ImportName.  A name that comes with an error is dropped: no field keeps it
\* and nothing releases it.
ImportName ==
    /\ auth = "import"
    /\ \/ /\ Abort
          /\ got' \in {got, IF NameWithError /\ ~ctxDone THEN got \cup {"name"} ELSE got}
          /\ UNCHANGED <<freed, field>>
       \/ /\ ~ctxDone
          /\ got' = got \cup {"name"}
          /\ field' = field \cup {"name"}
          /\ auth' = "init"
          /\ UNCHANGED <<freed, failed>>
    /\ UNCHANGED <<mech, talk, exchange, binds, identity>>

\* Mutant: the released name is left in its field.
InitSecContextKeepsName ==
    /\ auth = "init"
    /\ ~ctxDone
    /\ got' = got \cup {"context"}
    /\ field' = field \cup {"context"}
    /\ Release({"name"})
    /\ auth' = "continue"
    /\ UNCHANGED <<mech, talk, exchange, binds, identity, failed>>

\* InitSecContext.  A context that comes with an error is kept for Close, and
\* so is the name; on success the name is released here, once, whether or not
\* the library reports an error for that.
InitSecContext ==
    /\ auth = "init"
    /\ \/ Abort /\ UNCHANGED held
       \/ /\ ~ctxDone
          /\ got' = got \cup {"context"}
          /\ field' = field \cup {"context"}
          /\ Abort
          /\ UNCHANGED freed
       \/ /\ ~ctxDone
          /\ got' = got \cup {"context"}
          /\ field' = (field \cup {"context"}) \ {"name"}
          /\ Release({"name"})
          /\ Abort \/ (auth' = "continue" /\ UNCHANGED failed)
    /\ UNCHANGED <<mech, talk, exchange, binds, identity>>

-----------------------------------------------------------------------------
(* GSSAPI: establishContext *)

\* One round: the library consumes the server's token and makes the next one.
Continue ==
    /\ auth = "continue"
    /\ \/ /\ Abort
          /\ UNCHANGED <<round, info>>
       \/ /\ ~ctxDone
          /\ round < MaxRounds
          /\ round' = round + 1
          /\ info' \in Info
          /\ auth' = "token"
          /\ UNCHANGED failed
    /\ UNCHANGED <<mech, held, offer, exchange, binds, identity>>

\* The token is sent in a Bind unless the library contradicts itself.
SendToken ==
    /\ auth = "token"
    /\ IF ctxDone \/ info.full = info.needed
       THEN Abort /\ UNCHANGED exchange
       ELSE Ask("reply")
    /\ UNCHANGED <<mech, held, talk, binds, identity>>

\* Mutant: the loop ends with the server's success.
TokenReplySuccess ==
    /\ auth = "reply"
    /\ exchange.code # "asked"
    /\ exchange' = Bind("none")
    /\ IF exchange.code \in {"progress", "success"}
       THEN auth' = (IF info.needed THEN "continue" ELSE "unwrap") /\ UNCHANGED failed
       ELSE Abort
    /\ UNCHANGED <<mech, held, talk, binds, identity>>

\* The server must ask for more and send a token; the loop ends when the
\* library needs no more.
TokenReply ==
    /\ auth = "reply"
    /\ exchange.code # "asked"
    /\ exchange' = Bind("none")
    /\ IF exchange = [code |-> "progress", creds |-> TRUE]
       THEN auth' = (IF info.needed THEN "continue" ELSE "unwrap") /\ UNCHANGED failed
       ELSE Abort
    /\ UNCHANGED <<mech, held, talk, binds, identity>>

-----------------------------------------------------------------------------
(* GSSAPI: the security layer *)

\* validateEstablishedContext, then Unwrap
Unwrap ==
    /\ auth = "unwrap"
    /\ \/ Abort /\ UNCHANGED offer
       \/ /\ ~ctxDone
          /\ info.full /\ info.sound
          /\ offer' \in Offers
          /\ auth' = "wrap"
          /\ UNCHANGED failed
    /\ UNCHANGED <<mech, held, round, info, exchange, binds, identity>>

\* Authentication only is selected from an offer that contains it.
Wrap ==
    /\ auth = "wrap"
    /\ \/ Abort
       \/ /\ ~ctxDone
          /\ offer \in {"auth", "any"}
          /\ auth' = "select"
          /\ UNCHANGED failed
    /\ UNCHANGED <<mech, held, talk, exchange, binds, identity>>

SendSelection ==
    /\ auth = "select"
    /\ IF ctxDone THEN Abort /\ UNCHANGED exchange ELSE Ask("final")
    /\ UNCHANGED <<mech, held, talk, binds, identity>>

\* The final Bind must succeed and carry nothing.
FinalReply ==
    /\ auth = "final"
    /\ exchange.code # "asked"
    /\ exchange' = Bind("none")
    /\ IF exchange = [code |-> "success", creds |-> FALSE]
       THEN auth' = "close" /\ identity' = TRUE /\ UNCHANGED failed
       ELSE Abort /\ UNCHANGED identity
    /\ UNCHANGED <<mech, held, talk, binds>>

-----------------------------------------------------------------------------
\* authenticator.Close: every handle still in a field is released, the context
\* first.  An error of any of them is authenticate's error.  The locals of a
\* failed attempt, and the history of its answers, are gone.
CloseAuth ==
    /\ auth = "close"
    /\ field' = {}
    /\ Release(field)
    /\ auth' = "over"
    /\ \/ UNCHANGED <<failed, identity>>
       \/ field # {} /\ failed' = TRUE /\ identity' = FALSE
    /\ IF failed' THEN /\ round' = 0 /\ info' = NoInfo /\ offer' = "none"
                      /\ binds' = <<>>
       ELSE UNCHANGED <<talk, binds>>
    /\ UNCHANGED <<mech, got, exchange>>

AuthStep ==
    \/ Unauthenticated \/ BindStart \/ BindReturn
    \/ NewProvider \/ Begun \/ ImportName \/ InitSecContext
    \/ Continue \/ SendToken \/ TokenReply
    \/ Unwrap \/ Wrap \/ SendSelection \/ FinalReply
    \/ CloseAuth

\* The authenticator on its own, with any server and any deadline.
AuthNext ==
    \/ AuthStep /\ UNCHANGED ctxDone
    \/ (\E r \in Result : Answered(r)) /\ UNCHANGED ctxDone
    \/ ctxDone' = TRUE /\ UNCHANGED authVars

AuthSpec == AuthInit /\ [][AuthNext]_<<authVars, ctxDone>>

-----------------------------------------------------------------------------
(* Properties *)

\* Every GSSAPI handle the library gave out is released exactly once, on
\* every path out of Begin, Authenticate and Close, errors of the releases
\* themselves included; and none is released while a field still names it.
\* It takes a library that gives out no name when ImportName fails: the code
\* keeps a provider or a context that comes with an error, but not a name.
HandlesReleased ==
    /\ \A h \in Handles : freed[h] <= (IF h \in got THEN 1 ELSE 0)
    /\ \A h \in field : freed[h] = 0
    /\ auth = "over" => \A h \in got : freed[h] = 1

\* The mechanisms' own conditions for an identity.
Bound(bs) == bs # <<>> /\ bs[Len(bs)].code = "success"

\* What the answers, the rounds and the security layer have to be.
Earned ==
    /\ identity
    /\ mech = "bind" => Bound(binds) /\ Len(binds) = 1
    /\ mech = "gssapi" =>
          /\ Bound(binds) /\ ~binds[Len(binds)].creds
          /\ info.full /\ ~info.needed /\ info.sound
          /\ offer \in {"auth", "any"}
          /\ Len(binds) = round + 1 /\ round <= MaxRounds
          /\ \A k \in 1..round : binds[k] = [code |-> "progress", creds |-> TRUE]

\* A connection gets the configured identity only if the server's last Bind
\* answer was success, and with GSSAPI only after a context with mutual
\* authentication and integrity under Kerberos was established in at most
\* maxRounds rounds, each answered with a token, the server offered
\* authentication alone, and nothing went wrong after that, the release of
\* the handles included.
IdentityEarned == auth = "over" /\ ~failed => Earned

=============================================================================
