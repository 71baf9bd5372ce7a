# A verification of arden

TLA+ models of arden, an LDAPv3 client: the connection runtime, its setup and
authentication, the pool, the typed client, the trace observer and the wire
format. TLC checks them on small instances; TLAPS proves the central invariants
of the connection, its setup, the pool and the client, and two refinements, for
every size of instance. `PROJECT.json` maps each definition to the lines it models and
lists the hazards of the code with the properties that watch them.

## The system

| Part | State | Operations | Talks to |
|---|---|---|---|
| connection runtime, `connection.go` | `reserved`, `pending`, `tombstones`, the ID cursor; one record per operation; the writer token; `closing`, `err`, `state`; the unsolicited queue | `Do`, stream `Next`/`Close`, context watcher, `sendAbandon`, `readLoop`/`route`, `NextUnsolicited`, `CloseContext`, `retire` | transport, bootstrap, pool |
| bootstrap, `bootstrap.go` | connection state; the session's lock, count and streams | `dial`, `initialize`, `markReady`, session `Do`, `deactivate` | connection runtime, authentication |
| authentication, `auth/` | one attempt; three GSSAPI handles; the Bind results | `Begin`, `Authenticate`, `Close` | bootstrap |
| pool, `pool/pool.go` | connections per endpoint, `dialing`, backoff, `replacing`, waiters, `changed`, `closing` | `Do`, `acquire`, releases, `watchConnection`, `replace`, `maintain`, `CloseContext` | connection runtime, leases |
| leases, `pool/lease.go` | closed flag, in-flight count | `Lease.Do`, `Lease.Close`, releases | pool |
| client, `client.go`, `rfc4532` | the current page, its cookie, the first error | `Search`, `Next`, `Close`, `Get`, `ExecuteSingle`, `WhoAmI` | any executor |
| trace observer, `trace.go` | a channel of events | `event`, `end`, `run` | connection runtime |
| BER, envelope and RFC 4511 codecs | a read position and limits | encode, decode, frame | reader, writer, client |
| model mapping, generator, commands | none | conversions, one-pass programs | client |

What is hard here: many goroutines share one reader, one writer token and one
ID space; contexts end at any moment, also inside a blocked `Write`; the server
answers before `Write` returns, after the request was abandoned, or never; the
link dies between any two steps; channels of capacity one and a closed-and-
replaced channel serve as condition variables; the pool dials outside its lock
while others close it; setup talks over a connection that must be spotless when
it is published; two independent decoders must agree on where a frame ends.

## Modules

| Module | Models |
|---|---|
| `Conn` | `connection.go` from `Do` to `retire` |
| `IDTable`, `ConnTable` | what a connection promises about message IDs, and the refinement mapping from `Conn` to it |
| `Trace` | `Conn` with the events sent to `trace.go`'s observers as a history |
| `Auth` | `Dialer.authenticate`, `auth/auth.go`, `auth/simple.go`, `auth/gssapi` |
| `Setup` | `dial` and `bootstrap.go`, composed of `Auth` and an instance of `IDTable` |
| `Pool` | `pool/pool.go`, `pool/lease.go` |
| `Client` | `client.go`, `rfc4532/whoami.go` |
| `BER` | `ber/` (packets, reader), `response.go`, `encodeLDAPRequest` |
| `Messages` | `rfc4511/` and `ber/decoder.go` |
| `Wire` | `ber/framer.go` and `readLoop`, composed with `BER` and `Messages` |
| `MCConn`, `MCTrace`, `MCPool`, `MCClient`, `MCWire` | instances for TLC |
| `ConnProofs`, `ConnSafetyProofs`, `ConnDeliveryProofs`, `ConnTheorems`, `PoolStepProofs`, `PoolProofs`, `SetupProofs`, `ClientProofs` | proofs |

### Conn

One action is one critical section of `Conn.mu`, or one step of a goroutine
between two of them. An error is the set of sentinels it matches under
`errors.Is`. A `Do` call and its `pendingOperation` share a name `o`:
`pc[o]` is where the call is, `op[o]` the record, `cons[o]` its stream's
consumer, `apc[o]` its `sendAbandon` goroutine. The path of a call is `Reserve`,
`InstallPending`, `TakeToken`, `StartWrite`, `WriteCheck`, `Flow`,
`WriteReturn`, `WriteDone`, `ObserveWrite`, with `ReserveCanceled`, `GiveBack`,
`RemoveDefinitelyUnsent` and `CompleteNoResponse` for its other ends.
`CancelWins` is the `AfterFunc` that interrupts a `Write`; `AsyncRetire` a
goroutine that has decided to retire the connection and now gets the lock.
`ReadFrame`, `Route`, `RouteUnowned`, `RouteWait`, `RouteAgain` and
`RouteUnsolicited` are the reader. The peer (`PeerReplies`, `PeerStrays`), the
link (`Flow`, `LinkFault`) and the contexts (`ContextDone`) are the environment.
`owed`, `replies`, `got`, `sent`, `tail` and `torn` are history the properties
read and the code does not have.

Two critical sections are one action where nothing can tell them apart:
`GiveBack` is a refusal and the release of the ID; `AbandonTombstone` and
`AbandonWritten` include releasing the token and the ID; `CloseFinish` is
`transport.Close` and `retire`; `TakeToken` is taking the token and the second
look at the connection. The `retire` of a `CancelClose` cancellation runs in
the caller; the model lets it run at any later time, which allows more
behaviours. Argument checks of `do` before the reservation change no state and
are left out. A message is its ID, kind and size, and the operation it answers.

### IDTable and ConnTable

`IDTable` has three relations between processes and IDs (`reserved`, `pending`,
`tombstones`) and six steps: `Take`, `Release`, `File`, `Complete`, `Bury` and
`Shutdown`. `ConnTable` maps `Conn` to it: a reservation belongs to the
goroutine that must still install or release it, a pending record and a
tombstone to the `Do` call of their operation. `Setup` is built on `IDTable`
instead of on `Conn`, which is what the refinement allows.

### Trace

`TraceNext` is a step of `Conn` together with the events it sends. Nobody is
assumed to receive them, so `TraceWhole` bounds what the channel must hold when
the program's hooks never return.

### Auth and Setup

`auth` is where `authenticate` is, `got`, `freed` and `field` follow the GSSAPI
handles, `exchange` is the Bind in progress. Each call of the GSSAPI library
succeeds, fails, or returns what the code does not expect (a handle with an
error, a context that is complete and needs more, the wrong flags, any of six
kinds of security-layer offer). When `CloseAuth` follows a failure, what the
failed attempt had heard is forgotten: nothing reads it again.

`Setup` runs `Auth`'s steps as those of `initialize` and answers its Binds
through `initializationSession.Do`, one action per critical section. `lock` is
the session's mutex, which `Do` keeps while `Conn.do` reserves, installs and
writes. `Goroutines` are the one that sets up and an escaped one to which the
initializer gave the session. Endpoint, option and identity validation are
nondeterministic failures. Of the connection, `Setup` has the ID table,
cancellation with its three modes, `sendAbandon` and the retirement from
anywhere; a request is written at once or not at all. Operations of the session
that expect no response complete inside `Do` and are left out.

### Pool

One action is one critical section of `Pool.mu`. `Acquire` is one round of the
loop in `acquire`: it picks a usable connection, decides to dial, or sleeps on
`changed`; `sleeping` holds those whose channel has not been closed since.
`WaitEnds` is the `select` taking a context, `Wake` the other cases.
`WatchDone`, `ReplaceLoop` and its successors, `RetireExpired`/`RetireNext` and
`CloseBegin` to `CloseFinish` are the goroutines of the same names. A
`CloseConn` stands for `Conn.Close`; that it ends is what `DecisionsEnd` checks
of `Conn`. Lifetimes, idle times and backoff are nondeterministic, and so is the
choice among equally loaded connections. A dial succeeds or fails freely.
`AcquireReplace` is `startReplacement` and the context check after it.
`retireExpired` skips leased connections, so a leased connection does not drain.

### Client

A call is of one kind; "write" stands for `Add`, `Modify`, `Delete` and
`ModifyDN`, which differ only in the request they build. `stream` is
`Entries.stream`, `open` the streams the executor still counts against its
`Capacity` (a `Conn`, a session or a `Pool`). The server pages as RFC 2696
allows: any number of entries up to the page size, none included, a cookie that
is its position, or a control that can not be read. `NextEntry` to `TurnPage`
are the loop of `Entries.Next`, and a failure is possible wherever the code has
an error return. `err` and what a call returns tell an error that matches
`ErrNotFound` from one that does not, since `ResultError.Is` turns a
`noSuchObject` answer into the former. Referral URIs are not kept.

### BER, Messages and Wire

`BER` and `Messages` are operators. `BER` has both directions of identifiers,
lengths and integers, the `Reader` with its limits, and the envelope. Offsets
and wording of errors are left out. In `Messages` every type of `rfc4511` is a
schema (fields in order, optional fields, the identifiers reserved against
unknown fields, rules such as distinct attribute names), and `Decode` and
`PacketOf` do for all schemas what the methods of each type do. A search's time
limit is truncated to whole seconds by `SearchRequest.BERPacket`; the instances use
whole seconds, since `docs/phases/03-rfc4511-wire.md:523` leaves the choice to
the caller. UTF-8 validity is exact for single bytes.

`Wire` is the `Framer`, one action per read, and `readLoop`, over a stream of
encoded requests that may have one byte replaced or be cut. Requests and
responses share the envelope, so the same encoder feeds both directions.

## Runs

| Run | Instance | Properties |
|---|---|---|
| `conn_ids` | 2 operations, 2 IDs, one abandons and one drains, contexts end | `IDsExclusive`, `IDHeldWhileOwed`, `RoutedToOwner`, `NoLostIDWakeup`, `ImplementsIDTable` |
| `conn_streams` | 1 operation, 2 continuing responses of size 1 or 2, limits 2 messages and 3 bytes, EOF | `DeliveryComplete`, `NoLostResponseWakeup`, `QueueAccounting`, `TerminalWins` |
| `conn_writes` | 2 operations (one without response), 2 closers, frames of 2 pieces, reset | `OutcomeTruthful`, `FramesWhole`, `NoLeakedID`, `RetirementCompletes`, `SilentAfterUnbind` |
| `conn_peer` | 1 operation, 1 ID, 3 unprompted messages of size 1 or 2, limits 2 messages and 3 bytes, 1 listener | `UnsolicitedServed` |
| `conn_live` | 1 operation, 1 closer, fair, with its trace | `TraceWhole`, `CancelReturns`, `DecisionsEnd`, `RetiredQuiesces`, `ReaderProgress` |
| `setup` | all mechanisms, 1 GSSAPI round, 2 operations, 2 IDs, 3 cancellation modes, fair | `ReadyClean`, `FailsClosed`, `HandlesReleased`, `IdentityEarned`, `SetupReturns` |
| `pool` | 1 operation, 1 lease with 2 operations, 1 closer, 2 connections, one of which may fail | `InFlightExact`, `LeaseExclusive`, `NoLostWakeup`, `NoneLeaked` |
| `pool_live` | 1 operation, 1 closer, 1 connection that may fail and age, fair | `CloseReturns`, `AcquireReturns`, `NoneLingers` |
| `client` | a paged search beside a call of any kind, 1 stream slot, up to 2 matches and 3 pages, fair | `EntriesExact`, `StreamsReleased`, `AnswerTruthful`, `CallsEnd` |
| `wire` | 532 sequences of one or two requests; the 357 different streams of what is accepted, each whole, cut anywhere, or with one of its first 20 bytes replaced by one of 13 values | `RoundTrip`, `FramerAgrees`, `EnvelopeExact`, `DecodeStable` |
| `conn_outcome`, `pool_waiters` | see below | violated: `OneOutcome`, `WaitersCounted` |

Why the bounds are enough to be interesting: two operations and two IDs make
the ID space run out as soon as one request and its Abandon hold an ID each, so
waiting, wrapping and tombstones all occur. Two pieces per frame separate
"nothing", "some" and "all" of a request sent. In `conn_streams` either queue
limit can be the one that is hit, and so in `conn_peer`: three notifications
of size 1 pass the limit on messages, two of size 2 the limit on bytes. The two
closers of `conn_writes` are symmetric: no definition names one of them, and the
run has no liveness property. In `setup` one GSSAPI round takes two Binds,
all the operations the session allows, so a GSSAPI setup also meets the
operation limit in its initializer; the theorems hold for every number of
rounds, operations and IDs. In `pool` one lease and one operation compete for
one or two connections with one slot each. In `client` one slot means a search
that did not close its page would block itself. In `wire` an `int` has two bytes
and a tag number eight bits, so that both limits, multi-byte lengths and high
tags come within a short stream; `time.Second` is scaled to 64. `MaxContinue`,
`MaxStrays`, `MaxMatches` and `MaxStreams` bound what the peer does. All pool
runs have one endpoint, so choosing between endpoints is modelled but not
exercised. `CHECK_DEADLOCK` is off where every caller may be done.

Frames are checked for transports that keep `io.Writer`'s rule that a short
count comes with an error (`ShortWrites = FALSE`). Without that rule
`FramesWhole` fails: after an interrupted write the token is released before
the connection is retired. Handles are checked for a library whose `ImportName`
returns no name when it fails (`NameWithError = FALSE`): `Authenticate` drops
what comes with that error (`auth/gssapi/gssapi.go:184`), where it keeps and
releases what comes with the errors of the other calls.

### Fairness

`Conn` assumes that a goroutine that can go on does, and that the deadlines the
code itself sets for Abandon and Close pass. Nothing is assumed of callers,
their contexts, the peer or the link, so a `Write` may block for ever. `Setup`
assumes the same of its goroutines, that `InitializationTimeout` passes, and
that the library's calls and the initializer return; a server that never reads
or answers is allowed. `Pool` assumes the same of its goroutines and that
backoff timers fire. What takes place outside the pool ends only when something
ends it: a dial when its context does (the caller's in `acquire`, the pool's in
`replace`, which `CloseContext` cancels), `Conn.Do` when its context ends or its
connection is down, `Conn.CloseContext` when the closer's context ends, an
operation when its connection is down. The last three are what `CancelReturns`,
`RetiredQuiesces`, `DecisionsEnd` and `RetirementCompletes` check of `Conn`. Two
`select` statements get strong fairness for their context case, since Go picks
at random among ready cases. `Client` assumes that the server answers what it
was asked and that a program closes the rows it stops reading; a submission is
not assumed to fail, so `CallsEnd` rests on streams being given back.

### Where code and documents disagree

- `conn_outcome`: a request queued behind an interrupted write returns an error
  that is both `ErrDefinitelyUnsent` and `ErrAmbiguousOutcome`
  (`connection.go:816`); `docs/contracts.md:120` promises exactly one.
- `pool_waiters`: a waiter whose own dial fails leaves without being counted
  out (`pool/pool.go:256`), so `Stats` (`pool/stats.go:9`) is wrong and
  `MaxWaiters` is reached early.

Five more configurations each reach a state worth knowing of. They are kept for
the reader to run:

- `ConnStall.cfg` (`MCConn`, `ReaderProgress`): a message that carries the ID
  of an installed request whose write is then given up leaves the reader waiting
  (`connection.go:1012`); `docs/phases/04-connection-runtime.md:54` says the
  reader never blocks indefinitely. It takes a server that answers a request it
  has not received; in `conn_live`, where the server answers only what it
  received, the reader always goes on.
- `PoolLimit.cfg` (`MCPool`, `EndpointLimit`): the replacement loop and an
  `acquire` can together exceed `MaxConnectionsPerEndpoint`
  (`pool/pool.go:464`), the maximum of
  `docs/phases/06-pooling-routing-observability.md:40`.
- `SetupName.cfg` (`Setup`, `HandlesReleased`): a library that returns a name
  together with an error of `ImportName` gets it back from nobody
  (`auth/gssapi/gssapi.go:184`).
- `WireLimit.cfg` (`MCWire`, `FramesBounded`): a declared length close to the
  largest `int` wraps when the header's length is added (`ber/framer.go:82`), so
  the comparison with `MaxFrameBytes` does not refuse it.
- `WirePackets.cfg` (`MCWire`, `RoundTrip`): two opaque controls, one encoding
  two values and one none, pass the count in `encodeLDAPRequest`
  (`connection.go:531`), whose error says that packets "must each encode exactly
  one value".

## Proofs

For any sets of operations, closers and calls, any ID space and any limits the
named assumptions allow:

- `ConnProofs!TypeCorrect`: `Spec => []TypeOK`. One lemma per group of
  variables shows that every action keeps its type; lemmas on `Retired`,
  `Canceled`, `Cleared`, `Taken` and `Accepted` type the record updates.
- `ConnProofs!IDsExclusiveAlways`: an ID is in at most one of `reserved`,
  `pending` and `tombstones`, and while the connection lives `reserved` is
  exactly the set of IDs claimed by goroutines, each by one. The inductive
  invariant is `TypeOK /\ IDInv`: `PendingFiled` is needed because
  `AbandonTombstone` moves the ID found in the operation, which must be the one
  its record is filed under; `AbandonedOnce` because a second `sendAbandon` for
  an operation would overwrite the claim of the first; `RetireHasCause` because
  `retire` empties `reserved`, which is right only if it also sets `err`.
  `AbandonedOnceAlways` and `RetireHasCauseAlways` state those two on their own.
- `ConnProofs` ends with what a step may do at all: to the record of an operation
  (`RecordMoves`), to the place of its `Do` call (`CallMoves`) and to the end of
  the connection (`ErrMoves`), and that only the holder of the token writes
  (`TokenHeld`). Each is proved once for all actions; `ConnSafetyProofs` then
  reasons about a handful of moves instead of some forty actions.
- `ConnSafetyProofs` shows that one invariant, `SafeInv`, on top of
  `TypeOK /\ IDInv`, survives every step. `ConnTheorems` draws eight promises
  from it:
  - `RetirementCompletesAlways` and `TerminalWinsAlways` need `RecordInv`: an
    operation past `installPending` is pending or over, nothing is pending on a
    retired connection, and a record that is terminal has left the table, so
    neither `route` nor `retire` finds it again.
  - `NoLostResponseWakeupAlways` is inductive over the moves of the record: each
    that changes what the consumer waits for sets `ready`.
  - `NoLostIDWakeupAlways`: the exhausted ID space is a count in the code and a
    union of three sets in the argument (`FullCount`, from the library's theorems
    on cardinality and the disjointness in `IDInv`); an ID that becomes free
    clears `idWait`.
  - `NoLeakedIDAlways` needs `UnsentInv`: a write that won its race with the
    context, or failed after its first byte, has announced a `retire`.
  - `OutcomeTruthfulAlways` needs `SentInv`: how much of a request has left at
    each place of its `Do` call, that a record with bytes out is marked
    `writeStarted` before `retire` reads it, and that no error on its way to
    somebody says unsent of a frame that began.
  - `FramesWholeAlways` (`~ShortWrites /\ Spec => []FramesWhole`) needs
    `FrameInv` and `WriterInv`: the last frame on the wire is the token holder's
    or complete, or the link is down. Without the hypothesis on `Write` it is
    false, and the code relies on `io.Writer` there.
  - `SilentAfterUnbindAlways` needs `UnbindInv`: one closer at a time, and from
    the first piece of its Unbind nobody else gets the token.
- `ConnDeliveryProofs` does the same for `ResponseInv`, which is about who is
  owed what. It adds the moves of a stream (`StreamMoves`), of a request and its
  Abandon (`StagesMove`), of the tables and of what is between peer and `route`
  (`InFlight`). `StageInv` says when a record, a stream and a tombstone exist.
  While the peer has sent only answers (`strays = 0`): each message in flight
  answers the request whose ID it carries, in order (`AnswerInv`); the ID of a
  request that is owed or has an answer in flight is still its own, pending or
  buried (`HeldInv`), which is why an ID cannot be reused too early; and what a
  consumer has taken, what is queued and what is in flight are together exactly
  the responses sent (`Complements`), until the stream is canceled. From this
  `ConnTheorems` has `IDHeldWhileOwedAlways`, `RoutedToOwnerAlways` and
  `DeliveryCompleteAlways`. The first two carry `strays = 0` in the theorem, the
  last in the property: a peer that answers under another request's ID can
  misdirect any client. `conn_ids` and `conn_streams` have no strays either.
- `ConnTheorems!ConnImplementsIDTable`: every step of `Conn` maps to one step
  of `IDTable` or to none. The mapping is rewritten from the tables to the
  claims with the invariant of `ConnProofs`; then there is one lemma per
  group of actions that leave all tables alone, and one per action that moves an
  ID. That no ID has two holders (`OneHolderAlways`) and that a tombstone goes
  only with the connection (`BuriedForGoodAlways`) is shown of the table and
  holds of `Conn` by the refinement.
- `PoolStepProofs` and `PoolProofs`, for any endpoints, connections, calls,
  leases and closers. `TypeCorrect` bounds what each connection carries and how
  many wait; `CapacityExact` is `InFlightExact`, `LeasesExclusive` is
  `LeaseExclusive`. None of them is inductive alone, so `Core == TypeOK /\
  LoadInv` is carried through all actions. A release may lower `inFlight` only
  because its operation is one of those counted, which takes `Placed` (where each
  call is and what it holds there, and that an operation whose lifecycle ended
  keeps its capacity until the first `releaseOnce`); the counters are
  cardinalities of sets that must be finite (`FinitelyBusy`, `QueueCounted`,
  `DialsCounted`); and a lease stays alone on its connection because a connection
  is in one list, once (`Filed`), and a broken one is no longer marked leased.
  The lemmas on steps take the facts on counting as a hypothesis (`Counting`),
  which `Counted` discharges from the library.
- `PoolProofs!ConnectionsAccounted`: `Spec => []NoneLeaked`. `LeakInv` adds
  what makes it inductive: who closes a connection that is retiring, that
  `closeMu` has one holder, and that once `closeAll` has its list every listed
  connection that is up is in it, which holds because a dial that ends while the
  pool is closing files nothing. `NoWakeupLost`: `Spec => []NoLostWakeup`, with
  `WakeInv`, which speaks of the capacity there is instead of the choice `acquire`
  makes: an action that frees capacity or room signals, one that does not leaves
  every sleeper's scope as crowded as it was. That a set of equally good
  candidates has a least loaded member is by the well-foundedness of `<` on `Nat`.
- `SetupProofs` first takes `Auth` with an arbitrary environment.
  `HandlesReleasedAlways` needs that a handle obtained and not yet released is
  either in a field or the provider `Begin` still holds (`HandleInv`), and the
  hypothesis `~NameWithError`, which `FailsClosedAlways` and the half of
  `SetupAuthenticates` on handles inherit;
  `IdentityEarnedAlways` needs, for each place `authenticate` can be, what the
  server and the library have said so far (`IdentityInv`). `SetupImplementsAuth`
  shows that each step of `Setup` is a step of `Auth` or of its environment,
  which carries both over (`SetupAuthenticates`). `FailsClosedAlways` follows
  from `PhaseInv` and `QuietInv` (which places go with an open socket, an active
  session and a finished authenticator). `ReadyCleanAlways` needs that an
  operation on its way to the wire holds the session's lock (`LockInv`), and
  that from `deactivate` on none does, so the tables `markReady` finds empty
  stay empty (`CleanInv`).
- `ClientProofs`: the invariant `ClientInv` says of each call which stream it
  holds, that the entries returned are those the server has passed, what the
  cookie is at each place, how often `Get` has called `Next`, which error a
  search keeps for which result code, and what a call that is over may have
  returned. `StreamsReleased`, `EntriesExact` and
  `AnswerTruthful` follow, and with it `StopFinal`: a search that is done or has
  failed stays so.

Only model-checked: the liveness properties (the prover has no fairness); of
`Conn`, `QueueAccounting` and `UnsolicitedServed`, whose sum of the sizes in a
queue is a recursive function and would take an induction over data; `TraceWhole`
of `Trace`; and `BER`, `Messages` and `Wire`, whose recursive operators are out
of the prover's reach.

## Not modelled

- Model mapping (`ldapmodel/`) and the request and entry helpers of the client
  (`entry.go`, `filter.go`, `change.go`, `ldap_types.go`): stateless conversions
  between Go values whose behaviour is that of the user's codecs.
- The generator, the commands and the test environments: one-pass programs and
  I/O.
- The native GSSAPI binding: calls into C. `Auth` has the library as its
  environment.
- `otelldap` and logging: receivers of events, which change nothing.
- Building and validating response patterns and options: done once before there
  is any state.
- Several listeners for unsolicited notifications, several closers of one pool,
  and several endpoints in one pool run.
