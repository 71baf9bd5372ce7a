------------------------------- MODULE Client -------------------------------
(***************************************************************************)
(* The typed Client (client.go): Search and its Entries iterator, Get, the *)
(* write operations and Compare, and WhoAmI (rfc4532), which is written    *)
(* like one of them, over an executor (Conn, initialization session, Pool) *)
(* which bounds how many response streams are open at once, and a          *)
(* directory server which pages its answers as RFC 2696 allows.  Several   *)
(* calls run concurrently, each in its own goroutine; they share only the  *)
(* executor.                                                               *)
(***************************************************************************)
EXTENDS Integers, Sequences, FiniteSets

CONSTANTS
  Calls,         \* the calls made on one Client
  Kinds,         \* the kinds each call may be of
  Capacity,      \* streams the executor lets be open at once
  PageSize,      \* SearchRequest.PageSize of a paged search
  MaxMatches,    \* bound: entries a search can match
  MaxStreams     \* bound: streams one call opens

CallKinds == {"search", "paged", "get", "write", "compare", "whoami"}

ASSUME ClientAssumption ==
  /\ Kinds \in [Calls -> SUBSET CallKinds]
  /\ Capacity \in Nat
  /\ PageSize \in Nat \ {0}
  /\ MaxMatches \in Nat
  /\ MaxStreams \in Nat

VARIABLES
  kind,     \* what the call is
  matches,  \* how many entries match it on the server
  pc,       \* where the calling goroutine is
  stream,   \* the stream the call holds (Entries.stream); 0 is nil
  serial,   \* streams the executor has given to the call
  open,     \* streams of the call that it has not closed
  served,   \* entries the server has passed, up to the current stream's position
  sent,     \* entries sent on the current stream
  code,     \* the result code of the current stream's terminal response
  cookie,   \* the paged-results cookie of the latest terminal response
  out,      \* the entries Next has returned TRUE for, oldest first
  asked,    \* calls of Next that Get has made
  err,      \* Entries.err: nil, or an error that does or does not match ErrNotFound
  done,     \* Entries.done
  closed,   \* Entries.closed
  result    \* what the call returned

request   == <<kind, matches>>
transport == <<stream, serial, open>>
server    == <<served, sent, code>>
rows      == <<cookie, out, asked, err, done, closed>>
vars      == <<request, pc, transport, server, rows, result>>

\* Cookies are the server's position; these two are not positions.
EmptyCookie == -1
BadControl  == -2

Searches == {"search", "paged", "get"}

\* Result codes; "unfit" is success in a response WhoAmI can not use: it has a
\* name, or no value, or one that is not UTF-8.
Codes == {"success", "true", "false", "noSuchObject", "other", "unfit"}

\* An error, by whether errors.Is finds ErrNotFound in it.
Errors == {"error", "notfound"}

\* Mutant: ResultError has no Is.
ResultErrorOpaque(c, r) == "error"

\* The ResultError made of code r.  Its Is maps noSuchObject to ErrNotFound; the
\* ResultError of rfc4532, which WhoAmI returns, has no Is.
ResultError(c, r) ==
  IF r = "noSuchObject" /\ kind[c] # "whoami" THEN "notfound" ELSE "error"

\* The executor has room for another stream (external: Executor.Do waits).
Room == Cardinality({s \in Calls \X (1..MaxStreams) : s[2] \in open[s[1]]}) < Capacity

Init ==
  /\ kind \in [Calls -> CallKinds]
  /\ \A c \in Calls : kind[c] \in Kinds[c]
  /\ matches \in [Calls -> 0..MaxMatches]
  /\ \A c \in Calls : kind[c] \notin Searches => matches[c] = 0
  /\ pc = [c \in Calls |-> "idle"]
  /\ stream = [c \in Calls |-> 0]
  /\ serial = [c \in Calls |-> 0]
  /\ open = [c \in Calls |-> {}]
  /\ served = [c \in Calls |-> 0]
  /\ sent = [c \in Calls |-> 0]
  /\ code = [c \in Calls |-> "none"]
  /\ cookie = [c \in Calls |-> EmptyCookie]
  /\ out = [c \in Calls |-> <<>>]
  /\ asked = [c \in Calls |-> 0]
  /\ err = [c \in Calls |-> "none"]
  /\ done = [c \in Calls |-> FALSE]
  /\ closed = [c \in Calls |-> FALSE]
  /\ result = [c \in Calls |-> "none"]

Goto(c, p)    == pc' = [pc EXCEPT ![c] = p]
Returns(c, r) == result' = [result EXCEPT ![c] = r]
Fails(c, e)   == err' = [err EXCEPT ![c] = e]

-----------------------------------------------------------------------------
(* Streams *)

\* ExecuteStream succeeds: the server starts from the position the request's
\* cookie names, and from the beginning when it names none.
ExecuteStream(c, k) ==
  /\ Room
  /\ serial[c] < MaxStreams
  /\ serial' = [serial EXCEPT ![c] = @ + 1]
  /\ stream' = [stream EXCEPT ![c] = serial[c] + 1]
  /\ open' = [open EXCEPT ![c] = @ \cup {serial[c] + 1}]
  /\ served' = [served EXCEPT ![c] = IF k = EmptyCookie THEN 0 ELSE k]
  /\ sent' = [sent EXCEPT ![c] = 0]
  /\ code' = [code EXCEPT ![c] = "none"]

\* closeStream: forget the stream, then close it.
CloseStream(c) ==
  /\ stream' = [stream EXCEPT ![c] = 0]
  /\ open' = [open EXCEPT ![c] = @ \ {stream[c]}]
  /\ UNCHANGED serial

\* startPage: refuses to run over a stream that is still held.
StartPage(c, k) == stream[c] = 0 /\ ExecuteStream(c, k)

-----------------------------------------------------------------------------
(* Starting a call *)

\* Search, or the submission inside ExecuteSingle.
Start(c) ==
  /\ pc[c] = "idle"
  /\ StartPage(c, EmptyCookie)
  /\ Goto(c, IF kind[c] \in Searches THEN "between" ELSE "reading")
  /\ UNCHANGED <<request, rows, result>>

\* The request is invalid, or the executor returns an error.
StartFails(c) ==
  /\ pc[c] = "idle"
  /\ Goto(c, "over")
  /\ Returns(c, "error")
  /\ UNCHANGED <<request, transport, server, rows>>

-----------------------------------------------------------------------------
(* Entries.Next *)

\* Next is called: by the program as it likes, by Get at most twice and the
\* second time only after an entry.  It returns FALSE at once when the
\* iteration is done or has failed.
NextCall(c) ==
  /\ pc[c] = "between"
  /\ kind[c] = "get" => asked[c] < 2 /\ asked[c] = Len(out[c])
  /\ asked' = IF kind[c] = "get" THEN [asked EXCEPT ![c] = @ + 1] ELSE asked
  /\ Goto(c, IF done[c] \/ err[c] # "none" THEN "between" ELSE "reading")
  /\ UNCHANGED <<request, transport, server, cookie, out, err, done, closed, result>>

\* A SearchResultEntry: Next returns TRUE.
NextEntry(c) ==
  /\ pc[c] = "reading"
  /\ kind[c] \in Searches
  /\ served[c] < matches[c]
  /\ kind[c] = "paged" => sent[c] < PageSize
  /\ served' = [served EXCEPT ![c] = @ + 1]
  /\ sent' = [sent EXCEPT ![c] = @ + 1]
  /\ out' = [out EXCEPT ![c] = Append(@, served[c] + 1)]
  /\ Goto(c, "between")
  /\ UNCHANGED <<request, transport, code, cookie, asked, err, done, closed, result>>

\* A SearchResultReference: Next reads on.  The URIs kept for Referrals are
\* not modelled.
NextReference(c) ==
  /\ pc[c] = "reading"
  /\ kind[c] \in Searches
  /\ UNCHANGED vars

\* stream.Next fails: the transport, the context or a decoder.
NextFails(c) ==
  /\ pc[c] \in {"reading", "ending"}
  /\ kind[c] \in Searches
  /\ Fails(c, "error")
  /\ Goto(c, "between")
  /\ UNCHANGED <<request, transport, server, cookie, out, asked, done, closed, result>>

\* A SearchResultDone with result r and, on a paged search, cookie k.  The
\* server reports success without a cookie only when it has sent every match.
NextDone(c, r, k) ==
  /\ pc[c] = "reading"
  /\ kind[c] \in Searches
  /\ \/ k = EmptyCookie /\ (r = "success" => served[c] = matches[c])
     \/ r = "success" /\ kind[c] = "paged" /\ k = BadControl
     \/ r = "success" /\ kind[c] = "paged" /\ k = served[c] /\ serial[c] < MaxStreams
  /\ code' = [code EXCEPT ![c] = r]
  /\ cookie' = [cookie EXCEPT ![c] = k]
  /\ IF r = "success" THEN Goto(c, "ending") /\ UNCHANGED err
                      ELSE Fails(c, ResultError(c, r)) /\ Goto(c, "between")
  /\ UNCHANGED <<request, transport, served, sent, out, asked, done, closed, result>>

\* Mutant: the stream of a page is kept while the next one is started.
PageEndHolding(c) ==
  /\ pc[c] = "ending"
  /\ kind[c] \in Searches
  /\ IF kind[c] # "paged" \/ cookie[c] \in {EmptyCookie, BadControl}
     THEN done' = [done EXCEPT ![c] = TRUE] /\ Goto(c, "between")
     ELSE Goto(c, "turning") /\ UNCHANGED done
  /\ UNCHANGED <<request, transport, server, cookie, out, asked, err, closed, result>>

\* requireEnd saw EOF; the stream is closed before the cookie is looked at.
\* The search is over, is out of order (no cookie to read), or has another page.
PageEnd(c) ==
  /\ pc[c] = "ending"
  /\ kind[c] \in Searches
  /\ CloseStream(c)
  /\ \/ /\ kind[c] # "paged" \/ cookie[c] = EmptyCookie
        /\ done' = [done EXCEPT ![c] = TRUE]
        /\ Goto(c, "between")
        /\ UNCHANGED err
     \/ /\ kind[c] = "paged" /\ cookie[c] = BadControl
        /\ Fails(c, "error")
        /\ Goto(c, "between")
        /\ UNCHANGED done
     \/ /\ kind[c] = "paged" /\ cookie[c] \notin {EmptyCookie, BadControl}
        /\ Goto(c, "turning")
        /\ UNCHANGED <<err, done>>
  /\ UNCHANGED <<request, server, cookie, out, asked, closed, result>>

\* closing the stream reported an error.
PageEndFails(c) ==
  /\ pc[c] = "ending"
  /\ kind[c] \in Searches
  /\ CloseStream(c)
  /\ Fails(c, "error")
  /\ Goto(c, "between")
  /\ UNCHANGED <<request, server, cookie, out, asked, done, closed, result>>

\* Mutant: the next page is asked for without the cookie.
TurnPageAnew(c) ==
  /\ pc[c] = "turning"
  /\ StartPage(c, EmptyCookie)
  /\ Goto(c, "reading")
  /\ UNCHANGED <<request, rows, result>>

\* startPage(cookie), and Next reads on.
TurnPage(c) ==
  /\ pc[c] = "turning"
  /\ StartPage(c, cookie[c])
  /\ Goto(c, "reading")
  /\ UNCHANGED <<request, rows, result>>

TurnPageFails(c) ==
  /\ pc[c] = "turning"
  /\ Fails(c, "error")
  /\ Goto(c, "between")
  /\ UNCHANGED <<request, transport, server, cookie, out, asked, done, closed, result>>

\* Entries.Close, by the program at any point between two calls of Next; the
\* program looks at Entries.Err.
Close(c) ==
  /\ pc[c] = "between"
  /\ kind[c] # "get"
  /\ closed' = [closed EXCEPT ![c] = TRUE]
  /\ done' = [done EXCEPT ![c] = TRUE]
  /\ CloseStream(c)
  /\ Goto(c, "over")
  /\ Returns(c, IF err[c] # "none" THEN err[c] ELSE IF done[c] THEN "ok" ELSE "stopped")
  /\ UNCHANGED <<request, server, cookie, out, asked, err>>

\* Mutant: Get returns without its deferred Close.
GetReturnOpen(c) ==
  /\ pc[c] = "between"
  /\ kind[c] = "get"
  /\ asked[c] > Len(out[c]) \/ Len(out[c]) = 2
  /\ Returns(c, IF Len(out[c]) = 1 /\ err[c] = "none" THEN "ok" ELSE "error")
  /\ Goto(c, "over")
  /\ UNCHANGED <<request, transport, server, rows>>

\* Get returns after the Next that did not return TRUE, or after a second
\* entry, which is an error of its own; otherwise Entries.Err comes first, and
\* without one no entry is ErrNotFound.  The deferred Close runs on every path.
GetReturn(c) ==
  /\ pc[c] = "between"
  /\ kind[c] = "get"
  /\ asked[c] > Len(out[c]) \/ Len(out[c]) = 2
  /\ Returns(c, IF Len(out[c]) = 2 THEN "error"
                ELSE IF err[c] # "none" THEN err[c]
                ELSE IF Len(out[c]) = 0 THEN "notfound" ELSE "ok")
  /\ closed' = [closed EXCEPT ![c] = TRUE]
  /\ done' = [done EXCEPT ![c] = TRUE]
  /\ CloseStream(c)
  /\ Goto(c, "over")
  /\ UNCHANGED <<request, server, cookie, out, asked, err>>

-----------------------------------------------------------------------------
(* ExecuteSingle *)

\* Codes the operation accepts: Compare's AcceptResultCodes replaces the set
\* that holds only success.
Accepted(c) == IF kind[c] = "compare" THEN {"true", "false"} ELSE {"success"}

SingleResponse(c, r) ==
  /\ pc[c] = "reading"
  /\ kind[c] \notin Searches
  /\ r = "unfit" => kind[c] = "whoami"
  /\ code' = [code EXCEPT ![c] = r]
  /\ Goto(c, "ending")
  /\ UNCHANGED <<request, transport, served, sent, rows, result>>

\* The stream ended after one response.  compare turns the code into its
\* answer; an accepted code that is not one would be an error.
SingleReturn(c) ==
  /\ pc[c] = "ending"
  /\ kind[c] \notin Searches
  /\ Returns(c, IF code[c] \notin Accepted(c) THEN ResultError(c, code[c])
                ELSE IF kind[c] \in {"write", "whoami"} THEN "ok"
                ELSE IF code[c] \in {"true", "false"} THEN code[c] ELSE "error")
  /\ CloseStream(c)
  /\ Goto(c, "over")
  /\ UNCHANGED <<request, server, rows>>

\* No response, or another one after the first.
SingleFails(c) ==
  /\ pc[c] \in {"reading", "ending"}
  /\ kind[c] \notin Searches
  /\ Returns(c, "error")
  /\ CloseStream(c)
  /\ Goto(c, "over")
  /\ UNCHANGED <<request, server, rows>>

-----------------------------------------------------------------------------
Reply(c) ==
  \/ NextEntry(c) \/ NextReference(c) \/ NextFails(c)
  \/ \E r \in {"success", "noSuchObject", "other"}, k \in {EmptyCookie, BadControl} \cup 0..MaxMatches :
       NextDone(c, r, k)
  \/ \E r \in Codes : SingleResponse(c, r)

Proceed(c) ==
  \/ Start(c) \/ NextCall(c) \/ PageEnd(c) \/ PageEndFails(c) \/ TurnPage(c)
  \/ Close(c) \/ GetReturn(c) \/ SingleReturn(c) \/ SingleFails(c)

Step(c) == Reply(c) \/ Proceed(c) \/ StartFails(c) \/ TurnPageFails(c)

Finished == (\A c \in Calls : pc[c] = "over") /\ UNCHANGED vars

Next == (\E c \in Calls : Step(c)) \/ Finished

Spec == Init /\ [][Next]_vars

\* Goroutines run and the server answers what it has been asked; nothing
\* obliges a submission to fail.  A program that gets no more entries closes
\* its rows.
Fairness == \A c \in Calls : WF_vars(Reply(c)) /\ WF_vars(Proceed(c))

FairSpec == Spec /\ Fairness

-----------------------------------------------------------------------------
(* Properties *)

TypeOK ==
  /\ kind \in [Calls -> CallKinds]
  /\ matches \in [Calls -> Nat]
  /\ pc \in [Calls -> {"idle", "between", "reading", "ending", "turning", "over"}]
  /\ stream \in [Calls -> Nat]
  /\ serial \in [Calls -> Nat]
  /\ open \in [Calls -> SUBSET Nat]
  /\ served \in [Calls -> Nat]
  /\ sent \in [Calls -> Nat]
  /\ code \in [Calls -> Codes \cup {"none"}]
  /\ cookie \in [Calls -> Int]
  /\ out \in [Calls -> Seq(Nat)]
  /\ asked \in [Calls -> 0..2]
  /\ err \in [Calls -> Errors \cup {"none"}]
  /\ done \in [Calls -> BOOLEAN]
  /\ closed \in [Calls -> BOOLEAN]
  /\ result \in [Calls -> Errors \cup {"none", "ok", "stopped", "true", "false"}]

\* Entries.Next hands the program the matching entries in the server's order,
\* none twice and none left out, across however many pages the server splits
\* them into, empty ones included (startPage resends exactly the cookie of the
\* page before); and a search that ends without an error returned all of them.
EntriesExact ==
  \A c \in Calls :
    /\ out[c] = [i \in 1..Len(out[c]) |-> i]
    /\ kind[c] # "get" /\ result[c] = "ok" /\ kind[c] \in Searches => Len(out[c]) = matches[c]

\* A call never has a response stream open that it has lost track of: what is
\* open is what Entries.stream (or ExecuteSingle's local) names, a page's
\* stream is closed before the next page is asked for, and none is open once
\* the call is over, whichever way it ended.
StreamsReleased ==
  \A c \in Calls :
    /\ open[c] \subseteq {stream[c]}
    /\ pc[c] \in {"idle", "turning", "over"} => open[c] = {}

\* What a call returns is what the server said.  Get returns an entry only when
\* the server reported success and exactly that one entry.  An error matches
\* ErrNotFound only when the server answered noSuchObject (ResultError.Is), or
\* answered Get with success and no entry; and a search or Get the server
\* answered with noSuchObject does return such an error, entries or none.  A
\* write or WhoAmI succeeds and Compare answers only by the one result code the
\* server sent, and Compare takes no other code for an answer.
AnswerTruthful ==
  \A c \in Calls :
    /\ kind[c] = "get" /\ result[c] = "ok" => code[c] = "success" /\ matches[c] = 1
    /\ result[c] = "notfound" =>
         \/ code[c] = "noSuchObject" /\ kind[c] # "whoami"
         \/ code[c] = "success" /\ kind[c] = "get" /\ matches[c] = 0
    /\ kind[c] \in Searches /\ pc[c] = "over" /\ code[c] = "noSuchObject" =>
         result[c] = "notfound"
    /\ kind[c] \in {"write", "whoami"} /\ result[c] = "ok" => code[c] = "success"
    /\ kind[c] = "compare" => result[c] # "ok"
    /\ result[c] \in {"true", "false"} => kind[c] = "compare" /\ code[c] = result[c]

\* Entries.Err reports the first failure for good: once a search is done or
\* has failed, Next reads nothing more, starts no page and loses no error.
StopFinal ==
  [][\A c \in Calls : done[c] \/ err[c] # "none" =>
        /\ out'[c] = out[c] /\ serial'[c] = serial[c]
        /\ err'[c] = err[c] /\ (done[c] => done'[c])]_vars

\* Every call comes to its end, however few streams the executor lets be open
\* at once: a search never waits for the stream of its next page while it
\* holds the one of the page before, so searches sharing the last slot of a
\* pool do not wait on each other for ever.
CallsEnd == \A c \in Calls : <>(pc[c] = "over")

=============================================================================
