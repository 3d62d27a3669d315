---------------------------- MODULE ProxyRequest ----------------------------
(***************************************************************************)
(* handleProxy of serve.js: the life of the requests the proxy forwards to *)
(* one provider.  Every await of the handler, and every event handler it   *)
(* leaves on the upstream response, is an action, so requests interleave   *)
(* wherever the event loop can switch between them.                        *)
(*                                                                         *)
(* A request takes a key (waiting a bounded time for one), forwards, and   *)
(* on a retryable failure gives the key back and takes another one.  The   *)
(* final response is streamed: as one body or as server-sent events whose  *)
(* usage chunk already releases the key.  The client may leave any time.   *)
(***************************************************************************)
EXTENDS Provider, FiniteSets

CONSTANTS
  Request,            \* the requests of one run of the proxy, each served once
  MaxRetries429,      \* max_retries_429
  MaxRetriesNetwork,  \* max_retries_network
  MaxRetries5xx,      \* max_retries_5xx
  AcquireWait,        \* acquire_wait_ms, the longest wait for a key
  MaxUsageLines,      \* bound of the model: data lines with usage in one event
  ClientsLeave        \* do clients disconnect and streams time out?

ASSUME ProxyAssumption ==
  /\ IsFiniteSet(Request)
  /\ MaxRetries429 \in Nat
  /\ MaxRetriesNetwork \in Nat
  /\ MaxRetries5xx \in Nat
  /\ AcquireWait \in Nat
  /\ MaxUsageLines \in Nat \ {0}
  /\ ClientsLeave \in BOOLEAN

VARIABLES
  phase,      \* where the handler of a request waits
  key,        \* the key of its current attempt
  released,   \* the key of the current attempt was released
  attempt,    \* attempt of the retry loop
  budget,     \* dynamicMaxRetries
  status,     \* lastStatus, by class
  wait,       \* ticks until acquireWithWait's deadline
  streaming,  \* the requests whose response is an event stream (isSSE)
  connected,  \* the client still listens: res is not destroyed
  failures,   \* history: the classes of failure the request has met
  surplus     \* history: requests that may hold a key uncounted (KeyLease)

reqVars == <<phase, key, released, attempt, budget, status, wait, streaming, connected, failures>>
vars    == <<provVars, reqVars, surplus>>

NoKey == -1

Phases == {"acquire", "polling", "forwarded", "errorBody", "body", "sse", "done"}

\* Classes of upstream answers: "400" stands for 400 and 404, whose body is
\* searched for a deprecation, "4xx" for the other failures that are neither
\* retryable nor about the key.
Statuses == {"ok", "429", "5xx", "net", "auth", "400", "4xx"}

Holding(r) == key[r] # NoKey /\ ~released[r]
Holders(k) == {r \in Request : Holding(r) /\ key[r] = k}

\* The streams on k that startStream counted and whose key is unreleased: the
\* ones that still run, and the ones that were abandoned.
OpenStreams(k)      == Holders(k) \cap streaming
RunningStreams(k)   == {r \in OpenStreams(k) : phase[r] = "sse"}
AbandonedStreams(k) == {r \in OpenStreams(k) : phase[r] = "done"}

-----------------------------------------------------------------------------
HardMaxRetries == Lesser(NKeys, 3)

MaxRetriesFor(s) ==
  IF s = "429" THEN MaxRetries429
  ELSE IF s = "net" THEN MaxRetriesNetwork
  ELSE IF s = "5xx" THEN MaxRetries5xx ELSE 0

Retryable(s) == s \in {"429", "5xx"}

BlockedFor(k) == Greater(Greater(cooldowns[k], keyCbUntil[k]), 0)

\* provider.soonestAvailableMs()
SoonestAvailable == CHOOSE t \in {BlockedFor(k) : k \in Keys} :
                      \A k \in Keys : t <= BlockedFor(k)

TypeOK ==
  /\ ProviderTypeOK
  /\ phase \in [Request -> Phases]
  /\ key \in [Request -> Keys \cup {NoKey}]
  /\ released \in [Request -> BOOLEAN]
  /\ attempt \in [Request -> 0..HardMaxRetries]
  /\ budget \in [Request -> 0..HardMaxRetries]
  /\ status \in [Request -> Statuses]
  /\ wait \in [Request -> 0..AcquireWait]
  /\ streaming \subseteq Request
  /\ connected \in [Request -> BOOLEAN]
  /\ failures \in [Request -> SUBSET Statuses]
  /\ surplus \in [Keys -> Nat]

Init ==
  /\ ProviderInit
  /\ phase = [r \in Request |-> "acquire"]
  /\ key = [r \in Request |-> NoKey]
  /\ released = [r \in Request |-> FALSE]
  /\ attempt = [r \in Request |-> 0]
  /\ budget = [r \in Request |-> HardMaxRetries]
  /\ status = [r \in Request |-> "ok"]
  /\ wait = [r \in Request |-> 0]
  /\ streaming = {}
  /\ connected = [r \in Request |-> TRUE]
  /\ failures = [r \in Request |-> {}]
  /\ surplus = [k \in Keys |-> 0]

-----------------------------------------------------------------------------
(* acquireWithWait: one try, then polling until a deadline.                *)

GoTo(r, p) == phase' = [phase EXCEPT ![r] = p]

\* A turn of the retry loop is over; the key it held was released.
DropKey(r) ==
  /\ key' = [key EXCEPT ![r] = NoKey]
  /\ released' = [released EXCEPT ![r] = FALSE]

\* The handler is over: the response is closed, the locals are gone.
Finish(r) ==
  /\ GoTo(r, "done")
  /\ DropKey(r)
  /\ attempt' = [attempt EXCEPT ![r] = 0]
  /\ budget' = [budget EXCEPT ![r] = HardMaxRetries]
  /\ status' = [status EXCEPT ![r] = "ok"]
  /\ wait' = [wait EXCEPT ![r] = 0]
  /\ streaming' = streaming \ {r}
  /\ connected' = [connected EXCEPT ![r] = FALSE]
  /\ failures' = [failures EXCEPT ![r] = {}]

TakeKey(r, k) ==
  /\ phase[r] \in {"acquire", "polling"}
  /\ AcquireKey(k)
  /\ key' = [key EXCEPT ![r] = k]
  /\ wait' = [wait EXCEPT ![r] = 0]
  /\ GoTo(r, "forwarded")
  /\ UNCHANGED <<released, attempt, budget, status, streaming, connected, failures, surplus>>

\* The deadline of a wait worth starting; 0 when there is none.  The margin of
\* half a second past the soonest key is one tick.
WaitTime ==
  IF SoonestAvailable > AcquireWait THEN 0
  ELSE IF SoonestAvailable = 0 THEN AcquireWait
  ELSE Lesser(AcquireWait, SoonestAvailable + 1)

\* The first try fails: answer 429, or start to poll.
NoKeyYet(r) ==
  /\ phase[r] = "acquire"
  /\ AcquireNone
  /\ IF WaitTime > 0 /\ connected[r]
       THEN /\ wait' = [wait EXCEPT ![r] = WaitTime]
            /\ GoTo(r, "polling")
            /\ UNCHANGED <<key, released, attempt, budget, status, streaming, connected, failures>>
       ELSE Finish(r)
  /\ UNCHANGED surplus

\* Mutant: every failed poll restarts the wait.
PollForever(r) ==
  /\ phase[r] = "polling"
  /\ AcquireNone
  /\ IF connected[r] THEN wait' = [wait EXCEPT ![r] = AcquireWait] ELSE UNCHANGED wait
  /\ UNCHANGED <<phase, key, released, attempt, budget, status, streaming, connected, failures,
                 surplus>>

\* A poll fails: the loop ends at the deadline or when the client has left.
PollAgain(r) ==
  /\ phase[r] = "polling"
  /\ AcquireNone
  /\ IF wait[r] > 0 /\ connected[r]
       THEN UNCHANGED reqVars
       ELSE Finish(r)
  /\ UNCHANGED surplus

-----------------------------------------------------------------------------
(* One attempt: forward and the retry decision.                            *)

\* The key of r is given back, and reported extra times more than it should.
\* Of the requests that still hold it, so many may now be overlooked.
GivesBack(r, extra) ==
  LET k == key[r]
  IN  surplus' = [surplus EXCEPT ![k] = Lesser(@ + extra, Cardinality(Holders(k)) - 1)]

\* Mutant: every handler of the response releases.
ReleaseAlways(r, o) ==
  /\ ReleaseKey(key[r], o)
  /\ IF released[r] THEN UNCHANGED surplus ELSE GivesBack(r, 0)

\* release, when the stream or response handlers have not done it already.
ReleaseOnce(r, o) ==
  IF released[r] THEN UNCHANGED <<index, cooldowns, keyVars, pending, cbVars, surplus>>
  ELSE ReleaseKey(key[r], o) /\ GivesBack(r, 0)

\* Mutant: the budget is that of the latest failure.
LatestBudget(r, s) == Lesser(HardMaxRetries, MaxRetriesFor(s))

\* The budget only shrinks, whichever failures a request meets.
LowerBudget(r, s) == Lesser(budget[r], MaxRetriesFor(s))

Meets(r, s) ==
  /\ status' = [status EXCEPT ![r] = s]
  /\ budget' = [budget EXCEPT ![r] = LowerBudget(r, s)]
  /\ failures' = [failures EXCEPT ![r] = IF s = "ok" THEN @ ELSE @ \cup {s}]

WillRetry(r, s) == attempt[r] < LowerBudget(r, s)

\* The next turn of the loop.  Its backoff is time that passes before TakeKey.
NextAttempt(r) ==
  /\ attempt' = [attempt EXCEPT ![r] = @ + 1]
  /\ GoTo(r, "acquire")
  /\ DropKey(r)

\* A retryable status whose body is not needed: release, go round.
Retry5xx(r) ==
  /\ phase[r] = "forwarded"
  /\ WillRetry(r, "5xx")
  /\ Meets(r, "5xx")
  /\ ReleaseOnce(r, Failed)
  /\ NextAttempt(r)
  /\ UNCHANGED <<activeStreams, wait, streaming, connected>>

\* A 429 to retry, a 400 or a 404: the handler awaits the body first.
AwaitErrorBody(r, s) ==
  /\ phase[r] = "forwarded"
  /\ (s = "429" /\ WillRetry(r, s)) \/ s = "400"
  /\ Meets(r, s)
  /\ GoTo(r, "errorBody")
  /\ UNCHANGED <<provVars, key, released, attempt, wait, streaming, connected, surplus>>

\* forward() rejects: no answer, or none in time.
NetworkError(r) ==
  /\ phase[r] = "forwarded"
  /\ ReleaseOnce(r, Failed)
  /\ IF WillRetry(r, "net")
       THEN Meets(r, "net") /\ NextAttempt(r) /\ UNCHANGED <<wait, streaming, connected>>
       ELSE Finish(r)
  /\ UNCHANGED activeStreams

\* The 429 is parsed: the cooldown may reach to the reset of the daily quota.
Retry429(r, c) ==
  /\ phase[r] = "errorBody"
  /\ status[r] = "429"
  /\ ReleaseOnce(r, RateLimited(c))
  /\ NextAttempt(r)
  /\ UNCHANGED <<activeStreams, budget, status, wait, streaming, connected, failures>>

\* A deprecated model is no fault of the key and reported as a success.
AnswerBadRequest(r, deprecated) ==
  /\ phase[r] = "errorBody"
  /\ status[r] = "400"
  /\ ReleaseOnce(r, IF deprecated THEN Succeeded ELSE Failed)
  /\ Finish(r)
  /\ UNCHANGED activeStreams

-----------------------------------------------------------------------------
(* The final response and its event handlers.                              *)

\* Every other answer is streamed back, failures included; a body or, going by
\* the content type alone, an event stream.
FinalAnswer(r, s) ==
  /\ phase[r] = "forwarded"
  /\ s \notin {"net", "400"}
  /\ ~(Retryable(s) /\ WillRetry(r, s))
  /\ Meets(r, s)
  /\ UNCHANGED <<index, cooldowns, keyVars, pending, cbVars>>
  /\ UNCHANGED <<key, released, attempt, wait, connected, surplus>>

StartBody(r, s) ==
  /\ FinalAnswer(r, s)
  /\ GoTo(r, "body")
  /\ UNCHANGED <<activeStreams, streaming>>

StartSSE(r, s) ==
  /\ FinalAnswer(r, s)
  /\ GoTo(r, "sse")
  /\ activeStreams' = StreamsStarted(key[r])
  /\ streaming' = streaming \cup {r}

\* What the "end" handler reports.  A last 429 carries no parsed context, so
\* its cooldown never reaches to the daily reset.
FinalOutcomes(s) ==
  {o \in Outcomes : /\ o.kind = IF s \in {"ok", "auth", "429"} THEN s ELSE "error"
                    /\ o.cool <= MaxCooldown}

BodyEnd(r, o) ==
  /\ phase[r] = "body"
  /\ o \in FinalOutcomes(status[r])
  /\ ReleaseOnce(r, o)
  /\ Finish(r)
  /\ UNCHANGED activeStreams

BodyError(r) ==
  /\ phase[r] = "body"
  /\ ReleaseOnce(r, Failed)
  /\ Finish(r)
  /\ UNCHANGED activeStreams

\* A usage chunk reports success and ends the stream's count, mid-stream.  The
\* guard is tested once per event, so n data lines with usage do both n times.
UsageChunk(r, n) ==
  /\ phase[r] = "sse"
  /\ HasScorer /\ ~released[r]
  /\ ReleaseSuccesses(key[r], n)
  /\ GivesBack(r, n - 1)
  /\ activeStreams' = StreamsEndedTimes(key[r], n)
  /\ released' = [released EXCEPT ![r] = TRUE]
  /\ UNCHANGED <<phase, key, attempt, budget, status, wait, streaming, connected, failures>>

\* The usage that is still buffered at the end is released as a success, too,
\* with the guard tested line by line.
EndOutcomes(r) == FinalOutcomes(status[r]) \cup IF HasScorer THEN {Succeeded} ELSE {}

\* Mutant: a stream that ends without a usage chunk stays counted.
SSEEndUncounted(r, o) ==
  /\ phase[r] = "sse"
  /\ o \in EndOutcomes(r)
  /\ ReleaseOnce(r, o)
  /\ UNCHANGED activeStreams
  /\ Finish(r)

SSEEnd(r, o) ==
  /\ phase[r] = "sse"
  /\ o \in EndOutcomes(r)
  /\ ReleaseOnce(r, o)
  /\ activeStreams' = IF released[r] THEN activeStreams ELSE StreamsEnded(key[r])
  /\ Finish(r)

\* The "error" handler ends the stream's count in any case.
SSEError(r) ==
  /\ phase[r] = "sse"
  /\ ReleaseOnce(r, Failed)
  /\ activeStreams' = StreamsEnded(key[r])
  /\ Finish(r)

\* The upstream response is destroyed.  Destroyed without an error it emits
\* neither "end" nor "error", so none of the handlers above runs.
Abandon(r) ==
  IF released[r] THEN Finish(r)
  ELSE /\ GoTo(r, "done")
       /\ connected' = [connected EXCEPT ![r] = FALSE]
       /\ UNCHANGED <<key, released, attempt, budget, status, wait, streaming, failures>>

\* The stream timer destroys the upstream response.
SSETimeout(r) ==
  /\ ClientsLeave
  /\ phase[r] = "sse"
  /\ Abandon(r)
  /\ UNCHANGED <<provVars, surplus>>

\* The client leaves.  Only once the response is streamed does a "close"
\* handler exist, and it destroys the upstream response like the timer does.
Disconnect(r) ==
  /\ ClientsLeave
  /\ connected[r]
  /\ phase[r] # "done"
  /\ IF phase[r] \in {"body", "sse"} THEN Abandon(r)
     ELSE /\ connected' = [connected EXCEPT ![r] = FALSE]
          /\ UNCHANGED <<phase, key, released, attempt, budget, status, wait, streaming, failures>>
  /\ UNCHANGED <<provVars, surplus>>

Tick ==
  /\ ProviderTick
  /\ wait' = [r \in Request |-> Greater(wait[r] - 1, 0)]
  /\ UNCHANGED <<phase, key, released, attempt, budget, status, streaming, connected, failures,
                 surplus>>

-----------------------------------------------------------------------------
\* What the event loop does next for r, whatever the upstream answers.
Acquiring(r) == (\E k \in Keys : TakeKey(r, k)) \/ NoKeyYet(r) \/ PollAgain(r)

Answered(r) ==
  \/ Retry5xx(r)
  \/ NetworkError(r)
  \/ \E s \in Statuses : AwaitErrorBody(r, s)
  \/ \E s \in Statuses : StartBody(r, s)
  \/ \E s \in Statuses : StartSSE(r, s)

ErrorBodyRead(r) ==
  \/ \E c \in CooldownFor429 : Retry429(r, c)
  \/ \E deprecated \in BOOLEAN : AnswerBadRequest(r, deprecated)

ResponseOver(r) ==
  \/ \E o \in Outcomes : BodyEnd(r, o)
  \/ BodyError(r)
  \/ \E o \in Outcomes : SSEEnd(r, o)
  \/ SSEError(r)

Next ==
  \/ \E r \in Request :
       \/ Acquiring(r)
       \/ Answered(r)
       \/ ErrorBodyRead(r)
       \/ ResponseOver(r)
       \/ \E n \in 1..MaxUsageLines : UsageChunk(r, n)
       \/ SSETimeout(r)
       \/ Disconnect(r)
  \/ Tick

Spec == Init /\ [][Next]_vars

\* The poll timer, the request timeout (which turns a silent upstream into an
\* error) and the clock all fire; nothing is assumed of clients.
Fairness ==
  /\ WF_vars(Tick)
  /\ \A r \in Request :
       /\ WF_vars(Acquiring(r))
       /\ WF_vars(Answered(r))
       /\ WF_vars(ErrorBodyRead(r))
       /\ WF_vars(ResponseOver(r))

FairSpec == Spec /\ Fairness
-----------------------------------------------------------------------------
(***************************************************************************)
(* Whatever path a request takes through retries, error bodies, usage      *)
(* chunks and failing streams, its key is given back, and by no handler    *)
(* twice: the scorer's pending counter never counts more than the requests *)
(* with an unreleased key, the abandoned ones included, and it overlooks   *)
(* only those that an event with several lines of usage took out, and of   *)
(* these only requests that still hold the key.                            *)
(***************************************************************************)
PendingBounded ==
  HasScorer =>
    \A k \in Keys :
      /\ pending[k] <= Cardinality(Holders(k))
      /\ pending[k] >= Cardinality(Holders(k)) - surplus[k]

\* activeStreams counts no stream that a handler has seen the end of, however
\* the usage chunk, the end and the error of a stream follow each other.  The
\* abandoned streams are over too, and they may stay counted (StreamsCounted).
OnlyAbandonedOvercount ==
  HasScorer =>
    \A k \in Keys : activeStreams[k] <= Cardinality(RunningStreams(k) \cup AbandonedStreams(k))

\* The handler implements the lease: an attempt gives back its key before the
\* next one takes another, and no key is leased more than max_concurrent times,
\* but for the requests that an event with several usage lines took out.
HeldKey == [r \in Request |-> IF Holding(r) THEN key[r] ELSE NoKey]
Lease == INSTANCE KeyLease WITH Key <- Keys, Limit <- MaxConcurrent, holder <- HeldKey,
                                MaxSurplus <- MaxUsageLines - 1
LeaseSpec == Lease!Spec

\* The retry policy of maxRetriesFor holds for every mix of failures: a
\* request is retried only while every class of failure it has met allows
\* that many attempts, so never after a refused credential.
RetryPolicy ==
  [][\A r \in Request : attempt'[r] > attempt[r] =>
       \A s \in failures'[r] : attempt'[r] <= MaxRetriesFor(s)]_vars

\* Every request is over some day: the wait for a key is bounded even when no
\* key ever comes back, and so are the retries.
EveryRequestEnds == \A r \in Request : <>(phase[r] = "done")

\* serve.js calls released the "single-release guard", so that pending is the
\* number of requests that have not given back their key.
SingleRelease == \A k \in Keys : pending[k] = Cardinality(Holders(k))

\* key-scorer.js calls pending the "count of in-flight requests".
PendingInFlight ==
  \A k \in Keys : pending[k] = Cardinality({r \in Holders(k) : phase[r] # "done"})

\* key-scorer.js calls activeStreams the "active stream counter".
StreamsCounted ==
  \A k \in Keys : activeStreams[k] = Cardinality(RunningStreams(k))
=============================================================================
