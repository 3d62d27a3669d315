---------------------------- MODULE FamilyProxy ----------------------------
(***************************************************************************)
(* handleFamilyProxy of serve.js over Pool.acquireFromFamily: requests     *)
(* that any provider of a family may serve.  Every attempt of a request    *)
(* takes a key from whichever member has one, so that a request meets      *)
(* several members, each with a retry policy of its own, and must settle   *)
(* with each exactly what it took from it.                                 *)
(*                                                                         *)
(* A member is kept coarser than in Provider: what a failure does to the   *)
(* key is left open within MaxBlock ticks, and the member's own breaker is *)
(* one counter.  Provider and KeyPool say how long such a block is.        *)
(***************************************************************************)
EXTENDS Integers, FiniteSets

CONSTANTS
  Request,        \* the requests of one run, each served once
  Member,         \* the providers of the family
  NKeys,          \* keys of each member
  MaxConcurrent,  \* max_concurrent of each member
  MaxBlock,       \* bound: ticks a failure may block a key or a member
  MaxRetries,     \* member -> class of failure -> maxRetriesFor
  HasUpstream,    \* the members with an upstream_url
  TooLarge,       \* <<request, member>>: above the member's token limit
  AcquireWait,    \* acquire_wait_ms
  MaxUsageLines   \* bound of the model: data lines with usage in one event

Failures == {"429", "5xx", "net", "auth", "400"}

ASSUME FamilyAssumption ==
  /\ IsFiniteSet(Request)
  /\ NKeys \in Nat \ {0}
  /\ MaxConcurrent \in Nat \ {0}
  /\ MaxBlock \in Nat
  /\ MaxRetries \in [Member -> [Failures -> Nat]]
  /\ \A m \in Member : MaxRetries[m]["auth"] = 0 /\ MaxRetries[m]["400"] = 0
  /\ HasUpstream \subseteq Member
  /\ TooLarge \subseteq Request \X Member
  /\ AcquireWait \in Nat \ {0}
  /\ MaxUsageLines \in Nat \ {0}

VARIABLES
  pending,    \* member -> key -> requests that hold it
  streams,    \* member -> key -> activeStreams
  blocked,    \* member -> key -> ticks until it is usable again
  down,       \* member -> ticks its provider-wide breaker stays open
  phase,      \* where the handler of a request waits
  handle,     \* {provider, key} of its current attempt
  released,   \* that handle was released
  attempt,    \* attempt of the retry loop
  budget,     \* dynamicMaxRetries
  status,     \* class of the current answer
  wait,       \* ticks until the deadline of the poll
  connected,  \* res is not destroyed
  met,        \* history: the <<member, failure>> pairs the request has met
  surplus     \* history: requests that may hold a handle uncounted (KeyLease)

memberVars == <<pending, streams, blocked, down>>
reqVars    == <<phase, handle, released, attempt, budget, status, wait, connected, met>>
vars       == <<memberVars, reqVars, surplus>>

Keys == 1..NKeys
Handles == [provider : Member, key : Keys]
NoHandle == [provider |-> "none", key |-> 0]
HardMaxRetries == 3

Lesser(a, b)  == IF a <= b THEN a ELSE b
Greater(a, b) == IF a >= b THEN a ELSE b

Holds(r, h) == handle[r] = h /\ ~released[r]
Holding(r)  == handle[r] # NoHandle /\ ~released[r]
Holders(h)  == {r \in Request : Holds(r, h)}

Phases == {"acquire", "polling", "forwarded", "errorBody", "body", "sse", "done"}

TypeOK ==
  /\ pending \in [Member -> [Keys -> 0..Cardinality(Request)]]
  /\ streams \in [Member -> [Keys -> 0..Cardinality(Request)]]
  /\ blocked \in [Member -> [Keys -> 0..MaxBlock]]
  /\ down \in [Member -> 0..MaxBlock]
  /\ phase \in [Request -> Phases]
  /\ handle \in [Request -> Handles \cup {NoHandle}]
  /\ released \in [Request -> BOOLEAN]
  /\ attempt \in [Request -> 0..HardMaxRetries]
  /\ budget \in [Request -> 0..HardMaxRetries]
  /\ status \in [Request -> Failures \cup {"ok"}]
  /\ wait \in [Request -> 0..AcquireWait]
  /\ connected \in [Request -> BOOLEAN]
  /\ met \in [Request -> SUBSET (Member \X Failures)]
  /\ surplus \in [Handles -> Nat]

Init ==
  /\ pending = [m \in Member |-> [k \in Keys |-> 0]]
  /\ streams = pending
  /\ blocked = pending
  /\ down = [m \in Member |-> 0]
  /\ phase = [r \in Request |-> "acquire"]
  /\ handle = [r \in Request |-> NoHandle]
  /\ released = [r \in Request |-> FALSE]
  /\ attempt = [r \in Request |-> 0]
  /\ budget = [r \in Request |-> HardMaxRetries]
  /\ status = [r \in Request |-> "ok"]
  /\ wait = [r \in Request |-> 0]
  /\ connected = [r \in Request |-> TRUE]
  /\ met = [r \in Request |-> {}]
  /\ surplus = [h \in Handles |-> 0]

-----------------------------------------------------------------------------
(* The members.                                                            *)

\* keyStatus().available: neither cooling down nor behind the key's breaker.
Available(m) == Cardinality({k \in Keys : blocked[m][k] = 0})

\* Mutant: the cap is checked against the streams alone.
CanTakeIdle(m, k) ==
  /\ down[m] = 0
  /\ blocked[m][k] = 0
  /\ streams[m][k] < MaxConcurrent

CanTake(m, k) ==
  /\ down[m] = 0
  /\ blocked[m][k] = 0
  /\ pending[m][k] + streams[m][k] < MaxConcurrent

Serves(m) == \E k \in Keys : CanTake(m, k)

\* The member tried first among those that serve.
Preferred(m) == \A n \in Member : Serves(n) => Available(n) <= Available(m)

\* Mutant: the release goes to the member a new attempt would prefer.
SettlePreferred(h) == CHOOSE m \in Member : Preferred(m)

\* The member a handle is settled with: the one that handed it out.
SettleWith(h) == h.provider

\* What the outcome of a request may do to its key and its member.
Penalties(b, ok) == IF ok THEN {b} ELSE {b} \cup 0..MaxBlock

PendingLess(h, n) == [pending EXCEPT ![SettleWith(h)][h.key] = Greater(@ - n, 0)]

Release(h, ok) ==
  LET m == SettleWith(h) IN
  /\ pending' = PendingLess(h, 1)
  /\ \E b \in Penalties(blocked[m][h.key], ok) : blocked' = [blocked EXCEPT ![m][h.key] = b]
  /\ \E d \in Penalties(down[m], ok) : down' = [down EXCEPT ![m] = Greater(@, d)]

\* The handle of r is given back, and reported extra times more than it should.
\* Of the requests that still hold it, so many may now be overlooked.
GivesBack(r, extra) ==
  LET h == handle[r]
  IN  surplus' = [surplus EXCEPT ![h] = Lesser(@ + extra, Cardinality(Holders(h)) - 1)]

ReleaseOnce(r, ok) ==
  IF released[r] THEN UNCHANGED <<pending, blocked, down, surplus>>
  ELSE Release(handle[r], ok) /\ GivesBack(r, 0)

StreamCount(r, n) ==
  streams' = [streams EXCEPT ![handle[r].provider][handle[r].key] = Greater(@ + n, 0)]

-----------------------------------------------------------------------------
(* Acquiring: one try over the members, then polling until the deadline.   *)

GoTo(r, p) == phase' = [phase EXCEPT ![r] = p]

DropHandle(r) ==
  /\ handle' = [handle EXCEPT ![r] = NoHandle]
  /\ released' = [released EXCEPT ![r] = FALSE]

\* The handler is over: the locals are gone.
Finish(r) ==
  /\ GoTo(r, "done")
  /\ DropHandle(r)
  /\ attempt' = [attempt EXCEPT ![r] = 0]
  /\ budget' = [budget EXCEPT ![r] = HardMaxRetries]
  /\ status' = [status EXCEPT ![r] = "ok"]
  /\ wait' = [wait EXCEPT ![r] = 0]
  /\ connected' = [connected EXCEPT ![r] = FALSE]
  /\ met' = [met EXCEPT ![r] = {}]

\* acquireFromFamily finds a key, and the request is ready to be sent.
TakeAndForward(r, m, k) ==
  /\ handle' = [handle EXCEPT ![r] = [provider |-> m, key |-> k]]
  /\ pending' = [pending EXCEPT ![m][k] = @ + 1]
  /\ wait' = [wait EXCEPT ![r] = 0]
  /\ GoTo(r, "forwarded")
  /\ UNCHANGED <<blocked, down, released, attempt, budget, status, connected, met>>

\* The member has no upstream, or the request exceeds its token limit: the key
\* is given back before anything is sent, as a failure or as a success.
TakeAndReject(r, m, k) ==
  /\ \E b \in Penalties(blocked[m][k], m \in HasUpstream) :
       blocked' = [blocked EXCEPT ![m][k] = b]
  /\ \E d \in Penalties(down[m], m \in HasUpstream) : down' = [down EXCEPT ![m] = Greater(@, d)]
  /\ Finish(r)
  /\ UNCHANGED pending

Take(r, m, k) ==
  /\ phase[r] \in {"acquire", "polling"}
  /\ CanTake(m, k) /\ Preferred(m)
  /\ IF m \in HasUpstream /\ <<r, m>> \notin TooLarge
       THEN TakeAndForward(r, m, k) ELSE TakeAndReject(r, m, k)
  /\ UNCHANGED <<streams, surplus>>

\* Every member failed: poll, give up at the deadline or for a client that left.
NoneLeft(r) ==
  /\ phase[r] \in {"acquire", "polling"}
  /\ \A m \in Member : ~Serves(m)
  /\ IF connected[r] /\ (phase[r] = "acquire" \/ wait[r] > 0)
       THEN /\ GoTo(r, "polling")
            /\ wait' = [wait EXCEPT ![r] = IF phase[r] = "acquire" THEN AcquireWait ELSE @]
            /\ UNCHANGED <<handle, released, attempt, budget, status, connected, met>>
       ELSE Finish(r)
  /\ UNCHANGED <<memberVars, surplus>>

-----------------------------------------------------------------------------
(* One attempt and the retry decision.                                     *)

\* Mutant: the policy of the member at hand, whatever was met before.
PolicyAtHand(r, s) == Lesser(HardMaxRetries, MaxRetries[handle[r].provider][s])

LowerBudget(r, s) == Lesser(budget[r], MaxRetries[handle[r].provider][s])

Meets(r, s) ==
  /\ status' = [status EXCEPT ![r] = s]
  /\ budget' = [budget EXCEPT ![r] = LowerBudget(r, s)]
  /\ met' = [met EXCEPT ![r] = @ \cup {<<handle[r].provider, s>>}]

WillRetry(r, s) == s \in {"429", "5xx", "net"} /\ attempt[r] < LowerBudget(r, s)

\* Mutant: the attempts are not counted.
NextAttemptUncounted(r) ==
  /\ GoTo(r, "acquire")
  /\ DropHandle(r)
  /\ UNCHANGED attempt

NextAttempt(r) ==
  /\ attempt' = [attempt EXCEPT ![r] = @ + 1]
  /\ GoTo(r, "acquire")
  /\ DropHandle(r)

\* A retryable status, or no answer at all, while the budget allows for it.
Retry(r, s) ==
  /\ phase[r] = "forwarded"
  /\ s # "429" /\ WillRetry(r, s)
  /\ Meets(r, s)
  /\ ReleaseOnce(r, FALSE)
  /\ NextAttempt(r)
  /\ UNCHANGED <<streams, wait, connected>>

\* The upstream failed and no attempt is left: 502.
GiveUp(r) ==
  /\ phase[r] = "forwarded"
  /\ ~WillRetry(r, "net")
  /\ ReleaseOnce(r, FALSE)
  /\ Finish(r)
  /\ UNCHANGED streams

AwaitErrorBody(r, s) ==
  /\ phase[r] = "forwarded"
  /\ s = "400" \/ (s = "429" /\ WillRetry(r, s))
  /\ Meets(r, s)
  /\ GoTo(r, "errorBody")
  /\ UNCHANGED <<memberVars, handle, released, attempt, wait, connected, surplus>>

\* The body of the 429 is parsed; a 400 or 404 is answered, as a success when
\* it only says that the model is deprecated.
ErrorBodyRead(r) ==
  /\ phase[r] = "errorBody"
  /\ IF status[r] = "429"
       THEN /\ ReleaseOnce(r, FALSE)
            /\ NextAttempt(r)
            /\ UNCHANGED <<budget, status, wait, connected, met>>
       ELSE /\ \E deprecated \in BOOLEAN : ReleaseOnce(r, deprecated)
            /\ Finish(r)
  /\ UNCHANGED streams

-----------------------------------------------------------------------------
(* The answer that is streamed back.                                       *)

\* Any other answer; a 400 too when the request named no model.  Whatever its
\* status, it is a body or, going by the content type alone, an event stream.
FinalAnswer(r, s) ==
  /\ phase[r] = "forwarded"
  /\ s # "net" /\ ~(s # "ok" /\ WillRetry(r, s))
  /\ IF s = "ok" THEN UNCHANGED <<status, budget, met>> ELSE Meets(r, s)
  /\ UNCHANGED <<pending, blocked, down, handle, released, attempt, wait, connected, surplus>>

Answer(r, s) ==
  /\ FinalAnswer(r, s)
  /\ GoTo(r, "body")
  /\ UNCHANGED streams

AnswerSSE(r, s) ==
  /\ FinalAnswer(r, s)
  /\ GoTo(r, "sse")
  /\ StreamCount(r, 1)

\* The guard is tested once per event: n data lines with usage in one event
\* release the handle and end the stream n times.
UsageChunk(r, n) ==
  /\ phase[r] = "sse"
  /\ ~released[r]
  /\ pending' = PendingLess(handle[r], n)
  /\ GivesBack(r, n - 1)
  /\ StreamCount(r, -n)
  /\ released' = [released EXCEPT ![r] = TRUE]
  /\ UNCHANGED <<blocked, down, phase, handle, attempt, budget, status, wait, connected, met>>

BodyOver(r) ==
  /\ phase[r] = "body"
  /\ \E ok \in {FALSE, status[r] = "ok"} : ReleaseOnce(r, ok)
  /\ Finish(r)
  /\ UNCHANGED streams

\* A success if the buffer still held a usage, whatever the status.
SSEEnd(r) ==
  /\ phase[r] = "sse"
  /\ \E ok \in {TRUE, status[r] = "ok"} : ReleaseOnce(r, ok)
  /\ IF released[r] THEN UNCHANGED streams ELSE StreamCount(r, -1)
  /\ Finish(r)

\* The "error" handler ends the stream in any case, released or not.
SSEError(r) ==
  /\ phase[r] = "sse"
  /\ ReleaseOnce(r, FALSE)
  /\ StreamCount(r, -1)
  /\ Finish(r)

\* The client leaves or the stream times out.  A response being streamed is
\* destroyed without an error: no handler releases its handle.
Gone(r) ==
  /\ connected[r] /\ phase[r] # "done"
  /\ IF phase[r] \in {"body", "sse"} /\ released[r] THEN Finish(r)
     ELSE /\ connected' = [connected EXCEPT ![r] = FALSE]
          /\ IF phase[r] \in {"body", "sse"} THEN GoTo(r, "done") ELSE UNCHANGED phase
          /\ UNCHANGED <<handle, released, attempt, budget, status, wait, met>>
  /\ UNCHANGED <<memberVars, surplus>>

Tick ==
  /\ blocked' = [m \in Member |-> [k \in Keys |-> Greater(blocked[m][k] - 1, 0)]]
  /\ down' = [m \in Member |-> Greater(down[m] - 1, 0)]
  /\ wait' = [r \in Request |-> Greater(wait[r] - 1, 0)]
  /\ UNCHANGED <<pending, streams, phase, handle, released, attempt, budget, status,
                 connected, met, surplus>>

-----------------------------------------------------------------------------
Acquiring(r) == NoneLeft(r) \/ \E m \in Member, k \in Keys : Take(r, m, k)

Answered(r) ==
  \/ \E s \in Failures : Retry(r, s) \/ AwaitErrorBody(r, s)
  \/ \E s \in Failures \cup {"ok"} : Answer(r, s) \/ AnswerSSE(r, s)
  \/ GiveUp(r)

Over(r) == ErrorBodyRead(r) \/ BodyOver(r) \/ SSEEnd(r) \/ SSEError(r)

Next ==
  \/ \E r \in Request :
       \/ Acquiring(r) \/ Answered(r) \/ Over(r) \/ Gone(r)
       \/ \E n \in 1..MaxUsageLines : UsageChunk(r, n)
  \/ Tick

Spec == Init /\ [][Next]_vars

\* The clock, the poll timer and the upstream (by the request timeout) go on.
FairSpec ==
  /\ Spec
  /\ WF_vars(Tick)
  /\ \A r \in Request : WF_vars(Acquiring(r)) /\ WF_vars(Answered(r)) /\ WF_vars(Over(r))
-----------------------------------------------------------------------------
(***************************************************************************)
(* Every key is given back, and to the member that handed it out, by       *)
(* whichever of the members the request was served before or after: the    *)
(* pending count of each never counts more than the handles taken from it, *)
(* and overlooks only those that an event with several lines of usage took *)
(* out, and of these only handles that are still held.                     *)
(***************************************************************************)
PendingBounded ==
  \A h \in Handles :
    /\ pending[h.provider][h.key] <= Cardinality(Holders(h))
    /\ pending[h.provider][h.key] >= Cardinality(Holders(h)) - surplus[h]

\* The family implements the lease over the keys of all its members: a request
\* has settled with one member before it takes a key of another, and the cap
\* holds but for what an event with several usage lines took out.
Held == [r \in Request |-> IF Holding(r) THEN handle[r] ELSE NoHandle]
Lease == INSTANCE KeyLease WITH Key <- Handles, NoKey <- NoHandle, Limit <- MaxConcurrent,
                                MaxSurplus <- MaxUsageLines - 1, holder <- Held
LeaseSpec == Lease!Spec

\* The strictest policy wins: a request is tried again only while every member
\* it has failed at allows that many attempts for that failure.
RetryPolicy ==
  [][\A r \in Request : attempt'[r] > attempt[r] =>
       \A f \in met'[r] : attempt'[r] <= MaxRetries[f[1]][f[2]]]_vars

\* Every request ends: the wait for a member is bounded although members come
\* and go during it, and so is the number of attempts.
EveryRequestEnds == \A r \in Request : <>(phase[r] = "done")
=============================================================================
