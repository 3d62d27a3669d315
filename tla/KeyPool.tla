------------------------------ MODULE KeyPool ------------------------------
(***************************************************************************)
(* The pool's own API (lib/pool.js) around one provider, used as its docs  *)
(* ask: a request acquires a key, may stream on it, and releases it once   *)
(* with an outcome.  Requests overlap, so outcomes arrive in any order and *)
(* long after the key they report on was isolated.  The start-up sweep of  *)
(* validateKeys answers while requests run.                                *)
(***************************************************************************)
EXTENDS Provider, FiniteSets

CONSTANTS
  Request,      \* requests that may overlap
  RecentBound,  \* bound of the model: requests counted on a key before it is left alone
  ToValidate    \* keys validateKeys is still to hear about (FFAI_VALIDATE_KEYS)

ASSUME KeyPoolAssumption ==
  /\ IsFiniteSet(Request)
  /\ RecentBound \in Nat
  /\ ToValidate \subseteq Keys

VARIABLES
  holder,      \* the key each request holds
  streaming,   \* the requests whose response is an SSE stream
  unvalidated, \* keys whose validation is still to be answered
  refused      \* history: the keys validation found to be invalid

sweepVars == <<unvalidated, refused>>
vars      == <<provVars, holder, streaming, sweepVars>>

NoKey == -1

Holders(k) == {r \in Request : holder[r] = k}

TypeOK ==
  /\ ProviderTypeOK
  /\ holder \in [Request -> Keys \cup {NoKey}]
  /\ streaming \subseteq Request
  /\ unvalidated \subseteq Keys
  /\ refused \subseteq Keys

Init ==
  /\ ProviderInit
  /\ holder = [r \in Request |-> NoKey]
  /\ streaming = {}
  /\ unvalidated = ToValidate
  /\ refused = {}

\* pool.acquire hands out k.  The bound keeps the two request counters small.
Acquire(r, k) ==
  /\ holder[r] = NoKey
  /\ recentRequests[k] + pending[k] < RecentBound
  /\ AcquireKey(k)
  /\ holder' = [holder EXCEPT ![r] = k]
  /\ UNCHANGED <<streaming, sweepVars>>

\* pool.acquire returns null; the caller may ask again later.
Refuse(r) ==
  /\ holder[r] = NoKey
  /\ AcquireNone
  /\ UNCHANGED <<holder, streaming, sweepVars>>

\* The response turns out to be an SSE stream: scorer.startStream.
Stream(r) ==
  /\ holder[r] # NoKey
  /\ r \notin streaming
  /\ activeStreams' = StreamsStarted(holder[r])
  /\ streaming' = streaming \cup {r}
  /\ UNCHANGED <<index, cooldowns, keyVars, pending, cbVars, holder, sweepVars>>

\* Mutant: a stream that fails is not ended.
ReleaseLeakingStream(r, o) ==
  /\ holder[r] # NoKey
  /\ ReleaseKey(holder[r], o)
  /\ activeStreams' = IF r \in streaming /\ o.kind = "ok"
                        THEN StreamsEnded(holder[r]) ELSE activeStreams
  /\ holder' = [holder EXCEPT ![r] = NoKey]
  /\ streaming' = streaming \ {r}
  /\ UNCHANGED sweepVars

\* pool.release reports outcome o; a stream is ended in the same breath.
Release(r, o) ==
  /\ holder[r] # NoKey
  /\ ReleaseKey(holder[r], o)
  /\ activeStreams' = IF r \in streaming THEN StreamsEnded(holder[r]) ELSE activeStreams
  /\ holder' = [holder EXCEPT ![r] = NoKey]
  /\ streaming' = streaming \ {r}
  /\ UNCHANGED sweepVars

\* validateKeys learns about k: only a 401 or 403 touches the key.
Validated(k, invalid) ==
  /\ k \in unvalidated
  /\ unvalidated' = unvalidated \ {k}
  /\ IF invalid THEN MarkKeyInvalid(k) /\ refused' = refused \cup {k}
     ELSE UNCHANGED <<provVars, refused>>
  /\ UNCHANGED <<holder, streaming>>

Health == HealthCheck /\ UNCHANGED <<holder, streaming, sweepVars>>

Tick == ProviderTick /\ UNCHANGED <<holder, streaming, sweepVars>>

Next ==
  \/ \E r \in Request, k \in Keys : Acquire(r, k)
  \/ \E r \in Request : Refuse(r)
  \/ \E r \in Request : Stream(r)
  \/ \E r \in Request, o \in Outcomes : Release(r, o)
  \/ \E k \in Keys, invalid \in BOOLEAN : Validated(k, invalid)
  \/ Health
  \/ Tick

Spec == Init /\ [][Next]_vars

\* Time passes, and a caller that holds a key reports back eventually.
Fairness ==
  /\ WF_vars(Tick)
  /\ \A r \in Request : WF_vars(\E o \in Outcomes : Release(r, o))

FairSpec == Spec /\ Fairness
-----------------------------------------------------------------------------
(***************************************************************************)
(* The provider's in-flight counters never drift from the requests really  *)
(* in flight: selectKey compares them with max_concurrent, so a missed or  *)
(* repeated decrement (release arrives late, out of order, after a breaker *)
(* trip) would starve a key or let it be overrun.                          *)
(***************************************************************************)
LoadMatches ==
  HasScorer =>
    \A k \in Keys :
      /\ pending[k] = Cardinality(Holders(k))
      /\ activeStreams[k] = Cardinality(Holders(k) \cap streaming)

\* Whatever sequence of trips and successes doubles the backoff of a key, no
\* period of its breaker is longer than cb_max_backoff or the break of a
\* refused credential allows (recordError, recordSuccess).  The one exception
\* is a key that validation refused: markKeyInvalid gives it the backoff 8,
\* whatever is configured (BackoffCapped).
BreakerPeriodBounded ==
  \A k \in Keys \ refused :
    /\ keyCbBackoff[k] <= CbMaxBackoff
    /\ keyCbUntil[k] <= Greater(HardBreak, KeyCbCooldown * CbMaxBackoff)

\* recordError says of the backoff "cap at configured max"; so no key has a
\* greater one.
BackoffCapped == \A k \in Keys : keyCbBackoff[k] <= CbMaxBackoff

\* pool.acquire implements the lease its callers rely on: no request gets a
\* second key and no key is held by more than max_concurrent requests.  Its
\* callers release what they hold once, so there is no surplus.
Lease == INSTANCE KeyLease WITH Key <- Keys, Limit <- MaxConcurrent, MaxSurplus <- 0,
                                surplus <- [k \in Keys |-> 0]
LeaseSpec == Lease!Spec

\* Once cbRecordError has opened the provider-wide breaker only time closes
\* it: neither late outcomes nor the end of an all-keys episode (cbIsOpen)
\* cut the pause short, and no key leaves the pool meanwhile.
GlobalBreakerHolds ==
  [][CbThreshold > 0 /\ cbOpenUntil > 0 =>
       /\ cbOpenUntil' >= cbOpenUntil - 1
       /\ \A r \in Request : holder[r] = NoKey => holder'[r] = NoKey]_vars

\* The pool always recovers: whatever outcomes arrive, there comes again a
\* moment at which some key can be handed out and no breaker refuses it.
CanServe == ~CbIsOpen /\ \E k \in Keys : CanTake(k)
ServiceReturns == []<>CanServe

\* Round-robin starves no key: one that stays out of cooldown while the pool
\* keeps handing out keys is handed out again and again (acquire's index).
AcquireSome == \E r \in Request, k \in Keys : Acquire(r, k)

RotationFair ==
  \A k \in Keys :
    <>[](cooldowns[k] < 0) /\ []<><<AcquireSome>>_vars
      => []<>(Holders(k) # {})

\* recordError's comment: a refused credential breaks the key at once, for
\* half an hour at least.  Only such a break is longer than any other period
\* of the breaker; only the clock may shorten it.
HardBreakKept ==
  [][\A k \in Keys :
       keyCbUntil[k] > KeyCbCooldown * CbMaxBackoff => keyCbUntil'[k] >= keyCbUntil[k] - 1]_vars

\* FFAI-Features.md: "When a daily limit is hit, the key is blocked for the
\* rest of the day".  Only such a block is longer than max_cooldown; only
\* the clock may shorten it.
DailyBlockKept ==
  [][\A k \in Keys :
       cooldowns[k] > MaxCooldown => cooldowns'[k] >= cooldowns[k] - 1]_vars
=============================================================================
