------------------------------ MODULE Provider ------------------------------
(***************************************************************************)
(* One provider of the pool: lib/provider.js with its lib/key-scorer.js.   *)
(* A provider decides which API key a request may use and learns from the  *)
(* outcome of every request.  This module holds the provider's state and   *)
(* what each of its methods does to it; it has no Next of its own.  The    *)
(* modules that drive it (KeyPool, ProxyRequest) say who calls what, when; *)
(* HotReload replaces one instance of it by another.                       *)
(*                                                                         *)
(* Time.  The code compares Date.now() with "until" timestamps.  Here each *)
(* timer holds the ticks that remain until its timestamp, and Tick lets    *)
(* one tick pass.  Scores, tokens and learned limits only rank the keys    *)
(* selectKey may choose from, so the choice among them is left open.       *)
(***************************************************************************)
EXTENDS ProviderConfig

VARIABLES
  index,              \* round-robin position
  cooldowns,          \* ticks a key still cools down after a 429, -1 once past
  keyCbUntil,         \* ticks a key's own breaker stays open
  keyCbBackoff,       \* multiplier of the key's next breaker period
  consecutiveErrors,  \* errors of a key since its last success
  recentErrors,       \* errors of a key since its breaker last tripped
  recentRequests,     \* requests of a key since its breaker last tripped
  pending,            \* acquired and not yet released, per key
  activeStreams,      \* SSE streams counted on a key
  cbErrors,           \* age of the i-th most recent error, CbWindow = none
  cbOpenUntil,        \* ticks the provider-wide breaker stays open
  cbEpisode           \* _cbEpisodeActive: every key's breaker was seen open

keyVars  == <<keyCbUntil, keyCbBackoff, consecutiveErrors, recentErrors, recentRequests>>
loadVars == <<pending, activeStreams>>
cbVars   == <<cbErrors, cbOpenUntil, cbEpisode>>
provVars == <<index, cooldowns, keyVars, loadVars, cbVars>>

ProviderTypeOK ==
  /\ index \in Keys
  /\ cooldowns \in [Keys -> Int]
  /\ \A k \in Keys : cooldowns[k] >= -1
  /\ keyCbUntil \in [Keys -> Nat]
  /\ keyCbBackoff \in [Keys -> Nat \ {0}]
  /\ consecutiveErrors \in [Keys -> 0..KeyCbThreshold]
  /\ recentErrors \in [Keys -> Nat]
  /\ recentRequests \in [Keys -> Nat]
  /\ pending \in [Keys -> Nat]
  /\ activeStreams \in [Keys -> Nat]
  /\ cbErrors \in [1..CbThreshold -> 0..CbWindow]
  /\ cbOpenUntil \in Nat
  /\ cbEpisode \in BOOLEAN

ProviderInit ==
  /\ index = 0
  /\ cooldowns = [k \in Keys |-> -1]
  /\ keyCbUntil = [k \in Keys |-> 0]
  /\ keyCbBackoff = [k \in Keys |-> 1]
  /\ consecutiveErrors = [k \in Keys |-> 0]
  /\ recentErrors = [k \in Keys |-> 0]
  /\ recentRequests = [k \in Keys |-> 0]
  /\ pending = [k \in Keys |-> 0]
  /\ activeStreams = [k \in Keys |-> 0]
  /\ cbErrors = [i \in 1..CbThreshold |-> CbWindow]
  /\ cbOpenUntil = 0
  /\ cbEpisode = FALSE

-----------------------------------------------------------------------------
(* The provider-wide breaker, cbIsOpen(): a check that also moves state.   *)

CbTripped == CbThreshold > 0 /\ cbOpenUntil > 0

AllKeysCircuitOpen == \A k \in Keys : keyCbUntil[k] > 0

\* Mutant: every check of an open breaker prolongs the pause.
SlidingOpenUntil ==
  IF CbTripped THEN CbCooldown
  ELSE IF ~HasScorer \/ AllKeysCircuitOpen = cbEpisode THEN cbOpenUntil
  ELSE IF AllKeysCircuitOpen THEN CbCooldown ELSE 0

\* cbOpenUntil and _cbEpisodeActive as the check leaves them.
CbOpenUntilAfterCheck ==
  IF CbTripped \/ ~HasScorer \/ AllKeysCircuitOpen = cbEpisode THEN cbOpenUntil
  ELSE IF AllKeysCircuitOpen THEN CbCooldown ELSE 0

EpisodeAfterCheck ==
  IF CbTripped \/ ~HasScorer THEN cbEpisode ELSE AllKeysCircuitOpen

CbCheck ==
  /\ cbOpenUntil' = CbOpenUntilAfterCheck
  /\ cbEpisode' = EpisodeAfterCheck
  /\ UNCHANGED cbErrors

CbIsOpen == CbTripped \/ (HasScorer /\ AllKeysCircuitOpen /\ CbOpenUntilAfterCheck > 0)

\* cbRecordError and cbRecordSuccess.  Only the CbThreshold most recent errors
\* can matter: the breaker trips when the oldest of them is inside the window.
CbErrorsPushed ==
  [i \in 1..CbThreshold |-> IF i = 1 THEN 0 ELSE cbErrors[i - 1]]

CbErrorTrips ==
  /\ CbThreshold > 0
  /\ cbOpenUntil = 0
  /\ CbErrorsPushed[CbThreshold] < CbWindow

NoCbErrors == [i \in 1..CbThreshold |-> CbWindow]

CbRecordError ==
  /\ cbErrors' = IF CbErrorTrips THEN NoCbErrors
                 ELSE IF cbOpenUntil > 0 THEN cbErrors ELSE CbErrorsPushed
  /\ cbOpenUntil' = IF CbErrorTrips THEN CbCooldown ELSE cbOpenUntil
  /\ UNCHANGED cbEpisode

\* Mutant: a success closes the breaker.
CbSuccessCloses ==
  /\ cbErrors' = NoCbErrors
  /\ cbOpenUntil' = 0
  /\ UNCHANGED cbEpisode

CbRecordSuccess ==
  /\ cbErrors' = NoCbErrors
  /\ UNCHANGED <<cbOpenUntil, cbEpisode>>

-----------------------------------------------------------------------------
(* acquire(): the breaker check, then selectKey or the round-robin scan.   *)

InFlight(k) == pending[k] + activeStreams[k]

\* Mutant: one request too many.
SelectableUpToCap(k) ==
  /\ keyCbUntil[k] = 0
  /\ cooldowns[k] <= 0
  /\ MaxConcurrent > 0 => InFlight(k) <= MaxConcurrent

\* selectKey's candidates.  The score picks one of them.
Selectable(k) ==
  /\ keyCbUntil[k] = 0
  /\ cooldowns[k] <= 0
  /\ MaxConcurrent > 0 => InFlight(k) < MaxConcurrent

\* Mutant: the scan always starts at the first key.
FromFirst(i) == i % NKeys

\* The i-th key from index on, and the first one whose cooldown is past.
FromIndex(i) == (index + i) % NKeys

RoundRobinPick(k) ==
  \E i \in Keys :
    /\ k = FromIndex(i)
    /\ cooldowns[k] < 0
    /\ \A j \in 0..(i - 1) : cooldowns[FromIndex(j)] >= 0

CanTake(k) == IF HasScorer THEN Selectable(k) ELSE RoundRobinPick(k)

AcquireKey(k) ==
  /\ ~CbIsOpen
  /\ CanTake(k)
  /\ CbCheck
  /\ IF HasScorer
       THEN /\ pending' = [pending EXCEPT ![k] = @ + 1]
            /\ UNCHANGED index
       ELSE /\ index' = (k + 1) % NKeys
            /\ UNCHANGED pending
  /\ UNCHANGED <<cooldowns, keyVars, activeStreams>>

\* acquire() returns null.
Exhausted == CbIsOpen \/ \A k \in Keys : ~CanTake(k)

AcquireNone ==
  /\ Exhausted
  /\ CbCheck
  /\ UNCHANGED <<index, cooldowns, keyVars, loadVars>>

-----------------------------------------------------------------------------
(* release(): what one reported outcome changes.                           *)

DecrementPending(k) ==
  pending' = IF HasScorer /\ pending[k] > 0
               THEN [pending EXCEPT ![k] = @ - 1] ELSE pending

\* Mutant: a success leaves no multiplier at all.
RecordSuccessZero(k) ==
  /\ consecutiveErrors' = [consecutiveErrors EXCEPT ![k] = 0]
  /\ keyCbBackoff' = [keyCbBackoff EXCEPT ![k] = 0]
  /\ recentRequests' = [recentRequests EXCEPT ![k] = @ + 1]
  /\ UNCHANGED <<keyCbUntil, recentErrors>>

\* recordSuccess
RecordSuccess(k) ==
  /\ consecutiveErrors' = [consecutiveErrors EXCEPT ![k] = 0]
  /\ keyCbBackoff' = [keyCbBackoff EXCEPT ![k] = 1]
  /\ recentRequests' = [recentRequests EXCEPT ![k] = @ + 1]
  /\ UNCHANGED <<keyCbUntil, recentErrors>>

\* recordError for 401 and 403: the key is broken at once, for long.
RecordAuthError(k) ==
  /\ keyCbUntil' = [keyCbUntil EXCEPT ![k] = HardBreak]
  /\ consecutiveErrors' = [consecutiveErrors EXCEPT ![k] = KeyCbThreshold]
  /\ recentErrors' = [recentErrors EXCEPT ![k] = @ + 1]
  /\ recentRequests' = [recentRequests EXCEPT ![k] = @ + 1]
  /\ UNCHANGED keyCbBackoff

\* shouldTrip, once this error is counted.  The only key of a provider is
\* isolated only when every one of 4 * MultiMinReqs requests failed.
ShouldTrip(k) ==
  LET errs == recentErrors[k] + 1
      reqs == recentRequests[k] + 1
  IN  IF NKeys = 1
        THEN errs = reqs /\ reqs >= 4 * MultiMinReqs
        ELSE \/ errs * 100 > FailPct * reqs /\ reqs >= MultiMinReqs
             \/ consecutiveErrors[k] + 1 >= KeyCbThreshold

\* Mutant: the backoff doubles without a cap.
RecordErrorUncapped(k) ==
  /\ consecutiveErrors' =
       [consecutiveErrors EXCEPT ![k] = Lesser(@ + 1, KeyCbThreshold)]
  /\ IF ShouldTrip(k)
       THEN /\ keyCbUntil' = [keyCbUntil EXCEPT ![k] = KeyCbCooldown * keyCbBackoff[k]]
            /\ keyCbBackoff' = [keyCbBackoff EXCEPT ![k] = 2 * @]
            /\ recentErrors' = [recentErrors EXCEPT ![k] = 0]
            /\ recentRequests' = [recentRequests EXCEPT ![k] = 0]
       ELSE /\ recentErrors' = [recentErrors EXCEPT ![k] = @ + 1]
            /\ recentRequests' = [recentRequests EXCEPT ![k] = @ + 1]
            /\ UNCHANGED <<keyCbUntil, keyCbBackoff>>

\* recordError for any other status.
RecordOtherError(k) ==
  /\ consecutiveErrors' =
       [consecutiveErrors EXCEPT ![k] = Lesser(@ + 1, KeyCbThreshold)]
  /\ IF ShouldTrip(k)
       THEN /\ keyCbUntil' = [keyCbUntil EXCEPT ![k] = KeyCbCooldown * keyCbBackoff[k]]
            /\ keyCbBackoff' = [keyCbBackoff EXCEPT ![k] = Lesser(2 * @, CbMaxBackoff)]
            /\ recentErrors' = [recentErrors EXCEPT ![k] = 0]
            /\ recentRequests' = [recentRequests EXCEPT ![k] = 0]
       ELSE /\ recentErrors' = [recentErrors EXCEPT ![k] = @ + 1]
            /\ recentRequests' = [recentRequests EXCEPT ![k] = @ + 1]
            /\ UNCHANGED <<keyCbUntil, keyCbBackoff>>

RecordOutcome(k, o) ==
  \/ ~HasScorer /\ UNCHANGED keyVars
  \/ HasScorer /\ o.kind = "ok" /\ RecordSuccess(k)
  \/ HasScorer /\ o.kind = "auth" /\ RecordAuthError(k)
  \/ HasScorer /\ o.kind \in {"error", "429"} /\ RecordOtherError(k)

\* Mutant: only what counts in the rate windows leaves the in-flight count.
ReleaseKeyCounted(k, o) ==
  /\ IF o.kind \in {"ok", "429"} THEN DecrementPending(k) ELSE UNCHANGED pending
  /\ RecordOutcome(k, o)
  /\ IF o.kind = "ok" THEN CbRecordSuccess ELSE CbRecordError
  /\ cooldowns' = IF o.kind = "429" THEN [cooldowns EXCEPT ![k] = o.cool] ELSE cooldowns
  /\ UNCHANGED index

ReleaseKey(k, o) ==
  /\ DecrementPending(k)
  /\ RecordOutcome(k, o)
  /\ IF o.kind = "ok" THEN CbRecordSuccess ELSE CbRecordError
  /\ cooldowns' = IF o.kind = "429" THEN [cooldowns EXCEPT ![k] = o.cool] ELSE cooldowns
  /\ UNCHANGED index

\* n releases of the same key in a row, all reporting success to the scorer.
ReleaseSuccesses(k, n) ==
  /\ pending' = [pending EXCEPT ![k] = Greater(@ - n, 0)]
  /\ consecutiveErrors' = [consecutiveErrors EXCEPT ![k] = 0]
  /\ keyCbBackoff' = [keyCbBackoff EXCEPT ![k] = 1]
  /\ recentRequests' = [recentRequests EXCEPT ![k] = @ + n]
  /\ CbRecordSuccess
  /\ UNCHANGED <<index, cooldowns, keyCbUntil, recentErrors>>

-----------------------------------------------------------------------------
(* The other calls that move the provider's state.                         *)

\* markKeyInvalid, from pool.validateKeys.  The backoff is a literal 8.
MarkKeyInvalid(k) ==
  /\ IF HasScorer
       THEN /\ keyCbUntil' = [keyCbUntil EXCEPT ![k] = HardBreak]
            /\ consecutiveErrors' = [consecutiveErrors EXCEPT ![k] = KeyCbThreshold]
            /\ keyCbBackoff' = [keyCbBackoff EXCEPT ![k] = 8]
            /\ UNCHANGED <<cooldowns, recentErrors, recentRequests>>
       ELSE /\ cooldowns' = [cooldowns EXCEPT ![k] = HardBreak]
            /\ UNCHANGED keyVars
  /\ UNCHANGED <<index, loadVars, cbVars>>

\* startStream and endStream of the scorer.
StreamsStarted(k) ==
  IF HasScorer THEN [activeStreams EXCEPT ![k] = @ + 1] ELSE activeStreams

StreamsEnded(k) ==
  IF HasScorer /\ activeStreams[k] > 0
    THEN [activeStreams EXCEPT ![k] = @ - 1] ELSE activeStreams

\* endStream, as often as a usage chunk calls it.
StreamsEndedTimes(k, n) == [activeStreams EXCEPT ![k] = Greater(@ - n, 0)]

\* pool.health() asks every provider's cbIsOpen: GET /health runs the check too.
HealthCheck ==
  /\ CbCheck
  /\ UNCHANGED <<index, cooldowns, keyVars, loadVars>>

\* One tick of the clock.
ProviderTick ==
  /\ cooldowns' = [k \in Keys |-> Greater(cooldowns[k] - 1, -1)]
  /\ keyCbUntil' = [k \in Keys |-> Greater(keyCbUntil[k] - 1, 0)]
  /\ cbOpenUntil' = Greater(cbOpenUntil - 1, 0)
  /\ cbErrors' = [i \in 1..CbThreshold |-> Lesser(cbErrors[i] + 1, CbWindow)]
  /\ UNCHANGED <<index, keyCbBackoff, consecutiveErrors, recentErrors,
                 recentRequests, loadVars, cbEpisode>>

=============================================================================
