----------------------------- MODULE HotReload -----------------------------
(***************************************************************************)
(* Pool.reload (SIGHUP, imported keys) while requests are in flight.  A    *)
(* reload that changes a provider builds a new instance of it, carries     *)
(* some of the old one's state over and swaps the two.  Requests that are  *)
(* under way took their key from the old instance and report to the pool,  *)
(* that is to the new one; the scorer they count their stream on is that   *)
(* of the instance handleProxy looked up when they arrived.                *)
(*                                                                         *)
(* The state of Provider is that of the live instance: nobody takes a key  *)
(* from a replaced one.  Whether an instance has a scorer depends on the   *)
(* limits it was built with, so a reload may take the scorer away or add   *)
(* one.  A reload that finds the fingerprint unchanged, or whose new       *)
(* instance cannot be built, keeps the old one and its state.              *)
(***************************************************************************)
EXTENDS ProviderConfig, FiniteSets

CONSTANTS
  Request,     \* requests that may overlap
  Secret,      \* the API keys an operator may configure at one position
  FirstSecret, \* the one configured at the start
  RecentBound, \* bound of the model: requests counted on a key before it is left alone
  Validate     \* FFAI_VALIDATE_KEYS: do the first keys have a sweep to answer?

ASSUME HotReloadAssumption ==
  /\ IsFiniteSet(Request)
  /\ FirstSecret \in Secret
  /\ RecentBound \in Nat
  /\ Validate \in BOOLEAN

\* The live instance, as in Provider.
VARIABLES
  index, cooldowns, keyCbUntil, keyCbBackoff, consecutiveErrors, recentErrors, recentRequests,
  pending, activeStreams, cbErrors, cbOpenUntil, cbEpisode

VARIABLES
  present,      \* the provider is configured
  scorer,       \* its live instance was built with a limit: it has a scorer
  secret,       \* the API key at each position
  running,      \* the requests whose handler runs
  current,      \* those of them that looked up the instance now live
  holder,       \* the position of the key a request holds
  heldSecret,   \* and the API key itself
  streaming,    \* the requests whose response is an SSE stream
  unvalidated,  \* validateKeys' tasks, as <<position, API key>>
  blamed,       \* history: positions whose API key was reported as failing
  owedCooldown, \* history: ticks of cooldown the last report on an API key left,
  owedBreaker,  \* and ticks its breaker was left open
  forgotten,    \* history: API keys that left the configuration since that report
  unscored      \* history: API keys whose breaker stood when the scorer went

keyVars  == <<keyCbUntil, keyCbBackoff, consecutiveErrors, recentErrors, recentRequests>>
loadVars == <<pending, activeStreams>>
cbVars   == <<cbErrors, cbOpenUntil, cbEpisode>>
provVars == <<index, cooldowns, keyVars, loadVars, cbVars>>
reqVars  == <<running, current, holder, heldSecret, streaming>>
confVars == <<present, scorer, secret>>
owedVars == <<owedCooldown, owedBreaker, forgotten, unscored>>
histVars == <<blamed, owedVars>>
vars     == <<provVars, reqVars, confVars, histVars, unvalidated>>

NoKey == -1

ApiKeys == Keys \X Secret

\* The methods of the live instance, with its scorer and without.
Scored == INSTANCE Provider WITH HasScorer <- TRUE
Plain  == INSTANCE Provider WITH HasScorer <- FALSE, MaxConcurrent <- 0

AcquireKey(k)     == IF scorer THEN Scored!AcquireKey(k) ELSE Plain!AcquireKey(k)
AcquireNone       == IF scorer THEN Scored!AcquireNone ELSE Plain!AcquireNone
ReleaseKey(k, o)  == IF scorer THEN Scored!ReleaseKey(k, o) ELSE Plain!ReleaseKey(k, o)
MarkKeyInvalid(k) == IF scorer THEN Scored!MarkKeyInvalid(k) ELSE Plain!MarkKeyInvalid(k)
StreamsStarted(k) == IF scorer THEN Scored!StreamsStarted(k) ELSE Plain!StreamsStarted(k)
StreamsEnded(k)   == IF scorer THEN Scored!StreamsEnded(k) ELSE Plain!StreamsEnded(k)

Holders(k) == {r \in Request : holder[r] = k}

\* pool.release finds the key a request holds in the live instance.
Known(r) == present /\ heldSecret[r] = secret[holder[r]]

BlockedFor(k) == Greater(Greater(cooldowns[k], keyCbUntil[k]), 0)

TypeOK ==
  /\ Scored!ProviderTypeOK
  /\ scorer \in BOOLEAN
  /\ present \in BOOLEAN
  /\ secret \in [Keys -> Secret]
  /\ running \subseteq Request
  /\ current \subseteq running
  /\ holder \in [Request -> Keys \cup {NoKey}]
  /\ heldSecret \in [Request -> Secret]
  /\ streaming \subseteq {r \in running : holder[r] # NoKey}
  /\ unvalidated \subseteq Keys \X Secret
  /\ blamed \subseteq Keys
  /\ owedCooldown \in [ApiKeys -> Nat]
  /\ owedBreaker \in [ApiKeys -> Nat]
  /\ forgotten \subseteq ApiKeys
  /\ unscored \subseteq ApiKeys

Init ==
  /\ Scored!ProviderInit
  /\ present = TRUE
  /\ scorer = HasScorer
  /\ secret = [k \in Keys |-> FirstSecret]
  /\ running = {}
  /\ current = {}
  /\ holder = [r \in Request |-> NoKey]
  /\ heldSecret = [r \in Request |-> FirstSecret]
  /\ streaming = {}
  /\ unvalidated = IF Validate THEN Keys \X {FirstSecret} ELSE {}
  /\ blamed = {}
  /\ owedCooldown = [a \in ApiKeys |-> 0]
  /\ owedBreaker = [a \in ApiKeys |-> 0]
  /\ forgotten = {}
  /\ unscored = {}

-----------------------------------------------------------------------------
(* The requests.                                                           *)

\* handleProxy looks the provider up once, for the whole request.
Arrive(r) ==
  /\ r \notin running
  /\ present
  /\ running' = running \cup {r}
  /\ current' = current \cup {r}
  /\ UNCHANGED <<provVars, holder, heldSecret, streaming, confVars, histVars, unvalidated>>

Leave(r) ==
  /\ running' = running \ {r}
  /\ current' = current \ {r}
  /\ streaming' = streaming \ {r}
  /\ holder' = [holder EXCEPT ![r] = NoKey]
  /\ heldSecret' = [heldSecret EXCEPT ![r] = FirstSecret]

\* pool.acquire asks the live instance.
Acquire(r, k) ==
  /\ r \in running /\ holder[r] = NoKey
  /\ present
  /\ recentRequests[k] + pending[k] < RecentBound
  /\ AcquireKey(k)
  /\ holder' = [holder EXCEPT ![r] = k]
  /\ heldSecret' = [heldSecret EXCEPT ![r] = secret[k]]
  /\ UNCHANGED <<running, current, streaming, confVars, histVars, unvalidated>>

\* No key, or no such provider any more.
Refuse(r) ==
  /\ r \in running /\ holder[r] = NoKey
  /\ IF present THEN AcquireNone ELSE UNCHANGED provVars
  /\ Leave(r)
  /\ UNCHANGED <<confVars, histVars, unvalidated>>

\* The stream is counted by the scorer of the instance r looked up.
Stream(r) ==
  /\ r \in running /\ holder[r] # NoKey /\ r \notin streaming
  /\ activeStreams' = IF r \in current THEN StreamsStarted(holder[r]) ELSE activeStreams
  /\ streaming' = streaming \cup {r}
  /\ UNCHANGED <<index, cooldowns, keyVars, pending, cbVars>>
  /\ UNCHANGED <<running, current, holder, heldSecret, confVars, histVars, unvalidated>>

\* What was reported about the key at position k.
Report(k, failed) ==
  LET a == <<k, secret[k]>>
  IN  /\ blamed' = IF failed THEN blamed \cup {k} ELSE blamed
      /\ owedCooldown' = [owedCooldown EXCEPT ![a] = Greater(cooldowns'[k], 0)]
      /\ owedBreaker' = [owedBreaker EXCEPT ![a] = keyCbUntil'[k]]
      /\ forgotten' = forgotten \ {a}
      /\ unscored' = unscored \ {a}

\* Mutant: an outcome is taken for the key that is now at the same position.
ReportStaleKey(r, o) == ReleaseKey(holder[r], o) /\ UNCHANGED histVars

\* pool.release: an outcome for a key the live instance does not know is dropped.
ReportOutcome(r, o) ==
  IF Known(r)
    THEN ReleaseKey(holder[r], o) /\ Report(holder[r], o.kind # "ok")
    ELSE UNCHANGED <<index, cooldowns, keyVars, pending, cbVars, histVars>>

Release(r, o) ==
  /\ r \in running /\ holder[r] # NoKey
  /\ ReportOutcome(r, o)
  /\ activeStreams' = IF r \in streaming \cap current
                        THEN StreamsEnded(holder[r]) ELSE activeStreams
  /\ Leave(r)
  /\ UNCHANGED <<confVars, unvalidated>>

-----------------------------------------------------------------------------
(* reload().                                                               *)

\* The positions whose API key both instances have.
Kept(s) == {k \in Keys : s[k] = secret[k]}

\* _carryOverKeyState for the keys in kept, as the new instance starts with it.
CarriedCooldown(k, kept) == IF k \in kept /\ cooldowns[k] > 0 THEN cooldowns[k] ELSE -1

\* Mutant: the new instance knows nothing of the keys' breakers.
BreakerForgotten(k, kept, sc) == FALSE

\* A breaker is a scorer's: both instances must have one.
BreakerCarried(k, kept, sc) == k \in kept /\ scorer /\ sc /\ keyCbUntil[k] > 0

CarryBreaker(kept, sc) ==
  /\ keyCbUntil' =
       [k \in Keys |-> IF BreakerCarried(k, kept, sc) THEN keyCbUntil[k] ELSE 0]
  /\ keyCbBackoff' =
       [k \in Keys |-> IF BreakerCarried(k, kept, sc) THEN keyCbBackoff[k] ELSE 1]
  /\ consecutiveErrors' =
       [k \in Keys |-> IF BreakerCarried(k, kept, sc) THEN consecutiveErrors[k] ELSE 0]

\* Mutant: the new instance inherits the counters of the old one.
InheritLoad == UNCHANGED loadVars

\* A new instance counts no request and no stream.
FreshLoad ==
  /\ pending' = [k \in Keys |-> 0]
  /\ activeStreams' = [k \in Keys |-> 0]

\* Provider's constructor, and what it is given of the instance it replaces.
NewInstance(kept, sc, openUntil) ==
  /\ index' = 0
  /\ cooldowns' = [k \in Keys |-> CarriedCooldown(k, kept)]
  /\ CarryBreaker(kept, sc)
  /\ recentErrors' = [k \in Keys |-> 0]
  /\ recentRequests' = [k \in Keys |-> 0]
  /\ FreshLoad
  /\ cbOpenUntil' = openUntil
  /\ cbErrors' = IF openUntil > 0 THEN cbErrors ELSE Scored!NoCbErrors
  /\ cbEpisode' = FALSE
  /\ scorer' = sc
  /\ current' = {}
  /\ blamed' = blamed \cap kept
  /\ forgotten' = forgotten \cup {<<k, secret[k]>> : k \in Keys \ kept}
  /\ unscored' = unscored \cup {<<k, secret[k]>> : k \in {j \in kept : keyCbUntil[j] > 0 /\ ~sc}}
  /\ UNCHANGED <<owedCooldown, owedBreaker>>

\* Another list of keys, or other limits.
Rebuild(s, sc) ==
  /\ present
  /\ NewInstance(Kept(s), sc, cbOpenUntil)
  /\ secret' = s
  /\ UNCHANGED <<present, running, holder, heldSecret, streaming, unvalidated>>

\* The provider is gone from the configuration; its next instance, if there
\* ever is one, starts from nothing.
Remove ==
  /\ present
  /\ NewInstance({}, scorer, 0)
  /\ present' = FALSE
  /\ UNCHANGED <<secret, running, holder, heldSecret, streaming, unvalidated>>

Add(s, sc) ==
  /\ ~present
  /\ present' = TRUE
  /\ scorer' = sc
  /\ secret' = s
  /\ UNCHANGED <<provVars, reqVars, histVars, unvalidated>>

-----------------------------------------------------------------------------
\* validateKey: what a request for the model list of the provider comes to.  An
\* API key is bad after 401 or 403 only, good after any other status, and an
\* error or a timeout settles nothing.
ValidateKey == {"valid", "auth failed", "inconclusive"}

\* validateKeys hears about an API key; the live instance may not know it.
Validated(k, s, result) ==
  /\ <<k, s>> \in unvalidated
  /\ unvalidated' = unvalidated \ {<<k, s>>}
  /\ IF result = "auth failed" /\ present /\ secret[k] = s
       THEN MarkKeyInvalid(k) /\ Report(k, TRUE)
       ELSE UNCHANGED <<provVars, histVars>>
  /\ UNCHANGED <<reqVars, confVars>>

Tick ==
  /\ Scored!ProviderTick
  /\ owedCooldown' = [a \in ApiKeys |-> Greater(owedCooldown[a] - 1, 0)]
  /\ owedBreaker' = [a \in ApiKeys |-> Greater(owedBreaker[a] - 1, 0)]
  /\ UNCHANGED <<reqVars, confVars, blamed, forgotten, unscored, unvalidated>>

Next ==
  \/ \E r \in Request : Arrive(r)
  \/ \E r \in Request, k \in Keys : Acquire(r, k)
  \/ \E r \in Request : Refuse(r)
  \/ \E r \in Request : Stream(r)
  \/ \E r \in Request, o \in Outcomes : Release(r, o)
  \/ \E s \in [Keys -> Secret], sc \in BOOLEAN : Rebuild(s, sc)
  \/ Remove
  \/ \E s \in [Keys -> Secret], sc \in BOOLEAN : Add(s, sc)
  \/ \E k \in Keys, s \in Secret, result \in ValidateKey : Validated(k, s, result)
  \/ Tick

Spec == Init /\ [][Next]_vars
-----------------------------------------------------------------------------
(***************************************************************************)
(* No sequence of reloads costs a key capacity: requests and streams of    *)
(* replaced instances, whose outcomes arrive at an instance that never     *)
(* handed out their keys, leave nothing counted behind.                    *)
(***************************************************************************)
NeverOvercounted ==
  present /\ scorer =>
    \A k \in Keys :
      LET known == {r \in Holders(k) : heldSecret[r] = secret[k]} IN
      /\ pending[k] <= Cardinality(known)
      /\ activeStreams[k] <= Cardinality(known \cap streaming \cap current)

\* An API key is only ever blocked for failures of its own: neither what is
\* carried over nor an outcome or a validation that comes late is charged to
\* the key that replaced the one it is about.
BlockedOnlyIfBlamed == \A k \in Keys : BlockedFor(k) > 0 => k \in blamed

\* While the penalty of the last report on an API key lasts, no instance hands
\* that key out: its cooldown is served through every rebuild, and so is its
\* breaker's period unless a rebuild took the scorer away meanwhile.  A key
\* that left the configuration since the report is forgotten.
PenaltyServed ==
  [][\A r \in Request : holder[r] = NoKey /\ holder'[r] # NoKey =>
       LET a == <<holder'[r], heldSecret'[r]>>
       IN  \/ a \in forgotten
           \/ owedCooldown[a] = 0 /\ (a \in unscored \/ owedBreaker[a] = 0)]_vars

\* pool.js says of what a reload carries over: "This prevents a config change
\* from clearing active cooldowns or circuit breakers" of the keys it keeps.
KeptKeysProtected ==
  [][\A r \in Request : holder[r] = NoKey /\ holder'[r] # NoKey =>
       LET a == <<holder'[r], heldSecret'[r]>>
       IN  \/ a \in forgotten
           \/ owedCooldown[a] = 0 /\ owedBreaker[a] = 0]_vars

\* README.md calls max_concurrent the "Max in-flight requests per provider".
CapHeld == scorer /\ MaxConcurrent > 0 => Cardinality({r \in Request : holder[r] # NoKey}) <= MaxConcurrent
=============================================================================
