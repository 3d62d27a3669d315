--------------------------- MODULE HotReloadProofs ---------------------------
(***************************************************************************)
(* What holds of reloads at any moment, with any keys, API keys and        *)
(* requests.  Penalties and load are separate arguments.  A penalty moves  *)
(* only by a report on its key, by a new instance, or by the clock         *)
(* (StepsMovePenalties).  The load of a key is compared with the requests  *)
(* whose API key the live instance knows, and the streams with those that  *)
(* looked that instance up.                                                *)
(***************************************************************************)
EXTENDS HotReload, FiniteSetTheorems, TLAPS

PenaltyType ==
  /\ cooldowns \in [Keys -> Int]
  /\ keyCbUntil \in [Keys -> Nat]
  /\ keyCbBackoff \in [Keys -> Nat]
  /\ scorer \in BOOLEAN
  /\ blamed \subseteq Keys
  /\ owedCooldown \in [ApiKeys -> Nat]
  /\ owedBreaker \in [ApiKeys -> Nat]

\* Only a scorer has breakers of single keys.
NoBreakerAlone == ~scorer => \A k \in Keys : keyCbUntil[k] = 0

\* The API key s is the one configured at k.
Live(k, s) == present /\ s = secret[k]

\* What is owed for a configured API key is still standing, and nothing is owed
\* for another one.
OwedStands ==
  \A k \in Keys, s \in Secret : <<k, s>> \notin forgotten =>
    IF Live(k, s)
      THEN /\ owedCooldown[<<k, s>>] <= Greater(cooldowns[k], 0)
           /\ <<k, s>> \in unscored \/ owedBreaker[<<k, s>>] <= keyCbUntil[k]
      ELSE owedCooldown[<<k, s>>] = 0 /\ owedBreaker[<<k, s>>] = 0

RequestType ==
  /\ secret \in [Keys -> Secret]
  /\ running \subseteq Request
  /\ current \subseteq running
  /\ holder \in [Request -> Keys \cup {NoKey}]
  /\ heldSecret \in [Request -> Secret]
  /\ \A r \in Request : holder[r] # NoKey => r \in running
  /\ streaming \subseteq {r \in running : holder[r] # NoKey}

PenaltyInv ==
  /\ PenaltyType /\ RequestType
  /\ NoBreakerAlone /\ OwedStands
  /\ BlockedOnlyIfBlamed /\ (~present => blamed = {})

LEMMA NoKeyIs == NoKey \notin Keys
  BY DEF NoKey, Keys

LEMMA BlockedForIs ==
  ASSUME PenaltyType, NEW k \in Keys
  PROVE  /\ BlockedFor(k) \in Nat
         /\ cooldowns[k] <= BlockedFor(k) /\ keyCbUntil[k] <= BlockedFor(k)
         /\ BlockedFor(k) \in {cooldowns[k], keyCbUntil[k], 0}
  BY DEF PenaltyType, BlockedFor, Greater

-----------------------------------------------------------------------------
(* The requests.                                                           *)
LEMMA RequestTypeNext ==
  ASSUME RequestType, [Next]_vars
  PROVE  RequestType'
<1> USE DEF RequestType
<1>1. ASSUME NEW r \in Request, Leave(r), secret' = secret
      PROVE  RequestType'
  <2>1. (holder \in [Request -> Keys \cup {NoKey}])' /\ heldSecret' \in [Request -> Secret]
    BY <1>1, HotReloadAssumption DEF Leave, Keys, NoKey
  <2>2. \A q \in Request : q # r => holder'[q] = holder[q]
    BY <1>1 DEF Leave
  <2>3. running' = running \ {r} /\ current' = current \ {r} /\ streaming' = streaming \ {r}
    BY <1>1 DEF Leave
  <2>4. running' \subseteq Request /\ current' \subseteq running'
    BY <2>3
  <2>5. streaming' \subseteq {q \in running' : holder'[q] # NoKey}
    BY <2>2, <2>3
  <2>6. \A q \in Request : holder'[q] # NoKey => q \in running'
    <3>1. holder'[r] = NoKey
      BY <1>1 DEF Leave
    <3>2. QED  BY <2>2, <2>3, <3>1
  <2>7. QED  BY <1>1, <2>1, <2>4, <2>5, <2>6 DEF Keys, NoKey
<1>2. ASSUME UNCHANGED <<secret, running, holder, heldSecret, streaming>>, current' \subseteq running
      PROVE  RequestType'
  BY <1>2 DEF Keys, NoKey
<1>3. ASSUME NEW r \in Request, Arrive(r)
      PROVE  RequestType'
  BY <1>3 DEF Arrive, confVars, Keys, NoKey
<1>4. ASSUME NEW r \in Request, NEW k \in Keys, Acquire(r, k)
      PROVE  RequestType'
  <2>1. (holder \in [Request -> Keys \cup {NoKey}])' /\ heldSecret' \in [Request -> Secret]
    BY <1>4 DEF Acquire, Keys, NoKey
  <2>2. \A q \in Request : holder'[q] = IF q = r THEN k ELSE holder[q]
    BY <1>4 DEF Acquire
  <2>3. UNCHANGED <<running, current, streaming, secret>>
    BY <1>4 DEF Acquire, confVars
  <2>4. \A q \in Request : holder'[q] # NoKey => q \in running'
    BY <1>4, <2>2, <2>3 DEF Acquire
  <2>5. QED  BY <2>1, <2>2, <2>3, <2>4, NoKeyIs
<1>5. ASSUME NEW r \in Request, Stream(r)
      PROVE  RequestType'
  BY <1>5 DEF Stream, confVars, Keys, NoKey
<1>6. ASSUME NEW r \in Request, Refuse(r) \/ \E o \in Outcomes : Release(r, o)
      PROVE  RequestType'
  BY <1>1, <1>6 DEF Refuse, Release, confVars
<1>7. ASSUME NEW s \in [Keys -> Secret], NEW sc \in BOOLEAN, Rebuild(s, sc) \/ Add(s, sc)
      PROVE  RequestType'
  <2>1. UNCHANGED <<running, holder, heldSecret, streaming>> /\ secret' = s /\ current' \subseteq running
    BY <1>7 DEF Rebuild, Add, NewInstance, reqVars
  <2>2. QED  BY <2>1 DEF Keys, NoKey
<1>8. CASE Remove
  BY <1>2, <1>8 DEF Remove, NewInstance
<1>9. ASSUME NEW k \in Keys, NEW s \in Secret, NEW result \in ValidateKey, Validated(k, s, result)
      PROVE  RequestType'
  BY <1>2, <1>9 DEF Validated, reqVars, confVars
<1>10. CASE Tick \/ UNCHANGED vars
  BY <1>2, <1>10 DEF Tick, vars, reqVars, confVars
<1>11. QED
  BY <1>3, <1>4, <1>5, <1>6, <1>7, <1>8, <1>9, <1>10 DEF Next

-----------------------------------------------------------------------------
(***************************************************************************)
(* The penalties.                                                          *)
(***************************************************************************)
penalties == <<cooldowns, keyCbUntil, keyCbBackoff, confVars, histVars>>

StillTyped ==
  /\ cooldowns' \in [Keys -> Int]
  /\ keyCbUntil' \in [Keys -> Nat]
  /\ keyCbBackoff' \in [Keys -> Nat]

\* What is reported on k changes the penalty of k alone, and blames k when it
\* changes it at all.
Reports(k) ==
  /\ present /\ StillTyped /\ (~scorer => keyCbUntil' = keyCbUntil)
  /\ \A j \in Keys \ {k} : cooldowns'[j] = cooldowns[j] /\ keyCbUntil'[j] = keyCbUntil[j]
  /\ \E failed \in BOOLEAN :
       /\ Report(k, failed)
       /\ ~failed => cooldowns'[k] = cooldowns[k] /\ keyCbUntil'[k] = keyCbUntil[k]
  /\ UNCHANGED confVars

CoolsDown ==
  /\ cooldowns' = [k \in Keys |-> Greater(cooldowns[k] - 1, -1)]
  /\ keyCbUntil' = [k \in Keys |-> Greater(keyCbUntil[k] - 1, 0)]
  /\ owedCooldown' = [a \in ApiKeys |-> Greater(owedCooldown[a] - 1, 0)]
  /\ owedBreaker' = [a \in ApiKeys |-> Greater(owedBreaker[a] - 1, 0)]
  /\ UNCHANGED <<keyCbBackoff, confVars, blamed, forgotten, unscored>>

MovesPenalties ==
  \/ UNCHANGED penalties
  \/ \E k \in Keys : Reports(k)
  \/ \E s \in [Keys -> Secret], sc \in BOOLEAN : Rebuild(s, sc) \/ Add(s, sc)
  \/ Remove
  \/ CoolsDown

\* The part of PenaltyInv the steps below are about.
Standing == PenaltyType /\ NoBreakerAlone /\ OwedStands /\ BlockedOnlyIfBlamed /\ (~present => blamed = {})

LEMMA OutcomeIs ==
  ASSUME NEW o \in Outcomes
  PROVE  o.cool \in Nat /\ o.kind \in {"ok", "error", "auth", "429"}
  BY ProviderAssumption
  DEF Outcomes, Succeeded, Failed, AuthFailed, RateLimited, CooldownFor429

\* An outcome touches the penalty of its own key, and a success does not.
LEMMA ScoredReleaseReports ==
  ASSUME PenaltyInv, NEW k \in Keys, NEW o \in Outcomes, Scored!ReleaseKey(k, o)
  PROVE  /\ StillTyped
         /\ \A j \in Keys \ {k} : cooldowns'[j] = cooldowns[j] /\ keyCbUntil'[j] = keyCbUntil[j]
         /\ o.kind = "ok" => cooldowns'[k] = cooldowns[k] /\ keyCbUntil'[k] = keyCbUntil[k]
<1> USE DEF PenaltyInv, PenaltyType
<1>1. /\ cooldowns' \in [Keys -> Int]
      /\ \A j \in Keys \ {k} : cooldowns'[j] = cooldowns[j]
      /\ o.kind = "ok" => cooldowns'[k] = cooldowns[k]
  BY OutcomeIs DEF Scored!ReleaseKey
<1>2. Scored!RecordOutcome(k, o)
  BY DEF Scored!ReleaseKey
<1>3. CASE Scored!RecordSuccess(k)
  BY <1>1, <1>3 DEF Scored!RecordSuccess, StillTyped
<1>4. CASE o.kind # "ok" /\ Scored!RecordAuthError(k)
  BY <1>1, <1>4, ProviderAssumption DEF Scored!RecordAuthError, StillTyped
<1>5. CASE o.kind # "ok" /\ Scored!RecordOtherError(k)
  <2>1. KeyCbCooldown * keyCbBackoff[k] \in Nat /\ Scored!Lesser(2 * keyCbBackoff[k], CbMaxBackoff) \in Nat
    <3>1. \A a \in Nat, b \in Nat : a * b \in Nat
      OBVIOUS
    <3>2. keyCbBackoff[k] \in Nat /\ KeyCbCooldown \in Nat /\ CbMaxBackoff \in Nat
      BY ProviderAssumption
    <3>3. QED  BY <3>1, <3>2 DEF Scored!Lesser
  <2>2. /\ keyCbUntil' \in [Keys -> Nat] /\ keyCbBackoff' \in [Keys -> Nat]
        /\ \A j \in Keys \ {k} : keyCbUntil'[j] = keyCbUntil[j]
    BY <1>5, <2>1 DEF Scored!RecordOtherError
  <2>3. QED  BY <1>1, <1>5, <2>2 DEF StillTyped
<1>6. QED  BY <1>2, <1>3, <1>4, <1>5 DEF Scored!RecordOutcome

LEMMA PlainReleaseReports ==
  ASSUME PenaltyInv, NEW k \in Keys, NEW o \in Outcomes, Plain!ReleaseKey(k, o)
  PROVE  /\ StillTyped /\ keyCbUntil' = keyCbUntil
         /\ \A j \in Keys \ {k} : cooldowns'[j] = cooldowns[j]
         /\ o.kind = "ok" => cooldowns'[k] = cooldowns[k]
<1> USE DEF PenaltyInv, PenaltyType
<1>1. /\ cooldowns' \in [Keys -> Int]
      /\ \A j \in Keys \ {k} : cooldowns'[j] = cooldowns[j]
      /\ o.kind = "ok" => cooldowns'[k] = cooldowns[k]
  BY OutcomeIs DEF Plain!ReleaseKey
<1>2. UNCHANGED <<keyCbUntil, keyCbBackoff>>
  BY DEF Plain!ReleaseKey, Plain!RecordOutcome, Plain!keyVars
<1>3. QED  BY <1>1, <1>2 DEF StillTyped

LEMMA ReleaseKeyReports ==
  ASSUME PenaltyInv, NEW k \in Keys, NEW o \in Outcomes, ReleaseKey(k, o)
  PROVE  /\ StillTyped /\ (~scorer => keyCbUntil' = keyCbUntil)
         /\ \A j \in Keys \ {k} : cooldowns'[j] = cooldowns[j] /\ keyCbUntil'[j] = keyCbUntil[j]
         /\ o.kind = "ok" => cooldowns'[k] = cooldowns[k] /\ keyCbUntil'[k] = keyCbUntil[k]
<1>1. CASE scorer
  BY <1>1, ScoredReleaseReports DEF ReleaseKey
<1>2. CASE ~scorer
  BY <1>2, PlainReleaseReports DEF ReleaseKey
<1>3. QED  BY <1>1, <1>2

LEMMA InvalidReports ==
  ASSUME PenaltyInv, NEW k \in Keys, MarkKeyInvalid(k)
  PROVE  /\ StillTyped /\ (~scorer => keyCbUntil' = keyCbUntil)
         /\ \A j \in Keys \ {k} : cooldowns'[j] = cooldowns[j] /\ keyCbUntil'[j] = keyCbUntil[j]
<1> USE ProviderAssumption DEF PenaltyInv, PenaltyType, MarkKeyInvalid
<1>1. CASE scorer
  BY <1>1 DEF Scored!MarkKeyInvalid, StillTyped
<1>2. CASE ~scorer
  BY <1>2 DEF Plain!MarkKeyInvalid, Plain!keyVars, StillTyped
<1>3. QED  BY <1>1, <1>2

\* What a new instance is given: the cooldowns of the keys it keeps, and their
\* breakers if it has a scorer.
LEMMA NewInstanceCarries ==
  ASSUME PenaltyInv, NEW kept \in SUBSET Keys, NEW sc \in BOOLEAN, NEW openUntil,
         NewInstance(kept, sc, openUntil)
  PROVE  /\ PenaltyType' /\ NoBreakerAlone'
         /\ \A k \in kept : /\ Greater(cooldowns'[k], 0) = Greater(cooldowns[k], 0)
                            /\ keyCbUntil'[k] = IF sc THEN keyCbUntil[k] ELSE 0
         /\ \A k \in Keys \ kept : cooldowns'[k] = -1 /\ keyCbUntil'[k] = 0
         /\ BlockedOnlyIfBlamed'
<1> USE DEF PenaltyInv, PenaltyType, NewInstance
<1>1. cooldowns' \in [Keys -> Int]
  BY DEF CarriedCooldown
<1>2. keyCbUntil' \in [Keys -> Nat] /\ keyCbBackoff' \in [Keys -> Nat]
  BY DEF CarryBreaker
<1>3. ASSUME NEW k \in Keys
      PROVE  /\ cooldowns'[k] = IF k \in kept /\ cooldowns[k] > 0 THEN cooldowns[k] ELSE -1
             /\ keyCbUntil'[k] = IF k \in kept /\ scorer /\ sc /\ keyCbUntil[k] > 0
                                   THEN keyCbUntil[k] ELSE 0
             /\ cooldowns[k] \in Int /\ keyCbUntil[k] \in Nat
  BY DEF CarriedCooldown, CarryBreaker, BreakerCarried
<1>4. PenaltyType' /\ NoBreakerAlone'
  BY <1>1, <1>2, <1>3 DEF NoBreakerAlone
<1>5. ASSUME NEW k \in kept
      PROVE  /\ Greater(cooldowns'[k], 0) = Greater(cooldowns[k], 0)
             /\ keyCbUntil'[k] = IF sc THEN keyCbUntil[k] ELSE 0
  <2>1. ~scorer => keyCbUntil[k] = 0
    BY DEF NoBreakerAlone
  <2>2. keyCbUntil'[k] = IF sc THEN keyCbUntil[k] ELSE 0
    BY <1>3, <2>1
  <2>3. QED  BY <1>3, <2>2 DEF Greater
<1>6. ASSUME NEW k \in Keys \ kept PROVE cooldowns'[k] = -1 /\ keyCbUntil'[k] = 0
  BY <1>3
<1>7. ASSUME NEW k \in Keys, BlockedFor(k)' > 0 PROVE k \in blamed'
  <2>1. k \in kept
    BY <1>6, <1>7 DEF BlockedFor, Greater
  <2>2. BlockedFor(k) > 0
    <3>1. cooldowns'[k] > 0 \/ keyCbUntil'[k] > 0
      BY <1>3, <1>7 DEF BlockedFor, Greater
    <3>2. cooldowns[k] > 0 \/ keyCbUntil[k] > 0
      BY <1>3, <2>1, <3>1
    <3>3. QED  BY <1>3, <3>2 DEF BlockedFor, Greater
  <2>3. QED  BY <2>1, <2>2 DEF BlockedOnlyIfBlamed
<1>8. QED  BY <1>4, <1>5, <1>6, <1>7 DEF BlockedOnlyIfBlamed

LEMMA ConfiguredIsApiKey == \A k \in Keys, s \in Secret : <<k, s>> \in ApiKeys
  BY DEF ApiKeys

LEMMA RebuildKeeps ==
  ASSUME PenaltyInv, NEW s \in [Keys -> Secret], NEW sc \in BOOLEAN, Rebuild(s, sc)
  PROVE  Standing'
<1> USE DEF PenaltyInv
<1> DEFINE kept == Kept(s)
<1>1. kept \in SUBSET Keys /\ NewInstance(kept, sc, cbOpenUntil)
  BY DEF Rebuild, Kept
<1>2. /\ present /\ present' /\ secret' = s
      /\ UNCHANGED <<owedCooldown, owedBreaker>>
      /\ forgotten' = forgotten \cup {<<k, secret[k]>> : k \in Keys \ kept}
      /\ unscored' = unscored \cup {<<k, secret[k]>> : k \in {j \in kept : keyCbUntil[j] > 0 /\ ~sc}}
  BY <1>1 DEF Rebuild, NewInstance
<1>3. /\ PenaltyType' /\ NoBreakerAlone' /\ BlockedOnlyIfBlamed'
      /\ \A k \in kept : /\ Greater(cooldowns'[k], 0) = Greater(cooldowns[k], 0)
                         /\ keyCbUntil'[k] = IF sc THEN keyCbUntil[k] ELSE 0
      /\ \A k \in Keys \ kept : cooldowns'[k] = -1 /\ keyCbUntil'[k] = 0
  BY <1>1, NewInstanceCarries
<1>4. \A k \in Keys : k \in kept <=> s[k] = secret[k]
  BY DEF Kept
<1> HIDE DEF kept
<1>5. ASSUME NEW k \in Keys, NEW t \in Secret, <<k, t>> \notin forgotten'
      PROVE  IF t = s[k]
               THEN /\ owedCooldown[<<k, t>>] <= Greater(cooldowns'[k], 0)
                    /\ <<k, t>> \in unscored' \/ owedBreaker[<<k, t>>] <= keyCbUntil'[k]
               ELSE owedCooldown[<<k, t>>] = 0 /\ owedBreaker[<<k, t>>] = 0
  <2>1. <<k, t>> \notin forgotten /\ (t = secret[k] => k \in kept)
    BY <1>2, <1>5
  <2>2. IF t = secret[k]
          THEN /\ owedCooldown[<<k, t>>] <= Greater(cooldowns[k], 0)
               /\ <<k, t>> \in unscored \/ owedBreaker[<<k, t>>] <= keyCbUntil[k]
          ELSE owedCooldown[<<k, t>>] = 0 /\ owedBreaker[<<k, t>>] = 0
    BY <1>2, <2>1 DEF OwedStands, Live
  <2>3. keyCbUntil[k] \in Nat /\ keyCbUntil'[k] \in Nat /\ cooldowns'[k] \in Int
        /\ Greater(cooldowns'[k], 0) >= 0
    BY <1>3 DEF PenaltyType, Greater
  <2>4. CASE t = secret[k]
    <3>1. k \in kept /\ t = s[k]
      BY <1>4, <2>1, <2>4
    <3>2. owedCooldown[<<k, t>>] <= Greater(cooldowns'[k], 0)
      BY <1>3, <2>2, <2>4, <3>1
    <3>3. <<k, t>> \in unscored' \/ owedBreaker[<<k, t>>] <= keyCbUntil'[k]
      <4>1. CASE keyCbUntil[k] > 0 /\ ~sc
        BY <1>2, <2>4, <3>1, <4>1
      <4>2. CASE keyCbUntil[k] = 0 \/ sc
        <5>1. keyCbUntil'[k] = keyCbUntil[k]
          BY <1>3, <3>1, <4>2
        <5>2. <<k, t>> \in unscored => <<k, t>> \in unscored'
          BY <1>2
        <5>3. QED  BY <2>2, <2>4, <5>1, <5>2
      <4>3. QED  BY <2>3, <4>1, <4>2
    <3>4. QED  BY <3>1, <3>2, <3>3
  <2>5. CASE t # secret[k]
    BY <2>2, <2>3, <2>5
  <2>6. QED  BY <2>4, <2>5
<1>6. OwedStands'
  BY <1>2, <1>5 DEF OwedStands, Live
<1>7. QED  BY <1>2, <1>3, <1>6 DEF Standing

LEMMA RemoveKeeps ==
  ASSUME PenaltyInv, Remove
  PROVE  Standing'
<1> USE DEF PenaltyInv
<1>1. {} \in SUBSET Keys /\ NewInstance({}, scorer, 0) /\ scorer \in BOOLEAN
  BY DEF Remove, PenaltyType
<1>2. /\ present /\ ~present' /\ secret' = secret /\ blamed' = {}
      /\ UNCHANGED <<owedCooldown, owedBreaker>>
      /\ forgotten' = forgotten \cup {<<k, secret[k]>> : k \in Keys}
  BY <1>1 DEF Remove, NewInstance
<1>3. PenaltyType' /\ NoBreakerAlone' /\ BlockedOnlyIfBlamed'
  BY <1>1, NewInstanceCarries
<1>4. OwedStands'
  BY <1>2 DEF OwedStands, Live
<1>5. QED  BY <1>2, <1>3, <1>4 DEF Standing

LEMMA AddKeeps ==
  ASSUME PenaltyInv, NEW s \in [Keys -> Secret], NEW sc \in BOOLEAN, Add(s, sc)
  PROVE  Standing'
<1> USE DEF PenaltyInv, PenaltyType
<1>1. /\ ~present /\ present' /\ secret' = s /\ scorer' = sc
      /\ UNCHANGED <<cooldowns, keyCbUntil, keyCbBackoff, histVars>>
  BY DEF Add, provVars, keyVars
<1>2. \A k \in Keys : keyCbUntil[k] = 0 /\ Greater(cooldowns[k], 0) >= 0
  BY DEF BlockedOnlyIfBlamed, BlockedFor, Greater, Add
<1>3. PenaltyType' /\ NoBreakerAlone' /\ BlockedOnlyIfBlamed'
  BY <1>1, <1>2 DEF NoBreakerAlone, BlockedOnlyIfBlamed, BlockedFor, histVars, owedVars
<1>4. \A k \in Keys, t \in Secret : <<k, t>> \notin forgotten =>
        owedCooldown[<<k, t>>] = 0 /\ owedBreaker[<<k, t>>] = 0
  BY <1>1 DEF OwedStands, Live
<1>5. OwedStands'
  BY <1>1, <1>2, <1>4 DEF OwedStands, histVars, owedVars
<1>6. QED  BY <1>1, <1>3, <1>5 DEF Standing

LEMMA CoolsDownKeeps ==
  ASSUME PenaltyInv, CoolsDown
  PROVE  Standing'
<1> USE DEF PenaltyInv, PenaltyType, CoolsDown
<1>1. ASSUME NEW k \in Keys
      PROVE  /\ cooldowns[k] \in Int /\ keyCbUntil[k] \in Nat
             /\ cooldowns'[k] = Greater(cooldowns[k] - 1, -1) /\ cooldowns'[k] \in Int
             /\ keyCbUntil'[k] = Greater(keyCbUntil[k] - 1, 0) /\ keyCbUntil'[k] \in Nat
  BY DEF Greater
<1>2. ASSUME NEW a \in ApiKeys
      PROVE  /\ owedCooldown[a] \in Nat /\ owedBreaker[a] \in Nat
             /\ owedCooldown'[a] = Greater(owedCooldown[a] - 1, 0) /\ owedCooldown'[a] \in Nat
             /\ owedBreaker'[a] = Greater(owedBreaker[a] - 1, 0) /\ owedBreaker'[a] \in Nat
  BY DEF Greater
<1>3. PenaltyType'
  BY <1>1, <1>2 DEF confVars
<1>4. NoBreakerAlone'
  BY <1>1 DEF NoBreakerAlone, confVars, Greater
<1>5. BlockedOnlyIfBlamed'
  <2>1. ASSUME NEW k \in Keys, BlockedFor(k)' > 0 PROVE BlockedFor(k) > 0
    BY <1>1, <2>1 DEF BlockedFor, Greater
  <2>2. QED  BY <2>1 DEF BlockedOnlyIfBlamed
<1>6. OwedStands'
  <2>1. \A k \in Keys, s \in Secret : Live(k, s)' = Live(k, s)
    BY DEF Live, confVars
  <2>2. ASSUME NEW k \in Keys, NEW s \in Secret, <<k, s>> \notin forgotten'
        PROVE  IF Live(k, s)'
                 THEN /\ owedCooldown'[<<k, s>>] <= Greater(cooldowns'[k], 0)
                      /\ <<k, s>> \in unscored' \/ owedBreaker'[<<k, s>>] <= keyCbUntil'[k]
                 ELSE owedCooldown'[<<k, s>>] = 0 /\ owedBreaker'[<<k, s>>] = 0
    <3>1. <<k, s>> \in ApiKeys
      BY DEF ApiKeys
    <3>2. IF Live(k, s)
            THEN /\ owedCooldown[<<k, s>>] <= Greater(cooldowns[k], 0)
                 /\ <<k, s>> \in unscored \/ owedBreaker[<<k, s>>] <= keyCbUntil[k]
            ELSE owedCooldown[<<k, s>>] = 0 /\ owedBreaker[<<k, s>>] = 0
      BY <2>2 DEF OwedStands
    <3>3. CASE Live(k, s)
      <4>1. owedCooldown'[<<k, s>>] <= Greater(cooldowns'[k], 0)
        BY <1>1, <1>2, <3>1, <3>2, <3>3 DEF Greater
      <4>2. owedBreaker[<<k, s>>] <= keyCbUntil[k] => owedBreaker'[<<k, s>>] <= keyCbUntil'[k]
        BY <1>1, <1>2, <3>1 DEF Greater
      <4>3. QED  BY <2>1, <3>2, <3>3, <4>1, <4>2
    <3>4. CASE ~Live(k, s)
      BY <1>2, <2>1, <3>1, <3>2, <3>4 DEF Greater
    <3>5. QED  BY <3>3, <3>4
  <2>3. QED  BY <2>2 DEF OwedStands
<1>7. QED  BY <1>3, <1>4, <1>5, <1>6 DEF Standing, confVars

\* A report leaves owed for its key exactly what now blocks it.
LEMMA ReportsKeep ==
  ASSUME PenaltyInv, NEW k \in Keys, Reports(k)
  PROVE  Standing'
<1> USE DEF PenaltyInv
<1> DEFINE a == <<k, secret[k]>>
<1>1. PICK failed \in BOOLEAN :
        /\ Report(k, failed)
        /\ ~failed => cooldowns'[k] = cooldowns[k] /\ keyCbUntil'[k] = keyCbUntil[k]
  BY DEF Reports
<1>2. /\ blamed' = IF failed THEN blamed \cup {k} ELSE blamed
      /\ owedCooldown' = [owedCooldown EXCEPT ![a] = Greater(cooldowns'[k], 0)]
      /\ owedBreaker' = [owedBreaker EXCEPT ![a] = keyCbUntil'[k]]
      /\ forgotten' = forgotten \ {a} /\ unscored' = unscored \ {a}
  BY <1>1 DEF Report
<1>0. StillTyped /\ (~scorer => keyCbUntil' = keyCbUntil)
  BY DEF Reports
<1>3. /\ cooldowns'[k] \in Int /\ keyCbUntil'[k] \in Nat /\ Greater(cooldowns'[k], 0) \in Nat
      /\ a \in ApiKeys /\ present /\ present' /\ secret' = secret /\ scorer' = scorer
  BY <1>0 DEF StillTyped, Greater, Reports, confVars, ApiKeys, RequestType
<1>4. PenaltyType'
  BY <1>0, <1>2, <1>3 DEF PenaltyType, StillTyped
<1>5. ASSUME NEW j \in Keys, j # k \/ ~failed
      PROVE  cooldowns'[j] = cooldowns[j] /\ keyCbUntil'[j] = keyCbUntil[j]
  BY <1>1, <1>5 DEF Reports
<1>6. OwedStands'
  <2>1. ASSUME NEW j \in Keys, NEW s \in Secret, <<j, s>> \notin forgotten'
        PROVE  IF Live(j, s)'
                 THEN /\ owedCooldown'[<<j, s>>] <= Greater(cooldowns'[j], 0)
                      /\ <<j, s>> \in unscored' \/ owedBreaker'[<<j, s>>] <= keyCbUntil'[j]
                 ELSE owedCooldown'[<<j, s>>] = 0 /\ owedBreaker'[<<j, s>>] = 0
    <3>0. <<j, s>> \in ApiKeys /\ Live(j, s)' = Live(j, s)
      BY <1>3 DEF ApiKeys, Live
    <3>1. CASE <<j, s>> = a
      <4>1. j = k /\ Live(j, s)'
        BY <1>3, <3>0, <3>1 DEF Live
      <4>2. /\ owedCooldown'[<<j, s>>] = Greater(cooldowns'[k], 0)
            /\ owedBreaker'[<<j, s>>] = keyCbUntil'[k]
        BY <1>2, <1>3, <3>1 DEF PenaltyType
      <4>3. QED  BY <1>3, <4>1, <4>2
    <3>2. CASE <<j, s>> # a
      <4>1. /\ <<j, s>> \notin forgotten
            /\ owedCooldown'[<<j, s>>] = owedCooldown[<<j, s>>]
            /\ owedBreaker'[<<j, s>>] = owedBreaker[<<j, s>>]
            /\ <<j, s>> \in unscored <=> <<j, s>> \in unscored'
        BY <1>2, <2>1, <3>0, <3>2 DEF PenaltyType
      <4>2. IF Live(j, s)
              THEN /\ owedCooldown[<<j, s>>] <= Greater(cooldowns[j], 0)
                   /\ <<j, s>> \in unscored \/ owedBreaker[<<j, s>>] <= keyCbUntil[j]
              ELSE owedCooldown[<<j, s>>] = 0 /\ owedBreaker[<<j, s>>] = 0
        BY <4>1 DEF OwedStands
      <4>3. Live(j, s) => j # k
        BY <3>2 DEF Live
      <4>4. QED  BY <1>5, <3>0, <4>1, <4>2, <4>3
    <3>3. QED  BY <3>1, <3>2
  <2>2. QED  BY <2>1 DEF OwedStands
<1>7. BlockedOnlyIfBlamed'
  <2>1. ASSUME NEW j \in Keys, BlockedFor(j)' > 0 PROVE j \in blamed'
    <3>1. CASE j = k /\ failed
      BY <1>2, <3>1
    <3>2. CASE j # k \/ ~failed
      BY <1>2, <1>5, <2>1, <3>2 DEF BlockedOnlyIfBlamed, BlockedFor
    <3>3. QED  BY <3>1, <3>2
  <2>2. QED  BY <2>1 DEF BlockedOnlyIfBlamed
<1>8. NoBreakerAlone'
  BY <1>0, <1>3 DEF NoBreakerAlone
<1>9. QED  BY <1>3, <1>4, <1>6, <1>7, <1>8 DEF Standing

\* Looking for a key moves no penalty.
LEMMA AcquireKeeps ==
  ASSUME AcquireNone \/ \E k \in Keys : AcquireKey(k)
  PROVE  UNCHANGED <<cooldowns, keyCbUntil, keyCbBackoff>>
  BY DEF AcquireKey, AcquireNone, Scored!AcquireKey, Scored!AcquireNone, Scored!keyVars,
         Plain!AcquireKey, Plain!AcquireNone, Plain!keyVars

LEMMA StepsMovePenalties ==
  ASSUME PenaltyInv, [Next]_vars
  PROVE  MovesPenalties
<1>1. ASSUME UNCHANGED penalties
      PROVE  MovesPenalties
  BY <1>1 DEF MovesPenalties
<1>2. ASSUME NEW r \in Request,
             Arrive(r) \/ (\E k \in Keys : Acquire(r, k)) \/ Refuse(r) \/ Stream(r)
      PROVE  UNCHANGED penalties
  BY <1>2, AcquireKeeps DEF Arrive, Acquire, Refuse, Stream, penalties, provVars, keyVars
<1>3. ASSUME NEW r \in Request, NEW o \in Outcomes, Release(r, o)
      PROVE  MovesPenalties
  <2>1. CASE ~Known(r)
    <3>1. UNCHANGED penalties
      BY <1>3, <2>1 DEF Release, ReportOutcome, penalties, keyVars
    <3>2. QED  BY <1>1, <3>1
  <2>2. CASE Known(r)
    <3> DEFINE k == holder[r]
    <3>1. k \in Keys /\ present
      BY <1>3, <2>2 DEF Release, PenaltyInv, RequestType, Known
    <3>2. /\ ReleaseKey(k, o) /\ Report(k, o.kind # "ok") /\ (o.kind # "ok") \in BOOLEAN
          /\ UNCHANGED confVars
      BY <1>3, <2>2 DEF Release, ReportOutcome
    <3> HIDE DEF k
    <3>3. /\ StillTyped /\ (~scorer => keyCbUntil' = keyCbUntil)
          /\ \A j \in Keys \ {k} : cooldowns'[j] = cooldowns[j] /\ keyCbUntil'[j] = keyCbUntil[j]
          /\ o.kind = "ok" => cooldowns'[k] = cooldowns[k] /\ keyCbUntil'[k] = keyCbUntil[k]
      BY <3>1, <3>2, ReleaseKeyReports
    <3>4. Reports(k)
      BY <3>1, <3>2, <3>3, Zenon DEF Reports
    <3>5. QED  BY <3>1, <3>4 DEF MovesPenalties
  <2>3. QED  BY <2>1, <2>2
<1>4. ASSUME NEW k \in Keys, NEW s \in Secret, NEW result \in ValidateKey, Validated(k, s, result)
      PROVE  MovesPenalties
  <2>1. CASE present /\ MarkKeyInvalid(k) /\ Report(k, TRUE)
    <3>1. /\ StillTyped /\ (~scorer => keyCbUntil' = keyCbUntil)
          /\ \A j \in Keys \ {k} : cooldowns'[j] = cooldowns[j] /\ keyCbUntil'[j] = keyCbUntil[j]
      BY <2>1, InvalidReports
    <3>2. UNCHANGED confVars
      BY <1>4 DEF Validated
    <3>3. Reports(k)
      BY <2>1, <3>1, <3>2 DEF Reports
    <3>4. QED  BY <3>3 DEF MovesPenalties
  <2>2. CASE UNCHANGED <<provVars, histVars>>
    BY <1>1, <1>4, <2>2 DEF Validated, provVars, keyVars, penalties
  <2>3. QED  BY <1>4, <2>1, <2>2 DEF Validated
<1>5. CASE Tick
  BY <1>5 DEF Tick, Scored!ProviderTick, Scored!Greater, Scored!Keys, Greater, Keys, CoolsDown, MovesPenalties
<1>6. CASE UNCHANGED vars
  BY <1>1, <1>6 DEF vars, penalties, provVars, keyVars
<1>7. QED
  BY <1>1, <1>2, <1>3, <1>4, <1>5, <1>6 DEF Next, MovesPenalties

LEMMA PenaltyNext == ASSUME PenaltyInv, [Next]_vars PROVE PenaltyInv'
<1>1. MovesPenalties /\ RequestType'
  BY StepsMovePenalties, RequestTypeNext DEF PenaltyInv
<1>2. ASSUME UNCHANGED penalties
      PROVE  Standing'
  BY <1>2 DEF penalties, confVars, histVars, owedVars, PenaltyInv, Standing, PenaltyType,
              NoBreakerAlone, OwedStands, Live, BlockedOnlyIfBlamed, BlockedFor
<1>3. Standing'
  BY <1>1, <1>2, ReportsKeep, RebuildKeeps, AddKeeps, RemoveKeeps, CoolsDownKeeps DEF MovesPenalties
<1>4. QED  BY <1>1, <1>3 DEF PenaltyInv, Standing

LEMMA PenaltyInit == ASSUME Init PROVE PenaltyInv
<1> USE DEF Init, Scored!ProviderInit, Scored!Keys, Keys
<1>1. PenaltyType
  BY ProviderAssumption DEF PenaltyType
<1>2. RequestType
  BY HotReloadAssumption DEF RequestType
<1>3. NoBreakerAlone
  BY DEF NoBreakerAlone
<1>4. BlockedOnlyIfBlamed
  BY DEF BlockedOnlyIfBlamed, BlockedFor, Greater
<1>5. OwedStands
  BY ConfiguredIsApiKey DEF OwedStands, Greater
<1>6. QED  BY <1>1, <1>2, <1>3, <1>4, <1>5 DEF PenaltyInv

\* An API key is only ever blocked for failures of its own, through any
\* sequence of reloads, late outcomes and late validations.
THEOREM ReloadBlocksOnlyBlamed == Spec => []BlockedOnlyIfBlamed
<1>1. Init => PenaltyInv
  BY PenaltyInit
<1>2. PenaltyInv /\ [Next]_vars => PenaltyInv'
  BY PenaltyNext
<1>3. PenaltyInv => BlockedOnlyIfBlamed
  BY DEF PenaltyInv
<1>4. QED  BY <1>1, <1>2, <1>3, PTL DEF Spec

\* A key that can be taken is not blocked: by the scorer's tests, or without
\* one because the scan needs a cooldown that is over.
LEMMA TakenIsUnblocked ==
  ASSUME PenaltyInv, NEW k \in Keys, AcquireKey(k)
  PROVE  keyCbUntil[k] = 0 /\ Greater(cooldowns[k], 0) = 0
<1>1. cooldowns[k] \in Int
  BY DEF PenaltyInv, PenaltyType
<1>2. CASE scorer
  BY <1>1, <1>2 DEF AcquireKey, Scored!AcquireKey, Scored!CanTake, Scored!Selectable, Greater
<1>3. CASE ~scorer
  <2>1. Plain!RoundRobinPick(k) /\ keyCbUntil[k] = 0
    BY <1>3 DEF AcquireKey, Plain!AcquireKey, Plain!CanTake, PenaltyInv, NoBreakerAlone
  <2>2. cooldowns[k] < 0
    BY <2>1 DEF Plain!RoundRobinPick
  <2>3. QED  BY <1>1, <2>1, <2>2 DEF Greater
<1>4. QED  BY <1>2, <1>3

LEMMA PenaltyServedStep ==
  ASSUME PenaltyInv, [Next]_vars, NEW r \in Request, holder[r] = NoKey, holder'[r] # NoKey,
         <<holder'[r], heldSecret'[r]>> \notin forgotten
  PROVE  LET a == <<holder'[r], heldSecret'[r]>>
         IN  owedCooldown[a] = 0 /\ (a \in unscored \/ owedBreaker[a] = 0)
<1>1. holder \in [Request -> Keys \cup {NoKey}] /\ heldSecret \in [Request -> Secret]
  BY DEF PenaltyInv, RequestType
<1>2. ASSUME NEW q \in Request, Refuse(q) \/ \E o \in Outcomes : Release(q, o)
      PROVE  FALSE
  <2>1. holder' = [holder EXCEPT ![q] = NoKey]
    BY <1>2 DEF Refuse, Release, Leave
  <2>2. QED  BY <1>1, <2>1
<1>3. ASSUME holder' = holder PROVE FALSE
  BY <1>3
<1>4. \E q \in Request, k \in Keys : Acquire(q, k)
  <2>1. ASSUME \/ \E q \in Request : Arrive(q) \/ Stream(q)
               \/ \E s \in [Keys -> Secret], sc \in BOOLEAN : Rebuild(s, sc) \/ Add(s, sc)
               \/ \E k \in Keys, s \in Secret, result \in ValidateKey : Validated(k, s, result)
               \/ Remove \/ Tick \/ UNCHANGED vars
        PROVE  FALSE
    BY <1>3, <2>1 DEF Arrive, Stream, Rebuild, Add, Validated, Remove, Tick, vars, reqVars
  <2>2. QED  BY <1>2, <2>1 DEF Next
<1>5. PICK q \in Request, k \in Keys : Acquire(q, k)
  BY <1>4
<1>6. holder'[r] = k /\ heldSecret'[r] = secret[k] /\ present
  BY <1>1, <1>5 DEF Acquire
<1>7. keyCbUntil[k] = 0 /\ Greater(cooldowns[k], 0) = 0
  BY <1>5, TakenIsUnblocked DEF Acquire
<1> DEFINE a == <<k, secret[k]>>
<1>8. a \in ApiKeys /\ secret[k] \in Secret
  BY DEF ApiKeys, PenaltyInv, RequestType
<1>9. owedCooldown[a] \in Nat /\ owedBreaker[a] \in Nat
  BY <1>8 DEF PenaltyInv, PenaltyType
<1>10. owedCooldown[a] <= 0 /\ (a \in unscored \/ owedBreaker[a] <= 0)
  BY <1>6, <1>7, <1>8 DEF PenaltyInv, OwedStands, Live
<1>11. QED  BY <1>6, <1>9, <1>10

\* A reload lets no key off: while an API key stays configured, the cooldown
\* last reported on it is served in full before any instance hands it out
\* again, and so is its breaker's period if the scorer stayed too.
THEOREM ReloadServesPenalty == Spec => PenaltyServed
<1>1. Init => PenaltyInv
  BY PenaltyInit
<1>2. PenaltyInv /\ [Next]_vars => PenaltyInv'
  BY PenaltyNext
<1>3. PenaltyInv /\ [Next]_vars =>
        [\A r \in Request : holder[r] = NoKey /\ holder'[r] # NoKey =>
           LET a == <<holder'[r], heldSecret'[r]>>
           IN  \/ a \in forgotten
               \/ owedCooldown[a] = 0 /\ (a \in unscored \/ owedBreaker[a] = 0)]_vars
  BY PenaltyServedStep
<1>4. QED  BY <1>1, <1>2, <1>3, PTL DEF Spec, PenaltyServed

-----------------------------------------------------------------------------
(***************************************************************************)
(* The load.  A new instance counts nothing.  An instance that is gone     *)
(* counts nothing either, so that the next one may know other keys.  What  *)
(* the requests of the live instance hold is known to it.                  *)
(***************************************************************************)
KnownOn(k) == {r \in Holders(k) : heldSecret[r] = secret[k]}
StreamsOn(k) == KnownOn(k) \cap streaming \cap current

LoadType == pending \in [Keys -> Nat] /\ activeStreams \in [Keys -> Nat]
NothingCounted == \A k \in Keys : pending[k] = 0 /\ activeStreams[k] = 0
CurrentKnown == \A r \in current : holder[r] # NoKey => heldSecret[r] = secret[holder[r]]

LoadBounded ==
  scorer => \A k \in Keys : /\ pending[k] <= Cardinality(KnownOn(k))
                               /\ activeStreams[k] <= Cardinality(StreamsOn(k))

LoadInv ==
  /\ RequestType /\ LoadType /\ CurrentKnown /\ LoadBounded
  /\ ~(present /\ scorer) => NothingCounted
  /\ ~present => current = {}

\* What the live instance's methods do to its counts, with its scorer and without.
LEMMA Counts ==
  ASSUME NEW k \in Keys
  PROVE  /\ AcquireKey(k) =>
              /\ pending' = IF scorer THEN [pending EXCEPT ![k] = @ + 1] ELSE pending
              /\ activeStreams' = activeStreams
         /\ \A o \in Outcomes : ReleaseKey(k, o) =>
              pending' = IF scorer /\ pending[k] > 0 THEN [pending EXCEPT ![k] = @ - 1] ELSE pending
         /\ MarkKeyInvalid(k) => UNCHANGED loadVars
         /\ StreamsStarted(k) = IF scorer THEN [activeStreams EXCEPT ![k] = @ + 1] ELSE activeStreams
         /\ StreamsEnded(k) = IF scorer /\ activeStreams[k] > 0
                                THEN [activeStreams EXCEPT ![k] = @ - 1] ELSE activeStreams
<1>1. CASE scorer
  BY <1>1 DEF AcquireKey, ReleaseKey, MarkKeyInvalid, StreamsStarted, StreamsEnded, loadVars,
     Scored!AcquireKey, Scored!ReleaseKey, Scored!DecrementPending,
     Scored!MarkKeyInvalid, Scored!StreamsStarted, Scored!StreamsEnded, Scored!loadVars
<1>2. CASE ~scorer
  BY <1>2 DEF AcquireKey, ReleaseKey, MarkKeyInvalid, StreamsStarted, StreamsEnded, loadVars,
     Plain!AcquireKey, Plain!ReleaseKey, Plain!DecrementPending,
     Plain!MarkKeyInvalid, Plain!StreamsStarted, Plain!StreamsEnded, Plain!loadVars
<1>3. QED  BY <1>1, <1>2

LEMMA NoCount == ASSUME AcquireNone PROVE UNCHANGED loadVars
  BY DEF AcquireNone, Scored!AcquireNone, Scored!loadVars, Plain!AcquireNone, Plain!loadVars, loadVars

LEMMA SubsetsFinite ==
  ASSUME NEW S \in SUBSET Request
  PROVE  IsFiniteSet(S) /\ Cardinality(S) \in Nat
<1>1. IsFiniteSet(Request)
  BY HotReloadAssumption
<1>2. IsFiniteSet(S)
  BY <1>1, FS_Subset, Zenon
<1>3. QED  BY <1>2, FS_CardinalityType, Zenon

LEMMA OnSubset ==
  ASSUME NEW k
  PROVE  /\ KnownOn(k) \in SUBSET Request /\ StreamsOn(k) \in SUBSET Request
         /\ KnownOn(k)' \in SUBSET Request /\ StreamsOn(k)' \in SUBSET Request
  BY DEF KnownOn, StreamsOn, Holders

\* A set of requests that loses at most r, or gains r.
LEMMA CountAfter ==
  ASSUME NEW S \in SUBSET Request, NEW T \in SUBSET Request, NEW r
  PROVE  /\ S \subseteq T => Cardinality(S) <= Cardinality(T)
         /\ S \subseteq T /\ r \in T /\ r \notin S => Cardinality(S) + 1 <= Cardinality(T)
         /\ S \ {r} \subseteq T => Cardinality(S) - 1 <= Cardinality(T)
<1>1. /\ IsFiniteSet(S) /\ Cardinality(S) \in Nat
      /\ IsFiniteSet(T) /\ Cardinality(T) \in Nat
  BY SubsetsFinite
<1>2. ASSUME NEW U, U \subseteq T PROVE Cardinality(U) <= Cardinality(T)
  BY <1>1, <1>2, FS_Subset, Zenon
<1>3. ASSUME S \subseteq T, r \in T, r \notin S PROVE Cardinality(S) + 1 <= Cardinality(T)
  <2>1. Cardinality(S \cup {r}) = Cardinality(S) + 1
    BY <1>1, <1>3, FS_AddElement
  <2>2. S \cup {r} \subseteq T
    BY <1>3
  <2>3. QED  BY <1>2, <2>1, <2>2
<1>4. ASSUME S \ {r} \subseteq T PROVE Cardinality(S) - 1 <= Cardinality(T)
  <2>1. Cardinality(S \ {r}) = IF r \in S THEN Cardinality(S) - 1 ELSE Cardinality(S)
    BY <1>1, FS_RemoveElement
  <2>2. Cardinality(S \ {r}) <= Cardinality(T)
    BY <1>2, <1>4
  <2>3. QED  BY <1>1, <2>1, <2>2
<1>5. QED  BY <1>2, <1>3, <1>4

\* Nobody holds a key: r is in no count.
LEMMA NotKnown ==
  ASSUME NEW r \in Request, holder[r] = NoKey, NEW k \in Keys
  PROVE  r \notin KnownOn(k) /\ r \notin StreamsOn(k)
  BY NoKeyIs DEF KnownOn, StreamsOn, Holders

LEMMA LoadSame ==
  ASSUME LoadInv, UNCHANGED loadVars, scorer' = scorer,
         \A k \in Keys : KnownOn(k) \subseteq KnownOn(k)' /\ StreamsOn(k) \subseteq StreamsOn(k)'
  PROVE  LoadType' /\ LoadBounded'
<1>1. LoadType'
  BY DEF LoadInv, LoadType, loadVars
<1>2. ASSUME scorer, NEW k \in Keys
      PROVE  /\ pending'[k] <= Cardinality(KnownOn(k)')
             /\ activeStreams'[k] <= Cardinality(StreamsOn(k)')
  <2>1. /\ Cardinality(KnownOn(k)) <= Cardinality(KnownOn(k)')
        /\ Cardinality(StreamsOn(k)) <= Cardinality(StreamsOn(k)')
    BY OnSubset, CountAfter
  <2>2. /\ pending[k] \in Nat /\ pending[k] <= Cardinality(KnownOn(k))
        /\ activeStreams[k] \in Nat /\ activeStreams[k] <= Cardinality(StreamsOn(k))
    BY <1>2 DEF LoadInv, LoadType, LoadBounded
  <2>3. /\ Cardinality(KnownOn(k)) \in Nat /\ Cardinality(KnownOn(k)') \in Nat
        /\ Cardinality(StreamsOn(k)) \in Nat /\ Cardinality(StreamsOn(k)') \in Nat
    BY OnSubset, SubsetsFinite
  <2>4. QED  BY <2>1, <2>2, <2>3 DEF loadVars
<1>3. QED  BY <1>1, <1>2 DEF LoadBounded

LEMMA LoadFresh ==
  ASSUME FreshLoad
  PROVE  LoadType' /\ LoadBounded' /\ NothingCounted'
<1>1. LoadType' /\ NothingCounted'
  BY DEF FreshLoad, LoadType, NothingCounted
<1>2. ASSUME NEW k \in Keys
      PROVE  /\ pending'[k] <= Cardinality(KnownOn(k)')
             /\ activeStreams'[k] <= Cardinality(StreamsOn(k)')
  <2>1. Cardinality(KnownOn(k)') \in Nat /\ Cardinality(StreamsOn(k)') \in Nat
    BY OnSubset, SubsetsFinite
  <2>2. QED  BY <1>1, <2>1 DEF NothingCounted
<1>3. QED  BY <1>1, <1>2 DEF LoadBounded

LEMMA AcquireLoad ==
  ASSUME LoadInv, NEW r \in Request, NEW k \in Keys, Acquire(r, k)
  PROVE  LoadType' /\ LoadBounded'
<1> USE DEF LoadInv
<1>1. /\ holder[r] = NoKey
      /\ \A q \in Request : holder'[q] = IF q = r THEN k ELSE holder[q]
      /\ \A q \in Request : heldSecret'[q] = IF q = r THEN secret[k] ELSE heldSecret[q]
      /\ UNCHANGED <<scorer, secret, streaming, current, activeStreams>>
      /\ pending' = IF scorer THEN [pending EXCEPT ![k] = @ + 1] ELSE pending
  BY Counts DEF Acquire, confVars, RequestType
<1>2. ASSUME NEW j \in Keys
      PROVE  /\ KnownOn(j)' = IF j = k THEN KnownOn(j) \cup {r} ELSE KnownOn(j)
             /\ StreamsOn(j) \subseteq StreamsOn(j)'
             /\ r \notin KnownOn(j)
  <2>1. KnownOn(j)' = IF j = k THEN KnownOn(j) \cup {r} ELSE KnownOn(j)
    BY <1>1, NoKeyIs DEF KnownOn, Holders
  <2>2. QED  BY <1>1, <2>1, NotKnown DEF StreamsOn
<1>3. CASE ~scorer
  BY <1>1, <1>3 DEF LoadType, LoadBounded
<1>4. CASE scorer
  <2>1. LoadType'
    BY <1>1, <1>4 DEF LoadType
  <2>2. ASSUME NEW j \in Keys
        PROVE  /\ pending'[j] <= Cardinality(KnownOn(j)')
               /\ activeStreams'[j] <= Cardinality(StreamsOn(j)')
    <3>1. /\ pending[j] \in Nat /\ pending[j] <= Cardinality(KnownOn(j))
          /\ activeStreams[j] \in Nat /\ activeStreams[j] <= Cardinality(StreamsOn(j))
      BY <1>4 DEF LoadType, LoadBounded
    <3>2. /\ Cardinality(KnownOn(j)) \in Nat /\ Cardinality(KnownOn(j)') \in Nat
          /\ Cardinality(StreamsOn(j)) \in Nat /\ Cardinality(StreamsOn(j)') \in Nat
      BY OnSubset, SubsetsFinite
    <3>3. Cardinality(StreamsOn(j)) <= Cardinality(StreamsOn(j)')
      BY <1>2, OnSubset, CountAfter
    <3>4. CASE j = k
      <4>1. Cardinality(KnownOn(j)) + 1 <= Cardinality(KnownOn(j)')
        <5>1. KnownOn(j) \subseteq KnownOn(j)' /\ r \in KnownOn(j)' /\ r \notin KnownOn(j)
          BY <1>2, <3>4
        <5>2. QED  BY <5>1, OnSubset, CountAfter
      <4>2. pending'[j] = pending[j] + 1
        BY <1>1, <1>4, <3>4 DEF LoadType
      <4>3. QED  BY <1>1, <3>1, <3>2, <3>3, <4>1, <4>2
    <3>5. CASE j # k
      <4>1. pending'[j] = pending[j] /\ KnownOn(j)' = KnownOn(j)
        BY <1>1, <1>2, <1>4, <3>5 DEF LoadType
      <4>2. QED  BY <1>1, <3>1, <3>2, <3>3, <4>1
    <3>6. QED  BY <3>4, <3>5
  <2>3. QED  BY <2>1, <2>2 DEF LoadBounded
<1>5. QED  BY <1>3, <1>4

LEMMA StreamLoad ==
  ASSUME LoadInv, NEW r \in Request, Stream(r)
  PROVE  LoadType' /\ LoadBounded'
<1> USE DEF LoadInv
<1>0. PICK k \in Keys : holder[r] = k
  BY DEF Stream, RequestType
<1>1. /\ r \notin streaming
      /\ UNCHANGED <<holder, heldSecret, scorer, secret, current, pending>>
      /\ streaming' = streaming \cup {r}
  BY DEF Stream, RequestType, confVars
<1>2. \A j \in Keys : KnownOn(j)' = KnownOn(j)
  BY <1>1 DEF KnownOn, Holders
<1>3. \A j \in Keys : StreamsOn(j) \subseteq StreamsOn(j)' /\ r \notin StreamsOn(j)
  BY <1>1, <1>2 DEF StreamsOn
<1>4. CASE activeStreams' = activeStreams
  BY <1>1, <1>2, <1>3, <1>4, LoadSame DEF loadVars
<1>5. CASE activeStreams' # activeStreams
  <2>1. /\ r \in current /\ scorer
        /\ activeStreams' = [activeStreams EXCEPT ![k] = @ + 1]
    BY <1>0, <1>5, Counts DEF Stream
  <2>2. r \in StreamsOn(k)'
    <3>1. r \in KnownOn(k)
      BY <1>0, <2>1, NoKeyIs DEF KnownOn, Holders, CurrentKnown
    <3>2. QED  BY <1>1, <1>2, <2>1, <3>1 DEF StreamsOn
  <2>3. LoadType'
    BY <1>1, <2>1 DEF LoadType
  <2>4. ASSUME NEW j \in Keys
        PROVE  /\ pending'[j] <= Cardinality(KnownOn(j)')
               /\ activeStreams'[j] <= Cardinality(StreamsOn(j)')
    <3>1. pending'[j] <= Cardinality(KnownOn(j)')
      BY <1>1, <1>2, <2>1 DEF LoadBounded
    <3>2. /\ activeStreams[j] \in Nat /\ activeStreams[j] <= Cardinality(StreamsOn(j))
          /\ Cardinality(StreamsOn(j)) \in Nat /\ Cardinality(StreamsOn(j)') \in Nat
      BY <2>1, OnSubset, SubsetsFinite DEF LoadType, LoadBounded
    <3>3. activeStreams'[j] = IF j = k THEN activeStreams[j] + 1 ELSE activeStreams[j]
      BY <2>1 DEF LoadType
    <3>4. Cardinality(StreamsOn(j)) <= Cardinality(StreamsOn(j)')
      BY <1>3, OnSubset, CountAfter
    <3>5. ASSUME j = k PROVE Cardinality(StreamsOn(j)) + 1 <= Cardinality(StreamsOn(j)')
      <4>1. r \in StreamsOn(j)' /\ r \notin StreamsOn(j) /\ StreamsOn(j) \subseteq StreamsOn(j)'
        BY <1>3, <2>2, <3>5
      <4>2. QED  BY <4>1, OnSubset, CountAfter
    <3>6. QED  BY <3>1, <3>2, <3>3, <3>4, <3>5
  <2>5. QED  BY <2>3, <2>4 DEF LoadBounded
<1>6. QED  BY <1>4, <1>5

\* An outcome of a key the live instance does not know is of no count there.
LEMMA ReleaseLoad ==
  ASSUME LoadInv, NEW r \in Request, NEW o \in Outcomes, Release(r, o)
  PROVE  LoadType' /\ LoadBounded' /\ (NothingCounted => NothingCounted')
<1> USE DEF LoadInv
<1> DEFINE k == holder[r]
<1>1. /\ k \in Keys
      /\ holder' = [holder EXCEPT ![r] = NoKey]
      /\ heldSecret' = [heldSecret EXCEPT ![r] = FirstSecret]
      /\ secret' = secret /\ streaming' = streaming \ {r} /\ current' = current \ {r}
      /\ scorer' = scorer
  BY DEF Release, Leave, RequestType, confVars
<1>2. ASSUME NEW j \in Keys
      PROVE  /\ KnownOn(j) \ {r} \subseteq KnownOn(j)'
             /\ StreamsOn(j) \ {r} \subseteq StreamsOn(j)'
             /\ r \in KnownOn(j) => j = k /\ heldSecret[r] = secret[k]
             /\ r \in StreamsOn(j) => j = k /\ r \in streaming \cap current
  <2>1. \A q \in Request : q # r => holder'[q] = holder[q] /\ heldSecret'[q] = heldSecret[q]
    BY <1>1
  <2>2. KnownOn(j) \ {r} \subseteq KnownOn(j)'
    BY <1>1, <2>1 DEF KnownOn, Holders
  <2>3. StreamsOn(j) \ {r} \subseteq StreamsOn(j)'
    BY <1>1, <2>2 DEF StreamsOn
  <2>4. r \in KnownOn(j) => j = k /\ heldSecret[r] = secret[k]
    BY DEF KnownOn, Holders
  <2>5. QED  BY <2>2, <2>3, <2>4 DEF StreamsOn
<1>3. pending' = IF Known(r) /\ scorer /\ pending[k] > 0
                   THEN [pending EXCEPT ![k] = @ - 1] ELSE pending
  BY <1>1, Counts DEF Release, ReportOutcome
<1>4. activeStreams' = IF r \in streaming \cap current /\ scorer /\ activeStreams[k] > 0
                         THEN [activeStreams EXCEPT ![k] = @ - 1] ELSE activeStreams
  BY <1>1, Counts DEF Release
<1>5. Known(r) <=> present /\ heldSecret[r] = secret[k]
  BY DEF Known
<1> HIDE DEF k
<1>6. LoadType'
  BY <1>1, <1>3, <1>4 DEF LoadType
<1>7. ASSUME NEW j \in Keys
      PROVE  /\ pending'[j] = IF Known(r) /\ scorer /\ j = k /\ pending[j] > 0
                                THEN pending[j] - 1 ELSE pending[j]
             /\ activeStreams'[j] =
                  IF r \in streaming \cap current /\ scorer /\ j = k /\ activeStreams[j] > 0
                    THEN activeStreams[j] - 1 ELSE activeStreams[j]
  BY <1>1, <1>3, <1>4 DEF LoadType
<1>8. ASSUME scorer, NEW j \in Keys
      PROVE  /\ pending'[j] <= Cardinality(KnownOn(j)')
             /\ activeStreams'[j] <= Cardinality(StreamsOn(j)')
  <2>1. /\ pending[j] \in Nat /\ pending[j] <= Cardinality(KnownOn(j))
        /\ activeStreams[j] \in Nat /\ activeStreams[j] <= Cardinality(StreamsOn(j))
    BY <1>8 DEF LoadType, LoadBounded
  <2>2. /\ Cardinality(KnownOn(j)) \in Nat /\ Cardinality(KnownOn(j)') \in Nat
        /\ Cardinality(StreamsOn(j)) \in Nat /\ Cardinality(StreamsOn(j)') \in Nat
    BY OnSubset, SubsetsFinite
  <2>3. pending'[j] <= Cardinality(KnownOn(j)')
    <3>1. CASE ~present
      <4>1. pending[j] = 0
        BY <3>1 DEF NothingCounted
      <4>2. QED  BY <1>7, <2>2, <4>1
    <3>2. CASE r \in KnownOn(j) /\ present
      <4>1. Cardinality(KnownOn(j)) - 1 <= Cardinality(KnownOn(j)')
        BY <1>2, OnSubset, CountAfter
      <4>2. pending'[j] = IF pending[j] > 0 THEN pending[j] - 1 ELSE pending[j]
        BY <1>2, <1>5, <1>7, <1>8, <3>2
      <4>3. QED  BY <2>1, <2>2, <4>1, <4>2
    <3>3. CASE r \notin KnownOn(j)
      <4>1. KnownOn(j) \subseteq KnownOn(j)'
        BY <1>2, <3>3
      <4>2. Cardinality(KnownOn(j)) <= Cardinality(KnownOn(j)')
        BY <4>1, OnSubset, CountAfter
      <4>3. pending'[j] <= pending[j] /\ pending'[j] \in Nat
        BY <1>7, <2>1
      <4>4. QED  BY <2>1, <2>2, <4>2, <4>3
    <3>4. QED  BY <3>1, <3>2, <3>3
  <2>4. activeStreams'[j] <= Cardinality(StreamsOn(j)')
    <3>1. CASE r \in StreamsOn(j)
      <4>1. Cardinality(StreamsOn(j)) - 1 <= Cardinality(StreamsOn(j)')
        BY <1>2, OnSubset, CountAfter
      <4>2. activeStreams'[j] = IF activeStreams[j] > 0 THEN activeStreams[j] - 1 ELSE activeStreams[j]
        BY <1>2, <1>7, <1>8, <3>1
      <4>3. QED  BY <2>1, <2>2, <4>1, <4>2
    <3>2. CASE r \notin StreamsOn(j)
      <4>1. StreamsOn(j) \subseteq StreamsOn(j)'
        BY <1>2, <3>2
      <4>2. Cardinality(StreamsOn(j)) <= Cardinality(StreamsOn(j)')
        BY <4>1, OnSubset, CountAfter
      <4>3. activeStreams'[j] <= activeStreams[j] /\ activeStreams'[j] \in Nat
        BY <1>7, <2>1
      <4>4. QED  BY <2>1, <2>2, <4>2, <4>3
    <3>3. QED  BY <3>1, <3>2
  <2>5. QED  BY <2>3, <2>4
<1>9. NothingCounted => NothingCounted'
  BY <1>7 DEF NothingCounted
<1>10. QED  BY <1>1, <1>6, <1>8, <1>9 DEF LoadBounded

LEMMA LoadNext ==
  ASSUME LoadInv, [Next]_vars
  PROVE  LoadInv'
<1> USE DEF LoadInv
<1>1. RequestType'
  BY RequestTypeNext
<1>2. \A q \in Request : holder[q] \in Keys \cup {NoKey}
  BY DEF RequestType
<1>3. ASSUME UNCHANGED <<secret, holder, heldSecret, current>>
      PROVE  CurrentKnown'
  BY <1>3 DEF CurrentKnown
<1>4. ASSUME NEW r \in Request, Leave(r), secret' = secret
      PROVE  CurrentKnown'
  <2>1. /\ current' = current \ {r}
        /\ \A q \in Request : q # r => holder'[q] = holder[q] /\ heldSecret'[q] = heldSecret[q]
    BY <1>4 DEF Leave, RequestType
  <2>2. QED  BY <1>4, <2>1 DEF CurrentKnown, RequestType
<1>5. ASSUME UNCHANGED <<loadVars, scorer, secret, holder, heldSecret, streaming>>, current \subseteq current'
      PROVE  LoadType' /\ LoadBounded'
  <2>1. \A k \in Keys : KnownOn(k)' = KnownOn(k) /\ StreamsOn(k) \subseteq StreamsOn(k)'
    BY <1>5 DEF KnownOn, StreamsOn, Holders
  <2>2. QED  BY <1>5, <2>1, LoadSame
<1>6. ASSUME UNCHANGED <<loadVars, present, scorer, secret, holder, heldSecret, streaming, current>>
      PROVE  LoadInv'
  BY <1>1, <1>3, <1>5, <1>6 DEF NothingCounted, loadVars
<1>7. ASSUME NEW r \in Request, Arrive(r)
      PROVE  LoadInv'
  <2>1. /\ present' /\ holder[r] = NoKey
        /\ UNCHANGED <<loadVars, scorer, secret, holder, heldSecret, streaming>> /\ present' = present
        /\ current' = current \cup {r}
    BY <1>7 DEF Arrive, confVars, provVars, RequestType
  <2>2. CurrentKnown'
    BY <2>1 DEF CurrentKnown
  <2>3. QED  BY <1>1, <1>5, <2>1, <2>2 DEF NothingCounted, loadVars
<1>8. ASSUME NEW r \in Request, NEW k \in Keys, Acquire(r, k)
      PROVE  LoadInv'
  <2>1. /\ present' /\ current' = current /\ secret' = secret
        /\ \A q \in Request : /\ holder'[q] = IF q = r THEN k ELSE holder[q]
                              /\ heldSecret'[q] = IF q = r THEN secret[k] ELSE heldSecret[q]
    BY <1>8 DEF Acquire, confVars, RequestType
  <2>2. CurrentKnown'
    BY <2>1 DEF CurrentKnown, RequestType
  <2>3. scorer' = scorer /\ (~scorer => UNCHANGED loadVars)
    BY <1>8, Counts DEF Acquire, confVars, loadVars
  <2>4. QED  BY <1>1, <1>8, <2>1, <2>2, <2>3, AcquireLoad DEF NothingCounted, loadVars
<1>9. ASSUME NEW r \in Request, Refuse(r)
      PROVE  LoadInv'
  <2>1. /\ holder[r] = NoKey /\ Leave(r) /\ UNCHANGED <<present, scorer, secret, loadVars>>
    BY <1>9, NoCount DEF Refuse, provVars, confVars
  <2>2. /\ \A q \in Request : q # r => holder'[q] = holder[q] /\ heldSecret'[q] = heldSecret[q]
        /\ streaming' = streaming \ {r} /\ current' = current \ {r}
    BY <2>1 DEF Leave, RequestType
  <2>3. \A k \in Keys : KnownOn(k) \subseteq KnownOn(k)' /\ StreamsOn(k) \subseteq StreamsOn(k)'
    <3>1. ASSUME NEW k \in Keys PROVE KnownOn(k) \subseteq KnownOn(k)'
      BY <2>1, <2>2, NotKnown DEF KnownOn, Holders
    <3>2. ASSUME NEW k \in Keys PROVE StreamsOn(k) \subseteq StreamsOn(k)'
      BY <2>1, <2>2, <3>1, NotKnown DEF StreamsOn
    <3>3. QED  BY <3>1, <3>2
  <2>4. LoadType' /\ LoadBounded'
    BY <2>1, <2>3, LoadSame
  <2>5. QED  BY <1>1, <1>4, <2>1, <2>2, <2>4 DEF NothingCounted, loadVars
<1>10. ASSUME NEW r \in Request, Stream(r)
       PROVE  LoadInv'
  <2>1. LoadType' /\ LoadBounded'
    BY <1>10, StreamLoad
  <2>2. UNCHANGED <<present, scorer, secret, holder, heldSecret, current, pending>>
    BY <1>10 DEF Stream, confVars
  <2>3. holder[r] \in Keys
    BY <1>10 DEF Stream, RequestType
  <2>4. ~(present /\ scorer) => activeStreams' = activeStreams
    BY <1>10, <2>3, Counts DEF Stream
  <2>5. QED  BY <1>1, <1>3, <2>1, <2>2, <2>4 DEF NothingCounted
<1>11. ASSUME NEW r \in Request, NEW o \in Outcomes, Release(r, o)
       PROVE  LoadInv'
  <2>1. LoadType' /\ LoadBounded' /\ (NothingCounted => NothingCounted')
    BY <1>11, ReleaseLoad
  <2>2. Leave(r) /\ UNCHANGED <<present, scorer, secret>>
    BY <1>11 DEF Release, confVars
  <2>3. current' = current \ {r}
    BY <2>2 DEF Leave
  <2>4. QED  BY <1>1, <1>4, <2>1, <2>2, <2>3
<1>12. ASSUME NEW kept, NEW sc, NEW openUntil, NewInstance(kept, sc, openUntil)
       PROVE  LoadInv'
  <2>1. FreshLoad /\ current' = {}
    BY <1>12 DEF NewInstance
  <2>2. QED  BY <1>1, <2>1, LoadFresh DEF CurrentKnown
<1>13. ASSUME NEW s \in [Keys -> Secret], NEW sc \in BOOLEAN, Add(s, sc)
       PROVE  LoadInv'
  <2>1. /\ NothingCounted /\ present' /\ current' = {}
        /\ UNCHANGED loadVars
    BY <1>13 DEF Add, provVars, reqVars
  <2>2. FreshLoad
    BY <2>1 DEF NothingCounted, LoadType, loadVars, FreshLoad
  <2>3. QED  BY <1>1, <2>1, <2>2, LoadFresh DEF CurrentKnown
<1>14. ASSUME NEW k \in Keys, NEW s \in Secret, NEW result \in ValidateKey, Validated(k, s, result)
       PROVE  LoadInv'
  BY <1>6, <1>14, Counts DEF Validated, reqVars, confVars, provVars, loadVars
<1>15. CASE Tick \/ UNCHANGED vars
  BY <1>6, <1>15 DEF Tick, Scored!ProviderTick, Scored!loadVars, loadVars, vars, reqVars, confVars, provVars
<1>16. ASSUME Remove \/ \E s \in [Keys -> Secret], sc \in BOOLEAN : Rebuild(s, sc)
       PROVE  LoadInv'
  BY <1>12, <1>16 DEF Remove, Rebuild
<1>17. QED
  BY <1>7, <1>8, <1>9, <1>10, <1>11, <1>13, <1>14, <1>15, <1>16 DEF Next

LEMMA LoadInit == ASSUME Init PROVE LoadInv
<1> USE DEF Init, Scored!ProviderInit, Scored!Keys, Keys
<1>1. RequestType
  BY PenaltyInit DEF PenaltyInv
<1>2. LoadType /\ NothingCounted /\ CurrentKnown
  BY DEF LoadType, NothingCounted, CurrentKnown
<1>3. ASSUME NEW k \in Keys
      PROVE  pending[k] <= Cardinality(KnownOn(k)) /\ activeStreams[k] <= Cardinality(StreamsOn(k))
  <2>1. Cardinality(KnownOn(k)) \in Nat /\ Cardinality(StreamsOn(k)) \in Nat
    BY OnSubset, SubsetsFinite
  <2>2. QED  BY <1>2, <2>1 DEF NothingCounted
<1>4. QED  BY <1>1, <1>2, <1>3 DEF LoadInv, LoadBounded

\* No sequence of reloads costs a key capacity: a key is counted no more often
\* than requests hold its API key, and no stream of a replaced instance counts.
THEOREM ReloadNeverOvercounts == Spec => []NeverOvercounted
<1>1. Init => LoadInv
  BY LoadInit
<1>2. LoadInv /\ [Next]_vars => LoadInv'
  BY LoadNext
<1>3. LoadInv => NeverOvercounted
  BY DEF LoadInv, LoadBounded, NeverOvercounted, KnownOn, StreamsOn
<1>4. QED  BY <1>1, <1>2, <1>3, PTL DEF Spec
=============================================================================
