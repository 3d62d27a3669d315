--------------------------- MODULE KeyPoolProofs ---------------------------
(***************************************************************************)
(* Theorems about KeyPool, for every value of its constants.  The lemmas   *)
(* say what one provider method does to the provider's types; the theorems *)
(* lift them over the steps of the pool.                                   *)
(***************************************************************************)
EXTENDS KeyPool, FiniteSetTheorems, TLAPS

\* The types of the keys' own breakers, of the provider-wide breaker and of
\* the rest, in the groups in which the methods change them.
KeyTypeOK ==
  /\ keyCbUntil \in [Keys -> Nat]
  /\ keyCbBackoff \in [Keys -> Nat \ {0}]
  /\ consecutiveErrors \in [Keys -> 0..KeyCbThreshold]
  /\ recentErrors \in [Keys -> Nat]
  /\ recentRequests \in [Keys -> Nat]

CooldownTypeOK ==
  /\ cooldowns \in [Keys -> Int]
  /\ \A k \in Keys : cooldowns[k] >= -1

CbTypeOK ==
  /\ cbErrors \in [1..CbThreshold -> 0..CbWindow]
  /\ cbOpenUntil \in Nat
  /\ cbEpisode \in BOOLEAN

LEMMA SplitType ==
  ProviderTypeOK <=> /\ index \in Keys
                     /\ CooldownTypeOK
                     /\ KeyTypeOK
                     /\ pending \in [Keys -> Nat]
                     /\ activeStreams \in [Keys -> Nat]
                     /\ CbTypeOK
  BY DEF ProviderTypeOK, CooldownTypeOK, KeyTypeOK, CbTypeOK

LEMMA SplitTypePrime ==
  ProviderTypeOK' <=> /\ (index \in Keys)'
                      /\ CooldownTypeOK'
                      /\ KeyTypeOK'
                      /\ (pending \in [Keys -> Nat])'
                      /\ (activeStreams \in [Keys -> Nat])'
                      /\ CbTypeOK'
  BY DEF ProviderTypeOK, CooldownTypeOK, KeyTypeOK, CbTypeOK

LEMMA CbCheckType ==
  ASSUME CbTypeOK, CbCheck
  PROVE  CbTypeOK'
  BY ProviderAssumption
  DEF CbTypeOK, CbCheck, CbOpenUntilAfterCheck, EpisodeAfterCheck, AllKeysCircuitOpen

LEMMA CbRecordErrorType ==
  ASSUME CbTypeOK, CbRecordError
  PROVE  CbTypeOK'
<1> USE ProviderAssumption
<1>1. NoCbErrors \in [1..CbThreshold -> 0..CbWindow]
  BY DEF NoCbErrors
<1>2. CbErrorsPushed \in [1..CbThreshold -> 0..CbWindow]
  BY DEF CbErrorsPushed, CbTypeOK
<1>3. QED
  BY <1>1, <1>2 DEF CbTypeOK, CbRecordError

LEMMA CbRecordSuccessType ==
  ASSUME CbTypeOK, CbRecordSuccess
  PROVE  CbTypeOK'
  BY ProviderAssumption DEF CbTypeOK, CbRecordSuccess, NoCbErrors

LEMMA NextIndexType ==
  ASSUME NEW k \in Keys
  PROVE  (k + 1) % NKeys \in Keys
  BY ProviderAssumption DEF Keys

LEMMA AcquireKeyType ==
  ASSUME ProviderTypeOK, NEW k \in Keys, AcquireKey(k)
  PROVE  ProviderTypeOK'
<1>1. CbTypeOK'
  BY SplitType, CbCheckType DEF AcquireKey
<1>2. (index \in Keys)'
  BY SplitType, NextIndexType DEF AcquireKey
<1>3. (pending \in [Keys -> Nat])'
  BY SplitType DEF AcquireKey
<1>4. CooldownTypeOK' /\ KeyTypeOK' /\ (activeStreams \in [Keys -> Nat])'
  BY SplitType DEF AcquireKey, keyVars, CooldownTypeOK, KeyTypeOK
<1>5. QED
  BY <1>1, <1>2, <1>3, <1>4, SplitTypePrime

LEMMA RecordOtherErrorType ==
  ASSUME KeyTypeOK, NEW k \in Keys, RecordOtherError(k)
  PROVE  KeyTypeOK'
<1> USE ProviderAssumption
<1>1. consecutiveErrors' \in [Keys -> 0..KeyCbThreshold]
  BY DEF KeyTypeOK, RecordOtherError, Lesser
<1>2. CASE ShouldTrip(k)
  <2>1. KeyCbCooldown * keyCbBackoff[k] \in Nat
    BY DEF KeyTypeOK
  <2>2. Lesser(2 * keyCbBackoff[k], CbMaxBackoff) \in Nat \ {0}
    BY DEF KeyTypeOK, Lesser
  <2>3. QED
    BY <1>1, <1>2, <2>1, <2>2 DEF KeyTypeOK, RecordOtherError
<1>3. CASE ~ShouldTrip(k)
  BY <1>1, <1>3 DEF KeyTypeOK, RecordOtherError
<1>4. QED
  BY <1>2, <1>3

LEMMA RecordOutcomeType ==
  ASSUME KeyTypeOK, NEW k \in Keys, NEW o \in Outcomes, RecordOutcome(k, o)
  PROVE  KeyTypeOK'
<1> USE ProviderAssumption
<1>1. CASE UNCHANGED keyVars
  BY <1>1 DEF KeyTypeOK, keyVars
<1>2. CASE RecordSuccess(k)
  BY <1>2 DEF KeyTypeOK, RecordSuccess
<1>3. CASE RecordAuthError(k)
  BY <1>3 DEF KeyTypeOK, RecordAuthError
<1>4. CASE RecordOtherError(k)
  BY <1>4, RecordOtherErrorType
<1>5. o.kind \in {"ok", "auth", "error", "429"}
  BY DEF Outcomes, Succeeded, Failed, AuthFailed, RateLimited
<1>6. QED
  BY <1>1, <1>2, <1>3, <1>4, <1>5 DEF RecordOutcome

LEMMA ReleaseKeyType ==
  ASSUME ProviderTypeOK, NEW k \in Keys, NEW o \in Outcomes, ReleaseKey(k, o),
         activeStreams' \in [Keys -> Nat]
  PROVE  ProviderTypeOK'
<1>1. CbTypeOK'
  BY SplitType, CbRecordErrorType, CbRecordSuccessType DEF ReleaseKey
<1>2. KeyTypeOK'
  BY SplitType, RecordOutcomeType DEF ReleaseKey
<1>3. (pending \in [Keys -> Nat])'
  BY SplitType DEF ReleaseKey, DecrementPending
<1>4. o.cool \in Nat
  BY ProviderAssumption
  DEF Outcomes, Succeeded, Failed, AuthFailed, RateLimited, CooldownFor429
<1>5. CooldownTypeOK'
  BY SplitType, <1>4 DEF ReleaseKey, CooldownTypeOK
<1>6. (index \in Keys)'
  BY SplitType DEF ReleaseKey
<1>7. QED
  BY <1>1, <1>2, <1>3, <1>5, <1>6, SplitTypePrime

LEMMA MarkKeyInvalidType ==
  ASSUME ProviderTypeOK, NEW k \in Keys, MarkKeyInvalid(k)
  PROVE  ProviderTypeOK'
<1>1. KeyTypeOK' /\ CooldownTypeOK'
  BY SplitType, ProviderAssumption
  DEF MarkKeyInvalid, KeyTypeOK, CooldownTypeOK, keyVars
<1>2. (index \in Keys)' /\ (pending \in [Keys -> Nat])'
      /\ (activeStreams \in [Keys -> Nat])' /\ CbTypeOK'
  BY SplitType DEF MarkKeyInvalid, loadVars, cbVars, CbTypeOK
<1>3. QED
  BY <1>1, <1>2, SplitTypePrime

LEMMA CbCheckOnlyType ==
  ASSUME ProviderTypeOK, CbCheck, UNCHANGED <<index, cooldowns, keyVars, loadVars>>
  PROVE  ProviderTypeOK'
<1>1. CbTypeOK'
  BY SplitType, CbCheckType
<1>2. QED
  BY <1>1 DEF ProviderTypeOK, CbTypeOK, keyVars, loadVars

LEMMA ProviderTickType ==
  ASSUME ProviderTypeOK, ProviderTick
  PROVE  ProviderTypeOK'
<1>1. CooldownTypeOK'
  BY SplitType DEF ProviderTick, CooldownTypeOK, Greater
<1>2. KeyTypeOK'
  <2>1. KeyTypeOK
    BY SplitType
  <2>2. keyCbUntil' \in [Keys -> Nat]
    <3>1. \A k \in Keys : Greater(keyCbUntil[k] - 1, 0) \in Nat
      BY <2>1 DEF KeyTypeOK, Greater
    <3>2. QED  BY <3>1 DEF ProviderTick
  <2>3. QED  BY <2>1, <2>2 DEF ProviderTick, KeyTypeOK
<1>3. CbTypeOK'
  BY SplitType, ProviderAssumption DEF ProviderTick, CbTypeOK, Greater, Lesser
<1>4. QED
  BY <1>1, <1>2, <1>3, SplitType, SplitTypePrime DEF ProviderTick, loadVars

LEMMA StreamCountType ==
  ASSUME activeStreams \in [Keys -> Nat], NEW k \in Keys
  PROVE  /\ StreamsStarted(k) \in [Keys -> Nat]
         /\ StreamsEnded(k) \in [Keys -> Nat]
  BY DEF StreamsStarted, StreamsEnded

LEMMA ProviderInitType == ASSUME ProviderInit PROVE ProviderTypeOK
<1> USE ProviderAssumption
<1>1. index \in Keys
  BY DEF ProviderInit, Keys
<1>2. CooldownTypeOK
  BY DEF ProviderInit, CooldownTypeOK
<1>3. KeyTypeOK
  BY DEF ProviderInit, KeyTypeOK
<1>4. CbTypeOK
  <2>1. cbErrors \in [1..CbThreshold -> 0..CbWindow]
    BY DEF ProviderInit
  <2>2. cbOpenUntil \in Nat
    BY DEF ProviderInit
  <2>3. cbEpisode \in BOOLEAN
    BY Zenon DEF ProviderInit
  <2>4. QED
    BY <2>1, <2>2, <2>3 DEF CbTypeOK
<1>5. pending \in [Keys -> Nat] /\ activeStreams \in [Keys -> Nat]
  BY DEF ProviderInit
<1>6. QED
  BY <1>1, <1>2, <1>3, <1>4, <1>5, SplitType

LEMMA InitType == ASSUME Init PROVE TypeOK
  BY ProviderInitType, KeyPoolAssumption DEF Init, TypeOK

\* Every step of the pool keeps the types.
LEMMA NextType ==
  ASSUME TypeOK, [Next]_vars
  PROVE  TypeOK'
<1> USE DEF TypeOK, sweepVars
<1>1. ASSUME NEW r \in Request, NEW k \in Keys, Acquire(r, k)
      PROVE  TypeOK'
  BY <1>1, AcquireKeyType DEF Acquire
<1>2. ASSUME NEW r \in Request, Refuse(r)
      PROVE  TypeOK'
  BY <1>2, CbCheckOnlyType DEF Refuse, AcquireNone
<1>3. ASSUME NEW r \in Request, Stream(r)
      PROVE  TypeOK'
  <2>1. holder[r] \in Keys
    BY <1>3 DEF Stream
  <2>2. activeStreams' \in [Keys -> Nat]
    BY <1>3, <2>1, StreamCountType DEF Stream, ProviderTypeOK
  <2>3. QED
    BY <1>3, <2>2 DEF Stream, ProviderTypeOK, keyVars, cbVars
<1>4. ASSUME NEW r \in Request, NEW o \in Outcomes, Release(r, o)
      PROVE  TypeOK'
  <2>1. holder[r] \in Keys
    BY <1>4 DEF Release
  <2>2. activeStreams' \in [Keys -> Nat]
    BY <1>4, <2>1, StreamCountType DEF Release, ProviderTypeOK
  <2>3. ProviderTypeOK'
    BY <1>4, <2>1, <2>2, ReleaseKeyType DEF Release
  <2>4. QED
    BY <1>4, <2>3 DEF Release
<1>5. ASSUME NEW k \in Keys, NEW invalid \in BOOLEAN, Validated(k, invalid)
      PROVE  TypeOK'
  <2>1. ProviderTypeOK'
    <3>1. CASE invalid
      BY <1>5, <3>1, MarkKeyInvalidType DEF Validated
    <3>2. CASE ~invalid
      BY <1>5, <3>2 DEF Validated, ProviderTypeOK, provVars, keyVars, loadVars, cbVars
    <3>3. QED
      BY <3>1, <3>2
  <2>2. QED
    BY <1>5, <2>1 DEF Validated
<1>6. CASE Health
  BY <1>6, CbCheckOnlyType DEF Health, HealthCheck
<1>7. CASE Tick
  BY <1>7, ProviderTickType DEF Tick
<1>8. CASE UNCHANGED vars
  BY <1>8 DEF vars, provVars, keyVars, loadVars, cbVars, ProviderTypeOK
<1>9. QED
  BY <1>1, <1>2, <1>3, <1>4, <1>5, <1>6, <1>7, <1>8 DEF Next

\* Every state of the pool is well typed: indexes, counters, timers and the
\* holders stay in range whatever the requests, outcomes and checks do.
THEOREM TypeCorrect == Spec => []TypeOK
<1>1. Init => TypeOK
  BY InitType
<1>2. TypeOK /\ [Next]_vars => TypeOK'
  BY NextType
<1>3. QED
  BY <1>1, <1>2, PTL DEF Spec

-----------------------------------------------------------------------------
(***************************************************************************)
(* The in-flight counters.  LoadMatches is not inductive alone: a request  *)
(* that takes a key must not be a streaming one already.                   *)
(***************************************************************************)
StreamersHold == \A r \in streaming : holder[r] # NoKey

LoadInv == TypeOK /\ LoadMatches /\ StreamersHold

Streamers(k) == Holders(k) \cap streaming

LEMMA HoldersFinite ==
  ASSUME NEW k
  PROVE  /\ IsFiniteSet(Holders(k))
         /\ IsFiniteSet(Streamers(k))
         /\ Cardinality(Holders(k)) \in Nat
         /\ Cardinality(Streamers(k)) \in Nat
<1>1. Holders(k) \subseteq Request /\ Streamers(k) \subseteq Request
  BY DEF Holders, Streamers
<1>2. QED
  BY <1>1, KeyPoolAssumption, FS_Subset, FS_CardinalityType

\* NoKey is no key, so a request without a key is nobody's holder.
LEMMA NoKeyNotKey == NoKey \notin Keys
  BY DEF NoKey, Keys

\* Handing k to r adds r to the holders of k and touches no other key.
LEMMA HoldersAfterAcquire ==
  ASSUME TypeOK, StreamersHold, NEW r \in Request, NEW k \in Keys,
         holder[r] = NoKey, holder' = [holder EXCEPT ![r] = k],
         UNCHANGED streaming, NEW j \in Keys
  PROVE  /\ Cardinality(Holders(j))' = Cardinality(Holders(j)) + (IF j = k THEN 1 ELSE 0)
         /\ Cardinality(Streamers(j))' = Cardinality(Streamers(j))
<1>1. r \notin streaming
  BY DEF StreamersHold
<1>2. Streamers(j)' = Streamers(j)
  BY <1>1 DEF Streamers, Holders, TypeOK
<1>3. CASE j = k
  <2>1. Holders(j)' = Holders(j) \cup {r}
    BY <1>3 DEF Holders, TypeOK
  <2>2. r \notin Holders(j)
    BY NoKeyNotKey DEF Holders
  <2>3. Cardinality(Holders(j) \cup {r}) = Cardinality(Holders(j)) + 1
    BY <2>2, HoldersFinite, FS_AddElement
  <2>4. QED
    BY <1>2, <1>3, <2>1, <2>3
<1>4. CASE j # k
  <2>1. Holders(j)' = Holders(j)
    BY <1>4, NoKeyNotKey DEF Holders, TypeOK
  <2>2. QED
    BY <1>2, <1>4, <2>1, HoldersFinite
<1>5. QED
  BY <1>3, <1>4

\* Giving back its key removes r from that key's holders and streamers.
LEMMA HoldersAfterRelease ==
  ASSUME TypeOK, NEW r \in Request, holder[r] # NoKey,
         holder' = [holder EXCEPT ![r] = NoKey],
         streaming' = streaming \ {r}, NEW j \in Keys
  PROVE  /\ Cardinality(Holders(j))' =
              Cardinality(Holders(j)) - (IF j = holder[r] THEN 1 ELSE 0)
         /\ Cardinality(Streamers(j))' =
              Cardinality(Streamers(j))
                - (IF j = holder[r] /\ r \in streaming THEN 1 ELSE 0)
         /\ j = holder[r] => Cardinality(Holders(j)) > 0
         /\ j = holder[r] /\ r \in streaming => Cardinality(Streamers(j)) > 0
<1>1. CASE j = holder[r]
  <2>1. r \in Holders(j) /\ Holders(j)' = Holders(j) \ {r}
    BY <1>1, NoKeyNotKey DEF Holders, TypeOK
  <2>2. Cardinality(Holders(j) \ {r}) = Cardinality(Holders(j)) - 1
    BY <2>1, HoldersFinite, FS_RemoveElement
  <2>3. Cardinality(Holders(j)) > 0
    BY <2>1, HoldersFinite, FS_EmptySet
  <2>4. Streamers(j)' = Streamers(j) \ {r}
    BY <2>1 DEF Streamers
  <2>5. CASE r \in streaming
    <3>1. r \in Streamers(j)
      BY <2>1, <2>5 DEF Streamers
    <3>2. Cardinality(Streamers(j) \ {r}) = Cardinality(Streamers(j)) - 1
      BY <3>1, HoldersFinite, FS_RemoveElement
    <3>3. Cardinality(Streamers(j)) > 0
      BY <3>1, HoldersFinite, FS_EmptySet
    <3>4. QED
      BY <1>1, <2>1, <2>2, <2>3, <2>4, <2>5, <3>2, <3>3
  <2>6. CASE r \notin streaming
    <3>1. Streamers(j)' = Streamers(j)
      BY <2>4, <2>6 DEF Streamers
    <3>2. QED
      BY <1>1, <2>1, <2>2, <2>3, <2>6, <3>1, HoldersFinite
  <2>7. QED
    BY <2>5, <2>6
<1>2. CASE j # holder[r]
  <2>1. Holders(j)' = Holders(j) /\ Streamers(j)' = Streamers(j)
    BY <1>2, NoKeyNotKey DEF Holders, Streamers, TypeOK
  <2>2. QED
    BY <1>2, <2>1, HoldersFinite
<1>3. QED
  BY <1>1, <1>2

LEMMA LoadMatchesIs ==
  LoadMatches <=> (HasScorer => \A k \in Keys :
                                  /\ pending[k] = Cardinality(Holders(k))
                                  /\ activeStreams[k] = Cardinality(Streamers(k)))
  BY DEF LoadMatches, Streamers

\* Steps that leave holders, streams and counters alone.
LEMMA LoadUnchanged ==
  ASSUME LoadMatches, StreamersHold, UNCHANGED <<holder, streaming, loadVars>>
  PROVE  LoadMatches' /\ StreamersHold'
  BY DEF LoadMatches, StreamersHold, Holders, loadVars

LEMMA LoadInit == ASSUME Init PROVE LoadMatches /\ StreamersHold
<1>1. StreamersHold
  BY DEF Init, StreamersHold
<1>2. \A k \in Keys : Holders(k) = {} /\ Streamers(k) = {}
  BY NoKeyNotKey DEF Init, Holders, Streamers
<1>3. \A k \in Keys : pending[k] = 0 /\ activeStreams[k] = 0
  BY DEF Init, ProviderInit
<1>4. \A k \in Keys : /\ pending[k] = Cardinality(Holders(k))
                       /\ activeStreams[k] = Cardinality(Streamers(k))
  BY <1>2, <1>3, FS_EmptySet
<1>5. QED
  BY <1>1, <1>4, LoadMatchesIs

LEMMA LoadNext ==
  ASSUME LoadInv, [Next]_vars
  PROVE  LoadMatches' /\ StreamersHold'
<1> USE DEF LoadInv
<1>1. ASSUME NEW r \in Request, NEW k \in Keys, Acquire(r, k)
      PROVE  LoadMatches' /\ StreamersHold'
  <2>1. StreamersHold'
    BY <1>1, NoKeyNotKey DEF Acquire, StreamersHold, TypeOK
  <2>2. ASSUME HasScorer, NEW j \in Keys
        PROVE  /\ pending'[j] = Cardinality(Holders(j))'
               /\ activeStreams'[j] = Cardinality(Streamers(j))'
    <3>1. /\ Cardinality(Holders(j))' = Cardinality(Holders(j)) + (IF j = k THEN 1 ELSE 0)
          /\ Cardinality(Streamers(j))' = Cardinality(Streamers(j))
      BY <1>1, HoldersAfterAcquire DEF Acquire
    <3>2. /\ pending' = [pending EXCEPT ![k] = @ + 1]
          /\ activeStreams' = activeStreams
      BY <1>1, <2>2, Zenon DEF Acquire, AcquireKey
    <3>3. pending \in [Keys -> Nat]
      BY DEF TypeOK, ProviderTypeOK
    <3>4. pending'[j] = pending[j] + (IF j = k THEN 1 ELSE 0)
      BY <3>2, <3>3
    <3>5. pending[j] = Cardinality(Holders(j)) /\ activeStreams[j] = Cardinality(Streamers(j))
      BY <2>2, LoadMatchesIs
    <3>6. QED
      BY <3>1, <3>2, <3>4, <3>5
  <2>3. QED
    BY <2>1, <2>2 DEF LoadMatches, Streamers
<1>2. ASSUME NEW r \in Request, Refuse(r)
      PROVE  LoadMatches' /\ StreamersHold'
  BY <1>2, LoadUnchanged DEF Refuse, AcquireNone
<1>3. ASSUME NEW r \in Request, Stream(r)
      PROVE  LoadMatches' /\ StreamersHold'
  <2>1. StreamersHold'
    BY <1>3 DEF Stream, StreamersHold
  <2>2. ASSUME HasScorer, NEW j \in Keys
        PROVE  /\ pending'[j] = Cardinality(Holders(j))'
               /\ activeStreams'[j] = Cardinality(Streamers(j))'
    <3>1. Holders(j)' = Holders(j) /\ pending' = pending
      BY <1>3 DEF Stream, Holders
    <3>2. CASE j = holder[r]
      <4>1. r \notin Streamers(j) /\ Streamers(j)' = Streamers(j) \cup {r}
        BY <1>3, <3>2 DEF Stream, Streamers, Holders
      <4>2. Cardinality(Streamers(j) \cup {r}) = Cardinality(Streamers(j)) + 1
        BY <4>1, HoldersFinite, FS_AddElement
      <4>3. activeStreams'[j] = activeStreams[j] + 1
        BY <1>3, <2>2, <3>2 DEF Stream, StreamsStarted, TypeOK, ProviderTypeOK
      <4>4. QED
        BY <2>2, <3>1, <4>1, <4>2, <4>3, LoadMatchesIs
    <3>3. CASE j # holder[r]
      <4>1. Streamers(j)' = Streamers(j)
        BY <1>3, <3>3 DEF Stream, Streamers, Holders
      <4>2. activeStreams'[j] = activeStreams[j]
        BY <1>3, <3>3 DEF Stream, StreamsStarted, TypeOK, ProviderTypeOK
      <4>3. QED
        BY <2>2, <3>1, <4>1, <4>2, LoadMatchesIs
    <3>4. QED
      BY <3>2, <3>3
  <2>3. QED
    BY <2>1, <2>2 DEF LoadMatches, Streamers
<1>4. ASSUME NEW r \in Request, NEW o \in Outcomes, Release(r, o)
      PROVE  LoadMatches' /\ StreamersHold'
  <2>1. StreamersHold'
    BY <1>4 DEF Release, StreamersHold, TypeOK
  <2>2. ASSUME HasScorer, NEW j \in Keys
        PROVE  /\ pending'[j] = Cardinality(Holders(j))'
               /\ activeStreams'[j] = Cardinality(Streamers(j))'
    <3>1. /\ Cardinality(Holders(j))' =
               Cardinality(Holders(j)) - (IF j = holder[r] THEN 1 ELSE 0)
          /\ Cardinality(Streamers(j))' =
               Cardinality(Streamers(j))
                 - (IF j = holder[r] /\ r \in streaming THEN 1 ELSE 0)
          /\ j = holder[r] => Cardinality(Holders(j)) > 0
          /\ j = holder[r] /\ r \in streaming => Cardinality(Streamers(j)) > 0
      BY <1>4, HoldersAfterRelease DEF Release
    <3>2. pending[j] = Cardinality(Holders(j)) /\ activeStreams[j] = Cardinality(Streamers(j))
      BY <2>2, LoadMatchesIs
    <3>3. /\ pending \in [Keys -> Nat]
          /\ activeStreams \in [Keys -> Nat]
          /\ holder[r] \in Keys
      BY <1>4 DEF Release, TypeOK, ProviderTypeOK
    <3>4. pending'[j] = pending[j] - (IF j = holder[r] THEN 1 ELSE 0)
      <4>1. pending' = IF pending[holder[r]] > 0
                         THEN [pending EXCEPT ![holder[r]] = @ - 1] ELSE pending
        BY <1>4, <2>2 DEF Release, ReleaseKey, DecrementPending
      <4>2. QED
        BY <3>1, <3>2, <3>3, <4>1
    <3>5. activeStreams'[j] =
            activeStreams[j] - (IF j = holder[r] /\ r \in streaming THEN 1 ELSE 0)
      <4>1. activeStreams' = IF r \in streaming /\ activeStreams[holder[r]] > 0
                               THEN [activeStreams EXCEPT ![holder[r]] = @ - 1]
                               ELSE activeStreams
        BY <1>4, <2>2 DEF Release, StreamsEnded
      <4>2. QED
        BY <3>1, <3>2, <3>3, <4>1
    <3>6. QED
      BY <3>1, <3>2, <3>4, <3>5
  <2>3. QED
    BY <2>1, <2>2 DEF LoadMatches, Streamers
<1>5. ASSUME NEW k \in Keys, NEW invalid \in BOOLEAN, Validated(k, invalid)
      PROVE  LoadMatches' /\ StreamersHold'
  BY <1>5, LoadUnchanged DEF Validated, MarkKeyInvalid, provVars
<1>6. CASE Health
  BY <1>6, LoadUnchanged DEF Health, HealthCheck
<1>7. CASE Tick
  BY <1>7, LoadUnchanged DEF Tick, ProviderTick
<1>8. CASE UNCHANGED vars
  BY <1>8, LoadUnchanged DEF vars, provVars
<1>9. QED
  BY <1>1, <1>2, <1>3, <1>4, <1>5, <1>6, <1>7, <1>8 DEF Next

\* pending and activeStreams always equal the requests in flight and the open
\* streams on a key: selectKey's comparison with max_concurrent is exact.
THEOREM LoadCorrect == Spec => []LoadMatches
<1>1. Init => LoadInv
  BY InitType, LoadInit DEF LoadInv
<1>2. LoadInv /\ [Next]_vars => LoadInv'
  BY NextType, LoadNext DEF LoadInv
<1>3. LoadInv => LoadMatches
  BY DEF LoadInv
<1>4. QED
  BY <1>1, <1>2, <1>3, PTL DEF Spec

-----------------------------------------------------------------------------
(***************************************************************************)
(* The pool implements the lease.  selectKey never sees the holders: it    *)
(* compares its own counters with max_concurrent, so the step from Acquire *)
(* to Lease!Acquire needs LoadMatches.                                     *)
(***************************************************************************)
LEMMA AcquireBelowCap ==
  ASSUME LoadInv, NEW k \in Keys, AcquireKey(k), MaxConcurrent > 0
  PROVE  Cardinality(Holders(k)) < MaxConcurrent
<1>1. HasScorer
  BY ProviderAssumption
<1>2. InFlight(k) < MaxConcurrent
  BY <1>1 DEF AcquireKey, CanTake, Selectable
<1>3. pending[k] = Cardinality(Holders(k)) /\ activeStreams[k] \in Nat
  BY <1>1, LoadMatchesIs DEF LoadInv, TypeOK, ProviderTypeOK
<1>4. QED
  BY <1>2, <1>3, HoldersFinite, ProviderAssumption DEF InFlight

\* Nobody is overlooked on a key that is given back: somebody held it.
LEMMA NoSurplus ==
  ASSUME TypeOK, NEW r \in Request, holder[r] # NoKey
  PROVE  LET remaining == Lease!Cardinality(Lease!Holders(holder[r])) - 1
             none == [k \in Keys |-> 0]
         IN  none = [none EXCEPT ![holder[r]] =
                       IF @ + 0 <= remaining THEN @ + 0 ELSE remaining]
<1>1. Lease!Holders(holder[r]) = Holders(holder[r])
  BY DEF Lease!Holders, Holders
<1>2. Lease!Cardinality(Holders(holder[r])) = Cardinality(Holders(holder[r]))
  BY Zenon DEF Lease!Cardinality, Lease!IsFiniteSet, Cardinality, IsFiniteSet
<1>3. Cardinality(Holders(holder[r])) \in Nat /\ Cardinality(Holders(holder[r])) # 0
  <2>1. r \in Holders(holder[r])
    BY DEF Holders
  <2>2. QED
    BY <2>1, HoldersFinite, FS_EmptySet
<1>4. QED
  BY <1>1, <1>2, <1>3

LEMMA LeaseStep ==
  ASSUME LoadInv, [Next]_vars
  PROVE  [Lease!Next]_(Lease!vars)
<1>1. ASSUME NEW r \in Request, NEW k \in Keys, Acquire(r, k)
      PROVE  Lease!Acquire(r, k)
  <2>1. Lease!Holders(k) = Holders(k)
    BY DEF Lease!Holders, Holders
  <2>2. MaxConcurrent > 0 => Cardinality(Holders(k)) < MaxConcurrent + 0
    BY <1>1, AcquireBelowCap, ProviderAssumption DEF Acquire
  <2>3. Lease!Cardinality(Holders(k)) = Cardinality(Holders(k))
    BY Zenon DEF Lease!Cardinality, Lease!IsFiniteSet, Cardinality, IsFiniteSet
  <2>4. QED
    BY <1>1, <2>1, <2>2, <2>3 DEF Acquire, Lease!Acquire
<1>2. ASSUME NEW r \in Request, NEW o \in Outcomes, Release(r, o)
      PROVE  Lease!Release(r, 0)
  <2>1. holder[r] # NoKey /\ holder' = [holder EXCEPT ![r] = NoKey]
    BY <1>2 DEF Release
  <2>2. QED
    BY <2>1, NoSurplus DEF Lease!Release, LoadInv
<1>3. CASE \/ \E r \in Request : Refuse(r) \/ Stream(r)
           \/ \E k \in Keys, invalid \in BOOLEAN : Validated(k, invalid)
           \/ Health \/ Tick \/ UNCHANGED vars
  BY <1>3 DEF Refuse, Stream, Validated, Health, Tick, vars, Lease!vars
<1>4. 0 \in 0..0
  OBVIOUS
<1>5. QED
  BY <1>1, <1>2, <1>3, <1>4 DEF Next, Lease!Next

\* No request holds two keys and no key is held by more than max_concurrent
\* requests, with any number of keys and requests.
THEOREM LeaseImplemented == Spec => LeaseSpec
<1>1. Init => LoadInv
  BY InitType, LoadInit DEF LoadInv
<1>2. LoadInv /\ [Next]_vars => LoadInv'
  BY NextType, LoadNext DEF LoadInv
<1>3. Init => Lease!Init
  BY DEF Init, Lease!Init
<1>4. LoadInv /\ [Next]_vars => [Lease!Next]_(Lease!vars)
  BY LeaseStep
<1>5. QED
  BY <1>1, <1>2, <1>3, <1>4, PTL DEF Spec, LeaseSpec, Lease!Spec

-----------------------------------------------------------------------------
(***************************************************************************)
(* The provider-wide breaker.                                              *)
(***************************************************************************)
HandsOutNothing == \A r \in Request : holder[r] = NoKey => holder'[r] = NoKey

LEMMA TrippedStep ==
  ASSUME TypeOK, [Next]_vars, CbThreshold > 0, cbOpenUntil > 0
  PROVE  cbOpenUntil' >= cbOpenUntil - 1 /\ HandsOutNothing
<1> USE DEF HandsOutNothing
<1>1. cbOpenUntil \in Nat
  BY DEF TypeOK, ProviderTypeOK
<1>2. CbTripped /\ CbIsOpen /\ CbOpenUntilAfterCheck = cbOpenUntil /\ ~CbErrorTrips
  BY <1>1 DEF CbTripped, CbIsOpen, CbOpenUntilAfterCheck, CbErrorTrips
<1>3. ASSUME NEW r \in Request, NEW k \in Keys
      PROVE  ~Acquire(r, k)
  BY <1>2 DEF Acquire, AcquireKey
<1>4. ASSUME NEW r \in Request, NEW o \in Outcomes, Release(r, o)
      PROVE  cbOpenUntil' = cbOpenUntil /\ HandsOutNothing
  <2>1. cbOpenUntil' = cbOpenUntil
    BY <1>2, <1>4 DEF Release, ReleaseKey, CbRecordError, CbRecordSuccess
  <2>2. HandsOutNothing
    BY <1>4 DEF Release, TypeOK
  <2>3. QED
    BY <2>1, <2>2
<1>5. ASSUME \/ \E r \in Request : Refuse(r) \/ Stream(r)
             \/ \E k \in Keys, invalid \in BOOLEAN : Validated(k, invalid)
             \/ Health \/ UNCHANGED vars
      PROVE  cbOpenUntil' = cbOpenUntil /\ HandsOutNothing
  BY <1>2, <1>5
  DEF Refuse, AcquireNone, CbCheck, Stream, Validated, MarkKeyInvalid, Health,
      HealthCheck, vars, provVars, cbVars
<1>6. CASE Tick
  BY <1>1, <1>6 DEF Tick, ProviderTick, Greater
<1>7. QED
  BY <1>1, <1>3, <1>4, <1>5, <1>6 DEF Next

\* Only the clock closes a tripped provider-wide breaker, one tick at a time,
\* and no key is handed out before it has.
THEOREM GlobalBreakerCorrect == Spec => GlobalBreakerHolds
<1>1. Init => TypeOK
  BY InitType
<1>2. TypeOK /\ [Next]_vars => TypeOK'
  BY NextType
<1>3. TypeOK /\ [Next]_vars =>
        [CbThreshold > 0 /\ cbOpenUntil > 0 =>
           /\ cbOpenUntil' >= cbOpenUntil - 1
           /\ \A r \in Request : holder[r] = NoKey => holder'[r] = NoKey]_vars
  BY TrippedStep DEF HandsOutNothing
<1>4. QED
  BY <1>1, <1>2, <1>3, PTL DEF Spec, GlobalBreakerHolds

-----------------------------------------------------------------------------
(***************************************************************************)
(* The breaker periods of the keys that validation has not refused.        *)
(***************************************************************************)
PeriodInv == TypeOK /\ BreakerPeriodBounded

LongestPeriod == Greater(HardBreak, KeyCbCooldown * CbMaxBackoff)

\* The two bounds for one key.
Within(k) == keyCbBackoff[k] <= CbMaxBackoff /\ keyCbUntil[k] <= LongestPeriod

LEMMA TimesMonotone ==
  ASSUME NEW a \in Nat, NEW b \in Nat, NEW c \in Nat, b <= c
  PROVE  a * b <= a * c /\ a * b \in Nat
  OBVIOUS

LEMMA PeriodOK == BreakerPeriodBounded <=> \A k \in Keys \ refused : Within(k)
  BY DEF BreakerPeriodBounded, Within, LongestPeriod

LEMMA LongestPeriodFacts ==
  /\ LongestPeriod \in Nat
  /\ HardBreak <= LongestPeriod
  /\ \A b \in Nat : b <= CbMaxBackoff => KeyCbCooldown * b <= LongestPeriod
<1>1. KeyCbCooldown \in Nat /\ CbMaxBackoff \in Nat /\ HardBreak \in Nat
  BY ProviderAssumption
<1>2. KeyCbCooldown * CbMaxBackoff \in Nat
  BY <1>1, TimesMonotone
<1>3. KeyCbCooldown * CbMaxBackoff <= LongestPeriod /\ HardBreak <= LongestPeriod
      /\ LongestPeriod \in Nat
  BY <1>1, <1>2 DEF LongestPeriod, Greater
<1>4. ASSUME NEW b \in Nat, b <= CbMaxBackoff
      PROVE  KeyCbCooldown * b <= LongestPeriod
  <2>1. KeyCbCooldown * b <= KeyCbCooldown * CbMaxBackoff /\ KeyCbCooldown * b \in Nat
    BY <1>1, <1>4, TimesMonotone
  <2>2. QED
    BY <1>2, <1>3, <2>1
<1>5. QED
  BY <1>3, <1>4

\* What an outcome does to one key: nothing, or a period within the bounds if
\* the key was within them.
LEMMA OutcomePeriod ==
  ASSUME TypeOK, NEW k \in Keys, NEW o \in Outcomes, RecordOutcome(k, o),
         NEW j \in Keys, Within(j)
  PROVE  Within(j)'
<1> USE DEF Within, LongestPeriod
<1>1. /\ keyCbUntil \in [Keys -> Nat]
      /\ keyCbBackoff \in [Keys -> Nat \ {0}]
      /\ CbMaxBackoff \in Nat \ {0}
  BY ProviderAssumption DEF TypeOK, ProviderTypeOK
<1>2. HardBreak <= LongestPeriod
      /\ \A b \in Nat : b <= CbMaxBackoff => KeyCbCooldown * b <= LongestPeriod
  BY LongestPeriodFacts
<1> HIDE DEF LongestPeriod
<1>3. LongestPeriod' = LongestPeriod
  BY DEF LongestPeriod, Greater
<1>4. CASE UNCHANGED keyVars
  BY <1>3, <1>4 DEF keyVars
<1>5. CASE RecordSuccess(k)
  BY <1>1, <1>3, <1>5 DEF RecordSuccess
<1>6. CASE RecordAuthError(k)
  BY <1>1, <1>2, <1>3, <1>6 DEF RecordAuthError
<1>7. CASE RecordOtherError(k) /\ ShouldTrip(k)
  <2>1. /\ keyCbUntil' = [keyCbUntil EXCEPT ![k] = KeyCbCooldown * keyCbBackoff[k]]
        /\ keyCbBackoff' = [keyCbBackoff EXCEPT ![k] = Lesser(2 * @, CbMaxBackoff)]
    BY <1>7 DEF RecordOtherError
  <2>2. j = k => KeyCbCooldown * keyCbBackoff[k] <= LongestPeriod
    BY <1>1, <1>2
  <2>3. Lesser(2 * keyCbBackoff[k], CbMaxBackoff) <= CbMaxBackoff
    BY <1>1 DEF Lesser
  <2>4. QED
    BY <1>1, <1>3, <2>1, <2>2, <2>3
<1>8. CASE RecordOtherError(k) /\ ~ShouldTrip(k)
  BY <1>3, <1>8 DEF RecordOtherError
<1>9. QED
  BY <1>4, <1>5, <1>6, <1>7, <1>8 DEF RecordOutcome

LEMMA PeriodNext ==
  ASSUME PeriodInv, [Next]_vars
  PROVE  BreakerPeriodBounded'
<1>1. /\ keyCbUntil \in [Keys -> Nat]
      /\ keyCbBackoff \in [Keys -> Nat \ {0}]
  BY DEF PeriodInv, TypeOK, ProviderTypeOK
<1>2. /\ LongestPeriod \in Nat
      /\ LongestPeriod' = LongestPeriod
  BY LongestPeriodFacts DEF LongestPeriod, Greater
<1>3. SUFFICES ASSUME NEW j \in Keys, j \notin refused'
               PROVE  Within(j)'
  BY DEF BreakerPeriodBounded, Within, LongestPeriod
<1>4. refused \subseteq refused'
  BY DEF Next, Acquire, Refuse, Stream, Release, Validated, Health, Tick, vars, sweepVars
<1>5. Within(j)
  BY <1>3, <1>4, PeriodOK DEF PeriodInv
<1>6. ASSUME UNCHANGED keyVars
      PROVE  Within(j)'
  BY <1>2, <1>5, <1>6 DEF Within, keyVars
<1>7. ASSUME NEW r \in Request, NEW o \in Outcomes, Release(r, o)
      PROVE  Within(j)'
  <2>1. holder[r] \in Keys
    BY <1>7 DEF Release, PeriodInv, TypeOK
  <2>2. QED
    BY <1>5, <1>7, <2>1, OutcomePeriod DEF Release, ReleaseKey, PeriodInv
<1>8. ASSUME NEW k \in Keys, NEW invalid \in BOOLEAN, Validated(k, invalid)
      PROVE  Within(j)'
  <2>1. CASE invalid
    <3>1. j # k /\ MarkKeyInvalid(k)
      BY <1>3, <1>8, <2>1 DEF Validated
    <3>2. keyCbBackoff'[j] = keyCbBackoff[j] /\ keyCbUntil'[j] = keyCbUntil[j]
      BY <1>1, <3>1 DEF MarkKeyInvalid, keyVars
    <3>3. QED
      BY <1>2, <1>5, <3>2 DEF Within
  <2>2. CASE ~invalid
    BY <1>6, <1>8, <2>2 DEF Validated, provVars
  <2>3. QED
    BY <2>1, <2>2
<1>9. CASE Tick
  <2>1. /\ keyCbUntil'[j] = Greater(keyCbUntil[j] - 1, 0)
        /\ keyCbBackoff'[j] = keyCbBackoff[j]
    BY <1>9 DEF Tick, ProviderTick
  <2>2. keyCbUntil'[j] <= keyCbUntil[j]
    BY <1>1, <2>1 DEF Greater
  <2>3. keyCbUntil'[j] \in Nat
    BY <1>1, <2>1 DEF Greater
  <2>4. QED
    BY <1>1, <1>2, <1>5, <2>1, <2>2, <2>3 DEF Within
<1>10. CASE \/ \E r \in Request, k \in Keys : Acquire(r, k)
            \/ \E r \in Request : Refuse(r) \/ Stream(r)
            \/ Health \/ UNCHANGED vars
  BY <1>6, <1>10
  DEF Acquire, AcquireKey, Refuse, AcquireNone, Stream, Health, HealthCheck, vars, provVars
<1>11. QED
  BY <1>7, <1>8, <1>9, <1>10 DEF Next

\* No key that validation has not refused is isolated for longer than the
\* break of a refused credential or the longest period that cb_max_backoff
\* allows, for every cb_max_backoff and every sequence of errors, successes
\* and validation answers.
THEOREM PeriodCorrect == Spec => []BreakerPeriodBounded
<1>1. Init => PeriodInv
  <2>1. ASSUME Init PROVE BreakerPeriodBounded
    <3>1. \A k \in Keys : Within(k)
      BY <2>1, ProviderAssumption, LongestPeriodFacts DEF Init, ProviderInit, Within
    <3>2. QED
      BY <3>1, PeriodOK
  <2>2. QED
    BY <2>1, InitType DEF PeriodInv
<1>2. PeriodInv /\ [Next]_vars => PeriodInv'
  BY NextType, PeriodNext DEF PeriodInv
<1>3. PeriodInv => BreakerPeriodBounded
  BY DEF PeriodInv
<1>4. QED
  BY <1>1, <1>2, <1>3, PTL DEF Spec

=============================================================================
