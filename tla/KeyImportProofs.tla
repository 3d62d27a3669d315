-------------------------- MODULE KeyImportProofs --------------------------
(***************************************************************************)
(* Theorems about KeyImport, for any number of requests, pages, keys and   *)
(* tokens, any life of a nonce and any bound of the nonce memory.          *)
(***************************************************************************)
EXTENDS KeyImport, FiniteSetTheorems, TLAPS

\* A nonce that is remembered is one of version 2 and lives for TTL at least.
\* As long as no page is too old, the nonce of an accepted page is remembered,
\* unless it was dropped.
NoncesCover ==
  /\ \A p \in Nonces : nonces[p] >= TTL
  /\ \A p \in used : ~V1(p)
  /\ clock <= TTL => used \ lost \subseteq Nonces

ImportInv == TypeOK /\ AckedOnDisk /\ SpentTokenDead /\ NoncesCover /\ ReplayRefused

LEMMA ImportInit == ASSUME Init PROVE ImportInv
<1> USE ImportAssumption
<1>1. TypeOK
  <2>1. IsFiniteSet({}) /\ Cardinality({}) = 0
    BY FS_EmptySet
  <2>2. nonces = [p \in {} |-> 0]
    BY DEF Init, NoNonces
  <2>3. Nonces = {} /\ nonces \in [{} -> 0..(Horizon + TTL)]
    BY <2>2 DEF Nonces
  <2>4. clock \in 0..Horizon /\ reading \in [Request -> Page \cup {NoPage}]
    BY DEF Init
  <2>5. 0 <= MaxNonces
    OBVIOUS
  <2>6. QED  BY <2>1, <2>3, <2>4, <2>5 DEF Init, TypeOK, ResolvedKeys
<1>2. QED  BY <1>1 DEF Init, ImportInv, AckedOnDisk, SpentTokenDead, NoncesCover, NoNonces,
                       Nonces, ReplayRefused

-----------------------------------------------------------------------------
(* The nonce memory.                                                       *)

NoncesType ==
  /\ Nonces \subseteq Page /\ nonces \in [Nonces -> 0..(Horizon + TTL)]
  /\ IsFiniteSet(Nonces) /\ Cardinality(Nonces) <= MaxNonces

\* A nonce that is remembered takes at most the place that was made.
LEMMA RememberedFits ==
  ASSUME TypeOK, NEW p \in Page, NEW old, MakeRoom(old), nonces' = Remembered(p, old)
  PROVE  NoncesType' /\ Nonces' = (Unexpired \ old) \cup {p}
<1> USE ImportAssumption
<1> DEFINE left == Unexpired \ old
<1>1. Nonces' = left \cup {p}
  BY DEF Remembered, Nonces
<1>2. IsFiniteSet(left) /\ Cardinality(left) \in Nat
  BY FS_Subset, FS_CardinalityType DEF TypeOK, Unexpired
<1>3. IsFiniteSet(left \cup {p})
  BY <1>2, FS_AddElement
<1>4. Cardinality(left \cup {p}) <= MaxNonces
  <2>1. Cardinality(left \cup {p}) \in {Cardinality(left), Cardinality(left) + 1}
    BY <1>2, FS_AddElement
  <2>2. Cardinality(left) < MaxNonces
    BY DEF MakeRoom
  <2>3. QED  BY <1>2, <2>1, <2>2
<1>5. nonces' \in [left \cup {p} -> 0..(Horizon + TTL)]
  <2>1. ExpiresAt \in 0..(Horizon + TTL)
    BY DEF ExpiresAt, TypeOK
  <2>2. \A q \in left : nonces[q] \in 0..(Horizon + TTL)
    BY DEF TypeOK, Unexpired
  <2>3. QED  BY <2>1, <2>2 DEF Remembered
<1>6. left \cup {p} \subseteq Page
  BY DEF TypeOK, Unexpired
<1>7. QED  BY <1>1, <1>3, <1>4, <1>5, <1>6 DEF NoncesType

\* What the handler does with the nonce of a page keeps the memory in order.
LEMMA RecallKeeps ==
  ASSUME TypeOK, NoncesCover, NEW p \in Page, Recall(p), UNCHANGED clock
  PROVE  NoncesType' /\ used' \subseteq Page /\ lost' \subseteq Page /\ NoncesCover'
<1> USE ImportAssumption
<1>1. CASE V1(p) \/ ~V2Decrypts(p) \/ p \in Nonces
  BY <1>1 DEF Recall, TypeOK, NoncesCover, NoncesType, Nonces
<1>2. CASE ~(V1(p) \/ ~V2Decrypts(p) \/ p \in Nonces)
  <2>1. PICK old \in SUBSET Unexpired :
          /\ MakeRoom(old)
          /\ nonces' = Remembered(p, old)
          /\ used' = IF InTime(p) THEN used \cup {p} ELSE used
          /\ lost' = (lost \cup (used \cap old)) \ (IF InTime(p) THEN {p} ELSE {})
    BY <1>2 DEF Recall
  <2>2. NoncesType' /\ Nonces' = (Unexpired \ old) \cup {p}
    BY <2>1, RememberedFits
  <2>3. used' \subseteq Page /\ lost' \subseteq Page /\ \A q \in used' : ~V1(q)
    BY <1>2, <2>1 DEF TypeOK, NoncesCover
  <2>4. \A q \in Nonces' : nonces'[q] >= TTL
    <3>1. ExpiresAt >= TTL
      BY DEF ExpiresAt, TypeOK
    <3>2. \A q \in Unexpired : nonces[q] >= TTL
      BY DEF NoncesCover, Unexpired
    <3>3. QED  BY <2>1, <2>2, <3>1, <3>2 DEF Remembered
  <2>5. clock' <= TTL => used' \ lost' \subseteq Nonces'
    <3>1. ASSUME clock <= TTL PROVE used \ lost \subseteq Unexpired
      BY <3>1 DEF NoncesCover, Unexpired, TypeOK
    <3>2. used' \ lost' \subseteq ((used \ lost) \ old) \cup {p}
      BY <2>1
    <3>3. QED  BY <2>2, <3>1, <3>2
  <2>6. QED  BY <2>2, <2>3, <2>4, <2>5 DEF NoncesCover, V1
<1>3. QED  BY <1>1, <1>2

\* A page that is accepted again, its nonce not dropped, has outlived the nonce,
\* by a clock ahead.
LEMMA NoteKeeps ==
  ASSUME TypeOK, NoncesCover, ReplayRefused, NEW p \in Page, Accepts(p), NoteReplay(p)
  PROVE  replayed' \subseteq [page : Page, lost : BOOLEAN] /\ ReplayRefused'
<1> USE ImportAssumption
<1>1. ASSUME p \in used \ lost PROVE Content[p].ahead > 0
  <2>1. ~V1(p) /\ p \notin Nonces /\ InTime(p)
    BY <1>1 DEF NoncesCover, Accepts
  <2>2. ~(clock <= TTL)
    BY <1>1, <2>1 DEF NoncesCover
  <2>3. Content[p].ahead \in Nat /\ clock \in Nat
    BY DEF TypeOK
  <2>4. QED  BY <2>1, <2>2, <2>3 DEF InTime, Age
<1>2. CASE p \in used
  <2>1. replayed' = replayed \cup {[page |-> p, lost |-> p \in lost]}
    BY <1>2 DEF NoteReplay
  <2>2. [page |-> p, lost |-> p \in lost] \in [page : Page, lost : BOOLEAN]
    OBVIOUS
  <2>3. (p \in lost) \/ Content[p].ahead > 0
    BY <1>1, <1>2
  <2>4. replayed' \subseteq [page : Page, lost : BOOLEAN]
    BY <2>1, <2>2 DEF TypeOK
  <2>5. \A e \in replayed : e.lost \/ Content[e.page].ahead > 0
    BY DEF ReplayRefused
  <2>6. ASSUME NEW e \in replayed' PROVE e.lost \/ Content[e.page].ahead > 0
    <3>1. CASE e \in replayed
      BY <2>5, <3>1
    <3>2. CASE e = [page |-> p, lost |-> p \in lost]
      BY <2>3, <3>2
    <3>3. QED  BY <2>1, <3>1, <3>2
  <2>7. QED  BY <2>4, <2>6 DEF ReplayRefused
<1>3. CASE p \notin used
  BY <1>3 DEF NoteReplay, ReplayRefused, TypeOK
<1>4. QED  BY <1>2, <1>3

\* A token that is consumed is gone from the memory, and none comes back.
LEMMA ConsumeKeeps ==
  ASSUME TypeOK, SpentTokenDead, NEW p \in Page, Consume(p)
  PROVE  /\ tokens' \subseteq Token
         /\ spent \cap tokens' = {}
         /\ V1(p) => Content[p].token \notin tokens'
  BY DEF TypeOK, SpentTokenDead, Consume, LeftTokens

-----------------------------------------------------------------------------
\* A handler that ends without writing the file.
LEMMA EndKeeps ==
  ASSUME ImportInv, NEW r \in Request, reading[r] # NoPage, Recall(reading[r]), Answered(r),
         UNCHANGED <<disk, live, hup, clock, acked, spent>>,
         tokens' \subseteq Token, spent \cap tokens' = {},
         replayed' \subseteq [page : Page, lost : BOOLEAN], ReplayRefused'
  PROVE  ImportInv'
<1>1. reading[r] \in Page
  BY DEF ImportInv, TypeOK
<1>2. NoncesType' /\ used' \subseteq Page /\ lost' \subseteq Page /\ NoncesCover'
  BY <1>1, RecallKeeps DEF ImportInv
<1>3. reading' \in [Request -> Page \cup {NoPage}]
  BY DEF Answered, ImportInv, TypeOK
<1>4. TypeOK'
  BY <1>2, <1>3 DEF TypeOK, NoncesType, ImportInv
<1>5. AckedOnDisk' /\ SpentTokenDead'
  BY DEF ImportInv, AckedOnDisk, SpentTokenDead
<1>6. QED  BY <1>2, <1>4, <1>5 DEF ImportInv

LEMMA ImportKeeps ==
  ASSUME ImportInv, NEW r \in Request, Import(r)
  PROVE  ImportInv'
<1> USE ImportAssumption
<1> DEFINE p == reading[r]
<1>1. p \in Page /\ Accepts(p) /\ Recall(p) /\ NoteReplay(p) /\ Consume(p) /\ Answered(r)
  BY DEF Import, ImportInv, TypeOK
<1>2. UNCHANGED <<live, clock>> /\ hup' = TRUE
  BY DEF Import
<1>3. NoncesType' /\ used' \subseteq Page /\ lost' \subseteq Page /\ NoncesCover'
  BY <1>1, <1>2, RecallKeeps DEF ImportInv
<1>4. replayed' \subseteq [page : Page, lost : BOOLEAN] /\ ReplayRefused'
  BY <1>1, NoteKeeps DEF ImportInv
<1>5. disk' = [keys |-> disk.keys \cup NewKeys(p), tokens |-> LeftTokens(p)]
  BY DEF Import, Written
<1>6. NewKeys(p) \subseteq Key /\ LeftTokens(p) \subseteq disk.tokens
  BY <1>1 DEF NewKeys, LeftTokens
<1>7. disk' \in [keys : SUBSET Key, tokens : SUBSET Token]
  BY <1>5, <1>6 DEF ImportInv, TypeOK
<1>8. AckedOnDisk'
  BY <1>5 DEF Import, ImportInv, AckedOnDisk
<1>9. SpentTokenDead' /\ tokens' \subseteq Token /\ spent' \subseteq Token
  <2>1. tokens' \subseteq Token /\ spent \cap tokens' = {}
        /\ (V1(p) => Content[p].token \notin tokens')
    BY <1>1, ConsumeKeeps DEF ImportInv
  <2>2. spent \cap disk'.tokens = {} /\ (V1(p) => Content[p].token \notin disk'.tokens)
    BY <1>5, <1>6 DEF LeftTokens, ImportInv, SpentTokenDead
  <2>3. spent' = IF V1(p) THEN spent \cup {Content[p].token} ELSE spent
    BY DEF Import
  <2>4. V1(p) => Content[p].token \in Token
    BY <1>1 DEF V1
  <2>5. QED  BY <2>1, <2>2, <2>3, <2>4 DEF SpentTokenDead, ImportInv, TypeOK
<1>10. TypeOK'
  <2>1. reading' \in [Request -> Page \cup {NoPage}]
    BY <1>1 DEF Answered, ImportInv, TypeOK
  <2>2. acked' \subseteq Key
    BY <1>6 DEF Import, ImportInv, TypeOK
  <2>3. QED  BY <1>2, <1>3, <1>4, <1>7, <1>9, <2>1, <2>2 DEF TypeOK, NoncesType, ImportInv
<1>11. QED  BY <1>3, <1>4, <1>8, <1>9, <1>10 DEF ImportInv

\* The file as it is replaces what the process had of it.
LEMMA ReloadKeeps ==
  ASSUME ImportInv, live' = ResolvedKeys(disk), tokens' = disk.tokens, hup' \in BOOLEAN,
         \/ UNCHANGED <<nonces, lost>>
         \/ nonces' = NoNonces /\ lost' = lost \cup (used \cap Nonces),
         reading' \in [Request -> Page \cup {NoPage}],
         UNCHANGED <<disk, clock, acked, spent, used, replayed>>
  PROVE  ImportInv'
<1> USE ImportAssumption
<1>1. NoncesType' /\ lost' \subseteq Page /\ NoncesCover'
  <2>1. IsFiniteSet({}) /\ Cardinality({}) = 0
    BY FS_EmptySet
  <2>2. CASE UNCHANGED <<nonces, lost>>
    BY <2>2 DEF ImportInv, TypeOK, NoncesType, NoncesCover, Nonces, V1
  <2>3. CASE nonces' = NoNonces /\ lost' = lost \cup (used \cap Nonces)
    <3>1. NoncesType' /\ Nonces' = {} /\ lost' \subseteq Page
      BY <2>1, <2>3 DEF NoNonces, NoncesType, Nonces, ImportInv, TypeOK
    <3>2. clock <= TTL => used \ lost' = {}
      BY <2>3 DEF ImportInv, NoncesCover
    <3>3. QED  BY <3>1, <3>2 DEF ImportInv, NoncesCover, V1
  <2>4. QED  BY <2>2, <2>3
<1>2. live' \subseteq Key
  BY DEF ResolvedKeys, ImportInv, TypeOK
<1>3. TypeOK'
  BY <1>1, <1>2 DEF TypeOK, NoncesType, ImportInv
<1>4. AckedOnDisk' /\ SpentTokenDead' /\ ReplayRefused'
  BY DEF ImportInv, AckedOnDisk, SpentTokenDead, ReplayRefused
<1>5. QED  BY <1>1, <1>3, <1>4 DEF ImportInv

LEMMA ImportNext == ASSUME ImportInv, [Next]_vars PROVE ImportInv'
<1> USE ImportAssumption
<1>1. ASSUME NEW r \in Request, NEW p \in Page, Submit(r, p)
      PROVE  ImportInv'
  BY <1>1 DEF Submit, history, ImportInv, TypeOK, AckedOnDisk, SpentTokenDead, NoncesCover,
              Nonces, ReplayRefused
<1>2. ASSUME NEW r \in Request, Refuse(r)
      PROVE  ImportInv'
  <2>1. tokens' \subseteq Token /\ spent \cap tokens' = {}
    BY <1>2 DEF Refuse, ImportInv, TypeOK, SpentTokenDead
  <2>2. replayed' \subseteq [page : Page, lost : BOOLEAN] /\ ReplayRefused'
    BY <1>2 DEF Refuse, ImportInv, TypeOK, ReplayRefused
  <2>3. QED  BY <1>2, <2>1, <2>2, EndKeeps DEF Refuse
<1>3. ASSUME NEW r \in Request, Unread(r) \/ ImportNothing(r) \/ ImportFails(r)
      PROVE  ImportInv'
  <2>1. /\ reading[r] \in Page
        /\ Accepts(reading[r]) /\ Recall(reading[r]) /\ NoteReplay(reading[r]) /\ Answered(r)
        /\ UNCHANGED <<disk, live, hup, clock, acked, spent>>
        /\ UNCHANGED tokens \/ Consume(reading[r])
    BY <1>3 DEF Unread, ImportNothing, ImportFails, ImportInv, TypeOK
  <2>2. tokens' \subseteq Token /\ spent \cap tokens' = {}
    <3>1. CASE UNCHANGED tokens
      BY <3>1 DEF ImportInv, TypeOK, SpentTokenDead
    <3>2. CASE Consume(reading[r])
      BY <2>1, <3>2, ConsumeKeeps DEF ImportInv
    <3>3. QED  BY <2>1, <3>1, <3>2
  <2>3. replayed' \subseteq [page : Page, lost : BOOLEAN] /\ ReplayRefused'
    BY <2>1, NoteKeeps DEF ImportInv
  <2>4. reading[r] # NoPage
    BY <1>3 DEF Unread, ImportNothing, ImportFails
  <2>5. QED  BY <2>1, <2>2, <2>3, <2>4, EndKeeps
<1>4. ASSUME NEW r \in Request, Import(r)
      PROVE  ImportInv'
  BY <1>4, ImportKeeps
<1>5. CASE Sighup
  BY <1>5, ReloadKeeps DEF Sighup, history, ImportInv, TypeOK
<1>6. CASE OperatorSighup
  BY <1>6 DEF OperatorSighup, history, ImportInv, TypeOK, AckedOnDisk, SpentTokenDead,
              NoncesCover, Nonces, ReplayRefused
<1>7. CASE Restart
  BY <1>7, ReloadKeeps DEF Restart
<1>8. CASE Tick
  BY <1>8 DEF Tick, memVars, history, ImportInv, TypeOK, AckedOnDisk, SpentTokenDead,
              NoncesCover, Nonces, ReplayRefused, V1
<1>9. CASE UNCHANGED vars
  BY <1>9 DEF vars, memVars, history, ImportInv, TypeOK, AckedOnDisk, SpentTokenDead,
              NoncesCover, Nonces, ReplayRefused
<1>10. QED  BY <1>1, <1>2, <1>3, <1>4, <1>5, <1>6, <1>7, <1>8, <1>9 DEF Next

LEMMA ImportAlways == Spec => []ImportInv
  BY ImportInit, ImportNext, PTL DEF Spec

\* Type correctness; with it, that the nonce memory stays within its bound.
THEOREM ImportTypeOK == Spec => []TypeOK
  BY ImportAlways, PTL DEF ImportInv

\* A key that a client was told is imported is in the file from then on:
\* writeConfigAtomic starts from what the file holds, not from the memory.
THEOREM ImportAckedOnDisk == Spec => []AckedOnDisk
  BY ImportAlways, PTL DEF ImportInv

\* No reload, later import or restart revives a token that imported keys.
THEOREM ImportSpentTokenDead == Spec => []SpentTokenDead
  BY ImportAlways, PTL DEF ImportInv

\* A page whose nonce was not dropped by a restart or by a full memory is
\* accepted twice only if the clock of whoever encrypted it was ahead: otherwise
\* it is too old before its nonce, remembered for as long as a page may be old,
\* expires.
THEOREM ImportReplayRefused == Spec => []ReplayRefused
  BY ImportAlways, PTL DEF ImportInv
=============================================================================
