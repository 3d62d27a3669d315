----------------------------- MODULE KeyImport -----------------------------
(***************************************************************************)
(* POST /import of serve.js: an encrypted page adds API keys to config.json *)
(* and the pool picks them up by a SIGHUP the process sends to itself.      *)
(* Pages of version 2 carry a nonce, which the process remembers for a day; *)
(* those of version 1 a single-use token, kept in the file and in memory.   *)
(* Between the arrival of a request and the end of its body other imports,  *)
(* reloads and crashes happen; from there on the handler runs to its end.   *)
(*                                                                          *)
(* The rate limiter and AuthGuard, which refuse a request before anything   *)
(* is read, amount to a Submit that does not happen.  Cryptography is the   *)
(* predicate Readable: what a page decrypts to is what was put in.          *)
(***************************************************************************)
EXTENDS Integers, FiniteSets

CONSTANTS
  Request,    \* the requests that may be open at a time
  Page,       \* encrypted payloads, each of which may be sent repeatedly
  Key,        \* API keys of the provider
  Token,      \* single-use tokens in config.json at the start
  Content,    \* page -> [version, token, keys, ahead: ts minus the true time]
  Readable,   \* the pages that decrypt
  BadKey,     \* keys that are too short or have another provider's format
  EnvKeys,    \* keys from keys_var
  TTL,        \* IMPORT_TOKEN_TTL_MS = IMPORT_NONCE_TTL_MS, in ticks
  Skew,       \* how far in the future a ts may lie: a minute
  MaxNonces,  \* IMPORT_NONCE_MAX
  Horizon     \* bound: the clock stops here

NoToken == "none"
NoPage == "none"

ASSUME ImportAssumption ==
  /\ Content \in [Page -> [version : {1, 2}, token : Token \cup {NoToken},
                           keys : SUBSET Key, ahead : Nat]]
  /\ \A p \in Page : (Content[p].version = 1) <=> (Content[p].token \in Token)
  /\ Readable \subseteq Page /\ EnvKeys \subseteq Key
  /\ TTL \in Nat /\ Skew \in Nat /\ Horizon \in Nat
  /\ MaxNonces \in Nat \ {0}

VARIABLES
  disk,      \* config.json: [keys, tokens]
  tokens,    \* config.import_tokens in memory
  live,      \* the keys the pool rotates through
  nonces,    \* _importNonces: page -> the tick until which it is remembered
  hup,       \* a SIGHUP is pending
  reading,   \* request -> the page whose body is being read
  clock,     \* ticks since the pages were issued
  acked,     \* history: keys a client was told are imported
  spent,     \* history: tokens by which keys were imported
  used,      \* history: version 2 pages that were accepted
  lost,      \* history: those whose nonce a restart or a full memory dropped since
  replayed   \* history: those accepted again, as [page, lost: was its nonce dropped?]

memVars == <<tokens, live, nonces, hup, reading>>
history == <<acked, spent, used, lost, replayed>>
vars    == <<disk, memVars, clock, history>>

V1(p) == Content[p].version = 1
Nonces == DOMAIN nonces

TypeOK ==
  /\ disk \in [keys : SUBSET Key, tokens : SUBSET Token]
  /\ tokens \subseteq Token
  /\ live \subseteq Key
  /\ Nonces \subseteq Page /\ nonces \in [Nonces -> 0..(Horizon + TTL)]
  /\ IsFiniteSet(Nonces) /\ Cardinality(Nonces) <= MaxNonces
  /\ hup \in BOOLEAN
  /\ reading \in [Request -> Page \cup {NoPage}]
  /\ clock \in 0..Horizon
  /\ acked \subseteq Key /\ spent \subseteq Token
  /\ used \subseteq Page /\ lost \subseteq Page
  /\ replayed \subseteq [page : Page, lost : BOOLEAN]

NoNonces == [p \in {} |-> 0]

\* Mutant: the keys of the environment hide those of the file.
EnvOrFile(d) == IF EnvKeys # {} THEN EnvKeys ELSE d.keys

\* resolveKeys: both sources are honoured.
ResolvedKeys(d) == EnvKeys \cup d.keys

Init ==
  /\ disk \in [keys : {{}}, tokens : {Token}]
  /\ tokens = Token
  /\ live = ResolvedKeys(disk)
  /\ nonces = NoNonces
  /\ hup = FALSE
  /\ reading = [r \in Request |-> NoPage]
  /\ clock = 0
  /\ acked = {} /\ spent = {} /\ used = {} /\ lost = {} /\ replayed = {}

-----------------------------------------------------------------------------
(* Who may import.                                                         *)

\* Mutant: a nonce is forgotten a tick early.
ExpiresEarly == clock + TTL - 1

ExpiresAt == clock + TTL

Unexpired == {p \in Nonces : nonces[p] >= clock}

\* The oldest nonces that still count, as many as must go for a new one.  Which
\* of two that are equally old goes first is left open.
MakeRoom(old) ==
  LET left == Unexpired \ old IN
  /\ old \subseteq Unexpired
  /\ Cardinality(left) < MaxNonces
  /\ old = {} \/ Cardinality(left) = MaxNonces - 1
  /\ \A p \in old, q \in left : nonces[p] <= nonces[q]

\* rememberImportNonce of a nonce that is not known.
Remembered(p, old) ==
  [q \in (Unexpired \ old) \cup {p} |-> IF q = p THEN ExpiresAt ELSE nonces[q]]

Age(p) == clock - Content[p].ahead

InTime(p) == Age(p) <= TTL /\ Age(p) >= -Skew

TokenValid(p) == Content[p].token \in tokens /\ clock <= TTL

\* v1Decrypt, v2Decrypt: is the page one that was encrypted for this server?
V1Decrypts(p) == TokenValid(p) /\ p \in Readable
V2Decrypts(p) == p \in Readable

Accepts(p) == IF V1(p) THEN V1Decrypts(p) ELSE V2Decrypts(p) /\ p \notin Nonces /\ InTime(p)

\* The nonce is remembered before the age is looked at.
Recall(p) ==
  IF V1(p) \/ ~V2Decrypts(p) \/ p \in Nonces THEN UNCHANGED <<nonces, used, lost>>
  ELSE \E old \in SUBSET Unexpired :
         /\ MakeRoom(old)
         /\ nonces' = Remembered(p, old)
         /\ used' = IF InTime(p) THEN used \cup {p} ELSE used
         /\ lost' = (lost \cup (used \cap old)) \ (IF InTime(p) THEN {p} ELSE {})

NoteReplay(p) ==
  replayed' = IF p \in used THEN replayed \cup {[page |-> p, lost |-> p \in lost]} ELSE replayed

-----------------------------------------------------------------------------
(* The handler.                                                            *)

Submit(r, p) ==
  /\ reading[r] = NoPage
  /\ reading' = [reading EXCEPT ![r] = p]
  /\ UNCHANGED <<disk, tokens, live, nonces, hup, clock, history>>

Answered(r) == reading' = [reading EXCEPT ![r] = NoPage]

\* The keys of a page that are new and well-formed.
NewKeys(p) == (Content[p].keys \ BadKey) \ (EnvKeys \cup disk.keys)

\* _consumeImportToken: the tokens of the file, less this one.
LeftTokens(p) == IF V1(p) THEN disk.tokens \ {Content[p].token} ELSE disk.tokens

Consume(p) == tokens' = IF V1(p) THEN LeftTokens(p) ELSE tokens

\* Undecipherable, unknown or expired token, known nonce, too old or from the
\* future: 400 or 403.
Refuse(r) ==
  /\ reading[r] # NoPage
  /\ ~Accepts(reading[r])
  /\ Recall(reading[r])
  /\ Answered(r)
  /\ UNCHANGED <<disk, tokens, live, hup, clock, acked, spent, replayed>>

\* The file cannot be read, or has no such provider: 500 or 400.  A nonce stays
\* remembered, a token is kept.
Unread(r) ==
  /\ reading[r] # NoPage
  /\ Accepts(reading[r])
  /\ Recall(reading[r]) /\ NoteReplay(reading[r])
  /\ Answered(r)
  /\ UNCHANGED <<disk, tokens, live, hup, clock, acked, spent>>

\* Nothing new in the page: the token is gone from the memory alone.
ImportNothing(r) ==
  /\ reading[r] # NoPage
  /\ Accepts(reading[r])
  /\ NewKeys(reading[r]) = {}
  /\ Recall(reading[r]) /\ NoteReplay(reading[r])
  /\ Consume(reading[r])
  /\ Answered(r)
  /\ UNCHANGED <<disk, live, hup, clock, acked, spent>>

\* Mutants: the token is not taken out of the file; the file is written from
\* what the process holds instead of what the file held.
WrittenWithToken(p) == [keys |-> disk.keys \cup NewKeys(p), tokens |-> disk.tokens]

WrittenFromMemory(p) == [keys |-> (live \ EnvKeys) \cup NewKeys(p), tokens |-> LeftTokens(p)]

\* What writeConfigAtomic puts in place of the file.
Written(p) == [keys |-> disk.keys \cup NewKeys(p), tokens |-> LeftTokens(p)]

Import(r) ==
  LET p == reading[r] IN
  /\ p # NoPage
  /\ Accepts(p)
  /\ NewKeys(p) # {}
  /\ Recall(p) /\ NoteReplay(p)
  /\ disk' = Written(p)
  /\ Consume(p)
  /\ hup' = TRUE
  /\ acked' = acked \cup NewKeys(p)
  /\ spent' = IF V1(p) THEN spent \cup {Content[p].token} ELSE spent
  /\ Answered(r)
  /\ UNCHANGED <<live, clock>>

\* The write or the rename fails: 500, the file as it was.
ImportFails(r) ==
  /\ reading[r] # NoPage
  /\ Accepts(reading[r])
  /\ NewKeys(reading[r]) # {}
  /\ Recall(reading[r]) /\ NoteReplay(reading[r])
  /\ Consume(reading[r])
  /\ Answered(r)
  /\ UNCHANGED <<disk, live, hup, clock, acked, spent>>

-----------------------------------------------------------------------------
\* The reload: pool and tokens as the file has them.  Signals of the same kind
\* that are pending are delivered once.
Sighup ==
  /\ hup
  /\ hup' = FALSE
  /\ live' = ResolvedKeys(disk)
  /\ tokens' = disk.tokens
  /\ UNCHANGED <<disk, nonces, reading, clock, history>>

OperatorSighup ==
  /\ hup' = TRUE
  /\ UNCHANGED <<disk, tokens, live, nonces, reading, clock, history>>

\* The process dies and is started again: the file is all there is.
Restart ==
  /\ live' = ResolvedKeys(disk)
  /\ tokens' = disk.tokens
  /\ nonces' = NoNonces
  /\ hup' = FALSE
  /\ reading' = [r \in Request |-> NoPage]
  /\ lost' = lost \cup (used \cap Nonces)
  /\ UNCHANGED <<disk, clock, acked, spent, used, replayed>>

Tick ==
  /\ clock < Horizon
  /\ clock' = clock + 1
  /\ UNCHANGED <<disk, memVars, history>>

Next ==
  \/ \E r \in Request :
       \/ \E p \in Page : Submit(r, p)
       \/ Refuse(r) \/ Unread(r) \/ ImportNothing(r) \/ Import(r) \/ ImportFails(r)
  \/ Sighup \/ OperatorSighup \/ Restart \/ Tick

Spec == Init /\ [][Next]_vars

\* A pending signal is delivered.
FairSpec == Spec /\ WF_vars(Sighup)
-----------------------------------------------------------------------------
(***************************************************************************)
(* A key whose import was acknowledged is in the file from then on,        *)
(* whatever other imports, failing writes and crashes come before the pool *)
(* has been reloaded.                                                      *)
(***************************************************************************)
AckedOnDisk == acked \subseteq disk.keys

\* And it is used some day, although the reload that follows the answer may be
\* merged with another one or be cut short by a crash.
AckedServes == \A k \in Key : k \in acked ~> k \in live

\* A token by which keys were imported is dead: no reload, no later import that
\* starts from the file and no restart brings it back.
SpentTokenDead == spent \cap (tokens \cup disk.tokens) = {}

(***************************************************************************)
(* What the replay protection comes to: a page is accepted a second time   *)
(* only after a restart or a full memory dropped its nonce, or if it comes *)
(* from a clock that is ahead and so outlives its nonce.  A nonce that the *)
(* process still holds, or has let expire, protects all other pages.       *)
(***************************************************************************)
ReplayRefused == \A e \in replayed : e.lost \/ Content[e.page].ahead > 0

(***************************************************************************)
(* Disagreement: the documents promise without exception that a page that  *)
(* was accepted is refused from then on, nonces being remembered for a day *)
(* and pages that are older being refused for their age.  A restart and    *)
(* MaxNonces other pages make the process accept it again within the day.  *)
(***************************************************************************)
ReplayProof == replayed = {}
=============================================================================
