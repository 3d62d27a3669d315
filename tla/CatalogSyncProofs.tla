------------------------- MODULE CatalogSyncProofs -------------------------
(***************************************************************************)
(* Theorems about CatalogSync, for any number of gateways, runs, backends, *)
(* attempts and tries: a gateway publishes once, no update is lost unless  *)
(* a lock was stolen from an owner at work, and the file is never wiped.   *)
(***************************************************************************)
EXTENDS CatalogSync, TLAPS

Steps == {"idle", "config", "probe", "fetch", "sleep", "lock", "stat", "steal",
          "read", "write", "unlock"}

\* Inside the lock, and with an answer of FFAI in hand.
Locked == {"read", "write", "unlock"}
Answered == {"lock", "stat", "steal", "read", "write"}

Runs == [at : Steps, in : Gateway \cup {NoGateway}, cmd : {"sync", "uninstall"},
         attempt : 0..MaxAttempts, tries : 0..MaxTries,
         got : SUBSET Ours, seen : File,
         result : {"none", "success", "fatal", "transient"}]

\* The re-entry guard: a gateway of OpenClaw has one run at a time, and none
\* after it has published.
InCharge ==
  target = "openclaw" =>
    /\ \A r \in Runner : ~At(r, "idle") =>
         /\ runners[r].in \in Gateway
         /\ inFlight[runners[r].in] /\ ~fired[runners[r].in]
    /\ \A r, s \in Runner :
         ~At(r, "idle") /\ ~At(s, "idle") /\ runners[r].in = runners[s].in => r = s

\* The wipe protection: what a sync is about to publish is not empty.
SomethingGot ==
  \A r \in Runner :
    /\ runners[r].at \in Answered /\ runners[r].cmd = "sync" => runners[r].got # {}
    /\ target = "openclaw" => runners[r].cmd = "sync"

\* What a run that has read one document will keep of the entries of other
\* origin in another, where a list that was none is empty by now.
SameOthers(seen, doc) ==
  IF seen.listed THEN doc.listed /\ doc.providers \ Ours = seen.providers \ Ours
  ELSE doc.listed => doc.providers \ Ours = {}

\* However old the file is that a run has read, the entries of other origin are
\* those of today.
SeenKept ==
  \A r \in Runner : At(r, "write") =>
    /\ SameOthers(runners[r].seen, file)
    /\ ~runners[r].seen.listed => target = "hermes" /\ runners[r].cmd = "sync"
    /\ target = "openclaw" => ~runners[r].seen.missing

\* OpenClaw's file is never without a list.
FileListed == target = "openclaw" => file.listed

RunInv == TypeOK /\ InCharge /\ SomethingGot /\ SeenKept /\ FileListed

\* While no owner was robbed, the lock keeps all but one out.
LockInv ==
  ~robbed =>
    /\ \A r, s \in Inside : r = s
    /\ Inside # {} => lock # "none"
    /\ \A r \in Runner : At(r, "write") => runners[r].seen = file

-----------------------------------------------------------------------------
(* The documents.                                                          *)

Docs == [providers : SUBSET Entries, refs : SUBSET Entries, missing : BOOLEAN,
         listed : BOOLEAN]

LEMMA FileIs ==
  /\ File \subseteq Docs
  /\ Missing \in File
  /\ \A f \in File : f.missing => f = Missing
  /\ \A f \in File : ~f.listed => f = Unlisted
  /\ \A f \in Docs : ~f.missing /\ f.listed => f \in File
<1>1. /\ Missing \in Docs /\ Missing \in File /\ Missing.listed
      /\ Unlisted \in Docs /\ ~Unlisted.missing
  BY DEF Missing, Unlisted, Docs, File, Entries
<1>2. \A p, a \in SUBSET Entries :
        Content(p, a) \in Docs /\ ~Content(p, a).missing /\ Content(p, a).listed
  BY DEF Content, Docs
<1>3. \A f \in File : \/ f = Missing \/ f = Unlisted
                      \/ \E p, a \in SUBSET Entries : f = Content(p, a)
  BY DEF File
<1>4. ASSUME NEW f \in Docs, ~f.missing, f.listed PROVE f \in File
  <2>1. f = Content(f.providers, f.refs)
    BY <1>4 DEF Docs, Content
  <2>2. f.providers \in SUBSET Entries /\ f.refs \in SUBSET Entries
    BY DEF Docs
  <2>3. QED  BY <2>1, <2>2 DEF File
<1>5. QED  BY <1>1, <1>2, <1>3, <1>4

\* Another document takes the entries, and takes its list from nothing if it
\* has none.
LEMMA UpsertIs ==
  ASSUME NEW doc \in Docs, NEW got
  PROVE  Upsert(doc, got) =
           [providers |-> (IF doc.listed THEN doc.providers ELSE {}) \cup got,
            refs |-> doc.refs, missing |-> FALSE, listed |-> TRUE]
<1> DEFINE listed == EnsureCustomProvidersSeq(doc)
<1>1. listed = [providers |-> IF doc.listed THEN doc.providers ELSE {}, refs |-> doc.refs,
                missing |-> FALSE, listed |-> TRUE]
  <2>1. CASE doc.listed
    <3>1. listed = [doc EXCEPT !.missing = FALSE]
      BY <2>1 DEF EnsureCustomProvidersSeq
    <3>2. doc.listed = TRUE
      BY <2>1 DEF Docs
    <3>3. QED  BY <2>1, <3>1, <3>2 DEF Docs
  <2>2. CASE ~doc.listed
    <3>1. listed = Content({}, doc.refs)
      BY <2>2 DEF EnsureCustomProvidersSeq
    <3>2. QED  BY <2>2, <3>1 DEF Content
  <2>3. QED  BY <2>1, <2>2
<1>2. Upsert(doc, got) = [listed EXCEPT !.providers = @ \cup got]
  BY DEF Upsert
<1> HIDE DEF listed
<1>3. QED  BY <1>1, <1>2

\* What is published has the entries of other origin, and those that were got
\* unless it is an uninstall.
LEMMA MergedIs ==
  ASSUME NEW doc \in File, NEW r \in Runner, runners[r] \in Runs,
         target \in {"openclaw", "hermes"},
         target = "openclaw" => ~doc.missing /\ runners[r].cmd = "sync",
         ~doc.listed => target = "hermes" /\ runners[r].cmd = "sync"
  PROVE  /\ Merged(doc, r) \in File /\ Merged(doc, r).listed
         /\ Merged(doc, r).providers \ Ours = IF doc.listed THEN doc.providers \ Ours ELSE {}
         /\ runners[r].cmd = "sync" => runners[r].got \subseteq Merged(doc, r).providers
<1> DEFINE got == runners[r].got
<1>1. doc \in Docs /\ got \in SUBSET Ours /\ Ours \subseteq Entries
  BY FileIs DEF Runs, Entries
<1>2. doc = [providers |-> doc.providers, refs |-> doc.refs, missing |-> doc.missing,
             listed |-> doc.listed]
  BY <1>1 DEF Docs
<1>3. CASE target = "openclaw"
  <2>1. Merged(doc, r) = [providers |-> (doc.providers \ Ours) \cup got,
                          refs |-> IF doc.refs = {} THEN {} ELSE doc.refs \cup got,
                          missing |-> FALSE, listed |-> TRUE]
    BY <1>1, <1>2, <1>3 DEF Merged, SyncAllowlist, MergeProviders, Docs
  <2>2. Merged(doc, r) \in Docs /\ ~Merged(doc, r).missing /\ Merged(doc, r).listed
    BY <1>1, <2>1 DEF Docs
  <2>3. QED  BY <1>1, <1>3, <2>1, <2>2, FileIs
<1>4. CASE target = "hermes" /\ runners[r].cmd = "sync"
  <2> DEFINE kept == IF doc.listed THEN doc.providers \ Ours ELSE {}
  <2>1. Merged(doc, r) = [providers |-> kept \cup got, refs |-> doc.refs,
                          missing |-> FALSE, listed |-> TRUE]
    <3>1. Merged(doc, r) = Upsert(RemoveAllFfaiEntries(doc), got)
      BY <1>4 DEF Merged, ApplyCustomProviders
    <3>2. RemoveAllFfaiEntries(doc) =
            [providers |-> doc.providers \ Ours, refs |-> doc.refs, missing |-> doc.missing,
             listed |-> doc.listed]
      BY <1>2 DEF RemoveAllFfaiEntries
    <3> DEFINE bare == RemoveAllFfaiEntries(doc)
    <3>3. /\ bare \in Docs /\ bare.providers = doc.providers \ Ours
          /\ bare.refs = doc.refs /\ bare.listed = doc.listed
      BY <1>1, <3>2 DEF Docs
    <3> HIDE DEF bare
    <3>4. Upsert(bare, got) =
            [providers |-> (IF bare.listed THEN bare.providers ELSE {}) \cup got,
             refs |-> bare.refs, missing |-> FALSE, listed |-> TRUE]
      BY <3>3, UpsertIs
    <3>5. QED  BY <3>1, <3>3, <3>4 DEF bare
  <2>2. Merged(doc, r) \in Docs /\ ~Merged(doc, r).missing /\ Merged(doc, r).listed
    BY <1>1, <2>1 DEF Docs
  <2>3. QED  BY <1>1, <2>1, <2>2, FileIs
<1>5. CASE target = "hermes" /\ runners[r].cmd # "sync"
  <2> doc.listed
    BY <1>1, <1>5 DEF Docs
  <2>1. Merged(doc, r) = [providers |-> doc.providers \ Ours,
                          refs |-> doc.refs, missing |-> doc.missing, listed |-> TRUE]
    BY <1>2, <1>5 DEF Merged, RemoveAllFfaiEntries
  <2>2. CASE doc.missing
    <3>1. doc = Missing
      BY <2>2, FileIs
    <3>2. Merged(doc, r) = Missing
      BY <2>1, <3>1 DEF Missing
    <3>3. QED  BY <1>5, <3>1, <3>2
  <2>3. CASE ~doc.missing
    <3>1. Merged(doc, r) \in Docs /\ ~Merged(doc, r).missing /\ Merged(doc, r).listed
      BY <1>1, <2>1, <2>3 DEF Docs
    <3>2. QED  BY <1>5, <2>1, <3>1, FileIs
  <2>4. QED  BY <1>1, <2>2, <2>3 DEF Docs
<1>6. QED  BY <1>3, <1>4, <1>5

-----------------------------------------------------------------------------
(* What a run does next.                                                   *)

LEMMA IdleIs == /\ Idle \in Runs /\ Idle.at = "idle" /\ Idle.in = NoGateway /\ Idle.cmd = "sync"
<1>1. 0 \in 0..MaxAttempts /\ 0 \in 0..MaxTries
  BY SyncAssumption
<1>2. QED  BY <1>1, FileIs DEF Idle, Runs, Steps

\* It goes on in its process, with what it knows by now.
MovesTo(r, new) ==
  /\ Set(r, new)
  /\ new \in Runs
  /\ new.at # "idle" /\ new.in = runners[r].in /\ new.cmd = runners[r].cmd
  /\ new.at \in Answered /\ new.cmd = "sync" => new.got # {}
  /\ new.at = "write" =>
       /\ SameOthers(new.seen, file)
       /\ ~new.seen.listed => target = "hermes" /\ new.cmd = "sync"
       /\ target = "openclaw" => ~new.seen.missing
  /\ UNCHANGED flags

Surroundings ==
  /\ UNCHANGED target
  /\ file' \in File
  /\ IF file.listed THEN file'.listed /\ file'.providers \ Ours = file.providers \ Ours
                    ELSE file' = file \/ (file'.listed /\ file'.providers \ Ours = {})
  /\ lock' \in {"none", "fresh", "stale"} /\ robbed' \in BOOLEAN

\* What was true of the file that is there is true of the one that replaces it.
LEMMA StillSame ==
  ASSUME Surroundings, NEW seen, SameOthers(seen, file)
  PROVE  SameOthers(seen, file')
  BY DEF Surroundings, SameOthers

LEMMA MoveKeeps ==
  ASSUME RunInv, NEW r \in Runner, ~At(r, "idle"), NEW new, MovesTo(r, new), Surroundings
  PROVE  RunInv'
<1>1. runners \in [Runner -> Runs]
  BY DEF RunInv, TypeOK, Runs, Steps
<1>2. runners' \in [Runner -> Runs]
      /\ \A s \in Runner : runners'[s] = IF s = r THEN new ELSE runners[s]
  BY <1>1 DEF MovesTo, Set
<1>3. UNCHANGED <<target, fired, inFlight>>
  BY DEF MovesTo, Surroundings, flags
<1>4. TypeOK'
  BY <1>2, <1>3 DEF RunInv, TypeOK, Surroundings, Runs, Steps
<1>5. InCharge'
  BY <1>2, <1>3 DEF RunInv, InCharge, MovesTo, At
<1>6. SomethingGot'
  BY <1>2, <1>3 DEF RunInv, SomethingGot, MovesTo
<1>7. SeenKept'
  BY <1>2, <1>3, StillSame DEF RunInv, SeenKept, MovesTo, At
<1>8. FileListed'
  BY DEF RunInv, FileListed, Surroundings
<1>9. QED  BY <1>4, <1>5, <1>6, <1>7, <1>8 DEF RunInv

LEMMA EndKeeps ==
  ASSUME RunInv, NEW r \in Runner, ~At(r, "idle"), NEW done \in BOOLEAN, End(r, done),
         Surroundings
  PROVE  RunInv'
<1>1. runners \in [Runner -> Runs]
  BY DEF RunInv, TypeOK, Runs, Steps
<1>2. runners' \in [Runner -> Runs]
      /\ \A s \in Runner : runners'[s] = IF s = r THEN Idle ELSE runners[s]
  BY <1>1, IdleIs DEF End, Set
<1>3. fired' \in [Gateway -> BOOLEAN] /\ inFlight' \in [Gateway -> BOOLEAN]
  BY DEF End, flags, RunInv, TypeOK
<1>4. TypeOK'
  BY <1>2, <1>3 DEF RunInv, TypeOK, Surroundings, Runs, Steps
<1>5. InCharge'
  <2>1. ASSUME target = "openclaw", NEW s \in Runner, s # r, ~At(s, "idle")
        PROVE  /\ runners[s].in \in Gateway /\ runners[s].in # runners[r].in
               /\ inFlight'[runners[s].in] /\ ~fired'[runners[s].in]
    <3>1. runners[s].in \in Gateway /\ runners[s].in # runners[r].in
      BY <2>1 DEF RunInv, InCharge
    <3>2. inFlight[runners[s].in] /\ ~fired[runners[s].in]
      BY <2>1 DEF RunInv, InCharge
    <3>3. /\ fired' = [fired EXCEPT ![runners[r].in] = @ \/ done]
          /\ inFlight' = [inFlight EXCEPT ![runners[r].in] = FALSE]
      BY <2>1 DEF End
    <3>4. QED  BY <3>1, <3>2, <3>3 DEF RunInv, TypeOK
  <2>2. QED  BY <1>2, <2>1, IdleIs DEF InCharge, At, Surroundings, RunInv
<1>6. SomethingGot'
  BY <1>2, IdleIs DEF RunInv, SomethingGot, Surroundings, Answered
<1>7. SeenKept'
  <2>1. \A s \in Runner : At(s, "write")' => At(s, "write") /\ runners'[s] = runners[s]
    BY <1>2, IdleIs DEF At
  <2>2. UNCHANGED target
    BY DEF Surroundings
  <2>3. QED  BY <2>1, <2>2, StillSame DEF RunInv, SeenKept
<1>8. FileListed'
  BY DEF RunInv, FileListed, Surroundings
<1>9. QED  BY <1>4, <1>5, <1>6, <1>7, <1>8 DEF RunInv

LEMMA RetryKeeps ==
  ASSUME RunInv, NEW r \in Runner, ~At(r, "idle"), Retry(r), Surroundings
  PROVE  RunInv'
<1>1. runners[r] \in Runs
  BY DEF RunInv, TypeOK, Runs, Steps
<1>2. CASE runners[r].attempt < MaxAttempts
  <2> DEFINE new == [runners[r] EXCEPT !.at = "sleep", !.attempt = @ + 1, !.result = "none"]
  <2>1. Set(r, new) /\ UNCHANGED flags
    BY <1>2 DEF Retry
  <2>2. runners[r].attempt + 1 \in 0..MaxAttempts
    BY <1>1, <1>2, SyncAssumption DEF Runs
  <2>3. new \in Runs /\ new.at = "sleep" /\ new.in = runners[r].in /\ new.cmd = runners[r].cmd
    BY <1>1, <2>2 DEF Runs, Steps
  <2> HIDE DEF new
  <2>4. MovesTo(r, new)
    BY <2>1, <2>3 DEF MovesTo, Answered
  <2>5. QED  BY <2>4, MoveKeeps
<1>3. CASE ~(runners[r].attempt < MaxAttempts)
  BY <1>3, EndKeeps DEF Retry
<1>4. QED  BY <1>2, <1>3

LEMMA NextTryKeeps ==
  ASSUME RunInv, NEW r \in Runner, runners[r].at \in {"stat", "steal"}, NextTry(r), Surroundings
  PROVE  RunInv'
<1>1. runners[r] \in Runs /\ ~At(r, "idle")
  BY DEF RunInv, TypeOK, Runs, Steps, At
<1>2. CASE runners[r].tries + 1 < MaxTries
  <2> DEFINE new == [runners[r] EXCEPT !.at = "lock", !.tries = @ + 1]
  <2>1. Set(r, new) /\ UNCHANGED flags
    BY <1>2 DEF NextTry
  <2>2. runners[r].tries + 1 \in 0..MaxTries
    BY <1>1, <1>2, SyncAssumption DEF Runs
  <2>3. /\ new \in Runs /\ new.at = "lock" /\ new.in = runners[r].in /\ new.cmd = runners[r].cmd
        /\ new.got = runners[r].got
    BY <1>1, <2>2 DEF Runs, Steps
  <2> HIDE DEF new
  <2>4. MovesTo(r, new)
    BY <2>1, <2>3 DEF MovesTo, Answered, RunInv, SomethingGot
  <2>5. QED  BY <1>1, <2>4, MoveKeeps
<1>3. CASE ~(runners[r].tries + 1 < MaxTries)
  BY <1>1, <1>3, EndKeeps DEF NextTry
<1>4. QED  BY <1>2, <1>3

\* A run that goes on to another step with what it has.
LEMMA GoOnKeeps ==
  ASSUME RunInv, NEW r \in Runner, ~At(r, "idle"), NEW step \in Steps \ {"idle", "write"},
         step \in Answered => runners[r].at \in Answered,
         Set(r, [runners[r] EXCEPT !.at = step]), UNCHANGED flags, Surroundings
  PROVE  RunInv'
<1> DEFINE new == [runners[r] EXCEPT !.at = step]
<1>1. runners[r] \in Runs
  BY DEF RunInv, TypeOK, Runs, Steps
<1>2. /\ new \in Runs /\ new.at = step /\ new.in = runners[r].in /\ new.cmd = runners[r].cmd
      /\ new.got = runners[r].got
  BY <1>1 DEF Runs
<1> HIDE DEF new
<1>3. MovesTo(r, new)
  BY <1>2 DEF MovesTo, RunInv, SomethingGot, new
<1>4. QED  BY <1>3, MoveKeeps

LEMMA LeaveKeeps ==
  ASSUME RunInv, NEW r \in Runner, ~At(r, "idle"),
         NEW result \in {"success", "fatal", "transient"},
         Leave(r, result), UNCHANGED flags, Surroundings
  PROVE  RunInv'
<1> DEFINE new == [runners[r] EXCEPT !.at = "unlock", !.result = result,
                                     !.tries = 0, !.got = {}, !.seen = Missing]
<1>1. runners[r] \in Runs /\ Missing \in File /\ 0 \in 0..MaxTries
  BY FileIs, SyncAssumption DEF RunInv, TypeOK, Runs, Steps
<1>2. new \in Runs /\ new.at = "unlock" /\ new.in = runners[r].in /\ new.cmd = runners[r].cmd
  BY <1>1 DEF Runs, Steps
<1>3. Set(r, new)
  BY DEF Leave
<1> HIDE DEF new
<1>4. MovesTo(r, new)
  BY <1>2, <1>3 DEF MovesTo, Answered
<1>5. QED  BY <1>4, MoveKeeps

LEMMA PrepareKeeps ==
  ASSUME RunInv, NEW r \in Runner, At(r, "read"), target = "openclaw" => ~file.missing,
         ~file.listed => target = "hermes" /\ runners[r].cmd = "sync",
         Prepare(r), UNCHANGED flags, Surroundings
  PROVE  RunInv'
<1> DEFINE new == [runners[r] EXCEPT !.at = "write", !.seen = file]
<1>1. runners[r] \in Runs /\ file \in File
  BY DEF RunInv, TypeOK, Runs, Steps
<1>2. /\ new \in Runs /\ new.at = "write" /\ new.in = runners[r].in /\ new.cmd = runners[r].cmd
      /\ new.got = runners[r].got /\ new.seen = file
  BY <1>1 DEF Runs, Steps
<1>3. Set(r, new)
  BY DEF Prepare
<1> HIDE DEF new
<1>4. SameOthers(file, file)
  BY DEF SameOthers
<1>5. MovesTo(r, new)
  BY <1>2, <1>3, <1>4 DEF MovesTo, Answered, RunInv, SomethingGot, At
<1>6. QED  BY <1>5, MoveKeeps DEF At

LEMMA ProceedKeeps ==
  ASSUME RunInv, NEW r \in Runner, At(r, "fetch"),
         NEW answer, answer.groups \in SUBSET Ours, answer.groups # {},
         Proceed(r, answer), UNCHANGED flags, Surroundings
  PROVE  RunInv'
<1> DEFINE new == [runners[r] EXCEPT !.at = "lock", !.tries = 0, !.got = answer.groups]
<1>1. runners[r] \in Runs /\ 0 \in 0..MaxTries
  BY SyncAssumption DEF RunInv, TypeOK, Runs, Steps
<1>2. /\ new \in Runs /\ new.at = "lock" /\ new.in = runners[r].in /\ new.cmd = runners[r].cmd
      /\ new.got = answer.groups
  BY <1>1 DEF Runs, Steps
<1>3. Set(r, new)
  BY DEF Proceed
<1> HIDE DEF new
<1>4. MovesTo(r, new)
  BY <1>2, <1>3 DEF MovesTo
<1>5. QED  BY <1>4, MoveKeeps DEF At

\* Whatever FFAI answers, it is about backends and the favourites.
LEMMA AnswersAre ==
  /\ \A answer \in BuildFfaiProviders : answer.groups \in SUBSET Ours
  /\ \A answer \in DiscoverProviders : answer.groups \in SUBSET Ours
<1>1. NoAnswer.groups = {} /\ \A groups : Fetched(groups).groups = groups
  BY DEF NoAnswer, Fetched
<1>2. Backend \subseteq Ours /\ Favorites \in Ours
  BY DEF Ours
<1>3. ASSUME NEW answer \in BuildFfaiProviders PROVE answer.groups \in SUBSET Ours
  <2>1. CASE answer = NoAnswer
    BY <1>1, <2>1
  <2>2. CASE \E l \in FfaiModels :
               answer \in {Fetched(g \cup f) : g \in GroupModelsByProvider(l),
                                               f \in BuildFavoritesGroup(l)}
    <3>1. PICK l \in FfaiModels :
            \E g \in GroupModelsByProvider(l), f \in BuildFavoritesGroup(l) :
              answer = Fetched(g \cup f)
      BY <2>2
    <3>2. PICK g \in GroupModelsByProvider(l), f \in BuildFavoritesGroup(l) :
            answer = Fetched(g \cup f)
      BY <3>1
    <3>3. g \subseteq Backend /\ f \subseteq {Favorites}
      BY <3>1, <3>2 DEF FfaiModels, GroupModelsByProvider, BuildFavoritesGroup
    <3>4. QED  BY <1>1, <1>2, <3>2, <3>3
  <2>3. QED  BY <2>1, <2>2 DEF BuildFfaiProviders
<1>4. ASSUME NEW answer \in DiscoverProviders PROVE answer.groups \in SUBSET Ours
  BY <1>1, <1>2 DEF DiscoverProviders
<1>5. QED  BY <1>3, <1>4

\* A run writes the entries of other origin as the file has them.
LEMMA PublishIs ==
  ASSUME RunInv, NEW r \in Runner, Publish(r)
  PROVE  /\ Surroundings
         /\ runners[r].cmd = "sync" => runners[r].got # {} /\ runners[r].got \subseteq file'.providers
<1>1. /\ runners[r] \in Runs /\ runners[r].seen \in File /\ target \in {"openclaw", "hermes"}
      /\ lock \in {"none", "fresh", "stale"} /\ robbed \in BOOLEAN
  BY DEF RunInv, TypeOK, Runs, Steps
<1>2. /\ SameOthers(runners[r].seen, file)
      /\ ~runners[r].seen.listed => target = "hermes" /\ runners[r].cmd = "sync"
      /\ target = "openclaw" => ~runners[r].seen.missing
  BY DEF RunInv, SeenKept, Publish
<1>3. target = "openclaw" => runners[r].cmd = "sync"
  BY DEF RunInv, SomethingGot
<1>4. file' = Merged(runners[r].seen, r)
  BY DEF Publish
<1>5. /\ file' \in File /\ file'.listed
      /\ IF file.listed THEN file'.providers \ Ours = file.providers \ Ours
                        ELSE file'.providers \ Ours = {}
      /\ runners[r].cmd = "sync" => runners[r].got \subseteq file'.providers
  BY <1>1, <1>2, <1>3, <1>4, MergedIs DEF SameOthers
<1>6. runners[r].cmd = "sync" => runners[r].got # {}
  BY DEF RunInv, SomethingGot, Publish, At, Answered
<1>7. QED  BY <1>1, <1>5, <1>6 DEF Surroundings, Publish

-----------------------------------------------------------------------------
(* Every step keeps what is known of the runs.                             *)

LEMMA SurroundingsAre ==
  ASSUME RunInv, UNCHANGED <<target, file>>,
         lock' \in {"none", "fresh", "stale"}, robbed' \in BOOLEAN
  PROVE  Surroundings
  BY DEF RunInv, TypeOK, Surroundings

LEMMA QuietSurroundings == ASSUME RunInv, UNCHANGED <<target, file, lock, robbed>> PROVE Surroundings
  BY DEF RunInv, TypeOK, Surroundings

LEMMA RunInit == ASSUME Init PROVE RunInv
<1>1. target \in {"openclaw", "hermes"} /\ runners = [r \in Runner |-> Idle]
  BY DEF Init
<1>2. file \in File
  <2>1. Others \in SUBSET Entries /\ Allowlist \in SUBSET Entries /\ {} \in SUBSET Entries
    BY SyncAssumption DEF Entries
  <2>2. QED  BY <2>1 DEF Init, File
<1>3. TypeOK
  <2>1. runners \in [Runner -> Runs]
    BY <1>1, IdleIs
  <2>2. QED  BY <1>1, <1>2, <2>1 DEF Init, TypeOK, Runs, Steps
<1>4. InCharge /\ SomethingGot /\ SeenKept
  BY <1>1, IdleIs DEF InCharge, SomethingGot, SeenKept, At, Answered
<1>5. FileListed
  BY DEF Init, FileListed, Missing, Content
<1>6. QED  BY <1>3, <1>4, <1>5 DEF RunInv

\* The way to FFAI and back.
LEMMA OutsideStepKeeps ==
  ASSUME RunInv, NEW r \in Runner,
         \/ Configure(r) \/ Probe(r) \/ Wake(r)
         \/ \E answer \in BuildFfaiProviders : Discover(r, answer)
         \/ \E answer \in DiscoverProviders : HermesDiscover(r, answer)
  PROVE  RunInv'
<1>1. Surroundings
  BY QuietSurroundings DEF Configure, Probe, Wake, Discover, HermesDiscover
<1>2. ~At(r, "idle")
  BY DEF Configure, Probe, Wake, Discover, HermesDiscover, At
<1>3. CASE Configure(r)
  <2>1. CASE Set(r, [runners[r] EXCEPT !.at = "probe"]) /\ UNCHANGED flags
    BY <1>1, <1>2, <2>1, GoOnKeeps DEF Steps, Answered
  <2>2. CASE End(r, TRUE)
    BY <1>1, <1>2, <2>2, EndKeeps
  <2>3. QED  BY <1>3, <2>1, <2>2 DEF Configure
<1>4. CASE Probe(r)
  <2> DEFINE new == [runners[r] EXCEPT !.at = "fetch", !.attempt = 1]
  <2>1. runners[r] \in Runs /\ 1 \in 0..MaxAttempts
    BY SyncAssumption DEF RunInv, TypeOK, Runs, Steps
  <2>2. new \in Runs /\ new.at = "fetch" /\ new.in = runners[r].in /\ new.cmd = runners[r].cmd
    BY <2>1 DEF Runs, Steps
  <2>3. Set(r, new) /\ UNCHANGED flags
    BY <1>4 DEF Probe
  <2> HIDE DEF new
  <2>4. MovesTo(r, new)
    BY <2>2, <2>3 DEF MovesTo, Answered
  <2>5. QED  BY <1>1, <1>2, <2>4, MoveKeeps
<1>5. CASE Wake(r)
  <2>1. Set(r, [runners[r] EXCEPT !.at = "fetch"]) /\ UNCHANGED flags
    BY <1>5 DEF Wake
  <2>2. QED  BY <1>1, <1>2, <2>1, GoOnKeeps DEF Steps, Answered
<1>6. ASSUME NEW answer \in BuildFfaiProviders, Discover(r, answer)
      PROVE  RunInv'
  <2>1. CASE Usable(answer)
    <3>1. Proceed(r, answer) /\ UNCHANGED flags /\ At(r, "fetch")
      BY <1>6, <2>1 DEF Discover
    <3>2. answer.groups \in SUBSET Ours /\ answer.groups # {}
      BY <2>1, AnswersAre DEF Usable
    <3>3. QED  BY <1>1, <3>1, <3>2, ProceedKeeps
  <2>2. CASE ~Usable(answer)
    BY <1>1, <1>2, <1>6, <2>2, RetryKeeps DEF Discover
  <2>3. QED  BY <2>1, <2>2
<1>7. ASSUME NEW answer \in DiscoverProviders, HermesDiscover(r, answer)
      PROVE  RunInv'
  <2>1. CASE answer.fetched /\ answer.groups # {}
    <3>1. Proceed(r, answer) /\ UNCHANGED flags /\ At(r, "fetch")
      BY <1>7, <2>1 DEF HermesDiscover
    <3>2. answer.groups \in SUBSET Ours /\ answer.groups # {}
      BY <2>1, AnswersAre
    <3>3. QED  BY <1>1, <3>1, <3>2, ProceedKeeps
  <2>2. CASE ~(answer.fetched /\ answer.groups # {})
    BY <1>1, <1>2, <1>7, <2>2, EndKeeps DEF HermesDiscover
  <2>3. QED  BY <2>1, <2>2
<1>8. QED  BY <1>3, <1>4, <1>5, <1>6, <1>7

LEMMA LockStepKeeps ==
  ASSUME RunInv, NEW r \in Runner, WithConfigLock(r)
  PROVE  RunInv'
<1>1. Surroundings
  BY SurroundingsAre DEF WithConfigLock, TakeLock, FindLocked, Stat, Steal, Unlock, RunInv, TypeOK
<1>2. ~At(r, "idle")
  BY DEF WithConfigLock, TakeLock, FindLocked, Stat, Steal, Unlock, At
<1>3. CASE TakeLock(r)
  <2>1. Set(r, [runners[r] EXCEPT !.at = "read"]) /\ UNCHANGED flags /\ runners[r].at = "lock"
    BY <1>3 DEF TakeLock, At
  <2>2. QED  BY <1>1, <1>2, <2>1, GoOnKeeps DEF Steps, Answered
<1>4. CASE FindLocked(r)
  <2>1. Set(r, [runners[r] EXCEPT !.at = "stat"]) /\ UNCHANGED flags /\ runners[r].at = "lock"
    BY <1>4 DEF FindLocked, At
  <2>2. QED  BY <1>1, <1>2, <2>1, GoOnKeeps DEF Steps, Answered
<1>5. CASE Stat(r)
  <2>1. CASE Set(r, [runners[r] EXCEPT !.at = "steal"]) /\ UNCHANGED flags
    <3>1. runners[r].at = "stat"
      BY <1>5 DEF Stat, At
    <3>2. QED  BY <1>1, <1>2, <2>1, <3>1, GoOnKeeps DEF Steps, Answered
  <2>2. CASE NextTry(r)
    BY <1>1, <1>5, <2>2, NextTryKeeps DEF Stat, At
  <2>3. QED  BY <1>5, <2>1, <2>2 DEF Stat
<1>6. CASE Steal(r)
  BY <1>1, <1>6, NextTryKeeps DEF Steal, At
<1>7. CASE Unlock(r)
  <2>1. Retry(r) \/ End(r, TRUE)
    BY <1>7 DEF Unlock
  <2>2. QED  BY <1>1, <1>2, <2>1, RetryKeeps, EndKeeps
<1>8. QED  BY <1>3, <1>4, <1>5, <1>6, <1>7 DEF WithConfigLock

LEMMA BodyStepKeeps ==
  ASSUME RunInv, NEW r \in Runner,
         \/ Read(r) \/ ReadFails(r) \/ HermesRead(r) \/ HermesReadFails(r)
         \/ Publish(r) \/ WriteFails(r)
  PROVE  RunInv'
<1>1. Surroundings
  BY QuietSurroundings, PublishIs DEF Read, ReadFails, HermesRead, HermesReadFails, WriteFails
<1>2. ~At(r, "idle") /\ UNCHANGED flags
  BY DEF Read, ReadFails, HermesRead, HermesReadFails, Publish, WriteFails, At
<1>3. ASSUME \E result \in {"success", "fatal", "transient"} : Leave(r, result)
      PROVE  RunInv'
  BY <1>1, <1>2, <1>3, LeaveKeeps
<1>4. ASSUME Prepare(r), At(r, "read"), target = "openclaw" => ~file.missing,
             ~file.listed => target = "hermes" /\ runners[r].cmd = "sync"
      PROVE  RunInv'
  BY <1>1, <1>2, <1>4, PrepareKeeps
<1>5. CASE Read(r)
  BY <1>3, <1>4, <1>5 DEF Read, RunInv, FileListed
<1>6. CASE HermesRead(r)
  <2>1. target = "hermes" /\ At(r, "read")
    BY <1>6 DEF HermesRead
  <2>2. ASSUME ~file.listed, runners[r].cmd = "uninstall"
        PROVE  Merged(file, r) = file
    <3>1. file = Unlisted
      BY <2>2, FileIs DEF RunInv, TypeOK
    <3>2. Merged(file, r) = RemoveAllFfaiEntries(Unlisted)
      BY <2>1, <2>2, <3>1 DEF Merged
    <3>3. QED  BY <3>1, <3>2, SyncAssumption DEF RemoveAllFfaiEntries, Unlisted
  <2>3. runners[r].cmd \in {"sync", "uninstall"}
    BY DEF RunInv, TypeOK
  <2>4. QED  BY <1>3, <1>4, <1>6, <2>1, <2>2, <2>3 DEF HermesRead
<1>7. CASE ReadFails(r) \/ HermesReadFails(r) \/ Publish(r) \/ WriteFails(r)
  BY <1>3, <1>7 DEF ReadFails, HermesReadFails, Publish, WriteFails
<1>8. QED  BY <1>5, <1>6, <1>7

\* A run that begins, in a gateway that may run or a process that has none.
LEMMA BeginKeeps ==
  ASSUME RunInv, NEW r \in Runner, NEW g \in Gateway,
         Register(r, g) \/ SyncProviders(r, g) \/ Uninstall(r, g)
  PROVE  RunInv'
<1>1. runners \in [Runner -> Runs] /\ At(r, "idle")
  BY DEF RunInv, TypeOK, Runs, Steps, Register, SyncProviders, Uninstall, Command
<1>2. UNCHANGED <<target, file, lock, fired, robbed>>
  BY DEF Register, SyncProviders, Uninstall, Command, flags
<1>3. CASE Register(r, g)
  <2> DEFINE new == [Idle EXCEPT !.at = "config", !.in = g]
  <2>1. new \in Runs /\ new.at = "config" /\ new.in = g /\ new.cmd = "sync"
    BY IdleIs DEF Runs, Steps
  <2>2. Set(r, new) /\ ~fired[g] /\ ~inFlight[g] /\ inFlight' = [inFlight EXCEPT ![g] = TRUE]
        /\ target = "openclaw"
    BY <1>3 DEF Register, MayRun
  <2> HIDE DEF new
  <2>3. runners' \in [Runner -> Runs]
        /\ \A s \in Runner : runners'[s] = IF s = r THEN new ELSE runners[s]
    BY <1>1, <2>1, <2>2 DEF Set
  <2>4. TypeOK'
    BY <1>2, <2>2, <2>3 DEF RunInv, TypeOK, Runs, Steps
  <2>5. InCharge'
    <3>1. ASSUME NEW s \in Runner, s # r, ~At(s, "idle")
          PROVE  /\ runners[s].in \in Gateway /\ runners[s].in # g
                 /\ inFlight[runners[s].in] /\ ~fired[runners[s].in]
      BY <2>2, <3>1 DEF RunInv, InCharge
    <3>2. \A h \in Gateway : inFlight'[h] <=> h = g \/ inFlight[h]
      BY <2>2 DEF RunInv, TypeOK
    <3>3. QED  BY <1>2, <2>1, <2>2, <2>3, <3>1, <3>2 DEF RunInv, InCharge, At
  <2>6. SomethingGot' /\ SeenKept' /\ FileListed'
    BY <1>2, <2>1, <2>3 DEF RunInv, SomethingGot, SeenKept, FileListed, At, Answered
  <2>7. QED  BY <2>4, <2>5, <2>6 DEF RunInv
<1>4. ASSUME NEW cmd \in {"sync", "uninstall"}, NEW step \in {"fetch", "lock"},
             Command(r, g, cmd, step), cmd = "sync" => step = "fetch"
      PROVE  RunInv'
  <2> DEFINE new == [Idle EXCEPT !.in = g, !.cmd = cmd, !.at = step]
  <2>1. new \in Runs /\ new.at = step /\ new.in = g /\ new.cmd = cmd
    BY IdleIs DEF Runs, Steps
  <2>2. Set(r, new) /\ target = "hermes" /\ UNCHANGED flags
    BY <1>4 DEF Command
  <2> HIDE DEF new
  <2>3. runners' \in [Runner -> Runs]
        /\ \A s \in Runner : runners'[s] = IF s = r THEN new ELSE runners[s]
    BY <1>1, <2>1, <2>2 DEF Set
  <2>4. TypeOK'
    BY <1>2, <2>2, <2>3 DEF RunInv, TypeOK, Runs, Steps, flags
  <2>5. InCharge'
    BY <1>2, <2>2 DEF InCharge
  <2>6. SomethingGot' /\ SeenKept' /\ FileListed'
    BY <1>2, <1>4, <2>1, <2>2, <2>3 DEF RunInv, SomethingGot, SeenKept, FileListed, At, Answered
  <2>7. QED  BY <2>4, <2>5, <2>6 DEF RunInv
<1>5. QED  BY <1>3, <1>4 DEF SyncProviders, Uninstall

LEMMA CrashKeeps == ASSUME RunInv, NEW g \in Gateway, Crash(g) PROVE RunInv'
<1>1. runners \in [Runner -> Runs]
  BY DEF RunInv, TypeOK, Runs, Steps
<1>2. runners' \in [Runner -> Runs]
      /\ \A r \in Runner : runners'[r] = IF runners[r].in = g THEN Idle ELSE runners[r]
  BY <1>1, IdleIs DEF Crash, InProcess
<1>3. /\ UNCHANGED <<target, file, lock>> /\ robbed' \in BOOLEAN
      /\ fired' = [fired EXCEPT ![g] = FALSE] /\ inFlight' = [inFlight EXCEPT ![g] = FALSE]
  BY DEF Crash, RunInv, TypeOK
<1>4. TypeOK'
  BY <1>2, <1>3 DEF RunInv, TypeOK, Runs, Steps
<1>5. InCharge'
  <2>1. \A h \in Gateway : h # g => fired'[h] = fired[h] /\ inFlight'[h] = inFlight[h]
    BY <1>3 DEF RunInv, TypeOK
  <2>2. QED  BY <1>2, <1>3, <2>1, IdleIs DEF RunInv, InCharge, At
<1>6. SomethingGot' /\ SeenKept' /\ FileListed'
  BY <1>2, <1>3, IdleIs DEF RunInv, SomethingGot, SeenKept, FileListed, At, Answered
<1>7. QED  BY <1>4, <1>5, <1>6 DEF RunInv

LEMMA RunNext == ASSUME RunInv, [Next]_vars PROVE RunInv'
<1>1. ASSUME NEW r \in Runner, Step(r)
      PROVE  RunInv'
  BY <1>1, OutsideStepKeeps, LockStepKeeps, BodyStepKeeps
     DEF Step, OpenClawStep, HermesStep, Write, HermesWrite
<1>2. CASE Age \/ UNCHANGED vars
  BY <1>2 DEF Age, vars, flags, RunInv, TypeOK, InCharge, SomethingGot, SeenKept, FileListed, At
<1>3. QED  BY <1>1, <1>2, BeginKeeps, CrashKeeps DEF Next

LEMMA RunAlways == Spec => []RunInv
  BY RunInit, RunNext, PTL DEF Spec

-----------------------------------------------------------------------------
(* The lock.                                                               *)

LEMMA LockInit == ASSUME Init PROVE LockInv
  BY IdleIs DEF Init, LockInv, Inside, At

LEMMA InsideIs == \A r \in Runner : r \in Inside <=> runners[r].at \in Locked
  BY DEF Inside, Locked

\* Of a run that moves, and of the others.
LEMMA SetIs ==
  ASSUME RunInv, NEW r \in Runner, NEW new, Set(r, new)
  PROVE  \A s \in Runner : runners'[s] = IF s = r THEN new ELSE runners[s]
  BY DEF RunInv, TypeOK, Set

\* Outside the lock a run changes nothing.
LEMMA OutsideKeepsLock ==
  ASSUME RunInv, LockInv, NEW r \in Runner, runners[r].at \notin Locked,
         NEW new, Set(r, new), new.at \notin Locked, UNCHANGED <<file, lock, robbed>>
  PROVE  LockInv'
<1>1. \A s \in Runner : runners'[s] = IF s = r THEN new ELSE runners[s]
  BY SetIs
<1>2. Inside' = Inside
  BY <1>1 DEF Inside, Locked
<1>3. \A s \in Runner : At(s, "write")' => At(s, "write") /\ runners'[s] = runners[s]
  BY <1>1 DEF At, Locked
<1>4. QED  BY <1>2, <1>3 DEF LockInv

\* Inside it, a run that reads the file has what the file holds.
LEMMA InsideKeepsLock ==
  ASSUME RunInv, LockInv, NEW r \in Runner, runners[r].at \in Locked,
         NEW new, Set(r, new), new.at \in Locked, new.at = "write" => new.seen = file,
         UNCHANGED <<file, lock, robbed>>
  PROVE  LockInv'
<1>1. \A s \in Runner : runners'[s] = IF s = r THEN new ELSE runners[s]
  BY SetIs
<1>2. Inside' = Inside
  BY <1>1 DEF Inside, Locked
<1>3. \A s \in Runner : At(s, "write")' =>
        \/ At(s, "write") /\ runners'[s] = runners[s]
        \/ runners'[s].seen = file
  BY <1>1 DEF At
<1>4. QED  BY <1>2, <1>3 DEF LockInv

\* A run that ends or tries again has left.
LEMMA OutsideAfter ==
  ASSUME RunInv, NEW r \in Runner, Retry(r) \/ NextTry(r) \/ \E done \in BOOLEAN : End(r, done)
  PROVE  \E new : Set(r, new) /\ new.at \notin Locked
<1>1. runners[r] \in Runs
  BY DEF RunInv, TypeOK, Runs, Steps
<1>2. Idle.at \notin Locked
  BY IdleIs DEF Locked
<1>3. ASSUME \E done \in BOOLEAN : End(r, done)
      PROVE  \E new : Set(r, new) /\ new.at \notin Locked
  BY <1>2, <1>3 DEF End
<1>4. CASE Retry(r)
  <2> DEFINE new == [runners[r] EXCEPT !.at = "sleep", !.attempt = @ + 1, !.result = "none"]
  <2>1. new.at \notin Locked
    BY <1>1 DEF Locked, Runs
  <2>2. Set(r, new) \/ End(r, FALSE)
    BY <1>4 DEF Retry
  <2>3. QED  BY <1>3, <2>1, <2>2
<1>5. CASE NextTry(r)
  <2> DEFINE new == [runners[r] EXCEPT !.at = "lock", !.tries = @ + 1]
  <2>1. new.at \notin Locked
    BY <1>1 DEF Locked, Runs
  <2>2. Set(r, new) \/ End(r, FALSE)
    BY <1>5 DEF NextTry
  <2>3. QED  BY <1>3, <2>1, <2>2
<1>6. QED  BY <1>3, <1>4, <1>5

\* A step outside the lock ends outside.
LEMMA OutsideStepMoves ==
  ASSUME RunInv, NEW r \in Runner,
         \/ Configure(r) \/ Probe(r) \/ Wake(r) \/ FindLocked(r) \/ Stat(r)
         \/ \E answer \in BuildFfaiProviders : Discover(r, answer)
         \/ \E answer \in DiscoverProviders : HermesDiscover(r, answer)
  PROVE  /\ runners[r].at \notin Locked
         /\ UNCHANGED <<file, lock, robbed>>
         /\ \E new : Set(r, new) /\ new.at \notin Locked
<1>1. runners[r] \in Runs
  BY DEF RunInv, TypeOK, Runs, Steps
<1>2. runners[r].at \notin Locked /\ UNCHANGED <<file, lock, robbed>>
  BY DEF Configure, Probe, Wake, FindLocked, Stat, Discover, HermesDiscover, At, Locked
<1>3. \A step \in Steps \ Locked : [runners[r] EXCEPT !.at = step].at \notin Locked
  BY <1>1 DEF Runs
<1>4. ASSUME NEW step \in {"probe", "fetch", "stat", "steal"},
             Set(r, [runners[r] EXCEPT !.at = step])
      PROVE  \E new : Set(r, new) /\ new.at \notin Locked
  BY <1>3, <1>4 DEF Steps, Locked
<1>5. ASSUME NEW answer, Proceed(r, answer)
      PROVE  \E new : Set(r, new) /\ new.at \notin Locked
  <2> DEFINE new == [runners[r] EXCEPT !.at = "lock", !.tries = 0, !.got = answer.groups]
  <2>1. new.at \notin Locked
    BY <1>1 DEF Locked, Runs
  <2>2. QED  BY <1>5, <2>1 DEF Proceed
<1>6. CASE Probe(r)
  <2> DEFINE next == [runners[r] EXCEPT !.at = "fetch", !.attempt = 1]
  <2>1. next.at \notin Locked
    BY <1>1 DEF Locked, Runs
  <2>2. Set(r, next)
    BY <1>6 DEF Probe
  <2> HIDE DEF next
  <2>3. QED  BY <1>2, <2>1, <2>2
<1>7. CASE Configure(r)
  <2>1. Set(r, [runners[r] EXCEPT !.at = "probe"]) \/ End(r, TRUE)
    BY <1>7 DEF Configure
  <2>2. CASE Set(r, [runners[r] EXCEPT !.at = "probe"])
    BY <1>2, <1>4, <2>2
  <2>3. QED  BY <1>2, <2>1, <2>2, OutsideAfter
<1>8. CASE Wake(r) \/ FindLocked(r)
  <2>1. PICK step \in {"fetch", "stat"} : Set(r, [runners[r] EXCEPT !.at = step])
    BY <1>8 DEF Wake, FindLocked
  <2>2. QED  BY <1>2, <1>4, <2>1
<1>9. CASE Stat(r)
  <2>1. Set(r, [runners[r] EXCEPT !.at = "steal"]) \/ NextTry(r)
    BY <1>9 DEF Stat
  <2>2. CASE Set(r, [runners[r] EXCEPT !.at = "steal"])
    BY <1>2, <1>4, <2>2
  <2>3. QED  BY <1>2, <2>1, <2>2, OutsideAfter
<1>10. ASSUME NEW answer, Discover(r, answer) \/ HermesDiscover(r, answer)
       PROVE  \E new : Set(r, new) /\ new.at \notin Locked
  <2>1. Proceed(r, answer) \/ Retry(r) \/ End(r, FALSE)
    BY <1>10 DEF Discover, HermesDiscover
  <2>2. QED  BY <1>5, <2>1, OutsideAfter
<1>11. QED  BY <1>2, <1>6, <1>7, <1>8, <1>9, <1>10

LEMMA BodyStepKeepsLock ==
  ASSUME RunInv, LockInv, NEW r \in Runner,
         Read(r) \/ ReadFails(r) \/ HermesRead(r) \/ HermesReadFails(r) \/ WriteFails(r)
  PROVE  LockInv'
<1>1. runners[r] \in Runs
  BY DEF RunInv, TypeOK, Runs, Steps
<1>2. runners[r].at \in Locked /\ UNCHANGED <<file, lock, robbed>>
  BY DEF Read, ReadFails, HermesRead, HermesReadFails, WriteFails, At, Locked
<1>3. ASSUME NEW result, Leave(r, result)
      PROVE  LockInv'
  <2> DEFINE new == [runners[r] EXCEPT !.at = "unlock", !.result = result,
                                       !.tries = 0, !.got = {}, !.seen = Missing]
  <2>1. new.at = "unlock"
    BY <1>1 DEF Runs
  <2>2. Set(r, new)
    BY <1>3 DEF Leave
  <2> HIDE DEF new
  <2>3. QED  BY <1>2, <2>1, <2>2, InsideKeepsLock DEF Locked
<1>4. CASE Prepare(r)
  <2> DEFINE new == [runners[r] EXCEPT !.at = "write", !.seen = file]
  <2>1. new.at = "write" /\ new.seen = file
    BY <1>1 DEF Runs
  <2>2. Set(r, new)
    BY <1>4 DEF Prepare
  <2> HIDE DEF new
  <2>3. QED  BY <1>2, <2>1, <2>2, InsideKeepsLock DEF Locked
<1>5. Prepare(r) \/ \E result : Leave(r, result)
  BY DEF Read, ReadFails, HermesRead, HermesReadFails, WriteFails
<1>6. QED  BY <1>3, <1>4, <1>5

\* Nobody else is inside to have read the file before.
LEMMA PublishKeepsLock ==
  ASSUME RunInv, LockInv, NEW r \in Runner, Publish(r)
  PROVE  LockInv'
<1> DEFINE new == [runners[r] EXCEPT !.at = "unlock", !.result = "success",
                                     !.tries = 0, !.got = {}, !.seen = Missing]
<1>1. new.at = "unlock"
  BY DEF RunInv, TypeOK
<1>2. Set(r, new) /\ At(r, "write") /\ UNCHANGED <<lock, robbed>>
  BY DEF Publish, Leave
<1> HIDE DEF new
<1>3. \A s \in Runner : runners'[s] = IF s = r THEN new ELSE runners[s]
  BY <1>2, SetIs
<1>4. Inside' = Inside
  BY <1>1, <1>2, <1>3 DEF Inside, At
<1>5. ASSUME ~robbed, NEW s \in Runner, At(s, "write")'
      PROVE  FALSE
  <2>1. s # r /\ At(s, "write")
    BY <1>1, <1>3, <1>5 DEF At
  <2>2. s \in Inside /\ r \in Inside
    BY <1>2, <2>1 DEF Inside, At
  <2>3. QED  BY <1>5, <2>1, <2>2 DEF LockInv
<1>6. QED  BY <1>2, <1>4, <1>5 DEF LockInv

LEMMA TakeLockKeepsLock ==
  ASSUME RunInv, LockInv, NEW r \in Runner, TakeLock(r)
  PROVE  LockInv'
<1> DEFINE new == [runners[r] EXCEPT !.at = "read"]
<1>1. new.at = "read"
  BY DEF RunInv, TypeOK
<1>2. Set(r, new) /\ lock = "none" /\ lock' = "fresh" /\ UNCHANGED <<file, robbed>>
  BY DEF TakeLock
<1> HIDE DEF new
<1>3. \A s \in Runner : runners'[s] = IF s = r THEN new ELSE runners[s]
  BY <1>2, SetIs
<1>4. Inside' = Inside \cup {r}
  BY <1>1, <1>3 DEF Inside
<1>5. \A s \in Runner : At(s, "write")' => At(s, "write") /\ runners'[s] = runners[s]
  BY <1>1, <1>3 DEF At
<1>6. QED  BY <1>2, <1>4, <1>5 DEF LockInv

\* A lock that is removed while its owner works is one that was stolen.
LEMMA StealKeepsLock ==
  ASSUME RunInv, LockInv, NEW r \in Runner, Steal(r)
  PROVE  LockInv'
<1>1. PICK new : Set(r, new) /\ new.at \notin Locked
  BY OutsideAfter DEF Steal
<1>2. robbed' = (robbed \/ Inside # {}) /\ UNCHANGED file
  BY DEF Steal
<1>3. \A s \in Runner : runners'[s] = IF s = r THEN new ELSE runners[s]
  BY <1>1, SetIs
<1>4. Inside' = Inside
  BY <1>1, <1>3 DEF Inside, Steal, At, Locked
<1>5. ASSUME ~robbed' PROVE Inside' = {} /\ \A s \in Runner : ~At(s, "write")'
  BY <1>2, <1>4, <1>5 DEF Inside, At
<1>6. QED  BY <1>5 DEF LockInv

\* The last one to leave closes the matter of a lock that was stolen.
LEMMA UnlockKeepsLock ==
  ASSUME RunInv, LockInv, NEW r \in Runner, Unlock(r)
  PROVE  LockInv'
<1>1. PICK new : Set(r, new) /\ new.at \notin Locked
  BY OutsideAfter DEF Unlock
<1>2. robbed' = (robbed /\ Inside' # {}) /\ UNCHANGED file /\ r \in Inside
  BY DEF Unlock, Inside, At
<1>3. \A s \in Runner : runners'[s] = IF s = r THEN new ELSE runners[s]
  BY <1>1, SetIs
<1>4. Inside' = Inside \ {r}
  BY <1>1, <1>3 DEF Inside, Locked
<1>5. ASSUME ~robbed' PROVE Inside' = {}
  <2>1. CASE robbed
    BY <1>2, <1>5, <2>1
  <2>2. CASE ~robbed
    BY <1>2, <1>4, <2>2 DEF LockInv
  <2>3. QED  BY <2>1, <2>2
<1>6. Inside' = {} => \A s \in Runner : ~At(s, "write")'
  BY DEF Inside, At
<1>7. QED  BY <1>5, <1>6 DEF LockInv

LEMMA CrashKeepsLock ==
  ASSUME RunInv, LockInv, NEW g \in Gateway, Crash(g)
  PROVE  LockInv'
<1>1. \A s \in Runner : runners'[s] = IF s \in InProcess(g) THEN Idle ELSE runners[s]
  BY DEF Crash
<1>2. /\ robbed' = (robbed /\ Inside' # {}) /\ UNCHANGED <<file, lock>>
  BY DEF Crash
<1>3. Inside' \subseteq Inside
  BY <1>1, IdleIs DEF Inside
<1>4. \A s \in Runner : At(s, "write")' => At(s, "write") /\ runners'[s] = runners[s]
  BY <1>1, IdleIs DEF At
<1>5. Inside' = {} => \A s \in Runner : ~At(s, "write")'
  BY DEF Inside, At
<1>6. CASE Inside' = {}
  BY <1>5, <1>6 DEF LockInv
<1>7. CASE Inside' # {}
  BY <1>2, <1>3, <1>4, <1>7 DEF LockInv
<1>8. QED  BY <1>6, <1>7

LEMMA BeginKeepsLock ==
  ASSUME RunInv, LockInv, NEW r \in Runner, NEW g \in Gateway,
         Register(r, g) \/ SyncProviders(r, g) \/ Uninstall(r, g)
  PROVE  LockInv'
<1>1. runners[r].at \notin Locked /\ UNCHANGED <<file, lock, robbed>>
  BY DEF Register, SyncProviders, Uninstall, Command, At, Locked
<1>2. \E new : Set(r, new) /\ new.at \notin Locked
  <2>1. CASE Register(r, g)
    <3> DEFINE new == [Idle EXCEPT !.at = "config", !.in = g]
    <3>1. new.at \notin Locked
      BY DEF Idle, Locked
    <3>2. QED  BY <2>1, <3>1 DEF Register
  <2>2. ASSUME NEW cmd, NEW step \in {"fetch", "lock"}, Command(r, g, cmd, step)
        PROVE  \E new : Set(r, new) /\ new.at \notin Locked
    <3> DEFINE new == [Idle EXCEPT !.in = g, !.cmd = cmd, !.at = step]
    <3>1. new.at \notin Locked
      BY DEF Idle, Locked
    <3>2. QED  BY <2>2, <3>1 DEF Command
  <2>3. QED  BY <2>1, <2>2 DEF SyncProviders, Uninstall
<1>3. QED  BY <1>1, <1>2, OutsideKeepsLock

LEMMA LockNext == ASSUME RunInv, LockInv, [Next]_vars PROVE LockInv'
<1>1. ASSUME NEW r \in Runner,
             \/ Configure(r) \/ Probe(r) \/ Wake(r) \/ FindLocked(r) \/ Stat(r)
             \/ \E answer \in BuildFfaiProviders : Discover(r, answer)
             \/ \E answer \in DiscoverProviders : HermesDiscover(r, answer)
      PROVE  LockInv'
  BY <1>1, OutsideStepMoves, OutsideKeepsLock
<1>2. ASSUME NEW r \in Runner, Step(r)
      PROVE  LockInv'
  BY <1>1, <1>2, BodyStepKeepsLock, PublishKeepsLock, TakeLockKeepsLock, StealKeepsLock,
     UnlockKeepsLock
     DEF Step, OpenClawStep, HermesStep, WithConfigLock, Write, HermesWrite
<1>3. CASE Age \/ UNCHANGED vars
  BY <1>3 DEF Age, vars, LockInv, Inside, At
<1>4. QED  BY <1>2, <1>3, BeginKeepsLock, CrashKeepsLock DEF Next

LEMMA LockAlways == Spec => []LockInv
<1>1. RunInv /\ LockInv /\ [Next]_vars => LockInv'
  BY LockNext
<1>2. QED  BY LockInit, RunAlways, <1>1, PTL DEF Spec

-----------------------------------------------------------------------------
\* Type correctness.
THEOREM SyncTypeOK == Spec => []TypeOK
  BY RunAlways, PTL DEF RunInv

\* A gateway that has published does not touch the file again: while a run is
\* under way in it, no other one is and the flag is not set.
THEOREM SyncFiresOnce == Spec => FiresOnce
<1>1. ASSUME RunInv, NEW r \in Runner, Write(r)
      PROVE  ~fired[runners[r].in]
  BY <1>1 DEF RunInv, InCharge, Write, Publish, At
<1>2. RunInv => \A r \in Runner : Write(r) => ~fired[runners[r].in]
  BY <1>1
<1>3. RunInv /\ [Next]_vars => [\A r \in Runner : Write(r) => ~fired[runners[r].in]]_vars
  BY <1>2
<1>4. QED  BY <1>3, RunAlways, PTL DEF Spec, FiresOnce

\* Whoever writes the file has read it as it is, unless a lock was stolen from
\* one who was at work: the lock keeps others out, through crashes and the
\* stale locks they leave.
THEOREM SyncNoLostUpdate == Spec => NoLostUpdate
<1>1. LockInv => \A r \in Runner : Publish(r) /\ ~robbed => runners[r].seen = file
  BY DEF LockInv, Publish
<1>2. LockInv /\ [Next]_vars =>
        [\A r \in Runner : Publish(r) /\ ~robbed => runners[r].seen = file]_vars
  BY <1>1
<1>3. QED  BY <1>2, LockAlways, PTL DEF Spec, NoLostUpdate

\* Even then the entries of other origin stay if the file has a list for them,
\* and those of FFAI are replaced by others unless it is an uninstall.
THEOREM SyncNeverWiped == Spec => NeverWiped
<1> DEFINE Wiped ==
      /\ file.listed => file.providers \ Ours = file'.providers \ Ours
      /\ file.providers \cap Ours # {} /\ file'.providers \cap Ours = {} =>
           \E r \in Inside : runners[r].cmd = "uninstall"
<1>1. ASSUME RunInv, Next
      PROVE  UNCHANGED file \/ \E r \in Runner : Publish(r)
  BY <1>1 DEF Next, Step, OpenClawStep, HermesStep, WithConfigLock, Configure, Probe, Wake,
       Discover, HermesDiscover, Read, ReadFails, HermesRead, HermesReadFails, Write, HermesWrite,
       WriteFails, TakeLock, FindLocked, Stat, Steal, Unlock, Register, SyncProviders, Uninstall,
       Command, Crash, Age
<1>2. ASSUME RunInv, NEW r \in Runner, Publish(r)
      PROVE  Wiped
  <2>1. file.listed => file'.providers \ Ours = file.providers \ Ours
    BY <1>2, PublishIs DEF Surroundings
  <2>2. r \in Inside /\ runners[r] \in Runs
    BY <1>2 DEF Publish, Inside, At, RunInv, TypeOK, Runs, Steps
  <2>3. CASE runners[r].cmd = "sync"
    <3>1. runners[r].got # {} /\ runners[r].got \subseteq file'.providers
      BY <1>2, <2>3, PublishIs
    <3>2. runners[r].got \subseteq Ours
      BY <2>2 DEF Runs
    <3>3. QED  BY <2>1, <3>1, <3>2
  <2>4. CASE runners[r].cmd = "uninstall"
    BY <2>1, <2>2, <2>4
  <2>5. QED  BY <2>2, <2>3, <2>4 DEF Runs
<1>3. RunInv /\ [Next]_vars => [Wiped]_vars
  BY <1>1, <1>2
<1>4. QED  BY <1>3, RunAlways, PTL DEF Spec, NeverWiped
=============================================================================
