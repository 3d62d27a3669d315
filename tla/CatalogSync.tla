---------------------------- MODULE CatalogSync ----------------------------
(***************************************************************************)
(* The plugins that publish FFAI's catalog in another program's            *)
(* configuration: the OpenClaw plugin, which a gateway registers again      *)
(* whenever its configuration changes and which writes openclaw.json        *)
(* (catalog-sync.ts), and the Hermes commands install, sync and uninstall,  *)
(* which write config.yaml (hermes-plugin/lib).  Each file is guarded by a  *)
(* lock directory; yaml-io.js mirrors the lock of catalog-sync.ts.          *)
(*                                                                          *)
(* What a plugin takes from FFAI is the set of the backends that list      *)
(* models; OpenClaw gets a virtual provider of the favourites besides.      *)
(*                                                                          *)
(* A behaviour is about one of the two files, chosen at the start.  One     *)
(* action is what happens between two awaits.  A runner is one pass through *)
(* runCatalogSync, or one command.  Programs that write the file without    *)
(* taking the lock are not modelled.                                        *)
(***************************************************************************)
EXTENDS Naturals, FiniteSets

CONSTANTS
  Runner,       \* runs of the sync, or commands
  Gateway,      \* the processes that run them
  Backend,      \* the providers behind FFAI, each with its ffai-* entry
  Favorites,    \* the ffai-* entry that is reserved for the favourites
  Others,       \* entries of other origin
  Allowlist,    \* what OpenClaw's allowlist has of them; empty if there is none
  MaxAttempts,  \* RETRY_DELAYS_MS.length + 1
  MaxTries      \* attempts to take the lock

Ours == Backend \cup {Favorites}

ASSUME SyncAssumption ==
  /\ Favorites \notin Backend /\ Ours \cap Others = {} /\ Allowlist \subseteq Others
  /\ MaxAttempts \in Nat \ {0} /\ MaxTries \in Nat \ {0}

VARIABLES
  target,   \* which file the behaviour is about: "openclaw" or "hermes"
  file,     \* its content: providers, and refs, the allowlist; or Missing, or Unlisted
  lock,     \* the lock directory: "none", "fresh", or "stale" after a minute
  fired,    \* gateway -> syncFlags.fired
  inFlight, \* gateway -> syncFlags.inFlight
  runners,  \* runner -> what it is doing and what it knows
  robbed    \* history: those at work came to it by a lock removed from its owner

flags == <<fired, inFlight>>
vars  == <<target, file, lock, flags, runners, robbed>>

Missing == [providers |-> {}, refs |-> {}, missing |-> TRUE, listed |-> TRUE]
Content(p, a) == [providers |-> p, refs |-> a, missing |-> FALSE, listed |-> TRUE]

\* A config.yaml that is no mapping, or whose custom_providers is no list.
Unlisted == [providers |-> Others, refs |-> {}, missing |-> FALSE, listed |-> FALSE]

NoGateway == "none"

Idle == [at |-> "idle", in |-> NoGateway, cmd |-> "sync", attempt |-> 0, tries |-> 0,
         got |-> {}, seen |-> Missing, result |-> "none"]

At(r, step) == runners[r].at = step
Inside == {r \in Runner : runners[r].at \in {"read", "write", "unlock"}}
InProcess(g) == {r \in Runner : runners[r].in = g}
Set(r, new) == runners' = [runners EXCEPT ![r] = new]

Entries == Ours \cup Others
File == {Missing, Unlisted} \cup
        {Content(p, a) : p \in SUBSET Entries, a \in SUBSET Entries}

TypeOK ==
  /\ target \in {"openclaw", "hermes"}
  /\ file \in File
  /\ lock \in {"none", "fresh", "stale"}
  /\ fired \in [Gateway -> BOOLEAN] /\ inFlight \in [Gateway -> BOOLEAN]
  /\ runners \in [Runner ->
       [at : {"idle", "config", "probe", "fetch", "sleep", "lock", "stat", "steal",
              "read", "write", "unlock"},
        in : Gateway \cup {NoGateway},
        cmd : {"sync", "uninstall"}, attempt : 0..MaxAttempts, tries : 0..MaxTries,
        got : SUBSET Ours, seen : File,
        result : {"none", "success", "fatal", "transient"}]]
  /\ robbed \in BOOLEAN

Init ==
  /\ target \in {"openclaw", "hermes"}
  /\ file \in {Missing} \cup
       IF target = "openclaw" THEN {Content(Others, Allowlist)}
                              ELSE {Content(Others, {}), Unlisted}
  /\ lock = "none"
  /\ fired = [g \in Gateway |-> FALSE]
  /\ inFlight = [g \in Gateway |-> FALSE]
  /\ runners = [r \in Runner |-> Idle]
  /\ robbed = FALSE

-----------------------------------------------------------------------------
(* Beginning and end of a run.                                             *)

\* Mutant: the guard looks at the success of earlier runs alone.
MayRunUnlessFired(g) == ~fired[g]

\* The re-entry guard of runCatalogSync.
MayRun(g) == ~fired[g] /\ ~inFlight[g]

Register(r, g) ==
  /\ target = "openclaw"
  /\ At(r, "idle")
  /\ MayRun(g)
  /\ inFlight' = [inFlight EXCEPT ![g] = TRUE]
  /\ Set(r, [Idle EXCEPT !.at = "config", !.in = g])
  /\ UNCHANGED <<target, file, lock, fired, robbed>>

\* A Hermes command, with its first await.
Command(r, g, cmd, step) ==
  /\ target = "hermes"
  /\ At(r, "idle") /\ InProcess(g) = {}
  /\ Set(r, [Idle EXCEPT !.in = g, !.cmd = cmd, !.at = step])
  /\ UNCHANGED <<target, file, lock, flags, robbed>>

SyncProviders(r, g) == Command(r, g, "sync", "fetch")

Uninstall(r, g) == Command(r, g, "uninstall", "lock")

\* A run ends, with the flag that says whether another may follow.
End(r, done) ==
  LET g == runners[r].in IN
  /\ Set(r, Idle)
  /\ IF target = "hermes" THEN UNCHANGED flags
     ELSE /\ fired' = [fired EXCEPT ![g] = @ \/ done]
          /\ inFlight' = [inFlight EXCEPT ![g] = FALSE]

\* normalizeCatalogSyncConfig: is the sync switched on?
CatalogSyncEnabled == BOOLEAN

\* The file says whether to sync; if not, there is nothing more to do.
Configure(r) ==
  /\ At(r, "config")
  /\ \E on \in CatalogSyncEnabled :
       IF on THEN Set(r, [runners[r] EXCEPT !.at = "probe"]) /\ UNCHANGED flags
             ELSE End(r, TRUE)
  /\ UNCHANGED <<target, file, lock, robbed>>

\* resolveDetectedBaseUrl: is FFAI to be reached at another address?
Probe(r) ==
  /\ At(r, "probe")
  /\ Set(r, [runners[r] EXCEPT !.at = "fetch", !.attempt = 1])
  /\ UNCHANGED <<target, file, lock, flags, robbed>>

\* Mutant: the attempts are not counted.
RetryUncounted(r) == Set(r, [runners[r] EXCEPT !.at = "sleep"]) /\ UNCHANGED flags

\* A transient failure: another attempt after a delay, or giving up.
Retry(r) ==
  IF runners[r].attempt < MaxAttempts
    THEN Set(r, [runners[r] EXCEPT !.at = "sleep", !.attempt = @ + 1, !.result = "none"])
         /\ UNCHANGED flags
    ELSE End(r, FALSE)

Wake(r) ==
  /\ At(r, "sleep")
  /\ Set(r, [runners[r] EXCEPT !.at = "fetch"])
  /\ UNCHANGED <<target, file, lock, flags, robbed>>

\* Mutant: whatever FFAI answers is published.
WorthWriting(answer) == answer.fetched

\* Wipe protection: an answer that is an error, or has no provider, is not used.
Usable(answer) == answer.fetched /\ answer.groups # {}

NoAnswer == [fetched |-> FALSE, groups |-> {}]
Fetched(groups) == [fetched |-> TRUE, groups |-> groups]

\* fetchFfaiModels: the backends of the models that are listed, less a backend
\* that goes by the reserved name.
FfaiModels == SUBSET Backend

\* groupModelsByProvider: an entry that only echoes the backend's name makes no group.
GroupModelsByProvider(listed) == SUBSET listed

\* buildFavoritesGroup: some favourite is among the models, or none is.
BuildFavoritesGroup(listed) == IF listed = {} THEN {{}} ELSE {{}, {Favorites}}

BuildFfaiProviders ==
  {NoAnswer} \cup
  UNION {{Fetched(g \cup f) : g \in GroupModelsByProvider(l), f \in BuildFavoritesGroup(l)} :
         l \in FfaiModels}

Proceed(r, answer) ==
  Set(r, [runners[r] EXCEPT !.at = "lock", !.tries = 0, !.got = answer.groups])

Discover(r, answer) ==
  /\ target = "openclaw" /\ At(r, "fetch")
  /\ IF Usable(answer) THEN Proceed(r, answer) /\ UNCHANGED flags ELSE Retry(r)
  /\ UNCHANGED <<target, file, lock, robbed>>

\* discoverProviders: favourites are skipped, failures and timeouts reported.
DiscoverProviders == {NoAnswer} \cup {Fetched(groups) : groups \in SUBSET Backend}

\* The same protection, without another attempt.
HermesDiscover(r, answer) ==
  /\ target = "hermes" /\ At(r, "fetch")
  /\ IF answer.fetched /\ answer.groups # {} THEN Proceed(r, answer) /\ UNCHANGED flags
                                           ELSE End(r, FALSE)
  /\ UNCHANGED <<target, file, lock, robbed>>

-----------------------------------------------------------------------------
(* withConfigLock.                                                         *)

\* The next of the tries, or an error that ends the run, retries and all.
NextTry(r) ==
  IF runners[r].tries + 1 < MaxTries
    THEN Set(r, [runners[r] EXCEPT !.at = "lock", !.tries = @ + 1]) /\ UNCHANGED flags
    ELSE End(r, FALSE)

\* Mutant: return body() without await, so that finally runs at once.
LockAndLetGo(r) ==
  /\ At(r, "lock") /\ lock = "none"
  /\ Set(r, [runners[r] EXCEPT !.at = "read"])
  /\ UNCHANGED <<target, file, lock, flags, robbed>>

\* mkdir succeeds.
TakeLock(r) ==
  /\ At(r, "lock") /\ lock = "none"
  /\ lock' = "fresh"
  /\ Set(r, [runners[r] EXCEPT !.at = "read"])
  /\ UNCHANGED <<target, file, flags, robbed>>

\* mkdir says EEXIST.
FindLocked(r) ==
  /\ At(r, "lock") /\ lock # "none"
  /\ Set(r, [runners[r] EXCEPT !.at = "stat"])
  /\ UNCHANGED <<target, file, lock, flags, robbed>>

Stat(r) ==
  /\ At(r, "stat")
  /\ IF lock = "stale" THEN Set(r, [runners[r] EXCEPT !.at = "steal"]) /\ UNCHANGED flags
                       ELSE NextTry(r)
  /\ UNCHANGED <<target, file, lock, robbed>>

\* rmdir of whatever lock is there by now.
Steal(r) ==
  /\ At(r, "steal")
  /\ lock' = "none"
  /\ robbed' = (robbed \/ Inside # {})
  /\ NextTry(r)
  /\ UNCHANGED <<target, file>>

Unlock(r) ==
  /\ At(r, "unlock")
  /\ lock' = "none"
  /\ IF runners[r].result = "transient" THEN Retry(r) ELSE End(r, TRUE)
  /\ robbed' = (robbed /\ Inside' # {})
  /\ UNCHANGED <<target, file>>

\* The lock is the same in yaml-io.js.
WithConfigLock(r) == TakeLock(r) \/ FindLocked(r) \/ Stat(r) \/ Steal(r) \/ Unlock(r)

-----------------------------------------------------------------------------
(* The body under the lock.                                                *)

\* mergeFfaiProvidersIntoConfig: the ffai-* entries are replaced.
MergeProviders(doc, got) == [doc EXCEPT !.providers = (@ \ Ours) \cup got]

\* syncFfaiAllowlist: an allowlist is only added to, and one that is empty left alone.
SyncAllowlist(doc, got) == [doc EXCEPT !.refs = IF @ = {} THEN {} ELSE @ \cup got]

\* removeCustomProvidersWhere, for the names that start with ffai-.
RemoveAllFfaiEntries(doc) == [doc EXCEPT !.providers = @ \ Ours]

\* A document without the list gets an empty one, whatever is in its place.
EnsureCustomProvidersSeq(doc) ==
  IF doc.listed THEN [doc EXCEPT !.missing = FALSE] ELSE Content({}, doc.refs)

\* upsertCustomProvider.
Upsert(doc, got) == [EnsureCustomProvidersSeq(doc) EXCEPT !.providers = @ \cup got]

ApplyCustomProviders(doc, got) == Upsert(RemoveAllFfaiEntries(doc), got)

Merged(doc, r) ==
  LET got == runners[r].got IN
  IF target = "openclaw" THEN SyncAllowlist(MergeProviders(doc, got), got)
  ELSE IF runners[r].cmd = "sync" THEN ApplyCustomProviders(doc, got)
  ELSE RemoveAllFfaiEntries(doc)

Leave(r, result) ==
  Set(r, [runners[r] EXCEPT !.at = "unlock", !.result = result,
                            !.tries = 0, !.got = {}, !.seen = Missing])

\* There is something to write.
Prepare(r) == Set(r, [runners[r] EXCEPT !.at = "write", !.seen = file])

\* The file must be there; it is not written without need.
Read(r) ==
  /\ target = "openclaw" /\ At(r, "read")
  /\ IF file.missing THEN Leave(r, "transient")
     ELSE IF Merged(file, r) = file THEN Leave(r, "success")
     ELSE Prepare(r)
  /\ UNCHANGED <<target, file, lock, flags, robbed>>

\* Unreadable, or not JSON.
ReadFails(r) ==
  /\ target = "openclaw" /\ At(r, "read")
  /\ Leave(r, "transient")
  /\ UNCHANGED <<target, file, lock, flags, robbed>>

\* A file that is missing is an empty document; only an uninstall looks whether
\* it changes anything, and where there is no list there is nothing to remove.
HermesRead(r) ==
  /\ target = "hermes" /\ At(r, "read")
  /\ IF runners[r].cmd = "uninstall" /\ Merged(file, r) = file THEN Leave(r, "success")
     ELSE Prepare(r)
  /\ UNCHANGED <<target, file, lock, flags, robbed>>

\* Unreadable; or not YAML, which is noticed when the document is put into text.
HermesReadFails(r) ==
  /\ target = "hermes" /\ At(r, "read")
  /\ Leave(r, "fatal")
  /\ UNCHANGED <<target, file, lock, flags, robbed>>

\* The rename of a complete temporary file.
Publish(r) ==
  /\ At(r, "write")
  /\ file' = Merged(runners[r].seen, r)
  /\ Leave(r, "success")
  /\ UNCHANGED <<target, lock, flags, robbed>>

Write(r) == target = "openclaw" /\ Publish(r)

HermesWrite(r) == target = "hermes" /\ Publish(r)

WriteFails(r) ==
  /\ At(r, "write")
  /\ Leave(r, "fatal")
  /\ UNCHANGED <<target, file, lock, flags, robbed>>

-----------------------------------------------------------------------------
\* The lock has been there for a minute, its owner dead or slow.
Age ==
  /\ lock = "fresh"
  /\ lock' = "stale"
  /\ UNCHANGED <<target, file, flags, runners, robbed>>

\* A process is killed or restarted, whatever it is doing; its lock stays behind.
Crash(g) ==
  /\ runners' = [r \in Runner |-> IF r \in InProcess(g) THEN Idle ELSE runners[r]]
  /\ fired' = [fired EXCEPT ![g] = FALSE]
  /\ inFlight' = [inFlight EXCEPT ![g] = FALSE]
  /\ robbed' = (robbed /\ Inside' # {})
  /\ UNCHANGED <<target, file, lock>>

OpenClawStep(r) ==
  \/ Configure(r) \/ Probe(r) \/ Wake(r)
  \/ \E answer \in BuildFfaiProviders : Discover(r, answer)
  \/ Read(r) \/ ReadFails(r) \/ Write(r)

HermesStep(r) ==
  \/ \E answer \in DiscoverProviders : HermesDiscover(r, answer)
  \/ HermesRead(r) \/ HermesReadFails(r) \/ HermesWrite(r)

Step(r) == OpenClawStep(r) \/ HermesStep(r) \/ WithConfigLock(r) \/ WriteFails(r)

Next ==
  \/ \E r \in Runner, g \in Gateway :
       Register(r, g) \/ SyncProviders(r, g) \/ Uninstall(r, g)
  \/ \E r \in Runner : Step(r)
  \/ \E g \in Gateway : Crash(g)
  \/ Age

Spec == Init /\ [][Next]_vars

\* Timers fire, requests time out and file operations end.
FairSpec == Spec /\ \A r \in Runner : WF_vars(Step(r))
-----------------------------------------------------------------------------
(***************************************************************************)
(* What another process wrote since a run read the file is never           *)
(* overwritten, through crashes and the locks they leave behind.  The       *)
(* exception is a lock stolen from an owner who is still at work: one that  *)
(* took a minute, or a second thief that removes the lock of the first.     *)
(* Once all who were there then have left, the lock holds again.            *)
(***************************************************************************)
NoLostUpdate ==
  [][\A r \in Runner : Publish(r) /\ ~robbed => runners[r].seen = file]_vars

\* Whatever FFAI answers, the file never loses all the providers it has from
\* FFAI but by an uninstall, nor any entry of other origin, unless what stands
\* in the place of Hermes' list is none.
NeverWiped ==
  [][/\ file.listed => file.providers \ Ours = file'.providers \ Ours
     /\ file.providers \cap Ours # {} /\ file'.providers \cap Ours = {} =>
          \E r \in Inside : runners[r].cmd = "uninstall"]_vars

\* Nothing else in the file is touched, whatever it looks like.  Not so: a
\* custom_providers that is no list is replaced by an empty one.
OthersPreserved == [][file.providers \ Ours \subseteq file'.providers]_vars

\* A gateway that has published the catalog, or was told not to, does not touch
\* the file again before it is restarted, however often it registers the plugin
\* and however many runs were on their way.
FiresOnce ==
  [][\A r \in Runner : Write(r) => ~fired[runners[r].in]]_vars

\* Every run ends, be FFAI unreachable and the lock taken throughout.
SyncEnds == \A r \in Runner : ~At(r, "idle") ~> At(r, "idle")
=============================================================================
