------------------------------ MODULE Catalog ------------------------------
(***************************************************************************)
(* Which models the proxy knows and where it sends them: the refreshes of  *)
(* lib/model-discovery.js, the model list of serve.js that is cached for   *)
(* MODELS_CACHE_TTL, the routing of /v1/* by model, the models found to be *)
(* deprecated, and the SIGHUP that replaces the configuration under all of *)
(* them.  A refresh asks one provider after the other and awaits each, so  *)
(* reloads, list requests and other refreshes come in between.             *)
(*                                                                         *)
(* What the filters look at is left out: a model is of a kind that is for  *)
(* chat or not, and has specifications above the minima or not.  So are    *)
(* favourites, which repeat listed entries.                                *)
(***************************************************************************)
EXTENDS Integers, FiniteSets, Functions

CONSTANTS
  NProviders,  \* providers 1..NProviders, in the order of the configuration
  Model,       \* what a request may name as its model
  NameOf,      \* the name of each provider: a request may name that too
  NonChat,     \* those of another kind, older versions, too few parameters
  Weak,        \* those whose context, output or TPM is below the minimum
  Configs,     \* the configurations a reload may find
  Refresh,     \* the refreshes that may run at the same time
  TTL          \* MODELS_CACHE_TTL, in ticks

Provider == 1..NProviders
NoProvider == 0

\* A configuration maps its providers to their static models and aliases, and
\* says whether they have an upstream URL and a key.
ASSUME CatalogAssumption ==
  /\ NProviders \in Nat
  /\ NameOf \in [Provider -> Model]
  /\ \A p, q \in Provider : NameOf[p] = NameOf[q] => p = q
  /\ \A c \in Configs :
       /\ DOMAIN c \subseteq Provider
       /\ \A p \in DOMAIN c : c[p] \in [models : SUBSET Model, aliases : SUBSET Model,
                                    askable : BOOLEAN]
  /\ NonChat \subseteq Model /\ Weak \subseteq Model
  /\ TTL \in Nat \ {0}

VARIABLES
  conf,        \* providerConfigs and the pool's providers
  cache,       \* _cache: provider -> models of its last listing
  modelIndex,  \* _modelIndex: model -> provider
  job,         \* refresh -> the provider it asks, newCache, newIndex
  deprecated,  \* model -> ticks since it is deprecated, up to TTL; -1 if not
  list,        \* _modelsCache: the entries last built
  listAge,     \* ticks since it was built; TTL when there is none
  gone,        \* history: provider -> ticks since it is neither configured nor cached
  overlapped,  \* history: refresh -> another one ended while it ran
  failed       \* history: refresh -> the providers whose listing failed

vars == <<conf, cache, modelIndex, job, deprecated, list, listAge, gone, overlapped, failed>>

Nothing == [x \in {} |-> x]
Idle == [at |-> NoProvider, names |-> {}, cache |-> Nothing, index |-> Nothing]
Running(j) == job[j].at # NoProvider

Partial(D, R) == UNION {[d -> R] : d \in SUBSET D}
Jobs == [at : Provider \cup {NoProvider}, names : SUBSET Provider,
         cache : Partial(Provider, SUBSET Model), index : Partial(Model, Provider)]

\* An entry of the list; a placeholder is the one that is owned by "ffai".
Entry == [id : Model, provider : Provider, placeholder : BOOLEAN]

TypeOK ==
  /\ conf \in Configs
  /\ cache \in Partial(Provider, SUBSET Model)
  /\ modelIndex \in Partial(Model, Provider)
  /\ job \in [Refresh -> Jobs]
  /\ \A j \in Refresh : Running(j) => job[j].at \in job[j].names
  /\ deprecated \in [Model -> -1..TTL]
  /\ list \subseteq Entry
  /\ listAge \in 0..TTL
  /\ gone \in [Provider -> 0..TTL]
  /\ overlapped \in [Refresh -> BOOLEAN]
  /\ failed \in [Refresh -> SUBSET Provider]

Lesser(a, b) == IF a <= b THEN a ELSE b
Least(S) == CHOOSE p \in S : \A q \in S : p <= q

IsDeprecated(m) == deprecated[m] >= 0

-----------------------------------------------------------------------------
(* ModelDiscovery.refresh                                                  *)

\* Providers that were removed, or have no upstream URL or no key, are not asked.
CanFetch(c, p) == p \in DOMAIN c /\ c[p].askable

\* The provider a refresh asks next.
NextAsked(names, p, c) ==
  LET left == {q \in names : q > p /\ CanFetch(c, q)}
  IN IF left = {} THEN NoProvider ELSE Least(left)

\* A refresh that starts, with the names the pool has at that moment.
Started(c) == [Idle EXCEPT !.at = NextAsked(DOMAIN c, NoProvider, c), !.names = DOMAIN c]

\* A map once the given keys are set to v.
With(f, keys, v) == [x \in keys \cup DOMAIN f |-> IF x \in keys THEN v ELSE f[x]]

\* newCache and newIndex once p's entry is the given models.
WithEntry(new, p, models) ==
  [new EXCEPT !.cache = With(@, {p}, models), !.index = With(@, models, p)]

\* Mutant: only the cache keeps the stale entry.
StaleCacheOnly(new, p) ==
  IF p \in DOMAIN cache THEN [new EXCEPT !.cache = With(@, {p}, cache[p])] ELSE new

\* Mutant: what could not be asked again is dropped.
KeepNothing(new, p) == new

\* The listing of p failed: its entry of the moment is kept.
KeepStale(new, p) == IF p \in DOMAIN cache THEN WithEntry(new, p, cache[p]) ELSE new

\* _filterModels: by name, by parameters and by the context the listing states.
Filtered(models) == models \ NonChat

\* fetchGeminiSpecs: the models whose own record was read in time.
NativeSpecs(models) == SUBSET models

\* The models that are kept: a limit that nobody stated is no reason to drop one.
Enriched(models, specs) == {m \in models : ~IsDeprecated(m) /\ ~(m \in Weak \cap specs)}

\* The loop goes on, or both results are put in place at once.
Advance(j, new) ==
  LET next == NextAsked(new.names, new.at, conf) IN
  IF next # NoProvider
    THEN /\ job' = [job EXCEPT ![j] = [new EXCEPT !.at = next]]
         /\ UNCHANGED <<cache, modelIndex, overlapped>>
    ELSE /\ cache' = new.cache
         /\ modelIndex' = new.index
         /\ job' = [job EXCEPT ![j] = Idle]
         /\ overlapped' = [i \in Refresh |-> i # j /\ (overlapped[i] \/ Running(i))]

\* The provider lists at least one model that passes the filters; with its
\* specifications known it may still fail, and leave an entry without models.
Listed(j, models) ==
  /\ Running(j)
  /\ Filtered(models) # {}
  /\ \E specs \in NativeSpecs(Filtered(models)) :
       Advance(j, WithEntry(job[j], job[j].at, Enriched(Filtered(models), specs)))
  /\ UNCHANGED <<conf, deprecated, list, listAge, failed>>

\* No list, or none of its models passes: the provider gets no entry.
ListedNothing(j) ==
  /\ Running(j)
  /\ Advance(j, job[j])
  /\ UNCHANGED <<conf, deprecated, list, listAge, failed>>

\* The fetch throws: an error, a timeout, an unreadable body.
FetchFailed(j) ==
  /\ Running(j)
  /\ failed' = [failed EXCEPT ![j] = @ \cup {job[j].at}]
  /\ Advance(j, KeepStale(job[j], job[j].at))
  /\ UNCHANGED <<conf, deprecated, list, listAge>>

-----------------------------------------------------------------------------
(* Routing and listing.                                                    *)

Configured(p, m) == m \in conf[p].aliases \cup conf[p].models

\* getModelInfo
Discovered(m) == IF m \in DOMAIN modelIndex THEN modelIndex[m] ELSE NoProvider

\* resolveProviderForModel
Resolve(m) ==
  LET static == {p \in DOMAIN conf : Configured(p, m)} IN
  IF static # {} THEN Least(static) ELSE Discovered(m)

\* A provider without configured models is listed by its own name.
Placeholders ==
  {[id |-> NameOf[p], provider |-> p, placeholder |-> TRUE] :
     p \in {q \in DOMAIN conf : conf[q].models = {}}}

StaticEntries ==
  UNION {[id : {m \in conf[p].models : ~IsDeprecated(m)}, provider : {p}, placeholder : {FALSE}] :
           p \in DOMAIN conf}

\* getAllModels
AllModels == UNION Range(cache)

\* Of the discovered models the first listing counts, after all static ones.
DiscoveredEntries ==
  LET seen == {e.id : e \in StaticEntries \cup Placeholders}
      from == [m \in AllModels |-> Least({p \in DOMAIN cache : m \in cache[p]})]
  IN {[id |-> m, provider |-> from[m], placeholder |-> FALSE] :
        m \in {n \in DOMAIN from \ seen : ~IsDeprecated(n)}}

Built == StaticEntries \cup Placeholders \cup DiscoveredEntries

\* buildModelsResponse: what /models and /<provider>/models answer.
Answer == IF listAge < TTL THEN list ELSE Built

\* Mutant: reading the list renews it.
ListModelsRenewed ==
  /\ list' = Answer
  /\ listAge' = 0
  /\ UNCHANGED <<conf, cache, modelIndex, job, deprecated, overlapped, failed>>

\* /models or /<provider>/models rebuilds the list; a fresh one is only read.
ListModels ==
  /\ listAge >= TTL
  /\ list' = Built
  /\ listAge' = 0
  /\ UNCHANGED <<conf, cache, modelIndex, job, deprecated, overlapped, failed>>

\* A provider answers a request that the model does not exist any more.
FoundDeprecated(m) ==
  /\ DOMAIN conf # {}
  /\ ~IsDeprecated(m)
  /\ deprecated' = [deprecated EXCEPT ![m] = 0]
  /\ UNCHANGED <<conf, cache, modelIndex, job, list, listAge, overlapped, failed>>

\* A refresh begins, unless there is nobody to ask: then it is over at once.
Begin(j, c) ==
  /\ ~Running(j)
  /\ failed' = [failed EXCEPT ![j] = {}]
  /\ IF \E p \in DOMAIN c : CanFetch(c, p)
       THEN /\ job' = [job EXCEPT ![j] = Started(c)]
            /\ overlapped' = [overlapped EXCEPT ![j] = FALSE]
            /\ UNCHANGED <<cache, modelIndex>>
       ELSE /\ cache' = Nothing
            /\ modelIndex' = Nothing
            /\ overlapped' = [i \in Refresh |-> i # j /\ (overlapped[i] \/ Running(i))]
            /\ UNCHANGED job

\* SIGHUP: the configuration is replaced, the list forgotten, a refresh begun.
Sighup(c, j) ==
  /\ conf' = c
  /\ list' = {}
  /\ listAge' = TTL
  /\ Begin(j, c)
  /\ UNCHANGED deprecated

\* A tick passes; a list is only ever read while younger than TTL.
Tick ==
  /\ \/ listAge < TTL
     \/ \E m \in Model : deprecated[m] \in 0..(TTL - 1)
     \/ \E p \in Provider : gone[p] < TTL
  /\ listAge' = Lesser(listAge + 1, TTL)
  /\ list' = IF listAge' = TTL THEN {} ELSE list
  /\ deprecated' = [m \in Model |-> IF IsDeprecated(m) THEN Lesser(deprecated[m] + 1, TTL) ELSE -1]
  /\ UNCHANGED <<conf, cache, modelIndex, job, overlapped, failed>>

-----------------------------------------------------------------------------
\* The server listens, its first refresh runs.
Init ==
  /\ conf \in Configs
  /\ cache = Nothing
  /\ modelIndex = Nothing
  /\ \E j \in Refresh : job = [i \in Refresh |-> IF i = j THEN Started(conf) ELSE Idle]
  /\ deprecated = [m \in Model |-> -1]
  /\ list = {}
  /\ listAge = TTL
  /\ gone = [p \in Provider |-> IF p \in DOMAIN conf THEN 0 ELSE TTL]
  /\ overlapped = [j \in Refresh |-> FALSE]
  /\ failed = [j \in Refresh |-> {}]

Step ==
  \/ \E j \in Refresh :
       \/ \E models \in SUBSET Model : Listed(j, models)
       \/ ListedNothing(j)
       \/ FetchFailed(j)
       \/ \E c \in Configs : Sighup(c, j)
  \/ ListModels
  \/ \E m \in Model : FoundDeprecated(m)

\* The history of the providers that are gone, n ticks later.
TrackGone(n) ==
  gone' = [p \in Provider |->
             IF p \in DOMAIN conf' \cup DOMAIN cache' THEN 0 ELSE Lesser(gone[p] + n, TTL)]

Next == \/ Step /\ TrackGone(0)
        \/ Tick /\ TrackGone(1)

Spec == Init /\ [][Next]_vars
-----------------------------------------------------------------------------
(***************************************************************************)
(* Whatever refreshes end in whatever order, a model that a list built now *)
(* names is one a request can be routed by, and a request is routed to a   *)
(* provider that configures the model or has listed it.  The placeholder   *)
(* of a provider is no model of it: nothing routes a request by that name. *)
(***************************************************************************)
ListedIsRoutable ==
  /\ \A e \in Built : ~e.placeholder => Resolve(e.id) # NoProvider
  /\ \A m \in Model : LET p == Resolve(m) IN
       p # NoProvider => \/ p \in DOMAIN conf /\ Configured(p, m)
                         \/ p \in DOMAIN cache /\ m \in cache[p]

\* FFAI-Features.md: "Exposes everything through a single /models endpoint. Your
\* app sees one unified model list. FFAI handles the routing based on model name."
EveryListedRoutable == \A e \in Built : Resolve(e.id) # NoProvider

\* Nothing rebuilds the list when a model turns out to be deprecated or when a
\* refresh drops a provider; no client is told of either any more once the life
\* of a cached list has passed.  A placeholder lasts as long as its provider.
ListForgets ==
  \A e \in Answer : (e.placeholder \/ deprecated[e.id] < TTL) /\ gone[e.provider] < TTL

\* A provider that cannot be reached keeps exactly the models it had: a refresh
\* changes them only if the provider answered, was not asked, or another refresh
\* ended while it ran.
FailureKeepsModels ==
  [][\A j \in Refresh : Running(j) /\ ~Running(j)' =>
       \A p \in failed'[j] : p \in DOMAIN cache =>
         overlapped[j] \/ (p \in DOMAIN cache' /\ cache'[p] = cache[p])]_vars

\* README.md: "Wipe protection: discovery never overwrites the live catalog with
\* empty/error results", said here of providers that can still be asked.
WipeProtection ==
  [][(\E p \in DOMAIN cache : CanFetch(conf', p) /\ cache[p] # {}) => AllModels' # {}]_vars
=============================================================================
