--------------------------- MODULE CatalogProofs ---------------------------
(***************************************************************************)
(* Theorems about Catalog, for any number of providers, models, refreshes  *)
(* and configurations: whatever refreshes and reloads come in whichever    *)
(* order, the model list names only what a request can be routed by, it    *)
(* forgets in time, and a provider that fails keeps its models.            *)
(***************************************************************************)
EXTENDS Catalog, WellFoundedInduction, TLAPS

\* A listing and an index that belong together.
Agrees(listings, index) ==
  /\ \A m \in DOMAIN index : index[m] \in DOMAIN listings /\ m \in listings[index[m]]
  /\ \A p \in DOMAIN listings : listings[p] \subseteq DOMAIN index

DiscoveryType ==
  /\ conf \in Configs
  /\ cache \in Partial(Provider, SUBSET Model)
  /\ modelIndex \in Partial(Model, Provider)
  /\ job \in [Refresh -> Jobs]
  /\ overlapped \in [Refresh -> BOOLEAN]
  /\ failed \in [Refresh -> SUBSET Provider]

\* What is in use belongs together, and so does what each refresh has gathered.
AllAgree ==
  /\ Agrees(cache, modelIndex)
  /\ \A j \in Refresh : Agrees(job[j].cache, job[j].index)

\* A refresh has gathered entries only of the providers before the one it asks.
InOrder ==
  \A j \in Refresh : Running(j) =>
    job[j].at \in job[j].names /\ \A p \in DOMAIN job[j].cache : p < job[j].at

\* Of p, the entries hold what is in use.
Holds(entries, p) == p \in DOMAIN entries /\ entries[p] = cache[p]

\* The providers that failed have their models among the entries of the refresh,
\* unless they had none, or what was in use has been replaced since.
FailedKept ==
  \A j \in Refresh : Running(j) =>
    \A p \in failed[j] : p \in DOMAIN cache => overlapped[j] \/ Holds(job[j].cache, p)

DiscoveryInv == DiscoveryType /\ AllAgree /\ InOrder /\ FailedKept

ListType ==
  /\ deprecated \in [Model -> -1..TTL]
  /\ list \subseteq Entry
  /\ listAge \in 0..TTL
  /\ gone \in [Provider -> 0..TTL]

\* A provider that is configured or cached is not gone.
NotGone == \A p \in Provider : p \in DOMAIN conf \cup DOMAIN cache => gone[p] = 0

\* What a list still names was in order when it was built.
ListYoung ==
  listAge < TTL =>
    \A e \in list : (e.placeholder \/ deprecated[e.id] <= listAge) /\ gone[e.provider] <= listAge

ListInv == ListType /\ NotGone /\ ListYoung

-----------------------------------------------------------------------------
(* The operators.                                                          *)

\* The natural numbers are well-founded: a set of them has a least element.
LEMMA LeastIs ==
  ASSUME NEW S \in SUBSET Nat, S # {}
  PROVE  Least(S) \in S /\ \A q \in S : Least(S) <= q
<1>1. PICK x \in S : \A y \in S : <<y, x>> \notin OpToRel(<, Nat)
  BY NatLessThanWellFounded, WFMin
<1>2. ASSUME NEW y \in S PROVE x <= y
  <2>1. ~(y < x)
    BY <1>1 DEF OpToRel
  <2>2. QED  BY <2>1
<1>3. QED  BY <1>2 DEF Least

LEMMA ProviderIs == Provider \subseteq Nat /\ NoProvider \in Nat /\ NoProvider \notin Provider
<1>1. NProviders \in Nat
  BY CatalogAssumption
<1>2. QED  BY <1>1 DEF Provider, NoProvider

LEMMA PartialIs ==
  ASSUME NEW D, NEW R, NEW f
  PROVE  f \in Partial(D, R) <=> DOMAIN f \subseteq D /\ f \in [DOMAIN f -> R]
  BY DEF Partial

LEMMA NothingIs ==
  /\ DOMAIN Nothing = {}
  /\ \A D, R : Nothing \in Partial(D, R)
  /\ Agrees(Nothing, Nothing)
<1>1. DOMAIN Nothing = {}
  BY DEF Nothing
<1>2. \A R : Nothing \in [{} -> R]
  BY DEF Nothing
<1>3. QED  BY <1>1, <1>2, PartialIs DEF Agrees

LEMMA WithType ==
  ASSUME NEW D, NEW R, NEW f \in Partial(D, R), NEW keys \in SUBSET D, NEW v \in R
  PROVE  With(f, keys, v) \in Partial(D, R)
<1>1. DOMAIN f \subseteq D /\ f \in [DOMAIN f -> R]
  BY PartialIs
<1>2. DOMAIN With(f, keys, v) = keys \cup DOMAIN f
  BY DEF With
<1>3. With(f, keys, v) \in [keys \cup DOMAIN f -> R]
  BY <1>1 DEF With
<1>4. QED  BY <1>1, <1>2, <1>3, PartialIs

\* The provider that is asked next is one of the names, beyond the last.
LEMMA NextAskedIs ==
  ASSUME NEW names \in SUBSET Provider, NEW p \in Nat, NEW c, NextAsked(names, p, c) # NoProvider
  PROVE  NextAsked(names, p, c) \in names /\ p < NextAsked(names, p, c)
<1> DEFINE left == {q \in names : q > p /\ CanFetch(c, q)}
<1>1. left \in SUBSET Nat
  BY ProviderIs
<1>2. left # {} /\ NextAsked(names, p, c) = Least(left)
  BY DEF NextAsked
<1>3. Least(left) \in left
  BY <1>1, <1>2, LeastIs
<1>4. QED  BY <1>2, <1>3

LEMMA NextAskedFound ==
  ASSUME NEW names \in SUBSET Provider, NEW p \in Nat, NEW c,
         NEW q \in names, q > p, CanFetch(c, q)
  PROVE  NextAsked(names, p, c) # NoProvider
<1> DEFINE left == {r \in names : r > p /\ CanFetch(c, r)}
<1>1. left \in SUBSET Nat
  BY ProviderIs
<1>2. left # {}
  OBVIOUS
<1>3. NextAsked(names, p, c) = Least(left)
  BY <1>2 DEF NextAsked
<1>4. Least(left) \in left
  BY <1>1, <1>2, LeastIs
<1>5. QED  BY <1>1, <1>3, <1>4 DEF NoProvider

\* An entry for a provider that had none keeps listings and index together.
LEMMA WithEntryIs ==
  ASSUME NEW new \in Jobs, NEW p \in Provider, NEW models \in SUBSET Model,
         p \notin DOMAIN new.cache, Agrees(new.cache, new.index)
  PROVE  /\ WithEntry(new, p, models) \in Jobs
         /\ WithEntry(new, p, models).at = new.at
         /\ WithEntry(new, p, models).names = new.names
         /\ DOMAIN WithEntry(new, p, models).cache = {p} \cup DOMAIN new.cache
         /\ WithEntry(new, p, models).cache[p] = models
         /\ \A q \in DOMAIN new.cache : WithEntry(new, p, models).cache[q] = new.cache[q]
         /\ Agrees(WithEntry(new, p, models).cache, WithEntry(new, p, models).index)
<1> DEFINE c == With(new.cache, {p}, models)
           i == With(new.index, models, p)
           e == WithEntry(new, p, models)
<1>1. new.cache \in Partial(Provider, SUBSET Model) /\ new.index \in Partial(Model, Provider)
  BY DEF Jobs
<1>2. c \in Partial(Provider, SUBSET Model)
  BY <1>1, {p} \in SUBSET Provider, WithType
<1>3. i \in Partial(Model, Provider)
  BY <1>1, WithType
<1>4. /\ DOMAIN c = {p} \cup DOMAIN new.cache
      /\ c[p] = models
      /\ \A q \in DOMAIN new.cache : c[q] = new.cache[q]
  BY DEF With
<1>5. /\ DOMAIN i = models \cup DOMAIN new.index
      /\ \A m \in models : i[m] = p
      /\ \A m \in DOMAIN new.index \ models : i[m] = new.index[m]
  BY DEF With
<1> HIDE DEF c, i, e
<1>6. e = [at |-> new.at, names |-> new.names, cache |-> c, index |-> i]
  <2>1. new = [at |-> new.at, names |-> new.names, cache |-> new.cache, index |-> new.index]
    BY DEF Jobs
  <2>2. e = [new EXCEPT !.cache = c, !.index = i]
    BY DEF e, c, i, WithEntry
  <2>3. QED  BY <2>1, <2>2
<1>7. Agrees(c, i)
  <2>1. ASSUME NEW m \in DOMAIN i PROVE i[m] \in DOMAIN c /\ m \in c[i[m]]
    <3>1. CASE m \in models
      BY <3>1, <1>4, <1>5
    <3>2. CASE m \in DOMAIN new.index \ models
      BY <3>2, <1>4, <1>5 DEF Agrees
    <3>3. QED  BY <3>1, <3>2, <1>5
  <2>2. ASSUME NEW q \in DOMAIN c PROVE c[q] \subseteq DOMAIN i
    BY <1>4, <1>5 DEF Agrees
  <2>3. QED  BY <2>1, <2>2 DEF Agrees
<1>8. e \in Jobs
  BY <1>2, <1>3, <1>6 DEF Jobs
<1>9. QED  BY <1>4, <1>6, <1>7, <1>8 DEF e

LEMMA StartedIs ==
  ASSUME NEW c \in Configs
  PROVE  /\ Started(c) \in Jobs
         /\ Started(c).cache = Nothing /\ Started(c).index = Nothing
         /\ Started(c).at # NoProvider => Started(c).at \in Started(c).names
<1> DEFINE at == NextAsked(DOMAIN c, NoProvider, c)
<1>1. DOMAIN c \subseteq Provider /\ NoProvider \in Nat
  BY CatalogAssumption DEF NoProvider
<1>2. at # NoProvider => at \in DOMAIN c
  BY <1>1, NextAskedIs
<1> HIDE DEF at
<1>3. Started(c) = [at |-> at, names |-> DOMAIN c, cache |-> Nothing, index |-> Nothing]
  <2>1. Started(c) = [Idle EXCEPT !.at = at, !.names = DOMAIN c]
    BY DEF Started, at
  <2>2. QED  BY <2>1 DEF Idle
<1>4. QED  BY <1>1, <1>2, <1>3, NothingIs DEF Jobs

-----------------------------------------------------------------------------
(* The refreshes.                                                          *)

LEMMA DiscoveryInit == ASSUME Init PROVE DiscoveryInv
<1>1. PICK j \in Refresh : job = [i \in Refresh |-> IF i = j THEN Started(conf) ELSE Idle]
  BY DEF Init
<1>2. conf \in Configs /\ cache = Nothing /\ modelIndex = Nothing
  BY DEF Init
<1>3. Idle \in Jobs /\ Idle.cache = Nothing /\ Idle.index = Nothing /\ Idle.at = NoProvider
  BY NothingIs DEF Idle, Jobs
<1>4. \A i \in Refresh : /\ job[i] \in Jobs
                         /\ job[i].cache = Nothing /\ job[i].index = Nothing
                         /\ job[i].at # NoProvider => job[i].at \in job[i].names
  BY <1>1, <1>2, <1>3, StartedIs
<1>5. DiscoveryType
  <2>1. job \in [Refresh -> Jobs]
    BY <1>1, <1>4
  <2>2. overlapped \in [Refresh -> BOOLEAN] /\ failed \in [Refresh -> SUBSET Provider]
    BY DEF Init
  <2>3. QED  BY <1>2, <2>1, <2>2, NothingIs DEF DiscoveryType
<1>6. AllAgree
  BY <1>2, <1>4, NothingIs DEF AllAgree
<1>7. InOrder
  BY <1>4, NothingIs DEF InOrder, Running
<1>8. FailedKept
  BY DEF Init, FailedKept
<1>9. QED  BY <1>5, <1>6, <1>7, <1>8 DEF DiscoveryInv

\* FailureKeepsModels, of one step.
ModelsKept ==
  \A j \in Refresh : Running(j) /\ ~Running(j)' =>
    \A p \in failed'[j] : p \in DOMAIN cache => overlapped[j] \/ Holds(cache', p)

\* A refresh that goes on to the next provider, or ends, with what it has now.
LEMMA AdvanceKeeps ==
  ASSUME DiscoveryInv, NEW j \in Refresh, Running(j), NEW new \in Jobs,
         new.at = job[j].at, new.names = job[j].names, Agrees(new.cache, new.index),
         \A p \in DOMAIN new.cache : p <= job[j].at,
         \A p \in DOMAIN job[j].cache : p \in DOMAIN new.cache /\ new.cache[p] = job[j].cache[p],
         failed' \in [Refresh -> SUBSET Provider],
         \A i \in Refresh : i # j => failed'[i] = failed[i],
         \A p \in failed'[j] : p \notin failed[j] /\ p \in DOMAIN cache => Holds(new.cache, p),
         Advance(j, new), UNCHANGED conf
  PROVE  DiscoveryInv' /\ ModelsKept
<1> DEFINE next == NextAsked(new.names, new.at, conf)
<1> HIDE DEF next
<1>1. job[j] \in Jobs /\ job \in [Refresh -> Jobs] /\ new.names \in SUBSET Provider
  BY DEF DiscoveryInv, DiscoveryType, Jobs
<1>2. new.at \in Provider /\ new.at \in Nat
  BY <1>1, ProviderIs DEF Jobs, Running
<1>3. \A p \in failed'[j] : p \in DOMAIN cache => overlapped[j] \/ Holds(new.cache, p)
  BY DEF DiscoveryInv, FailedKept, Holds
<1>4. CASE next # NoProvider
  <2> DEFINE going == [new EXCEPT !.at = next]
  <2>1. next \in new.names /\ new.at < next
    BY <1>1, <1>2, <1>4, NextAskedIs DEF next
  <2>2. /\ going \in Jobs /\ going.at = next /\ going.names = new.names
        /\ going.cache = new.cache /\ going.index = new.index
    BY <1>1, <2>1 DEF Jobs
  <2> HIDE DEF going
  <2>3. job' = [job EXCEPT ![j] = going] /\ UNCHANGED <<cache, modelIndex, overlapped>>
    BY <1>4 DEF Advance, next, going
  <2>4. \A i \in Refresh : job'[i] = IF i = j THEN going ELSE job[i]
    BY <1>1, <2>3
  <2>5. DiscoveryType'
    <3>1. job' \in [Refresh -> Jobs]
      BY <1>1, <2>2, <2>3
    <3>2. QED  BY <2>3, <3>1 DEF DiscoveryInv, DiscoveryType
  <2>6. AllAgree'
    BY <2>2, <2>3, <2>4 DEF DiscoveryInv, AllAgree, Agrees
  <2>7. InOrder'
    <3>1. \A p \in DOMAIN new.cache : p < next
      <4>1. next \in Nat /\ \A p \in DOMAIN new.cache : p \in Nat
        BY <1>1, <2>1, ProviderIs, PartialIs DEF Jobs
      <4>2. QED  BY <1>2, <2>1, <4>1
    <3>2. going.at \in going.names /\ \A p \in DOMAIN going.cache : p < going.at
      BY <2>1, <2>2, <3>1
    <3>3. QED  BY <2>4, <3>2 DEF DiscoveryInv, InOrder, Running
  <2>8. FailedKept'
    BY <1>3, <2>2, <2>3, <2>4 DEF DiscoveryInv, FailedKept, Running, Holds
  <2>9. ModelsKept
    BY <1>4, <2>2, <2>4 DEF ModelsKept, Running
  <2>10. QED  BY <2>5, <2>6, <2>7, <2>8, <2>9 DEF DiscoveryInv
<1>5. CASE next = NoProvider
  <2>1. /\ cache' = new.cache /\ modelIndex' = new.index
        /\ job' = [job EXCEPT ![j] = Idle]
        /\ overlapped' = [i \in Refresh |-> i # j /\ (overlapped[i] \/ Running(i))]
    BY <1>5 DEF Advance, next
  <2>2. Idle \in Jobs /\ Idle.cache = Nothing /\ Idle.index = Nothing /\ Idle.at = NoProvider
    BY NothingIs DEF Idle, Jobs
  <2>3. \A i \in Refresh : job'[i] = IF i = j THEN Idle ELSE job[i]
    BY <1>1, <2>1
  <2>4. DiscoveryType'
    <3>1. job' \in [Refresh -> Jobs]
      BY <1>1, <2>1, <2>2
    <3>2. cache' \in Partial(Provider, SUBSET Model) /\ modelIndex' \in Partial(Model, Provider)
      BY <2>1 DEF Jobs
    <3>3. overlapped' \in [Refresh -> BOOLEAN]
      BY <2>1
    <3>4. QED  BY <3>1, <3>2, <3>3 DEF DiscoveryInv, DiscoveryType
  <2>5. AllAgree'
    <3>1. Agrees(cache, modelIndex)'
      BY <2>1 DEF Agrees
    <3>2. ASSUME NEW i \in Refresh PROVE Agrees(job'[i].cache, job'[i].index)
      BY <2>2, <2>3, NothingIs DEF DiscoveryInv, AllAgree
    <3>3. QED  BY <3>1, <3>2 DEF AllAgree, Agrees
  <2>6. InOrder'
    BY <2>2, <2>3 DEF DiscoveryInv, InOrder, Running
  <2>7. FailedKept'
    BY <2>1, <2>2, <2>3 DEF FailedKept, Running
  <2>8. ModelsKept
    BY <1>3, <2>1, <2>3 DEF ModelsKept, Running, Holds
  <2>9. QED  BY <2>4, <2>5, <2>6, <2>7, <2>8 DEF DiscoveryInv
<1>6. QED  BY <1>4, <1>5

\* The models that are kept are some of those that were listed.
LEMMA ListingsKeep ==
  ASSUME DiscoveryInv, NEW j \in Refresh, NEW models \in SUBSET Model,
         Listed(j, models) \/ ListedNothing(j) \/ FetchFailed(j)
  PROVE  DiscoveryInv' /\ ModelsKept
<1> DEFINE p == job[j].at
<1>1. Running(j) /\ UNCHANGED conf
  BY DEF Listed, ListedNothing, FetchFailed
<1>2. job[j] \in Jobs /\ failed \in [Refresh -> SUBSET Provider]
  BY DEF DiscoveryInv, DiscoveryType
<1>3. p \in Provider /\ p \in Nat /\ \A q \in DOMAIN job[j].cache : q \in Nat /\ q < p
  <2>1. p \in Provider
    BY <1>1, <1>2 DEF Jobs, Running
  <2>2. DOMAIN job[j].cache \subseteq Provider
    BY <1>2, PartialIs DEF Jobs
  <2>3. QED  BY <1>1, <2>1, <2>2, ProviderIs DEF DiscoveryInv, InOrder
<1>4. p \notin DOMAIN job[j].cache /\ \A q \in DOMAIN job[j].cache : q <= p
  BY <1>3
<1>5. Agrees(job[j].cache, job[j].index)
  BY DEF DiscoveryInv, AllAgree
<1> HIDE DEF p
<1>6. ASSUME NEW kept \in SUBSET Model
      PROVE  LET new == WithEntry(job[j], p, kept) IN
             /\ new \in Jobs
             /\ new.at = p /\ new.names = job[j].names /\ Agrees(new.cache, new.index)
             /\ \A q \in DOMAIN new.cache : q <= p
             /\ \A q \in DOMAIN job[j].cache : q \in DOMAIN new.cache /\ new.cache[q] = job[j].cache[q]
             /\ p \in DOMAIN new.cache /\ new.cache[p] = kept
  <2> DEFINE new == WithEntry(job[j], p, kept)
  <2>1. /\ new \in Jobs /\ new.at = job[j].at /\ new.names = job[j].names
        /\ DOMAIN new.cache = {p} \cup DOMAIN job[j].cache
        /\ new.cache[p] = kept /\ \A q \in DOMAIN job[j].cache : new.cache[q] = job[j].cache[q]
        /\ Agrees(new.cache, new.index)
    BY <1>2, <1>3, <1>4, <1>5, WithEntryIs
  <2> HIDE DEF new
  <2>2. \A q \in DOMAIN new.cache : q <= p
    BY <1>3, <1>4, <2>1
  <2>3. QED  BY <2>1, <2>2 DEF new, p
<1>7. CASE Listed(j, models)
  <2>1. PICK specs : Advance(j, WithEntry(job[j], p, Enriched(Filtered(models), specs)))
    BY <1>7 DEF Listed, p
  <2>2. Enriched(Filtered(models), specs) \in SUBSET Model
    BY DEF Enriched, Filtered
  <2>3. UNCHANGED failed
    BY <1>7 DEF Listed
  <2>4. QED  BY <1>1, <1>2, <1>6, <2>1, <2>2, <2>3, AdvanceKeeps DEF p
<1>8. CASE ListedNothing(j)
  <2>1. Advance(j, job[j]) /\ UNCHANGED failed
    BY <1>8 DEF ListedNothing
  <2>2. QED  BY <1>1, <1>2, <1>4, <1>5, <2>1, AdvanceKeeps DEF p
<1>9. CASE FetchFailed(j)
  <2>1. failed' = [failed EXCEPT ![j] = @ \cup {p}] /\ Advance(j, KeepStale(job[j], p))
    BY <1>9 DEF FetchFailed, p
  <2>2. /\ failed' \in [Refresh -> SUBSET Provider]
        /\ \A i \in Refresh : i # j => failed'[i] = failed[i]
        /\ failed'[j] = failed[j] \cup {p}
    BY <1>2, <1>3, <2>1
  <2>3. CASE p \in DOMAIN cache
    <3>1. cache[p] \in SUBSET Model
      BY <2>3, PartialIs DEF DiscoveryInv, DiscoveryType
    <3>2. KeepStale(job[j], p) = WithEntry(job[j], p, cache[p])
      BY <2>3 DEF KeepStale
    <3>3. QED  BY <1>1, <1>2, <1>6, <2>1, <2>2, <3>1, <3>2, AdvanceKeeps DEF p, Holds
  <2>4. CASE p \notin DOMAIN cache
    <3>1. KeepStale(job[j], p) = job[j]
      BY <2>4 DEF KeepStale
    <3>2. QED  BY <1>1, <1>2, <1>4, <1>5, <2>1, <2>2, <2>4, <3>1, AdvanceKeeps DEF p
  <2>5. QED  BY <2>3, <2>4
<1>10. QED  BY <1>7, <1>8, <1>9

\* A reload begins a refresh, or forgets everything when there is nobody to ask.
LEMMA SighupKeeps ==
  ASSUME DiscoveryInv, NEW j \in Refresh, NEW c \in Configs, Sighup(c, j)
  PROVE  DiscoveryInv' /\ ModelsKept
<1>1. conf' = c /\ Begin(j, c)
  BY DEF Sighup
<1>2. ~Running(j) /\ failed' = [failed EXCEPT ![j] = {}]
  BY <1>1 DEF Begin
<1>3. /\ job \in [Refresh -> Jobs] /\ overlapped \in [Refresh -> BOOLEAN]
      /\ failed' \in [Refresh -> SUBSET Provider]
      /\ failed'[j] = {} /\ \A i \in Refresh : i # j => failed'[i] = failed[i]
  BY <1>2 DEF DiscoveryInv, DiscoveryType
<1>4. CASE \E p \in DOMAIN c : CanFetch(c, p)
  <2>1. /\ job' = [job EXCEPT ![j] = Started(c)]
        /\ overlapped' = [overlapped EXCEPT ![j] = FALSE]
        /\ UNCHANGED <<cache, modelIndex>>
    BY <1>1, <1>4 DEF Begin
  <2>2. /\ Started(c) \in Jobs
        /\ Started(c).cache = Nothing /\ Started(c).index = Nothing
        /\ Started(c).at # NoProvider => Started(c).at \in Started(c).names
    BY StartedIs
  <2>3. \A i \in Refresh : job'[i] = IF i = j THEN Started(c) ELSE job[i]
    BY <1>3, <2>1
  <2>4. DiscoveryType'
    <3>1. job' \in [Refresh -> Jobs] /\ overlapped' \in [Refresh -> BOOLEAN]
      BY <1>3, <2>1, <2>2
    <3>2. QED  BY <1>1, <1>3, <2>1, <3>1 DEF DiscoveryInv, DiscoveryType
  <2>5. AllAgree'
    <3>1. ASSUME NEW i \in Refresh PROVE Agrees(job'[i].cache, job'[i].index)
      BY <2>2, <2>3, NothingIs DEF DiscoveryInv, AllAgree
    <3>2. QED  BY <2>1, <3>1 DEF DiscoveryInv, AllAgree, Agrees
  <2>6. InOrder'
    BY <2>2, <2>3, NothingIs DEF DiscoveryInv, InOrder, Running
  <2>7. FailedKept'
    BY <1>3, <2>1, <2>3 DEF DiscoveryInv, DiscoveryType, FailedKept, Running, Holds
  <2>8. ModelsKept
    BY <1>2, <2>3 DEF ModelsKept, Running
  <2>9. QED  BY <2>4, <2>5, <2>6, <2>7, <2>8 DEF DiscoveryInv
<1>5. CASE ~ \E p \in DOMAIN c : CanFetch(c, p)
  <2>1. /\ cache' = Nothing /\ modelIndex' = Nothing
        /\ overlapped' = [i \in Refresh |-> i # j /\ (overlapped[i] \/ Running(i))]
        /\ UNCHANGED job
    BY <1>1, <1>5 DEF Begin
  <2>2. DiscoveryType'
    <3>1. overlapped' \in [Refresh -> BOOLEAN]
      BY <2>1
    <3>2. QED  BY <1>1, <1>3, <2>1, <3>1, NothingIs DEF DiscoveryInv, DiscoveryType
  <2>3. AllAgree'
    BY <2>1, NothingIs DEF DiscoveryInv, AllAgree, Agrees
  <2>4. InOrder' /\ FailedKept' /\ ModelsKept
    BY <1>2, <2>1, NothingIs DEF DiscoveryInv, InOrder, FailedKept, ModelsKept, Running
  <2>5. QED  BY <2>2, <2>3, <2>4 DEF DiscoveryInv
<1>6. QED  BY <1>4, <1>5

LEMMA DiscoveryNext ==
  ASSUME DiscoveryInv, [Next]_vars
  PROVE  DiscoveryInv' /\ ModelsKept
<1>1. ASSUME NEW j \in Refresh, NEW models \in SUBSET Model,
             Listed(j, models) \/ ListedNothing(j) \/ FetchFailed(j)
      PROVE  DiscoveryInv' /\ ModelsKept
  BY <1>1, ListingsKeep
<1>2. ASSUME NEW j \in Refresh, NEW c \in Configs, Sighup(c, j)
      PROVE  DiscoveryInv' /\ ModelsKept
  BY <1>2, SighupKeeps
<1>3. ASSUME UNCHANGED <<conf, cache, modelIndex, job, overlapped, failed>>
      PROVE  DiscoveryInv' /\ ModelsKept
  BY <1>3 DEF DiscoveryInv, DiscoveryType, AllAgree, Agrees, InOrder, FailedKept, ModelsKept,
              Running, Holds
<1>4. CASE ListModels \/ (\E m \in Model : FoundDeprecated(m)) \/ Tick \/ UNCHANGED vars
  BY <1>3, <1>4 DEF ListModels, FoundDeprecated, Tick, vars
<1>5. ASSUME NEW j \in Refresh, ListedNothing(j) \/ FetchFailed(j)
      PROVE  DiscoveryInv' /\ ModelsKept
  BY <1>1, <1>5, {} \in SUBSET Model
<1>6. QED  BY <1>1, <1>2, <1>4, <1>5 DEF Next, Step

LEMMA DiscoveryAlways == Spec => []DiscoveryInv
<1>1. DiscoveryInv /\ [Next]_vars => DiscoveryInv'
  BY DiscoveryNext
<1>2. QED  BY DiscoveryInit, <1>1, PTL DEF Spec

-----------------------------------------------------------------------------
(* Routing.                                                                *)

\* A model is routed to the first provider that configures it, or to the one
\* in the index, which lists it.
LEMMA ResolveIs ==
  ASSUME DiscoveryInv, NEW m
  PROVE  /\ \A p \in DOMAIN conf : Configured(p, m) => Resolve(m) # NoProvider
         /\ m \in DOMAIN modelIndex => Resolve(m) # NoProvider
         /\ Resolve(m) # NoProvider =>
              \/ Resolve(m) \in DOMAIN conf /\ Configured(Resolve(m), m)
              \/ Resolve(m) \in DOMAIN cache /\ m \in cache[Resolve(m)]
<1> DEFINE static == {p \in DOMAIN conf : Configured(p, m)}
<1>1. static \in SUBSET Provider /\ static \in SUBSET Nat
  BY CatalogAssumption, ProviderIs DEF DiscoveryInv, DiscoveryType
<1>2. CASE static # {}
  <2>1. Resolve(m) = Least(static)
    BY <1>2 DEF Resolve
  <2>2. Least(static) \in static
    BY <1>1, <1>2, LeastIs
  <2>3. QED  BY <1>1, <2>1, <2>2, ProviderIs
<1>3. CASE static = {}
  <2>1. Resolve(m) = IF m \in DOMAIN modelIndex THEN modelIndex[m] ELSE NoProvider
    BY <1>3 DEF Resolve, Discovered
  <2>2. m \in DOMAIN modelIndex =>
          modelIndex[m] \in Provider /\ modelIndex[m] \in DOMAIN cache /\ m \in cache[modelIndex[m]]
    BY PartialIs DEF DiscoveryInv, DiscoveryType, AllAgree, Agrees
  <2>3. QED  BY <1>3, <2>1, <2>2, ProviderIs
<1>4. QED  BY <1>2, <1>3

\* An entry that is built now is of a provider that is configured or listed; if
\* it is no placeholder, that provider has its model and it is not deprecated.
LEMMA BuiltIs ==
  ASSUME DiscoveryInv, NEW e \in Built
  PROVE  /\ e \in Entry
         /\ e.provider \in DOMAIN conf \cup DOMAIN cache
         /\ ~e.placeholder =>
              /\ ~IsDeprecated(e.id)
              /\ \/ e.provider \in DOMAIN conf /\ Configured(e.provider, e.id)
                 \/ e.provider \in DOMAIN cache /\ e.id \in cache[e.provider]
<1>1. CASE e \in StaticEntries
  <2>1. PICK p \in DOMAIN conf :
          e \in [id : {m \in conf[p].models : ~IsDeprecated(m)}, provider : {p}, placeholder : {FALSE}]
    BY <1>1 DEF StaticEntries
  <2>2. p \in Provider /\ conf[p].models \subseteq Model
    BY <2>1, CatalogAssumption DEF DiscoveryInv, DiscoveryType
  <2>3. QED  BY <2>1, <2>2 DEF Configured, Entry
<1>2. CASE e \in Placeholders
  <2>1. PICK p \in DOMAIN conf : e = [id |-> NameOf[p], provider |-> p, placeholder |-> TRUE]
    BY <1>2 DEF Placeholders
  <2>2. p \in Provider /\ NameOf[p] \in Model
    BY <2>1, CatalogAssumption DEF DiscoveryInv, DiscoveryType
  <2>3. QED  BY <2>1, <2>2 DEF Entry
<1>3. CASE e \in DiscoveredEntries
  <2> DEFINE listing(m) == {p \in DOMAIN cache : m \in cache[p]}
  <2>1. PICK m \in AllModels :
          ~IsDeprecated(m) /\ e = [id |-> m, provider |-> Least(listing(m)), placeholder |-> FALSE]
    BY <1>3 DEF DiscoveredEntries
  <2>2. DOMAIN cache \subseteq Provider /\ cache \in [DOMAIN cache -> SUBSET Model]
    BY PartialIs DEF DiscoveryInv, DiscoveryType
  <2>3. m \in Model /\ listing(m) # {}
    BY <2>1, <2>2 DEF AllModels, Range
  <2>4. listing(m) \in SUBSET Nat
    BY <2>2, ProviderIs
  <2>5. Least(listing(m)) \in listing(m)
    BY <2>3, <2>4, LeastIs
  <2>6. QED  BY <2>1, <2>2, <2>3, <2>5 DEF Entry
<1>4. QED  BY <1>1, <1>2, <1>3 DEF Built

LEMMA RoutableIs == ASSUME DiscoveryInv PROVE ListedIsRoutable
<1>1. ASSUME NEW e \in Built, ~e.placeholder PROVE Resolve(e.id) # NoProvider
  <2>1. \/ e.provider \in DOMAIN conf /\ Configured(e.provider, e.id)
        \/ e.provider \in DOMAIN cache /\ e.id \in cache[e.provider]
    BY <1>1, BuiltIs
  <2>2. e.provider \in DOMAIN cache /\ e.id \in cache[e.provider] => e.id \in DOMAIN modelIndex
    BY DEF DiscoveryInv, AllAgree, Agrees
  <2>3. QED  BY <2>1, <2>2, ResolveIs
<1>2. ASSUME NEW m \in Model, Resolve(m) # NoProvider
      PROVE  \/ Resolve(m) \in DOMAIN conf /\ Configured(Resolve(m), m)
             \/ Resolve(m) \in DOMAIN cache /\ m \in cache[Resolve(m)]
  BY <1>2, ResolveIs
<1>3. QED  BY <1>1, <1>2 DEF ListedIsRoutable

-----------------------------------------------------------------------------
(* The model list.                                                         *)

LEMMA ListInit == ASSUME Init PROVE ListInv
<1>1. ListType
  <2>1. TTL \in 0..TTL /\ 0 \in 0..TTL /\ -1 \in -1..TTL
    BY CatalogAssumption
  <2>2. QED  BY <2>1 DEF Init, ListType
<1>2. NotGone
  BY NothingIs DEF Init, NotGone
<1>3. ListYoung
  BY CatalogAssumption DEF Init, ListYoung
<1>4. QED  BY <1>1, <1>2, <1>3 DEF ListInv

\* The history of the providers that are gone follows what n ticks allow.
LEMMA TrackGoneIs ==
  ASSUME ListInv, NEW n \in {0, 1}, TrackGone(n)
  PROVE  /\ gone' \in [Provider -> 0..TTL]
         /\ NotGone'
         /\ \A p \in Provider : gone'[p] <= gone[p] + n
<1>1. TTL \in Nat
  BY CatalogAssumption
<1>2. \A p \in Provider : gone[p] \in 0..TTL
  BY DEF ListInv, ListType
<1>3. \A p \in Provider :
        Lesser(gone[p] + n, TTL) \in 0..TTL /\ Lesser(gone[p] + n, TTL) <= gone[p] + n
  BY <1>1, <1>2 DEF Lesser
<1>4. QED  BY <1>1, <1>2, <1>3 DEF TrackGone, NotGone

\* A list that stays, or is forgotten, while nothing on it grows older.
LEMMA ListStays ==
  ASSUME ListInv, TrackGone(0),
         \/ UNCHANGED <<list, listAge>>
         \/ list' = {} /\ listAge' = TTL,
         deprecated' \in [Model -> -1..TTL],
         \A m \in Model : deprecated'[m] = deprecated[m] \/ deprecated'[m] = 0
  PROVE  ListInv'
<1>1. TTL \in Nat
  BY CatalogAssumption
<1>2. gone' \in [Provider -> 0..TTL] /\ NotGone' /\ \A p \in Provider : gone'[p] <= gone[p]
  BY TrackGoneIs DEF ListInv, ListType
<1>3. CASE UNCHANGED <<list, listAge>>
  <2>1. ListType'
    BY <1>2, <1>3 DEF ListInv, ListType
  <2>2. ListYoung'
    <3>1. ASSUME listAge < TTL, NEW e \in list
          PROVE  (e.placeholder \/ deprecated'[e.id] <= listAge) /\ gone'[e.provider] <= listAge
      <4>1. e.id \in Model /\ e.provider \in Provider /\ listAge \in Nat
        BY <1>1 DEF ListInv, ListType, Entry
      <4>2. (e.placeholder \/ deprecated[e.id] <= listAge) /\ gone[e.provider] <= listAge
        BY <3>1 DEF ListInv, ListYoung
      <4>3. e.placeholder \/ deprecated'[e.id] <= listAge
        BY <4>1, <4>2
      <4>4. gone'[e.provider] <= gone[e.provider]
            /\ gone'[e.provider] \in Int /\ gone[e.provider] \in Int
        BY <1>2, <4>1 DEF ListInv, ListType
      <4>5. QED  BY <4>1, <4>2, <4>3, <4>4
    <3>2. QED  BY <1>3, <3>1 DEF ListYoung
  <2>3. QED  BY <1>2, <2>1, <2>2 DEF ListInv
<1>4. CASE list' = {} /\ listAge' = TTL
  BY <1>1, <1>2, <1>4 DEF ListInv, ListType, ListYoung
<1>5. QED  BY <1>3, <1>4

\* A new list names nothing that is deprecated or gone.
LEMMA ListModelsKeeps ==
  ASSUME DiscoveryInv, ListInv, ListModels, TrackGone(0)
  PROVE  ListInv'
<1>1. list' = Built /\ listAge' = 0 /\ UNCHANGED <<conf, cache, deprecated>>
  BY DEF ListModels
<1>2. gone' \in [Provider -> 0..TTL] /\ NotGone'
  BY TrackGoneIs
<1>3. 0 \in 0..TTL
  BY CatalogAssumption
<1>4. ListType'
  BY <1>1, <1>2, <1>3, BuiltIs DEF ListInv, ListType
<1>5. ASSUME NEW e \in Built
      PROVE  (e.placeholder \/ deprecated[e.id] <= 0) /\ gone'[e.provider] <= 0
  <2>1. /\ e \in Entry /\ (e.placeholder \/ ~IsDeprecated(e.id))
        /\ e.provider \in DOMAIN conf \cup DOMAIN cache
    BY BuiltIs
  <2>2. gone'[e.provider] = 0
    BY <1>1, <1>2, <2>1 DEF NotGone, Entry
  <2>3. deprecated[e.id] \in Int /\ (e.placeholder \/ ~(deprecated[e.id] >= 0))
    BY <2>1 DEF ListInv, ListType, IsDeprecated, Entry
  <2>4. QED  BY <2>2, <2>3
<1>6. QED  BY <1>1, <1>2, <1>4, <1>5 DEF ListInv, ListYoung

\* The list and what it names grow older together.
LEMMA TickKeeps ==
  ASSUME ListInv, Tick, TrackGone(1)
  PROVE  ListInv'
<1>1. TTL \in Nat \ {0} /\ listAge \in 0..TTL
  BY CatalogAssumption DEF ListInv, ListType
<1>2. gone' \in [Provider -> 0..TTL] /\ NotGone' /\ \A p \in Provider : gone'[p] <= gone[p] + 1
  BY TrackGoneIs
<1>3. /\ listAge' = Lesser(listAge + 1, TTL)
      /\ list' = IF listAge' = TTL THEN {} ELSE list
      /\ deprecated' = [m \in Model |->
                          IF IsDeprecated(m) THEN Lesser(deprecated[m] + 1, TTL) ELSE -1]
  BY DEF Tick
<1>4. \A m \in Model : deprecated[m] \in -1..TTL
  BY DEF ListInv, ListType
<1>5. \A m \in Model : deprecated'[m] \in -1..TTL /\ deprecated'[m] <= deprecated[m] + 1
  BY <1>1, <1>3, <1>4 DEF IsDeprecated, Lesser
<1>6. ListType'
  <2>1. deprecated' \in [Model -> -1..TTL]
    BY <1>3, <1>5
  <2>2. listAge' \in 0..TTL
    BY <1>1, <1>3 DEF Lesser
  <2>3. QED  BY <1>2, <1>3, <2>1, <2>2 DEF ListInv, ListType
<1>7. ASSUME listAge' < TTL, NEW e \in list
      PROVE  (e.placeholder \/ deprecated'[e.id] <= listAge') /\ gone'[e.provider] <= listAge'
  <2>1. listAge < TTL /\ listAge' = listAge + 1
    BY <1>1, <1>3, <1>7 DEF Lesser
  <2>2. e.id \in Model /\ e.provider \in Provider
    BY DEF ListInv, ListType, Entry
  <2>3. (e.placeholder \/ deprecated[e.id] <= listAge) /\ gone[e.provider] <= listAge
    BY <2>1 DEF ListInv, ListYoung
  <2>4. /\ deprecated'[e.id] \in Int /\ deprecated[e.id] \in Int
        /\ gone'[e.provider] \in Int /\ gone[e.provider] \in Int
    BY <1>2, <1>4, <1>5, <2>2 DEF ListInv, ListType
  <2>5. QED  BY <1>1, <1>2, <1>5, <2>1, <2>2, <2>3, <2>4
<1>8. ListYoung'
  BY <1>3, <1>7 DEF ListYoung
<1>9. QED  BY <1>2, <1>6, <1>8 DEF ListInv

LEMMA ListNext == ASSUME DiscoveryInv, ListInv, [Next]_vars PROVE ListInv'
<1>1. ASSUME UNCHANGED deprecated
      PROVE  /\ deprecated' \in [Model -> -1..TTL]
             /\ \A m \in Model : deprecated'[m] = deprecated[m] \/ deprecated'[m] = 0
  BY <1>1 DEF ListInv, ListType
<1>2. ASSUME NEW j \in Refresh, TrackGone(0),
             \/ \E models \in SUBSET Model : Listed(j, models)
             \/ ListedNothing(j)
             \/ FetchFailed(j)
      PROVE  ListInv'
  <2>1. UNCHANGED <<deprecated, list, listAge>>
    BY <1>2 DEF Listed, ListedNothing, FetchFailed
  <2>2. QED  BY <1>1, <1>2, <2>1, ListStays
<1>3. ASSUME NEW j \in Refresh, NEW c \in Configs, Sighup(c, j), TrackGone(0)
      PROVE  ListInv'
  <2>1. list' = {} /\ listAge' = TTL /\ UNCHANGED deprecated
    BY <1>3 DEF Sighup
  <2>2. QED  BY <1>1, <1>3, <2>1, ListStays
<1>4. ASSUME NEW m \in Model, FoundDeprecated(m), TrackGone(0)
      PROVE  ListInv'
  <2>1. UNCHANGED <<list, listAge>> /\ deprecated' = [deprecated EXCEPT ![m] = 0]
    BY <1>4 DEF FoundDeprecated
  <2>2. 0 \in -1..TTL
    BY CatalogAssumption
  <2>3. /\ deprecated' \in [Model -> -1..TTL]
        /\ \A n \in Model : deprecated'[n] = deprecated[n] \/ deprecated'[n] = 0
    BY <2>1, <2>2 DEF ListInv, ListType
  <2>4. QED  BY <1>4, <2>1, <2>3, ListStays
<1>5. ASSUME ListModels, TrackGone(0)
      PROVE  ListInv'
  BY <1>5, ListModelsKeeps
<1>6. ASSUME Tick, TrackGone(1)
      PROVE  ListInv'
  BY <1>6, TickKeeps
<1>7. CASE UNCHANGED vars
  BY <1>7 DEF vars, ListInv, ListType, NotGone, ListYoung
<1>8. QED  BY <1>2, <1>3, <1>4, <1>5, <1>6, <1>7 DEF Next, Step

LEMMA ListAlways == Spec => []ListInv
<1>1. DiscoveryInv /\ ListInv /\ [Next]_vars => ListInv'
  BY ListNext
<1>2. QED  BY ListInit, DiscoveryAlways, <1>1, PTL DEF Spec

\* A list in its time, and one that would be built now.
LEMMA AnswerForgets == ASSUME DiscoveryInv, ListInv PROVE ListForgets
<1>1. TTL \in Nat \ {0}
  BY CatalogAssumption
<1>2. ASSUME NEW e \in Answer
      PROVE  (e.placeholder \/ deprecated[e.id] < TTL) /\ gone[e.provider] < TTL
  <2>1. CASE listAge < TTL
    <3>1. e \in list
      BY <2>1 DEF Answer
    <3>2. deprecated[e.id] \in Int /\ gone[e.provider] \in Int /\ listAge \in Int
      BY <3>1 DEF ListInv, ListType, Entry
    <3>3. (e.placeholder \/ deprecated[e.id] <= listAge) /\ gone[e.provider] <= listAge
      BY <2>1, <3>1 DEF ListInv, ListYoung
    <3>4. QED  BY <1>1, <2>1, <3>2, <3>3
  <2>2. CASE ~(listAge < TTL)
    <3>1. e \in Built
      BY <2>2 DEF Answer
    <3>2. /\ e \in Entry /\ (e.placeholder \/ ~IsDeprecated(e.id))
          /\ e.provider \in DOMAIN conf \cup DOMAIN cache
      BY <3>1, BuiltIs
    <3>3. gone[e.provider] = 0
      BY <3>2 DEF ListInv, NotGone, Entry
    <3>4. deprecated[e.id] \in Int /\ (e.placeholder \/ ~(deprecated[e.id] >= 0))
      BY <3>2 DEF ListInv, ListType, IsDeprecated, Entry
    <3>5. QED  BY <1>1, <3>3, <3>4
  <2>3. QED  BY <2>1, <2>2
<1>3. QED  BY <1>2 DEF ListForgets

-----------------------------------------------------------------------------
\* Type correctness.
THEOREM CatalogTypeOK == Spec => []TypeOK
<1>1. DiscoveryInv /\ ListInv => TypeOK
  BY DEF DiscoveryInv, DiscoveryType, InOrder, ListInv, ListType, TypeOK
<1>2. QED  BY <1>1, DiscoveryAlways, ListAlways, PTL

\* Every model a list names, its placeholders apart, can be routed, and every model is routed to a
\* provider that configures it or listed it: cache and index are replaced
\* together, and each refresh has gathered a pair that belongs together.
THEOREM CatalogListedIsRoutable == Spec => []ListedIsRoutable
<1>1. DiscoveryInv => ListedIsRoutable
  BY RoutableIs
<1>2. QED  BY <1>1, DiscoveryAlways, PTL

\* No answer names a model that has been deprecated, or a provider that has been
\* gone, for longer than a list is kept.
THEOREM CatalogListForgets == Spec => []ListForgets
<1>1. DiscoveryInv /\ ListInv => ListForgets
  BY AnswerForgets
<1>2. QED  BY <1>1, DiscoveryAlways, ListAlways, PTL

\* A refresh leaves a provider that failed with the models it had, every one of
\* them, unless another refresh ended while it ran.
THEOREM CatalogFailureKeepsModels == Spec => FailureKeepsModels
<1>1. DiscoveryInv /\ [Next]_vars =>
        [\A j \in Refresh : Running(j) /\ ~Running(j)' =>
           \A p \in failed'[j] : p \in DOMAIN cache =>
             overlapped[j] \/ (p \in DOMAIN cache' /\ cache'[p] = cache[p])]_vars
  BY DiscoveryNext DEF ModelsKept, Holds
<1>2. QED  BY <1>1, DiscoveryAlways, PTL DEF Spec, FailureKeepsModels
=============================================================================
