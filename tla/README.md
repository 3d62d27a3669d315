# Verification of the FFAI proxy

FFAI is an HTTP proxy in front of LLM providers. It owns many API keys, hands
one to each request, forwards the request, and learns from every outcome which
keys are rate-limited, refused or failing. This directory holds TLA+ models of
the code, TLC configurations that check them on small instances, and proofs
(TLAPS) for every value of the constants.

Run inside this directory: `tlc -config MCKeyPool.cfg MCKeyPool` checks a
model, `tlapm KeyPoolProofs.tla`, and so on for every `*Proofs.tla`, checks the
proofs.

## 1. Inventory

| Component | State it keeps | Operations | Talks to |
|---|---|---|---|
| Provider (`lib/provider.js`) | rotation `index`, `cooldowns`, `cbErrors`, `cbOpenUntil`, `_cbEpisodeActive`, adaptive Retry-After | `acquire`, `release`, `cooldownKey`, `cbIsOpen`, `markKeyInvalid`, `validateKey`, `soonestAvailableMs` | its scorer |
| KeyScorer (`lib/key-scorer.js`) | per key: windows, `pending`, `activeStreams`, `keyCbUntil`, `keyCbBackoff`, `consecutiveErrors`, recent counts, learned limits | `selectKey`, `recordRequest`, `recordSuccess`, `recordError`, `startStream`, `endStream`, header ingestion | provider |
| Pool (`lib/pool.js`) | providers, families, fingerprints | `acquire`, `acquireFromFamily`, `release`, `health`, `validateKeys`, `reload` | providers, stats, alerter |
| Direct proxy (`serve.js` 575-1057) | locals of each request: handle, `attempt`, `dynamicMaxRetries`, `released`, timers; `activeSSEConnections` | `acquireWithWait`, `handleProxy`, event handlers of upstream and client responses | pool, upstream, client |
| Hot reload (`serve.js` 2529-2603, `pool.reload`) | configuration, provider instances | SIGHUP | pool, discovery |
| Family proxy (`serve.js` 2027-2320) | locals of each request | as the direct proxy, across the members of a family | pool |
| Stats (`lib/stats.js`) | `data`, `_dirty`, `_flushing`, two temporary files, the file | record, `flush`, `flushSync` | file system, shutdown |
| Discovery, model list, routing (`lib/model-discovery.js`, `serve.js` 620-675, 1828-1925) | `_cache`, `_modelIndex`, `_modelsCache`, deprecated models | `refresh`, `resolveProviderForModel`, `buildModelsResponse` | upstreams, reload, plugins |
| Import (`serve.js` 235-355, 1428-1795) | nonces, attempts per address, tokens, config file | upload, decrypt, write, signal | AuthGuard, config file, reload |
| AuthGuard (`lib/auth-guard.js`) | failures and block per address | `recordFailure`, `isBlocked`, eviction | all routes |
| Alerter (`lib/alerter.js`) | last fired, suppressed counts, digest buffer | `fire`, `_flushDigest`, cleanup | webhook |
| Shutdown (`serve.js` 2486-2524) | `_shuttingDown` | drain, flush, exit | streams, stats |
| Sliding windows, latency (`lib/sliding-window.js`, `lib/latency-tracker.js`) | buckets | record, sums, percentiles | scorer |
| Parsers, sanitizer, capabilities, deprecation, config validation | small caches | functions of text | proxy |
| Smush (`lib/smush/`) | file cache | body compression | proxy |
| OpenClaw and Hermes plugins (`openclaw-plugin/`, `hermes-plugin/`) | `syncFlags`, a lock directory, `openclaw.json` or `config.yaml` | `runCatalogSync`; install, sync, uninstall | the proxy's model list, other writers of the file |
| CLI | - | reports | files |

The process is one event loop: code between two awaits or inside one callback
is atomic, and everything else interleaves. What makes the code hard is

- many requests on one key, whose outcomes arrive in any order and long after
  the key was isolated;
- event handlers of one response (usage chunk, end, error, timer, close) that
  share two counters and each may release the key;
- checks that also change state (`cbIsOpen`, called by the health route too);
- waiting, retrying and backing off while clients leave;
- a reload that swaps provider objects under requests that captured them;
- flushes, refreshes and imports that overlap with themselves, with reloads and
  with a stop;
- limits that are learned from several keys' answers and forgotten again;
- plugins in other processes, which share a file and a lock with one another and
  may die holding it.

What must hold: counters equal what they count; a key is released once per
attempt; caps and breakers are respected; penalties are charged to the key that
earned them and served in full; no key is starved and the pool always recovers;
every request ends; a reload neither loses nor invents state; a flush never
replaces newer data by older; what is listed can be routed; an acknowledged
import survives; no plugin wipes or overwrites what another one published.

## 2. Modules

| Module | Models | State and actions |
|---|---|---|
| `ProviderConfig` | what a provider is configured with, and what a release reports | constants and outcomes |
| `Provider` | provider with scorer or without | all per-key maps as functions over `Keys`; every method as an operator (`AcquireKey`, `AcquireNone`, `ReleaseKey`, `MarkKeyInvalid`, `CbCheck`, `HealthCheck`, `ProviderTick`); no `Next` |
| `KeyLease` | what a pool promises | `holder`, and `surplus`: how many holders of a key may be overlooked because it was given back more than once; `Acquire`, `Release`; nothing of scores, breakers or time |
| `KeyPool` | the pool's API | extends `Provider` with who holds which key; `Acquire`, `Refuse`, `Stream`, `Release`, `Validated`, `Health`, `Tick` |
| `KeyPoolProofs` | - | theorems about `KeyPool`, and the lemmas on the types of `Provider` |
| `ProxyRequest` | `handleProxy` | extends `Provider` with the locals of each handler; one action per await and per event handler |
| `HotReload` | `reload` | the live instance is `Provider` with a scorer or without (two instances of the module over the same variables); the instance and API key each request captured; what is owed for the last report on each API key |
| `StatsStore` | `lib/stats.js`, the drain and the end of the process | memory, file and temporary file; one action per await of `flush`, `FlushSync` as part of every way to stop, kill and restart |
| `FamilyProxy` | `handleFamilyProxy`, `acquireFromFamily` | per member and key: pending, streams, block; the locals of each handler; one action per await and event |
| `Catalog` | discovery, model list, routing, deprecations, SIGHUP | cache and index, a job per refresh under way, the cached list; one action per provider that answers |
| `KeyImport` | `POST /import` and the reload it signals | file, memory, nonces, pending signal, requests being received; a handler from the end of its body on is one action per outcome |
| `CatalogSync` | the plugins' publication of the catalog | the file, its lock, the flags of each gateway, each run's position; one action per await |
| `KeyLimits` | learned limits, sliding window, daily counters of the scorer | buckets with ages, learned limit and age per key, daily count, the keys and the limit configured; release, look, time, reload |
| `ProxyRequestProofs`, `FamilyProxyProofs`, `HotReloadProofs`, `CatalogProofs`, `KeyImportProofs`, `CatalogSyncProofs` | - | theorems about the module each is named after |
| `CountersProofs` | - | theorems about `KeyLimits` and `StatsStore`: what is counted in memory and in the file |
| `MC*` | - | model values |

`KeyPool` and `ProxyRequest` extend `Provider`, `HotReload` has two instances of
it; `KeyPool`, `ProxyRequest` and `FamilyProxy` are each shown to implement
`KeyLease`. The
other modules are parts that meet only in what the configuration file or the
answer of a route says, and stand alone. `CountersProofs` extends two of them,
which is why the initial states, steps and type of `StatsStore` carry the prefix
`Stats`.

Correspondence worth knowing:

- **Time.** The code compares `Date.now()` with timestamps. The model keeps the
  ticks left until each timestamp, `Tick` lowers them all. A cooldown goes down
  to -1 because round-robin needs it strictly in the past (`< now`) and the
  scorer does not (`> now` blocks).
- **Choice of key.** `selectKey` ranks the eligible keys by score. Scores depend
  on windows, tokens and learned limits; the model leaves the choice open and so
  covers every ranking. Limits that make a key ineligible by capacity only lower
  its score, except those of the guards modelled.
- **The global breaker's error list.** Only the `CbThreshold` most recent errors
  can matter, so their ages are kept, not the list.
- **`cbIsOpen`** is a check with effects. `CbCheck` is its effect and is part of
  every action that calls it.
- **Outcomes.** A 5xx, a network failure and an unrelated 4xx are one outcome,
  since `release` treats them alike; `ProxyRequest` keeps them apart for the
  retry decision. A 429 carries the cooldown computed for it.
- **`handleProxy`.** `phase` says which await a handler is at. The backoff sleep
  between attempts is time that passes before `TakeKey`. `status` is the class
  of `lastStatus`. A final answer of any status may be an event stream, since the
  handler goes by the content type alone. A released key stays in `key` with
  `released` set until the handler ends.
- **Usage chunks.** `released` is tested once per event and the lines of the event
  are released one by one, so `UsageChunk(r, n)` releases the key `n` times and
  ends its stream `n` times. `surplus` counts the requests on a key that may be
  overlooked for it: a release that was reported too often takes out another
  request that holds the key, and can take out no more than there are. What is
  buffered at the end of a stream is released with the guard tested line by line,
  hence once. The family handler has the same loop.
- **Leaving clients.** `res`'s close handlers destroy the upstream response
  without an error; such a response emits neither `end` nor `error`
  (`Abandon`), so the key is not released. A poll or an attempt under way
  notices a client that left only where the code looks at `res.destroyed`.
- **Reload.** State is per key position and requests of different positions do
  not interact across a reload, so one position with two API keys is enough to
  replace a key and put it back. `Known` is `prov.keys.includes(key)` against the
  live instance, `current` says whose captured scorer is the live one. `scorer`
  says whether the live instance was built with a limit; a rebuild chooses it
  anew, and breakers are carried over only from one scorer to another. All other
  parameters of a provider stay as they are. `owedCooldown` and `owedBreaker` are
  the ticks that the last report on an API key left, whatever becomes of the
  instance; `forgotten` has the API keys that left the configuration since,
  `unscored` those whose breaker stood when a rebuild took the scorer. A request
  of this model releases its key once: a second release of the same key only
  lowers counts, which `NeverOvercounted` bounds from above.
- **Statistics.** What is recorded is a count: every record method adds to
  `data` and sets `_dirty`, and the file holds `n` when it holds the first `n`
  records. Daily buckets, pruning and aggregation are left aside. `Flusher`
  allows two calls of `flush` at once, so that it is `_flushing` that keeps them
  apart and not the model. `writeFile` truncates (`OpenTmp`) and then fills the
  temporary file (`WriteTmp`); each step may fail. Once `process.exit` has been
  called no callback runs, but a rename already handed to a thread may still be
  carried out (`Rename` while `process` is `"exiting"`).
- **Family.** A handle is a record of member and key, as in the code. What a
  failure does to a key, and to its member's breaker, is left open up to
  `MaxBlock` ticks: `Provider` says how long it is, the family handler only
  sees whether a member serves. `Preferred` is the sort by available keys.
  `MaxRetries` is `maxRetriesFor` of each member. A response that is destroyed
  by a client that left keeps its handle for good (`Gone`), as in the direct
  proxy, so `PendingBounded` counts handles and not requests that live.
- **Catalog.** `refresh` awaits each provider's listing, so a job keeps
  `newCache`, `newIndex` and the names it started with, and `NextAsked` looks
  at the configuration of the moment, as `_fetchProviderModels` does. A model
  is `NonChat` (dropped by `_filterModels`) or `Weak` (dropped once its
  specifications are known). An answer without a list, or whose list is empty or
  has nothing that passes the filters, is no failure to the code: the provider
  then has no entry (`ListedNothing`), and only a fetch that throws keeps the old
  one (`FetchFailed`). A provider without configured models is listed by its own
  name (`Placeholders`, with the names `NameOf`), which is why a request may name
  that too. `listAge` counts up to `TTL`; `FoundDeprecated` and a refresh leave the
  list alone, as in the code. `With` is `Map.set` for a set of keys at once.
- **Import.** From the end of the body on `handleImport` has no await and is one
  action, split by outcome. `currentConfig` is re-read from the file, `config`
  is what the process holds. `Restart` may come at any moment: the file is
  renamed into place, so it is whole. `Sighup` is enabled once however many
  were sent. The reload is assumed to read the file; when it cannot, the code
  keeps the old pool and a later signal is needed. `nonces` is the Map of the
  code, from a page to the tick its nonce expires at; `MakeRoom` drops the oldest
  entry of a full one. `lost` has the accepted pages whose nonce a restart or a
  full memory dropped, `replayed` those that were accepted again.
- **Plugins.** One action per await of `runCatalogSync` and `withConfigLock`;
  `Age` makes a lock look older than a minute, whether its owner is dead or
  only slow. The lock of `yaml-io.js` is the same, hence `WithConfigLock` is
  shared; the reads differ (`Read`, `HermesRead`). Entries are sets of names. `Unlisted`
  is a `config.yaml` that is no mapping, or whose `custom_providers` is no list: the
  upsert puts an empty list in its place. `fired` follows the code and the comment
  of `index.ts:138`, once per gateway start; the header of `catalog-sync.ts:25-27`
  speaks of another run on every reload of the configuration, which the guard at
  the start of `runCatalogSync` prevents.
- **Limits.** A behaviour follows one quota, requests or tokens per minute or
  requests per day, because the code treats each with its own copy of the same
  steps. Times are ages: a bucket keeps how long ago it was dated. Windows are
  followed for the key `Focus`, limits for all keys. A bucket that the clock
  comes back to within a window is filled further, as `_rotate` does. `Total`
  sums by a recursive function over the indices. The configured limit may be 0,
  none. `Rebuild` is a reload that changes the keys or that limit: learned limits
  of the keys that stay are carried over, windows and daily counts are not.
  `scheduled` says whether the provider resets the quota at a time of its own
  (`QuotaResets`); otherwise the quota is rolling, and each request of `today` goes
  out of it at a moment of its own (`RequestAges`), whatever date the code resets
  its count at (`DateChanges`). `untold` has the keys that cannot have been told of
  the lowest limit, because they knew of none or joined later; `dropped` is how
  much of `today` the present instance started without.

## 3. Runs

| Run | Question | Bounds and why they are enough |
|---|---|---|
| `keypool` | Do counters, breakers and lease hold for every order of outcomes, and does service return? | 2 keys (the all-keys breaker needs two), 2 requests (the second finds what the first left), `max_concurrent` 1, breaker threshold 2, backoff up to 2, `RecentBound` 3 requests per key between trips, one key to validate |
| `round_robin` | Does the scorer-less rotation starve a key? | 3 keys so that a skipped key lies between two others |
| `proxy` | Does every path through the handler release once and retry within policy? | 2 requests over 2 keys, `max_concurrent` 2 (so that two share a key and one can lose the other's count), all classes of answer, usage events of 1 or 2 lines, up to 2 retries of 429 and 1 of the others so that the classes' budgets differ |
| `proxy_ends` | Does every request end, even when a key is lost, and is the lease kept over all paths? | 2 requests on 1 key, `max_concurrent` 1 (one waits for the other), usage events of 1 or 2 lines |
| `reload` | Does a reload overcount, blame the wrong key or forgive? | 1 position, 2 API keys, 2 requests, a sweep in flight, rebuilds with and without a limit (scorer) |
| `stats` | Is the file always whole, does it move forward, does it receive what is recorded, does a stop end? | 3 records (before, during and after a flush), 2 overlapping calls of `flush`, 1 stream (a set that is empty or not is all the drain looks at; it may open again), a drain of 2 ticks |
| `leak` | Does every pending count have a request behind it? No: the run shows a client that leaves mid-body | 2 requests over 2 keys, `max_concurrent` 1, usage events of one line |
| `family` | Does every request settle with the member it took from, within the strictest policy, and end? | 2 requests, 2 members of 1 key with opposite policies, one member too small for one request, `max_concurrent` 1, usage events of 1 or 2 lines |
| `catalog` | Can what is listed be routed, whatever refreshes overlap, and are lists forgotten in time? | 2 overlapping refreshes, 2 providers, a model a listing passes on and one it does not, a name of a provider without models, 3 configurations (discovered only, static first, one provider with an alias), a list life of 2 ticks |
| `import` | Does an acknowledged key survive, and is everything used once? | 2 open requests, 2 readable pages of each version and 1 unreadable, a nonce memory of 1 (so that one displaces another), a page life of 1 tick and a clock of 3 |
| `sync` | Is no update lost, nothing wiped, and does every run end? | 2 runs in 2 gateways, 1 backend and the favourites, 1 entry of other origin, 2 attempts, 2 tries for the lock |
| `limits` | Do windows, learned limits and daily counts stay true? | 2 keys that come and go, no configured limit or 4, windows of 2 buckets of a tick, up to 3 uses at a time, no header or one with a lower limit, 2 periods of decay |

What a release that is reported too often does to the cap shows only with two
requests more than the cap allows, and windows want buckets longer than a tick.
Three further configurations pass and check the same properties there. They are
no runs of their own, as they ask nothing new and leave out what the runs have:
`MCProxyLease.cfg` (`PendingBounded` and `LeaseSpec` with 4 requests on a key and
cap 2; no retries, no client leaves), `MCFamilyLease.cfg` (the same with 3
requests, cap 2; no blocks) and `MCWindow.cfg` (`WindowSound` with 3 buckets of 2
ticks, one key and a header with a higher limit).

`RecentBound` limits how many requests a key counts between two trips;
everything that depends on these counters is decided by thresholds of at most 3.
Deadlock is checked except where all requests may be over (`proxy*`, `leak`,
`family`).

### Properties

- `LoadMatches`, `PendingBounded`, `NeverOvercounted`: `pending` and
  `activeStreams` are what they count - exactly in the pool's API; in the handlers
  with their many releases never more than the keys held, and never fewer than
  those less the requests an event of several usage lines took out; across reloads
  never more.
- `LeaseSpec`: `KeyPool`, `ProxyRequest` and `FamilyProxy` implement `KeyLease`
  (refinement; in the two handlers a request holds its key until it is released,
  in the family over the keys of all members). Callers of the pool's API release
  once, so there the cap is exact (`MaxSurplus` 0); the handlers exceed it by the
  requests that were overlooked, and by no more.
- `GlobalBreakerHolds`, `BreakerPeriodBounded`, `ServiceReturns`: the breakers
  isolate, for a bounded time, and let go again. `BreakerPeriodBounded` leaves out
  the keys that validation refused (disagreement 7).
- `RotationFair`: round-robin starves no key.
- `OnlyAbandonedOvercount`, `RetryPolicy`, `EveryRequestEnds`: the handlers. Of the
  streams that are over, only those whose client left may stay counted.
- `BlockedOnlyIfBlamed`, `PenaltyServed`: what a reload carries over. `PenaltyServed`
  leaves out keys that left the configuration since the report, and the breaker
  of a key whose provider lost its scorer (disagreement 8).
- `NeverTorn`, `ForwardOnly`, `Saved`, `StopEnds`: the file of the statistics
  and the drain. `ForwardOnly` speaks of a process whose event loop runs: the
  rename that outlives it may put an older snapshot back, which nothing in the
  code prevents. A process may be killed anywhere; a loss of power, against which
  the code has no `fsync`, is not covered.
- `ListedIsRoutable`, `ListForgets`, `FailureKeepsModels`: list, index and cache
  agree for whatever refreshes end in whatever order, but for the placeholders of
  providers (disagreement 11); a list is wrong for no longer than it lives; a
  provider that cannot be reached keeps exactly the models it had, unless another
  refresh ended during this one. One that answers without models loses them
  (disagreement 12).
- `AckedOnDisk`, `AckedServes`, `SpentTokenDead`, `ReplayRefused`: what was
  acknowledged is in the file and comes into use; a token works once. A page is
  accepted again only if its nonce was dropped, by a restart or a full memory, or
  if its clock is ahead, as the code accepts it a minute longer than it remembers
  it. That is less than the documents promise (disagreement 10).
- `NoLostUpdate`, `NeverWiped`, `FiresOnce`, `SyncEnds`: the file that plugins
  and other programs share. `NoLostUpdate` leaves out a lock taken from an owner
  who is at work; the code's stealing (`stat`, then `rmdir`) allows that.
  `NeverWiped` leaves out what stands in the place of a list and is none
  (disagreement 13).
- `WindowSound`, `LimitsAgree`, `DailyKept`, `Recovers`: nothing is counted
  against a key too long; all keys that can have been told know the account's
  limit, until the configured one is raised (disagreement 14); no request is forgotten before the provider's scheduled
  reset while the instance lasts (rolling quotas: disagreement 15); and what was
  learned fades.

Every module states a type invariant, `TypeOK`; `keypool` checks it in its run,
for the others it holds of the same instances and is left out of the
configurations to keep them short.

### Fairness

`Tick` is weakly fair: time passes. In `KeyPool` a caller that holds a key
releases it, which is what the API asks of its callers. In `ProxyRequest` the
event loop runs what is ready: polls run on a timer, an attempt is answered, or
its request timeout turns it into an error, and a body ends, fails or is
destroyed. In `StatsStore` the flush timer, libuv's threads and the drain's
poll get their turn; streams need not end. In `FamilyProxy` the poll timer, the
upstream (by its timeout) and the end of a body are fair, as in the direct
proxy. In `KeyImport` only the delivery of a pending signal is, in `KeyLimits`
only the passing of time for a learned limit, and in `CatalogSync` each run's
own steps: timers fire, requests time out, file operations end. `Catalog` states
no fairness and no liveness. Nothing is assumed of clients, and no strong
fairness is used.

### Disagreements found

Each is what a comment or document says, and TLC shows a behaviour of the code that
does otherwise. The third is a run and a finding of `PROJECT.json`; the others are
reproduced with the configuration named, which checks the one property given,
e.g. `tlc -config MCHardBreak.cfg MCKeyPool`. The project's runs are kept for what
holds; where a property of a run excepts a disagreement, its comment names the
property that does not.

| | Says | Does | Reproduce |
|---|---|---|---|
| 1 | `lib/key-scorer.js:488-492`: "immediate hard-break on auth failures (key revoked/invalid)", "30 min minimum default" | A request in flight on a key when a 401 isolates it shortens the isolation when it fails (519) | `HardBreakKept`, `MCHardBreak.cfg` of `MCKeyPool` |
| 2 | `FFAI-Features.md:162`: "the key is blocked for the rest of the day" | A 429 that arrives after the one that announced the daily exhaustion overwrites the block until the reset (`lib/provider.js:351`) | `DailyBlockKept`, `MCDailyBlock.cfg` of `MCKeyPool` |
| 3 | `lib/key-scorer.js:79-80`: pending is the "count of in-flight requests" | A client that leaves mid-response leaves `pending` (and, for a stream, `activeStreams`) raised for good (`serve.js:970-973`). `EveryRequestEnds` holds all the same, because waiting is bounded; the capacity is lost until a reload rebuilds the provider | `PendingInFlight`, run `leak` |
| 4 | `serve.js:865` calls `released` the "single-release guard" | It is tested once per event (892) and not per line, so an event with two usage lines releases its key twice and ends its stream twice: the count forgets another request, which `max_concurrent` then does not count. The family handler has the same loop (2210-2221) | `SingleRelease`, `MCDoubleRelease.cfg` of `MCProxyRequest` |
| 5 | `lib/key-scorer.js:89`: "active stream counter" | A stream that fails after its usage chunk is ended again (`serve.js:968`), at the cost of another one's count; one that is abandoned is never ended (970) | `StreamsCounted`, `MCStreamCount.cfg` of `MCProxyRequest` (`max_concurrent` 3, so that the count is above the chunk's own) |
| 6 | `README.md:163`: "Max in-flight requests per provider" | A reload forgets the requests in flight (`lib/pool.js:549-568`) | `CapHeld`, `MCReloadCap.cfg` of `MCHotReload` |
| 7 | `lib/key-scorer.js:521`: "cap at configured max" | `markKeyInvalid` gives a key that validation refused a backoff up to its literal 8 (`lib/provider.js:658`) | `BackoffCapped`, `MCBackoff.cfg` of `MCKeyPool` (maximum 2) |
| 8 | `lib/pool.js:569-571`: "This prevents a config change (e.g. rpm_limit tweak) from clearing active cooldowns or circuit breakers" | Breakers are carried over only if both instances have a scorer (504), which a provider whose limits are removed has not | `KeptKeysProtected`, `MCReloadScorer.cfg` of `MCHotReload` |
| 9 | `lib/pool.js:367`: "flush stats and clean up timers" | `flush` clears `_dirty` after its last await (`lib/stats.js:215`) and with it forgets what was recorded since its snapshot; a stop before the next record writes nothing | `NothingLostAtStop`, `MCStatsStop.cfg` of `MCStatsStore` |
| 10 | `FFAI-Features.md:206`: "the server remembers used nonces for 24h and rejects re-submissions"; `openclaw-plugin/README.md:389-390` | Nonces are in memory only (`serve.js:338`) and the oldest are dropped at 500 (349-352): a page is accepted again after a restart or after 500 others | `ReplayProof`, `MCReplay.cfg` of `MCKeyImport` |
| 11 | `FFAI-Features.md:89-91`: "one unified model list. FFAI handles the routing based on model name" | A provider without configured models is listed as a model of its own name (`serve.js:1860-1863`), by which nothing is routed | `EveryListedRoutable`, `MCUnlisted.cfg` of `MCCatalog` |
| 12 | `README.md:53`: "discovery never overwrites the live catalog with empty/error results" | An answer without a list, or with an empty one, counts as a success (`lib/model-discovery.js:138-144`, 340-343) and drops the provider's models | `WipeProtection`, `MCWipe.cfg` of `MCCatalog` |
| 13 | `hermes-plugin/README.md:51`: "preserve every other line"; `hermes-plugin/lib/apply.js:81`: "Non-`ffai-*` entries are preserved untouched" | What stands in the place of `custom_providers` and is no list, or of the document and is no mapping, is replaced by an empty one (`yaml-io.js:117-125`) | `OthersPreserved`, `MCOthers.cfg` of `MCCatalogSync` |
| 14 | `lib/key-scorer.js:694-696`: "Propagate a learned RPM limit to all other keys in this provider" | A key that knows of no limit compares with 0 and takes none (706, 729, 752); one that joins at a reload hears of none | `AllTold`, `MCAllTold.cfg` of `MCKeyLimits` |
| 15 | `FFAI-Features.md:62-65` and `lib/free-tier-limits.json:14` call the daily quota of several providers rolling | Their count starts from zero with the UTC date (`lib/key-scorer.js:816-827`), which forgets what still counts for hours | `RollingKept`, `MCRolling.cfg` of `MCKeyLimits` |

## 4. Proofs

Every theorem holds for all values of the constants that the assumption of its
module admits. Those ask for sets to be finite where something is counted in
them, for limits and periods to be numbers, positive where the code divides by
them or waits for them, and for inputs to have the shape the code gives them.
Bounds such as `RecentBound`, `MaxCount` or `Horizon` are arbitrary.

Every safety invariant and every action property that a passing run checks is
proved, with the refinements of `KeyLease`.

`KeyPoolProofs`:

| Theorem | States | Argument |
|---|---|---|
| `TypeCorrect` | `[]TypeOK` | inductive; one lemma per provider method, in the groups of variables the method changes |
| `LoadCorrect` | `[]LoadMatches` | `LoadInv`: with it that a streaming request holds a key. Without `StreamersHold` a stray member of `streaming` could be counted by the next key its request takes |
| `LeaseImplemented` | `LeaseSpec` | `LoadInv` turns the guard `InFlight < MaxConcurrent` into a bound on the holders; releases map to `Release`, all else to stuttering |
| `GlobalBreakerCorrect` | `GlobalBreakerHolds` | action property, from types |
| `PeriodCorrect` | `[]BreakerPeriodBounded` | `PeriodInv`: of the keys that validation did not refuse, every trip keeps the backoff at or below the configured maximum (`LongestPeriod`) |

`ProxyRequestProofs` and `FamilyProxyProofs` have the same structure:

| Theorem | States | Argument |
|---|---|---|
| `ProxyRetryPolicy`, `FamilyRetryPolicy` | `RetryPolicy` | `RequestInv`: what a request waits for decides whether it holds a key (`Placed`), and its budget never exceeds what any failure it has met allows (`WithinPolicy`). A retry is decided before the error body is read and made after it, hence the conjunct that an attempt waiting for the body of a 429 is still below the budget |
| `ProxyPendingBounded`, `FamilyPendingBounded` | `[]PendingBounded` | `CountInv`: every step hands one key out, takes one back once or more often, or moves none (`StepsMoveKeys`, from `Placed`). What is taken back lowers the count by at most the lines of the event, and `surplus` grows by as much as it takes too many |
| `ProxyOnlyAbandonedOvercount` | `[]OnlyAbandonedOvercount` | the same invariant bounds the streams: whatever ends a counted stream lowers the count (`StepsCloseStreams`), except a client that leaves. The count may be too low, since a stream may be ended twice |
| `FamilyTypeOK` | `[]TypeOK` | no count exceeds the number of requests, from the bound on the count. The streams of a member are bounded by the requests that have streamed |
| `ProxyLease`, `FamilyLease` | `LeaseSpec` | `pending` is at least the holders less `surplus`, which turns the guard on it into the cap of the lease; moves map to `Acquire` and to `Release` with the releases in excess |

`HotReloadProofs`:

| Theorem | States | Argument |
|---|---|---|
| `ReloadNeverOvercounts` | `[]NeverOvercounted` | `LoadInv`: a request that looked up the live instance and holds a key holds one the instance knows (`CurrentKnown`), the counts are bounded by those requests (`LoadBounded`), and nothing is counted where no instance is. A late release of a request of a replaced instance may lower a count, never raise it |
| `ReloadBlocksOnlyBlamed` | `[]BlockedOnlyIfBlamed` | `PenaltyInv`: a step moves penalties by a report on one key, by a new instance or by the clock (`StepsMovePenalties`), and what is carried over goes with its API key |
| `ReloadServesPenalty` | `PenaltyServed` | `PenaltyInv` adds `OwedStands`: what is owed for a key is still standing on it unless the key was removed or, for a breaker, the scorer was, so a key that is handed out owes nothing else. Without a scorer only the cooldown is looked at, which is enough because only a scorer has breakers of single keys (`NoBreakerAlone`) |

`CatalogProofs`:

| Theorem | States | Argument |
|---|---|---|
| `CatalogTypeOK` | `[]TypeOK` | with it, a refresh under way waits for a provider it started with |
| `CatalogListedIsRoutable` | `[]ListedIsRoutable` | `DiscoveryInv`: index and cache name the same models, so that all listed ones but the placeholders are found in one of them, in place and in what every refresh under way has gathered (`AllAgree`). A refresh asks its providers in order and gathers none twice (`InOrder`), without which a second entry could drop models that the index still names |
| `CatalogFailureKeepsModels` | `FailureKeepsModels` | `DiscoveryInv` adds `FailedKept`: what failed and was cached is in what the refresh has gathered with exactly the models it had, as long as no other one has ended (`ModelsKept`) |
| `CatalogListForgets` | `[]ListForgets` | `ListInv`: nothing that a list names has been deprecated or gone for longer than the list is old (`ListYoung`), and what is configured or cached is not gone (`NotGone`) |

`KeyImportProofs` has one inductive invariant, `ImportInv`:

| Theorem | States | Argument |
|---|---|---|
| `ImportTypeOK` | `[]TypeOK` | with it, that the nonce memory stays within its bound |
| `ImportAckedOnDisk` | `[]AckedOnDisk` | `Written` starts from the file |
| `ImportSpentTokenDead` | `[]SpentTokenDead` | the file and the memory lose a token in the same step, and whatever is loaded or written later is part of one of them |
| `ImportReplayRefused` | `[]ReplayRefused` | `NoncesCover`: a remembered nonce lives at least as long as a page may be old, so that as long as no page is too old its nonce has not expired. Whoever is accepted again had it dropped, or a clock that is ahead |

`CatalogSyncProofs`:

| Theorem | States | Argument |
|---|---|---|
| `SyncTypeOK` | `[]TypeOK` | part of `RunInv` |
| `SyncFiresOnce` | `FiresOnce` | `RunInv` has `InCharge`: while a run is under way in a gateway, its flag says so, no other run is and nothing has been published |
| `SyncNoLostUpdate` | `NoLostUpdate` | `LockInv`: unless an owner was robbed, one run is inside the lock, the lock exists, and whoever is about to write has read the file as it is |
| `SyncNeverWiped` | `NeverWiped` | `RunInv` has `SomethingGot` (a sync goes on only with entries) and `SeenKept`: however old the file is that a run has read, its entries of other origin are those of today. It needs no lock, since no run changes them, unless the list is none, which only a file of Hermes may be (`FileListed`) |

`CountersProofs`, for `KeyLimits`:

| Theorem | States | Argument |
|---|---|---|
| `KeyLimitsWindowSound` | `[]WindowSound` | `WindowInv` says `WindowSound` for every age (`Covers`): the uses in buckets of at most an age are among the uses of at most that age. `WindowSound` alone is not inductive, as a tick moves uses from one age to the next |
| `KeyLimitsTypeOK` | `[]TypeOK` | part of `WindowInv`: what a bucket holds is among the uses of the window when it is recorded |
| `KeyLimitsAgree` | `[]LimitsAgree` | a limit that is told to the other keys is lower than what each of them knew, or they are `untold`; with no limit configured any learned one counts (`LowerAgrees`) |
| `KeyLimitsDailyKept` | `[]DailyKept` | `DayCounted`: what is counted and what the instance started without make up today's requests, and a count that a scheduled reset is still to clear has nothing of today in it |
| `DecayRises` | a period of decay raises a limit, at most to the configured one | arithmetic; with it `Recovers` is a matter of time |

and for `StatsStore`:

| Theorem | States | Argument |
|---|---|---|
| `StatsTypeCorrect` | `[]StatsTypeOK` | part of `StoreInv` |
| `FileWhole` | `[]NeverTorn` | `StoreInv` adds `OneFlush`: `_flushing` is set whenever a flush is under way, hence there is only one, and the temporary file holds its snapshot when it is renamed |
| `FileForward` | `ForwardOnly` | `StoreInv` adds `NewerAhead`: memory and the snapshot under way are never behind the file |

Two arguments go by induction on numbers, the least element of a set (`LeastIs`
of `CatalogProofs`) and the sums of `KeyLimits` (`NatSet` of `CountersProofs`):
both take the least counterexample, which exists because the natural numbers are
well-founded (`WFMin`), with the property given as a set of numbers. That a
recursive sum satisfies its equation is a lemma of the same kind (`SumsExist`,
`SumsUnique`).

Only model-checked are

- liveness, which the prover cannot treat under fairness: `ServiceReturns`,
  `RotationFair`, `EveryRequestEnds` (two modules), `Saved`, `StopEnds`,
  `AckedServes`, `SyncEnds`, `Recovers`;
- `TypeOK` of `ProxyRequest` and of `HotReload` as a whole. The proofs have the
  conjuncts they need; the types of the provider's own variables are proved for
  the same methods in `KeyPoolProofs`;
- the disagreements.

## 5. What is not modelled, and the plan

- **Text and data**: parsers, sanitizer, body compression, the fields of a
  catalog entry, percentiles. What a parser yields is an input of the actions.
- **Cryptography, logging, notifications** (alerter) and the read-only routes and
  reports: they change nothing that another component reads.
- **AuthGuard and the rate limiter of imports**: counters of one synchronous
  method each; a refused request is one that is not made.
- **The score** that ranks eligible keys, shared-quota detection and the adaptive
  Retry-After: the models leave the choice of an eligible key open.
- **The key pair of imports**, written once at the first start; **the `.env` file**
  that Hermes writes under the same lock as `config.yaml`; the OpenClaw commands
  and its provider hook, which keep no state.
- **A reload under a family request**; the releases it must get right are those of
  the direct proxy, in `HotReload`.

Modules planned have been written, and their safety properties proved. What is
left is proof:

1. `ProxyRequest` and `HotReload`: full type correctness, with the lemmas on
   `Provider` shared by the three modules that extend it.
2. `ProxyRequest`, `FamilyProxy`: the measure behind `EveryRequestEnds` as action
   properties (attempts only grow, a wait only shrinks), which leaves to TLC only
   the fairness.
3. `StatsStore`: what a clean stop saves, as far as `NothingLostAtStop` holds
   (nothing recorded since the last snapshot).
