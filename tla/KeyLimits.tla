----------------------------- MODULE KeyLimits -----------------------------
(***************************************************************************)
(* What a KeyScorer knows of its keys' quotas: how much of one is used, and *)
(* how large it is.  A behaviour follows one quota, of requests or tokens   *)
(* per minute, counted in a sliding window of buckets (sliding-window.js),  *)
(* or of requests per day, counted by date or by the provider's own day.    *)
(* The limit is the configured one until a 429 or a rate-limit header       *)
(* teaches a key another, which fades back in periods of five minutes.      *)
(*                                                                          *)
(* The use of one key, Focus, is followed in detail, that of the others is  *)
(* left open; every key's limit is kept.  Times are ages: in ticks, Width   *)
(* to a bucket, and in periods of decay.  A reload rebuilds the provider    *)
(* with other keys or another configured limit; the instances it builds     *)
(* have a scorer again.  The windows per model (the same code) are left out.*)
(***************************************************************************)
EXTENDS Integers, FiniteSetsExt

CONSTANTS
  Key,
  Focus,      \* the key whose use is followed
  Limits,     \* the limits that may be configured; 0 is none
  Buckets,    \* bucketCount
  Width,      \* ticks per bucket
  Header,     \* what rate-limit headers report: [limit, used]; a limit of 0 is no header
  MaxCount,   \* bound: uses known of within a window, and within a day
  MaxPeriods  \* bound: periods of decay are counted up to here

Window == Buckets * Width    \* windowMs

ASSUME LimitsAssumption ==
  /\ Focus \in Key
  /\ Limits \subseteq Nat /\ Buckets \in Nat \ {0} /\ Width \in Nat \ {0}
  /\ Header \subseteq [limit : Nat, used : Nat]
  /\ MaxCount \in Nat /\ MaxPeriods \in Nat \ {0}

VARIABLES
  quota,     \* the quota followed
  scheduled, \* the provider resets it daily at a time of its own (_dailyResetTs > 0);
             \* otherwise it is rolling: a request counts for a day
  keys,      \* the keys of the provider
  configured, \* the limit in config.json; 0 is none
  phase,     \* now % windowMs
  bucket,    \* buckets of Focus: [age: now - ts, n: uses]
  recent,    \* history: age -> uses of Focus, its own and reported ones
  learned,   \* learnedRpm, learnedTpm or learnedRpd; 0 is none
  periods,   \* key -> periods since its limit was learned
  daily,     \* dailyUsage of Focus
  due,       \* the time _dailyResetTs has come
  newDate,   \* the date of Focus' dailyUsage is not today's
  untold,    \* history: keys that cannot have been told of the lowest limit
  today,     \* history: requests of Focus that count against its quota
  dropped    \* history: how many of them a rebuilt provider started without

which  == <<quota, scheduled, keys, configured>>
window == <<phase, bucket, recent>>
limits == <<learned, periods, untold>>
day    == <<daily, due, newDate, today, dropped>>
vars   == <<which, window, limits, day>>

PerMinute == quota \in {"requests", "tokens"}
PerDay    == quota = "day"

Slots == 0..(Buckets - 1)
Expired == Window + 1
Empty == [age |-> Expired, n |-> 0]

\* The sum of f over 0..n.
Total(f, n) ==
  LET sum[i \in 0..n] == IF i = 0 THEN f[0] ELSE sum[i - 1] + f[i]
  IN sum[n]

TypeOK ==
  /\ quota \in {"requests", "tokens", "day"} /\ scheduled \in BOOLEAN
  /\ keys \subseteq Key /\ configured \in Limits /\ untold \subseteq keys
  /\ phase \in 0..(Window - 1)
  /\ bucket \in [Slots -> [age : 0..Expired, n : 0..MaxCount]]
  /\ recent \in [0..Window -> 0..MaxCount]
  /\ learned \in [Key -> Nat] /\ periods \in [Key -> 0..MaxPeriods]
  /\ daily \in 0..MaxCount /\ today \in 0..MaxCount /\ dropped \in 0..MaxCount
  /\ due \in BOOLEAN /\ newDate \in BOOLEAN

Init ==
  /\ quota \in {"requests", "tokens", "day"}
  /\ scheduled \in BOOLEAN /\ (PerMinute => ~scheduled)
  /\ keys \in SUBSET Key \ {{}} /\ configured \in Limits
  /\ phase = 0
  /\ bucket = [i \in Slots |-> Empty]
  /\ recent = [a \in 0..Window |-> 0]
  /\ learned = [k \in Key |-> 0]
  /\ periods = [k \in Key |-> 0]
  /\ daily = 0 /\ today = 0 /\ dropped = 0
  /\ untold = {}
  /\ due = FALSE /\ newDate = FALSE

-----------------------------------------------------------------------------
(* SlidingWindow.                                                          *)

Current == phase \div Width

\* Mutant: only the bucket the clock has come to is cleared.
RotatedCurrent(w) ==
  [i \in Slots |->
    IF i # Current \/ w[i].age <= Window THEN w[i] ELSE [age |-> 0, n |-> 0]]

\* _rotate: a bucket ages from the moment it is first looked at.  One that the
\* clock comes back to before a window has passed is filled further.
Rotated(w) ==
  [i \in Slots |->
    IF w[i].age <= Window THEN w[i]
    ELSE IF i = Current THEN [age |-> 0, n |-> 0] ELSE Empty]

Recorded(w, n) == [Rotated(w) EXCEPT ![Current].n = @ + n]

\* totals, of a window that has been rotated.
Used(w) == Total([i \in Slots |-> w[i].n], Buckets - 1)

-----------------------------------------------------------------------------
(* Daily usage.                                                            *)

\* Mutant: a new date resets the count even of a provider with a schedule.
ResetByEither == due \/ newDate

ResetNow == IF scheduled THEN due ELSE newDate

\* _getDailyUsage of Focus: the count as it is now.
DailyNow == IF ResetNow THEN 0 ELSE daily

\* It is asked for; when the reset of the provider is due, any key takes it.
AskFocus(count) ==
  /\ daily' = count
  /\ due' = FALSE
  /\ newDate' = (newDate /\ ~ResetNow)

-----------------------------------------------------------------------------
(* Learned limits.                                                         *)

\* What a key goes by, 0 if it knows of no limit.
Known(l, k) == IF l[k] # 0 THEN l[k] ELSE configured

\* Mutant: a key that learned before keeps what it learned.
LowerUnlearned(l, k, limit) ==
  [j \in Key |-> IF j = k \/ (j \in keys /\ l[j] = 0 /\ limit < configured) THEN limit ELSE l[j]]

\* A key learns a limit and tells the others (_propagateLearnedRpm and its
\* copies for tokens and days), who take it when it is lower than theirs.  One
\* that knows of no limit takes none.
Lower(l, k, limit) ==
  [j \in Key |-> IF j = k \/ (j \in keys /\ limit < Known(l, j)) THEN limit ELSE l[j]]

\* A header teaches a lower limit.  The first one for tokens or days, or where
\* none is configured, teaches any limit.
FromHeader(l, k, limit) ==
  IF limit > 0 /\ (limit < Known(l, k) \/ (l[k] = 0 /\ (quota # "requests" \/ configured = 0)))
    THEN Lower(l, k, limit)
    ELSE l

\* _learnFromRateLimit: a tenth off, but not below half of what is configured or,
\* if nothing is, of what is known.
From429(l, k, used) ==
  LET base  == IF configured # 0 THEN configured ELSE Known(l, k)
      limit == Max({2, (base + 1) \div 2, (9 * Known(l, k)) \div 10})
  IN IF quota = "requests" /\ used > 2 /\ used < Known(l, k) /\ limit < Known(l, k)
       THEN Lower(l, k, limit)
       ELSE l

\* Mutant: the way back is rounded down.
DecayedDown(limit) == limit + (configured - limit) \div 5

\* A fifth of the way back, rounded up.
Decayed(limit) == (4 * limit + configured + 4) \div 5

\* _getEffectiveRpm, _getEffectiveTpm, _getEffectiveRpd.
Effective(k) ==
  LET after[n \in 0..MaxPeriods] ==
        IF n = 0 THEN learned[k] ELSE Min({configured, Decayed(after[n - 1])})
  IN CASE learned[k] = 0          -> configured
       [] learned[k] > configured -> learned[k]
       [] OTHER                   -> after[periods[k]]

\* A key knows a limit that is lower than the configured one, if any is.
Below(l, k) == l[k] # 0 /\ (configured = 0 \/ l[k] < configured)

\* The history of who cannot know: the lowest limit yet reaches everybody but the
\* keys that knew of none; those that join later do not hear of it.
StillUntold(u, l, new, k) ==
  IF new[k] # l[k] /\ Below(new, k) /\ \A j \in keys : Below(l, j) => new[k] < l[j]
    THEN {j \in keys \ {k} : Known(l, j) = 0}
    ELSE u

LearnAll(k, outcome, used, header) ==
  LET from429 == IF outcome = "429" THEN From429(learned, k, used) ELSE learned
      new     == FromHeader(from429, k, header.limit)
  IN /\ learned' = new
     /\ periods' = [j \in Key |-> IF new[j] = learned[j] THEN periods[j] ELSE 0]
     /\ untold' = StillUntold(StillUntold(untold, learned, from429, k), from429, new, k)

-----------------------------------------------------------------------------
(* Actions.                                                                *)

\* countInWindow of release.
Counted(outcome) == IF outcome \in {"success", "429"} THEN 1 ELSE 0

\* Provider.release of Focus: recordRequest, recordError, ingestRateLimitHeaders.
\* A use that the provider puts higher is raised, never lowered.
ReleasePerMinute(outcome, header) ==
  LET counted  == IF Counted(outcome) = 1 THEN Recorded(bucket, 1) ELSE bucket
      reported == IF header.limit > 0
                    THEN Max({0, header.used - Used(Rotated(counted))}) ELSE 0
  IN
  /\ PerMinute /\ Focus \in keys
  /\ Total(recent, Window) + Counted(outcome) + reported <= MaxCount
  /\ bucket' = IF reported > 0 THEN Recorded(counted, reported) ELSE counted
  /\ recent' = [recent EXCEPT ![0] = @ + Counted(outcome) + reported]
  /\ LearnAll(Focus, outcome, Used(Rotated(counted)), header)
  /\ UNCHANGED <<which, phase, day>>

ReleasePerDay(outcome, header) ==
  LET counted == DailyNow + Counted(outcome)
      known   == IF header.limit > 0 THEN Max({counted, header.used}) ELSE counted
  IN
  /\ PerDay /\ Focus \in keys
  /\ known <= MaxCount /\ today + Counted(outcome) <= MaxCount
  /\ IF header.limit > 0 \/ Counted(outcome) = 1
       THEN AskFocus(known)
       ELSE UNCHANGED <<daily, due, newDate>>
  /\ today' = today + Counted(outcome)
  /\ LearnAll(Focus, outcome, 0, header)
  /\ UNCHANGED <<which, window, dropped>>

\* The same for another key, whose use is small or large.
ReleaseOther(k, outcome, header) ==
  /\ k \in keys \ {Focus}
  /\ \E used \in {0, MaxCount} : LearnAll(k, outcome, used, header)
  /\ due' = (due /\ Counted(outcome) = 0 /\ header.limit = 0)
  /\ UNCHANGED <<which, window, daily, newDate, today, dropped>>

\* selectKey, keyStatuses, utilization and preflightCheck read the use of the
\* keys they look at, which clears buckets and takes a reset that is due.
Look ==
  /\ Focus \in keys
  /\ bucket' = Rotated(bucket)
  /\ AskFocus(DailyNow)
  /\ UNCHANGED <<which, phase, recent, limits, today, dropped>>

LookAtOthers ==
  /\ due' = FALSE
  /\ UNCHANGED <<which, window, limits, daily, newDate, today, dropped>>

Tick ==
  /\ PerMinute
  /\ phase' = (phase + 1) % Window
  /\ bucket' = [i \in Slots |-> [bucket[i] EXCEPT !.age = Min({@ + 1, Expired})]]
  /\ recent' = [a \in 0..Window |-> IF a = 0 THEN 0 ELSE recent[a - 1]]
  /\ UNCHANGED <<which, limits, day>>

\* Another five minutes since the limit of a key was learned.
Decay(k) ==
  /\ periods[k] < MaxPeriods
  /\ periods' = [periods EXCEPT ![k] = @ + 1]
  /\ UNCHANGED <<which, window, learned, untold, day>>

\* The time of the provider's reset comes (nextDailyReset).
QuotaResets ==
  /\ PerDay /\ scheduled
  /\ due' = TRUE /\ today' = 0 /\ dropped' = 0
  /\ UNCHANGED <<which, window, limits, daily, newDate>>

\* A date begins, in UTC.
DateChanges ==
  /\ PerDay
  /\ newDate' = TRUE
  /\ UNCHANGED <<which, window, limits, daily, due, today, dropped>>

\* The day of a request is over, at any time where the quota is rolling.
RequestAges ==
  /\ PerDay /\ ~scheduled
  /\ today > 0
  /\ today' = today - 1
  /\ UNCHANGED <<which, window, limits, daily, due, newDate, dropped>>

\* A reload rebuilds the provider, with the keys s and limit l configured: only
\* what keys in both instances learned is carried over (_carryOverKeyState).
Rebuild(s, l) ==
  LET stays == keys \cap s
      Kept(f) == [k \in Key |-> IF k \in stays THEN f[k] ELSE 0]
      raised == configured # 0 /\ (l = 0 \/ l > configured)
  IN
  /\ keys' = s /\ configured' = l
  /\ learned' = Kept(learned) /\ periods' = Kept(periods)
  /\ untold' = IF raised THEN s ELSE (untold \cap s) \cup (s \ stays)
  /\ bucket' = [i \in Slots |-> Empty]
  /\ daily' = 0 /\ due' = FALSE /\ newDate' = FALSE
  /\ dropped' = today
  /\ UNCHANGED <<quota, scheduled, phase, recent, today>>

Outcome == {"success", "429", "error"}

Next ==
  \/ \E outcome \in Outcome, header \in Header :
       \/ ReleasePerMinute(outcome, header)
       \/ ReleasePerDay(outcome, header)
       \/ \E k \in Key : ReleaseOther(k, outcome, header)
  \/ Look \/ LookAtOthers
  \/ Tick \/ (\E k \in Key : Decay(k))
  \/ QuotaResets \/ DateChanges \/ RequestAges
  \/ \E s \in SUBSET Key \ {{}}, l \in Limits : Rebuild(s, l)

Spec == Init /\ [][Next]_vars

\* Time passes for what was learned.
FairSpec == Spec /\ \A k \in Key : WF_vars(Decay(k))
-----------------------------------------------------------------------------
(***************************************************************************)
(* No use is counted against a key longer than a window, though buckets     *)
(* are dated by their first use, shared by two laps of the clock and        *)
(* cleared only when somebody looks.                                        *)
(***************************************************************************)
WindowSound == Used(Rotated(bucket)) <= Total(recent, Window)

(***************************************************************************)
(* Whichever keys learned limits, from whichever answers, in whichever     *)
(* order and over whichever reloads: no key of the provider knows a lower  *)
(* limit than one that was there when the lowest was learned, unless that  *)
(* one knew of no limit at all or the configured limit was raised since.   *)
(***************************************************************************)
LimitsAgree ==
  \A j \in keys, k \in keys \ untold :
    Below(learned, j) => Below(learned, k) /\ learned[k] <= learned[j]

(***************************************************************************)
(* Disagreement: the comment on _propagateLearnedRpm has all other keys    *)
(* take the limit.  One that knows of none does not, nor one that joins.   *)
(***************************************************************************)
AllTold ==
  \A j, k \in keys :
    Below(learned, j) => Below(learned, k) /\ learned[k] <= learned[j]

(***************************************************************************)
(* Where the provider resets the quota at a time of its own, no request    *)
(* since then is forgotten while the instance lasts, although the reset is *)
(* taken by whichever key is asked first and dates change in the middle of *)
(* a provider's day.                                                       *)
(***************************************************************************)
Remembers == DailyNow + dropped >= today

DailyKept == scheduled => Remembers

(***************************************************************************)
(* Disagreement: a quota that the documents call rolling is counted by the *)
(* date, which forgets at midnight what still counts for hours.            *)
(***************************************************************************)
RollingKept == ~scheduled => Remembers

(***************************************************************************)
(* A key that learns nothing more comes back to the configured limit, if   *)
(* one is: rounding does not keep it below.                                *)
(***************************************************************************)
Recovers ==
  \A k \in Key : <>[](periods[k] # 0) => <>[](Effective(k) >= configured)
=============================================================================
