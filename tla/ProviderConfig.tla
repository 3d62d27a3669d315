--------------------------- MODULE ProviderConfig ---------------------------
(***************************************************************************)
(* What Provider's constructor is given, and what a caller reports to it.  *)
(***************************************************************************)
EXTENDS Integers

CONSTANTS
  NKeys,           \* number of configured keys
  HasScorer,       \* a limit is configured: KeyScorer selects; else round-robin
  MaxConcurrent,   \* max_concurrent, 0 = unlimited
  KeyCbThreshold,  \* key_cb_threshold: consecutive errors that isolate a key
  KeyCbCooldown,   \* key_cb_cooldown
  CbMaxBackoff,    \* cb_max_backoff
  HardBreak,       \* how long a key with a refused credential is isolated
  MultiMinReqs,    \* cb_min_requests: floor of the failure-rate rule
  FailPct,         \* cb_fail_rate, in percent
  CbThreshold,     \* cb_threshold of the provider-wide breaker, 0 = off
  CbWindow,        \* cb_window
  CbCooldown,      \* cb_cooldown
  MaxCooldown,     \* max_cooldown of a rate-limited key
  DailyReset       \* ticks until the daily quota of a key resets

\* The values a configuration accepted by Provider's constructor can give.
ASSUME ProviderAssumption ==
  /\ NKeys \in Nat \ {0}
  /\ HasScorer \in BOOLEAN
  /\ MaxConcurrent \in Nat
  /\ MaxConcurrent > 0 => HasScorer
  /\ KeyCbThreshold \in Nat \ {0}
  /\ KeyCbCooldown \in Nat \ {0}
  /\ CbMaxBackoff \in Nat \ {0}
  /\ HardBreak \in Nat \ {0}
  /\ MultiMinReqs \in Nat \ {0}
  /\ FailPct \in 1..100
  /\ CbThreshold \in Nat
  /\ CbWindow \in Nat \ {0}
  /\ CbCooldown \in Nat \ {0}
  /\ MaxCooldown \in Nat \ {0}
  /\ DailyReset \in Nat \ {0}

Keys == 0..(NKeys - 1)

Lesser(a, b)  == IF a <= b THEN a ELSE b
Greater(a, b) == IF a >= b THEN a ELSE b

(***************************************************************************)
(* What a released request can report.  "error" stands for a 5xx, a        *)
(* network failure and a 4xx that is not about the key: release treats     *)
(* them alike.  A 429 carries the cooldown cooldownKey computes for it:    *)
(* at most max_cooldown, or up to the reset when the daily quota is gone.  *)
(***************************************************************************)
Succeeded   == [kind |-> "ok",    cool |-> 0]
Failed      == [kind |-> "error", cool |-> 0]
AuthFailed  == [kind |-> "auth",  cool |-> 0]
RateLimited(c) == [kind |-> "429", cool |-> c]

CooldownFor429 == 1..MaxCooldown \cup {DailyReset}

Outcomes == {Succeeded, Failed, AuthFailed} \cup {RateLimited(c) : c \in CooldownFor429}
=============================================================================
