------------------------------ MODULE KeyLease ------------------------------
(***************************************************************************)
(* What the pool promises its callers, whatever the provider does inside:  *)
(* a request holds at most one key at a time, it gives back only the key   *)
(* it was handed, and no key is held by more than Limit requests - except  *)
(* that a caller which gives a key back more than once makes the pool      *)
(* overlook as many of the requests that still hold it.  Nothing is        *)
(* overlooked on a key that nobody holds.                                  *)
(***************************************************************************)
EXTENDS Integers, FiniteSets

CONSTANTS
  Request,    \* the requests
  Key,        \* the keys
  NoKey,      \* "holds no key"
  Limit,      \* max_concurrent, 0 = unlimited
  MaxSurplus  \* releases a caller may report beyond the one it owes

VARIABLES
  holder,  \* the key each request holds
  surplus  \* holders of each key that the pool may have overlooked

vars == <<holder, surplus>>

Holders(k) == {r \in Request : holder[r] = k}

Init ==
  /\ holder = [r \in Request |-> NoKey]
  /\ surplus = [k \in Key |-> 0]

Acquire(r, k) ==
  /\ holder[r] = NoKey
  /\ Limit > 0 => Cardinality(Holders(k)) < Limit + surplus[k]
  /\ holder' = [holder EXCEPT ![r] = k]
  /\ UNCHANGED surplus

\* Of the requests that remain, extra more may be overlooked.
Release(r, extra) ==
  LET remaining == Cardinality(Holders(holder[r])) - 1
  IN  /\ holder[r] # NoKey
      /\ holder' = [holder EXCEPT ![r] = NoKey]
      /\ surplus' = [surplus EXCEPT ![holder[r]] =
                       IF @ + extra <= remaining THEN @ + extra ELSE remaining]

Next ==
  \E r \in Request :
    \/ \E extra \in 0..MaxSurplus : Release(r, extra)
    \/ \E k \in Key : Acquire(r, k)

Spec == Init /\ [][Next]_vars
=============================================================================
