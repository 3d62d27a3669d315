---------------------------- MODULE CountersProofs ----------------------------
(***************************************************************************)
(* Theorems about what is counted of the keys' use: in a scorer's memory   *)
(* (KeyLimits) and in the statistics file (StatsStore).  The two share no  *)
(* state and each part has an invariant of its own.                        *)
(*                                                                         *)
(* For any keys and configured limits, which reloads change, any headers   *)
(* and any number of periods: the keys that could be told agree on what is *)
(* learned of the quota, and where the provider resets it at a fixed time  *)
(* today's use is kept.  For any number of flushes, streams and records:   *)
(* the file is always whole and only moves forward.                        *)
(***************************************************************************)
EXTENDS KeyLimits, StatsStore, WellFoundedInduction, TLAPS

-----------------------------------------------------------------------------
(***************************************************************************)
(* KeyLimits.                                                              *)
(***************************************************************************)
\* What the two theorems need of the types.
QuotaType ==
  /\ keys \subseteq Key /\ configured \in Nat
  /\ learned \in [Key -> Nat] /\ untold \subseteq keys
  /\ daily \in Nat /\ today \in Nat /\ dropped \in Nat
  /\ scheduled \in BOOLEAN /\ due \in BOOLEAN /\ newDate \in BOOLEAN

\* A count that the provider's reset is still to clear has nothing of today in
\* it; another has all of today that a rebuild did not drop.
DayCounted == scheduled => (due => today = 0) /\ daily + dropped >= today

LimitsInv == QuotaType /\ LimitsAgree /\ DayCounted

-----------------------------------------------------------------------------
(***************************************************************************)
(* Sums.  Natural induction, for a property given as the set of numbers    *)
(* that have it: the least number without it would follow one with it.     *)
(***************************************************************************)
LEMMA NatSet ==
  ASSUME NEW S, 0 \in S, \A n \in Nat : n \in S => n + 1 \in S
  PROVE  \A n \in Nat : n \in S
<1> DEFINE without == Nat \ S
<1> SUFFICES ASSUME without # {} PROVE FALSE
  OBVIOUS
<1>1. PICK x \in without : \A y \in without : <<y, x>> \notin OpToRel(<, Nat)
  BY NatLessThanWellFounded, WFMin
<1>2. x \in Nat \ {0} /\ x - 1 \in Nat
  OBVIOUS
<1>3. ~(x - 1 \in without)
  <2>1. <<x - 1, x>> \in OpToRel(<, Nat)
    <3>1. x - 1 \in Nat /\ x \in Nat /\ x - 1 < x
      BY <1>2
    <3>2. QED  BY <3>1, Zenon DEF OpToRel
  <2>2. QED  BY <1>1, <2>1, Zenon
<1>4. x - 1 + 1 = x
  BY <1>2
<1>5. QED  BY <1>2, <1>3, <1>4

\* What the partial sums of f satisfy up to n.
PartialSums(f, n, s) == s = [i \in 0..n |-> IF i = 0 THEN f[0] ELSE s[i - 1] + f[i]]

LEMMA SumsExist ==
  ASSUME NEW f, NEW n \in Nat, \A i \in 0..n : f[i] \in Nat
  PROVE  \E s \in [0..n -> Nat] : PartialSums(f, n, s)
<1> DEFINE sums(m) == {s \in [0..m -> Nat] : PartialSums(f, m, s)}
           good == {m \in Nat : m <= n => sums(m) # {}}
<1>1. 0 \in good
  <2> DEFINE s == [i \in 0..0 |-> f[0]]
  <2>1. s \in [0..0 -> Nat] /\ PartialSums(f, 0, s)
    BY DEF PartialSums
  <2>2. s \in sums(0)
    BY <2>1
  <2>3. QED  BY <2>2
<1>2. ASSUME NEW m \in Nat, m \in good PROVE m + 1 \in good
  <2> SUFFICES ASSUME m + 1 <= n PROVE sums(m + 1) # {}
    OBVIOUS
  <2>1. PICK s \in [0..m -> Nat] : PartialSums(f, m, s)
    BY <1>2
  <2> DEFINE t == [i \in 0..(m + 1) |-> IF i <= m THEN s[i] ELSE s[m] + f[m + 1]]
  <2>2. t \in [0..(m + 1) -> Nat]
    BY <2>1
  <2>3. \A i \in 0..m : s[i] = IF i = 0 THEN f[0] ELSE s[i - 1] + f[i]
    BY <2>1 DEF PartialSums
  <2>4. ASSUME NEW i \in 0..(m + 1) PROVE t[i] = IF i = 0 THEN f[0] ELSE t[i - 1] + f[i]
    <3>1. CASE i <= m
      <4>1. i \in 0..m /\ (i # 0 => i - 1 \in 0..m)
        BY <3>1
      <4>2. t[i] = s[i] /\ (i # 0 => t[i - 1] = s[i - 1])
        BY <3>1, <4>1
      <4>3. QED  BY <2>3, <4>1, <4>2
    <3>2. CASE i = m + 1
      BY <3>2
    <3>3. QED  BY <3>1, <3>2
  <2> HIDE DEF t
  <2>5. PartialSums(f, m + 1, t)
    BY <2>2, <2>4 DEF PartialSums
  <2>6. t \in sums(m + 1)
    BY <2>2, <2>5
  <2>7. QED  BY <2>6
<1> HIDE DEF good
<1>3. n \in good
  BY <1>1, <1>2, NatSet
<1>4. QED  BY <1>3 DEF good

LEMMA SumsUnique ==
  ASSUME NEW f, NEW n \in Nat, NEW m \in Nat, m <= n,
         NEW s, PartialSums(f, n, s), NEW t, PartialSums(f, m, t)
  PROVE  \A i \in 0..m : s[i] = t[i]
<1> DEFINE good == {i \in Nat : i <= m => s[i] = t[i]}
<1>1. \A i \in 0..m : /\ s[i] = IF i = 0 THEN f[0] ELSE s[i - 1] + f[i]
                      /\ t[i] = IF i = 0 THEN f[0] ELSE t[i - 1] + f[i]
  BY DEF PartialSums
<1>2. 0 \in good
  BY <1>1
<1>3. \A i \in Nat : i \in good => i + 1 \in good
  BY <1>1
<1> HIDE DEF good
<1>4. \A i \in Nat : i \in good
  BY <1>2, <1>3, NatSet
<1>5. QED  BY <1>4 DEF good

\* The sums are what their definition says.
LEMMA TotalIs ==
  ASSUME NEW f, NEW n \in Nat, \A i \in 0..n : f[i] \in Nat
  PROVE  /\ Total(f, n) \in Nat
         /\ n = 0 => Total(f, n) = f[0]
         /\ n > 0 => Total(f, n) = Total(f, n - 1) + f[n]
<1> DEFINE sums(m) == CHOOSE s : PartialSums(f, m, s)
<1>1. \A m : Total(f, m) = sums(m)[m]
  BY DEF Total, PartialSums
<1>2. PICK s \in [0..n -> Nat] : PartialSums(f, n, s)
  BY SumsExist
<1>3. ASSUME NEW m \in 0..n PROVE PartialSums(f, m, sums(m))
  <2>1. m \in Nat /\ \A i \in 0..m : f[i] \in Nat
    OBVIOUS
  <2>2. \E t : PartialSums(f, m, t)
    BY <2>1, SumsExist
  <2>3. QED  BY <2>2
<1> HIDE DEF sums
<1>4. ASSUME NEW m \in 0..n PROVE Total(f, m) = s[m]
  <2>1. \A i \in 0..m : s[i] = sums(m)[i]
    BY <1>2, <1>3, SumsUnique
  <2>2. QED  BY <1>1, <2>1
<1>5. s[n] = IF n = 0 THEN f[0] ELSE s[n - 1] + f[n]
  BY <1>2 DEF PartialSums
<1>6. Total(f, n) = s[n] /\ (n > 0 => Total(f, n - 1) = s[n - 1])
  BY <1>4
<1>7. QED  BY <1>2, <1>5, <1>6

\* g is f with c added at j.
Raised(f, g, n, j, c) ==
  \A i \in 0..n : f[i] \in Nat /\ g[i] = f[i] + (IF i = j THEN c ELSE 0)

\* What is added at one place is added to every sum that reaches it.
LEMMA TotalAdd ==
  ASSUME NEW f, NEW g, NEW n \in Nat, NEW j \in 0..n, NEW c \in Nat,
         Raised(f, g, n, j, c)
  PROVE  \A m \in 0..n : Total(g, m) = Total(f, m) + (IF j <= m THEN c ELSE 0)
<1> USE DEF Raised
<1> DEFINE good == {m \in Nat : m <= n => Total(g, m) = Total(f, m) + (IF j <= m THEN c ELSE 0)}
<1>1. \A m \in 0..n : /\ Total(f, m) \in Nat
                      /\ m = 0 => Total(f, m) = f[0] /\ Total(g, m) = g[0]
                      /\ m > 0 => /\ Total(f, m) = Total(f, m - 1) + f[m]
                                  /\ Total(g, m) = Total(g, m - 1) + g[m]
  <2> TAKE m \in 0..n
  <2>1. m \in Nat /\ (\A i \in 0..m : f[i] \in Nat) /\ (\A i \in 0..m : g[i] \in Nat)
    OBVIOUS
  <2>2. QED  BY <2>1, TotalIs
<1>2. 0 \in good
  BY <1>1
<1>3. ASSUME NEW m \in Nat, m \in good PROVE m + 1 \in good
  <2> SUFFICES ASSUME m + 1 <= n
               PROVE  Total(g, m + 1) = Total(f, m + 1) + (IF j <= m + 1 THEN c ELSE 0)
    OBVIOUS
  <2>1. Total(g, m) = Total(f, m) + (IF j <= m THEN c ELSE 0) /\ Total(f, m) \in Nat
    BY <1>1, <1>3
  <2>2. Total(f, m + 1) = Total(f, m) + f[m + 1] /\ Total(g, m + 1) = Total(g, m) + g[m + 1]
    <3>1. m + 1 \in 0..n /\ m + 1 > 0 /\ (m + 1) - 1 = m
      OBVIOUS
    <3>2. QED  BY <1>1, <3>1
  <2>3. QED  BY <2>1, <2>2
<1> HIDE DEF good
<1>4. \A m \in Nat : m \in good
  BY <1>2, <1>3, NatSet
<1>5. QED  BY <1>4 DEF good

\* Values moved by one place.
LEMMA TotalShift ==
  ASSUME NEW f, NEW g, NEW n \in Nat,
         \A i \in 0..n : f[i] \in Nat /\ g[i] = IF i = 0 THEN 0 ELSE f[i - 1]
  PROVE  \A m \in 0..n : Total(g, m) = IF m = 0 THEN 0 ELSE Total(f, m - 1)
<1> DEFINE good == {m \in Nat : m <= n => Total(g, m) = IF m = 0 THEN 0 ELSE Total(f, m - 1)}
<1>1. \A m \in 0..n : /\ Total(f, m) \in Nat
                      /\ m = 0 => Total(f, m) = f[0] /\ Total(g, m) = g[0]
                      /\ m > 0 => /\ Total(f, m) = Total(f, m - 1) + f[m]
                                  /\ Total(g, m) = Total(g, m - 1) + g[m]
  <2> TAKE m \in 0..n
  <2>1. m \in Nat /\ (\A i \in 0..m : f[i] \in Nat) /\ (\A i \in 0..m : g[i] \in Nat)
    OBVIOUS
  <2>2. QED  BY <2>1, TotalIs
<1>2. 0 \in good
  BY <1>1
<1>3. ASSUME NEW m \in Nat, m \in good PROVE m + 1 \in good
  <2> SUFFICES ASSUME m + 1 <= n
               PROVE  Total(g, m + 1) = Total(f, m)
    OBVIOUS
  <2>1. Total(g, m + 1) = Total(g, m) + f[m]
    <3>1. m + 1 \in 0..n /\ m + 1 > 0 /\ (m + 1) - 1 = m
      OBVIOUS
    <3>2. QED  BY <1>1, <3>1
  <2>2. Total(g, m) = IF m = 0 THEN 0 ELSE Total(f, m - 1)
    BY <1>3
  <2>3. m = 0 => Total(f, m) = f[0]
    BY <1>1
  <2>4. m > 0 => Total(f, m) = Total(f, m - 1) + f[m]
    BY <1>1
  <2>5. f[m] \in Nat
    OBVIOUS
  <2>6. QED  BY <2>1, <2>2, <2>3, <2>4, <2>5
<1> HIDE DEF good
<1>4. \A m \in Nat : m \in good
  BY <1>2, <1>3, NatSet
<1>5. QED  BY <1>4 DEF good

\* No value, and no sum that ends earlier, exceeds the sum.
LEMMA TotalBounds ==
  ASSUME NEW f, NEW n \in Nat, \A i \in 0..n : f[i] \in Nat
  PROVE  \A m \in 0..n : f[m] <= Total(f, n) /\ Total(f, m) <= Total(f, n)
<1> DEFINE good == {k \in Nat : k <= n => \A m \in 0..k : f[m] <= Total(f, k) /\ Total(f, m) <= Total(f, k)}
<1>1. \A m \in 0..n : /\ Total(f, m) \in Nat
                      /\ m = 0 => Total(f, m) = f[0]
                      /\ m > 0 => Total(f, m) = Total(f, m - 1) + f[m]
  <2> TAKE m \in 0..n
  <2>1. m \in Nat /\ (\A i \in 0..m : f[i] \in Nat)
    OBVIOUS
  <2>2. QED  BY <2>1, TotalIs
<1>2. 0 \in good
  BY <1>1
<1>3. ASSUME NEW k \in Nat, k \in good PROVE k + 1 \in good
  <2> SUFFICES ASSUME k + 1 <= n, NEW m \in 0..(k + 1)
               PROVE  f[m] <= Total(f, k + 1) /\ Total(f, m) <= Total(f, k + 1)
    OBVIOUS
  <2>1. Total(f, k + 1) = Total(f, k) + f[k + 1] /\ Total(f, k) \in Nat /\ f[k + 1] \in Nat
    <3>1. k + 1 \in 0..n /\ k + 1 > 0 /\ (k + 1) - 1 = k /\ k \in 0..n
      OBVIOUS
    <3>2. QED  BY <1>1, <3>1
  <2>2. CASE m = k + 1
    BY <2>1, <2>2
  <2>3. CASE m \in 0..k
    <3>1. f[m] <= Total(f, k) /\ Total(f, m) <= Total(f, k)
      BY <1>3, <2>3
    <3>2. f[m] \in Nat /\ Total(f, m) \in Nat
      BY <1>1, <2>3
    <3>3. QED  BY <2>1, <3>1, <3>2
  <2>4. QED  BY <2>2, <2>3
<1> HIDE DEF good
<1>4. n \in good
  BY <1>2, <1>3, NatSet
<1>5. QED  BY <1>4 DEF good

LEMMA TotalZero ==
  ASSUME NEW f, NEW n \in Nat, \A i \in 0..n : f[i] = 0
  PROVE  Total(f, n) = 0
<1> DEFINE good == {m \in Nat : m <= n => Total(f, m) = 0}
<1>1. \A m \in 0..n : /\ m = 0 => Total(f, m) = f[0]
                      /\ m > 0 => Total(f, m) = Total(f, m - 1) + f[m]
  <2> TAKE m \in 0..n
  <2>1. m \in Nat /\ \A i \in 0..m : f[i] \in Nat
    OBVIOUS
  <2>2. QED  BY <2>1, TotalIs
<1>2. 0 \in good
  BY <1>1
<1>3. ASSUME NEW m \in Nat, m \in good PROVE m + 1 \in good
  <2>1. m + 1 <= n => Total(f, m + 1) = Total(f, (m + 1) - 1) + f[m + 1]
    BY <1>1
  <2>2. (m + 1) - 1 = m
    OBVIOUS
  <2>3. QED  BY <1>3, <2>1, <2>2
<1> HIDE DEF good
<1>4. n \in good
  BY <1>2, <1>3, NatSet
<1>5. QED  BY <1>4 DEF good

-----------------------------------------------------------------------------
(* Learned limits.                                                         *)

LEMMA LargerOf == \A a, b \in Int : Max({a, b}) \in {a, b} /\ Max({a, b}) >= a
<1> TAKE a, b \in Int
<1>1. \E x \in {a, b} : \A y \in {a, b} : x >= y
  OBVIOUS
<1>2. Max({a, b}) \in {a, b} /\ \A y \in {a, b} : Max({a, b}) >= y
  BY <1>1 DEF Max
<1>3. QED  BY <1>2

LEMMA LargestOf == \A a, b, c \in Int : Max({a, b, c}) \in {a, b, c} /\ Max({a, b, c}) >= a
<1> TAKE a, b, c \in Int
<1>1. \E x \in {a, b, c} : \A y \in {a, b, c} : x >= y
  OBVIOUS
<1>2. Max({a, b, c}) \in {a, b, c} /\ \A y \in {a, b, c} : Max({a, b, c}) >= y
  BY <1>1 DEF Max
<1>3. QED  BY <1>2

\* LimitsAgree, for the limits l known and the keys u that were not told.
Agree(l, u) ==
  \A j \in keys, k \in keys \ u : Below(l, j) => Below(l, k) /\ l[k] <= l[j]

\* l and u are limits and untold keys that agree.
Agreed(l, u) == l \in [Key -> Nat] /\ u \subseteq keys /\ Agree(l, u)

KeysTyped == keys \subseteq Key /\ configured \in Nat

\* A limit that a key learns and tells the others keeps them in agreement, if
\* it is lower than what the key went by, or the first that it learns.
LEMMA LowerAgrees ==
  ASSUME KeysTyped, NEW l, NEW u, Agreed(l, u), NEW k \in keys, NEW limit \in Nat \ {0},
         limit < Known(l, k) \/ l[k] = 0
  PROVE  Agreed(Lower(l, k, limit), StillUntold(u, l, Lower(l, k, limit), k))
<1> DEFINE new == Lower(l, k, limit)
           rest == StillUntold(u, l, new, k)
           lowest == Below(new, k) /\ \A j \in keys : Below(l, j) => limit < l[j]
<1>1. /\ keys \subseteq Key /\ configured \in Nat /\ k \in Key
      /\ l \in [Key -> Nat] /\ u \subseteq keys /\ Agree(l, u)
  BY DEF KeysTyped, Agreed
<1>2. new \in [Key -> Nat]
  BY <1>1 DEF Lower
<1>3. \A j \in keys : /\ l[j] \in Nat /\ new[j] \in Nat
                     /\ new[j] = IF j = k \/ limit < Known(l, j) THEN limit ELSE l[j]
  BY <1>1, <1>2 DEF Lower
<1>4. \A j \in keys : Known(l, j) = IF l[j] # 0 THEN l[j] ELSE configured
  BY DEF Known
<1>5. /\ \A j \in keys : Below(l, j) <=> l[j] # 0 /\ (configured = 0 \/ l[j] < configured)
      /\ \A j \in keys : Below(new, j) <=> new[j] # 0 /\ (configured = 0 \/ new[j] < configured)
  BY DEF Below
<1>6. new[k] = limit /\ new[k] # l[k]
  BY <1>1, <1>3, <1>4
<1>7. rest = IF lowest THEN {j \in keys \ {k} : Known(l, j) = 0} ELSE u
  BY <1>6 DEF StillUntold
<1>8. rest \subseteq keys
  BY <1>1, <1>7
<1> HIDE DEF new, rest, lowest
<1>9. CASE lowest
  <2>1. (configured = 0 \/ limit < configured) /\ \A j \in keys : Below(l, j) => limit < l[j]
    BY <1>5, <1>6, <1>9 DEF lowest
  <2>2. \A j \in keys \ rest : new[j] = limit
    <3> TAKE j \in keys \ rest
    <3>1. j = k \/ Known(l, j) # 0
      BY <1>7, <1>9
    <3>2. Known(l, j) # 0 => limit < Known(l, j)
      BY <1>1, <1>3, <1>4, <1>5, <2>1
    <3>3. QED  BY <1>3, <3>1, <3>2
  <2>3. \A j \in keys : new[j] \in {limit, 0} \/ ~Below(new, j)
    <3> TAKE j \in keys
    <3>1. CASE Known(l, j) # 0
      <4>1. limit < Known(l, j)
        BY <1>1, <1>3, <1>4, <1>5, <2>1, <3>1
      <4>2. QED  BY <1>3, <4>1
    <3>2. CASE Known(l, j) = 0
      BY <1>3, <1>4, <3>2
    <3>3. QED  BY <3>1, <3>2
  <2>4. Agree(new, rest)
    BY <1>5, <2>1, <2>2, <2>3 DEF Agree
  <2>5. QED  BY <1>2, <1>8, <2>4 DEF Agreed, new, rest
<1>10. CASE ~lowest
  <2>1. rest = u
    BY <1>7, <1>10
  <2> SUFFICES ASSUME NEW j \in keys, NEW i \in keys \ u, Below(new, j)
               PROVE  Below(new, i) /\ new[i] <= new[j]
    BY <1>2, <1>8, <2>1 DEF Agreed, Agree, new, rest
  <2>2. CASE ~Below(new, k)
    <3>1. configured # 0 /\ configured <= limit
      BY <1>1, <1>5, <1>6, <2>2
    <3>2. j # k /\ new[j] = l[j] /\ Below(l, j)
      BY <1>1, <1>3, <1>5, <2>2, <3>1
    <3>3. Below(l, i) /\ l[i] <= l[j]
      BY <1>1, <3>2 DEF Agree
    <3>4. new[i] = l[i]
      BY <1>1, <1>3, <1>4, <1>5, <3>1, <3>3
    <3>5. QED  BY <1>5, <3>2, <3>3, <3>4
  <2>3. ASSUME NEW m \in keys, Below(l, m), ~(limit < l[m])
        PROVE  Below(new, i) /\ new[i] <= new[j]
    <3>1. Below(l, i) /\ l[i] <= l[m] /\ l[i] <= limit
      <4>1. Below(l, i) /\ l[i] <= l[m]
        BY <1>1, <2>3 DEF Agree
      <4>2. QED  BY <1>3, <2>3, <4>1
    <3>2. new[i] = l[i]
      BY <1>3, <1>4, <1>5, <3>1
    <3>3. CASE new[j] = l[j]
      <4>1. Below(l, j)
        BY <1>5, <3>3
      <4>2. l[i] <= l[j]
        BY <1>1, <4>1 DEF Agree
      <4>3. QED  BY <1>5, <3>1, <3>2, <3>3, <4>2
    <3>4. CASE new[j] = limit
      BY <1>5, <3>1, <3>2, <3>4
    <3>5. QED  BY <1>3, <3>3, <3>4
  <2>4. QED  BY <1>10, <2>2, <2>3 DEF lowest
<1>11. QED  BY <1>9, <1>10

\* Where nothing is learned, nothing changes.
LEMMA UnlearnedAgrees == ASSUME NEW l, NEW u, NEW k, Agreed(l, u) PROVE Agreed(l, StillUntold(u, l, l, k))
  BY DEF StillUntold

LEMMA From429Agrees ==
  ASSUME KeysTyped, NEW l, NEW u, Agreed(l, u), NEW k \in keys, NEW used
  PROVE  Agreed(From429(l, k, used), StillUntold(u, l, From429(l, k, used), k))
<1> DEFINE base == IF configured # 0 THEN configured ELSE Known(l, k)
           limit == Max({2, (base + 1) \div 2, (9 * Known(l, k)) \div 10})
<1>1. Known(l, k) \in Nat /\ base \in Nat
  BY DEF Known, KeysTyped, Agreed
<1>2. (base + 1) \div 2 \in Int /\ (9 * Known(l, k)) \div 10 \in Int
  BY <1>1
<1>3. limit \in Nat \ {0}
  <2>1. \A b, c \in Int : Max({2, b, c}) \in Nat \ {0}
    <3>1. \A b, c \in Int : Max({2, b, c}) \in {2, b, c} /\ Max({2, b, c}) >= 2
      BY LargestOf, 2 \in Int, Zenon
    <3>2. QED  BY <3>1
  <2> HIDE DEF limit
  <2>2. \A b, c \in Int : b = (base + 1) \div 2 /\ c = (9 * Known(l, k)) \div 10
                            => limit \in Nat \ {0}
    BY <2>1 DEF limit
  <2>3. QED  BY <1>2, <2>2
<1>4. CASE quota = "requests" /\ used > 2 /\ used < Known(l, k) /\ limit < Known(l, k)
  <2>1. From429(l, k, used) = Lower(l, k, limit)
    BY <1>4 DEF From429
  <2> HIDE DEF limit
  <2>2. QED  BY <1>3, <1>4, <2>1, LowerAgrees
<1>5. CASE ~(quota = "requests" /\ used > 2 /\ used < Known(l, k) /\ limit < Known(l, k))
  <2>1. From429(l, k, used) = l
    BY <1>5 DEF From429
  <2>2. QED  BY <2>1, UnlearnedAgrees
<1>6. QED  BY <1>4, <1>5

LEMMA FromHeaderAgrees ==
  ASSUME KeysTyped, NEW l, NEW u, Agreed(l, u), NEW k \in keys, NEW limit \in Nat
  PROVE  Agreed(FromHeader(l, k, limit), StillUntold(u, l, FromHeader(l, k, limit), k))
<1> DEFINE taken == limit > 0 /\ (limit < Known(l, k) \/ (l[k] = 0 /\ (quota # "requests" \/ configured = 0)))
<1>1. CASE taken
  <2>1. FromHeader(l, k, limit) = Lower(l, k, limit)
    BY <1>1 DEF FromHeader
  <2>2. QED  BY <1>1, <2>1, LowerAgrees
<1>2. CASE ~taken
  <2>1. FromHeader(l, k, limit) = l
    BY <1>2 DEF FromHeader
  <2>2. QED  BY <2>1, UnlearnedAgrees
<1>3. QED  BY <1>1, <1>2

\* The limits and who knows them, in the next state.
LimitsKept == learned \in [Key -> Nat] /\ untold \subseteq keys /\ LimitsAgree

LEMMA AgreedIs == LimitsKept <=> Agreed(learned, untold)
  BY DEF LimitsKept, Agreed, LimitsAgree, Agree

\* Whatever a key learns from an answer, all keys agree afterwards.
LEMMA LearnAllAgrees ==
  ASSUME LimitsInv, NEW k \in keys, NEW outcome, NEW used, NEW header \in Header,
         LearnAll(k, outcome, used, header), UNCHANGED which
  PROVE  LimitsKept'
<1> DEFINE from429 == IF outcome = "429" THEN From429(learned, k, used) ELSE learned
           mid == StillUntold(untold, learned, from429, k)
<1>1. KeysTyped /\ Agreed(learned, untold)
  BY DEF LimitsInv, QuotaType, KeysTyped, LimitsAgree, Agreed, Agree
<1>2. Agreed(from429, mid)
  BY <1>1, From429Agrees, UnlearnedAgrees
<1>3. header.limit \in Nat
  BY LimitsAssumption
<1>4. learned' = FromHeader(from429, k, header.limit) /\ untold' = StillUntold(mid, from429, learned', k)
  BY DEF LearnAll
<1> HIDE DEF from429, mid
<1>5. Agreed(learned', untold')
  BY <1>1, <1>2, <1>3, <1>4, FromHeaderAgrees
<1>6. keys' = keys /\ configured' = configured
  BY DEF which
<1>7. QED  BY <1>5, <1>6 DEF Agreed, Agree, Below, LimitsKept, LimitsAgree

-----------------------------------------------------------------------------
(* The invariant.                                                          *)

LEMMA LimitsInit == ASSUME Init PROVE LimitsInv
<1>1. learned = [k \in Key |-> 0]
  BY DEF Init
<1>2. LimitsAgree
  BY <1>1 DEF Init, LimitsAgree, Below
<1>3. QuotaType
  <2>1. learned \in [Key -> Nat]
    BY <1>1
  <2>2. QED  BY <2>1, LimitsAssumption DEF Init, QuotaType
<1>4. DayCounted
  BY DEF Init, DayCounted
<1>5. QED  BY <1>2, <1>3, <1>4 DEF LimitsInv

\* The limits as they were.
LEMMA LimitsStay ==
  ASSUME LimitsInv, UNCHANGED <<keys, configured, learned, untold>>
  PROVE  LimitsKept'
  BY DEF LimitsInv, QuotaType, LimitsKept, LimitsAgree, Below

\* The day as it was, but for a reset that another key has taken.
LEMMA DayStays ==
  ASSUME LimitsInv, UNCHANGED <<which, daily, newDate, today, dropped>>,
         due' \in BOOLEAN, due' => due, LimitsKept'
  PROVE  LimitsInv'
  BY DEF LimitsInv, QuotaType, DayCounted, LimitsKept, which

\* Focus is asked: its count is at least what is known of today.
LEMMA AskKeeps ==
  ASSUME LimitsInv, UNCHANGED <<which, dropped>>, NEW count \in Nat, AskFocus(count),
         today' \in Nat, scheduled => count + dropped >= today', LimitsKept'
  PROVE  LimitsInv'
  BY DEF LimitsInv, QuotaType, DayCounted, AskFocus, LimitsKept, which, ResetNow

LEMMA DailyNowCounts ==
  ASSUME LimitsInv
  PROVE  DailyNow \in Nat /\ (scheduled => DailyNow + dropped >= today)
  BY DEF LimitsInv, QuotaType, DayCounted, DailyNow, ResetNow

LEMMA LimitsReleasePerDay ==
  ASSUME LimitsInv, NEW outcome, NEW header \in Header, ReleasePerDay(outcome, header)
  PROVE  LimitsInv' /\ (TypeOK => daily' \in 0..MaxCount /\ today' \in 0..MaxCount)
<1> USE LimitsAssumption
<1>0. Focus \in keys /\ UNCHANGED <<which, dropped>>
  BY DEF ReleasePerDay
<1> DEFINE counted == DailyNow + Counted(outcome)
           known == IF header.limit > 0 THEN Max({counted, header.used}) ELSE counted
<1>1. LimitsKept'
  BY <1>0, LearnAllAgrees DEF ReleasePerDay
<1>2. Counted(outcome) \in {0, 1}
  BY DEF Counted
<1>3. counted \in Nat /\ today' \in Nat /\ today' = today + Counted(outcome)
      /\ today' <= MaxCount /\ dropped \in Nat
      /\ (scheduled => counted + dropped >= today')
  BY <1>2, DailyNowCounts DEF ReleasePerDay, LimitsInv, QuotaType
<1>4. known \in Nat /\ known >= counted
  <2>1. header.used \in Nat
    OBVIOUS
  <2>2. Max({counted, header.used}) \in Nat /\ Max({counted, header.used}) >= counted
    BY <1>3, <2>1, LargerOf
  <2>3. QED  BY <1>3, <2>2
<1>5. known <= MaxCount
  BY DEF ReleasePerDay
<1>6. CASE header.limit > 0 \/ Counted(outcome) = 1
  <2>1. AskFocus(known)
    BY <1>6 DEF ReleasePerDay
  <2> HIDE DEF known, counted
  <2>2. scheduled => known + dropped >= today'
    <3>1. counted \in Nat
      BY <1>3
    <3>2. QED  BY <1>3, <1>4, <3>1
  <2>3. daily' = known
    BY <2>1 DEF AskFocus
  <2>4. QED  BY <1>0, <1>1, <1>3, <1>4, <1>5, <2>1, <2>2, <2>3, AskKeeps
<1>7. CASE ~(header.limit > 0 \/ Counted(outcome) = 1)
  <2>1. UNCHANGED <<daily, due, newDate>> /\ Counted(outcome) = 0
    BY <1>2, <1>7 DEF ReleasePerDay
  <2>2. UNCHANGED today
    BY <1>3, <2>1 DEF LimitsInv, QuotaType
  <2>3. LimitsInv'
    BY <1>0, <1>1, <2>1, <2>2, DayStays DEF LimitsInv, QuotaType
  <2>4. QED  BY <2>1, <2>2, <2>3 DEF TypeOK
<1>8. QED  BY <1>6, <1>7

\* What is carried over a rebuild is still agreed on: nobody knows more, and
\* those who know less are among the untold.
LEMMA RebuildKeeps ==
  ASSUME LimitsInv, NEW s \in SUBSET Key, NEW l \in Limits, Rebuild(s, l)
  PROVE  LimitsInv'
<1> USE LimitsAssumption
<1> DEFINE stays == keys \cap s
           raised == configured # 0 /\ (l = 0 \/ l > configured)
<1>1. /\ keys' = s /\ configured' = l /\ scheduled' = scheduled
      /\ learned' = [k \in Key |-> IF k \in stays THEN learned[k] ELSE 0]
      /\ untold' = IF raised THEN s ELSE (untold \cap s) \cup (s \ stays)
      /\ daily' = 0 /\ due' = FALSE /\ newDate' = FALSE
      /\ dropped' = today /\ today' = today
  BY DEF Rebuild
<1>2. /\ keys \subseteq Key /\ configured \in Nat /\ learned \in [Key -> Nat]
      /\ today \in Nat /\ scheduled \in BOOLEAN /\ l \in Nat
  BY DEF LimitsInv, QuotaType
<1>3. learned' \in [Key -> Nat] /\ untold' \subseteq keys'
  BY <1>1, <1>2
<1>4. QuotaType' /\ DayCounted'
  <2>1. scheduled' \in BOOLEAN
    BY <1>1, <1>2, Zenon
  <2>2. /\ keys' \subseteq Key /\ configured' \in Nat
        /\ daily' \in Nat /\ today' \in Nat /\ dropped' \in Nat
        /\ due' \in BOOLEAN /\ newDate' \in BOOLEAN
    BY <1>1, <1>2
  <2>3. DayCounted'
    BY <1>1, <1>2 DEF DayCounted
  <2>4. QED  BY <1>3, <2>1, <2>2, <2>3 DEF QuotaType
<1>5. ASSUME NEW j \in s, NEW k \in s \ untold', Below(learned, j)'
      PROVE  Below(learned, k)' /\ learned'[k] <= learned'[j]
  <2>1. learned'[j] # 0 /\ (l = 0 \/ learned'[j] < l)
    BY <1>1, <1>5 DEF Below
  <2>2. j \in stays /\ learned'[j] = learned[j]
    BY <1>1, <2>1
  <2>3. ~raised /\ k \in stays /\ k \notin untold /\ learned'[k] = learned[k]
    BY <1>1, <1>5
  <2>4. Below(learned, j)
    BY <1>2, <2>1, <2>2, <2>3 DEF Below
  <2>5. Below(learned, k) /\ learned[k] <= learned[j]
    BY <2>2, <2>3, <2>4 DEF LimitsInv, LimitsAgree
  <2>6. learned[k] \in Nat /\ learned[j] \in Nat
    BY <1>2
  <2>7. QED  BY <1>1, <1>2, <2>1, <2>2, <2>3, <2>5, <2>6 DEF Below
<1>6. LimitsAgree'
  BY <1>1, <1>5 DEF LimitsAgree
<1>7. QED  BY <1>4, <1>6 DEF LimitsInv

LEMMA LimitsNext == ASSUME LimitsInv, [Next]_vars PROVE LimitsInv'
<1> USE LimitsAssumption
<1>0. due \in BOOLEAN
  BY DEF LimitsInv, QuotaType
<1>1. ASSUME NEW outcome, NEW header \in Header, ReleasePerMinute(outcome, header)
      PROVE  LimitsInv'
  <2>1. PICK used : LearnAll(Focus, outcome, used, header)
    BY <1>1 DEF ReleasePerMinute
  <2>2. Focus \in keys /\ UNCHANGED <<which, daily, due, newDate, today, dropped>>
    BY <1>1 DEF ReleasePerMinute, day
  <2>3. LimitsKept'
    BY <2>1, <2>2, LearnAllAgrees
  <2>4. QED  BY <1>0, <2>2, <2>3, DayStays
<1>2. ASSUME NEW outcome, NEW header \in Header, ReleasePerDay(outcome, header)
      PROVE  LimitsInv'
  BY <1>2, LimitsReleasePerDay
<1>3. ASSUME NEW outcome, NEW header \in Header, NEW k \in Key,
             ReleaseOther(k, outcome, header)
      PROVE  LimitsInv'
  <2>1. PICK used : LearnAll(k, outcome, used, header)
    BY <1>3 DEF ReleaseOther
  <2>2. k \in keys /\ UNCHANGED <<which, daily, newDate, today, dropped>>
        /\ due' \in BOOLEAN /\ (due' => due)
    BY <1>0, <1>3 DEF ReleaseOther
  <2>3. LimitsKept'
    BY <2>1, <2>2, LearnAllAgrees
  <2>4. QED  BY <2>2, <2>3, DayStays
<1>4. CASE Look
  <2>1. LimitsKept'
    BY <1>4, LimitsStay DEF Look, limits, which
  <2>2. UNCHANGED <<which, dropped, today>> /\ AskFocus(DailyNow)
    BY <1>4 DEF Look
  <2>3. QED  BY <2>1, <2>2, DailyNowCounts, AskKeeps DEF LimitsInv, QuotaType
<1>5. CASE LookAtOthers
  <2>1. LimitsKept'
    BY <1>5, LimitsStay DEF LookAtOthers, limits, which
  <2>2. QED  BY <1>5, <2>1, DayStays DEF LookAtOthers
<1>6. CASE Tick
  <2>1. LimitsKept'
    BY <1>6, LimitsStay DEF Tick, limits, which
  <2>2. QED  BY <1>0, <1>6, <2>1, DayStays DEF Tick, day
<1>7. ASSUME NEW k \in Key, Decay(k)
      PROVE  LimitsInv'
  <2>1. LimitsKept'
    BY <1>7, LimitsStay DEF Decay, which
  <2>2. QED  BY <1>0, <1>7, <2>1, DayStays DEF Decay, day
<1>8. CASE QuotaResets
  <2>1. LimitsKept'
    BY <1>8, LimitsStay DEF QuotaResets, limits, which
  <2>2. QED  BY <1>8, <2>1 DEF QuotaResets, which, LimitsInv, LimitsKept, QuotaType, DayCounted
<1>9. CASE DateChanges
  <2>1. LimitsKept'
    BY <1>9, LimitsStay DEF DateChanges, limits, which
  <2>2. QED  BY <1>9, <2>1 DEF DateChanges, which, LimitsInv, LimitsKept, QuotaType, DayCounted
<1>10. CASE RequestAges
  <2>1. LimitsKept'
    BY <1>10, LimitsStay DEF RequestAges, limits, which
  <2>2. QED  BY <1>10, <2>1 DEF RequestAges, which, LimitsInv, LimitsKept, QuotaType, DayCounted
<1>11. ASSUME NEW s \in SUBSET Key \ {{}}, NEW l \in Limits, Rebuild(s, l)
       PROVE  LimitsInv'
  BY <1>11, RebuildKeeps
<1>12. CASE UNCHANGED vars
  <2>1. LimitsKept'
    BY <1>12, LimitsStay DEF vars, limits, which
  <2>2. QED  BY <1>0, <1>12, <2>1, DayStays DEF vars, day
<1>13. QED
  BY <1>1, <1>2, <1>3, <1>4, <1>5, <1>6, <1>7, <1>8, <1>9, <1>10, <1>11, <1>12 DEF Next

-----------------------------------------------------------------------------
(***************************************************************************)
(* The sliding window.  A bucket is as old as the first of its uses, so     *)
(* none of them is older: for every age, the uses in buckets of at most     *)
(* that age are among the uses of at most that age.                         *)
(***************************************************************************)
Windows == [Slots -> [age : 0..Expired, n : Nat]]
Uses    == [0..Window -> Nat]

Dated(w, a) == [i \in Slots |-> IF w[i].age <= a THEN w[i].n ELSE 0]
DatedUses(w, a) == Total(Dated(w, a), Buckets - 1)

Covers(w, r) == \A a \in 0..Window : DatedUses(w, a) <= Total(r, a)

WindowInv == TypeOK /\ LimitsInv /\ Covers(bucket, recent)

LEMMA SizesAre ==
  /\ Window \in Nat \ {0} /\ Expired = Window + 1 /\ Slots = 0..(Buckets - 1) /\ Buckets - 1 \in Nat
  /\ phase \in 0..(Window - 1) => Current \in Slots
<1>1. Buckets \in Nat \ {0} /\ Width \in Nat \ {0}
  BY LimitsAssumption
<1>2. Window \in Nat \ {0}
  <2>1. \A b, x \in Nat \ {0} : b * x \in Nat \ {0}
    OBVIOUS
  <2>2. QED  BY <1>1, <2>1, Zenon DEF Window
<1>3. ASSUME phase \in 0..(Window - 1) PROVE Current \in Slots
  <2>1. phase \in Nat /\ phase < Buckets * Width
    BY <1>2, <1>3 DEF Window
  <2>2. Current \in Nat /\ Width * Current <= phase
    BY <1>1, <2>1 DEF Current
  <2>3. ~(Buckets <= Current)
    <3>1. \A b, q, x \in Nat : b <= q => x * b <= x * q
      OBVIOUS
    <3>2. Buckets <= Current => Width * Buckets <= Width * Current
      BY <1>1, <2>2, <3>1
    <3>3. Width * Buckets = Buckets * Width /\ Buckets * Width \in Nat /\ Width * Current \in Nat
      BY <1>1, <2>2
    <3>4. QED  BY <2>1, <2>2, <3>2, <3>3
  <2>4. QED  BY <1>1, <2>2, <2>3 DEF Slots
<1>4. QED  BY <1>1, <1>2, <1>3 DEF Expired, Slots

LEMMA DatedIs ==
  ASSUME NEW w \in Windows, NEW a
  PROVE  Dated(w, a) \in [0..(Buckets - 1) -> Nat] /\ DatedUses(w, a) \in Nat
<1>1. Dated(w, a) \in [0..(Buckets - 1) -> Nat]
  BY DEF Dated, Windows, Slots
<1>2. Buckets - 1 \in Nat
  BY SizesAre
<1>3. QED  BY <1>1, <1>2, TotalIs DEF DatedUses

\* _rotate clears only what is out of the window.
LEMMA RotateCovers ==
  ASSUME NEW w \in Windows, phase \in 0..(Window - 1)
  PROVE  /\ Rotated(w) \in Windows
         /\ \A a \in 0..Window : Dated(Rotated(w), a) = Dated(w, a)
         /\ \A i \in Slots : Rotated(w)[i].n \in {0, w[i].n}
         /\ Rotated(w)[Current].age <= Window
         /\ Used(Rotated(w)) = DatedUses(w, Window)
<1> USE SizesAre
<1>1. \A i \in Slots : Empty \in [age : 0..Expired, n : Nat] /\ w[i] \in [age : 0..Expired, n : Nat]
                       /\ Empty.n = 0 /\ Empty.age = Window + 1
  BY DEF Windows, Empty
<1>2. \A i \in Slots : Rotated(w)[i] =
         IF w[i].age <= Window THEN w[i]
         ELSE IF i = Current THEN [age |-> 0, n |-> 0] ELSE Empty
  BY DEF Rotated
<1>3. ASSUME NEW i \in Slots
      PROVE  \/ w[i].age <= Window /\ Rotated(w)[i] = w[i]
             \/ /\ ~(w[i].age <= Window) /\ Rotated(w)[i].n = 0
                /\ Rotated(w)[i].age = IF i = Current THEN 0 ELSE Window + 1
  <2>1. CASE w[i].age <= Window
    BY <1>2, <2>1
  <2>2. CASE ~(w[i].age <= Window) /\ i = Current
    <3>1. Rotated(w)[i] = [age |-> 0, n |-> 0]
      BY <1>2, <2>2
    <3>2. QED  BY <2>2, <3>1
  <2>3. CASE ~(w[i].age <= Window) /\ i # Current
    <3>1. Rotated(w)[i] = Empty
      BY <1>2, <2>3
    <3>2. Empty.n = 0 /\ Empty.age = Window + 1
      BY <1>1
    <3>3. QED  BY <2>3, <3>1, <3>2
  <2>4. QED  BY <2>1, <2>2, <2>3
<1>4. Rotated(w) \in Windows
  <2>1. \A i \in Slots : Rotated(w)[i] \in [age : 0..Expired, n : Nat]
    <3> DEFINE fresh == [age |-> 0, n |-> 0]
    <3>1. fresh \in [age : 0..Expired, n : Nat]
      OBVIOUS
    <3>2. \A i \in Slots : Rotated(w)[i] \in {w[i], fresh, Empty}
      BY <1>2
    <3> HIDE DEF fresh
    <3>3. QED  BY <1>1, <3>1, <3>2
  <2>2. Rotated(w) = [i \in Slots |-> Rotated(w)[i]]
    BY DEF Rotated
  <2>3. QED  BY <2>1, <2>2 DEF Windows
<1>5. \A a \in 0..Window : Dated(Rotated(w), a) = Dated(w, a)
  <2> TAKE a \in 0..Window
  <2>1. \A i \in Slots : (IF Rotated(w)[i].age <= a THEN Rotated(w)[i].n ELSE 0)
                         = IF w[i].age <= a THEN w[i].n ELSE 0
    <3> TAKE i \in Slots
    <3>1. w[i].age \in 0..Expired
      BY <1>1
    <3>2. QED  BY <1>3, <3>1
  <2>2. QED  BY <2>1 DEF Dated
<1>6. \A i \in Slots : Rotated(w)[i].n \in {0, w[i].n}
  BY <1>3
<1>7. Rotated(w)[Current].age <= Window
  BY <1>3
<1>8. Used(Rotated(w)) = DatedUses(w, Window)
  <2>1. \A i \in Slots : Rotated(w)[i].n = IF w[i].age <= Window THEN w[i].n ELSE 0
    BY <1>3
  <2>2. [i \in Slots |-> Rotated(w)[i].n] = Dated(w, Window)
    BY <2>1 DEF Dated
  <2>3. QED  BY <2>2 DEF Used, DatedUses
<1>9. QED  BY <1>4, <1>5, <1>6, <1>7, <1>8

\* Uses of this moment are added to the current bucket.
LEMMA RecordCovers ==
  ASSUME NEW w \in Windows, NEW r \in Uses, NEW c \in Nat, phase \in 0..(Window - 1), Covers(w, r)
  PROVE  /\ Recorded(w, c) \in Windows /\ [r EXCEPT ![0] = @ + c] \in Uses
         /\ Covers(Recorded(w, c), [r EXCEPT ![0] = @ + c])
         /\ Total([r EXCEPT ![0] = @ + c], Window) = Total(r, Window) + c
         /\ \A i \in Slots : Recorded(w, c)[i].n \in {0, w[i].n}
                             \/ Recorded(w, c)[i].n <= Total(r, Window) + c
<1> USE SizesAre
<1> DEFINE ro == Rotated(w)
           w2 == Recorded(w, c)
           r2 == [r EXCEPT ![0] = @ + c]
<1>1. /\ ro \in Windows /\ ro[Current].age <= Window
      /\ \A a \in 0..Window : Dated(ro, a) = Dated(w, a)
      /\ \A i \in Slots : ro[i].n \in {0, w[i].n}
  BY RotateCovers
<1>2. w2 = [ro EXCEPT ![Current].n = @ + c]
  BY DEF Recorded
<1> HIDE DEF ro, w2
<1>3. w2 \in Windows /\ \A i \in Slots : /\ w2[i].age = ro[i].age
                                        /\ w2[i].n = ro[i].n + (IF i = Current THEN c ELSE 0)
  <2>1. ASSUME NEW i \in Slots
        PROVE  /\ w2[i] \in [age : 0..Expired, n : Nat] /\ w2[i].age = ro[i].age
               /\ w2[i].n = ro[i].n + (IF i = Current THEN c ELSE 0)
    <3>1. ro[i] \in [age : 0..Expired, n : Nat] /\ ro \in [Slots -> [age : 0..Expired, n : Nat]]
      BY <1>1 DEF Windows
    <3>2. CASE i = Current
      <4>1. w2[i] = [ro[i] EXCEPT !.n = @ + c]
        BY <1>2, <3>1, <3>2
      <4>2. QED  BY <3>1, <3>2, <4>1
    <3>3. CASE i # Current
      <4>1. w2[i] = ro[i]
        BY <1>2, <3>1, <3>3
      <4>2. QED  BY <3>1, <3>3, <4>1
    <3>4. QED  BY <3>2, <3>3
  <2>2. w2 = [i \in Slots |-> w2[i]]
    BY <1>1, <1>2 DEF Windows
  <2>3. w2 \in Windows
    BY <2>1, <2>2 DEF Windows
  <2>4. QED  BY <2>1, <2>3
<1>4. r2 \in Uses /\ \A a \in 0..Window : r2[a] = r[a] + (IF a = 0 THEN c ELSE 0)
  BY DEF Uses
<1> HIDE DEF r2
<1>5. \A a \in 0..Window : Total(r2, a) = Total(r, a) + c /\ Total(r, a) \in Nat
  <2>1. \A a \in 0..Window : r[a] \in Nat
    BY DEF Uses
  <2>2. \A a \in 0..Window : Total(r2, a) = Total(r, a) + (IF 0 <= a THEN c ELSE 0)
    <3>1. Raised(r, r2, Window, 0, c)
      BY <1>4, <2>1 DEF Raised
    <3>2. Window \in Nat /\ 0 \in 0..Window
      OBVIOUS
    <3>3. QED  BY <3>1, <3>2, TotalAdd
  <2>3. ASSUME NEW a \in 0..Window PROVE Total(r, a) \in Nat
    <3>1. a \in Nat /\ \A i \in 0..a : r[i] \in Nat
      BY <2>1
    <3>2. QED  BY <3>1, TotalIs
  <2>4. QED  BY <2>2, <2>3
<1>6. ASSUME NEW a \in 0..Window
      PROVE  DatedUses(w2, a) = DatedUses(w, a) + (IF ro[Current].age <= a THEN c ELSE 0)
  <2> DEFINE add == IF ro[Current].age <= a THEN c ELSE 0
             f == Dated(ro, a)
             g == Dated(w2, a)
  <2>1. f \in [0..(Buckets - 1) -> Nat]
    BY <1>1, DatedIs
  <2>2. Raised(f, g, Buckets - 1, Current, add)
    <3>1. \A i \in Slots : g[i] = f[i] + (IF i = Current THEN add ELSE 0)
      BY <1>1, <1>3 DEF Dated, Windows
    <3>2. QED  BY <2>1, <3>1 DEF Raised
  <2>3. /\ add \in Nat /\ Buckets - 1 \in Nat
        /\ Current \in 0..(Buckets - 1) /\ Buckets - 1 \in 0..(Buckets - 1)
    OBVIOUS
  <2> HIDE DEF f, g, add
  <2>4. Total(g, Buckets - 1) = Total(f, Buckets - 1) + (IF Current <= Buckets - 1 THEN add ELSE 0)
    BY <2>2, <2>3, TotalAdd
  <2>5. Total(g, Buckets - 1) = Total(f, Buckets - 1) + add
    BY <2>3, <2>4
  <2>6. QED  BY <1>1, <2>5 DEF DatedUses, f, g, add
<1>7. Covers(w2, r2)
  <2>1. \A a \in 0..Window : DatedUses(w, a) \in Nat
    BY DatedIs
  <2>2. ASSUME NEW a \in 0..Window PROVE DatedUses(w2, a) <= Total(r2, a)
    <3>1. DatedUses(w, a) <= Total(r, a) /\ DatedUses(w, a) \in Nat /\ Total(r, a) \in Nat
      BY <1>5, <2>1 DEF Covers
    <3>2. Total(r2, a) = Total(r, a) + c
      BY <1>5
    <3>3. DatedUses(w2, a) \in {DatedUses(w, a), DatedUses(w, a) + c}
      BY <1>6, <3>1
    <3>4. QED  BY <3>1, <3>2, <3>3
  <2>3. QED  BY <2>2 DEF Covers
<1>8. Total(r2, Window) = Total(r, Window) + c
  BY <1>5
<1>9. \A i \in Slots : w2[i].n \in {0, w[i].n} \/ w2[i].n <= Total(r, Window) + c
  <2>1. ASSUME NEW i \in Slots, i # Current PROVE w2[i].n \in {0, w[i].n}
    <3>1. ro[i] \in [age : 0..Expired, n : Nat] /\ ro[i].n \in {0, w[i].n}
      BY <1>1 DEF Windows
    <3>2. w2[i].n = ro[i].n + 0
      BY <1>3, <2>1
    <3>3. QED  BY <3>1, <3>2
  <2>2. w2[Current].n <= Total(r, Window) + c
    <3>1. Dated(w2, Window)[Current] = w2[Current].n
      BY <1>1, <1>3 DEF Dated
    <3>2. Dated(w2, Window)[Current] <= DatedUses(w2, Window)
      BY <1>3, DatedIs, TotalBounds DEF DatedUses
    <3>3. DatedUses(w2, Window) <= Total(r2, Window)
      BY <1>7 DEF Covers
    <3>4. w2[Current].n \in Nat /\ DatedUses(w2, Window) \in Nat /\ Total(r2, Window) \in Nat
      <4>1. w2[Current] \in [age : 0..Expired, n : Nat]
        BY <1>3 DEF Windows
      <4>2. Total(r, Window) \in Nat /\ Total(r2, Window) = Total(r, Window) + c
        BY <1>5
      <4>3. DatedUses(w2, Window) \in Nat
        BY <1>3, DatedIs
      <4>4. QED  BY <4>1, <4>2, <4>3
    <3>5. QED  BY <1>8, <3>1, <3>2, <3>3, <3>4
  <2>3. QED  BY <2>1, <2>2
<1>10. QED  BY <1>3, <1>4, <1>7, <1>8, <1>9 DEF w2, r2

\* A tick makes every bucket and every use older by one.
LEMMA TickCovers ==
  ASSUME WindowInv, Tick
  PROVE  /\ phase' \in 0..(Window - 1)
         /\ bucket' \in [Slots -> [age : 0..Expired, n : 0..MaxCount]]
         /\ recent' \in [0..Window -> 0..MaxCount]
         /\ Covers(bucket', recent')
<1> USE SizesAre
<1>1. /\ phase \in 0..(Window - 1)
      /\ bucket \in [Slots -> [age : 0..Expired, n : 0..MaxCount]]
      /\ recent \in [0..Window -> 0..MaxCount]
  BY DEF WindowInv, TypeOK
<1>2. bucket \in Windows /\ recent \in Uses /\ MaxCount \in Nat
  BY <1>1, LimitsAssumption DEF Windows, Uses
<1>3. phase' \in 0..(Window - 1)
  BY <1>1 DEF Tick
<1>4. \A x, y \in Int : Min({x, y}) = IF x <= y THEN x ELSE y
  <2> TAKE x, y \in Int
  <2>1. Min({x, y}) \in {x, y} /\ \A z \in {x, y} : Min({x, y}) <= z
    <3>1. \E z \in {x, y} : \A u \in {x, y} : z <= u
      OBVIOUS
    <3>2. QED  BY <3>1 DEF Min
  <2>2. QED  BY <2>1
<1>5. \A i \in Slots : /\ bucket'[i].n = bucket[i].n
                       /\ bucket'[i].age = IF bucket[i].age = Expired THEN Expired ELSE bucket[i].age + 1
                       /\ bucket'[i] \in [age : 0..Expired, n : 0..MaxCount]
  <2> TAKE i \in Slots
  <2>1. bucket[i] \in [age : 0..Expired, n : 0..MaxCount]
    BY <1>1
  <2>2. bucket'[i] = [bucket[i] EXCEPT !.age = Min({@ + 1, Expired})]
    BY DEF Tick
  <2>3. Min({bucket[i].age + 1, Expired}) =
          IF bucket[i].age = Expired THEN Expired ELSE bucket[i].age + 1
    <3>1. bucket[i].age \in 0..Expired /\ bucket[i].age + 1 \in Int /\ Expired \in Int
      BY <2>1
    <3>2. QED  BY <1>4, <3>1
  <2>4. /\ bucket[i].n \in 0..MaxCount
        /\ (IF bucket[i].age = Expired THEN Expired ELSE bucket[i].age + 1) \in 0..Expired
    BY <2>1
  <2>5. bucket'[i] = [age |-> IF bucket[i].age = Expired THEN Expired ELSE bucket[i].age + 1,
                      n |-> bucket[i].n]
    BY <2>1, <2>2, <2>3
  <2>6. QED  BY <2>4, <2>5
<1>6. bucket' \in [Slots -> [age : 0..Expired, n : 0..MaxCount]]
  BY <1>5 DEF Tick
<1>7. recent' \in [0..Window -> 0..MaxCount] /\ \A a \in 0..Window : recent'[a] = IF a = 0 THEN 0 ELSE recent[a - 1]
  <2>1. \A a \in 0..Window : recent'[a] = IF a = 0 THEN 0 ELSE recent[a - 1]
    BY DEF Tick
  <2>2. ASSUME NEW a \in 0..Window PROVE recent'[a] \in 0..MaxCount
    <3>1. CASE a = 0
      BY <1>2, <2>1, <3>1
    <3>2. CASE a # 0
      <4>1. a - 1 \in 0..Window
        BY <3>2
      <4>2. QED  BY <1>1, <2>1, <3>2, <4>1
    <3>3. QED  BY <3>1, <3>2
  <2>3. QED  BY <2>1, <2>2 DEF Tick
<1>8. \A a \in 0..Window : Total(recent', a) = IF a = 0 THEN 0 ELSE Total(recent, a - 1)
  <2>1. \A a \in 0..Window : recent[a] \in Nat
    BY <1>2 DEF Uses
  <2>2. QED  BY <1>7, <2>1, TotalShift
<1>9. ASSUME NEW a \in 0..Window PROVE DatedUses(bucket', a) <= Total(recent', a)
  <2>1. CASE a = 0
    <3>1. \A i \in Slots : ~(bucket'[i].age <= a)
      <4> TAKE i \in Slots
      <4>1. bucket'[i].age = IF bucket[i].age = Expired THEN Expired ELSE bucket[i].age + 1
        BY <1>5
      <4>2. bucket[i].age \in 0..(Window + 1)
        BY <1>1
      <4>3. QED  BY <2>1, <4>1, <4>2
    <3>2. \A i \in 0..(Buckets - 1) : Dated(bucket', a)[i] = 0
      BY <3>1 DEF Dated
    <3>3. DatedUses(bucket', a) = 0
      BY <3>2, TotalZero DEF DatedUses
    <3>4. QED  BY <1>8, <2>1, <3>3
  <2>2. CASE a # 0
    <3>1. \A i \in Slots : (IF bucket'[i].age <= a THEN bucket'[i].n ELSE 0)
                           = IF bucket[i].age <= a - 1 THEN bucket[i].n ELSE 0
      <4>1. \A i \in Slots : bucket[i].age \in 0..Expired
        BY <1>1
      <4>2. ASSUME NEW i \in Slots PROVE bucket'[i].age <= a <=> bucket[i].age <= a - 1
        <5>1. bucket'[i].age = IF bucket[i].age = Expired THEN Expired ELSE bucket[i].age + 1
          BY <1>5
        <5>2. bucket[i].age \in 0..(Window + 1)
          BY <4>1
        <5>3. QED  BY <5>1, <5>2
      <4>3. QED  BY <1>5, <4>2
    <3>2. Dated(bucket', a) = Dated(bucket, a - 1)
      BY <3>1 DEF Dated
    <3>3. a - 1 \in 0..Window
      BY <2>2
    <3>4. DatedUses(bucket, a - 1) <= Total(recent, a - 1)
      BY <3>3 DEF WindowInv, Covers
    <3>5. QED  BY <1>8, <2>2, <3>2, <3>4 DEF DatedUses
  <2>3. QED  BY <2>1, <2>2
<1>10. QED  BY <1>3, <1>6, <1>7, <1>9 DEF Covers

LEMMA WindowInit == ASSUME Init PROVE WindowInv
<1> USE SizesAre, LimitsAssumption
<1>1. LimitsInv
  BY LimitsInit
<1>2. bucket = [i \in Slots |-> Empty] /\ recent = [a \in 0..Window |-> 0] /\ phase = 0
  BY DEF Init
<1>3. Empty \in [age : 0..Expired, n : 0..MaxCount]
  BY DEF Empty
<1>4. TypeOK
  <2>1. bucket \in [Slots -> [age : 0..Expired, n : 0..MaxCount]]
    BY <1>2, <1>3
  <2>2. recent \in [0..Window -> 0..MaxCount] /\ phase \in 0..(Window - 1)
    BY <1>2
  <2>3. learned \in [Key -> Nat] /\ periods \in [Key -> 0..MaxPeriods]
    <3>1. learned = [k \in Key |-> 0] /\ periods = [k \in Key |-> 0] /\ 0 \in 0..MaxPeriods
      BY DEF Init
    <3>2. QED  BY <3>1
  <2>4. daily \in 0..MaxCount /\ today \in 0..MaxCount /\ dropped \in 0..MaxCount
        /\ due \in BOOLEAN /\ newDate \in BOOLEAN
    <3>1. daily = 0 /\ today = 0 /\ dropped = 0 /\ 0 \in 0..MaxCount
      BY DEF Init
    <3>2. due \in BOOLEAN /\ newDate \in BOOLEAN
      BY <1>1 DEF LimitsInv, QuotaType
    <3>3. QED  BY <3>1, <3>2
  <2>5. /\ quota \in {"requests", "tokens", "day"} /\ scheduled \in BOOLEAN
        /\ keys \subseteq Key /\ configured \in Limits /\ untold \subseteq keys
    BY DEF Init
  <2>6. QED  BY <2>1, <2>2, <2>3, <2>4, <2>5 DEF TypeOK
<1>5. ASSUME NEW a \in 0..Window PROVE DatedUses(bucket, a) <= Total(recent, a)
  <2>1. \A i \in 0..(Buckets - 1) : Dated(bucket, a)[i] = 0
    BY <1>2 DEF Dated, Empty
  <2>2. \A i \in 0..a : recent[i] = 0
    BY <1>2
  <2>3. DatedUses(bucket, a) = 0
    BY <2>1, TotalZero DEF DatedUses
  <2>4. Total(recent, a) = 0
    BY <2>2, TotalZero
  <2>5. QED  BY <2>3, <2>4
<1>6. QED  BY <1>1, <1>4, <1>5 DEF WindowInv, Covers

\* The variables of a window, typed and sound.
WindowParts ==
  /\ phase \in 0..(Window - 1)
  /\ bucket \in [Slots -> [age : 0..Expired, n : 0..MaxCount]]
  /\ recent \in [0..Window -> 0..MaxCount]
  /\ Covers(bucket, recent)

LEMMA WindowRelease ==
  ASSUME WindowParts, NEW outcome, NEW header \in Header, ReleasePerMinute(outcome, header)
  PROVE  WindowParts'
<1> USE SizesAre, LimitsAssumption
<1> DEFINE c == Counted(outcome)
           counted == IF c = 1 THEN Recorded(bucket, 1) ELSE bucket
           r1 == [recent EXCEPT ![0] = @ + c]
           reported == IF header.limit > 0
                         THEN Max({0, header.used - Used(Rotated(counted))}) ELSE 0
           r2 == [r1 EXCEPT ![0] = @ + reported]
<1>1. /\ Total(recent, Window) + c + reported <= MaxCount
      /\ bucket' = IF reported > 0 THEN Recorded(counted, reported) ELSE counted
      /\ recent' = [recent EXCEPT ![0] = @ + c + reported]
      /\ phase' = phase
  BY DEF ReleasePerMinute
<1>2. c \in {0, 1} /\ header.used \in Nat
  BY DEF Counted
<1>3. bucket \in Windows /\ recent \in Uses /\ \A i \in Slots : bucket[i].n \in 0..MaxCount
  BY DEF WindowParts, Windows, Uses
<1>4. phase \in 0..(Window - 1) /\ Covers(bucket, recent)
  BY DEF WindowParts
<1> HIDE DEF c
<1>5. /\ counted \in Windows /\ r1 \in Uses /\ Covers(counted, r1)
      /\ Total(r1, Window) = Total(recent, Window) + c
      /\ \A i \in Slots : counted[i].n \in {0, bucket[i].n}
                          \/ counted[i].n <= Total(recent, Window) + c
  <2>1. CASE c = 1
    <3>1. counted = Recorded(bucket, c) /\ c \in Nat
      BY <2>1
    <3>2. /\ Recorded(bucket, c) \in Windows /\ r1 \in Uses /\ Covers(Recorded(bucket, c), r1)
          /\ Total(r1, Window) = Total(recent, Window) + c
          /\ \A i \in Slots : Recorded(bucket, c)[i].n \in {0, bucket[i].n}
                              \/ Recorded(bucket, c)[i].n <= Total(recent, Window) + c
      BY <1>3, <1>4, <3>1, RecordCovers
    <3> HIDE DEF counted, r1
    <3>3. QED  BY <3>1, <3>2
  <2>2. CASE c = 0
    <3>1. r1 = recent
      BY <1>3, <2>2 DEF Uses
    <3>2. Total(recent, Window) \in Nat
      BY <1>3, TotalIs DEF Uses
    <3>3. QED  BY <1>3, <1>4, <2>2, <3>1, <3>2
  <2>3. QED  BY <1>2, <2>1, <2>2
<1> HIDE DEF counted
<1>6. reported \in Nat
  <2>1. Used(Rotated(counted)) \in Nat
    BY <1>4, <1>5, RotateCovers, DatedIs
  <2>2. header.used - Used(Rotated(counted)) \in Int
    BY <1>2, <2>1
  <2>3. Max({0, header.used - Used(Rotated(counted))}) >= 0
        /\ Max({0, header.used - Used(Rotated(counted))}) \in {0, header.used - Used(Rotated(counted))}
    BY <2>2, LargerOf
  <2>4. QED  BY <2>2, <2>3
<1>7. recent' = r2
  BY <1>1, <1>2, <1>3, <1>6 DEF Uses
<1> HIDE DEF r1, reported
<1>8. /\ bucket' \in Windows /\ recent' \in Uses /\ Covers(bucket', recent')
      /\ Total(recent', Window) = Total(r1, Window) + reported
      /\ \A i \in Slots : bucket'[i].n \in {0, counted[i].n}
                          \/ bucket'[i].n <= Total(r1, Window) + reported
  <2>1. CASE reported > 0
    <3>1. bucket' = Recorded(counted, reported)
      BY <1>1, <2>1
    <3>2. QED  BY <1>4, <1>5, <1>6, <1>7, <3>1, RecordCovers
  <2>2. CASE reported = 0
    <3>1. r2 = r1 /\ bucket' = counted
      BY <1>1, <1>5, <2>2 DEF Uses
    <3>2. Total(r1, Window) \in Nat
      BY <1>5, TotalIs DEF Uses
    <3>3. bucket' = counted /\ recent' = r1 /\ Total(r1, Window) + reported = Total(r1, Window)
      BY <1>7, <2>2, <3>1, <3>2
    <3>4. QED  BY <1>5, <3>3
  <2>3. QED  BY <1>6, <2>1, <2>2
<1>9. Total(recent', Window) <= MaxCount /\ Total(recent', Window) \in Nat
  <2>1. Total(recent, Window) \in Nat /\ Total(recent', Window) \in Nat
    BY <1>3, <1>8, TotalIs DEF Uses
  <2>2. QED  BY <1>1, <1>2, <1>5, <1>6, <1>8, <2>1
<1>10. \A i \in Slots : bucket'[i].n \in 0..MaxCount
  <2> TAKE i \in Slots
  <2>1. bucket'[i].n \in Nat /\ counted[i].n \in Nat
    BY <1>5, <1>8 DEF Windows
  <2>2. bucket[i].n \in 0..MaxCount
    BY <1>3
  <2>3. counted[i].n <= MaxCount
    <3>1. Total(recent, Window) \in Nat
      BY <1>3, TotalIs DEF Uses
    <3>2. Total(recent, Window) + c <= MaxCount
      BY <1>1, <1>2, <1>6, <3>1
    <3>3. counted[i].n \in {0, bucket[i].n} \/ counted[i].n <= Total(recent, Window) + c
      BY <1>5
    <3>4. Total(recent, Window) + c \in Nat /\ MaxCount \in Nat
      BY <1>2, <3>1
    <3>5. CASE counted[i].n \in {0, bucket[i].n}
      BY <2>2, <3>4, <3>5
    <3>6. CASE counted[i].n <= Total(recent, Window) + c
      BY <2>1, <3>2, <3>4, <3>6
    <3>7. QED  BY <3>3, <3>5, <3>6
  <2>4. bucket'[i].n <= MaxCount
    BY <1>8, <1>9, <2>1, <2>3
  <2>5. QED  BY <2>1, <2>4
<1>11. bucket' \in [Slots -> [age : 0..Expired, n : 0..MaxCount]]
  BY <1>8, <1>10 DEF Windows
<1>12. recent' \in [0..Window -> 0..MaxCount]
  <2>1. \A a \in 0..Window : recent'[a] <= Total(recent', Window) /\ recent'[a] \in Nat
    BY <1>8, TotalBounds DEF Uses
  <2>2. \A a \in 0..Window : recent'[a] \in 0..MaxCount
    BY <1>9, <2>1
  <2>3. QED  BY <1>8, <2>2 DEF Uses
<1>13. QED  BY <1>1, <1>4, <1>8, <1>11, <1>12 DEF WindowParts

LEMMA WindowLook ==
  ASSUME WindowParts, bucket' = Rotated(bucket), UNCHANGED <<phase, recent>>
  PROVE  WindowParts'
<1> USE SizesAre, LimitsAssumption
<1>1. bucket \in Windows /\ \A i \in Slots : bucket[i].n \in 0..MaxCount
  BY DEF WindowParts, Windows
<1>2. /\ bucket' \in Windows
      /\ \A a \in 0..Window : Dated(bucket', a) = Dated(bucket, a)
      /\ \A i \in Slots : bucket'[i].n \in {0, bucket[i].n}
  BY <1>1, RotateCovers DEF WindowParts
<1>3. bucket' \in [Slots -> [age : 0..Expired, n : 0..MaxCount]]
  <2>1. \A i \in Slots : bucket'[i].n \in 0..MaxCount
    BY <1>1, <1>2
  <2>2. QED  BY <1>2, <2>1 DEF Windows
<1>4. Covers(bucket', recent')
  BY <1>2 DEF WindowParts, Covers, DatedUses
<1>5. QED  BY <1>3, <1>4 DEF WindowParts

\* The windows of a new instance are empty.
LEMMA WindowEmptied ==
  ASSUME WindowParts, bucket' = [i \in Slots |-> Empty], UNCHANGED <<phase, recent>>
  PROVE  WindowParts'
<1> USE SizesAre, LimitsAssumption
<1>1. Empty \in [age : 0..Expired, n : 0..MaxCount]
  BY DEF Empty
<1>2. bucket' \in [Slots -> [age : 0..Expired, n : 0..MaxCount]]
  BY <1>1
<1>3. ASSUME NEW a \in 0..Window PROVE DatedUses(bucket', a) <= Total(recent', a)
  <2>1. \A i \in 0..(Buckets - 1) : Dated(bucket', a)[i] = 0
    BY DEF Dated, Empty
  <2>2. DatedUses(bucket', a) = 0
    BY <2>1, TotalZero DEF DatedUses
  <2>3. a \in Nat /\ \A i \in 0..a : recent'[i] \in Nat
    BY DEF WindowParts
  <2>4. Total(recent', a) \in Nat
    BY <2>3, TotalIs
  <2>5. QED  BY <2>2, <2>4
<1>4. QED  BY <1>2, <1>3 DEF WindowParts, Covers

LEMMA WindowPartsNext ==
  ASSUME WindowInv, [Next]_vars
  PROVE  WindowParts'
<1>1. WindowParts
  BY DEF WindowInv, TypeOK, WindowParts
<1>2. ASSUME UNCHANGED window PROVE WindowParts'
  BY <1>1, <1>2 DEF window, WindowParts, Covers, DatedUses, Dated
<1>3. CASE Tick
  BY <1>3, TickCovers DEF WindowParts
<1>4. CASE Look
  BY <1>1, <1>4, WindowLook DEF Look
<1>5. ASSUME NEW outcome \in Outcome, NEW header \in Header,
             \/ ReleasePerMinute(outcome, header)
             \/ ReleasePerDay(outcome, header)
             \/ \E k \in Key : ReleaseOther(k, outcome, header)
      PROVE  WindowParts'
  BY <1>1, <1>2, <1>5, WindowRelease DEF ReleasePerDay, ReleaseOther
<1>6. ASSUME NEW s, NEW l, Rebuild(s, l) PROVE WindowParts'
  BY <1>1, <1>6, WindowEmptied DEF Rebuild
<1>7. QED
  BY <1>2, <1>3, <1>4, <1>5, <1>6
  DEF Next, LookAtOthers, Decay, QuotaResets, DateChanges, RequestAges, vars

LEMMA PeriodsNext ==
  ASSUME TypeOK, [Next]_vars
  PROVE  periods' \in [Key -> 0..MaxPeriods]
<1> USE LimitsAssumption
<1>1. periods \in [Key -> 0..MaxPeriods] /\ 0 \in 0..MaxPeriods
  BY DEF TypeOK
<1>2. ASSUME NEW k, NEW outcome, NEW used, NEW header, LearnAll(k, outcome, used, header)
      PROVE  periods' \in [Key -> 0..MaxPeriods]
  <2>1. PICK new : periods' = [j \in Key |-> IF new[j] = learned[j] THEN periods[j] ELSE 0]
    BY <1>2 DEF LearnAll
  <2>2. QED  BY <1>1, <2>1
<1>3. ASSUME NEW outcome, NEW header,
             \/ ReleasePerMinute(outcome, header)
             \/ ReleasePerDay(outcome, header)
             \/ \E k \in Key : ReleaseOther(k, outcome, header)
      PROVE  periods' \in [Key -> 0..MaxPeriods]
  BY <1>2, <1>3 DEF ReleasePerMinute, ReleasePerDay, ReleaseOther
<1>4. ASSUME NEW k \in Key, Decay(k)
      PROVE  periods' \in [Key -> 0..MaxPeriods]
  <2>1. periods[k] + 1 \in 0..MaxPeriods
    BY <1>1, <1>4 DEF Decay
  <2>2. QED  BY <1>1, <1>4, <2>1 DEF Decay
<1>5. ASSUME NEW s, NEW l, Rebuild(s, l)
      PROVE  periods' \in [Key -> 0..MaxPeriods]
  <2>1. periods' = [k \in Key |-> IF k \in keys \cap s THEN periods[k] ELSE 0]
    BY <1>5 DEF Rebuild
  <2>2. QED  BY <1>1, <2>1
<1>6. QED
  BY <1>1, <1>3, <1>4, <1>5
  DEF Next, Look, LookAtOthers, Tick, QuotaResets, DateChanges, RequestAges, limits, vars

LEMMA DayNext ==
  ASSUME TypeOK, LimitsInv, [Next]_vars
  PROVE  daily' \in 0..MaxCount /\ today' \in 0..MaxCount /\ dropped' \in 0..MaxCount
<1> USE LimitsAssumption
<1>1. /\ daily \in 0..MaxCount /\ today \in 0..MaxCount /\ dropped \in 0..MaxCount
      /\ 0 \in 0..MaxCount
  BY DEF TypeOK
<1>2. ASSUME NEW outcome, NEW header \in Header, ReleasePerDay(outcome, header)
      PROVE  daily' \in 0..MaxCount /\ today' \in 0..MaxCount /\ dropped' \in 0..MaxCount
  <2>1. dropped' = dropped
    BY <1>2 DEF ReleasePerDay
  <2>2. QED  BY <1>1, <1>2, <2>1, LimitsReleasePerDay
<1>3. CASE Look
  BY <1>1, <1>3 DEF Look, AskFocus, DailyNow
<1>4. ASSUME NEW outcome, NEW header, ReleasePerMinute(outcome, header)
      PROVE  daily' \in 0..MaxCount /\ today' \in 0..MaxCount /\ dropped' \in 0..MaxCount
  BY <1>1, <1>4 DEF ReleasePerMinute, day
<1>5. ASSUME NEW outcome, NEW header, NEW k \in Key, ReleaseOther(k, outcome, header)
      PROVE  daily' \in 0..MaxCount /\ today' \in 0..MaxCount /\ dropped' \in 0..MaxCount
  BY <1>1, <1>5 DEF ReleaseOther
<1>6. ASSUME NEW s, NEW l, Rebuild(s, l)
      PROVE  daily' \in 0..MaxCount /\ today' \in 0..MaxCount /\ dropped' \in 0..MaxCount
  BY <1>1, <1>6 DEF Rebuild
<1>7. CASE RequestAges
  BY <1>1, <1>7 DEF RequestAges
<1>8. QED
  BY <1>1, <1>2, <1>3, <1>4, <1>5, <1>6, <1>7
  DEF Next, LookAtOthers, Tick, Decay, QuotaResets, DateChanges, day, vars

\* What is followed stays what it is; a rebuild takes another configured limit.
LEMMA WhichNext ==
  ASSUME TypeOK, [Next]_vars
  PROVE  quota' = quota /\ configured' \in Limits
<1>1. ASSUME UNCHANGED which PROVE quota' = quota /\ configured' \in Limits
  BY <1>1 DEF TypeOK, which
<1>2. ASSUME NEW outcome, NEW header,
             \/ ReleasePerMinute(outcome, header)
             \/ ReleasePerDay(outcome, header)
             \/ \E k \in Key : ReleaseOther(k, outcome, header)
      PROVE  UNCHANGED which
  BY <1>2 DEF ReleasePerMinute, ReleasePerDay, ReleaseOther
<1>3. ASSUME NEW s, NEW l \in Limits, Rebuild(s, l)
      PROVE  quota' = quota /\ configured' \in Limits
  BY <1>3 DEF Rebuild
<1>4. QED
  BY <1>1, <1>2, <1>3
  DEF Next, Look, LookAtOthers, Tick, Decay, QuotaResets, DateChanges, RequestAges, vars

LEMMA WindowNext == ASSUME WindowInv, [Next]_vars PROVE WindowInv'
<1>1. LimitsInv'
  BY LimitsNext DEF WindowInv
<1>2. WindowParts'
  BY WindowPartsNext
<1>3. TypeOK'
  <2>1. quota' = quota /\ configured' \in Limits
    BY WhichNext DEF WindowInv
  <2>2. (quota \in {"requests", "tokens", "day"})'
    BY <2>1 DEF WindowInv, TypeOK
  <2>3. daily' \in 0..MaxCount /\ today' \in 0..MaxCount /\ dropped' \in 0..MaxCount
    BY DayNext DEF WindowInv
  <2>4. periods' \in [Key -> 0..MaxPeriods]
    BY PeriodsNext DEF WindowInv
  <2>5. /\ scheduled' \in BOOLEAN /\ due' \in BOOLEAN /\ newDate' \in BOOLEAN
        /\ learned' \in [Key -> Nat] /\ keys' \subseteq Key /\ untold' \subseteq keys'
    BY <1>1 DEF LimitsInv, QuotaType
  <2>6. QED  BY <1>2, <2>1, <2>2, <2>3, <2>4, <2>5 DEF TypeOK, WindowParts
<1>4. QED  BY <1>1, <1>2, <1>3 DEF WindowInv, WindowParts

LEMMA WindowAlways == Spec => []WindowInv
  BY WindowInit, WindowNext, PTL DEF Spec

\* Type correctness; with it, that no bucket and no count of a day exceeds what
\* is known to have been used.
THEOREM KeyLimitsTypeOK == Spec => []TypeOK
<1>1. WindowInv => TypeOK  BY DEF WindowInv
<1>2. QED  BY <1>1, WindowAlways, PTL

\* No use is counted against a key longer than a window, for any number and
\* width of buckets and whenever somebody looks.
THEOREM KeyLimitsWindowSound == Spec => []WindowSound
<1>1. ASSUME WindowInv PROVE WindowSound
  <2>1. bucket \in Windows /\ phase \in 0..(Window - 1)
    BY <1>1, LimitsAssumption DEF WindowInv, TypeOK, Windows
  <2>2. Used(Rotated(bucket)) = DatedUses(bucket, Window)
    BY <2>1, RotateCovers
  <2>3. DatedUses(bucket, Window) <= Total(recent, Window)
    BY <1>1, SizesAre DEF WindowInv, Covers
  <2>4. QED  BY <2>2, <2>3 DEF WindowSound
<1>2. QED  BY <1>1, WindowAlways, PTL

LEMMA LimitsAlways == Spec => []LimitsInv
  BY LimitsInit, LimitsNext, PTL DEF Spec

\* Whatever the order in which keys learn from 429s and headers and whatever keys
\* and limits a reload brings: no key of the provider knows a lower limit than one
\* that was there when the lowest was learned, unless that one knew of no limit at
\* all or the configured limit was raised since.
THEOREM KeyLimitsAgree == Spec => []LimitsAgree
  BY LimitsAlways, PTL DEF LimitsInv

\* Where the provider resets its quota at a fixed time, the requests since then
\* stay counted as long as the instance lasts, whichever key takes the reset and
\* whenever the date changes.
THEOREM KeyLimitsDailyKept == Spec => []DailyKept
<1>1. LimitsInv => DailyKept
  BY DailyNowCounts DEF DailyKept, Remembers
<1>2. QED  BY <1>1, LimitsAlways, PTL

\* Every period takes a learned limit nearer to the configured one, and never
\* beyond: it is there after as many periods as the limits are apart at most.
THEOREM DecayRises ==
  ASSUME TypeOK, NEW limit \in Nat, limit < configured
  PROVE  Decayed(limit) \in Nat /\ limit < Decayed(limit) /\ Decayed(limit) <= configured
  BY LimitsAssumption DEF TypeOK, Decayed

-----------------------------------------------------------------------------
(***************************************************************************)
(* StatsStore.                                                             *)
(***************************************************************************)
\* Between the truncation and the rename of the temporary file.
InProgress == {"opening", "writing", "renaming"}

\* At most one flush is under way; only it touches the temporary file.
OneFlush ==
  /\ \A f, g \in Flusher : job[f] # "idle" /\ job[g] # "idle" => f = g
  /\ Running => \A f \in Flusher : job[f] # "idle" => flushing
  /\ process = "down" => \A f \in Flusher : job[f] = "idle"
  /\ \A f \in Flusher : job[f] = "renaming" => tmp = snapshot[f]

\* What a flush is about to put in place is newer than the file.
NewerAhead ==
  Running =>
    /\ disk <= mem
    /\ \A f \in Flusher :
         job[f] \in InProgress => disk <= snapshot[f] /\ snapshot[f] <= mem

StoreInv == StatsTypeOK /\ NeverTorn /\ OneFlush /\ NewerAhead

LEMMA StoreInit == ASSUME StatsInit PROVE StoreInv
<1>1. StatsTypeOK
  <2>1. 0 \in Records /\ 0 \in 0..DrainTime
    BY StatsStoreAssumption DEF Records
  <2>2. "idle" \in Jobs
    BY DEF Jobs
  <2>3. QED  BY <2>1, <2>2 DEF StatsInit, StatsTypeOK
<1>2. NeverTorn
  BY DEF StatsInit, NeverTorn, Torn
<1>3. OneFlush
  BY DEF StatsInit, OneFlush, Running
<1>4. NewerAhead
  BY DEF StatsInit, NewerAhead, InProgress
<1>5. QED  BY <1>1, <1>2, <1>3, <1>4 DEF StoreInv

\* A process that ends, whether or not it writes the file a last time.
LEMMA StopKeeps ==
  ASSUME StoreInv, Running, StopRunning,
         disk' \in {disk, mem}, dirty' \in BOOLEAN, flushing' \in BOOLEAN
  PROVE  StoreInv'
<1>1. StatsTypeOK'
  <2>1. 0 \in 0..DrainTime
    BY StatsStoreAssumption
  <2>2. QED  BY <2>1 DEF StoreInv, StatsTypeOK, StopRunning, jobVars
<1>2. NeverTorn'
  <2>1. mem # Torn
    BY StatsStoreAssumption DEF StoreInv, StatsTypeOK, Records, Torn
  <2>2. QED  BY <2>1 DEF StoreInv, NeverTorn, Torn
<1>3. OneFlush'
  BY DEF StoreInv, OneFlush, StopRunning, Running, jobVars
<1>4. NewerAhead'
  BY DEF NewerAhead, StopRunning, Running
<1>5. QED  BY <1>1, <1>2, <1>3, <1>4 DEF StoreInv

LEMMA FlushSyncWrites ==
  ASSUME FlushSync, StatsTypeOK
  PROVE  disk' \in {disk, mem} /\ dirty' \in BOOLEAN /\ flushing' \in BOOLEAN
  BY DEF FlushSync, StatsTypeOK

LEMMA StoreNext == ASSUME StoreInv, [StatsNext]_statsVars PROVE StoreInv'
<1> USE StatsStoreAssumption
<1> USE DEF Records, Missing, Torn
<1>1. CASE Record
  <2>1. StatsTypeOK' /\ NeverTorn'
    BY <1>1 DEF Record, RecordOne, StoreInv, StatsTypeOK, NeverTorn, procVars, jobVars, fileVars
  <2>2. OneFlush'
    BY <1>1 DEF Record, StoreInv, OneFlush, Running, procVars, jobVars, fileVars
  <2>3. NewerAhead'
    BY <1>1 DEF Record, RecordOne, StoreInv, StatsTypeOK, NeverTorn, NewerAhead, InProgress,
                Running, procVars, jobVars, fileVars
  <2>4. QED  BY <2>1, <2>2, <2>3 DEF StoreInv
<1>2. ASSUME NEW s \in Stream, StreamOpens(s)
      PROVE  StoreInv'
  BY <1>2 DEF StreamOpens, StoreInv, StatsTypeOK, NeverTorn, OneFlush, NewerAhead,
              InProgress, Running, jobVars, fileVars
<1>3. ASSUME NEW s \in Stream, StreamCloses(s)
      PROVE  StoreInv'
  <2>1. StatsTypeOK' /\ NeverTorn'
    <3>1. mem' \in Records /\ dirty' \in BOOLEAN
      <4>1. CASE RecordOne
        <5>1. mem' \in Records
          BY <4>1 DEF RecordOne, StoreInv, StatsTypeOK
        <5>2. QED  BY <4>1, <5>1 DEF RecordOne
      <4>2. CASE UNCHANGED <<mem, dirty>>
        <5>1. mem \in Records /\ dirty \in BOOLEAN
          BY Zenon DEF StoreInv, StatsTypeOK
        <5>2. QED  BY <4>2, <5>1
      <4>3. QED  BY <1>3, <4>1, <4>2 DEF StreamCloses
    <3>2. streams' \subseteq Stream
      BY <1>3 DEF StreamCloses, StoreInv, StatsTypeOK
    <3>3. QED
      BY <1>3, <3>1, <3>2 DEF StreamCloses, StoreInv, StatsTypeOK, NeverTorn, jobVars, fileVars
  <2>2. OneFlush'
    BY <1>3 DEF StreamCloses, StoreInv, OneFlush, Running, jobVars, fileVars
  <2>3. NewerAhead'
    BY <1>3 DEF StreamCloses, RecordOne, StoreInv, StatsTypeOK, NeverTorn, OneFlush, NewerAhead, InProgress,
                Running, jobVars, fileVars
  <2>4. QED  BY <2>1, <2>2, <2>3 DEF StoreInv
<1>4. ASSUME NEW f \in Flusher, Flush(f)
      PROVE  StoreInv'
  BY <1>4 DEF Flush, JobAt, StoreInv, StatsTypeOK, NeverTorn, OneFlush, NewerAhead,
              InProgress, Running, procVars, fileVars, Jobs
<1>5. ASSUME NEW f \in Flusher, OpenTmp(f)
      PROVE  StoreInv'
  BY <1>5 DEF OpenTmp, JobAt, StoreInv, StatsTypeOK, NeverTorn, OneFlush, NewerAhead,
              InProgress, Running, procVars, Jobs
<1>6. ASSUME NEW f \in Flusher, WriteTmp(f)
      PROVE  StoreInv'
  BY <1>6 DEF WriteTmp, JobAt, StoreInv, StatsTypeOK, NeverTorn, OneFlush, NewerAhead,
              InProgress, Running, procVars, Jobs
<1>7. ASSUME NEW f \in Flusher, Rename(f)
      PROVE  StoreInv'
  BY <1>7 DEF Rename, JobAt, StoreInv, StatsTypeOK, NeverTorn, OneFlush, NewerAhead,
              InProgress, Running, procVars, Jobs
<1>8. ASSUME NEW f \in Flusher, FlushDone(f)
      PROVE  StoreInv'
  BY <1>8 DEF FlushDone, JobAt, StoreInv, StatsTypeOK, NeverTorn, OneFlush, NewerAhead,
              InProgress, Running, procVars, fileVars, Jobs
<1>9. ASSUME NEW f \in Flusher, FlushFails(f)
      PROVE  StoreInv'
  BY <1>9 DEF FlushFails, JobAt, StoreInv, StatsTypeOK, NeverTorn, OneFlush, NewerAhead,
              InProgress, Running, procVars, fileVars, Jobs
<1>10. ASSUME NEW f \in Flusher, Cleanup(f)
       PROVE  StoreInv'
  BY <1>10 DEF Cleanup, JobAt, StoreInv, StatsTypeOK, NeverTorn, OneFlush, NewerAhead,
               InProgress, Running, procVars, Jobs
<1>11. CASE Terminate
  <2>1. CASE streams = {}
    BY <1>11, <2>1, StopKeeps, FlushSyncWrites DEF Terminate, Running, StoreInv
  <2>2. CASE streams # {}
    BY <1>11, <2>2 DEF Terminate, StoreInv, StatsTypeOK, NeverTorn, OneFlush, NewerAhead,
                       InProgress, Running, jobVars, fileVars
  <2>3. QED BY <2>1, <2>2
<1>12. CASE Shutdown
  BY <1>12, StopKeeps, FlushSyncWrites DEF Shutdown, Running, StoreInv
<1>13. CASE UncaughtException
  BY <1>13, StopKeeps, FlushSyncWrites DEF UncaughtException, Running, StoreInv
<1>14. CASE Kill
  <2>1. disk' \in {disk, mem} /\ dirty' \in BOOLEAN /\ flushing' \in BOOLEAN
    BY <1>14 DEF Kill, StoreInv, StatsTypeOK
  <2>2. QED BY <1>14, <2>1, StopKeeps DEF Kill
<1>15. CASE Exit
  BY <1>15 DEF Exit, StoreInv, StatsTypeOK, NeverTorn, OneFlush, NewerAhead, InProgress,
               Running, fileVars, Jobs
<1>16. CASE Start
  <2>1. StatsTypeOK' /\ NeverTorn'
    BY <1>16 DEF Start, StoreInv, StatsTypeOK, NeverTorn, jobVars, fileVars
  <2>2. OneFlush'
    BY <1>16 DEF Start, StoreInv, OneFlush, Running, jobVars, fileVars
  <2>3. NewerAhead'
    BY <1>16 DEF Start, StoreInv, StatsTypeOK, NeverTorn, OneFlush, NewerAhead, InProgress,
                Running, jobVars, fileVars
  <2>4. QED  BY <2>1, <2>2, <2>3 DEF StoreInv
<1>17. CASE StatsTick
  BY <1>17 DEF StatsTick, StoreInv, StatsTypeOK, NeverTorn, OneFlush, NewerAhead, InProgress,
               Running, jobVars, fileVars
<1>18. CASE UNCHANGED statsVars
  BY <1>18 DEF statsVars, procVars, jobVars, fileVars, StoreInv, StatsTypeOK, NeverTorn, OneFlush,
               NewerAhead, InProgress, Running
<1>19. QED
  BY <1>1, <1>2, <1>3, <1>4, <1>5, <1>6, <1>7, <1>8, <1>9, <1>10, <1>11, <1>12, <1>13,
     <1>14, <1>15, <1>16, <1>17, <1>18
  DEF StatsNext, FlushStep

LEMMA StoreAlways == StatsSpec => []StoreInv
  BY StoreInit, StoreNext, PTL DEF StatsSpec

\* The types of the store and of the process around it are right.
THEOREM StatsTypeCorrect == StatsSpec => []StatsTypeOK
<1>1. StoreInv => StatsTypeOK  BY DEF StoreInv
<1>2. QED  BY <1>1, StoreAlways, PTL

\* Whatever moment a process ends at, the file is a whole snapshot.
THEOREM FileWhole == StatsSpec => []NeverTorn
<1>1. StoreInv => NeverTorn  BY DEF StoreInv
<1>2. QED  BY <1>1, StoreAlways, PTL

LEMMA ForwardStep ==
  ASSUME StoreInv, [StatsNext]_statsVars
  PROVE  [Running => disk' >= disk]_statsVars
<1> SUFFICES ASSUME Running, StatsNext PROVE disk' >= disk
  BY DEF statsVars, fileVars, StoreInv, StatsTypeOK, NeverTorn, Records, Torn
<1> USE DEF Records, Missing, Torn
<1>1. disk \in Nat /\ mem \in Nat /\ disk <= mem
  BY StatsStoreAssumption DEF StoreInv, StatsTypeOK, NeverTorn, NewerAhead
<1>2. ASSUME disk' \in {disk, mem} PROVE disk' >= disk
  BY <1>1, <1>2
<1>3. ASSUME NEW f \in Flusher, Rename(f) PROVE disk' >= disk
  BY <1>1, <1>3 DEF Rename, JobAt, StoreInv, StatsTypeOK, OneFlush, NewerAhead, InProgress
<1>4. CASE Shutdown \/ UncaughtException
  BY <1>2, <1>4, FlushSyncWrites DEF Shutdown, UncaughtException, StoreInv
<1>5. CASE Terminate
  BY <1>2, <1>5, FlushSyncWrites DEF Terminate, StoreInv, fileVars
<1>6. CASE disk' = disk
  BY <1>2, <1>6
<1>7. ASSUME NEW f \in Flusher, Flush(f) \/ FlushStep(f) PROVE disk' >= disk
  BY <1>3, <1>6, <1>7
  DEF Flush, FlushStep, OpenTmp, WriteTmp, FlushDone, FlushFails, Cleanup, fileVars
<1>8. QED
  BY <1>4, <1>5, <1>6, <1>7
  DEF StatsNext, Record, StreamOpens, StreamCloses, Kill, Exit, Start, StatsTick, fileVars

\* While a process runs no flush puts an older snapshot in place of a newer one.
THEOREM FileForward == StatsSpec => ForwardOnly
  BY StoreAlways, ForwardStep, PTL DEF StatsSpec, ForwardOnly
===============================================================================
