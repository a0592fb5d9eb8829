-------------------------- MODULE SparseIndexerProof --------------------------
(***************************************************************************)
(* SparseIndexer for any number of requests and layers, any deployment     *)
(* (drafts, compression, decode path), workspace and logits budget: the    *)
(* cache holds the entries of the tokens the requests have; the metadata   *)
(* the builder returns is right for the batch; a gather is skipped only    *)
(* where the workspace holds what it would bring; and every row of the     *)
(* buffer goes from the filler to its exact answer, once.                  *)
(***************************************************************************)
EXTENDS SparseIndexer, WellFoundedInduction, TLAPS

(* Arithmetic of compressed entries *)

LEMMA TimesMonotone ==
  \A a, b, d \in Nat : a <= b => a * d <= b * d
BY SMT

\* Entry n - 1 is complete when token n * d is there.
LEMMA Quotient ==
  ASSUME NEW n \in Nat, NEW x \in Nat, NEW d \in Nat \ {0}
  PROVE  x \div d \in Nat /\ (n * d <= x <=> n <= x \div d)
<1> DEFINE q == x \div d
<1>1. q \in Nat /\ d * q <= x /\ x < d * q + d
  BY Z3
<1>2. q * d = d * q /\ (q + 1) * d = d * q + d /\ n * d \in Nat /\ d * q \in Nat
  BY <1>1
<1>3. CASE n <= q
  <2>1. n * d <= q * d
    BY <1>1, <1>3, TimesMonotone
  <2> QED BY <1>1, <1>2, <1>3, <2>1
<1>4. CASE ~(n <= q)
  <2>1. q + 1 <= n /\ q + 1 \in Nat
    BY <1>1, <1>4
  <2>2. (q + 1) * d <= n * d
    BY <2>1, TimesMonotone
  <2> QED BY <1>1, <1>2, <1>4, <2>2
<1> QED BY <1>3, <1>4

LEMMA ExactMultiple ==
  ASSUME NEW n \in Nat, NEW d \in Nat \ {0}
  PROVE  (n * d) \div d = n /\ (n * d) % d = 0
<1> DEFINE x == n * d
<1> DEFINE q == x \div d
<1>1. x \in Nat
  BY SMT
<1>2. q \in Nat /\ n <= q
  BY <1>1, Quotient
<1>3. q * d <= x
  BY <1>1, <1>2, Quotient
<1>4. q <= n
  <2>1. SUFFICES ASSUME n + 1 <= q PROVE FALSE
    BY <1>2
  <2>2. (n + 1) * d <= q * d
    BY <1>2, <2>1, TimesMonotone
  <2>3. (n + 1) * d = x + d
    BY SMT
  <2>4. q * d \in Nat
    BY <1>2
  <2> QED BY <1>1, <1>3, <2>2, <2>3, <2>4
<1>5. q = n
  BY <1>2, <1>4
<1>6. x % d = x - d * q
  BY <1>1, SMT
<1>7. d * n = x
  BY SMT
<1> QED BY <1>1, <1>5, <1>6, <1>7

\* The entries that the tokens m .. m + q - 1 complete.
LEMMA Completed ==
  ASSUME NEW m \in Nat, NEW q \in Nat, NEW d \in Nat \ {0}
  PROVE  {(p + 1) \div d - 1 : p \in {x \in m .. m + q - 1 : (x + 1) % d = 0}}
           = (m \div d) .. ((m + q) \div d) - 1
<1> DEFINE P == {x \in m .. m + q - 1 : (x + 1) % d = 0}
<1>1. m + q \in Nat /\ m \div d \in Nat /\ (m + q) \div d \in Nat
  BY Quotient
<1>2. ASSUME NEW p \in P
      PROVE  (p + 1) \div d - 1 \in (m \div d) .. ((m + q) \div d) - 1
  <2> DEFINE n == (p + 1) \div d
  <2>1. p + 1 \in Nat /\ m < p + 1 /\ p + 1 <= m + q /\ (p + 1) % d = 0
    OBVIOUS
  <2>2. n \in Nat
    BY <2>1, Quotient
  <2>3. p + 1 = n * d
    <3>1. (p + 1) % d = (p + 1) - d * n
      BY <2>1, SMT
    <3>2. d * n = n * d /\ d * n \in Nat
      BY <2>2
    <3> HIDE DEF n
    <3> QED BY <2>1, <3>1, <3>2
  <2>4. ~(n * d <= m) /\ n * d <= m + q
    BY <2>1, <2>3
  <2>5. ~(n <= m \div d) /\ n <= (m + q) \div d
    BY <1>1, <2>2, <2>4, Quotient
  <2> HIDE DEF n
  <2>6. n - 1 \in (m \div d) .. ((m + q) \div d) - 1
    BY <1>1, <2>2, <2>5
  <2> QED BY <2>6 DEF n
<1>3. ASSUME NEW i \in (m \div d) .. ((m + q) \div d) - 1
      PROVE  \E p \in P : i = (p + 1) \div d - 1
  <2> DEFINE x == (i + 1) * d
  <2>1. i + 1 \in Nat /\ ~(i + 1 <= m \div d) /\ i + 1 <= (m + q) \div d
    BY <1>1
  <2>2. x \in Nat
    BY <2>1
  <2>3. ~(x <= m) /\ x <= m + q
    BY <1>1, <2>1, Quotient
  <2>4. x \div d = i + 1 /\ x % d = 0
    BY <2>1, ExactMultiple
  <2> HIDE DEF x
  <2>5. x - 1 \in m .. m + q - 1 /\ (x - 1) + 1 = x
    BY <2>2, <2>3
  <2>6. x - 1 \in P
    BY <2>4, <2>5
  <2>7. i = ((x - 1) + 1) \div d - 1
    BY <2>1, <2>4, <2>5
  <2> QED BY <2>6, <2>7
<1> QED BY <1>2, <1>3

-----------------------------------------------------------------------------
(* Induction over natural numbers, stated for sets *)

LEMMA LeastOf ==
  ASSUME NEW S \in SUBSET Nat, S # {}
  PROVE  \E x \in S : \A y \in S : x <= y
<1> DEFINE R == {p \in Nat \X Nat : p[1] < p[2]}
<1>1. R \cap (Nat \X Nat) \subseteq OpToRel(<, Nat)
  BY DEF OpToRel
<1>2. IsWellFoundedOn(R, Nat)
  BY <1>1, NatLessThanWellFounded, IsWellFoundedOnSubrelation
<1>3. \E x \in S : \A y \in S : ~ (<<y, x>> \in R)
  <2> HIDE DEF R
  <2> QED BY <1>2, WFMin
<1>4. ASSUME NEW x \in S, NEW y \in S, <<y, x>> \notin R
      PROVE  x <= y
  <2>1. x \in Nat /\ y \in Nat /\ <<y, x>> \in Nat \X Nat
    OBVIOUS
  <2>2. ~(y < x)
    BY <1>4, <2>1
  <2> QED BY <2>1, <2>2
<1> HIDE DEF R
<1> QED BY <1>3, <1>4

LEMMA Induction ==
  ASSUME NEW S, 0 \in S, \A n \in Nat : n \in S => n + 1 \in S
  PROVE  Nat \subseteq S
<1> SUFFICES ASSUME ~(Nat \subseteq S) PROVE FALSE
  OBVIOUS
<1>1. PICK x \in Nat \ S : \A y \in Nat \ S : x <= y
  <2> DEFINE M == Nat \ S
  <2>1. M \in SUBSET Nat /\ M # {}
    OBVIOUS
  <2> HIDE DEF M
  <2>2. \E x \in M : \A y \in M : x <= y
    BY <2>1, LeastOf
  <2> QED BY <2>2 DEF M
<1>2. x # 0 /\ x - 1 \in Nat /\ ~(x <= x - 1)
  BY <1>1
<1>3. x - 1 \in S
  BY <1>1, <1>2
<1> QED BY <1>1, <1>2, <1>3

\* Largest and Smallest choose from a set of bounded numbers.
LEMMA SmallestOf ==
  ASSUME NEW S \in SUBSET Nat, S # {}
  PROVE  Smallest(S) \in S /\ \A y \in S : Smallest(S) <= y
BY LeastOf DEF Smallest

LEMMA LargestOf ==
  ASSUME NEW S \in SUBSET Nat, S # {}, NEW n \in Nat, \A s \in S : s <= n
  PROVE  Largest(S) \in S /\ \A y \in S : y <= Largest(S)
<1> DEFINE T == {n - s : s \in S}
<1>1. T \in SUBSET Nat /\ T # {}
  <2>1. ASSUME NEW s \in S PROVE n - s \in Nat
    OBVIOUS
  <2>2. PICK s \in S : TRUE
    OBVIOUS
  <2> QED BY <2>1, <2>2
<1>2. PICK d \in T : \A e \in T : d <= e
  <2> HIDE DEF T
  <2> QED BY <1>1, LeastOf
<1>3. PICK x \in S : d = n - x
  OBVIOUS
<1>4. ASSUME NEW y \in S PROVE y <= x
  <2>1. n - x <= n - y
    BY <1>2, <1>3
  <2> QED BY <2>1
<1> QED BY <1>4 DEF Largest
-----------------------------------------------------------------------------
(* Running sums *)

\* c holds the running sums of f's first n values.
Sums(c, f, n) ==
  /\ DOMAIN c = 0 .. n
  /\ c[0] = 0
  /\ \A i \in 0 .. n - 1 : c[i + 1] = c[i] + f[i]

SumBody(c, f, n) == c = [i \in 0 .. n |-> IF i = 0 THEN 0 ELSE c[i - 1] + f[i - 1]]

LEMMA SumExists ==
  ASSUME NEW f
  PROVE  \A n \in Nat : \E c : SumBody(c, f, n)
<1> DEFINE S == {n \in Nat : \E c : SumBody(c, f, n)}
<1>1. 0 \in S
  <2>1. SumBody([i \in 0 .. 0 |-> 0], f, 0)
    BY DEF SumBody
  <2> QED BY <2>1
<1>2. ASSUME NEW n \in Nat, n \in S PROVE n + 1 \in S
  <2>1. PICK c : SumBody(c, f, n)
    BY <1>2
  <2> DEFINE d == [i \in 0 .. n + 1 |-> IF i = n + 1 THEN c[n] + f[n] ELSE c[i]]
  <2>2. ASSUME NEW i \in 0 .. n + 1
        PROVE  d[i] = IF i = 0 THEN 0 ELSE d[i - 1] + f[i - 1]
    <3>1. CASE i = n + 1
      <4>1. i - 1 = n /\ n \in 0 .. n + 1 /\ n # n + 1 /\ i # 0
        BY <3>1
      <4> QED BY <3>1, <4>1
    <3>2. CASE i # n + 1 /\ i # 0
      <4>1. i \in 0 .. n /\ i - 1 \in 0 .. n + 1 /\ i - 1 # n + 1
        BY <3>2
      <4>2. c[i] = c[i - 1] + f[i - 1]
        BY <2>1, <3>2, <4>1 DEF SumBody
      <4> QED BY <3>2, <4>1, <4>2
    <3>3. CASE i = 0
      <4>1. i \in 0 .. n /\ i # n + 1
        BY <3>3
      <4>2. c[i] = 0
        BY <2>1, <3>3, <4>1 DEF SumBody
      <4> QED BY <3>3, <4>1, <4>2
    <3> QED BY <3>1, <3>2, <3>3
  <2>3. SumBody(d, f, n + 1)
    <3> DEFINE e == [i \in 0 .. n + 1 |-> IF i = 0 THEN 0 ELSE d[i - 1] + f[i - 1]]
    <3>1. DOMAIN d = 0 .. n + 1 /\ DOMAIN e = 0 .. n + 1
      OBVIOUS
    <3>2. \A i \in 0 .. n + 1 : d[i] = e[i]
      BY <2>2
    <3>3. d = e
      BY <3>1, <3>2
    <3> QED BY <3>3 DEF SumBody
  <2> QED BY <2>3
<1> HIDE DEF S
<1>3. Nat \subseteq S
  BY <1>1, <1>2, Induction
<1> QED BY <1>3 DEF S

LEMMA CumulativeIs ==
  ASSUME NEW f, NEW n \in Nat
  PROVE  Sums(Cumulative(f, n), f, n)
<1> DEFINE c == CHOOSE c : SumBody(c, f, n)
<1>1. Cumulative(f, n) = c
  BY Zenon DEF Cumulative, SumBody
<1>2. \E d : SumBody(d, f, n)
  BY SumExists
<1>3. SumBody(c, f, n)
  BY <1>2, Zenon
<1> HIDE DEF c
<1>4. DOMAIN c = 0 .. n /\ \A i \in 0 .. n : c[i] = IF i = 0 THEN 0 ELSE c[i - 1] + f[i - 1]
  BY <1>3 DEF SumBody
<1>5. ASSUME NEW i \in 0 .. n - 1 PROVE c[i + 1] = c[i] + f[i]
  <2>1. i + 1 \in 0 .. n /\ i + 1 # 0 /\ (i + 1) - 1 = i
    OBVIOUS
  <2> QED BY <1>4, <2>1
<1>6. c[0] = 0
  BY <1>4
<1> QED BY <1>1, <1>4, <1>5, <1>6 DEF Sums

LEMMA SumsType ==
  ASSUME NEW n \in Nat, NEW c, NEW f, Sums(c, f, n), \A i \in 0 .. n - 1 : f[i] \in Nat
  PROVE  /\ \A i \in 0 .. n : c[i] \in Nat
         /\ \A i, j \in 0 .. n : i <= j => c[i] <= c[j]
<1> DEFINE S == {i \in Nat : i <= n => \A j \in 0 .. i : c[j] \in Nat /\ c[j] <= c[i]}
<1>1. 0 \in S
  BY DEF Sums
<1>2. ASSUME NEW i \in Nat, i \in S PROVE i + 1 \in S
  <2> SUFFICES ASSUME i + 1 <= n, NEW j \in 0 .. i + 1
               PROVE  c[j] \in Nat /\ c[j] <= c[i + 1]
    OBVIOUS
  <2>1. i \in 0 .. n - 1 /\ i <= n /\ i \in 0 .. i
    OBVIOUS
  <2>2. \A k \in 0 .. i : c[k] \in Nat /\ c[k] <= c[i]
    BY <1>2, <2>1
  <2>3. c[i + 1] = c[i] + f[i] /\ f[i] \in Nat /\ c[i] \in Nat
    BY <2>1, <2>2 DEF Sums
  <2>4. CASE j = i + 1
    BY <2>3, <2>4
  <2>5. CASE j \in 0 .. i
    BY <2>2, <2>3, <2>5
  <2> QED BY <2>4, <2>5
<1> HIDE DEF S
<1>3. Nat \subseteq S
  BY <1>1, <1>2, Induction
<1>4. ASSUME NEW j \in 0 .. n, NEW i \in 0 .. j PROVE c[i] \in Nat /\ c[i] <= c[j]
  BY <1>3 DEF S
<1>5. ASSUME NEW i \in 0 .. n PROVE c[i] \in Nat
  BY <1>4
<1>6. ASSUME NEW i \in 0 .. n, NEW j \in 0 .. n, i <= j PROVE c[i] <= c[j]
  <2>1. i \in 0 .. j
    BY <1>6
  <2> QED BY <1>4, <2>1
<1> QED BY <1>5, <1>6

\* Sums of equal values are multiples.
LEMMA SumsOfEqual ==
  ASSUME NEW n \in Nat, NEW c, NEW f, Sums(c, f, n), NEW w \in Nat,
         NEW m \in 0 .. n, \A i \in 0 .. m - 1 : f[i] = w
  PROVE  \A i \in 0 .. m : c[i] = i * w
<1> DEFINE S == {i \in Nat : i <= m => c[i] = i * w}
<1>1. 0 \in S
  BY DEF Sums
<1>2. ASSUME NEW i \in Nat, i \in S PROVE i + 1 \in S
  <2> SUFFICES ASSUME i + 1 <= m PROVE c[i + 1] = (i + 1) * w
    OBVIOUS
  <2>1. i \in 0 .. n - 1 /\ i \in 0 .. m - 1 /\ i <= m
    OBVIOUS
  <2>2. c[i] = i * w /\ c[i + 1] = c[i] + w
    BY <1>2, <2>1 DEF Sums
  <2> QED BY <2>2
<1> HIDE DEF S
<1>3. Nat \subseteq S
  BY <1>1, <1>2, Induction
<1> QED BY <1>3 DEF S

\* Sums of values that are no larger are no larger.
LEMMA SumsOfLess ==
  ASSUME NEW n \in Nat, NEW c, NEW f, Sums(c, f, n), NEW d, NEW g, Sums(d, g, n),
         \A i \in 0 .. n - 1 : f[i] \in Nat /\ g[i] \in Nat /\ f[i] <= g[i]
  PROVE  c[n] <= d[n]
<1> DEFINE S == {i \in Nat : i <= n => c[i] \in Nat /\ d[i] \in Nat /\ c[i] <= d[i]}
<1>1. 0 \in S
  BY DEF Sums
<1>2. ASSUME NEW i \in Nat, i \in S PROVE i + 1 \in S
  <2> SUFFICES ASSUME i + 1 <= n
               PROVE  c[i + 1] \in Nat /\ d[i + 1] \in Nat /\ c[i + 1] <= d[i + 1]
    OBVIOUS
  <2>1. i \in 0 .. n - 1 /\ i <= n
    OBVIOUS
  <2>2. c[i + 1] = c[i] + f[i] /\ d[i + 1] = d[i] + g[i]
    BY <2>1 DEF Sums
  <2> QED BY <1>2, <2>1, <2>2
<1> HIDE DEF S
<1>3. Nat \subseteq S
  BY <1>1, <1>2, Induction
<1> QED BY <1>3 DEF S

\* A number below the total lies in one interval between two sums.
LEMMA Located ==
  ASSUME NEW n \in Nat, NEW c, NEW f, Sums(c, f, n), \A i \in 0 .. n - 1 : f[i] \in Nat,
         NEW t \in Nat, t < c[n]
  PROVE  \E b \in 0 .. n - 1 : c[b] <= t /\ t < c[b + 1]
<1> DEFINE S == {i \in Nat : i <= n /\ t < c[i]}
<1>1. n \in S
  OBVIOUS
<1>2. PICK i \in S : \A j \in S : i <= j
  <2>1. S \in SUBSET Nat /\ S # {}
    BY <1>1
  <2> HIDE DEF S
  <2> QED BY <2>1, LeastOf
<1>3. i # 0
  BY DEF Sums
<1>4. i - 1 \in 0 .. n - 1 /\ (i - 1) + 1 = i /\ i - 1 \in Nat /\ ~(i <= i - 1)
  BY <1>3
<1>5. ~(t < c[i - 1])
  BY <1>2, <1>4
<1>6. c[i - 1] \in Nat
  BY <1>4, SumsType
<1> QED BY <1>4, <1>5, <1>6

LEMMA OneInterval ==
  ASSUME NEW n \in Nat, NEW c, NEW f, Sums(c, f, n), \A i \in 0 .. n - 1 : f[i] \in Nat,
         NEW t \in Int, NEW a \in 0 .. n - 1, c[a] <= t, t < c[a + 1],
         NEW b \in 0 .. n - 1, c[b] <= t, t < c[b + 1]
  PROVE  a = b
<1>1. \A i \in 0 .. n : c[i] \in Nat
  BY SumsType
<1>2. \A i, j \in 0 .. n : i <= j => c[i] <= c[j]
  BY SumsType
<1>3. a \in 0 .. n /\ b \in 0 .. n /\ a + 1 \in 0 .. n /\ b + 1 \in 0 .. n
  OBVIOUS
<1>4. ~(a + 1 <= b)
  BY <1>1, <1>2, <1>3
<1>5. ~(b + 1 <= a)
  BY <1>1, <1>2, <1>3
<1> QED BY <1>4, <1>5

-----------------------------------------------------------------------------
(* The plan of the prefill chunks *)

PlanFrom(p, qsl, cu, n, workspace, mxl) ==
  p = [s \in DOMAIN p |->
         IF s = n THEN << >>
           ELSE LET e == GroupEnd(qsl, cu, n, workspace, mxl, s)
                IN  SubChunks(qsl, cu, mxl, s, e) \o p[e]]

\* What the planner may rely on: every request has a row.
PlanInput(qsl, cu, n) ==
  /\ n \in Nat
  /\ \A i \in 0 .. n : qsl[i] \in Nat /\ cu[i] \in Nat
  /\ \A i, j \in 0 .. n : i < j => qsl[i] < qsl[j]
  /\ \A i, j \in 0 .. n : i <= j => cu[i] <= cu[j]

LEMMA GroupEndIs ==
  ASSUME NEW qsl, NEW cu, NEW n \in Nat, NEW workspace, NEW mxl, NEW s \in 0 .. n - 1
  PROVE  LET e == GroupEnd(qsl, cu, n, workspace, mxl, s)
         IN  e \in s + 1 .. n /\ (e = s + 1 \/ Fits(qsl, cu, workspace, mxl, s, e))
<1> DEFINE ends == {e \in (s + 1) .. n : Fits(qsl, cu, workspace, mxl, s, e)}
<1>1. CASE ends = {}
  BY <1>1 DEF GroupEnd
<1>2. CASE ends # {}
  <2>1. ends \in SUBSET Nat /\ \A x \in ends : x <= n
    OBVIOUS
  <2>2. GroupEnd(qsl, cu, n, workspace, mxl, s) = Largest(ends)
    BY <1>2, Zenon DEF GroupEnd, Largest
  <2>3. Largest(ends) \in ends
    <3> HIDE DEF ends
    <3> QED BY <1>2, <2>1, LargestOf
  <2> QED BY <2>2, <2>3
<1> QED BY <1>1, <1>2

LEMMA PlanExists ==
  ASSUME NEW qsl, NEW cu, NEW n \in Nat, NEW workspace, NEW mxl
  PROVE  \E p : DOMAIN p = 0 .. n /\ PlanFrom(p, qsl, cu, n, workspace, mxl)
<1> DEFINE G(p) == PlanFrom(p, qsl, cu, n, workspace, mxl)
<1> DEFINE S == {k \in Nat : k <= n => \E p : DOMAIN p = n - k .. n /\ G(p)}
<1>1. 0 \in S
  <2> DEFINE p == [s \in n .. n |-> << >>]
  <2>1. G(p)
    BY DEF PlanFrom
  <2>2. DOMAIN p = n - 0 .. n
    OBVIOUS
  <2> HIDE DEF G, p
  <2> QED BY <2>1, <2>2
<1>2. ASSUME NEW k \in Nat, k \in S PROVE k + 1 \in S
  <2> SUFFICES ASSUME k + 1 <= n
               PROVE  \E p : DOMAIN p = n - (k + 1) .. n /\ G(p)
    OBVIOUS
  <2>1. PICK p : DOMAIN p = n - k .. n /\ G(p)
    BY <1>2
  <2> DEFINE t == n - (k + 1)
  <2> DEFINE g == GroupEnd(qsl, cu, n, workspace, mxl, t)
  <2> DEFINE d == [s \in t .. n |-> IF s = t THEN SubChunks(qsl, cu, mxl, t, g) \o p[g] ELSE p[s]]
  <2>2. t \in 0 .. n - 1 /\ t + 1 = n - k
    OBVIOUS
  <2> HIDE DEF t
  <2>3. g \in t + 1 .. n
    BY <2>2, GroupEndIs
  <2>4. ASSUME NEW s \in t .. n
        PROVE  d[s] = IF s = n THEN << >>
                      ELSE LET e == GroupEnd(qsl, cu, n, workspace, mxl, s)
                           IN  SubChunks(qsl, cu, mxl, s, e) \o d[e]
    <3>1. CASE s = t
      <4>1. g \in t .. n /\ g # t /\ s # n
        BY <2>2, <2>3, <3>1
      <4>2. d[g] = p[g] /\ d[s] = SubChunks(qsl, cu, mxl, t, g) \o p[g]
        <5> HIDE DEF g
        <5> QED BY <3>1, <4>1
      <4> HIDE DEF d
      <4> QED BY <3>1, <4>1, <4>2
    <3>2. CASE s # t
      <4>1. s \in n - k .. n
        BY <2>2, <3>2
      <4>2. d[s] = p[s]
        BY <3>2
      <4>3. CASE s = n
        BY <2>1, <4>1, <4>2, <4>3 DEF PlanFrom
      <4>4. CASE s # n
        <5> DEFINE e == GroupEnd(qsl, cu, n, workspace, mxl, s)
        <5>1. e \in s + 1 .. n
          <6>1. s \in 0 .. n - 1
            BY <2>2, <4>4
          <6> QED BY <6>1, GroupEndIs
        <5>2. d[e] = p[e]
          <6> HIDE DEF e
          <6>1. e \in t .. n /\ e # t
            BY <2>2, <5>1, <3>2
          <6> QED BY <6>1
        <5>3. p[s] = SubChunks(qsl, cu, mxl, s, e) \o p[e]
          BY <2>1, <4>1, <4>4 DEF PlanFrom
        <5> HIDE DEF d
        <5> QED BY <4>2, <4>4, <5>2, <5>3
      <4> QED BY <4>3, <4>4
    <3> QED BY <3>1, <3>2
  <2>5. DOMAIN d = t .. n /\ d = [s \in t .. n |-> d[s]]
    OBVIOUS
  <2> HIDE DEF d
  <2>6. G(d)
    BY <2>4, <2>5 DEF PlanFrom
  <2> HIDE DEF G
  <2> QED BY <2>5, <2>6 DEF t
<1> HIDE DEF S
<1>3. Nat \subseteq S
  BY <1>1, <1>2, Induction
<1>4. n \in S /\ n - n = 0
  BY <1>3
<1> HIDE DEF G
<1>5. \E p : DOMAIN p = n - n .. n /\ G(p)
  BY <1>4 DEF S
<1> QED BY <1>4, <1>5 DEF G

PlannedBy(p, qsl, cu, n, workspace, mxl) ==
  /\ DOMAIN p = 0 .. n /\ PlanFrom(p, qsl, cu, n, workspace, mxl)
  /\ Plan(qsl, cu, n, workspace, mxl) = p[0]

LEMMA PlanIs ==
  ASSUME NEW qsl, NEW cu, NEW n \in Nat, NEW workspace, NEW mxl
  PROVE  \E p : PlannedBy(p, qsl, cu, n, workspace, mxl)
<1> DEFINE Body(p) ==
      [s \in 0 .. n |-> IF s = n THEN << >>
           ELSE LET e == GroupEnd(qsl, cu, n, workspace, mxl, s)
                IN  SubChunks(qsl, cu, mxl, s, e) \o p[e]]
<1> DEFINE p == CHOOSE q : q = Body(q)
<1>1. Plan(qsl, cu, n, workspace, mxl) = p[0]
  BY Zenon DEF Plan
<1>2. PICK q : DOMAIN q = 0 .. n /\ PlanFrom(q, qsl, cu, n, workspace, mxl)
  BY PlanExists
<1>3. q = Body(q)
  BY <1>2 DEF PlanFrom
<1>4. p = Body(p)
  <2> HIDE DEF Body
  <2> QED BY <1>3, Zenon
<1>5. DOMAIN p = 0 .. n /\ PlanFrom(p, qsl, cu, n, workspace, mxl)
  <2> HIDE DEF p
  <2>1. DOMAIN p = 0 .. n
    BY <1>4
  <2> QED BY <1>4, <2>1 DEF PlanFrom
<1> HIDE DEF p
<1>6. PlannedBy(p, qsl, cu, n, workspace, mxl)
  BY <1>1, <1>5 DEF PlannedBy
<1> QED BY <1>6

-----------------------------------------------------------------------------
(* What the plan covers *)

ChunkSet == [start : Nat, stop : Nat, lo : Nat, hi : Nat]

\* What holds of every planned chunk: it takes whole requests, rows of
\* theirs only, and more than one request only if their entries fit.
Planned(c, qsl, cu, n, workspace) ==
  /\ c.start \in 0 .. n - 1 /\ c.stop \in c.start + 1 .. n
  /\ c.lo \in Nat /\ c.hi \in Nat
  /\ qsl[c.start] + c.hi <= qsl[c.stop]
  /\ c.stop = c.start + 1 \/ cu[c.stop] - cu[c.start] <= workspace

\* A chunk that starts past row 0 of its group follows one of the same group.
Follows(q, k) == q[k].lo > 0 => /\ k > 1 /\ q[k - 1].start = q[k].start
                                /\ q[k - 1].stop = q[k].stop

Takes(qsl, c, t) == qsl[c.start] + c.lo <= t /\ t < qsl[c.start] + c.hi

\* q plans the requests s .. n-1.
Plans(q, s, qsl, cu, n, workspace) ==
  /\ q \in Seq(ChunkSet)
  /\ \A k \in 1 .. Len(q) : Planned(q[k], qsl, cu, n, workspace) /\ Follows(q, k)
  /\ \A t \in qsl[s] .. qsl[n] - 1 : \E k \in 1 .. Len(q) : Takes(qsl, q[k], t)

LEMMA Joined ==
  ASSUME NEW S, NEW a \in Seq(S), NEW b \in Seq(S)
  PROVE  /\ a \o b \in Seq(S) /\ Len(a \o b) = Len(a) + Len(b)
         /\ Len(a) \in Nat /\ Len(b) \in Nat
         /\ \A k \in 1 .. Len(a) : (a \o b)[k] = a[k]
         /\ \A k \in 1 .. Len(b) : (a \o b)[Len(a) + k] = b[k]
<1>1. /\ a \o b \in Seq(S) /\ Len(a \o b) = Len(a) + Len(b)
      /\ Len(a) \in Nat /\ Len(b) \in Nat
  OBVIOUS
<1>2. ASSUME NEW k \in 1 .. Len(a) PROVE (a \o b)[k] = a[k]
  OBVIOUS
<1>3. ASSUME NEW k \in 1 .. Len(b) PROVE (a \o b)[Len(a) + k] = b[k]
  OBVIOUS
<1> QED BY <1>1, <1>2, <1>3

\* The sub-chunks of a group: runs of mq rows, the last one shorter.
LEMMA SubChunksAre ==
  ASSUME NEW qsl, NEW cu, NEW n \in Nat, PlanInput(qsl, cu, n), NEW logits \in Nat,
         NEW s \in 0 .. n - 1, NEW e \in s + 1 .. n
  PROVE  LET q == SubChunks(qsl, cu, logits, s, e)
         IN  /\ q \in Seq(ChunkSet)
             /\ \A k \in 1 .. Len(q) :
                  /\ q[k].start = s /\ q[k].stop = e
                  /\ q[k].lo \in Nat /\ q[k].hi \in Nat
                  /\ qsl[s] + q[k].hi <= qsl[e]
                  /\ q[k].lo > 0 => k > 1
             /\ \A t \in qsl[s] .. qsl[e] - 1 :
                  \E k \in 1 .. Len(q) : Takes(qsl, q[k], t)
<1> DEFINE m == qsl[e] - qsl[s]
<1> DEFINE nk == cu[e] - cu[s]
<1> DEFINE mq == MaxQ(logits, m, nk)
<1> DEFINE cnt == (m + mq - 1) \div mq
<1> DEFINE q == [k \in 1 .. cnt |-> Chunk(s, e, (k - 1) * mq, IF k * mq < m THEN k * mq ELSE m)]
<1>1. /\ s \in 0 .. n /\ e \in 0 .. n /\ s < e
      /\ qsl[s] \in Nat /\ qsl[e] \in Nat /\ m \in Nat /\ m >= 1 /\ nk \in Nat
  BY DEF PlanInput
<1>2. mq \in Nat \ {0}
  <2>1. CASE nk > 0
    <3>1. logits \div nk \in Nat
      BY <1>1, <2>1, Quotient
    <3> QED BY <2>1, <3>1 DEF MaxQ
  <2>2. CASE ~(nk > 0)
    BY <1>1, <2>2 DEF MaxQ
  <2> QED BY <2>1, <2>2
<1>3. SubChunks(qsl, cu, logits, s, e) = q
  BY DEF SubChunks
<1> HIDE DEF m, mq, nk
<1>4. cnt \in Nat
  <2>1. m + mq - 1 \in Nat
    BY <1>1, <1>2
  <2> QED BY <1>2, <2>1, Quotient
<1>5. ASSUME NEW k \in 1 .. cnt
      PROVE  /\ (k - 1) * mq \in Nat /\ k * mq \in Nat
             /\ k = 1 => (k - 1) * mq = 0
  <2>1. k - 1 \in Nat /\ k \in Nat
    OBVIOUS
  <2> QED BY <1>2, <2>1
<1>6. ASSUME NEW k \in 1 .. cnt
      PROVE  /\ q[k] \in ChunkSet
             /\ q[k].start = s /\ q[k].stop = e
             /\ q[k].lo = (k - 1) * mq /\ q[k].hi = (IF k * mq < m THEN k * mq ELSE m)
  <2>1. q[k] = Chunk(s, e, (k - 1) * mq, IF k * mq < m THEN k * mq ELSE m)
    OBVIOUS
  <2>2. s \in Nat /\ e \in Nat
    BY <1>1
  <2> HIDE DEF q, cnt
  <2> QED BY <1>1, <1>5, <2>1, <2>2 DEF Chunk, ChunkSet
<1>7. q \in Seq(ChunkSet) /\ Len(q) = cnt
  <2>1. q \in [1 .. cnt -> ChunkSet]
    <3>1. DOMAIN q = 1 .. cnt /\ q = [k \in 1 .. cnt |-> q[k]]
      OBVIOUS
    <3> HIDE DEF q
    <3> QED BY <1>6, <3>1
  <2> HIDE DEF q, cnt
  <2> QED BY <1>4, <2>1
<1>8. ASSUME NEW k \in 1 .. cnt
      PROVE  /\ q[k].start = s /\ q[k].stop = e
             /\ q[k].lo \in Nat /\ q[k].hi \in Nat
             /\ qsl[s] + q[k].hi <= qsl[e]
             /\ q[k].lo > 0 => k > 1
  <2> HIDE DEF q, cnt
  <2>1. qsl[s] + m = qsl[e]
    BY <1>1 DEF m
  <2>2. q[k].hi \in Nat /\ q[k].hi <= m
    BY <1>1, <1>5, <1>6
  <2>3. q[k].lo > 0 => k > 1
    <3>1. k >= 1 /\ k \in Int
      OBVIOUS
    <3> QED BY <1>5, <1>6, <3>1
  <2> QED BY <1>1, <1>5, <1>6, <2>1, <2>2, <2>3
<1>9. ASSUME NEW t \in qsl[s] .. qsl[e] - 1
      PROVE  \E k \in 1 .. cnt : Takes(qsl, q[k], t)
  <2> DEFINE o == t - qsl[s]
  <2> DEFINE j == o \div mq
  <2>1. o \in Nat /\ o < m /\ t = qsl[s] + o
    BY <1>1 DEF m
  <2> HIDE DEF o
  <2>2. j \in Nat
    BY <1>2, <2>1, Quotient
  <2>3. j * mq <= o
    BY <1>2, <2>1, <2>2, Quotient
  <2>4. ~((j + 1) * mq <= o)
    <3>1. j + 1 \in Nat /\ ~(j + 1 <= j)
      BY <2>2
    <3> QED BY <1>2, <2>1, <3>1, Quotient
  <2> HIDE DEF j
  <2>5. (j + 1) * mq = j * mq + mq /\ j * mq \in Nat
    BY <1>2, <2>2
  <2>6. j + 1 <= cnt
    <3>1. (j + 1) * mq <= m + mq - 1
      BY <1>1, <1>2, <2>1, <2>3, <2>5
    <3>2. m + mq - 1 \in Nat /\ j + 1 \in Nat
      BY <1>1, <1>2, <2>2
    <3> QED BY <1>2, <3>1, <3>2, Quotient
  <2>7. j + 1 \in 1 .. cnt /\ (j + 1) - 1 = j
    BY <1>4, <2>2, <2>6
  <2> HIDE DEF q, cnt
  <2>8. q[j + 1].start = s /\ q[j + 1].lo = j * mq
        /\ q[j + 1].hi = IF (j + 1) * mq < m THEN (j + 1) * mq ELSE m
    BY <1>6, <2>7
  <2>9. Takes(qsl, q[j + 1], t)
    BY <1>1, <1>2, <2>1, <2>3, <2>4, <2>5, <2>8 DEF Takes
  <2> QED BY <2>7, <2>9
<1> HIDE DEF q, cnt
<1> QED BY <1>3, <1>7, <1>8, <1>9

\* The sub-chunks of the first group in front of a plan of the rest.
LEMMA PlansMore ==
  ASSUME NEW qsl, NEW cu, NEW n \in Nat, PlanInput(qsl, cu, n), NEW logits \in Nat,
         NEW workspace, NEW s \in 0 .. n - 1, NEW r,
         LET e == GroupEnd(qsl, cu, n, workspace, logits, s)
         IN  Plans(r, e, qsl, cu, n, workspace)
  PROVE  LET e == GroupEnd(qsl, cu, n, workspace, logits, s)
         IN  Plans(SubChunks(qsl, cu, logits, s, e) \o r, s, qsl, cu, n, workspace)
<1> DEFINE e == GroupEnd(qsl, cu, n, workspace, logits, s)
<1> DEFINE a == SubChunks(qsl, cu, logits, s, e)
<1> DEFINE q == a \o r
<1>1. e \in s + 1 .. n /\ (e = s + 1 \/ cu[e] - cu[s] <= workspace)
  BY GroupEndIs DEF Fits
<1>2. Plans(r, e, qsl, cu, n, workspace)
  OBVIOUS
<1> HIDE DEF e
<1>3. /\ a \in Seq(ChunkSet)
      /\ \A k \in 1 .. Len(a) :
           /\ a[k].start = s /\ a[k].stop = e
           /\ a[k].lo \in Nat /\ a[k].hi \in Nat
           /\ qsl[s] + a[k].hi <= qsl[e]
           /\ a[k].lo > 0 => k > 1
      /\ \A t \in qsl[s] .. qsl[e] - 1 : \E k \in 1 .. Len(a) : Takes(qsl, a[k], t)
  BY <1>1, SubChunksAre
<1>4. /\ r \in Seq(ChunkSet)
      /\ \A k \in 1 .. Len(r) : Planned(r[k], qsl, cu, n, workspace) /\ Follows(r, k)
      /\ \A t \in qsl[e] .. qsl[n] - 1 : \E k \in 1 .. Len(r) : Takes(qsl, r[k], t)
  BY <1>2 DEF Plans
<1> HIDE DEF a
<1>5. /\ q \in Seq(ChunkSet) /\ Len(q) = Len(a) + Len(r)
      /\ Len(a) \in Nat /\ Len(r) \in Nat
      /\ \A k \in 1 .. Len(a) : q[k] = a[k]
      /\ \A k \in 1 .. Len(r) : q[Len(a) + k] = r[k]
  BY <1>3, <1>4, Joined
<1> HIDE DEF q
<1>6. ASSUME NEW k \in 1 .. Len(q)
      PROVE  Planned(q[k], qsl, cu, n, workspace) /\ Follows(q, k)
  <2>1. CASE k <= Len(a)
    <3>1. k \in 1 .. Len(a) /\ q[k] = a[k]
      BY <1>5, <2>1
    <3>2. Planned(q[k], qsl, cu, n, workspace)
      BY <1>1, <1>3, <3>1 DEF Planned
    <3>3. ASSUME q[k].lo > 0 PROVE k > 1 /\ k - 1 \in 1 .. Len(a)
      BY <1>3, <3>1, <3>3
    <3>4. Follows(q, k)
      BY <1>3, <1>5, <3>1, <3>3 DEF Follows
    <3> QED BY <3>2, <3>4
  <2>2. CASE ~(k <= Len(a))
    <3> DEFINE j == k - Len(a)
    <3>1. j \in 1 .. Len(r) /\ k = Len(a) + j
      BY <1>5, <2>2
    <3> HIDE DEF j
    <3>2. q[k] = r[j] /\ Planned(r[j], qsl, cu, n, workspace) /\ Follows(r, j)
      BY <1>4, <1>5, <3>1
    <3>3. ASSUME q[k].lo > 0 
          PROVE  /\ k > 1 /\ q[k - 1].start = q[k].start
                 /\ q[k - 1].stop = q[k].stop
      <4>1. /\ j > 1 /\ r[j - 1].start = r[j].start /\ r[j - 1].stop = r[j].stop
        BY <3>2, <3>3 DEF Follows
      <4>2. j - 1 \in 1 .. Len(r) /\ k - 1 = Len(a) + (j - 1) /\ k > 1
        BY <1>5, <3>1, <4>1
      <4>3. q[k - 1] = r[j - 1]
        BY <1>5, <4>2
      <4> QED BY <3>2, <4>1, <4>2, <4>3
    <3> QED BY <3>2, <3>3 DEF Follows
  <2> QED BY <2>1, <2>2
<1>7. ASSUME NEW t \in qsl[s] .. qsl[n] - 1
      PROVE  \E k \in 1 .. Len(q) : Takes(qsl, q[k], t)
  <2>1. qsl[s] \in Nat /\ qsl[e] \in Nat /\ qsl[n] \in Nat
    BY <1>1 DEF PlanInput
  <2>2. CASE t < qsl[e]
    <3>1. t \in qsl[s] .. qsl[e] - 1
      BY <2>1, <2>2
    <3>2. PICK k \in 1 .. Len(a) : Takes(qsl, a[k], t)
      BY <1>3, <3>1
    <3>3. k \in 1 .. Len(q) /\ q[k] = a[k]
      BY <1>5
    <3> QED BY <3>2, <3>3
  <2>3. CASE ~(t < qsl[e])
    <3>1. t \in qsl[e] .. qsl[n] - 1
      BY <2>1, <2>3
    <3>2. PICK k \in 1 .. Len(r) : Takes(qsl, r[k], t)
      BY <1>4, <3>1
    <3>3. Len(a) + k \in 1 .. Len(q) /\ q[Len(a) + k] = r[k]
      BY <1>5
    <3> QED BY <3>2, <3>3
  <2> QED BY <2>2, <2>3
<1>8. Plans(q, s, qsl, cu, n, workspace)
  BY <1>5, <1>6, <1>7 DEF Plans
<1> QED BY <1>8 DEF q, a, e

\* The plan gives every prefill row to a chunk of its own requests.
LEMMA PlanPlans ==
  ASSUME NEW qsl, NEW cu, NEW n \in Nat, PlanInput(qsl, cu, n), NEW logits \in Nat,
         NEW workspace
  PROVE  Plans(Plan(qsl, cu, n, workspace, logits), 0, qsl, cu, n, workspace)
<1>0. PICK p : PlannedBy(p, qsl, cu, n, workspace, logits)
  BY Zenon, PlanIs
<1>1. /\ DOMAIN p = 0 .. n /\ PlanFrom(p, qsl, cu, n, workspace, logits)
      /\ Plan(qsl, cu, n, workspace, logits) = p[0]
  BY <1>0 DEF PlannedBy
<1> DEFINE P(s) == Plans(p[s], s, qsl, cu, n, workspace)
<1> DEFINE S == {k \in Nat : \A s \in 0 .. n : n - s <= k => P(s)}
<1>2. P(n)
  <2>1. p[n] = << >>
    BY <1>1 DEF PlanFrom
  <2>2. qsl[n] .. qsl[n] - 1 = {}
    <3>1. qsl[n] \in Nat
      BY DEF PlanInput
    <3> QED BY <3>1
  <2>3. << >> \in Seq(ChunkSet) /\ Len(<< >>) = 0
    OBVIOUS
  <2> QED BY <2>1, <2>2, <2>3 DEF Plans
<1>3. 0 \in S
  <2>1. ASSUME NEW s \in 0 .. n, n - s <= 0 PROVE P(s)
    <3>1. s = n
      BY <2>1
    <3> QED BY <1>2, <3>1
  <2> HIDE DEF P
  <2> QED BY <2>1
<1>4. ASSUME NEW k \in Nat, k \in S PROVE k + 1 \in S
  <2>1. ASSUME NEW s \in 0 .. n, n - s <= k + 1 PROVE P(s)
    <3>1. CASE s = n
      BY <1>2, <3>1
    <3>2. CASE s # n
      <4> DEFINE e == GroupEnd(qsl, cu, n, workspace, logits, s)
      <4>1. s \in 0 .. n - 1
        BY <3>2
      <4>2. e \in s + 1 .. n
        BY <4>1, GroupEndIs
      <4>3. p[s] = SubChunks(qsl, cu, logits, s, e) \o p[e]
        BY <1>1, <3>2 DEF PlanFrom
      <4>4. P(e)
        <5> HIDE DEF e, P
        <5>1. e \in 0 .. n /\ n - e <= k
          BY <2>1, <4>2
        <5> QED BY <1>4, <5>1
      <4>5. Plans(SubChunks(qsl, cu, logits, s, e) \o p[e], s, qsl, cu, n, workspace)
        BY <4>1, <4>4, PlansMore
      <4> QED BY <4>3, <4>5
    <3> QED BY <3>1, <3>2
  <2> HIDE DEF P
  <2> QED BY <2>1
<1> HIDE DEF S
<1>5. Nat \subseteq S
  BY <1>3, <1>4, Induction
<1>6. P(0)
  <2>1. n \in S /\ 0 \in 0 .. n /\ n - 0 <= n
    BY <1>5
  <2> HIDE DEF P
  <2> QED BY <2>1 DEF S
<1> QED BY <1>1, <1>6

-----------------------------------------------------------------------------
(* Sums over stretches *)

\* Sums of a stretch of values are differences of the sums of all.
LEMMA SumsOfStretch ==
  ASSUME NEW n \in Nat, NEW c, NEW f, Sums(c, f, n), \A i \in 0 .. n - 1 : f[i] \in Nat,
         NEW m \in Nat, NEW d, NEW g, Sums(d, g, m),
         NEW a \in Nat, a + m <= n, \A i \in 0 .. m - 1 : g[i] = f[a + i]
  PROVE  \A i \in 0 .. m : d[i] = c[a + i] - c[a]
<1> DEFINE S == {i \in Nat : i <= m => d[i] = c[a + i] - c[a]}
<1>0. \A i \in 0 .. n : c[i] \in Nat
  BY SumsType
<1>1. 0 \in S
  <2>1. c[a] \in Nat /\ a + 0 = a
    BY <1>0
  <2>2. d[0] = 0
    BY DEF Sums
  <2> QED BY <2>1, <2>2
<1>2. ASSUME NEW i \in Nat, i \in S PROVE i + 1 \in S
  <2> SUFFICES ASSUME i + 1 <= m PROVE d[i + 1] = c[a + (i + 1)] - c[a]
    OBVIOUS
  <2>1. /\ i \in 0 .. m - 1 /\ i <= m /\ a + i \in 0 .. n - 1 /\ a + (i + 1) = (a + i) + 1
        /\ a \in 0 .. n /\ a + i \in 0 .. n
    OBVIOUS
  <2>2. d[i] = c[a + i] - c[a] /\ d[i + 1] = d[i] + g[i] /\ c[(a + i) + 1] = c[a + i] + f[a + i]
    BY <1>2, <2>1 DEF Sums
  <2>3. g[i] = f[a + i] /\ f[a + i] \in Nat /\ c[a + i] \in Nat /\ c[a] \in Nat
    BY <1>0, <2>1
  <2> QED BY <2>1, <2>2, <2>3
<1> HIDE DEF S
<1>3. Nat \subseteq S
  BY <1>1, <1>2, Induction
<1> QED BY <1>3 DEF S
-----------------------------------------------------------------------------
(* The chunks that are kept *)

KeptBody(c, made, n) ==
  c = [k \in 0 .. n |-> IF k = 0 THEN << >>
                        ELSE IF made[k].total > 0 THEN Append(c[k - 1], made[k])
                                                  ELSE c[k - 1]]

LEMMA KeptExists ==
  ASSUME NEW made
  PROVE  \A n \in Nat : \E c : KeptBody(c, made, n)
<1> DEFINE S == {n \in Nat : \E c : KeptBody(c, made, n)}
<1>1. 0 \in S
  <2>1. KeptBody([i \in 0 .. 0 |-> << >>], made, 0)
    BY DEF KeptBody
  <2> QED BY <2>1
<1>2. ASSUME NEW n \in Nat, n \in S PROVE n + 1 \in S
  <2>1. PICK c : KeptBody(c, made, n)
    BY <1>2
  <2> DEFINE last == IF made[n + 1].total > 0 THEN Append(c[n], made[n + 1]) ELSE c[n]
  <2> DEFINE d == [i \in 0 .. n + 1 |-> IF i = n + 1 THEN last ELSE c[i]]
  <2> DEFINE e == [k \in 0 .. n + 1 |-> IF k = 0 THEN << >>
                        ELSE IF made[k].total > 0 THEN Append(d[k - 1], made[k]) ELSE d[k - 1]]
  <2>2. c = [k \in 0 .. n |-> IF k = 0 THEN << >>
                        ELSE IF made[k].total > 0 THEN Append(c[k - 1], made[k]) ELSE c[k - 1]]
    BY <2>1 DEF KeptBody
  <2>3. ASSUME NEW i \in 0 .. n + 1 PROVE d[i] = e[i]
    <3>1. CASE i = n + 1
      <4>1. i - 1 = n /\ n \in 0 .. n + 1 /\ n # n + 1 /\ i # 0
        BY <3>1
      <4>2. d[i - 1] = c[n]
        BY <4>1
      <4>3. d[i] = last
        BY <3>1
      <4> HIDE DEF d
      <4> QED BY <3>1, <4>1, <4>2, <4>3
    <3>2. CASE i # n + 1 /\ i # 0
      <4>1. i \in 0 .. n /\ i - 1 \in 0 .. n + 1 /\ i - 1 # n + 1
        BY <3>2
      <4>2. c[i] = IF made[i].total > 0 THEN Append(c[i - 1], made[i]) ELSE c[i - 1]
        BY <2>2, <3>2, <4>1
      <4>3. d[i] = c[i] /\ d[i - 1] = c[i - 1]
        BY <3>2, <4>1
      <4> HIDE DEF d
      <4> QED BY <3>2, <4>1, <4>2, <4>3
    <3>3. CASE i = 0
      <4>1. i \in 0 .. n /\ i # n + 1
        BY <3>3
      <4>2. c[i] = << >>
        BY <2>2, <3>3, <4>1
      <4> QED BY <3>3, <4>1, <4>2
    <3> QED BY <3>1, <3>2, <3>3
  <2>4. d = e
    <3>1. DOMAIN d = 0 .. n + 1 /\ DOMAIN e = 0 .. n + 1
      OBVIOUS
    <3>2. d = [i \in 0 .. n + 1 |-> d[i]] /\ e = [i \in 0 .. n + 1 |-> e[i]]
      OBVIOUS
    <3> HIDE DEF d, e
    <3> QED BY <2>3, <3>2
  <2>5. KeptBody(d, made, n + 1)
    <3> HIDE DEF d
    <3> QED BY <2>4 DEF KeptBody
  <2> QED BY <2>5
<1> HIDE DEF S
<1>3. Nat \subseteq S
  BY <1>1, <1>2, Induction
<1> QED BY <1>3 DEF S

LEMMA WithEntriesIs ==
  ASSUME NEW made, Len(made) \in Nat
  PROVE  \E c : KeptBody(c, made, Len(made)) /\ WithEntries(made) = c[Len(made)]
<1> DEFINE c == CHOOSE c : KeptBody(c, made, Len(made))
<1>1. WithEntries(made) = c[Len(made)]
  BY Zenon DEF WithEntries, KeptBody
<1>2. \E d : KeptBody(d, made, Len(made))
  BY KeptExists
<1>3. KeptBody(c, made, Len(made))
  BY <1>2, Zenon
<1> HIDE DEF c
<1> QED BY <1>1, <1>3

\* A chunk that gathers nothing itself follows one of the same requests.
Continues(q, k) ==
  q[k].skip => /\ k > 1 /\ q[k - 1].start = q[k].start /\ q[k - 1].stop = q[k].stop
               /\ q[k - 1].cu = q[k].cu /\ q[k - 1].total = q[k].total

\* What the chunks kept from the first k are.
KeptOk(c, made, k) ==
  /\ c \in Seq({made[j] : j \in 1 .. k})
  /\ \A i \in 1 .. Len(c) : Continues(c, i)
  /\ \A j \in 1 .. k : made[j].total > 0 => \E i \in 1 .. Len(c) : c[i] = made[j]
  /\ k > 0 /\ made[k].total > 0 => Len(c) > 0 /\ c[Len(c)] = made[k]

LEMMA Appended ==
  ASSUME NEW S, NEW a \in Seq(S), NEW x, NEW T, S \subseteq T, x \in T
  PROVE  /\ Append(a, x) \in Seq(T) /\ Len(Append(a, x)) = Len(a) + 1 /\ Len(a) \in Nat
         /\ \A i \in 1 .. Len(a) : Append(a, x)[i] = a[i]
         /\ Append(a, x)[Len(a) + 1] = x
<1>1. a \in Seq(T)
  <2>1. Len(a) \in Nat /\ a \in [1 .. Len(a) -> S]
    OBVIOUS
  <2>2. a \in [1 .. Len(a) -> T]
    BY <2>1
  <2> QED BY <2>1, <2>2
<1> QED BY <1>1

LEMMA KeptAre ==
  ASSUME NEW made, NEW n \in Nat, NEW c, KeptBody(c, made, n),
         \A k \in 1 .. n : Continues(made, k)
  PROVE  KeptOk(c[n], made, n)
<1> DEFINE S == {k \in Nat : k <= n => KeptOk(c[k], made, k)}
<1>1. 0 \in S
  <2>1. c[0] = << >>
    BY DEF KeptBody
  <2>2. << >> \in Seq({made[j] : j \in 1 .. 0}) /\ Len(<< >>) = 0
    OBVIOUS
  <2>3. 1 .. 0 = {} /\ ~(0 > 0)
    OBVIOUS
  <2>4. KeptOk(<< >>, made, 0)
    BY <2>2, <2>3 DEF KeptOk
  <2> QED BY <2>1, <2>4
<1>2. ASSUME NEW k \in Nat, k \in S PROVE k + 1 \in S
  <2> SUFFICES ASSUME k + 1 <= n PROVE KeptOk(c[k + 1], made, k + 1)
    OBVIOUS
  <2>1. KeptOk(c[k], made, k)
    BY <1>2
  <2>2. c[k + 1] = IF made[k + 1].total > 0 THEN Append(c[k], made[k + 1]) ELSE c[k]
    <3>1. k + 1 \in 0 .. n /\ k + 1 # 0 /\ (k + 1) - 1 = k
      OBVIOUS
    <3> QED BY <3>1 DEF KeptBody
  <2> DEFINE A == {made[j] : j \in 1 .. k}
  <2> DEFINE B == {made[j] : j \in 1 .. k + 1}
  <2>3. A \subseteq B /\ made[k + 1] \in B
    OBVIOUS
  <2>4. /\ c[k] \in Seq(A)
        /\ \A i \in 1 .. Len(c[k]) : Continues(c[k], i)
        /\ \A j \in 1 .. k : made[j].total > 0 => \E i \in 1 .. Len(c[k]) : c[k][i] = made[j]
        /\ k > 0 /\ made[k].total > 0 => Len(c[k]) > 0 /\ c[k][Len(c[k])] = made[k]
    BY <2>1 DEF KeptOk
  <2>5. CASE made[k + 1].total > 0
    <3> DEFINE d == Append(c[k], made[k + 1])
    <3> DEFINE l == Len(c[k])
    <3> HIDE DEF A, B
    <3>1. /\ d \in Seq(B) /\ Len(d) = l + 1 /\ l \in Nat
          /\ \A i \in 1 .. l : d[i] = c[k][i]
          /\ d[l + 1] = made[k + 1]
      BY <2>3, <2>4, Appended
    <3>2. c[k + 1] = d
      BY <2>2, <2>5
    <3> HIDE DEF d, l
    <3>3. ASSUME NEW i \in 1 .. Len(d), d[i].skip
          PROVE  /\ i > 1 /\ d[i - 1].start = d[i].start /\ d[i - 1].stop = d[i].stop
                 /\ d[i - 1].cu = d[i].cu /\ d[i - 1].total = d[i].total
      <4>1. CASE i \in 1 .. l
        <5>1. d[i] = c[k][i]
          BY <3>1, <4>1
        <5>2. /\ i > 1 /\ c[k][i - 1].start = c[k][i].start
              /\ c[k][i - 1].stop = c[k][i].stop /\ c[k][i - 1].cu = c[k][i].cu
              /\ c[k][i - 1].total = c[k][i].total
          BY <2>4, <3>3, <4>1, <5>1 DEF l, Continues
        <5>3. i - 1 \in 1 .. l
          BY <3>1, <4>1, <5>2
        <5>4. d[i - 1] = c[k][i - 1]
          BY <3>1, <5>3
        <5> QED BY <5>1, <5>2, <5>4
      <4>2. CASE i = l + 1
        <5>1. d[i] = made[k + 1]
          BY <3>1, <4>2
        <5>2. /\ k + 1 > 1 /\ made[k].start = made[k + 1].start
              /\ made[k].stop = made[k + 1].stop /\ made[k].cu = made[k + 1].cu
              /\ made[k].total = made[k + 1].total
          <6>1. Continues(made, k + 1) /\ (k + 1) - 1 = k
            OBVIOUS
          <6> QED BY <3>3, <5>1, <6>1 DEF Continues
        <5>3. l > 0 /\ c[k][l] = made[k]
          BY <2>4, <2>5, <5>2 DEF l
        <5>4. l \in 1 .. l /\ i - 1 = l /\ i > 1
          BY <3>1, <4>2, <5>3
        <5>5. d[i - 1] = made[k]
          BY <3>1, <5>3, <5>4
        <5> QED BY <5>1, <5>2, <5>4, <5>5
      <4> QED BY <3>1, <4>1, <4>2
    <3>4. ASSUME NEW j \in 1 .. k + 1, made[j].total > 0
          PROVE  \E i \in 1 .. Len(d) : d[i] = made[j]
      <4>1. CASE j = k + 1
        <5>1. l + 1 \in 1 .. Len(d)
          BY <3>1
        <5> QED BY <3>1, <4>1, <5>1
      <4>2. CASE j # k + 1
        <5>1. j \in 1 .. k
          BY <4>2
        <5>2. PICK i \in 1 .. l : c[k][i] = made[j]
          BY <2>4, <3>4, <5>1 DEF l
        <5>3. i \in 1 .. Len(d) /\ d[i] = made[j]
          BY <3>1, <5>2
        <5> QED BY <5>3
      <4> QED BY <4>1, <4>2
    <3>5. Len(d) > 0 /\ d[Len(d)] = made[k + 1]
      BY <3>1
    <3>6. \A i \in 1 .. Len(d) : Continues(d, i)
      BY <3>3 DEF Continues
    <3> QED BY <3>1, <3>2, <3>4, <3>5, <3>6 DEF KeptOk, B
  <2>6. CASE ~(made[k + 1].total > 0)
    <3>1. c[k + 1] = c[k]
      BY <2>2, <2>6
    <3>2. c[k] \in Seq(B)
      <4> HIDE DEF A, B
      <4>1. Len(c[k]) \in Nat /\ c[k] \in [1 .. Len(c[k]) -> A]
        BY <2>4
      <4>2. c[k] \in [1 .. Len(c[k]) -> B]
        BY <2>3, <4>1
      <4> QED BY <4>1, <4>2
    <3>3. ASSUME NEW j \in 1 .. k + 1, made[j].total > 0
          PROVE  \E i \in 1 .. Len(c[k]) : c[k][i] = made[j]
      <4>1. j \in 1 .. k
        BY <2>6, <3>3
      <4> QED BY <2>4, <3>3, <4>1
    <3> QED BY <2>4, <2>6, <3>1, <3>2, <3>3 DEF KeptOk, B
  <2> QED BY <2>5, <2>6
<1> HIDE DEF S
<1>3. n \in S
  BY <1>1, <1>2, Induction
<1> QED BY <1>3 DEF S

LEMMA WithEntriesAre ==
  ASSUME NEW made, Len(made) \in Nat, \A k \in 1 .. Len(made) : Continues(made, k)
  PROVE  KeptOk(WithEntries(made), made, Len(made))
BY WithEntriesIs, KeptAre

\* The metadata of planned chunk p of the requests from nd on.
Made(nd, p) == ChunkMeta(Chunk(p.start + nd, p.stop + nd, p.lo, p.hi))

LEMMA MadeFields ==
  ASSUME NEW nd, NEW p
  PROVE  /\ Made(nd, p).start = p.start + nd
         /\ Made(nd, p).stop = p.stop + nd
         /\ Made(nd, p).skip <=> p.lo > 0
BY DEF Made, ChunkMeta, Chunk

\* The gathered part of a chunk does not depend on its rows.
LEMMA MadeSame ==
  ASSUME NEW nd, NEW p, NEW q, p.start = q.start, p.stop = q.stop
  PROVE  Made(nd, p).total = Made(nd, q).total /\ Made(nd, p).cu = Made(nd, q).cu
<1>1. /\ Chunk(p.start + nd, p.stop + nd, p.lo, p.hi).start = p.start + nd
      /\ Chunk(p.start + nd, p.stop + nd, p.lo, p.hi).stop = p.stop + nd
      /\ Chunk(q.start + nd, q.stop + nd, q.lo, q.hi).start = q.start + nd
      /\ Chunk(q.start + nd, q.stop + nd, q.lo, q.hi).stop = q.stop + nd
  BY DEF Chunk
<1>2. ASSUME NEW x
      PROVE  /\ ChunkMeta(x).total = Cumulative([b \in 0 .. (x.stop - x.start)-1 |->
                                       CompressedUpper(x.start + b)], x.stop - x.start)[x.stop - x.start]
             /\ ChunkMeta(x).cu = Cumulative([b \in 0 .. (x.stop - x.start)-1 |->
                                       Compressed(x.start + b)], x.stop - x.start)
  BY DEF ChunkMeta
<1> QED BY <1>1, <1>2, Zenon DEF Made

-----------------------------------------------------------------------------
(* The invariant *)

Indices   == 0 .. N-1
Places(r) == {b \in Indices : Req(b) = r}

\* The rows request r has in the batch.
Given(r) == IF Places(r) = {} THEN 0 ELSE QLen(CHOOSE b \in Places(r) : TRUE)

BatchType ==
  /\ N \in Nat
  /\ \A b \in Indices : QLen(b) \in Nat
  /\ \A b, c \in Indices : Req(b) = Req(c) /\ Req(b) \in Reqs => b = c

\* The layers whose cache this step's tokens have entered.
Entered(l) == \/ pc = "sample" \/ l < layer
              \/ l = layer /\ pc \notin {"schedule", "build", "insert"}

CacheInv ==
  /\ ratio \in Nat \ {0} /\ layer \in Layers
  /\ len \in [Reqs -> Nat]
  /\ kv \in [Layers -> [Reqs -> SUBSET Int]]
  /\ BatchType
  /\ pc \in {"schedule", "build", "sample"} => layer = 1
  /\ pc = "schedule" => batch = NoBatch
  /\ \A l \in Layers : \A r \in Reqs :
       kv[l][r] = 0 .. ((len[r] + IF Entered(l) THEN Given(r) ELSE 0) \div ratio) - 1

LEMMA NoBatchType ==
  ASSUME batch = NoBatch
  PROVE  N = 0 /\ Indices = {} /\ BatchType /\ \A r : Given(r) = 0
<1>1. N = 0
  BY DEF N, NoBatch
<1>2. Indices = {}
  BY <1>1 DEF Indices
<1> QED BY <1>1, <1>2 DEF BatchType, Given, Places

LEMMA LayerOne == 1 \in Layers /\ \A l \in Layers : l \in Nat /\ ~(l < 1)
BY IndexerConstants DEF Layers

\* A request has one place in the batch, or none.
LEMMA OnePlace ==
  ASSUME BatchType, NEW r \in Reqs, NEW b \in Indices, Req(b) = r
  PROVE  Places(r) = {b} /\ Given(r) = QLen(b)
<1>1. Places(r) = {b}
  BY DEF Places, BatchType
<1> QED BY <1>1 DEF Given

LEMMA GivenType ==
  ASSUME BatchType, NEW r \in Reqs
  PROVE  Given(r) \in Nat
<1>1. CASE Places(r) = {}
  BY <1>1 DEF Given
<1>2. CASE Places(r) # {}
  <2>1. PICK b \in Indices : Req(b) = r
    BY <1>2 DEF Places
  <2> QED BY <2>1, OnePlace DEF BatchType
<1> QED BY <1>1, <1>2

LEMMA InitCacheInv == Init => CacheInv
<1> SUFFICES ASSUME Init PROVE CacheInv
  OBVIOUS
<1>1. ratio \in Nat \ {0}
  BY IndexerConstants DEF Init
<1>2. BatchType /\ \A r : Given(r) = 0
  BY NoBatchType DEF Init
<1>3. ASSUME NEW l \in Layers, NEW r \in Reqs
      PROVE  kv[l][r] = 0 .. ((len[r] + IF Entered(l) THEN Given(r) ELSE 0) \div ratio) - 1
  <2>1. kv[l][r] = {} /\ len[r] = 0
    BY DEF Init
  <2>2. 0 \div ratio = 0
    BY <1>1
  <2> QED BY <1>2, <2>1, <2>2
<1> QED BY <1>1, <1>2, <1>3, LayerOne DEF Init, CacheInv

\* A step that leaves cache, lengths and batch alone keeps the invariant if
\* it leaves the layers that were entered.
LEMMA Untouched ==
  ASSUME CacheInv, UNCHANGED <<ratio, len, kv, batch>>, layer' \in Layers,
         \A l \in Layers : Entered(l)' = Entered(l),
         pc' \in {"schedule", "build", "sample"} => layer' = 1,
         pc' = "schedule" => batch = NoBatch
  PROVE  CacheInv'
<1>1. N' = N /\ Indices' = Indices
  BY DEF N, Indices
<1>2. \A b : Req(b)' = Req(b) /\ QLen(b)' = QLen(b)
  BY DEF Req, QLen
<1>3. BatchType'
  BY <1>1, <1>2 DEF BatchType, CacheInv
<1>4. ASSUME NEW r PROVE Given(r)' = Given(r)
  <2>1. Places(r)' = Places(r)
    BY <1>1, <1>2 DEF Places
  <2> QED BY <1>2, <2>1 DEF Given
<1> QED BY <1>3, <1>4 DEF CacheInv, NoBatch
-----------------------------------------------------------------------------
(* The steps that change the batch or the cache *)

LEMMA ScheduleStep ==
  ASSUME CacheInv, Schedule
  PROVE  CacheInv'
<1>1. /\ pc = "schedule" /\ pc' = "build" /\ layer = 1
      /\ UNCHANGED <<ratio, len, kv, layer>>
  BY DEF Schedule, CacheInv, deploy
<1>2. PICK req \in Orders : \E q \in [1 .. Len(req) -> 1 .. MaxLen] : \E pad \in Nat :
        LET k == Len(req) + pad
        IN  /\ batch'.req = [i \in 1 .. k |-> IF i <= Len(req) THEN req[i] ELSE NoReq]
            /\ batch'.q = [i \in 1 .. k |-> IF i <= Len(req) THEN q[i] ELSE 0]
  <2>1. PICK req \in Orders :
          \E q \in {f \in [1 .. Len(req) -> 1 .. MaxLen] :
                      \A i \in 1 .. Len(req) : f[i] \in Piece(req[i])} :
          \E pad \in 0 .. (IF \A i \in DOMAIN q : q[i] = nextN THEN MaxPad ELSE 0) :
            LET k   == Len(req) + pad
                qs  == [i \in 1 .. k |-> IF i <= Len(req) THEN q[i] ELSE 0]
                qsl == Cumulative([b \in 0 .. k-1 |-> qs[b + 1]], k)
            IN  batch' = [req |-> [i \in 1 .. k |-> IF i <= Len(req) THEN req[i] ELSE NoReq],
                          q |-> qs, qsl |-> qsl,
                          tokens |-> IF pad > 0 THEN k * nextN ELSE qsl[k]]
    BY Zenon DEF Schedule
  <2> DEFINE Q == {f \in [1 .. Len(req) -> 1 .. MaxLen] :
                      \A i \in 1 .. Len(req) : f[i] \in Piece(req[i])}
  <2> DEFINE Pads(q) == 0 .. (IF \A i \in DOMAIN q : q[i] = nextN THEN MaxPad ELSE 0)
  <2>2. PICK q \in Q : \E pad \in Pads(q) :
            LET k   == Len(req) + pad
                qs  == [i \in 1 .. k |-> IF i <= Len(req) THEN q[i] ELSE 0]
                qsl == Cumulative([b \in 0 .. k-1 |-> qs[b + 1]], k)
            IN  batch' = [req |-> [i \in 1 .. k |-> IF i <= Len(req) THEN req[i] ELSE NoReq],
                          q |-> qs, qsl |-> qsl,
                          tokens |-> IF pad > 0 THEN k * nextN ELSE qsl[k]]
    BY <2>1, Zenon
  <2>3. q \in [1 .. Len(req) -> 1 .. MaxLen] /\ Pads(q) \subseteq Nat
    BY IndexerConstants
  <2> HIDE DEF Q, Pads
  <2>4. \E pad \in Pads(q) :
          /\ batch'.req = [i \in 1 .. Len(req) + pad |-> IF i <= Len(req) THEN req[i] ELSE NoReq]
          /\ batch'.q = [i \in 1 .. Len(req) + pad |-> IF i <= Len(req) THEN q[i] ELSE 0]
    BY <2>2
  <2> QED BY <2>3, <2>4
<1>3. PICK q \in [1 .. Len(req) -> 1 .. MaxLen], pad \in Nat :
        /\ batch'.req = [i \in 1 .. Len(req) + pad |-> IF i <= Len(req) THEN req[i] ELSE NoReq]
        /\ batch'.q = [i \in 1 .. Len(req) + pad |-> IF i <= Len(req) THEN q[i] ELSE 0]
  BY <1>2
<1>4. /\ Len(req) \in Nat /\ req \in [1 .. Len(req) -> Reqs]
      /\ \A i, j \in 1 .. Len(req) : i # j => req[i] # req[j]
  <2>1. PICK k \in 1 .. Cardinality(Reqs) :
          req \in [1 .. k -> Reqs] /\ \A i, j \in 1 .. k : i # j => req[i] # req[j]
    BY DEF Orders
  <2>2. k \in Nat
    OBVIOUS
  <2>3. Len(req) = k
    BY <2>1, <2>2
  <2> QED BY <2>1, <2>2, <2>3
<1> DEFINE k == Len(req) + pad
<1>5. k \in Nat /\ N' = k
  <2>1. k \in Nat
    BY <1>4
  <2>2. Len(batch'.req) = k
    BY <1>3, <2>1
  <2> QED BY <2>1, <2>2 DEF N
<1>6. ASSUME NEW b \in Indices'
      PROVE  /\ b \in Int /\ b + 1 \in 1 .. k
             /\ Req(b)' = IF b + 1 <= Len(req) THEN req[b + 1] ELSE NoReq
             /\ QLen(b)' = IF b + 1 <= Len(req) THEN q[b + 1] ELSE 0
  <2>1. b \in Int /\ b + 1 \in 1 .. k
    BY <1>5 DEF Indices
  <2> QED BY <1>3, <2>1 DEF Req, QLen
<1>7. BatchType'
  <2>1. N' \in Nat
    BY <1>5
  <2>2. ASSUME NEW b \in Indices' PROVE QLen(b)' \in Nat
    BY <1>4, <1>6
  <2>3. ASSUME NEW b \in Indices', NEW c \in Indices', Req(b)' = Req(c)', Req(b)' \in Reqs
        PROVE  b = c
    <3>1. b + 1 <= Len(req) /\ c + 1 <= Len(req)
      BY <1>6, <2>3, IndexerConstants
    <3>2. b + 1 \in 1 .. Len(req) /\ c + 1 \in 1 .. Len(req)
      BY <1>4, <1>6, <3>1
    <3>3. req[b + 1] = req[c + 1]
      BY <1>6, <2>3, <3>1
    <3>4. b + 1 = c + 1
      BY <1>4, <3>2, <3>3
    <3> QED BY <1>6, <3>4
  <2> QED BY <2>1, <2>2, <2>3 DEF BatchType
<1>8. \A l \in Layers : ~Entered(l) /\ ~Entered(l)'
  BY <1>1, LayerOne DEF Entered
<1> QED BY <1>1, <1>7, <1>8 DEF CacheInv

LEMMA ReplaceStep ==
  ASSUME CacheInv, NEW r \in Reqs, Replace(r)
  PROVE  CacheInv'
<1>1. /\ pc = "schedule" /\ layer = 1 /\ batch = NoBatch
      /\ UNCHANGED <<ratio, batch, pc, layer>>
      /\ len' = [len EXCEPT ![r] = 0]
      /\ kv' = [l \in Layers |-> [kv[l] EXCEPT ![r] = {}]]
  BY DEF Replace, CacheInv, deploy
<1>2. BatchType'
  BY <1>1, NoBatchType DEF BatchType, N, Indices, Req, QLen
<1>3. \A l \in Layers : ~Entered(l) /\ ~Entered(l)'
  BY <1>1, LayerOne DEF Entered
<1>4. len' \in [Reqs -> Nat] /\ kv' \in [Layers -> [Reqs -> SUBSET Int]]
  BY <1>1 DEF CacheInv
<1>5. ASSUME NEW l \in Layers, NEW s \in Reqs
      PROVE  kv'[l][s] = 0 .. ((len'[s] + 0) \div ratio) - 1
  <2>1. CASE s = r
    <3>1. kv'[l][s] = {} /\ len'[s] = 0
      BY <1>1, <2>1 DEF CacheInv
    <3>2. 0 \div ratio = 0
      BY DEF CacheInv
    <3> QED BY <3>1, <3>2
  <2>2. CASE s # r
    <3>1. kv'[l][s] = kv[l][s] /\ len'[s] = len[s]
      BY <1>1, <2>2 DEF CacheInv
    <3> QED BY <1>3, <3>1 DEF CacheInv
  <2> QED BY <2>1, <2>2
<1> QED BY <1>1, <1>2, <1>3, <1>4, <1>5 DEF CacheInv, NoBatch
\* What the insertion adds for a request follows what is there.
LEMMA Added ==
  ASSUME CacheInv, NEW r \in Reqs
  PROVE  NewEntries(r) = (len[r] \div ratio) .. ((len[r] + Given(r)) \div ratio) - 1
<1>1. len[r] \in Nat /\ ratio \in Nat \ {0} /\ BatchType
  BY DEF CacheInv
<1> DEFINE S(b) == {(p + 1) \div ratio - 1 :
                      p \in {x \in len[r] .. len[r] + QLen(b) - 1 : (x + 1) % ratio = 0}}
<1>2. NewEntries(r) = UNION {S(b) : b \in Places(r)}
  BY DEF NewEntries, Places, Indices
<1>3. CASE Places(r) = {}
  <2>1. Given(r) = 0 /\ NewEntries(r) = {}
    BY <1>2, <1>3 DEF Given
  <2>2. len[r] \div ratio \in Nat /\ len[r] + 0 = len[r]
    BY <1>1, Quotient
  <2> QED BY <2>1, <2>2
<1>4. ASSUME NEW b \in Places(r)
      PROVE  NewEntries(r) = (len[r] \div ratio) .. ((len[r] + Given(r)) \div ratio) - 1
  <2>1. Places(r) = {b} /\ Given(r) = QLen(b) /\ QLen(b) \in Nat
    BY <1>1, OnePlace DEF Places, BatchType
  <2>2. S(b) = (len[r] \div ratio) .. ((len[r] + QLen(b)) \div ratio) - 1
    BY <1>1, <2>1, Completed
  <2> HIDE DEF S
  <2>3. NewEntries(r) = S(b)
    BY <1>2, <2>1
  <2> QED BY <2>1, <2>2, <2>3
<1> QED BY <1>3, <1>4

LEMMA InsertStep ==
  ASSUME CacheInv, Insert
  PROVE  CacheInv'
<1>1. /\ pc = "insert" /\ pc' = "prefill"
      /\ UNCHANGED <<ratio, len, batch, layer>>
      /\ kv' = [kv EXCEPT ![layer] = [r \in Reqs |-> kv[layer][r] \cup NewEntries(r)]]
  BY DEF Insert, deploy
<1>2. BatchType' /\ \A r \in Reqs : Given(r)' = Given(r)
  <2>1. N' = N /\ Indices' = Indices
    BY <1>1 DEF N, Indices
  <2>2. \A b : Req(b)' = Req(b) /\ QLen(b)' = QLen(b)
    BY <1>1 DEF Req, QLen
  <2>3. BatchType'
    BY <2>1, <2>2 DEF BatchType, CacheInv
  <2>4. ASSUME NEW r \in Reqs PROVE Given(r)' = Given(r)
    <3>1. Places(r)' = Places(r)
      BY <2>1, <2>2 DEF Places
    <3> QED BY <2>2, <3>1 DEF Given
  <2> QED BY <2>3, <2>4
<1>3. /\ layer \in Layers /\ layer \in Nat
      /\ kv \in [Layers -> [Reqs -> SUBSET Int]] /\ len \in [Reqs -> Nat]
      /\ ratio \in Nat \ {0} /\ BatchType
  BY LayerOne DEF CacheInv
<1>4. ASSUME NEW r \in Reqs
      PROVE  kv'[layer][r] = 0 .. ((len[r] + Given(r)) \div ratio) - 1
  <2> DEFINE d == len[r] \div ratio
  <2> DEFINE e == (len[r] + Given(r)) \div ratio
  <2>1. kv'[layer][r] = kv[layer][r] \cup NewEntries(r)
    BY <1>1, <1>3
  <2>2. kv[layer][r] = 0 .. d - 1
    <3>1. ~Entered(layer) /\ len[r] + 0 = len[r]
      BY <1>1, <1>3 DEF Entered
    <3> QED BY <1>3, <3>1 DEF CacheInv
  <2>3. NewEntries(r) = d .. e - 1
    BY Added
  <2>4. d \in Nat /\ e \in Nat /\ d <= e
    <3>1. len[r] \in Nat /\ len[r] + Given(r) \in Nat /\ len[r] <= len[r] + Given(r)
      BY <1>3, GivenType
    <3>2. d \in Nat /\ e \in Nat
      BY <1>3, <3>1, Quotient
    <3>3. d * ratio <= len[r] /\ d * ratio \in Nat
      BY <1>3, <3>1, <3>2, Quotient
    <3>4. d * ratio <= len[r] + Given(r)
      BY <3>1, <3>3
    <3> HIDE DEF d
    <3>5. d <= (len[r] + Given(r)) \div ratio
      BY <1>3, <3>1, <3>2, <3>4, Quotient
    <3> QED BY <3>2, <3>5
  <2> HIDE DEF d, e
  <2>5. kv'[layer][r] = 0 .. e - 1
    BY <2>1, <2>2, <2>3, <2>4
  <2> QED BY <2>5 DEF e
<1>5. ASSUME NEW l \in Layers, NEW r \in Reqs
      PROVE  kv'[l][r] = 0 .. ((len[r] + IF Entered(l)' THEN Given(r) ELSE 0) \div ratio) - 1
  <2>1. CASE l = layer
    BY <1>1, <1>4, <2>1 DEF Entered
  <2>2. CASE l # layer
    <3>1. Entered(l)' = Entered(l) /\ kv'[l] = kv[l]
      BY <1>1, <1>3, <2>2 DEF Entered
    <3> QED BY <3>1 DEF CacheInv
  <2> QED BY <2>1, <2>2
<1>6. kv' \in [Layers -> [Reqs -> SUBSET Int]]
  <2>1. ASSUME NEW r \in Reqs PROVE kv[layer][r] \cup NewEntries(r) \in SUBSET Int
    <3>1. kv[layer][r] \subseteq Int
      BY <1>3
    <3>2. NewEntries(r) \subseteq Int
      <4>1. \A a, b : a .. b \subseteq Int
        OBVIOUS
      <4> QED BY <4>1, Added, Zenon
    <3> QED BY <3>1, <3>2
  <2> QED BY <1>1, <1>3, <2>1
<1>7. ASSUME NEW l \in Layers, NEW r \in Reqs
      PROVE  (kv[l][r] = 0 .. ((len[r] + IF Entered(l) THEN Given(r) ELSE 0) \div ratio) - 1)'
  BY <1>1, <1>2, <1>5
<1>8. /\ ratio' \in Nat \ {0} /\ layer' \in Layers /\ len' \in [Reqs -> Nat]
      /\ pc' = "prefill"
  BY <1>1, <1>3
<1> QED BY <1>2, <1>6, <1>7, <1>8 DEF CacheInv

LEMMA SampleStep ==
  ASSUME CacheInv, Sample
  PROVE  CacheInv'
<1>1. /\ pc = "sample" /\ pc' = "schedule" /\ batch' = NoBatch
      /\ UNCHANGED <<ratio, layer>> /\ layer = 1
      /\ kv' = [l \in Layers |-> [r \in Reqs |-> {i \in kv[l][r] : (i + 1) * ratio <= len'[r]}]]
  BY DEF Sample, CacheInv, deploy
<1>2. PICK keep :
        /\ \A b \in Indices : keep[b] \in (IF Req(b) = NoReq THEN {0} ELSE Kept(b))
        /\ len' = [r \in Reqs |-> IF Places(r) = {} THEN len[r]
                                  ELSE len[r] + keep[CHOOSE b \in Places(r) : TRUE]]
  BY DEF Sample, Places, Indices
<1>3. /\ kv \in [Layers -> [Reqs -> SUBSET Int]] /\ len \in [Reqs -> Nat]
      /\ ratio \in Nat \ {0} /\ BatchType
  BY DEF CacheInv
<1>4. ASSUME NEW r \in Reqs
      PROVE  len'[r] \in Nat /\ len'[r] <= len[r] + Given(r)
  <2>1. CASE Places(r) = {}
    <3>1. len'[r] = len[r] /\ Given(r) = 0
      BY <1>2, <2>1 DEF Given
    <3> QED BY <1>3, <3>1
  <2>2. ASSUME NEW b \in Places(r)
        PROVE  len'[r] \in Nat /\ len'[r] <= len[r] + Given(r)
    <3>1. b \in Indices /\ Req(b) = r /\ Places(r) = {b} /\ Given(r) = QLen(b)
      BY <1>3, OnePlace DEF Places
    <3>2. len'[r] = len[r] + keep[b]
      BY <1>2, <3>1
    <3>3. keep[b] \in 0 .. QLen(b) /\ QLen(b) \in Nat
      <4>1. QLen(b) \in Nat
        BY <1>3, <3>1 DEF BatchType
      <4>2. keep[b] \in Kept(b)
        BY <1>2, <3>1, IndexerConstants
      <4> QED BY <4>1, <4>2 DEF Kept
    <3> QED BY <1>3, <3>1, <3>2, <3>3
  <2> QED BY <2>1, <2>2
<1>5. BatchType' /\ \A r : Given(r)' = 0
  <2>1. N' = 0 /\ Indices' = {}
    BY <1>1 DEF N, Indices, NoBatch
  <2> QED BY <2>1 DEF BatchType, Given, Places
<1>6. ASSUME NEW l \in Layers, NEW r \in Reqs
      PROVE  kv'[l][r] = 0 .. (len'[r] \div ratio) - 1
  <2> DEFINE m == len[r] + Given(r)
  <2>1. m \in Nat /\ len'[r] \in Nat /\ len'[r] <= m
    BY <1>3, <1>4, GivenType
  <2>2. kv[l][r] = 0 .. (m \div ratio) - 1
    BY <1>1 DEF CacheInv, Entered
  <2>3. kv'[l][r] = {i \in kv[l][r] : (i + 1) * ratio <= len'[r]}
    BY <1>1
  <2>4. m \div ratio \in Nat /\ len'[r] \div ratio \in Nat
    BY <1>3, <2>1, Quotient
  <2> HIDE DEF m
  <2>5. ASSUME NEW i \in Int
        PROVE  i \in kv'[l][r] <=> i \in 0 .. (len'[r] \div ratio) - 1
    <3>1. CASE i < 0
      BY <2>2, <2>3, <2>4, <3>1
    <3>2. CASE i >= 0
      <4>1. i + 1 \in Nat /\ (i + 1) * ratio \in Nat
        BY <1>3, <3>2
      <4>2. (i + 1) * ratio <= len'[r] <=> i + 1 <= len'[r] \div ratio
        BY <1>3, <2>1, <4>1, Quotient
      <4>3. (i + 1) * ratio <= m <=> i + 1 <= m \div ratio
        BY <1>3, <2>1, <4>1, Quotient
      <4>4. (i + 1) * ratio <= len'[r] => (i + 1) * ratio <= m
        BY <2>1, <4>1
      <4>5. i \in 0 .. (m \div ratio) - 1 <=> i + 1 <= m \div ratio
        BY <2>4, <3>2
      <4>6. i \in 0 .. (len'[r] \div ratio) - 1 <=> i + 1 <= len'[r] \div ratio
        BY <2>4, <3>2
      <4> QED BY <2>2, <2>3, <4>2, <4>3, <4>4, <4>5, <4>6
    <3> QED BY <3>1, <3>2
  <2> DEFINE A == kv'[l][r]
  <2> DEFINE B == 0 .. (len'[r] \div ratio) - 1
  <2>6. A \subseteq Int /\ B \subseteq Int
    BY <2>2, <2>3
  <2>7. \A i \in Int : i \in A <=> i \in B
    BY <2>5
  <2> HIDE DEF A, B
  <2>8. A = B
    BY <2>6, <2>7
  <2> QED BY <2>8 DEF A, B
<1>7. ASSUME NEW l \in Layers, NEW r \in Reqs
      PROVE  kv'[l][r] = 0 .. ((len'[r] + IF Entered(l)' THEN Given(r)' ELSE 0) \div ratio) - 1
  <2>1. len'[r] + 0 = len'[r]
    BY <1>4
  <2> QED BY <1>5, <1>6, <2>1
<1>8. len' \in [Reqs -> Nat] /\ kv' \in [Layers -> [Reqs -> SUBSET Int]]
  <2>1. len' \in [Reqs -> Nat]
    BY <1>2, <1>4
  <2>2. ASSUME NEW l \in Layers, NEW r \in Reqs
        PROVE  {i \in kv[l][r] : (i + 1) * ratio <= len'[r]} \in SUBSET Int
    BY <1>3
  <2> QED BY <1>1, <2>1, <2>2
<1> QED BY <1>1, <1>3, <1>5, <1>7, <1>8, LayerOne DEF CacheInv
-----------------------------------------------------------------------------
LEMMA NextCacheInv == CacheInv /\ [Next]_vars => CacheInv'
<1> SUFFICES ASSUME CacheInv, [Next]_vars PROVE CacheInv'
  OBVIOUS
<1>1. layer \in Layers /\ layer \in Nat /\ \A l \in Layers : l \in Nat /\ 1 <= l /\ l <= NumLayers
  BY IndexerConstants DEF CacheInv, Layers
<1>2. CASE Build
  <2>1. /\ pc = "build" /\ pc' = "insert"
        /\ UNCHANGED <<ratio, len, kv, batch, layer>>
    BY <1>2 DEF Build, deploy
  <2>2. \A l \in Layers : Entered(l)' = Entered(l)
    BY <2>1 DEF Entered
  <2> QED BY <1>1, <2>1, <2>2, Untouched
<1>3. CASE ScoreChunk \/ EndPrefill \/ ScoreDecode \/ Unpack
  <2>1. /\ {pc, pc'} \subseteq {"prefill", "decode", "unpack", "attend"}
        /\ UNCHANGED <<ratio, len, kv, batch, layer>>
    BY <1>3 DEF ScoreChunk, EndPrefill, ScoreDecode, Unpack, deploy
  <2>2. \A l \in Layers : Entered(l)' = Entered(l)
    BY <2>1 DEF Entered
  <2> QED BY <1>1, <2>1, <2>2, Untouched
<1>4. CASE Attend
  <2>1. /\ pc = "attend"
        /\ UNCHANGED <<ratio, len, kv, batch>>
        /\ \/ layer + 1 \in Layers /\ layer' = layer + 1 /\ pc' = "insert"
           \/ layer + 1 \notin Layers /\ layer' = 1 /\ pc' = "sample"
    BY <1>4 DEF Attend, deploy
  <2>2. ASSUME NEW l \in Layers PROVE Entered(l)' = Entered(l)
    <3>1. l \in Nat /\ 1 <= l /\ l <= NumLayers /\ NumLayers \in Nat
      BY <1>1, IndexerConstants
    <3>2. CASE layer + 1 \in Layers
      <4>1. layer' = layer + 1 /\ pc' = "insert"
        BY <2>1, <3>2
      <4> QED BY <1>1, <2>1, <3>1, <4>1 DEF Entered
    <3>3. CASE layer + 1 \notin Layers
      <4>1. layer = NumLayers
        BY <1>1, <3>1, <3>3 DEF Layers
      <4> QED BY <1>1, <2>1, <3>1, <3>3, <4>1 DEF Entered
    <3> QED BY <3>2, <3>3
  <2> QED BY <2>1, <2>2, LayerOne, Untouched
<1>5. CASE UNCHANGED vars
  <2>1. UNCHANGED <<ratio, len, kv, batch, layer, pc>>
    BY <1>5 DEF vars
  <2>2. \A l \in Layers : Entered(l)' = Entered(l)
    BY <2>1 DEF Entered
  <2> QED BY <1>1, <2>1, <2>2, Untouched DEF CacheInv
<1> QED BY <1>2, <1>3, <1>4, <1>5, ScheduleStep, InsertStep, SampleStep, ReplaceStep DEF Next

-----------------------------------------------------------------------------
(* Requests and batches *)

BuilderOk ==
  /\ nextN \in Nat \ {0} /\ ratio \in Nat \ {0} /\ elems \in Nat
  /\ flatten \in BOOLEAN /\ (flatten => nextN >= 3)

RequestsOk ==
  /\ prompt \in [Reqs -> Prompts]
  /\ len \in [Reqs -> 0 .. MaxLen] /\ slack \in [Reqs -> 0 .. MaxLen]

Real(b) == Req(b) # NoReq
Padded  == \E b \in Indices : ~Real(b)

\* Requests first, each with rows and room for them; padding, if any, behind
\* requests that have nextN rows each.
BatchOk ==
  /\ N \in Nat \ {0} /\ Real(0)
  /\ Sums(Qsl, [b \in Indices |-> QLen(b)], N)
  /\ \A b \in Indices : QLen(b) \in Nat
  /\ \A b \in Indices : Real(b) =>
       /\ Req(b) \in Reqs /\ QLen(b) \in 1 .. MaxLen
       /\ len[Req(b)] + QLen(b) <= MaxLen
       /\ Padded => QLen(b) = nextN
  /\ \A b \in Indices : ~Real(b) =>
       QLen(b) = 0 /\ \A c \in Indices : b <= c => ~Real(c)
  /\ batch.tokens = IF Padded THEN N * nextN ELSE Qsl[N]

StepInv == BuilderOk /\ RequestsOk /\ (pc # "schedule" => BatchOk)

LEMMA InitStepInv == Init => StepInv
<1> SUFFICES ASSUME Init PROVE StepInv
  OBVIOUS
<1>1. PICK d \in Deployments : /\ nextN = d.nextN /\ ratio = d.ratio
                               /\ flatten = (~d.family100 /\ d.nextN \notin {1, 2})
  BY DEF Init
<1>2. d.nextN \in Nat \ {0} /\ d.ratio \in Nat \ {0} /\ d.family100 \in BOOLEAN
  BY IndexerConstants
<1>3. elems \in Nat
  BY IndexerConstants DEF Init
<1>4. flatten \in BOOLEAN
  BY <1>1
<1>5. ASSUME flatten PROVE nextN >= 3
  <2>1. ~d.family100 /\ d.nextN \notin {1, 2}
    BY <1>1, <1>5, Zenon
  <2>2. d.nextN # 1 /\ d.nextN # 2
    BY <2>1
  <2> QED BY <1>1, <1>2, <2>2
<1>6. BuilderOk
  BY <1>1, <1>2, <1>3, <1>4, <1>5 DEF BuilderOk
<1>7. RequestsOk
  BY IndexerConstants DEF Init, RequestsOk
<1>8. pc = "schedule"
  BY DEF Init
<1> QED BY <1>6, <1>7, <1>8 DEF StepInv

LEMMA ScheduleBatch ==
  ASSUME BuilderOk, RequestsOk, Schedule
  PROVE  BatchOk'
<1>1. PICK req \in Orders :
        \E q \in {f \in [1 .. Len(req) -> 1 .. MaxLen] :
                    \A i \in 1 .. Len(req) : f[i] \in Piece(req[i])} :
        \E pad \in 0 .. (IF \A i \in DOMAIN q : q[i] = nextN THEN MaxPad ELSE 0) :
          LET k   == Len(req) + pad
              qs  == [i \in 1 .. k |-> IF i <= Len(req) THEN q[i] ELSE 0]
              qsl == Cumulative([b \in 0 .. k-1 |-> qs[b + 1]], k)
          IN  batch' = [req |-> [i \in 1 .. k |-> IF i <= Len(req) THEN req[i] ELSE NoReq],
                        q |-> qs, qsl |-> qsl,
                        tokens |-> IF pad > 0 THEN k * nextN ELSE qsl[k]]
  BY Zenon DEF Schedule
<1> DEFINE Q == {f \in [1 .. Len(req) -> 1 .. MaxLen] :
                    \A i \in 1 .. Len(req) : f[i] \in Piece(req[i])}
<1> DEFINE Pads(q) == 0 .. (IF \A i \in DOMAIN q : q[i] = nextN THEN MaxPad ELSE 0)
<1>2. PICK q \in Q : \E pad \in Pads(q) :
          LET k   == Len(req) + pad
              qs  == [i \in 1 .. k |-> IF i <= Len(req) THEN q[i] ELSE 0]
              qsl == Cumulative([b \in 0 .. k-1 |-> qs[b + 1]], k)
          IN  batch' = [req |-> [i \in 1 .. k |-> IF i <= Len(req) THEN req[i] ELSE NoReq],
                        q |-> qs, qsl |-> qsl,
                        tokens |-> IF pad > 0 THEN k * nextN ELSE qsl[k]]
  BY <1>1, Zenon
<1>3. PICK pad \in Pads(q) :
          LET k   == Len(req) + pad
              qs  == [i \in 1 .. k |-> IF i <= Len(req) THEN q[i] ELSE 0]
              qsl == Cumulative([b \in 0 .. k-1 |-> qs[b + 1]], k)
          IN  batch' = [req |-> [i \in 1 .. k |-> IF i <= Len(req) THEN req[i] ELSE NoReq],
                        q |-> qs, qsl |-> qsl,
                        tokens |-> IF pad > 0 THEN k * nextN ELSE qsl[k]]
  BY <1>2, Zenon
<1> DEFINE k == Len(req) + pad
<1> DEFINE qs == [i \in 1 .. k |-> IF i <= Len(req) THEN q[i] ELSE 0]
<1> DEFINE f == [b \in 0 .. k-1 |-> qs[b + 1]]
<1>4. /\ q \in [1 .. Len(req) -> 1 .. MaxLen]
      /\ \A i \in 1 .. Len(req) : q[i] \in Piece(req[i])
      /\ pad \in Nat /\ (pad > 0 => \A i \in 1 .. Len(req) : q[i] = nextN)
  <2>1. q \in [1 .. Len(req) -> 1 .. MaxLen] /\ \A i \in 1 .. Len(req) : q[i] \in Piece(req[i])
    OBVIOUS
  <2> HIDE DEF Q
  <2>2. CASE \A i \in DOMAIN q : q[i] = nextN
    <3>1. pad \in 0 .. MaxPad
      BY <2>2
    <3> QED BY <2>1, <2>2, <3>1, IndexerConstants
  <2>3. CASE ~(\A i \in DOMAIN q : q[i] = nextN)
    <3>1. pad \in 0 .. 0
      BY <2>3
    <3> QED BY <2>1, <3>1
  <2> QED BY <2>2, <2>3
<1>5. Len(req) \in Nat \ {0} /\ req \in [1 .. Len(req) -> Reqs]
  <2>1. PICK n \in 1 .. Cardinality(Reqs) : req \in [1 .. n -> Reqs]
    BY DEF Orders
  <2>2. n \in Nat \ {0}
    OBVIOUS
  <2>3. Len(req) = n
    BY <2>1, <2>2
  <2> QED BY <2>1, <2>2, <2>3
<1>6. /\ batch'.req = [i \in 1 .. k |-> IF i <= Len(req) THEN req[i] ELSE NoReq]
      /\ batch'.q = qs /\ batch'.qsl = Cumulative(f, k)
      /\ batch'.tokens = IF pad > 0 THEN k * nextN ELSE Cumulative(f, k)[k]
  <2> DEFINE r == [i \in 1 .. k |-> IF i <= Len(req) THEN req[i] ELSE NoReq]
  <2> DEFINE qsl == Cumulative(f, k)
  <2> DEFINE tokens == IF pad > 0 THEN k * nextN ELSE qsl[k]
  <2>1. batch' = [req |-> r, q |-> qs, qsl |-> qsl, tokens |-> tokens]
    BY <1>3, Zenon
  <2> HIDE DEF r, qs, qsl, tokens
  <2>2. batch'.req = r /\ batch'.q = qs /\ batch'.qsl = qsl /\ batch'.tokens = tokens
    BY <2>1
  <2> QED BY <2>2, Zenon DEF r, qs, qsl, tokens
<1>7. k \in Nat \ {0} /\ k \in Nat /\ Len(req) <= k
  BY <1>4, <1>5
<1> HIDE DEF Q, Pads
<1>8. N' = k
  <2> HIDE DEF k
  <2>1. Len(batch'.req) = k
    BY <1>6, <1>7
  <2> QED BY <2>1 DEF N
<1>9. ASSUME NEW b \in 0 .. k - 1
      PROVE  /\ b \in Int /\ b + 1 \in 1 .. k
             /\ Req(b)' = IF b + 1 <= Len(req) THEN req[b + 1] ELSE NoReq
             /\ QLen(b)' = IF b + 1 <= Len(req) THEN q[b + 1] ELSE 0
             /\ f[b] = QLen(b)'
  <2>1. b \in Int /\ b + 1 \in 1 .. k
    BY <1>7
  <2> HIDE DEF k
  <2>2. Req(b)' = IF b + 1 <= Len(req) THEN req[b + 1] ELSE NoReq
    BY <1>6, <2>1 DEF Req
  <2>3. QLen(b)' = IF b + 1 <= Len(req) THEN q[b + 1] ELSE 0
    BY <1>6, <2>1 DEF QLen
  <2>4. f[b] = QLen(b)'
    BY <1>6, <2>1 DEF QLen
  <2> QED BY <2>1, <2>2, <2>3, <2>4
<1>10. Sums(Cumulative(f, k), f, k)
  <2> HIDE DEF k, f
  <2> QED BY <1>7, CumulativeIs
<1> HIDE DEF k, qs, f
<1>11. Indices' = 0 .. k - 1 /\ Qsl' = Cumulative(f, k)
  BY <1>6, <1>8 DEF Indices, Qsl
<1>12. ASSUME NEW b \in 0 .. k - 1
       PROVE  /\ b + 1 <= Len(req) => /\ b + 1 \in 1 .. Len(req) /\ Real(b)'
                                      /\ Req(b)' = req[b + 1] /\ QLen(b)' = q[b + 1]
              /\ ~(b + 1 <= Len(req)) => ~Real(b)' /\ QLen(b)' = 0
  <2>1. ASSUME b + 1 <= Len(req)
        PROVE  /\ b + 1 \in 1 .. Len(req) /\ Real(b)'
               /\ Req(b)' = req[b + 1] /\ QLen(b)' = q[b + 1]
    <3>1. b + 1 \in 1 .. Len(req)
      BY <1>5, <1>9, <2>1
    <3>2. req[b + 1] \in Reqs /\ req[b + 1] # NoReq
      BY <1>5, <3>1, IndexerConstants
    <3> QED BY <1>9, <2>1, <3>1, <3>2 DEF Real
  <2>2. ASSUME ~(b + 1 <= Len(req)) PROVE ~Real(b)' /\ QLen(b)' = 0
    BY <1>9, <2>2 DEF Real
  <2> QED BY <2>1, <2>2
<1>13. Padded' <=> pad > 0
  <2>1. ASSUME pad > 0 PROVE Padded'
    <3>1. k - 1 \in 0 .. k - 1 /\ ~((k - 1) + 1 <= Len(req))
      BY <1>4, <1>5, <2>1 DEF k
    <3> QED BY <1>11, <1>12, <3>1 DEF Padded
  <2>2. ASSUME ~(pad > 0), NEW b \in 0 .. k - 1 PROVE Real(b)'
    <3>1. b + 1 <= Len(req)
      BY <1>4, <1>5, <1>7, <2>2 DEF k
    <3> QED BY <1>12, <3>1
  <2> QED BY <1>11, <2>1, <2>2 DEF Padded
<1>14. len' = len /\ nextN' = nextN
  BY DEF Schedule, deploy
<1>15. ASSUME NEW b \in 0 .. k - 1, Real(b)'
       PROVE  /\ Req(b)' \in Reqs /\ QLen(b)' \in 1 .. MaxLen
              /\ len[Req(b)'] + QLen(b)' <= MaxLen
              /\ Padded' => QLen(b)' = nextN
  <2>1. /\ b + 1 \in 1 .. Len(req) /\ Req(b)' = req[b + 1] /\ QLen(b)' = q[b + 1]
    BY <1>12, <1>15
  <2>2. req[b + 1] \in Reqs /\ q[b + 1] \in 1 .. MaxLen /\ q[b + 1] \in Piece(req[b + 1])
    BY <1>4, <1>5, <2>1
  <2> DEFINE r == req[b + 1]
  <2>3. len[r] + q[b + 1] <= MaxLen
    <3> HIDE DEF r
    <3>1. r \in Reqs /\ q[b + 1] \in Piece(r)
      BY <2>2 DEF r
    <3>2. len[r] \in Nat /\ prompt[r] \in 1 .. MaxLen /\ MaxLen \in Nat
      <4>1. len[r] \in 0 .. MaxLen /\ prompt[r] \in Prompts
        BY <3>1 DEF RequestsOk
      <4>2. Prompts \subseteq 1 .. MaxLen /\ MaxLen \in Nat
        BY IndexerConstants
      <4>3. len[r] \in Nat
        BY <4>1
      <4>4. prompt[r] \in 1 .. MaxLen
        BY <4>1, <4>2, Zenon
      <4> QED BY <4>2, <4>3, <4>4
    <3> QED BY <2>2, <3>1, <3>2 DEF Piece
  <2>4. Padded' => q[b + 1] = nextN
    BY <1>4, <1>13, <2>1
  <2> QED BY <2>1, <2>2, <2>3, <2>4
<1>16. ASSUME NEW b \in 0 .. k - 1 PROVE QLen(b)' \in Nat
  <2>1. CASE b + 1 <= Len(req)
    BY <1>12, <1>15, <2>1
  <2>2. CASE ~(b + 1 <= Len(req))
    BY <1>12, <2>2
  <2> QED BY <2>1, <2>2
<1>17. ASSUME NEW b \in 0 .. k - 1, ~Real(b)'
       PROVE  QLen(b)' = 0 /\ \A c \in 0 .. k - 1 : b <= c => ~Real(c)'
  <2>1. ~(b + 1 <= Len(req))
    BY <1>12, <1>17
  <2>2. ASSUME NEW c \in 0 .. k - 1, b <= c PROVE ~Real(c)'
    <3>1. ~(c + 1 <= Len(req))
      BY <1>5, <2>1, <2>2
    <3> QED BY <1>12, <3>1
  <2> QED BY <1>12, <2>1, <2>2
<1>18. Real(0)'
  <2>1. 0 \in 0 .. k - 1 /\ 0 + 1 <= Len(req)
    BY <1>5, <1>7
  <2> QED BY <1>12, <2>1
<1>19. Sums(Qsl, [b \in Indices |-> QLen(b)], N)'
  <2> DEFINE g == [b \in 0 .. k - 1 |-> QLen(b)']
  <2>1. \A b \in 0 .. k - 1 : g[b] = f[b]
    BY <1>9
  <2> HIDE DEF g
  <2>2. Sums(Cumulative(f, k), g, k)
    BY <1>10, <2>1 DEF Sums
  <2> QED BY <1>8, <1>11, <2>2, Zenon DEF g
<1>20. batch'.tokens = IF Padded' THEN N' * nextN ELSE Qsl'[N']
  BY <1>6, <1>8, <1>11, <1>13
<1> QED BY <1>7, <1>8, <1>11, <1>14, <1>15, <1>16, <1>17, <1>18, <1>19, <1>20 DEF BatchOk

deployed == <<nextN, flatten, ratio, elems, prompt, len, slack, batch>>

LEMMA StepUnchanged ==
  ASSUME StepInv, UNCHANGED deployed, pc # "schedule" \/ pc' = pc
  PROVE  StepInv'
<1>1. UNCHANGED <<nextN, flatten, ratio, elems, prompt, len, slack, batch>>
  BY DEF deployed
<1>2. BatchOk' <=> BatchOk
  BY <1>1, Zenon DEF BatchOk, Indices, N, Real, Padded, Req, QLen, Qsl
<1>3. BuilderOk' /\ RequestsOk'
  BY <1>1 DEF BuilderOk, RequestsOk, StepInv
<1> QED BY <1>2, <1>3 DEF StepInv

LEMMA ReplaceStepInv ==
  ASSUME StepInv, NEW r \in Reqs, Replace(r)
  PROVE  StepInv'
<1>1. /\ pc = "schedule" /\ pc' = pc /\ UNCHANGED <<nextN, flatten, ratio, elems>>
      /\ \E p \in Prompts : prompt' = [prompt EXCEPT ![r] = p]
      /\ len' = [len EXCEPT ![r] = 0] /\ slack' = [slack EXCEPT ![r] = 0]
  BY DEF Replace, deploy
<1>2. BuilderOk'
  BY <1>1 DEF BuilderOk, StepInv
<1>3. 0 \in 0 .. MaxLen
  BY IndexerConstants
<1>4. RequestsOk'
  BY <1>1, <1>3 DEF RequestsOk, StepInv
<1> QED BY <1>1, <1>2, <1>4 DEF StepInv

LEMMA SampleStepInv ==
  ASSUME StepInv, CacheInv, Sample
  PROVE  StepInv'
<1>1. /\ pc = "sample" /\ pc' = "schedule" /\ UNCHANGED <<nextN, flatten, ratio, elems, prompt>>
  BY DEF Sample, deploy
<1>2. PICK keep :
        /\ \A b \in Indices : keep[b] \in (IF Req(b) = NoReq THEN {0} ELSE Kept(b))
        /\ len' = [r \in Reqs |-> IF Places(r) = {} THEN len[r]
                                  ELSE len[r] + keep[CHOOSE b \in Places(r) : TRUE]]
        /\ slack' = [r \in Reqs |-> IF Places(r) = {} THEN slack[r]
                                    ELSE QLen(CHOOSE b \in Places(r) : TRUE)
                                           - keep[CHOOSE b \in Places(r) : TRUE]]
  BY DEF Sample, Places, Indices
<1>3. BatchOk /\ RequestsOk /\ BatchType /\ MaxLen \in Nat
  BY <1>1, IndexerConstants DEF StepInv, CacheInv
<1>4. ASSUME NEW r \in Reqs
      PROVE  len'[r] \in 0 .. MaxLen /\ slack'[r] \in 0 .. MaxLen
  <2>1. CASE Places(r) = {}
    BY <1>2, <1>3, <2>1 DEF RequestsOk
  <2>2. ASSUME NEW b \in Places(r)
        PROVE  len'[r] \in 0 .. MaxLen /\ slack'[r] \in 0 .. MaxLen
    <3>1. b \in Indices /\ Req(b) = r /\ Places(r) = {b}
      BY <1>3, OnePlace DEF Places
    <3>2. len'[r] = len[r] + keep[b] /\ slack'[r] = QLen(b) - keep[b]
      BY <1>2, <3>1
    <3>3. Real(b)
      BY <3>1, IndexerConstants DEF Real
    <3>4. QLen(b) \in 1 .. MaxLen /\ len[r] + QLen(b) <= MaxLen
      BY <1>3, <3>1, <3>3 DEF BatchOk
    <3>5. keep[b] \in 0 .. QLen(b)
      <4>1. keep[b] \in Kept(b)
        BY <1>2, <3>1, <3>3 DEF Real
      <4> QED BY <3>4, <4>1 DEF Kept
    <3>6. len[r] \in 0 .. MaxLen
      BY <1>3 DEF RequestsOk
    <3> QED BY <1>3, <3>2, <3>4, <3>5, <3>6
  <2> QED BY <2>1, <2>2
<1>5. RequestsOk'
  <2>1. len' \in [Reqs -> 0 .. MaxLen]
    BY <1>2, <1>4
  <2>2. slack' \in [Reqs -> 0 .. MaxLen]
    BY <1>2, <1>4
  <2> QED BY <1>1, <1>3, <2>1, <2>2 DEF RequestsOk
<1>6. BuilderOk'
  BY <1>1 DEF BuilderOk, StepInv
<1> QED BY <1>1, <1>5, <1>6 DEF StepInv

LEMMA NextStepInv == StepInv /\ CacheInv /\ [Next]_vars => StepInv'
<1> SUFFICES ASSUME StepInv, CacheInv, [Next]_vars PROVE StepInv'
  OBVIOUS
<1>1. CASE Schedule
  <2>1. UNCHANGED <<nextN, flatten, ratio, elems, prompt, len, slack>>
    BY <1>1 DEF Schedule, deploy
  <2>2. BuilderOk' /\ RequestsOk'
    BY <2>1 DEF BuilderOk, RequestsOk, StepInv
  <2>3. BatchOk'
    BY <1>1, ScheduleBatch DEF StepInv
  <2> QED BY <2>2, <2>3 DEF StepInv
<1>2. CASE Build \/ Insert \/ ScoreChunk \/ EndPrefill \/ ScoreDecode \/ Unpack \/ Attend
  <2>1. UNCHANGED deployed /\ pc # "schedule"
    BY <1>2 DEF Build, Insert, ScoreChunk, EndPrefill, ScoreDecode, Unpack, Attend,
                deployed, deploy
  <2> QED BY <2>1, StepUnchanged
<1>3. CASE UNCHANGED vars
  <2>1. UNCHANGED deployed /\ pc' = pc
    BY <1>3 DEF vars, deployed
  <2> QED BY <2>1, StepUnchanged
<1> QED BY <1>1, <1>2, <1>3, SampleStepInv, ReplaceStepInv DEF Next

-----------------------------------------------------------------------------
(* Rows, requests and entries of a batch *)

LEMMA QslIs ==
  ASSUME BatchOk
  PROVE  /\ \A i \in 0 .. N : Qsl[i] \in Nat
         /\ \A i, j \in 0 .. N : i <= j => Qsl[i] <= Qsl[j]
         /\ \A b \in Indices : Qsl[b + 1] = Qsl[b] + QLen(b)
         /\ Qsl[0] = 0 /\ N \in Nat /\ N >= 1
<1> DEFINE f == [b \in Indices |-> QLen(b)]
<1>1. Sums(Qsl, f, N) /\ N \in Nat /\ N >= 1
  BY DEF BatchOk
<1>2. \A b \in 0 .. N - 1 : f[b] \in Nat /\ f[b] = QLen(b)
  BY DEF BatchOk, Indices
<1> HIDE DEF f
<1>3. /\ \A i \in 0 .. N : Qsl[i] \in Nat
      /\ \A i, j \in 0 .. N : i <= j => Qsl[i] <= Qsl[j]
  BY <1>1, <1>2, SumsType
<1>4. Qsl[0] = 0 /\ \A b \in 0 .. N - 1 : Qsl[b + 1] = Qsl[b] + f[b]
  BY <1>1 DEF Sums
<1> QED BY <1>1, <1>2, <1>3, <1>4 DEF Indices

LEMMA RowReqIs ==
  ASSUME BatchOk, NEW b \in Indices, NEW t \in Int, Qsl[b] <= t, t < Qsl[b + 1]
  PROVE  RowReq(t) = b
<1> DEFINE f == [c \in Indices |-> QLen(c)]
<1>1. Sums(Qsl, f, N) /\ N \in Nat
  BY DEF BatchOk
<1>2. \A c \in 0 .. N - 1 : f[c] \in Nat
  BY DEF BatchOk, Indices
<1> HIDE DEF f
<1>3. ASSUME NEW c \in 0 .. N - 1, Qsl[c] <= t, t < Qsl[c + 1] PROVE c = b
  BY <1>1, <1>2, <1>3, OneInterval DEF Indices
<1>4. RowReq(t) \in 0 .. N - 1 /\ Qsl[RowReq(t)] <= t /\ t < Qsl[RowReq(t) + 1]
  BY DEF RowReq, Indices
<1> QED BY <1>3, <1>4

\* Every row below the total is a row of a request.
LEMMA RowOf ==
  ASSUME BatchOk, NEW t \in Nat, t < Qsl[N]
  PROVE  \E b \in Indices : Qsl[b] <= t /\ t < Qsl[b + 1] /\ RowReq(t) = b
<1> DEFINE f == [c \in Indices |-> QLen(c)]
<1>1. Sums(Qsl, f, N) /\ N \in Nat
  BY DEF BatchOk
<1>2. \A c \in 0 .. N - 1 : f[c] \in Nat
  BY DEF BatchOk, Indices
<1> HIDE DEF f
<1>3. PICK b \in 0 .. N - 1 : Qsl[b] <= t /\ t < Qsl[b + 1]
  BY <1>1, <1>2, Located
<1> QED BY <1>3, RowReqIs DEF Indices

LEMMA RealIs ==
  ASSUME BatchOk, RequestsOk, NEW b \in Indices, Real(b)
  PROVE  /\ Req(b) \in Reqs /\ QLen(b) \in Nat /\ QLen(b) >= 1
         /\ len[Req(b)] \in Nat /\ slack[Req(b)] \in Nat
         /\ SeqLen(b) = len[Req(b)] + QLen(b) /\ SeqLen(b) \in Nat /\ SeqLen(b) <= MaxLen
         /\ SeqLenUpper(b) = SeqLen(b) + slack[Req(b)] /\ SeqLenUpper(b) \in Nat
<1>1. Req(b) \in Reqs /\ QLen(b) \in 1 .. MaxLen /\ len[Req(b)] + QLen(b) <= MaxLen
  BY DEF BatchOk
<1>2. len[Req(b)] \in Nat /\ slack[Req(b)] \in Nat
  BY <1>1 DEF RequestsOk
<1>3. SeqLen(b) = len[Req(b)] + QLen(b) /\ SeqLenUpper(b) = SeqLen(b) + slack[Req(b)]
  BY DEF Real, SeqLen, SeqLenUpper
<1> QED BY <1>1, <1>2, <1>3

\* The rows of a batch belong to requests, not to padding.
LEMMA RowsReal ==
  ASSUME BatchOk, NEW b \in Indices, NEW t \in Int, Qsl[b] <= t, t < Qsl[b + 1]
  PROVE  Real(b)
<1>1. Qsl[b + 1] = Qsl[b] + QLen(b) /\ Qsl[b] \in Nat
  BY QslIs DEF Indices
<1>2. QLen(b) # 0
  BY <1>1
<1> QED BY <1>2 DEF BatchOk

Window(r, n) == {<<layer, r, i, TRUE>> : i \in 0 .. n - 1}

LEMMA WantedIs ==
  ASSUME BatchOk, NEW b \in Indices, NEW t \in Int, Qsl[b] <= t, t < Qsl[b + 1]
  PROVE  Wanted(t) = Row(t, t, Window(Req(b), (len[Req(b)] + (t - Qsl[b]) + 1) \div ratio))
<1>1. RowReq(t) = b
  BY RowReqIs
<1>2. b + 1 \in 0 .. N /\ N \in 0 .. N /\ b + 1 <= N
  BY QslIs DEF Indices
<1>3. Qsl[b + 1] <= Qsl[N] /\ Qsl[b + 1] \in Nat /\ Qsl[N] \in Nat
  BY <1>2, QslIs
<1>4. ~(t >= Qsl[N])
  BY <1>3
<1> QED BY <1>1, <1>4 DEF Wanted, Window

\* The entries of a request up to a row of its own are there.
LEMMA EntriesThere ==
  ASSUME CacheInv, BatchOk, RequestsOk, Entered(layer), NEW b \in Indices, Real(b),
         NEW m \in Nat, m <= len[Req(b)] + QLen(b), NEW i \in 0 .. (m \div ratio) - 1
  PROVE  Entry(layer, Req(b), i) = <<layer, Req(b), i, TRUE>>
<1> DEFINE r == Req(b)
<1> DEFINE full == len[r] + QLen(b)
<1>1. r \in Reqs /\ layer \in Layers /\ BatchType /\ ratio \in Nat \ {0} /\ full \in Nat
  BY RealIs DEF CacheInv
<1>2. Given(r) = QLen(b)
  BY <1>1, OnePlace
<1>3. kv[layer][r] = 0 .. (full \div ratio) - 1
  BY <1>1, <1>2 DEF CacheInv
<1>4. m \div ratio \in Nat /\ full \div ratio \in Nat /\ m \div ratio <= full \div ratio
  <2>1. m \div ratio \in Nat /\ full \div ratio \in Nat
    BY <1>1, Quotient
  <2>2. (m \div ratio) * ratio <= m /\ (m \div ratio) * ratio \in Nat
    BY <1>1, <2>1, Quotient
  <2> HIDE DEF full
  <2>3. (m \div ratio) * ratio <= full
    BY <1>1, <2>2 DEF full
  <2> QED BY <1>1, <2>1, <2>3, Quotient
<1>5. i \in kv[layer][r]
  <2> HIDE DEF full, r
  <2> QED BY <1>3, <1>4
<1> QED BY <1>1, <1>5, IndexerConstants DEF Entry
-----------------------------------------------------------------------------
(* How many leading requests are decodes *)

LEMMA NumDecodesIs ==
  ASSUME BuilderOk, BatchOk
  PROVE  /\ NumDecodes \in 0 .. N
         /\ \A b \in Indices : b < NumDecodes =>
              QLen(b) <= nextN /\ (~flatten => QLen(b) \in {QLen(0), 0})
         /\ NumDecodes < N => ~Padded
<1> DEFINE nd == NumDecodes
<1> DEFINE even == \/ /\ \A b \in Indices : QLen(b) <= nextN
                      /\ ~RequireUniform \/ nextN = 1
                   \/ /\ RequireUniform /\ QLen(0) <= nextN
                      /\ \A b \in Indices : QLen(b) \in {QLen(0), 0}
<1> DEFINE odd == IF RequireUniform THEN {b \in Indices : QLen(b) # QLen(0)}
                  ELSE {b \in Indices : QLen(b) > nextN}
<1>1. nd = IF even THEN N ELSE IF QLen(0) > nextN THEN 0
           ELSE IF odd = {} THEN N ELSE Smallest(odd)
  BY DEF NumDecodes, Indices
<1>2. /\ N \in Nat /\ N >= 1 /\ 0 \in Indices /\ nextN \in Nat
      /\ \A b \in Indices : QLen(b) \in Nat
      /\ RequireUniform <=> ~flatten
  BY DEF BatchOk, BuilderOk, Indices, RequireUniform
<1>3. QLen(0) \in Nat /\ QLen(0) >= 1 /\ nextN >= 1
  BY <1>2 DEF BatchOk, BuilderOk
<1> HIDE DEF nd
<1>4. CASE even
  <2>1. nd = N
    BY <1>1, <1>4
  <2>2. ASSUME NEW b \in Indices
        PROVE  QLen(b) <= nextN /\ (~flatten => QLen(b) \in {QLen(0), 0})
    <3>1. CASE \A c \in Indices : QLen(c) <= nextN /\ (flatten \/ nextN = 1)
      <4>1. QLen(b) <= nextN /\ QLen(b) \in Nat /\ QLen(0) <= nextN
        BY <1>2, <3>1
      <4>2. ASSUME nextN = 1 PROVE QLen(b) \in {QLen(0), 0}
        BY <1>3, <4>1, <4>2
      <4> QED BY <1>2, <3>1, <4>1, <4>2
    <3>2. CASE ~flatten /\ QLen(0) <= nextN /\ \A c \in Indices : QLen(c) \in {QLen(0), 0}
      <4>1. QLen(b) \in {QLen(0), 0}
        BY <3>2
      <4> QED BY <1>2, <1>3, <3>2, <4>1
    <3> QED BY <1>2, <1>4, <3>1, <3>2
  <2> QED BY <1>2, <2>1, <2>2 DEF nd
<1>5. CASE ~even
  <2>1. ~Padded
    <3> SUFFICES ASSUME Padded PROVE FALSE
      OBVIOUS
    <3>1. ASSUME NEW b \in Indices PROVE QLen(b) \in {nextN, 0}
      BY <3>1 DEF BatchOk
    <3>2. QLen(0) = nextN
      BY <1>2, <1>3, <3>1
    <3>3. \A b \in Indices : QLen(b) <= nextN /\ QLen(b) \in {QLen(0), 0}
      BY <1>2, <3>1, <3>2
    <3> QED BY <1>2, <1>5, <3>2, <3>3
  <2>2. CASE QLen(0) > nextN
    <3>1. nd = 0
      BY <1>1, <1>5, <2>2
    <3>2. \A b \in Indices : ~(b < 0)
      BY <1>2 DEF Indices
    <3> QED BY <1>2, <2>1, <3>1, <3>2 DEF nd
  <2>3. CASE ~(QLen(0) > nextN)
    <3>1. nd \in 0 .. N /\ \A b \in Indices : b < nd => b \notin odd
      <4>1. CASE odd = {}
        <5>1. nd = N
          BY <1>1, <1>5, <2>3, <4>1
        <5> QED BY <1>2, <4>1, <5>1
      <4>2. CASE odd # {}
        <5> HIDE DEF odd, even
        <5>1. nd = Smallest(odd)
          BY <1>1, <1>5, <2>3, <4>2
        <5>2. odd \subseteq Indices /\ odd \in SUBSET Nat
          BY <1>2 DEF odd, Indices
        <5>3. nd \in odd /\ \A b \in odd : nd <= b
          BY <4>2, <5>1, <5>2, SmallestOf
        <5>4. nd \in 0 .. N
          BY <1>2, <5>2, <5>3 DEF Indices
        <5>5. ASSUME NEW b \in Indices, b < nd PROVE b \notin odd
          BY <5>3, <5>4, <5>5 DEF Indices
        <5> QED BY <5>4, <5>5
      <4> QED BY <4>1, <4>2
    <3>2. ASSUME NEW b \in Indices, b < nd
          PROVE  QLen(b) <= nextN /\ (~flatten => QLen(b) \in {QLen(0), 0})
      <4>1. b \notin odd
        BY <3>1, <3>2
      <4>2. CASE flatten
        BY <1>2, <4>1, <4>2
      <4>3. CASE ~flatten
        <5>1. QLen(b) = QLen(0)
          BY <1>2, <4>1, <4>3
        <5> QED BY <1>2, <1>3, <2>3, <5>1
      <4> QED BY <4>2, <4>3
    <3> QED BY <2>1, <3>1, <3>2 DEF nd
  <2> QED BY <2>2, <2>3
<1> QED BY <1>4, <1>5

-----------------------------------------------------------------------------
(* The chunks of a batch *)

LEMMA DivMonotone ==
  ASSUME NEW a \in Nat, NEW b \in Nat, NEW d \in Nat \ {0}, a <= b
  PROVE  a \div d \in Nat /\ b \div d \in Nat /\ a \div d <= b \div d
<1> DEFINE q == a \div d
<1>1. q \in Nat /\ b \div d \in Nat
  BY Quotient
<1>2. q * d <= a /\ q * d \in Nat
  BY <1>1, Quotient
<1> HIDE DEF q
<1>3. q * d <= b
  BY <1>2
<1>4. q <= b \div d
  BY <1>1, <1>3, Quotient
<1> QED BY <1>1, <1>4 DEF q

LEMMA CompressedIs ==
  ASSUME BuilderOk, RequestsOk, BatchOk, NEW b \in Indices, Real(b)
  PROVE  /\ Compressed(b) \in Nat /\ CompressedUpper(b) \in Nat
         /\ Compressed(b) <= CompressedUpper(b) /\ Compressed(b) <= MaxLen
<1>1. /\ SeqLen(b) \in Nat /\ SeqLenUpper(b) \in Nat
      /\ SeqLen(b) <= SeqLenUpper(b) /\ SeqLen(b) <= MaxLen
      /\ ratio \in Nat \ {0}
  BY RealIs DEF BuilderOk
<1>2. Compressed(b) \in Nat /\ CompressedUpper(b) \in Nat /\ Compressed(b) <= CompressedUpper(b)
  BY <1>1, DivMonotone DEF Compressed, CompressedUpper
<1>3. Compressed(b) * ratio <= SeqLen(b)
  BY <1>1, <1>2, Quotient DEF Compressed
<1>4. Compressed(b) * 1 <= Compressed(b) * ratio
  <2>1. 1 * Compressed(b) <= ratio * Compressed(b)
    BY <1>1, <1>2, TimesMonotone
  <2> QED BY <1>1, <1>2, <2>1
<1>5. Compressed(b) * ratio \in Nat
  BY <1>1, <1>2
<1> QED BY <1>1, <1>2, <1>3, <1>4, <1>5, IndexerConstants

LEMMA PrefillInput ==
  ASSUME BuilderOk, RequestsOk, BatchOk, ~Padded, NEW nd \in 0 .. N
  PROVE  /\ PlanInput(PrefillRows(nd), PrefillEntries(nd), N - nd)
         /\ Sums(PrefillEntries(nd), [i \in 0 .. N - nd - 1 |-> CompressedUpper(nd + i)], N - nd)
         /\ \A i \in 0 .. N - nd : PrefillRows(nd)[i] = Qsl[nd + i]
<1> DEFINE n == N - nd
<1> DEFINE f == [i \in 0 .. n - 1 |-> CompressedUpper(nd + i)]
<1>1. n \in Nat /\ N \in Nat /\ nd \in Nat /\ n = N - nd
  BY DEF BatchOk
<1>2. Sums(PrefillEntries(nd), f, n)
  <2>1. PrefillEntries(nd) = Cumulative(f, n)
    BY DEF PrefillEntries
  <2> HIDE DEF f, n
  <2> QED BY <1>1, <2>1, CumulativeIs
<1> HIDE DEF n
<1>3. ASSUME NEW i \in 0 .. n - 1 PROVE f[i] \in Nat
  <2>1. nd + i \in Indices /\ Real(nd + i)
    BY <1>1 DEF Indices, Padded
  <2> QED BY <2>1, CompressedIs
<1> HIDE DEF f
<1>4. /\ \A i \in 0 .. n : PrefillEntries(nd)[i] \in Nat
      /\ \A i, j \in 0 .. n : i <= j => PrefillEntries(nd)[i] <= PrefillEntries(nd)[j]
  BY <1>1, <1>2, <1>3, SumsType
<1>5. ASSUME NEW i \in 0 .. n PROVE PrefillRows(nd)[i] = Qsl[nd + i] /\ Qsl[nd + i] \in Nat
  <2>1. nd + i \in 0 .. N
    BY <1>1
  <2>2. PrefillRows(nd)[i] = Qsl[nd + i]
    BY <1>1 DEF PrefillRows
  <2> QED BY <2>1, <2>2, QslIs
<1>6. ASSUME NEW i \in 0 .. n, NEW j \in 0 .. n, i < j
      PROVE  PrefillRows(nd)[i] < PrefillRows(nd)[j]
  <2> DEFINE b == nd + i
  <2>1. b \in Indices /\ b + 1 \in 0 .. N /\ nd + j \in 0 .. N /\ b + 1 <= nd + j
    BY <1>1, <1>6 DEF Indices
  <2>2. QLen(b) \in Nat /\ QLen(b) >= 1
    BY <2>1, RealIs DEF Padded
  <2>3. Qsl[b + 1] = Qsl[b] + QLen(b) /\ Qsl[b + 1] <= Qsl[nd + j]
    BY <2>1, QslIs
  <2>4. Qsl[b] \in Nat /\ Qsl[nd + j] \in Nat
    BY <1>5
  <2> HIDE DEF b
  <2>5. Qsl[b] < Qsl[nd + j]
    BY <2>2, <2>3, <2>4
  <2> QED BY <1>5, <2>5 DEF b
<1> QED BY <1>1, <1>2, <1>4, <1>5, <1>6 DEF PlanInput, n, f

\* A chunk of requests of the batch, whose gathered entries fit the workspace.
ChunkOk(c, nd) ==
  /\ c.start \in nd .. N - 1 /\ c.stop \in c.start + 1 .. N
  /\ Sums(c.cu, [b \in 0 .. c.stop - c.start - 1 |-> Compressed(c.start + b)],
          c.stop - c.start)
  /\ c.cu[c.stop - c.start] <= Workspace
  /\ c.tokens \subseteq Qsl[c.start] .. Qsl[c.stop] - 1
  /\ \A t \in c.tokens :
       /\ c.ks[t] = c.cu[RowReq(t) - c.start]
       /\ c.ke[t] = WindowEnd(RowReq(t), c.cu[RowReq(t) - c.start], t - Qsl[RowReq(t)])

LEMMA MadeOk ==
  ASSUME BuilderOk, RequestsOk, BatchOk, ~Padded, NEW nd \in 0 .. N, NEW p,
         Planned(p, PrefillRows(nd), PrefillEntries(nd), N - nd, Workspace)
  PROVE  ChunkOk(Made(nd, p), nd)
<1> DEFINE c == Made(nd, p)
<1> DEFINE cnt == p.stop - p.start
<1> DEFINE f == [b \in 0 .. cnt - 1 |-> Compressed(c.start + b)]
<1> DEFINE E == PrefillEntries(nd)
<1> DEFINE g == [i \in 0 .. N - nd - 1 |-> CompressedUpper(nd + i)]
<1> DEFINE h == [b \in 0 .. cnt - 1 |-> CompressedUpper(c.start + b)]
<1>1. c.start = p.start + nd /\ c.stop = p.stop + nd
  BY MadeFields
<1>2. /\ p.start \in 0 .. (N - nd) - 1 /\ p.stop \in p.start + 1 .. N - nd
      /\ p.lo \in Nat /\ p.hi \in Nat
      /\ PrefillRows(nd)[p.start] + p.hi <= PrefillRows(nd)[p.stop]
      /\ p.stop = p.start + 1 \/ E[p.stop] - E[p.start] <= Workspace
      /\ N \in Nat /\ nd \in Nat
  BY DEF Planned, BatchOk
<1>3. /\ c.start \in nd .. N - 1 /\ c.stop \in c.start + 1 .. N
      /\ c.stop - c.start = cnt /\ cnt \in Nat \ {0}
  BY <1>1, <1>2
<1>4. /\ c.cu = Cumulative(f, cnt)
      /\ c.tokens = Qsl[c.start] + p.lo .. (Qsl[c.start] + p.hi) - 1
      /\ \A t \in c.tokens :
           /\ c.ks[t] = c.cu[RowReq(t) - c.start]
           /\ c.ke[t] = WindowEnd(RowReq(t), c.cu[RowReq(t) - c.start], t - Qsl[RowReq(t)])
  <2> DEFINE x == Chunk(p.start + nd, p.stop + nd, p.lo, p.hi)
  <2>1. x.start = c.start /\ x.stop = c.stop /\ x.lo = p.lo /\ x.hi = p.hi
    BY <1>1 DEF Chunk
  <2>2. c = ChunkMeta(x)
    BY DEF Made
  <2> HIDE DEF x, c
  <2>3. /\ c.cu = Cumulative([b \in 0 .. (x.stop - x.start) - 1 |-> Compressed(x.start + b)],
                             x.stop - x.start)
        /\ c.tokens = Qsl[x.start] + x.lo .. (Qsl[x.start] + x.hi) - 1
        /\ \A t \in c.tokens :
             /\ c.ks[t] = c.cu[RowReq(t) - x.start]
             /\ c.ke[t] = WindowEnd(RowReq(t), c.cu[RowReq(t) - x.start], t - Qsl[RowReq(t)])
    BY <2>2 DEF ChunkMeta
  <2>4. x.stop - x.start = cnt
    BY <1>3, <2>1
  <2> QED BY <2>1, <2>3, <2>4, Zenon
<1> HIDE DEF c
<1>5. Sums(c.cu, f, cnt)
  <2> HIDE DEF f, cnt
  <2> QED BY <1>3, <1>4, CumulativeIs
<1>6. c.tokens \subseteq Qsl[c.start] .. Qsl[c.stop] - 1
  <2>1. PrefillRows(nd)[p.start] = Qsl[c.start] /\ PrefillRows(nd)[p.stop] = Qsl[c.stop]
    <3>1. p.start \in 0 .. N - nd /\ p.stop \in 0 .. N - nd /\ nd + p.start = c.start
          /\ nd + p.stop = c.stop
      BY <1>1, <1>2
    <3> QED BY <3>1, PrefillInput
  <2>2. Qsl[c.start] \in Nat /\ Qsl[c.stop] \in Nat
    <3>1. c.start \in 0 .. N /\ c.stop \in 0 .. N
      BY <1>2, <1>3
    <3> QED BY <3>1, QslIs
  <2> QED BY <1>2, <1>4, <2>1, <2>2
<1>7. ASSUME NEW b \in 0 .. cnt - 1
      PROVE  /\ c.start + b \in Indices /\ Real(c.start + b)
             /\ f[b] = Compressed(c.start + b) /\ f[b] \in Nat /\ f[b] <= MaxLen
             /\ h[b] = CompressedUpper(c.start + b) /\ h[b] \in Nat /\ f[b] <= h[b]
  <2>1. c.start + b \in Indices /\ Real(c.start + b)
    BY <1>2, <1>3 DEF Indices, Padded
  <2>2. f[b] = Compressed(c.start + b) /\ h[b] = CompressedUpper(c.start + b)
    OBVIOUS
  <2> HIDE DEF f, h
  <2> QED BY <2>1, <2>2, CompressedIs
<1>8. c.cu[cnt] <= Workspace
  <2>1. CASE p.stop = p.start + 1
    <3>1. cnt = 1
      BY <1>2, <2>1
    <3>2. c.cu[1] = f[0] /\ f[0] \in Nat /\ f[0] <= MaxLen
      <4>1. 0 \in 0 .. cnt - 1 /\ 0 + 1 = 1
        BY <3>1
      <4>2. f[0] \in Nat /\ f[0] <= MaxLen
        BY <1>7, <4>1
      <4> HIDE DEF f, cnt
      <4>3. c.cu[0] = 0 /\ c.cu[0 + 1] = c.cu[0] + f[0]
        BY <1>5, <4>1 DEF Sums
      <4> QED BY <4>1, <4>2, <4>3
    <3> QED BY <3>1, <3>2, IndexerConstants
  <2>2. CASE E[p.stop] - E[p.start] <= Workspace
    <3> DEFINE d == Cumulative(h, cnt)
    <3>1. Sums(d, h, cnt)
      <4> HIDE DEF h, cnt
      <4> QED BY <1>3, CumulativeIs
    <3>2. Sums(E, g, N - nd)
      BY PrefillInput
    <3>3. ASSUME NEW i \in 0 .. N - nd - 1 PROVE g[i] \in Nat
      <4>1. nd + i \in Indices /\ Real(nd + i)
        BY <1>2 DEF Indices, Padded
      <4> QED BY <4>1, CompressedIs
    <3>4. ASSUME NEW i \in 0 .. cnt - 1 PROVE h[i] = g[p.start + i]
      <4>1. p.start + i \in 0 .. N - nd - 1 /\ nd + (p.start + i) = c.start + i
        BY <1>1, <1>2
      <4> QED BY <1>7, <4>1
    <3>5. p.start \in Nat /\ p.start + cnt <= N - nd /\ N - nd \in Nat /\ p.start + cnt = p.stop
      BY <1>2
    <3> HIDE DEF d, h, g, E, f, cnt
    <3>6. \A i \in 0 .. cnt : d[i] = E[p.start + i] - E[p.start]
      BY <1>3, <3>1, <3>2, <3>3, <3>4, <3>5, SumsOfStretch
    <3>7. d[cnt] = E[p.stop] - E[p.start]
      BY <1>3, <3>5, <3>6
    <3>8. c.cu[cnt] <= d[cnt]
      BY <1>3, <1>5, <1>7, <3>1, SumsOfLess
    <3>9. d[cnt] \in Nat /\ c.cu[cnt] \in Nat
      BY <1>3, <1>5, <1>7, <3>1, SumsType
    <3> QED BY <2>2, <3>7, <3>8, <3>9, IndexerConstants
  <2> QED BY <1>2, <2>1, <2>2
<1>9. Sums(c.cu, [b \in 0 .. c.stop - c.start - 1 |-> Compressed(c.start + b)], c.stop - c.start)
  <2>1. c.stop - c.start = cnt
    BY <1>3
  <2> HIDE DEF cnt
  <2> QED BY <1>5, <2>1, Zenon
<1>10. ChunkOk(c, nd)
  <2> HIDE DEF f, cnt, E, g, h
  <2>1. c.cu[c.stop - c.start] <= Workspace
    BY <1>3, <1>8
  <2> QED BY <1>3, <1>4, <1>6, <1>9, <2>1 DEF ChunkOk
<1> QED BY <1>10 DEF c

\* A row whose request has no compressed entry at all gets no candidates.
LEMMA BareRow ==
  ASSUME BuilderOk, RequestsOk, BatchOk, NEW b \in Indices, NEW t \in Int,
         Qsl[b] <= t, t < Qsl[b + 1], CompressedUpper(b) = 0
  PROVE  Wanted(t) = Filler
<1> DEFINE m == len[Req(b)] + (t - Qsl[b]) + 1
<1>1. Real(b)
  BY RowsReal
<1>2. /\ Req(b) \in Reqs /\ len[Req(b)] \in Nat /\ QLen(b) \in Nat
      /\ SeqLen(b) = len[Req(b)] + QLen(b) /\ SeqLen(b) \in Nat
  BY <1>1, RealIs
<1>3. Compressed(b) = 0
  <2>1. Compressed(b) \in Nat /\ Compressed(b) <= CompressedUpper(b)
    BY <1>1, CompressedIs
  <2> QED BY <2>1
<1>4. m \in Nat /\ m <= SeqLen(b)
  <2>1. Qsl[b + 1] = Qsl[b] + QLen(b) /\ Qsl[b] \in Nat
    BY QslIs DEF Indices
  <2> QED BY <1>2, <2>1
<1> HIDE DEF m
<1>5. m \div ratio = 0
  <2>1. m \div ratio \in Nat /\ m \div ratio <= SeqLen(b) \div ratio
    BY <1>2, <1>4, DivMonotone DEF BuilderOk
  <2> QED BY <1>3, <2>1 DEF Compressed
<1>6. Wanted(t) = Row(t, t, Window(Req(b), m \div ratio))
  BY WantedIs DEF m
<1>7. Window(Req(b), 0) = {}
  BY DEF Window
<1> QED BY <1>5, <1>6, <1>7 DEF Row

\* The planned chunk that takes row t holds it, or the row has no candidates.
LEMMA MadeTakes ==
  ASSUME BuilderOk, RequestsOk, BatchOk, ~Padded, NEW nd \in 0 .. N, NEW p,
         Planned(p, PrefillRows(nd), PrefillEntries(nd), N - nd, Workspace),
         NEW t \in Int, Takes(PrefillRows(nd), p, t)
  PROVE  /\ t \in Made(nd, p).tokens
         /\ Made(nd, p).total > 0 \/ Wanted(t) = Filler
<1> DEFINE c == Made(nd, p)
<1> DEFINE cnt == p.stop - p.start
<1> DEFINE h == [b \in 0 .. cnt - 1 |-> CompressedUpper(p.start + nd + b)]
<1> DEFINE d == Cumulative(h, cnt)
<1>1. /\ p.start \in 0 .. (N - nd) - 1 /\ p.stop \in p.start + 1 .. N - nd
      /\ p.lo \in Nat /\ p.hi \in Nat
      /\ PrefillRows(nd)[p.start] + p.hi <= PrefillRows(nd)[p.stop]
      /\ N \in Nat /\ nd \in Nat /\ cnt \in Nat \ {0}
  BY DEF Planned, BatchOk
<1> DEFINE a == p.start + nd
<1> DEFINE z == p.stop + nd
<1>2. /\ c.tokens = Qsl[a] + p.lo .. (Qsl[a] + p.hi) - 1 /\ c.total = d[cnt]
  <2> DEFINE x == Chunk(a, z, p.lo, p.hi)
  <2>1. x.start = a /\ x.stop = z /\ x.lo = p.lo /\ x.hi = p.hi
    BY DEF Chunk
  <2>2. c = ChunkMeta(x)
    BY DEF Made
  <2>3. z - a = cnt
    BY <1>1
  <2> HIDE DEF x, c, a, z
  <2>4. /\ c.total = Cumulative([b \in 0 .. (x.stop - x.start) - 1 |-> CompressedUpper(x.start + b)],
                             x.stop - x.start)[x.stop - x.start]
        /\ c.tokens = Qsl[x.start] + x.lo .. (Qsl[x.start] + x.hi) - 1
    BY <2>2 DEF ChunkMeta
  <2> HIDE DEF cnt
  <2>5. c.total = d[cnt]
    BY <2>1, <2>3, <2>4, Zenon DEF a
  <2> QED BY <2>1, <2>4, <2>5
<1>3. /\ PrefillRows(nd)[p.start] = Qsl[a] /\ PrefillRows(nd)[p.stop] = Qsl[z]
      /\ Qsl[a] \in Nat /\ Qsl[z] \in Nat
      /\ a \in Indices /\ z \in 0 .. N /\ a \in 0 .. N
  <2>1. /\ p.start \in 0 .. N - nd /\ p.stop \in 0 .. N - nd /\ nd + p.start = a
        /\ nd + p.stop = z /\ a \in Indices /\ z \in 0 .. N /\ a \in 0 .. N
    BY <1>1 DEF Indices
  <2> QED BY <2>1, PrefillInput, QslIs
<1> HIDE DEF c, d
<1>4. t \in c.tokens /\ Qsl[a] <= t /\ t < Qsl[z]
  <2> HIDE DEF a, z, cnt, h
  <2>1. Qsl[a] + p.lo <= t /\ t < Qsl[a] + p.hi /\ Qsl[a] + p.hi <= Qsl[z]
    BY <1>1, <1>3 DEF Takes
  <2>2. p.lo \in Nat /\ p.hi \in Nat /\ Qsl[a] \in Nat /\ Qsl[z] \in Nat
    BY <1>1, <1>3
  <2> QED BY <1>2, <2>1, <2>2
<1>5. Sums(d, h, cnt)
  <2> HIDE DEF h, cnt
  <2> QED BY <1>1, CumulativeIs DEF d
<1>6. ASSUME NEW i \in 0 .. cnt - 1
      PROVE  h[i] = CompressedUpper(a + i) /\ h[i] \in Nat /\ a + i \in Indices
  <2>1. a + i \in Indices /\ Real(a + i)
    BY <1>1 DEF Indices, Padded
  <2>2. h[i] = CompressedUpper(a + i)
    OBVIOUS
  <2> HIDE DEF a, h
  <2> QED BY <2>1, <2>2, CompressedIs
<1>7. ASSUME ~(c.total > 0) PROVE Wanted(t) = Filler
  <2>1. t \in Nat /\ t < Qsl[N]
    <3>1. Qsl[z] <= Qsl[N] /\ Qsl[N] \in Nat
      <4>1. z <= N /\ N \in 0 .. N
        BY <1>1, <1>3
      <4> QED BY <1>3, <4>1, QslIs
    <3> QED BY <1>3, <1>4, <3>1
  <2>2. PICK b \in Indices : Qsl[b] <= t /\ t < Qsl[b + 1]
    BY <2>1, RowOf
  <2>3. a <= b /\ b < z
    <3>1. /\ b \in 0 .. N /\ b + 1 \in 0 .. N /\ Qsl[b] \in Nat /\ Qsl[b + 1] \in Nat
      BY <1>1, QslIs DEF Indices
    <3>2. ~(b + 1 <= a)
      <4>1. b + 1 <= a => Qsl[b + 1] <= Qsl[a]
        BY <1>3, <3>1, QslIs
      <4> QED BY <1>3, <1>4, <2>2, <3>1, <4>1
    <3>3. ~(z <= b)
      <4>1. z <= b => Qsl[z] <= Qsl[b]
        BY <1>3, <3>1, QslIs
      <4> QED BY <1>3, <1>4, <2>2, <3>1, <4>1
    <3> QED BY <1>1, <3>1, <3>2, <3>3
  <2> DEFINE i == b - a
  <2>4. i \in 0 .. cnt - 1 /\ a + i = b
    BY <1>1, <2>3 DEF Indices
  <2> HIDE DEF i, a, z, h, cnt
  <2>5. d[i] \in Nat /\ d[i + 1] \in Nat /\ d[i + 1] <= d[cnt] /\ d[cnt] \in Nat
    <3>1. i \in 0 .. cnt /\ i + 1 \in 0 .. cnt /\ i + 1 <= cnt /\ cnt \in 0 .. cnt
      BY <1>1, <2>4
    <3> QED BY <1>1, <1>5, <1>6, <3>1, SumsType
  <2>6. d[i + 1] = d[i] + h[i] /\ h[i] \in Nat
    BY <1>5, <1>6, <2>4 DEF Sums
  <2>7. h[i] = 0
    BY <1>2, <1>7, <2>5, <2>6
  <2>8. CompressedUpper(b) = 0
    BY <1>6, <2>4, <2>7
  <2> QED BY <2>2, <2>8, BareRow
<1> QED BY <1>4, <1>7 DEF c

LEMMA ChunksAre ==
  ASSUME BuilderOk, RequestsOk, BatchOk, ~Padded, NEW nd \in 0 .. N
  PROVE  LET q == Chunks(nd)
         IN  /\ Len(q) \in Nat
             /\ \A k \in 1 .. Len(q) : ChunkOk(q[k], nd) /\ Continues(q, k)
             /\ \A t \in Qsl[nd] .. Qsl[N] - 1 :
                  (\E k \in 1 .. Len(q) : t \in q[k].tokens) \/ Wanted(t) = Filler
<1> DEFINE qsl == PrefillRows(nd)
<1> DEFINE cu == PrefillEntries(nd)
<1> DEFINE n == N - nd
<1> DEFINE plan == Plan(qsl, cu, n, Workspace, elems)
<1> DEFINE l == Len(plan)
<1> DEFINE made == [k \in 1 .. l |-> Made(nd, plan[k])]
<1> DEFINE q == WithEntries(made)
<1>1. PlanInput(qsl, cu, n) /\ \A i \in 0 .. n : qsl[i] = Qsl[nd + i]
  BY PrefillInput
<1>2. n \in Nat /\ nd \in Nat /\ nd + n = N /\ nd + 0 = nd /\ elems \in Nat
  BY DEF BatchOk, BuilderOk
<1>3. Plans(plan, 0, qsl, cu, n, Workspace)
  <2> HIDE DEF qsl, cu, n
  <2> QED BY <1>1, <1>2, PlanPlans
<1>4. Chunks(nd) = q
  BY Zenon DEF Chunks, Made
<1> HIDE DEF plan
<1>5. /\ plan \in Seq(ChunkSet) /\ l \in Nat
      /\ \A k \in 1 .. l : Planned(plan[k], qsl, cu, n, Workspace) /\ Follows(plan, k)
      /\ \A t \in qsl[0] .. qsl[n] - 1 : \E k \in 1 .. l : Takes(qsl, plan[k], t)
  BY <1>3 DEF Plans
<1> HIDE DEF l
<1>6. Len(made) = l /\ \A k \in 1 .. l : made[k] = Made(nd, plan[k])
  BY <1>5
<1> HIDE DEF made
<1>7. ASSUME NEW k \in 1 .. l PROVE Continues(made, k)
  <2> SUFFICES ASSUME made[k].skip
               PROVE  /\ k > 1 /\ made[k - 1].start = made[k].start
                      /\ made[k - 1].stop = made[k].stop
                      /\ made[k - 1].cu = made[k].cu /\ made[k - 1].total = made[k].total
    BY DEF Continues
  <2>1. made[k] = Made(nd, plan[k])
    BY <1>6
  <2>2. plan[k].lo > 0
    BY <2>1, MadeFields
  <2>3. k > 1 /\ plan[k - 1].start = plan[k].start /\ plan[k - 1].stop = plan[k].stop
    BY <1>5, <2>2 DEF Follows
  <2>4. k - 1 \in 1 .. l
    BY <1>5, <2>3
  <2>5. made[k - 1] = Made(nd, plan[k - 1])
    BY <1>6, <2>4
  <2> QED BY <2>1, <2>3, <2>5, MadeFields, MadeSame
<1>8. KeptOk(q, made, l)
  BY <1>5, <1>6, <1>7, WithEntriesAre
<1> DEFINE K == {made[j] : j \in 1 .. l}
<1> HIDE DEF q
<1>9. /\ q \in Seq(K)
      /\ \A i \in 1 .. Len(q) : Continues(q, i)
      /\ \A j \in 1 .. l : made[j].total > 0 => \E i \in 1 .. Len(q) : q[i] = made[j]
  BY <1>8 DEF KeptOk
<1>10. Len(q) \in Nat /\ \A k \in 1 .. Len(q) : q[k] \in K
  <2> HIDE DEF K
  <2> QED BY <1>9
<1>11. ASSUME NEW k \in 1 .. Len(q) PROVE ChunkOk(q[k], nd)
  <2>1. PICK j \in 1 .. l : q[k] = made[j]
    BY <1>10
  <2>2. ChunkOk(Made(nd, plan[j]), nd)
    BY <1>5, MadeOk
  <2> QED BY <1>6, <2>1, <2>2
<1>12. ASSUME NEW t \in Qsl[nd] .. Qsl[N] - 1
       PROVE  (\E k \in 1 .. Len(q) : t \in q[k].tokens) \/ Wanted(t) = Filler
  <2>1. qsl[0] = Qsl[nd] /\ qsl[n] = Qsl[N]
    <3>1. 0 \in 0 .. n /\ n \in 0 .. n
      BY <1>2
    <3> HIDE DEF n, qsl
    <3> QED BY <1>1, <1>2, <3>1
  <2>2. PICK j \in 1 .. l : Takes(qsl, plan[j], t)
    BY <1>5, <2>1
  <2>3. t \in Int
    OBVIOUS
  <2>4. t \in Made(nd, plan[j]).tokens /\ (Made(nd, plan[j]).total > 0 \/ Wanted(t) = Filler)
    BY <1>5, <2>2, <2>3, MadeTakes
  <2> QED BY <1>6, <1>9, <2>4
<1> QED BY <1>4, <1>9, <1>10, <1>11, <1>12

-----------------------------------------------------------------------------
(* Scoring a chunk *)

\* The entry that belongs at place i of the workspace for chunk c.
Own(c, i) ==
  LET b == CHOOSE x \in 0 .. (c.stop - c.start)-1 : c.cu[x] <= i /\ i < c.cu[x + 1]
  IN  Entry(layer, Req(c.start + b), i - c.cu[b])

LEMMA ChunkCu ==
  ASSUME BuilderOk, RequestsOk, BatchOk, ~Padded, NEW nd \in 0 .. N, NEW c, ChunkOk(c, nd)
  PROVE  LET cnt == c.stop - c.start
             f == [b \in 0 .. c.stop - c.start - 1 |-> Compressed(c.start + b)]
         IN  /\ cnt \in Nat \ {0} /\ c.start \in Nat /\ nd \in Nat /\ nd <= c.start
             /\ c.stop \in Nat /\ c.stop <= N
             /\ Sums(c.cu, f, cnt)
             /\ \A b \in 0 .. cnt - 1 :
                  /\ c.start + b \in Indices /\ Real(c.start + b)
                  /\ f[b] = Compressed(c.start + b) /\ f[b] \in Nat
             /\ \A b \in 0 .. cnt : c.cu[b] \in Nat
             /\ \A a, b \in 0 .. cnt : a <= b => c.cu[a] <= c.cu[b]
             /\ c.cu[cnt] <= Workspace
<1> DEFINE cnt == c.stop - c.start
<1> DEFINE f == [b \in 0 .. c.stop - c.start - 1 |-> Compressed(c.start + b)]
<1>1. /\ c.start \in nd .. N - 1 /\ c.stop \in c.start + 1 .. N
      /\ Sums(c.cu, f, cnt) /\ c.cu[cnt] <= Workspace
  BY DEF ChunkOk
<1>2. N \in Nat /\ nd \in Nat
  BY DEF BatchOk
<1>3. cnt \in Nat \ {0} /\ c.start \in Nat /\ nd <= c.start /\ c.stop \in Nat /\ c.stop <= N
  BY <1>1, <1>2
<1>4. ASSUME NEW b \in 0 .. cnt - 1
      PROVE  /\ c.start + b \in Indices /\ Real(c.start + b)
             /\ f[b] = Compressed(c.start + b) /\ f[b] \in Nat
  <2>1. c.start + b \in Indices /\ Real(c.start + b)
    BY <1>1, <1>2 DEF Indices, Padded
  <2>2. f[b] = Compressed(c.start + b)
    OBVIOUS
  <2> HIDE DEF f
  <2> QED BY <2>1, <2>2, CompressedIs
<1> HIDE DEF f, cnt
<1>5. /\ \A b \in 0 .. cnt : c.cu[b] \in Nat
      /\ \A a, b \in 0 .. cnt : a <= b => c.cu[a] <= c.cu[b]
  BY <1>1, <1>3, <1>4, SumsType
<1> QED BY <1>1, <1>2, <1>3, <1>4, <1>5 DEF f, cnt

LEMMA ScoredRow ==
  ASSUME CacheInv, BuilderOk, RequestsOk, BatchOk, Entered(layer), ~Padded,
         NEW nd \in 0 .. N, NEW c, ChunkOk(c, nd), NEW t \in c.tokens, NEW w,
         \A i \in 0 .. c.cu[c.stop - c.start] - 1 : w[i] = Own(c, i)
  PROVE  /\ t \in Qsl[nd] .. Qsl[N] - 1
         /\ Row(t, t, {w[i] : i \in c.ks[t] .. c.ke[t]-1}) = Wanted(t)
<1> DEFINE cnt == c.stop - c.start
<1> DEFINE f == [b \in 0 .. c.stop - c.start - 1 |-> Compressed(c.start + b)]
<1>1. /\ cnt \in Nat \ {0} /\ c.start \in Nat /\ nd \in Nat /\ nd <= c.start
      /\ c.stop \in Nat /\ c.stop <= N
      /\ Sums(c.cu, f, cnt)
      /\ \A b \in 0 .. cnt - 1 :
           /\ c.start + b \in Indices /\ Real(c.start + b)
           /\ f[b] = Compressed(c.start + b) /\ f[b] \in Nat
      /\ \A b \in 0 .. cnt : c.cu[b] \in Nat
      /\ \A a, b \in 0 .. cnt : a <= b => c.cu[a] <= c.cu[b]
      /\ c.cu[cnt] <= Workspace
  BY ChunkCu
<1> HIDE DEF f
<1>2. /\ t \in Qsl[c.start] .. Qsl[c.stop] - 1
      /\ c.ks[t] = c.cu[RowReq(t) - c.start]
      /\ c.ke[t] = WindowEnd(RowReq(t), c.cu[RowReq(t) - c.start], t - Qsl[RowReq(t)])
  BY DEF ChunkOk
<1>3. /\ Qsl[c.start] \in Nat /\ Qsl[c.stop] \in Nat /\ Qsl[nd] \in Nat /\ Qsl[N] \in Nat
      /\ Qsl[nd] <= Qsl[c.start] /\ Qsl[c.stop] <= Qsl[N]
  <2>1. c.start \in 0 .. N /\ c.stop \in 0 .. N /\ N \in 0 .. N /\ N \in Nat
    BY <1>1, QslIs
  <2> QED BY <1>1, <2>1, QslIs
<1>4. t \in Nat /\ t \in Int /\ t < Qsl[N] /\ t \in Qsl[nd] .. Qsl[N] - 1
  BY <1>2, <1>3
<1>5. PICK b \in Indices : Qsl[b] <= t /\ t < Qsl[b + 1] /\ RowReq(t) = b
  BY <1>4, RowOf
<1>6. b \in Nat /\ c.start <= b /\ b < c.stop
  <2>1. /\ b \in 0 .. N /\ b + 1 \in 0 .. N /\ Qsl[b] \in Nat /\ Qsl[b + 1] \in Nat
        /\ c.start \in 0 .. N /\ c.stop \in 0 .. N /\ b \in Nat
    BY <1>1, QslIs DEF Indices
  <2>2. ~(b + 1 <= c.start)
    <3>1. b + 1 <= c.start => Qsl[b + 1] <= Qsl[c.start]
      BY <2>1, QslIs
    <3> QED BY <1>2, <1>3, <1>4, <1>5, <2>1, <3>1
  <2>3. ~(c.stop <= b)
    <3>1. c.stop <= b => Qsl[c.stop] <= Qsl[b]
      BY <2>1, QslIs
    <3> QED BY <1>2, <1>3, <1>4, <1>5, <2>1, <3>1
  <2> QED BY <1>1, <2>1, <2>2, <2>3
<1> DEFINE x == b - c.start
<1> DEFINE m == len[Req(b)] + (t - Qsl[b]) + 1
<1>7. x \in 0 .. cnt - 1 /\ c.start + x = b /\ x \in 0 .. cnt /\ x + 1 \in 0 .. cnt
  BY <1>1, <1>6
<1> HIDE DEF cnt, x
<1>8. /\ Real(b) /\ Req(b) \in Reqs /\ len[Req(b)] \in Nat /\ QLen(b) \in Nat
      /\ SeqLen(b) = len[Req(b)] + QLen(b) /\ Compressed(b) \in Nat
  <2>1. Real(b)
    BY <1>1, <1>7
  <2> QED BY <2>1, RealIs, CompressedIs
<1>9. m \in Nat /\ m <= SeqLen(b) /\ m <= len[Req(b)] + QLen(b)
  <2>1. Qsl[b + 1] = Qsl[b] + QLen(b) /\ Qsl[b] \in Nat
    BY <1>1, QslIs DEF Indices
  <2> QED BY <1>4, <1>5, <1>8, <2>1
<1> DEFINE n == m \div ratio
<1>10. n \in Nat /\ n <= Compressed(b)
  <2> HIDE DEF m
  <2>1. SeqLen(b) \in Nat
    BY <1>8
  <2> QED BY <1>9, <2>1, DivMonotone DEF Compressed, BuilderOk
<1>11. c.cu[x + 1] = c.cu[x] + Compressed(b) /\ c.cu[x] \in Nat /\ c.cu[x + 1] <= c.cu[cnt]
       /\ c.cu[x + 1] \in Nat /\ c.cu[cnt] \in Nat
  <2>1. f[x] = Compressed(b)
    BY <1>1, <1>7
  <2>2. c.cu[x + 1] = c.cu[x] + f[x]
    BY <1>1, <1>7 DEF Sums
  <2>3. x + 1 <= cnt /\ cnt \in 0 .. cnt
    BY <1>1, <1>7
  <2> QED BY <1>1, <1>7, <2>1, <2>2, <2>3
<1>12. c.ks[t] = c.cu[x] /\ c.ke[t] = c.cu[x] + n
  <2>1. RowReq(t) - c.start = x
    BY <1>5 DEF x
  <2>2. (SeqLen(b) - QLen(b)) + 1 + (t - Qsl[b]) = m
    <3>1. Qsl[b] \in Nat
      <4>1. b \in 0 .. N
        BY QslIs DEF Indices
      <4> QED BY <4>1, QslIs
    <3> QED BY <1>4, <1>8, <3>1
  <2>3. WindowEnd(b, c.cu[x], t - Qsl[b]) = c.cu[x] + n
    BY <2>2 DEF WindowEnd
  <2> QED BY <1>2, <1>5, <2>1, <2>3
<1> HIDE DEF m, n
<1>13. ASSUME NEW i \in c.cu[x] .. c.cu[x] + n - 1
       PROVE  w[i] = <<layer, Req(b), i - c.cu[x], TRUE>>
  <2>1. i \in Int /\ c.cu[x] <= i /\ i < c.cu[x + 1] /\ i \in 0 .. c.cu[cnt] - 1
    BY <1>8, <1>10, <1>11
  <2>2. w[i] = Own(c, i)
    BY <2>1 DEF cnt
  <2>3. ASSUME NEW y \in 0 .. cnt - 1, c.cu[y] <= i, i < c.cu[y + 1] PROVE y = x
    BY <1>1, <1>7, <2>1, <2>3, OneInterval
  <2>4. (CHOOSE y \in 0 .. cnt - 1 : c.cu[y] <= i /\ i < c.cu[y + 1]) = x
    BY <1>7, <2>1, <2>3
  <2>5. Own(c, i) = Entry(layer, Req(c.start + x), i - c.cu[x])
    BY <2>4 DEF Own, cnt
  <2>6. i - c.cu[x] \in 0 .. n - 1
    BY <1>10, <1>11
  <2>7. Entry(layer, Req(b), i - c.cu[x]) = <<layer, Req(b), i - c.cu[x], TRUE>>
    BY <1>8, <1>9, <2>6, EntriesThere DEF n
  <2> QED BY <1>7, <2>2, <2>5, <2>7
<1>14. {w[i] : i \in c.cu[x] .. c.cu[x] + n - 1} = Window(Req(b), n)
  <2>1. ASSUME NEW i \in c.cu[x] .. c.cu[x] + n - 1 PROVE w[i] \in Window(Req(b), n)
    <3>1. i - c.cu[x] \in 0 .. n - 1
      BY <1>10, <1>11
    <3> QED BY <1>13, <3>1 DEF Window
  <2>2. ASSUME NEW e \in Window(Req(b), n)
        PROVE  \E i \in c.cu[x] .. c.cu[x] + n - 1 : e = w[i]
    <3>1. PICK j \in 0 .. n - 1 : e = <<layer, Req(b), j, TRUE>>
      BY DEF Window
    <3>2. c.cu[x] + j \in c.cu[x] .. c.cu[x] + n - 1 /\ (c.cu[x] + j) - c.cu[x] = j
      BY <1>10, <1>11
    <3>3. w[c.cu[x] + j] = <<layer, Req(b), j, TRUE>>
      BY <1>13, <3>2
    <3> QED BY <3>1, <3>2, <3>3
  <2> QED BY <2>1, <2>2
<1>15. Wanted(t) = Row(t, t, Window(Req(b), n))
  BY <1>4, <1>5, WantedIs DEF m, n
<1>16. {w[i] : i \in c.ks[t] .. c.ke[t]-1} = Window(Req(b), n)
  <2>1. c.ke[t] - 1 = c.cu[x] + n - 1
    BY <1>10, <1>11, <1>12
  <2> QED BY <1>12, <1>14, <2>1, Zenon
<1> QED BY <1>4, <1>15, <1>16
-----------------------------------------------------------------------------
(* What build() returned *)

LEMMA BuiltIs ==
  ASSUME BatchOk, BuilderOk
  PROVE  /\ Built.nd = NumDecodes
         /\ Built.ndt = IF NumDecodes = N THEN batch.tokens ELSE Qsl[NumDecodes]
         /\ Built.chunks = IF NumDecodes < N THEN Chunks(NumDecodes) ELSE << >>
         /\ NumDecodes > 0 => Built.dec = DecodeMeta(NumDecodes, Built.ndt)
<1> DEFINE nd == NumDecodes
<1> DEFINE ndt == IF nd = N THEN batch.tokens ELSE Qsl[nd]
<1>1. nd \in 0 .. N /\ N \in Nat /\ N >= 1 /\ Qsl[0] = 0
  BY NumDecodesIs, QslIs
<1> HIDE DEF nd
<1>2. CASE nd > 0
  <2>1. Built = [nd |-> nd, ndt |-> ndt, dec |-> DecodeMeta(nd, ndt),
                 chunks |-> IF nd < N THEN Chunks(nd) ELSE << >>]
    BY <1>2, Zenon DEF Built, nd
  <2> HIDE DEF ndt
  <2>2. /\ Built.nd = nd /\ Built.ndt = ndt /\ Built.dec = DecodeMeta(nd, ndt)
        /\ Built.chunks = IF nd < N THEN Chunks(nd) ELSE << >>
    BY <2>1
  <2> QED BY <2>2 DEF nd, ndt
<1>3. CASE ~(nd > 0)
  <2>1. nd = 0 /\ nd < N /\ ndt = 0
    BY <1>1, <1>3
  <2>2. Built = [nd |-> 0, ndt |-> 0, chunks |-> Chunks(0)]
    BY <1>3, Zenon DEF Built, nd
  <2>3. Built.nd = 0 /\ Built.ndt = 0 /\ Built.chunks = Chunks(0)
    BY <2>2
  <2> HIDE DEF ndt
  <2>4. Built.ndt = ndt
    BY <2>1, <2>3
  <2> QED BY <1>3, <2>1, <2>3, <2>4 DEF nd, ndt
<1> QED BY <1>2, <1>3

LEMMA BuiltChunks ==
  ASSUME BuilderOk, RequestsOk, BatchOk
  PROVE  LET q == Built.chunks
         IN  /\ Len(q) \in Nat
             /\ Len(q) > 0 => ~Padded
             /\ \A k \in 1 .. Len(q) :
                  ChunkOk(q[k], NumDecodes) /\ Continues(q, k)
             /\ \A t \in Qsl[NumDecodes] .. Qsl[N] - 1 :
                  (\E k \in 1 .. Len(q) : t \in q[k].tokens) \/ Wanted(t) = Filler
<1> DEFINE q == Built.chunks
<1>1. NumDecodes \in 0 .. N /\ N \in Nat /\ (NumDecodes < N => ~Padded)
  BY NumDecodesIs, QslIs
<1>2. CASE NumDecodes < N
  <2>1. q = Chunks(NumDecodes) /\ ~Padded
    BY <1>1, <1>2, BuiltIs
  <2> QED BY <1>1, <2>1, ChunksAre
<1>3. CASE ~(NumDecodes < N)
  <2>1. NumDecodes = N
    BY <1>1, <1>3
  <2>2. q = << >>
    BY <1>3, BuiltIs
  <2>3. Len(q) = 0 /\ 1 .. Len(q) = {}
    BY <2>2
  <2>4. Qsl[N] .. Qsl[N] - 1 = {}
    <3>1. N \in 0 .. N
      BY <1>1
    <3>2. Qsl[N] \in Nat
      BY <3>1, QslIs
    <3> QED BY <3>2
  <2> HIDE DEF q
  <2>5. /\ Len(q) \in Nat
        /\ Len(q) > 0 => ~Padded
        /\ \A k \in 1 .. Len(q) :
             ChunkOk(q[k], NumDecodes) /\ Continues(q, k)
        /\ \A t \in Qsl[NumDecodes] .. Qsl[N] - 1 :
             (\E k \in 1 .. Len(q) : t \in q[k].tokens) \/ Wanted(t) = Filler
    BY <2>1, <2>3, <2>4
  <2> QED BY <2>5 DEF q
<1> QED BY <1>2, <1>3

\* The metadata depends on nothing that changes while it is in use.
LEMMA BuiltSame ==
  ASSUME UNCHANGED <<batch, len, slack, ratio, nextN, flatten, elems>>
  PROVE  Built' = Built
<1>1. NumDecodes' = NumDecodes /\ N' = N /\ Qsl' = Qsl
  BY Zenon DEF NumDecodes, RequireUniform, N, QLen, Qsl
<1>2. ASSUME NEW b
      PROVE  /\ QLen(b)' = QLen(b) /\ Req(b)' = Req(b) /\ SeqLen(b)' = SeqLen(b)
             /\ Compressed(b)' = Compressed(b) /\ CompressedUpper(b)' = CompressedUpper(b)
  BY DEF QLen, Req, SeqLen, SeqLenUpper, Compressed, CompressedUpper
<1>3. batch' = batch
  OBVIOUS
<1>4. ASSUME NEW t PROVE RowReq(t)' = RowReq(t)
  BY <1>3, Zenon DEF RowReq, N, Qsl
<1>5. ASSUME NEW c PROVE ChunkMeta(c)' = ChunkMeta(c)
  <2> DEFINE cnt == c.stop - c.start
  <2> DEFINE f == [b \in 0 .. cnt-1 |-> Compressed(c.start + b)]
  <2> DEFINE g == [b \in 0 .. cnt-1 |-> CompressedUpper(c.start + b)]
  <2> DEFINE cu == Cumulative(f, cnt)
  <2> DEFINE first == Qsl[c.start] + c.lo
  <2> DEFINE last == Qsl[c.start] + c.hi
  <2> DEFINE ks == [t \in first .. last-1 |-> cu[RowReq(t) - c.start]]
  <2> DEFINE ke == [t \in first .. last-1 |-> WindowEnd(RowReq(t), cu[RowReq(t) - c.start],
                                                       t - Qsl[RowReq(t)])]
  <2> DEFINE total == Cumulative(g, cnt)[cnt]
  <2>1. ChunkMeta(c) = [total |-> total, start |-> c.start, stop |-> c.stop, cu |-> cu,
                        tokens |-> first .. last-1, skip |-> c.lo > 0, ks |-> ks, ke |-> ke]
    BY Zenon DEF ChunkMeta
  <2>2. ChunkMeta(c)' = [total |-> total', start |-> c.start, stop |-> c.stop, cu |-> cu',
                         tokens |-> first' .. last'-1, skip |-> c.lo > 0, ks |-> ks', ke |-> ke']
    BY Zenon DEF ChunkMeta
  <2>3. f' = f
    BY <1>2
  <2>4. g' = g
    BY <1>2
  <2> HIDE DEF f, g
  <2>5. cu' = cu /\ total' = total
    BY <2>3, <2>4, Zenon
  <2> HIDE DEF cu, total
  <2>6. first' = first /\ last' = last
    BY <1>1
  <2> HIDE DEF first, last
  <2>7. ASSUME NEW b, NEW k, NEW o PROVE WindowEnd(b, k, o)' = WindowEnd(b, k, o)
    BY <1>2 DEF WindowEnd
  <2>8. ks' = ks
    BY <1>4, <2>5, <2>6
  <2>9. ke' = ke
    BY <1>1, <1>4, <2>5, <2>6, <1>2 DEF WindowEnd
  <2> HIDE DEF ks, ke
  <2> QED BY <2>1, <2>2, <2>5, <2>6, <2>8, <2>9, Zenon
<1>6. ASSUME NEW nd PROVE Chunks(nd)' = Chunks(nd)
  <2> DEFINE plan == Plan(PrefillRows(nd), PrefillEntries(nd), N - nd, Workspace, elems)
  <2> DEFINE made == [k \in 1 .. Len(plan) |->
                        ChunkMeta(Chunk(plan[k].start + nd, plan[k].stop + nd,
                                        plan[k].lo, plan[k].hi))]
  <2>1. PrefillRows(nd)' = PrefillRows(nd)
    BY <1>1 DEF PrefillRows
  <2>2. PrefillEntries(nd)' = PrefillEntries(nd)
    <3> DEFINE f == [i \in 0 .. N - nd - 1 |-> CompressedUpper(nd + i)]
    <3>1. f' = f
      BY <1>1, <1>2
    <3>2. PrefillEntries(nd) = Cumulative(f, N - nd) /\ PrefillEntries(nd)' = Cumulative(f', N' - nd)
      BY Zenon DEF PrefillEntries
    <3> HIDE DEF f
    <3> QED BY <1>1, <3>1, <3>2, Zenon
  <2>3. plan' = plan
    BY <1>1, <2>1, <2>2, Zenon
  <2> HIDE DEF plan
  <2>4. made' = made
    BY <1>5, <2>3
  <2>5. Chunks(nd) = WithEntries(made) /\ Chunks(nd)' = WithEntries(made')
    BY Zenon DEF Chunks, plan
  <2> HIDE DEF made
  <2> QED BY <2>4, <2>5, Zenon
<1>7. ASSUME NEW nd, NEW ndt PROVE DecodeMeta(nd, ndt)' = DecodeMeta(nd, ndt)
  <2> DEFINE lens == {QLen(b) : b \in 0 .. nd-1}
  <2>1. lens' = lens
    BY <1>2
  <2> DEFINE maxd == Largest(lens)
  <2> DEFINE mind == Smallest(lens)
  <2> DEFINE native == ~flatten /\ maxd <= nextN
  <2> DEFINE table == [t \in 0 .. ndt-1 |->
                         IF mind = maxd THEN UniformTable(t, maxd) ELSE VariableTable(t)]
  <2> DEFINE ctx == [t \in 0 .. ndt-1 |-> [j \in {0} |->
                       (IF mind = maxd THEN UniformContext(t, maxd)
                        ELSE VariableContext(t)) \div ratio]]
  <2> DEFINE w == IF native /\ nextN > 1 THEN maxd ELSE 1
  <2> DEFINE nctx == [b \in 0 .. nd-1 |-> [j \in 0 .. w-1 |->
                        (IF native /\ nextN > 1 THEN NativeContext(b, j, maxd)
                         ELSE SeqLen(b)) \div ratio]]
  <2> DEFINE nlens == [b \in 0 .. nd-1 |-> QLen(b)]
  <2> DEFINE ntable == [b \in 0 .. nd-1 |-> Req(b)]
  <2>2. DecodeMeta(nd, ndt) =
          IF ~native /\ maxd > 1
            THEN [size |-> ndt, width |-> 1, pad |-> FALSE, lens |-> [t \in 0 .. ndt-1 |-> 1],
                  table |-> table, ctx |-> ctx]
            ELSE [size |-> nd, width |-> w, pad |-> mind # maxd, lens |-> nlens,
                  table |-> ntable, ctx |-> nctx]
    BY Zenon DEF DecodeMeta
  <2>3. DecodeMeta(nd, ndt)' =
          IF ~native' /\ maxd' > 1
            THEN [size |-> ndt, width |-> 1, pad |-> FALSE, lens |-> [t \in 0 .. ndt-1 |-> 1],
                  table |-> table', ctx |-> ctx']
            ELSE [size |-> nd, width |-> w', pad |-> mind' # maxd', lens |-> nlens',
                  table |-> ntable', ctx |-> nctx']
    BY Zenon DEF DecodeMeta
  <2> HIDE DEF lens
  <2>4. maxd' = maxd /\ mind' = mind
    BY <2>1, Zenon
  <2> HIDE DEF maxd, mind
  <2>5. native' <=> native
    BY <2>4
  <2> HIDE DEF native
  <2>6. w' = w
    BY <2>4, <2>5
  <2>7. nlens' = nlens /\ ntable' = ntable
    BY <1>2
  <2>8. ASSUME NEW t
        PROVE  /\ UniformTable(t, maxd)' = UniformTable(t, maxd)
               /\ UniformContext(t, maxd)' = UniformContext(t, maxd)
               /\ VariableTable(t)' = VariableTable(t) /\ VariableContext(t)' = VariableContext(t)
    BY <1>1, <1>2, <1>4, <2>4 DEF UniformTable, UniformContext, VariableTable, VariableContext
  <2>9. table' = table
    BY <2>4, <2>8
  <2>10. ctx' = ctx
    BY <2>4, <2>8
  <2>11. nctx' = nctx
    BY <1>2, <2>4, <2>5, <2>6 DEF NativeContext
  <2> HIDE DEF w, nlens, ntable, table, ctx, nctx
  <2> QED BY <2>2, <2>3, <2>4, <2>5, <2>6, <2>7, <2>9, <2>10, <2>11, Zenon
<1> QED BY <1>1, <1>3, <1>6, <1>7, Zenon DEF Built

-----------------------------------------------------------------------------
(* The places of the decode kernel *)

LEMMA Divided ==
  ASSUME NEW t \in Nat, NEW w \in Nat \ {0}
  PROVE  /\ t \div w \in Nat /\ (t % w) \in 0 .. w - 1
         /\ t = (t \div w) * w + (t % w)
         /\ \A x \in Nat : t < x * w => t \div w < x
<1> DEFINE q == t \div w
<1>1. q \in Nat /\ w * q <= t /\ t < w * q + w /\ (t % w) = t - w * q
  BY Z3
<1>2. w * q = q * w /\ w * q \in Nat
  BY <1>1
<1>3. ASSUME NEW x \in Nat, t < x * w PROVE q < x
  <2>1. x * w \in Nat
    OBVIOUS
  <2>2. ~(x * w <= t)
    BY <1>3, <2>1
  <2>3. ~(x <= q)
    BY <2>2, Quotient
  <2> QED BY <1>1, <2>3
<1>4. (t % w) \in 0 .. w - 1
  <2> HIDE DEF q
  <2> QED BY <1>1, <1>2
<1>5. t = q * w + (t % w)
  <2> HIDE DEF q
  <2> QED BY <1>1, <1>2
<1> QED BY <1>1, <1>3, <1>4, <1>5

Lens(nd) == {QLen(b) : b \in 0 .. nd-1}

LEMMA LensAre ==
  ASSUME BuilderOk, RequestsOk, BatchOk, NumDecodes > 0
  PROVE  LET nd   == NumDecodes
             maxd == Largest(Lens(nd))
             mind == Smallest(Lens(nd))
         IN  /\ nd \in 1 .. N /\ N \in Nat /\ nextN \in Nat
             /\ maxd \in Nat /\ maxd >= 1 /\ maxd <= nextN /\ mind \in Nat
             /\ \A b \in 0 .. nd - 1 : b \in Indices /\ QLen(b) \in Nat /\ QLen(b) <= maxd
             /\ mind = maxd => \A b \in 0 .. nd - 1 : QLen(b) = maxd
             /\ mind # maxd => \E b \in 0 .. nd - 1 : QLen(b) # maxd
             /\ ~flatten => maxd = QLen(0) /\ \A b \in 0 .. nd - 1 : QLen(b) \in {maxd, 0}
<1> DEFINE nd == NumDecodes
<1> DEFINE S == Lens(nd)
<1> DEFINE maxd == Largest(S)
<1> DEFINE mind == Smallest(S)
<1>1. /\ nd \in 1 .. N /\ N \in Nat /\ nextN \in Nat
      /\ \A b \in Indices : b < nd => QLen(b) <= nextN /\ (~flatten => QLen(b) \in {QLen(0), 0})
  BY NumDecodesIs, QslIs DEF BuilderOk
<1> HIDE DEF nd
<1>2. ASSUME NEW b \in 0 .. nd - 1
      PROVE  /\ b \in Indices /\ QLen(b) \in Nat /\ QLen(b) <= nextN
             /\ (~flatten => QLen(b) \in {QLen(0), 0})
             /\ QLen(b) \in S
  <2>1. b \in Indices /\ b < nd
    BY <1>1 DEF Indices
  <2>2. QLen(b) \in Nat
    BY <2>1 DEF BatchOk
  <2> QED BY <1>1, <2>1, <2>2 DEF Lens
<1>3. 0 \in 0 .. nd - 1 /\ QLen(0) \in Nat /\ QLen(0) >= 1
  <2>1. 0 \in 0 .. nd - 1 /\ 0 \in Indices
    BY <1>1 DEF Indices
  <2>2. Real(0)
    BY DEF BatchOk
  <2> QED BY <2>1, <2>2, RealIs
<1>4. S \in SUBSET Nat /\ S # {} /\ \A s \in S : s <= nextN
  <2>1. ASSUME NEW s \in S PROVE s \in Nat /\ s <= nextN
    <3>1. PICK b \in 0 .. nd - 1 : s = QLen(b)
      BY DEF Lens
    <3> QED BY <1>2, <3>1
  <2>2. QLen(0) \in S
    BY <1>2, <1>3
  <2> QED BY <2>1, <2>2
<1> HIDE DEF S
<1>5. maxd \in S /\ \A s \in S : s <= maxd
  BY <1>1, <1>4, LargestOf
<1>6. mind \in S /\ \A s \in S : mind <= s
  BY <1>4, SmallestOf
<1> HIDE DEF maxd, mind
<1>7. maxd \in Nat /\ maxd >= 1 /\ maxd <= nextN /\ mind \in Nat
  <2>1. QLen(0) <= maxd
    BY <1>2, <1>3, <1>5
  <2> QED BY <1>3, <1>4, <1>5, <1>6, <2>1
<1>8. ASSUME NEW b \in 0 .. nd - 1 PROVE QLen(b) <= maxd /\ mind <= QLen(b)
  BY <1>2, <1>5, <1>6
<1>9. ASSUME mind = maxd, NEW b \in 0 .. nd - 1 PROVE QLen(b) = maxd
  BY <1>2, <1>7, <1>8, <1>9
<1>10. ASSUME mind # maxd PROVE \E b \in 0 .. nd - 1 : QLen(b) # maxd
  <2>1. PICK b \in 0 .. nd - 1 : mind = QLen(b)
    BY <1>6 DEF S, Lens
  <2> QED BY <1>10, <2>1
<1>11. ASSUME ~flatten
       PROVE  maxd = QLen(0) /\ \A b \in 0 .. nd - 1 : QLen(b) \in {maxd, 0}
  <2>1. PICK b \in 0 .. nd - 1 : maxd = QLen(b)
    BY <1>5 DEF S, Lens
  <2>2. maxd = QLen(0)
    BY <1>2, <1>7, <1>11, <2>1
  <2> QED BY <1>2, <1>11, <2>2
<1>12. \A b \in 0 .. nd - 1 : b \in Indices /\ QLen(b) \in Nat /\ QLen(b) <= maxd
  BY <1>2, <1>8
<1> QED BY <1>1, <1>7, <1>9, <1>10, <1>11, <1>12 DEF maxd, mind, S, nd

\* Requests of equal length stand at multiples of it.
LEMMA EvenRows ==
  ASSUME BatchOk, NEW w \in Nat, NEW m \in 0 .. N, \A b \in 0 .. m - 1 : QLen(b) = w
  PROVE  \A b \in 0 .. m : Qsl[b] = b * w
<1> DEFINE f == [b \in Indices |-> QLen(b)]
<1>1. Sums(Qsl, f, N) /\ N \in Nat
  BY DEF BatchOk
<1>2. ASSUME NEW b \in 0 .. m - 1 PROVE f[b] = w
  <2>1. b \in Indices
    BY <1>1 DEF Indices
  <2> QED BY <2>1
<1> HIDE DEF f
<1> QED BY <1>1, <1>2, SumsOfEqual

\* The decode rows.
LEMMA DecodeRowsAre ==
  ASSUME BuilderOk, RequestsOk, BatchOk, NumDecodes > 0
  PROVE  LET nd   == NumDecodes
             ndt  == IF nd = N THEN batch.tokens ELSE Qsl[nd]
             maxd == Largest(Lens(nd))
             mind == Smallest(Lens(nd))
         IN  /\ ndt \in Nat /\ ndt >= 1 /\ ndt <= batch.tokens /\ batch.tokens \in Nat
             /\ Qsl[nd] \in Nat /\ Qsl[nd] <= ndt
             /\ ~Padded => ndt = Qsl[nd] /\ Qsl[N] = batch.tokens
             /\ Padded => /\ nd = N /\ ndt = N * nextN /\ maxd = nextN /\ mind # maxd
                          /\ \A b \in Indices : Real(b) => QLen(b) = maxd
             /\ mind = maxd => ndt = nd * maxd /\ \A b \in 0 .. nd : Qsl[b] = b * maxd
             /\ mind # maxd /\ ~flatten => Padded
<1> DEFINE nd == NumDecodes
<1> DEFINE ndt == IF nd = N THEN batch.tokens ELSE Qsl[nd]
<1> DEFINE maxd == Largest(Lens(nd))
<1> DEFINE mind == Smallest(Lens(nd))
<1>1. /\ nd \in 1 .. N /\ N \in Nat /\ nextN \in Nat
      /\ maxd \in Nat /\ maxd >= 1 /\ maxd <= nextN /\ mind \in Nat
      /\ \A b \in 0 .. nd - 1 : b \in Indices /\ QLen(b) \in Nat /\ QLen(b) <= maxd
      /\ mind = maxd => \A b \in 0 .. nd - 1 : QLen(b) = maxd
      /\ mind # maxd => \E b \in 0 .. nd - 1 : QLen(b) # maxd
      /\ ~flatten => maxd = QLen(0) /\ \A b \in 0 .. nd - 1 : QLen(b) \in {maxd, 0}
  BY LensAre
<1>2. nd < N => ~Padded
  BY NumDecodesIs
<1> HIDE DEF nd, maxd, mind
<1>3. batch.tokens = IF Padded THEN N * nextN ELSE Qsl[N]
  BY DEF BatchOk
<1>4. /\ Qsl[nd] \in Nat /\ Qsl[N] \in Nat /\ Qsl[nd] <= Qsl[N] /\ Qsl[nd] >= 1
  <2>1. nd \in 0 .. N /\ N \in 0 .. N /\ nd <= N /\ 1 \in 0 .. N /\ 1 <= nd
    BY <1>1
  <2>2. Qsl[1] = QLen(0)
    <3>1. 0 \in Indices /\ 0 + 1 = 1
      BY <1>1 DEF Indices
    <3>2. Qsl[0 + 1] = Qsl[0] + QLen(0) /\ Qsl[0] = 0 /\ QLen(0) \in Nat
      BY <3>1, QslIs DEF BatchOk
    <3> QED BY <3>1, <3>2
  <2>3. QLen(0) >= 1
    <3>1. 0 \in Indices /\ Real(0)
      BY <1>1 DEF Indices, BatchOk
    <3> QED BY <3>1, RealIs
  <2>4. Qsl[1] <= Qsl[nd] /\ Qsl[nd] <= Qsl[N] /\ Qsl[nd] \in Nat /\ Qsl[N] \in Nat /\ Qsl[1] \in Nat
    BY <2>1, QslIs
  <2> QED BY <2>2, <2>3, <2>4
<1>5. CASE ~Padded
  <2>1. batch.tokens = Qsl[N] /\ ndt = Qsl[nd]
    BY <1>1, <1>3, <1>5
  <2>2. ASSUME mind = maxd
        PROVE  ndt = nd * maxd /\ \A b \in 0 .. nd : Qsl[b] = b * maxd
    <3>1. \A b \in 0 .. nd : Qsl[b] = b * maxd
      <4>1. nd \in 0 .. N
        BY <1>1
      <4> QED BY <1>1, <2>2, <4>1, EvenRows
    <3>2. nd \in 0 .. nd
      BY <1>1
    <3> QED BY <2>1, <3>1, <3>2
  <2>3. ASSUME mind # maxd, ~flatten PROVE FALSE
    <3>1. PICK b \in 0 .. nd - 1 : QLen(b) # maxd
      BY <1>1, <2>3
    <3>2. QLen(b) = 0 /\ b \in Indices
      BY <1>1, <2>3, <3>1
    <3>3. Real(b)
      BY <1>5, <3>2 DEF Padded
    <3> QED BY <3>2, <3>3, RealIs
  <2> HIDE DEF ndt
  <2>4. ndt <= batch.tokens /\ batch.tokens \in Nat
    BY <1>4, <2>1
  <2> QED BY <1>4, <1>5, <2>1, <2>2, <2>3, <2>4 DEF nd, ndt, maxd, mind
<1>6. CASE Padded
  <2>1. nd = N /\ batch.tokens = N * nextN /\ ndt = N * nextN
    BY <1>1, <1>2, <1>3, <1>6
  <2>2. \A b \in Indices : Real(b) => QLen(b) = nextN
    BY <1>6 DEF BatchOk
  <2>3. maxd = nextN
    <3>1. 0 \in 0 .. nd - 1 /\ 0 \in Indices /\ Real(0)
      BY <1>1 DEF BatchOk, Indices
    <3>2. QLen(0) = nextN /\ QLen(0) <= maxd
      BY <1>1, <2>2, <3>1
    <3> QED BY <1>1, <3>2
  <2>4. mind # maxd
    <3>1. PICK b \in Indices : ~Real(b)
      BY <1>6 DEF Padded
    <3>2. QLen(b) = 0 /\ b \in 0 .. nd - 1
      BY <2>1, <3>1 DEF BatchOk, Indices
    <3> QED BY <1>1, <3>2
  <2>5. Qsl[N] <= N * nextN
    <3> DEFINE f == [b \in Indices |-> QLen(b)]
    <3> DEFINE g == [b \in Indices |-> nextN]
    <3>1. Sums(Qsl, f, N)
      BY DEF BatchOk
    <3>2. Sums(Cumulative(g, N), g, N)
      <4> HIDE DEF g
      <4> QED BY <1>1, CumulativeIs
    <3>3. ASSUME NEW b \in 0 .. N - 1 PROVE f[b] \in Nat /\ g[b] \in Nat /\ f[b] <= g[b] /\ g[b] = nextN
      <4>1. b \in Indices /\ b \in 0 .. nd - 1
        BY <2>1 DEF Indices
      <4> QED BY <1>1, <4>1
    <3> HIDE DEF f, g
    <3>4. Qsl[N] <= Cumulative(g, N)[N]
      BY <1>1, <3>1, <3>2, <3>3, SumsOfLess
    <3>5. Cumulative(g, N)[N] = N * nextN
      <4>1. N \in 0 .. N
        BY <1>1
      <4> QED BY <1>1, <3>2, <3>3, <4>1, SumsOfEqual
    <3> QED BY <3>4, <3>5
  <2>6. N * nextN \in Nat /\ N * nextN >= 1
    <3>1. N * nextN \in Nat
      BY <1>1
    <3> QED BY <1>4, <2>5, <3>1, <2>1
  <2> HIDE DEF ndt
  <2>7. /\ ndt \in Nat /\ ndt >= 1 /\ ndt <= batch.tokens /\ batch.tokens \in Nat /\ Qsl[nd] <= ndt
    BY <1>1, <1>4, <2>1, <2>5, <2>6
  <2> QED BY <1>4, <1>6, <2>1, <2>2, <2>3, <2>4, <2>7 DEF nd, ndt, maxd, mind
<1> QED BY <1>5, <1>6

-----------------------------------------------------------------------------
(* Scoring the decodes *)

LEMMA NotPositive ==
  ASSUME NEW x \in Int, NEW d \in Nat \ {0}, x <= 0
  PROVE  x \div d \in Int /\ x \div d <= 0
BY Z3

LEMMA DivOne ==
  ASSUME NEW n \in Nat \ {0}
  PROVE  n \div n = 1
<1>1. (1 * n) \div n = 1
  BY ExactMultiple
<1> QED BY <1>1

\* The entries of a decode row.
LEMMA EntryWindow ==
  ASSUME CacheInv, BatchOk, RequestsOk, Entered(layer), NEW b \in Indices, Real(b),
         NEW m \in Nat, m <= len[Req(b)] + QLen(b)
  PROVE  {Entry(layer, Req(b), i) : i \in 0 .. (m \div ratio) - 1}
           = Window(Req(b), m \div ratio)
<1>1. \A i \in 0 .. (m \div ratio) - 1 :
        Entry(layer, Req(b), i) = <<layer, Req(b), i, TRUE>>
  BY EntriesThere
<1> QED BY <1>1, Zenon DEF Window

\* The row that is scored for token t of request b.
LEMMA DecodeRow ==
  ASSUME CacheInv, BatchOk, BuilderOk, RequestsOk, Entered(layer),
         NEW b \in Indices, NEW t \in Int, Qsl[b] <= t, t < Qsl[b + 1], NEW m,
         m = len[Req(b)] + (t - Qsl[b]) + 1
  PROVE  Row(t, t, {Entry(layer, Req(b), i) : i \in 0 .. (m \div ratio) - 1}) = Wanted(t)
<1>1. Real(b) /\ Qsl[b + 1] = Qsl[b] + QLen(b) /\ Qsl[b] \in Nat
  BY RowsReal, QslIs DEF Indices
<1>2. len[Req(b)] \in Nat /\ QLen(b) \in Nat
  BY <1>1, RealIs
<1>3. m \in Nat /\ m <= len[Req(b)] + QLen(b)
  BY <1>1, <1>2
<1>4. {Entry(layer, Req(b), i) : i \in 0 .. (m \div ratio) - 1} = Window(Req(b), m \div ratio)
  BY <1>1, <1>3, EntryWindow
<1> QED BY <1>4, WantedIs

\* A row without a context is left unanswered.
LEMMA NoRow ==
  ASSUME BuilderOk, BatchOk, NEW t \in Int, t >= Qsl[N], NEW x \in Int, x <= 0, NEW q, NEW r
  PROVE  Row(q, t, {Entry(layer, r, i) : i \in 0 .. (x \div ratio) - 1}) = Wanted(t)
<1>1. x \div ratio \in Int /\ x \div ratio <= 0
  BY NotPositive DEF BuilderOk
<1>2. {Entry(layer, r, i) : i \in 0 .. (x \div ratio) - 1} = {}
  <2>1. 0 .. (x \div ratio) - 1 = {}
    BY <1>1
  <2> QED BY <2>1
<1> QED BY <1>2 DEF Row, Wanted

\* The two shapes of the decode metadata: a request per row, or requests
\* of up to maxd rows each.
FlatDecodes(d, ndt, maxd, mind) ==
  /\ d.size = ndt /\ d.pad = FALSE
  /\ \A t \in 0 .. ndt - 1 :
       /\ d.table[t] = IF mind = maxd THEN UniformTable(t, maxd) ELSE VariableTable(t)
       /\ d.ctx[t][0] = (IF mind = maxd THEN UniformContext(t, maxd)
                         ELSE VariableContext(t)) \div ratio

GroupedDecodes(d, nd, maxd) ==
  /\ d.size = nd /\ (d.pad <=> Padded)
  /\ d.lens = [b \in 0 .. nd - 1 |-> QLen(b)]
  /\ \A b \in 0 .. nd - 1 : d.table[b] = Req(b)
  /\ \A b \in 0 .. nd - 1 : \A j \in 0 .. maxd - 1 :
       d.ctx[b][j] = (SeqLen(b) - maxd + 1 + j) \div ratio

LEMMA DecodeShape ==
  ASSUME BuilderOk, RequestsOk, BatchOk, NumDecodes > 0, NEW ndt
  PROVE  LET nd   == NumDecodes
             maxd == Largest(Lens(nd))
             mind == Smallest(Lens(nd))
             d    == DecodeMeta(nd, ndt)
         IN  \/ FlatDecodes(d, ndt, maxd, mind)
             \/ GroupedDecodes(d, nd, maxd) /\ (mind = maxd <=> ~Padded)
<1> DEFINE nd == NumDecodes
<1> DEFINE maxd == Largest(Lens(nd))
<1> DEFINE mind == Smallest(Lens(nd))
<1> DEFINE d == DecodeMeta(nd, ndt)
<1>1. /\ nd \in 1 .. N /\ N \in Nat /\ nextN \in Nat
      /\ maxd \in Nat /\ maxd >= 1 /\ maxd <= nextN /\ mind \in Nat
      /\ \A b \in 0 .. nd - 1 : b \in Indices /\ QLen(b) \in Nat /\ QLen(b) <= maxd
      /\ mind = maxd => \A b \in 0 .. nd - 1 : QLen(b) = maxd
      /\ mind # maxd => \E b \in 0 .. nd - 1 : QLen(b) # maxd
      /\ flatten \in BOOLEAN /\ (flatten => nextN >= 3)
  BY LensAre DEF BuilderOk
<1>2. /\ Padded => maxd = nextN /\ mind # maxd
      /\ mind # maxd /\ ~flatten => Padded
  BY DecodeRowsAre
<1>3. Lens(nd) = {QLen(b) : b \in 0 .. nd-1}
  BY DEF Lens
<1> DEFINE native == ~flatten /\ maxd <= nextN
<1> DEFINE table == [t \in 0 .. ndt-1 |->
                       IF mind = maxd THEN UniformTable(t, maxd) ELSE VariableTable(t)]
<1> DEFINE ctx == [t \in 0 .. ndt-1 |-> [j \in {0} |->
                     (IF mind = maxd THEN UniformContext(t, maxd)
                      ELSE VariableContext(t)) \div ratio]]
<1> DEFINE w == IF native /\ nextN > 1 THEN maxd ELSE 1
<1> DEFINE nctx == [b \in 0 .. nd-1 |-> [j \in 0 .. w-1 |->
                      (IF native /\ nextN > 1 THEN NativeContext(b, j, maxd)
                       ELSE SeqLen(b)) \div ratio]]
<1> DEFINE nlens == [b \in 0 .. nd-1 |-> QLen(b)]
<1> DEFINE ntable == [b \in 0 .. nd-1 |-> Req(b)]
<1>4. d = IF ~native /\ maxd > 1
            THEN [size |-> ndt, width |-> 1, pad |-> FALSE, lens |-> [t \in 0 .. ndt-1 |-> 1],
                  table |-> table, ctx |-> ctx]
            ELSE [size |-> nd, width |-> w, pad |-> mind # maxd, lens |-> nlens,
                  table |-> ntable, ctx |-> nctx]
  BY <1>3, Zenon DEF DecodeMeta
<1> HIDE DEF d, nd, maxd, mind
<1>5. native <=> ~flatten
  BY <1>1
<1>6. CASE flatten /\ maxd > 1
  <2> DEFINE tlens == [t \in 0 .. ndt-1 |-> 1]
  <2> HIDE DEF table, ctx, tlens
  <2>1. d = [size |-> ndt, width |-> 1, pad |-> FALSE, lens |-> tlens,
             table |-> table, ctx |-> ctx]
    BY <1>4, <1>5, <1>6 DEF tlens
  <2>2. d.size = ndt /\ d.pad = FALSE /\ d.table = table /\ d.ctx = ctx
    BY <2>1
  <2>3. ASSUME NEW t \in 0 .. ndt - 1
        PROVE  /\ table[t] = IF mind = maxd THEN UniformTable(t, maxd) ELSE VariableTable(t)
               /\ ctx[t][0] = (IF mind = maxd THEN UniformContext(t, maxd)
                               ELSE VariableContext(t)) \div ratio
    BY DEF table, ctx
  <2>4. FlatDecodes(d, ndt, maxd, mind)
    BY <2>2, <2>3, Zenon DEF FlatDecodes
  <2> QED BY <2>4 DEF d, nd, maxd, mind
<1>7. CASE ~(flatten /\ maxd > 1)
  <2>1. mind = maxd <=> ~Padded
    <3>1. ASSUME flatten, mind # maxd PROVE Padded
      <4>1. PICK b \in 0 .. nd - 1 : QLen(b) # maxd
        BY <1>1, <3>1
      <4>2. QLen(b) = 0 /\ b \in Indices
        BY <1>1, <1>7, <3>1, <4>1
      <4>3. ~Real(b)
        BY <4>2, RealIs
      <4> QED BY <4>2, <4>3 DEF Padded
    <3> QED BY <1>2, <3>1
  <2>2. w = maxd /\ (~(native /\ nextN > 1) => maxd = 1)
    BY <1>1, <1>5, <1>7
  <2>3. ASSUME NEW b \in 0 .. nd - 1, NEW j \in 0 .. maxd - 1
        PROVE  nctx[b][j] = (SeqLen(b) - maxd + 1 + j) \div ratio
    <3>1. nctx[b][j] = (IF native /\ nextN > 1 THEN NativeContext(b, j, maxd)
                        ELSE SeqLen(b)) \div ratio
      BY <2>2
    <3>2. CASE native /\ nextN > 1
      BY <3>1, <3>2 DEF NativeContext
    <3>3. CASE ~(native /\ nextN > 1)
      <4>1. maxd = 1 /\ j = 0
        BY <2>2, <3>3
      <4>2. SeqLen(b) \in Nat
        <5>1. b \in Indices
          BY <1>1
        <5>2. CASE Real(b)
          BY <5>1, <5>2, RealIs
        <5>3. CASE ~Real(b)
          BY <5>3 DEF Real, SeqLen
        <5> QED BY <5>2, <5>3
      <4>3. SeqLen(b) - maxd + 1 + j = SeqLen(b)
        BY <4>1, <4>2
      <4> QED BY <3>1, <3>3, <4>3, Zenon
    <3> QED BY <3>2, <3>3
  <2> HIDE DEF nctx, nlens, ntable, w, native
  <2>4. d = [size |-> nd, width |-> w, pad |-> mind # maxd, lens |-> nlens,
             table |-> ntable, ctx |-> nctx]
    BY <1>4, <1>5, <1>7
  <2>5. d.size = nd /\ d.pad = (mind # maxd) /\ d.lens = nlens /\ d.table = ntable /\ d.ctx = nctx
    BY <2>4
  <2>6. \A b \in 0 .. nd - 1 : ntable[b] = Req(b)
    BY DEF ntable
  <2>7. GroupedDecodes(d, nd, maxd)
    BY <2>1, <2>3, <2>5, <2>6, Zenon DEF GroupedDecodes, nlens
  <2> QED BY <2>1, <2>7 DEF d, nd, maxd, mind
<1> QED BY <1>6, <1>7

\* A decode scored as a request of its own.
LEMMA FlatRow ==
  ASSUME CacheInv, BuilderOk, RequestsOk, BatchOk, Entered(layer), NumDecodes > 0,
         NEW d, NEW ndt, NEW maxd, NEW mind, FlatDecodes(d, ndt, maxd, mind),
         ndt = (IF NumDecodes = N THEN batch.tokens ELSE Qsl[NumDecodes]),
         maxd = Largest(Lens(NumDecodes)), mind = Smallest(Lens(NumDecodes)),
         NEW t \in 0 .. ndt - 1
  PROVE  Row(t, t, {Entry(layer, d.table[t], i) : i \in 0 .. d.ctx[t][0] - 1}) = Wanted(t)
<1> DEFINE nd == NumDecodes
<1>1. /\ nd \in 1 .. N /\ N \in Nat /\ maxd \in Nat /\ maxd >= 1
      /\ mind = maxd => \A b \in 0 .. nd - 1 : QLen(b) = maxd
      /\ \A b \in 0 .. nd - 1 : b \in Indices
  BY LensAre
<1>2. /\ ndt \in Nat /\ (Padded => mind # maxd)
      /\ mind = maxd => ndt = nd * maxd /\ \A b \in 0 .. nd : Qsl[b] = b * maxd
  BY DecodeRowsAre
<1> HIDE DEF nd
<1>3. CASE mind = maxd
  <2> DEFINE b == t \div maxd
  <2> DEFINE j == t % maxd
  <2> DEFINE m == len[Req(b)] + (t - Qsl[b]) + 1
  <2>1. /\ b \in Nat /\ j \in 0 .. maxd - 1 /\ t = b * maxd + j
        /\ \A x \in Nat : t < x * maxd => b < x
    <3>1. t \in Nat /\ maxd \in Nat \ {0}
      BY <1>1, <1>2
    <3> QED BY <3>1, Divided, Zenon
  <2>2. d.table[t] = Req(b) /\ d.ctx[t][0] = (SeqLen(b) - maxd + j + 1) \div ratio
    BY <1>3 DEF FlatDecodes, UniformTable, UniformContext
  <2> HIDE DEF b, j
  <2>3. b \in 0 .. nd - 1
    BY <1>1, <1>2, <1>3, <2>1
  <2>4. b \in Indices /\ QLen(b) = maxd /\ Qsl[b] = b * maxd /\ Real(b)
    <3>1. b \in Indices /\ QLen(b) = maxd /\ Qsl[b] = b * maxd
      BY <1>1, <1>2, <1>3, <2>3
    <3> QED BY <1>2, <1>3, <3>1 DEF Padded
  <2>5. Qsl[b + 1] = Qsl[b] + maxd /\ Qsl[b] \in Nat
    BY <2>4, QslIs DEF Indices
  <2>6. Qsl[b] <= t /\ t < Qsl[b + 1] /\ t - Qsl[b] = j
    BY <1>1, <2>1, <2>4, <2>5
  <2>7. len[Req(b)] \in Nat /\ SeqLen(b) = len[Req(b)] + maxd
    BY <2>4, RealIs
  <2>8. SeqLen(b) - maxd + j + 1 = m
    BY <1>1, <2>1, <2>6, <2>7
  <2>9. d.ctx[t][0] = m \div ratio
    BY <2>2, <2>8, Zenon
  <2> HIDE DEF m
  <2> QED BY <2>2, <2>4, <2>6, <2>9, DecodeRow DEF m
<1>4. CASE mind # maxd /\ t < Qsl[N]
  <2>1. PICK b \in Indices : Qsl[b] <= t /\ t < Qsl[b + 1] /\ RowReq(t) = b
    BY <1>4, RowOf
  <2> DEFINE m == len[Req(b)] + (t - Qsl[b]) + 1
  <2>2. d.table[t] = Req(b) /\ d.ctx[t][0] = ((SeqLen(b) - QLen(b) - Qsl[b]) + t + 1) \div ratio
    BY <1>4, <2>1 DEF FlatDecodes, VariableTable, VariableContext
  <2>3. Real(b) /\ Qsl[b] \in Nat
    BY <2>1, RowsReal, QslIs DEF Indices
  <2>4. len[Req(b)] \in Nat /\ QLen(b) \in Nat /\ SeqLen(b) = len[Req(b)] + QLen(b)
    BY <2>3, RealIs
  <2>5. (SeqLen(b) - QLen(b) - Qsl[b]) + t + 1 = m
    BY <2>3, <2>4
  <2>6. d.ctx[t][0] = m \div ratio
    BY <2>2, <2>5, Zenon
  <2> HIDE DEF m
  <2> QED BY <2>1, <2>2, <2>6, DecodeRow DEF m
<1>5. CASE mind # maxd /\ ~(t < Qsl[N])
  <2>1. d.ctx[t][0] = 0 \div ratio
    BY <1>5 DEF FlatDecodes, VariableContext
  <2>2. Qsl[N] \in Nat
    BY QslIs
  <2>3. t \in Int /\ t >= Qsl[N]
    BY <1>5, <2>2
  <2> QED BY <2>1, <2>3, NoRow
<1> QED BY <1>3, <1>4, <1>5

LEMMA EvenReal ==
  ASSUME BuilderOk, RequestsOk, BatchOk, NumDecodes > 0, NEW maxd,
         maxd = Largest(Lens(NumDecodes)),
         Smallest(Lens(NumDecodes)) = maxd <=> ~Padded,
         NEW b \in 0 .. NumDecodes - 1, Real(b)
  PROVE  /\ b \in Indices /\ maxd \in Nat \ {0} /\ QLen(b) = maxd
         /\ Qsl[b] = b * maxd /\ Qsl[b + 1] = b * maxd + maxd /\ b * maxd \in Nat
<1> DEFINE nd == NumDecodes
<1> DEFINE mind == Smallest(Lens(nd))
<1>1. /\ nd \in 1 .. N /\ N \in Nat /\ maxd \in Nat /\ maxd >= 1
      /\ mind = maxd => \A c \in 0 .. nd - 1 : QLen(c) = maxd
      /\ \A c \in 0 .. nd - 1 : c \in Indices
  BY LensAre
<1>2. Padded => \A c \in Indices : Real(c) => QLen(c) = maxd
  BY DecodeRowsAre
<1> HIDE DEF nd, mind
<1>3. ASSUME NEW c \in 0 .. (b + 1) - 1 PROVE QLen(c) = maxd
  <2>1. c \in 0 .. nd - 1 /\ c \in Indices /\ b \in Indices /\ c <= b
    BY <1>1 DEF nd
  <2>2. Real(c)
    BY <2>1 DEF BatchOk
  <2> QED BY <1>1, <1>2, <2>1, <2>2 DEF nd, mind
<1>4. b + 1 \in 0 .. N /\ b \in 0 .. b + 1 /\ b + 1 \in 0 .. b + 1 /\ b \in 0 .. (b + 1) - 1
      /\ b \in Indices /\ b \in Nat
  BY <1>1 DEF nd
<1>5. \A c \in 0 .. b + 1 : Qsl[c] = c * maxd
  BY <1>1, <1>3, <1>4, EvenRows
<1>6. (b + 1) * maxd = b * maxd + maxd /\ b * maxd \in Nat
  BY <1>1, <1>4
<1> QED BY <1>1, <1>3, <1>4, <1>5, <1>6

\* A decode scored in its place among requests of up to maxd rows.
LEMMA GroupedRow ==
  ASSUME CacheInv, BuilderOk, RequestsOk, BatchOk, Entered(layer), NumDecodes > 0,
         NEW d, NEW maxd, GroupedDecodes(d, NumDecodes, maxd),
         maxd = Largest(Lens(NumDecodes)),
         Smallest(Lens(NumDecodes)) = maxd <=> ~Padded,
         NEW b \in 0 .. NumDecodes - 1, NEW j \in 0 .. maxd - 1, NEW t, t = b * maxd + j,
         NEW q, Real(b) => q = t
  PROVE  Row(q, t, {Entry(layer, d.table[b], i) : i \in 0 .. d.ctx[b][j] - 1}) = Wanted(t)
<1>1. /\ NumDecodes \in 1 .. N /\ N \in Nat /\ maxd \in Nat /\ maxd >= 1
      /\ b \in Indices /\ b \in Nat
  BY LensAre
<1>2. d.table[b] = Req(b) /\ d.ctx[b][j] = (SeqLen(b) - maxd + 1 + j) \div ratio
  BY DEF GroupedDecodes
<1>3. t \in Nat /\ b * maxd \in Nat /\ b * maxd <= t
  <2>1. b * maxd \in Nat
    BY <1>1
  <2> QED BY <1>1, <2>1
<1>4. CASE Real(b)
  <2> DEFINE m == len[Req(b)] + (t - Qsl[b]) + 1
  <2>1. QLen(b) = maxd /\ Qsl[b] = b * maxd /\ Qsl[b + 1] = b * maxd + maxd
    BY <1>4, EvenReal
  <2>2. Qsl[b] <= t /\ t < Qsl[b + 1] /\ t - Qsl[b] = j
    BY <1>1, <1>3, <2>1
  <2>3. len[Req(b)] \in Nat /\ SeqLen(b) = len[Req(b)] + maxd
    BY <1>1, <1>4, <2>1, RealIs
  <2>4. SeqLen(b) - maxd + 1 + j = m
    BY <1>1, <2>2, <2>3
  <2>5. d.ctx[b][j] = m \div ratio
    BY <1>2, <2>4, Zenon
  <2> HIDE DEF m
  <2>6. q = t
    BY <1>4
  <2> QED BY <1>1, <1>2, <1>3, <2>2, <2>5, <2>6, DecodeRow DEF m
<1>5. CASE ~Real(b)
  <2>1. SeqLen(b) = 0
    BY <1>5 DEF Real, SeqLen
  <2> DEFINE x == SeqLen(b) - maxd + 1 + j
  <2>2. x \in Int /\ x <= 0
    BY <1>1, <2>1
  <2>3. Qsl[N] \in Nat
    BY QslIs
  <2>4. t >= Qsl[N]
    <3> SUFFICES ASSUME t < Qsl[N] PROVE FALSE
      BY <1>3, <2>3
    <3>1. PICK c \in Indices : Qsl[c] <= t /\ t < Qsl[c + 1]
      BY <1>3, RowOf
    <3>2. Real(c)
      BY <1>3, <3>1, RowsReal
    <3>3. c \in Nat /\ c + 1 <= b
      <4>1. ~(b <= c)
        BY <1>1, <1>5, <3>2 DEF BatchOk
      <4> QED BY <1>1, <4>1 DEF Indices
    <3>4. c \in 0 .. NumDecodes - 1
      BY <1>1, <3>3
    <3>5. Qsl[c + 1] = c * maxd + maxd
      BY <3>2, <3>4, EvenReal
    <3>6. (c + 1) * maxd <= b * maxd /\ (c + 1) * maxd = c * maxd + maxd /\ c * maxd \in Nat
      BY <1>1, <3>3, TimesMonotone
    <3> QED BY <1>1, <1>3, <3>1, <3>5, <3>6
  <2> HIDE DEF x
  <2> QED BY <1>2, <1>3, <2>2, <2>4, NoRow DEF x
<1> QED BY <1>4, <1>5

\* The lengths of the decodes sum up to the batch's own row offsets.
LEMMA LensCumulate ==
  ASSUME BuilderOk, RequestsOk, BatchOk, NEW nd \in 0 .. N, NEW lens,
         lens = [b \in 0 .. nd - 1 |-> QLen(b)]
  PROVE  /\ Sums(Cumulative(lens, nd), lens, nd)
         /\ \A i \in 0 .. nd : Cumulative(lens, nd)[i] = Qsl[i]
<1> DEFINE f == [b \in Indices |-> QLen(b)]
<1> DEFINE c == Cumulative(lens, nd)
<1>1. Sums(Qsl, f, N) /\ N \in Nat /\ nd \in Nat /\ 0 + nd <= N /\ 0 \in Nat
  BY DEF BatchOk
<1>2. Sums(c, lens, nd)
  BY <1>1, CumulativeIs
<1>3. \A b \in 0 .. N - 1 : f[b] \in Nat
  BY DEF BatchOk, Indices
<1>4. ASSUME NEW i \in 0 .. nd - 1 PROVE lens[i] = f[0 + i]
  <2>1. 0 + i = i /\ i \in Indices
    BY <1>1 DEF Indices
  <2> QED BY <2>1
<1> HIDE DEF f, c
<1>5. \A i \in 0 .. nd : c[i] = Qsl[0 + i] - Qsl[0]
  BY <1>1, <1>2, <1>3, <1>4, SumsOfStretch
<1>6. ASSUME NEW i \in 0 .. nd PROVE c[i] = Qsl[i]
  <2>1. 0 + i = i /\ i \in 0 .. N
    BY <1>1
  <2>2. Qsl[0] = 0 /\ Qsl[i] \in Nat
    BY <2>1, QslIs
  <2> QED BY <1>5, <2>1, <2>2
<1> QED BY <1>2, <1>6 DEF c

LEMMA GroupedWidth ==
  ASSUME BuilderOk, RequestsOk, BatchOk, NumDecodes > 0, meta = Built, NEW maxd,
         GroupedDecodes(meta.dec, NumDecodes, maxd), maxd = Largest(Lens(NumDecodes)),
         Smallest(Lens(NumDecodes)) = maxd <=> ~Padded
  PROVE  /\ maxd \in Nat \ {0} /\ DecodeWidth = maxd /\ meta.dec.size * maxd = meta.ndt
         /\ \A b \in 0 .. NumDecodes - 1 : \A j \in 0 .. maxd - 1 :
              Real(b) => DecodeQuery(b, j) = b * maxd + j
<1> DEFINE nd == NumDecodes
<1> DEFINE d == meta.dec
<1> DEFINE mind == Smallest(Lens(nd))
<1>1. /\ nd \in 1 .. N /\ N \in Nat /\ maxd \in Nat /\ maxd >= 1
      /\ \A c \in 0 .. nd - 1 : c \in Indices
  BY LensAre
<1>2. /\ d.size = nd /\ (d.pad <=> Padded) /\ d.lens = [b \in 0 .. nd - 1 |-> QLen(b)]
  BY DEF GroupedDecodes
<1>3. meta.ndt = nd * maxd
  <2> DEFINE ndt == IF nd = N THEN batch.tokens ELSE Qsl[nd]
  <2>1. /\ Padded => nd = N /\ ndt = N * nextN /\ maxd = nextN
        /\ mind = maxd => ndt = nd * maxd
    BY DecodeRowsAre
  <2>2. meta.ndt = ndt
    BY BuiltIs
  <2> HIDE DEF ndt, nd, mind
  <2>3. mind = maxd <=> ~Padded
    BY DEF nd, mind
  <2>4. CASE Padded
    BY <2>1, <2>2, <2>4
  <2>5. CASE ~Padded
    BY <2>1, <2>2, <2>3, <2>5
  <2> QED BY <2>4, <2>5
<1> HIDE DEF nd, mind
<1>4. (nd * maxd) \div nd = maxd
  <2>1. (maxd * nd) \div nd = maxd /\ maxd * nd = nd * maxd
    BY <1>1, ExactMultiple
  <2> QED BY <2>1
<1>5. {d.lens[b] : b \in 0 .. d.size - 1} = Lens(nd)
  <2>1. \A b \in 0 .. nd - 1 : d.lens[b] = QLen(b)
    BY <1>2
  <2> QED BY <1>2, <2>1 DEF Lens
<1>6. DecodeWidth = maxd
  <2>1. CASE d.pad
    BY <1>5, <2>1, Zenon DEF DecodeWidth, nd
  <2>2. CASE ~d.pad
    BY <1>2, <1>3, <1>4, <2>2, Zenon DEF DecodeWidth
  <2> QED BY <2>1, <2>2
<1>7. ASSUME NEW b \in 0 .. nd - 1, NEW j \in 0 .. maxd - 1, Real(b)
      PROVE  DecodeQuery(b, j) = b * maxd + j
  <2>1. QLen(b) = maxd /\ Qsl[b] = b * maxd
    BY <1>7, EvenReal DEF nd
  <2>2. CASE d.pad
    <3>1. d.lens[b] = maxd
      BY <1>2, <2>1
    <3>2. Cumulative(d.lens, d.size)[b] = Qsl[b]
      <4>1. nd \in 0 .. N /\ b \in 0 .. nd
        BY <1>1
      <4>2. \A i \in 0 .. nd : Cumulative(d.lens, nd)[i] = Qsl[i]
        BY <1>2, <4>1, LensCumulate
      <4> QED BY <1>2, <4>1, <4>2, Zenon
    <3>3. j < d.lens[b]
      BY <1>1, <3>1
    <3> QED BY <2>1, <2>2, <3>2, <3>3, Zenon DEF DecodeQuery
  <2>3. CASE ~d.pad
    BY <1>2, <1>3, <1>4, <2>3, Zenon DEF DecodeQuery
  <2> QED BY <2>2, <2>3
<1> QED BY <1>1, <1>2, <1>3, <1>6, <1>7 DEF nd

LEMMA FlatWidth ==
  ASSUME BuilderOk, RequestsOk, BatchOk, NumDecodes > 0, meta = Built, NEW maxd, NEW mind,
         FlatDecodes(meta.dec, meta.ndt, maxd, mind)
  PROVE  /\ DecodeWidth = 1 /\ meta.dec.size * 1 = meta.ndt /\ meta.ndt \in Nat
         /\ \A b \in Nat : DecodeQuery(b, 0) = b
<1>1. meta.ndt \in Nat \ {0}
  <2>1. meta.ndt = IF NumDecodes = N THEN batch.tokens ELSE Qsl[NumDecodes]
    BY BuiltIs
  <2> QED BY <2>1, DecodeRowsAre
<1>2. meta.dec.size = meta.ndt /\ meta.dec.pad = FALSE /\ meta.ndt \div meta.ndt = 1
  BY <1>1, DivOne DEF FlatDecodes
<1>3. DecodeWidth = 1
  BY <1>2, Zenon DEF DecodeWidth
<1>4. ASSUME NEW b \in Nat PROVE DecodeQuery(b, 0) = b
  <2>1. DecodeQuery(b, 0) = b * 1 + 0
    BY <1>2, Zenon DEF DecodeQuery
  <2> QED BY <2>1
<1> QED BY <1>1, <1>2, <1>3, <1>4

\* Every row of the decode kernel is answered as it must be.
LEMMA DecodeScored ==
  ASSUME CacheInv, BuilderOk, RequestsOk, BatchOk, Entered(layer), NumDecodes > 0,
         meta = Built
  PROVE  LET d == meta.dec
             w == DecodeWidth
         IN  /\ d.size * w = meta.ndt /\ (d.pad => Padded)
             /\ \A t \in 0 .. meta.ndt - 1 :
                  Row(DecodeQuery(t \div w, t % w), t,
                      {Entry(layer, d.table[t \div w], i) : i \in 0 .. d.ctx[t \div w][t % w] - 1})
                    = Wanted(t)
<1> DEFINE nd == NumDecodes
<1> DEFINE ndt == meta.ndt
<1> DEFINE maxd == Largest(Lens(nd))
<1> DEFINE mind == Smallest(Lens(nd))
<1> DEFINE d == meta.dec
<1> DEFINE Scored(b, j, t) == Row(DecodeQuery(b, j), t,
                                  {Entry(layer, d.table[b], i) : i \in 0 .. d.ctx[b][j] - 1})
<1>1. ndt = (IF nd = N THEN batch.tokens ELSE Qsl[nd]) /\ d = DecodeMeta(nd, ndt)
  BY BuiltIs
<1>2. \/ FlatDecodes(d, ndt, maxd, mind)
      \/ GroupedDecodes(d, nd, maxd) /\ (mind = maxd <=> ~Padded)
  BY <1>1, DecodeShape
<1>3. ndt \in Nat /\ ndt >= 1
  BY <1>1, DecodeRowsAre
<1>4. CASE FlatDecodes(d, ndt, maxd, mind)
  <2>1. /\ DecodeWidth = 1 /\ d.size * 1 = ndt /\ d.pad = FALSE
        /\ \A b \in Nat : DecodeQuery(b, 0) = b
    BY <1>4, FlatWidth DEF FlatDecodes
  <2> HIDE DEF maxd, mind
  <2>2. ASSUME NEW t \in 0 .. ndt - 1 PROVE Scored(t \div 1, t % 1, t) = Wanted(t)
    <3>1. t \in Nat /\ t \div 1 = t /\ t % 1 = 0
      BY <1>3
    <3>2. Row(t, t, {Entry(layer, d.table[t], i) : i \in 0 .. d.ctx[t][0] - 1}) = Wanted(t)
      BY <1>1, <1>4, FlatRow DEF maxd, mind
    <3>3. Scored(t, 0, t) = Wanted(t)
      BY <2>1, <3>1, <3>2, Zenon
    <3> QED BY <3>1, <3>3, Zenon
  <2> QED BY <2>1, <2>2, Zenon
<1>5. CASE GroupedDecodes(d, nd, maxd) /\ (mind = maxd <=> ~Padded)
  <2>1. /\ maxd \in Nat \ {0} /\ DecodeWidth = maxd /\ d.size * maxd = ndt
        /\ \A b \in 0 .. nd - 1 : \A j \in 0 .. maxd - 1 :
             Real(b) => DecodeQuery(b, j) = b * maxd + j
        /\ d.size = nd /\ (d.pad => Padded) /\ nd \in Nat
    BY <1>5, GroupedWidth, LensAre DEF GroupedDecodes
  <2> HIDE DEF maxd, mind, nd
  <2>2. ASSUME NEW t \in 0 .. ndt - 1 PROVE Scored(t \div maxd, t % maxd, t) = Wanted(t)
    <3> DEFINE b == t \div maxd
    <3> DEFINE j == t % maxd
    <3>1. t \in Nat /\ t < nd * maxd
      BY <1>3, <2>1
    <3>2. b \in Nat /\ j \in 0 .. maxd - 1 /\ t = b * maxd + j /\ b < nd
      BY <2>1, <3>1, Divided, Zenon
    <3> HIDE DEF b, j
    <3>3. b \in 0 .. nd - 1
      BY <2>1, <3>2
    <3>4. Real(b) => DecodeQuery(b, j) = t
      BY <2>1, <3>2, <3>3
    <3>5. Scored(b, j, t) = Wanted(t)
      BY <1>5, <3>2, <3>3, <3>4, GroupedRow DEF maxd, mind, nd
    <3> QED BY <3>5 DEF b, j
  <2> QED BY <2>1, <2>2, Zenon
<1> QED BY <1>2, <1>4, <1>5

\* Unpacking finds every row of a request where it belongs.
LEMMA UnpackSame ==
  ASSUME BuilderOk, RequestsOk, BatchOk, NumDecodes > 0, meta = Built, meta.dec.pad,
         NEW t \in Nat, t < Cumulative(meta.dec.lens, meta.dec.size)[meta.dec.size]
  PROVE  LET d  == meta.dec
             cu == Cumulative(d.lens, d.size)
             b  == CHOOSE x \in 0 .. d.size-1 : cu[x] <= t /\ t < cu[x + 1]
         IN  b * DecodeWidth + (t - cu[b]) = t
<1> DEFINE nd == NumDecodes
<1> DEFINE maxd == Largest(Lens(nd))
<1> DEFINE mind == Smallest(Lens(nd))
<1> DEFINE d == meta.dec
<1> DEFINE cu == Cumulative(d.lens, d.size)
<1> DEFINE b == CHOOSE x \in 0 .. d.size-1 : cu[x] <= t /\ t < cu[x + 1]
<1>1. d = DecodeMeta(nd, meta.ndt) /\ nd \in 1 .. N /\ N \in Nat
  BY BuiltIs, LensAre
<1>2. GroupedDecodes(d, nd, maxd) /\ (mind = maxd <=> ~Padded)
  BY <1>1, DecodeShape DEF FlatDecodes
<1>3. /\ maxd \in Nat \ {0} /\ DecodeWidth = maxd
      /\ d.size = nd /\ d.lens = [x \in 0 .. nd - 1 |-> QLen(x)]
  BY <1>2, GroupedWidth DEF GroupedDecodes
<1> HIDE DEF nd, maxd, mind, cu
<1>4. Sums(cu, d.lens, nd) /\ \A i \in 0 .. nd : cu[i] = Qsl[i]
  <2>1. nd \in 0 .. N /\ cu = Cumulative(d.lens, nd)
    BY <1>1, <1>3 DEF cu
  <2> QED BY <1>3, <2>1, LensCumulate
<1>5. \A i \in 0 .. nd - 1 : d.lens[i] \in Nat /\ i \in Indices
  <2>1. \A i \in 0 .. nd - 1 : i \in Indices
    BY <1>1 DEF Indices
  <2> QED BY <1>3, <2>1 DEF BatchOk
<1>6. \E x \in 0 .. nd - 1 : cu[x] <= t /\ t < cu[x + 1]
  <2>1. t < cu[nd] /\ nd \in Nat
    BY <1>1, <1>3 DEF cu
  <2> QED BY <1>4, <1>5, <2>1, Located
<1>7. b \in 0 .. nd - 1 /\ cu[b] <= t /\ t < cu[b + 1]
  BY <1>3, <1>6, Zenon
<1> HIDE DEF b
<1>8. cu[b] = Qsl[b] /\ cu[b + 1] = Qsl[b + 1] /\ b \in Indices
  BY <1>1, <1>4, <1>5, <1>7
<1>9. Real(b)
  BY <1>7, <1>8, RowsReal
<1>10. Qsl[b] = b * maxd /\ b * maxd \in Nat
  BY <1>2, <1>7, <1>9, EvenReal DEF nd, maxd, mind
<1>11. b * DecodeWidth + (t - cu[b]) = t
  BY <1>3, <1>8, <1>10
<1> QED BY <1>11 DEF b, cu

-----------------------------------------------------------------------------
(* The workspace and the buffer while a batch is served *)

\* What the prefill loop has left in row t.
Answered(t) ==
  IF \E k \in 1 .. next - 1 : t \in meta.chunks[k].tokens THEN Wanted(t) ELSE Filler

\* The workspace holds what chunk c gathers.
HoldsOwn(c) == \A i \in 0 .. c.cu[c.stop - c.start] - 1 : ws[i] = Own(c, i)

RowsInv ==
  /\ pc \in {"schedule", "build", "insert", "prefill", "decode", "unpack", "attend", "sample"}
  /\ DOMAIN ws = 0 .. Workspace-1
  /\ pc \in {"schedule", "build"} => meta = NoMeta /\ next = 1
  /\ pc \notin {"schedule", "build"} => meta = Built /\ next \in 1 .. Len(meta.chunks) + 1
  /\ Serving => /\ DOMAIN rows = 0 .. batch.tokens-1
                 /\ rows = [t \in DOMAIN rows |-> rows[t]]
  /\ pc = "prefill" =>
       /\ \A t \in DOMAIN rows : rows[t] = Answered(t)
       /\ next > 1 => HoldsOwn(meta.chunks[next - 1])
  /\ pc = "decode" =>
       /\ meta.nd > 0
       /\ \A t \in DOMAIN rows : rows[t] = IF t < Qsl[meta.nd] THEN Filler ELSE Wanted(t)
  /\ pc = "unpack" => meta.nd > 0 /\ meta.dec.pad
  /\ pc \in {"unpack", "attend"} => \A t \in DOMAIN rows : rows[t] = Wanted(t)

LEMMA WantedSame ==
  ASSUME UNCHANGED <<batch, len, ratio, layer>>, NEW t
  PROVE  Wanted(t)' = Wanted(t)
<1>1. batch' = batch /\ len' = len /\ ratio' = ratio /\ layer' = layer
  OBVIOUS
<1> QED BY <1>1, Zenon DEF Wanted, RowReq, N, Qsl, Req, Row, Filler

LEMMA OwnSame ==
  ASSUME UNCHANGED <<batch, kv, layer>>, NEW c, NEW i
  PROVE  Own(c, i)' = Own(c, i)
<1>1. batch' = batch /\ kv' = kv /\ layer' = layer
  OBVIOUS
<1> QED BY <1>1, Zenon DEF Own, Entry, Req

\* The workspace after the gather, or where the gather is skipped.
LEMMA GatheredOwn ==
  ASSUME CacheInv, StepInv, RowsInv, pc = "prefill", next <= Len(meta.chunks),
         NEW c, c = meta.chunks[next], NEW w,
         w = (IF Gathers(c) THEN Gathered(c) ELSE ws)
  PROVE  /\ ~Padded /\ ChunkOk(c, NumDecodes) /\ next \in Nat /\ next >= 1
         /\ DOMAIN w = 0 .. Workspace-1
         /\ \A i \in 0 .. c.cu[c.stop - c.start] - 1 : w[i] = Own(c, i)
         /\ \A i \in 0 .. c.cu[c.stop - c.start] - 1 : Gathered(c)[i] = Own(c, i)
<1> DEFINE q == meta.chunks
<1>1. BatchOk /\ BuilderOk /\ RequestsOk /\ meta = Built /\ next \in 1 .. Len(q) + 1
      /\ DOMAIN ws = 0 .. Workspace-1
  BY DEF StepInv, RowsInv
<1>2. /\ Len(q) \in Nat /\ (Len(q) > 0 => ~Padded)
      /\ \A k \in 1 .. Len(q) : ChunkOk(q[k], NumDecodes) /\ Continues(q, k)
  BY <1>1, BuiltChunks
<1> HIDE DEF q
<1>3. next \in 1 .. Len(q) /\ Len(q) > 0 /\ next \in Nat /\ next >= 1
  BY <1>1, <1>2 DEF q
<1>4. ~Padded /\ ChunkOk(c, NumDecodes) /\ Continues(q, next) /\ c = q[next]
  BY <1>2, <1>3 DEF q
<1> DEFINE n == c.cu[c.stop - c.start]
<1>5. n \in Nat /\ n <= Workspace
  <2>1. NumDecodes \in 0 .. N
    BY <1>1, NumDecodesIs
  <2>2. c.stop - c.start \in Nat /\ \A b \in 0 .. c.stop - c.start : c.cu[b] \in Nat
    BY <1>1, <1>4, <2>1, ChunkCu
  <2>3. n <= Workspace
    BY <1>4 DEF ChunkOk
  <2> QED BY <2>2, <2>3
<1>6. ASSUME NEW i \in 0 .. n - 1 PROVE Gathered(c)[i] = Own(c, i)
  <2>1. i \in DOMAIN ws /\ i < n
    BY <1>1, <1>5, IndexerConstants
  <2> QED BY <2>1, Zenon DEF Gathered, Own
<1>7. DOMAIN Gathered(c) = 0 .. Workspace-1
  BY <1>1, Zenon DEF Gathered
<1>8. ASSUME ~Gathers(c), NEW i \in 0 .. n - 1 PROVE ws[i] = Own(c, i)
  <2>1. c.skip
    BY <1>8 DEF Gathers
  <2> DEFINE p == q[next - 1]
  <2>2. next > 1 /\ p.start = c.start /\ p.stop = c.stop /\ p.cu = c.cu
    BY <1>4, <2>1 DEF Continues
  <2>3. HoldsOwn(p)
    BY <2>2 DEF RowsInv, q
  <2> HIDE DEF p
  <2>4. ws[i] = Own(p, i)
    BY <2>2, <2>3 DEF HoldsOwn
  <2>5. Own(p, i) = Own(c, i)
    BY <2>2, Zenon DEF Own
  <2> QED BY <2>4, <2>5
<1>9. /\ DOMAIN w = 0 .. Workspace-1
      /\ \A i \in 0 .. n - 1 : w[i] = Own(c, i)
  <2>1. CASE Gathers(c)
    BY <1>6, <1>7, <2>1
  <2>2. CASE ~Gathers(c)
    BY <1>1, <1>8, <2>2
  <2> QED BY <2>1, <2>2
<1> QED BY <1>3, <1>4, <1>6, <1>9

LEMMA ScoreChunkRows ==
  ASSUME CacheInv, StepInv, RowsInv, ScoreChunk
  PROVE  RowsInv'
<1>0. PICK c : c = meta.chunks[next]
  OBVIOUS
<1> DEFINE n == c.cu[c.stop - c.start]
<1>1. /\ pc = "prefill" /\ next <= Len(meta.chunks) /\ next' = next + 1
      /\ UNCHANGED <<batch, len, slack, kv, meta, pc, layer, nextN, flatten, ratio, elems>>
      /\ ws' = IF Gathers(c) THEN Gathered(c) ELSE ws
      /\ rows' = [t \in DOMAIN rows |->
                    IF t \in c.tokens
                      THEN Row(t, t, {ws'[i] : i \in c.ks[t] .. c.ke[t]-1})
                      ELSE rows[t]]
  BY <1>0 DEF ScoreChunk, deploy
<1>2. /\ ~Padded /\ ChunkOk(c, NumDecodes) /\ next \in Nat /\ next >= 1
      /\ DOMAIN ws' = 0 .. Workspace-1
      /\ \A i \in 0 .. n - 1 : ws'[i] = Own(c, i)
  BY <1>0, <1>1, GatheredOwn
<1>3. /\ BatchOk /\ BuilderOk /\ RequestsOk /\ meta = Built /\ Entered(layer)
      /\ NumDecodes \in 0 .. N /\ next \in 1 .. Len(meta.chunks) + 1
      /\ DOMAIN rows = 0 .. batch.tokens-1
      /\ \A t \in DOMAIN rows : rows[t] = Answered(t)
  <2>1. BatchOk /\ BuilderOk /\ RequestsOk /\ Entered(layer)
    BY <1>1 DEF StepInv, Entered
  <2> QED BY <1>1, <2>1, NumDecodesIs DEF RowsInv, Serving
<1>5. Built' = Built
  BY <1>1, BuiltSame
<1>6. next' \in 1 .. Len(meta'.chunks) + 1
  <2>1. Len(meta.chunks) \in Nat
    BY <1>3, BuiltChunks
  <2> QED BY <1>1, <1>2, <2>1
<1>7. DOMAIN rows' = 0 .. batch'.tokens-1
  BY <1>1, <1>3
<1>8. ASSUME NEW t \in DOMAIN rows' PROVE rows'[t] = Answered(t)'
  <2>0. t \in DOMAIN rows /\ meta' = meta /\ Wanted(t)' = Wanted(t)
    BY <1>1, <1>3, <1>7, WantedSame
  <2>1. (\E k \in 1 .. next' - 1 : t \in meta'.chunks[k].tokens)
           <=> t \in c.tokens \/ \E k \in 1 .. next - 1 : t \in meta.chunks[k].tokens
    <3>1. next' - 1 = next /\ \A k : k \in 1 .. next' - 1 <=> k \in 1 .. next - 1 \/ k = next
      BY <1>1, <1>2
    <3> QED BY <1>0, <2>0, <3>1, Zenon
  <2>2. Answered(t)' = IF \E k \in 1 .. next' - 1 : t \in meta'.chunks[k].tokens
                         THEN Wanted(t) ELSE Filler
    BY <2>0, Zenon DEF Answered, Filler
  <2>3. CASE t \in c.tokens
    <3>1. rows'[t] = Row(t, t, {ws'[i] : i \in c.ks[t] .. c.ke[t]-1})
      BY <1>1, <2>0, <2>3, Zenon
    <3>2. Row(t, t, {ws'[i] : i \in c.ks[t] .. c.ke[t]-1}) = Wanted(t)
      <4>1. CacheInv /\ t \in c.tokens /\ \A i \in 0 .. c.cu[c.stop - c.start] - 1 : ws'[i] = Own(c, i)
        BY <1>2, <2>3
      <4>2. PICK w : w = ws'
        OBVIOUS
      <4>3. \A i \in 0 .. c.cu[c.stop - c.start] - 1 : w[i] = Own(c, i)
        BY <4>1, <4>2
      <4>4. ChunkOk(c, NumDecodes) /\ ~Padded
        BY <1>2
      <4>5. BatchOk /\ BuilderOk /\ RequestsOk /\ Entered(layer) /\ NumDecodes \in 0 .. N
        BY <1>3
      <4>6. Row(t, t, {w[i] : i \in c.ks[t] .. c.ke[t]-1}) = Wanted(t)
        BY <2>3, <4>3, <4>4, <4>5, ScoredRow
      <4> QED BY <4>2, <4>6
    <3> QED BY <2>1, <2>2, <2>3, <3>1, <3>2, Zenon
  <2>4. CASE t \notin c.tokens
    <3>1. rows'[t] = rows[t] /\ rows[t] = Answered(t)
      BY <1>1, <1>3, <2>0, <2>4, Zenon
    <3> QED BY <2>1, <2>2, <2>4, <3>1, Zenon DEF Answered
  <2> QED BY <2>3, <2>4
<1>9. HoldsOwn(meta.chunks[next - 1])'
  <2>1. meta'.chunks[next' - 1] = c
    <3>1. next' - 1 = next
      BY <1>1, <1>2
    <3> QED BY <1>0, <1>1, <3>1
  <2>2. ASSUME NEW i PROVE Own(c, i)' = Own(c, i)
    BY <1>1, OwnSame
  <2>3. HoldsOwn(c)'
    BY <1>2, <2>2 DEF HoldsOwn
  <2> QED BY <2>1, <2>3, Zenon DEF HoldsOwn
<1>10. meta' = Built' /\ pc' = "prefill"
  BY <1>1, <1>3, <1>5
<1>11. rows' = [t \in DOMAIN rows' |-> rows'[t]]
  BY <1>1
<1> QED BY <1>1, <1>2, <1>6, <1>7, <1>8, <1>9, <1>10, <1>11 DEF RowsInv, Serving

\* What a step that leaves batch and metadata alone may rely on.
LEMMA ServedSame ==
  ASSUME StepInv, RowsInv, pc \notin {"schedule", "build"},
         UNCHANGED <<nextN, flatten, ratio, elems, len, slack, batch, meta>>
  PROVE  /\ BatchOk /\ BuilderOk /\ RequestsOk /\ meta = Built /\ meta' = Built'
         /\ NumDecodes \in 0 .. N /\ meta.nd = NumDecodes
         /\ Len(meta.chunks) \in Nat /\ next \in 1 .. Len(meta.chunks) + 1
<1>1. BatchOk /\ BuilderOk /\ RequestsOk /\ meta = Built /\ next \in 1 .. Len(meta.chunks) + 1
  BY DEF StepInv, RowsInv
<1>2. Built' = Built
  BY BuiltSame
<1> QED BY <1>1, <1>2, NumDecodesIs, BuiltIs, BuiltChunks

LEMMA BuildRows ==
  ASSUME StepInv, RowsInv, Build
  PROVE  RowsInv'
<1>1. /\ pc = "build" /\ pc' = "insert" /\ meta' = Built
      /\ UNCHANGED <<nextN, flatten, ratio, elems, len, slack, batch, next, ws>>
  BY DEF Build, deploy
<1>2. BatchOk /\ BuilderOk /\ RequestsOk /\ next = 1 /\ DOMAIN ws = 0 .. Workspace-1
  BY <1>1 DEF StepInv, RowsInv
<1>3. Built' = Built
  BY <1>1, BuiltSame
<1>4. Len(meta'.chunks) \in Nat
  BY <1>1, <1>2, BuiltChunks
<1>5. next' \in 1 .. Len(meta'.chunks) + 1
  BY <1>1, <1>2, <1>4
<1> QED BY <1>1, <1>2, <1>3, <1>5 DEF RowsInv, Serving

LEMMA InsertRows ==
  ASSUME StepInv, RowsInv, Insert
  PROVE  RowsInv'
<1>1. /\ pc = "insert" /\ pc' = "prefill" /\ next' = 1
      /\ rows' = [t \in 0 .. batch.tokens-1 |-> Filler]
      /\ UNCHANGED <<nextN, flatten, ratio, elems, len, slack, batch, meta, ws>>
  BY DEF Insert, deploy
<1>2. /\ meta' = Built' /\ Len(meta.chunks) \in Nat /\ DOMAIN ws = 0 .. Workspace-1
  BY <1>1, ServedSame DEF RowsInv
<1>3. next' \in 1 .. Len(meta'.chunks) + 1
  BY <1>1, <1>2
<1>4. DOMAIN rows' = 0 .. batch'.tokens-1
  BY <1>1
<1>5. ASSUME NEW t \in DOMAIN rows' PROVE rows'[t] = Answered(t)'
  <2>1. rows'[t] = Filler
    BY <1>1
  <2>2. 1 .. next' - 1 = {}
    BY <1>1
  <2>3. Answered(t)' = Filler
    BY <2>2, Zenon DEF Answered, Filler
  <2> QED BY <2>1, <2>3
<1>6. ~(next' > 1)
  BY <1>1
<1>7. rows' = [t \in DOMAIN rows' |-> rows'[t]]
  BY <1>1
<1> QED BY <1>1, <1>2, <1>3, <1>4, <1>5, <1>6, <1>7 DEF RowsInv, Serving

LEMMA TokensType ==
  ASSUME BatchOk, BuilderOk
  PROVE  batch.tokens \in Nat /\ Qsl[N] \in Nat
<1>1. Qsl[N] \in Nat
  <2>1. N \in 0 .. N
    BY QslIs
  <2> QED BY <2>1, QslIs
<1>2. CASE Padded
  <2>1. batch.tokens = N * nextN /\ N \in Nat /\ nextN \in Nat
    BY <1>2 DEF BatchOk, BuilderOk
  <2> QED BY <1>1, <2>1
<1>3. CASE ~Padded
  BY <1>1, <1>3 DEF BatchOk
<1> QED BY <1>2, <1>3

LEMMA EndPrefillRows ==
  ASSUME StepInv, RowsInv, EndPrefill
  PROVE  RowsInv'
<1>1. /\ pc = "prefill" /\ next > Len(meta.chunks)
      /\ pc' = IF meta.nd > 0 THEN "decode" ELSE "attend"
      /\ UNCHANGED <<nextN, flatten, ratio, elems, len, slack, batch, meta, ws, rows, next, layer>>
  BY DEF EndPrefill, deploy
<1>2. /\ BatchOk /\ BuilderOk /\ RequestsOk /\ meta = Built /\ meta' = Built'
      /\ NumDecodes \in 0 .. N /\ meta.nd = NumDecodes
      /\ Len(meta.chunks) \in Nat /\ next \in 1 .. Len(meta.chunks) + 1
  BY <1>1, ServedSame
<1>3. /\ DOMAIN ws = 0 .. Workspace-1 /\ DOMAIN rows = 0 .. batch.tokens-1
      /\ \A t \in DOMAIN rows : rows[t] = Answered(t)
      /\ rows = [t \in DOMAIN rows |-> rows[t]]
  BY <1>1 DEF RowsInv, Serving
<1>4. next - 1 = Len(meta.chunks)
  BY <1>1, <1>2
<1>5. /\ Qsl[NumDecodes] \in Nat /\ Qsl[N] \in Nat /\ Qsl[0] = 0
  <2>1. NumDecodes \in 0 .. N /\ N \in 0 .. N
    BY <1>2, QslIs
  <2> QED BY <1>2, <2>1, QslIs
<1>6. batch.tokens \in Nat
  BY <1>2, TokensType
<1>7. ASSUME NEW t \in DOMAIN rows
      PROVE  rows[t] = IF t < Qsl[meta.nd] THEN Filler ELSE Wanted(t)
  <2>1. t \in Nat
    BY <1>3, <1>6
  <2>2. rows[t] = IF \E k \in 1 .. Len(meta.chunks) : t \in meta.chunks[k].tokens
                    THEN Wanted(t) ELSE Filler
    BY <1>3, <1>4 DEF Answered
  <2>3. CASE t < Qsl[NumDecodes]
    <3>1. ASSUME NEW k \in 1 .. Len(meta.chunks), t \in meta.chunks[k].tokens PROVE FALSE
      <4>1. /\ ChunkOk(meta.chunks[k], NumDecodes) /\ Len(meta.chunks) > 0
        BY <1>2, BuiltChunks
      <4>2. meta.chunks[k].start \in NumDecodes .. N - 1
            /\ t \in Qsl[meta.chunks[k].start] .. Qsl[meta.chunks[k].stop] - 1
            /\ meta.chunks[k].stop \in meta.chunks[k].start + 1 .. N
        BY <3>1, <4>1 DEF ChunkOk
      <4> DEFINE a == meta.chunks[k].start
      <4> DEFINE z == meta.chunks[k].stop
      <4> HIDE DEF a, z
      <4>3. a \in NumDecodes .. N - 1 /\ t \in Qsl[a] .. Qsl[z] - 1 /\ z \in a + 1 .. N
        BY <4>2 DEF a, z
      <4>4. a \in 0 .. N /\ z \in 0 .. N /\ NumDecodes <= a
        BY <1>2, <4>3, QslIs
      <4>5. Qsl[a] \in Nat /\ Qsl[z] \in Nat /\ Qsl[NumDecodes] <= Qsl[a]
        BY <1>2, <4>4, QslIs
      <4> QED BY <1>5, <2>3, <4>3, <4>5
    <3> QED BY <1>2, <2>2, <2>3, <3>1
  <2>4. CASE ~(t < Qsl[NumDecodes])
    <3>1. CASE t < Qsl[N]
      <4>1. t \in Qsl[NumDecodes] .. Qsl[N] - 1
        BY <1>5, <2>1, <2>4, <3>1
      <4>2. (\E k \in 1 .. Len(meta.chunks) : t \in meta.chunks[k].tokens) \/ Wanted(t) = Filler
        BY <1>2, <4>1, BuiltChunks
      <4> QED BY <1>2, <2>2, <2>4, <4>2
    <3>2. CASE ~(t < Qsl[N])
      <4>1. Wanted(t) = Filler
        <5>1. t >= Qsl[N]
          BY <1>5, <2>1, <3>2
        <5> QED BY <5>1 DEF Wanted
      <4> QED BY <1>2, <2>2, <2>4, <4>1
    <3> QED BY <3>1, <3>2
  <2> QED BY <2>3, <2>4, <1>2
<1>8. ASSUME NEW t PROVE Wanted(t)' = Wanted(t)
  BY <1>1, WantedSame
<1>9. /\ DOMAIN ws' = 0 .. Workspace-1 /\ DOMAIN rows' = 0 .. batch'.tokens-1
      /\ next' \in 1 .. Len(meta'.chunks) + 1
  BY <1>1, <1>2, <1>3
<1>10. rows' = [t \in DOMAIN rows' |-> rows'[t]]
  <2>1. rows' = rows /\ rows = [t \in DOMAIN rows |-> rows[t]]
    BY <1>1, <1>3
  <2> QED BY <2>1, Zenon
<1>11. CASE meta.nd > 0
  <2>1. pc' = "decode" /\ meta'.nd > 0
    BY <1>1, <1>11
  <2>2. ASSUME NEW t \in DOMAIN rows'
        PROVE  (rows[t] = IF t < Qsl[meta.nd] THEN Filler ELSE Wanted(t))'
    <3>1. t \in DOMAIN rows /\ rows'[t] = rows[t] /\ meta' = meta /\ Qsl' = Qsl
      BY <1>1 DEF Qsl
    <3> QED BY <1>7, <1>8, <3>1, Zenon DEF Filler
  <2> QED BY <1>2, <1>9, <1>10, <2>1, <2>2 DEF RowsInv, Serving
<1>12. CASE ~(meta.nd > 0)
  <2>1. pc' = "attend" /\ NumDecodes = 0
    BY <1>1, <1>2, <1>12, QslIs
  <2>2. ASSUME NEW t \in DOMAIN rows' PROVE rows'[t] = Wanted(t)'
    <3>1. t \in DOMAIN rows /\ rows'[t] = rows[t] /\ t \in Nat
      BY <1>1, <1>3, <1>6
    <3>2. ~(t < Qsl[meta.nd])
      BY <1>2, <1>5, <2>1, <3>1
    <3> QED BY <1>7, <1>8, <3>1, <3>2
  <2> QED BY <1>2, <1>9, <1>10, <2>1, <2>2 DEF RowsInv, Serving
<1> QED BY <1>11, <1>12

LEMMA ScoreDecodeRows ==
  ASSUME CacheInv, StepInv, RowsInv, ScoreDecode
  PROVE  RowsInv'
<1> DEFINE d == meta.dec
<1> DEFINE w == DecodeWidth
<1> DEFINE Scored(t) == Row(DecodeQuery(t \div w, t % w), t,
                            {Entry(layer, d.table[t \div w], i) :
                               i \in 0 .. d.ctx[t \div w][t % w]-1})
<1>1. /\ pc = "decode"
      /\ rows' = [t \in DOMAIN rows |-> IF t < d.size * w THEN Scored(t) ELSE rows[t]]
      /\ ws' = [i \in DOMAIN ws |-> Clobbered]
      /\ pc' = IF d.pad THEN "unpack" ELSE "attend"
      /\ UNCHANGED <<nextN, flatten, ratio, elems, len, slack, batch, meta, next, layer>>
  BY Zenon DEF ScoreDecode, deploy
<1>2. /\ BatchOk /\ BuilderOk /\ RequestsOk /\ meta = Built /\ meta' = Built'
      /\ NumDecodes \in 0 .. N /\ meta.nd = NumDecodes /\ meta.nd > 0
      /\ next \in 1 .. Len(meta.chunks) + 1
      /\ DOMAIN ws = 0 .. Workspace-1 /\ DOMAIN rows = 0 .. batch.tokens-1
      /\ \A t \in DOMAIN rows : rows[t] = IF t < Qsl[meta.nd] THEN Filler ELSE Wanted(t)
  BY <1>1, ServedSame DEF RowsInv, Serving
<1>3. /\ d.size * w = meta.ndt
      /\ \A t \in 0 .. meta.ndt - 1 : Scored(t) = Wanted(t)
  <2>1. Entered(layer) /\ NumDecodes > 0
    BY <1>1, <1>2 DEF Entered
  <2> QED BY <1>2, <2>1, DecodeScored
<1>4. /\ meta.ndt \in Nat /\ batch.tokens \in Nat
      /\ Qsl[NumDecodes] \in Nat /\ Qsl[NumDecodes] <= meta.ndt
  <2>1. meta.ndt = IF NumDecodes = N THEN batch.tokens ELSE Qsl[NumDecodes]
    BY <1>2, BuiltIs
  <2> QED BY <1>2, <2>1, DecodeRowsAre
<1> HIDE DEF w, Scored, d
<1>5. ASSUME NEW t \in DOMAIN rows PROVE rows'[t] = Wanted(t)
  <2>1. t \in Nat
    BY <1>2, <1>4
  <2>2. CASE t < meta.ndt
    <3>1. t \in 0 .. meta.ndt - 1
      BY <1>4, <2>1, <2>2
    <3> QED BY <1>1, <1>3, <2>2, <3>1
  <2>3. CASE ~(t < meta.ndt)
    <3>1. ~(t < Qsl[meta.nd])
      BY <1>2, <1>4, <2>1, <2>3
    <3> QED BY <1>1, <1>2, <1>3, <2>3, <3>1
  <2> QED BY <2>2, <2>3
<1>6. /\ DOMAIN ws' = 0 .. Workspace-1 /\ DOMAIN rows' = 0 .. batch'.tokens-1
      /\ next' \in 1 .. Len(meta'.chunks) + 1 /\ meta'.nd > 0
      /\ DOMAIN rows' = DOMAIN rows
  BY <1>1, <1>2
<1>7. ASSUME NEW t \in DOMAIN rows' PROVE (rows[t] = Wanted(t))'
  BY <1>1, <1>5, <1>6, WantedSame
<1>8. (pc' = "unpack" /\ meta'.dec.pad) \/ pc' = "attend"
  BY <1>1 DEF d
<1>9. rows' = [t \in DOMAIN rows' |-> rows'[t]]
  BY <1>1
<1> QED BY <1>2, <1>6, <1>7, <1>8, <1>9 DEF RowsInv, Serving

LEMMA UnpackRows ==
  ASSUME StepInv, RowsInv, Unpack
  PROVE  RowsInv' /\ rows' = [t \in DOMAIN rows |-> rows[t]]
<1> DEFINE d == meta.dec
<1> DEFINE cu == Cumulative(d.lens, d.size)
<1> DEFINE Place(t) == CHOOSE x \in 0 .. d.size-1 : cu[x] <= t /\ t < cu[x + 1]
<1>1. /\ pc = "unpack" /\ pc' = "attend"
      /\ rows' = [t \in DOMAIN rows |->
                    IF t < cu[d.size] THEN rows[Place(t) * DecodeWidth + (t - cu[Place(t)])]
                    ELSE rows[t]]
      /\ UNCHANGED <<nextN, flatten, ratio, elems, len, slack, batch, meta, next, layer, ws>>
  BY Zenon DEF Unpack, deploy
<1>2. /\ BatchOk /\ BuilderOk /\ RequestsOk /\ meta = Built /\ meta' = Built'
      /\ meta.nd = NumDecodes /\ meta.nd > 0 /\ d.pad
      /\ next \in 1 .. Len(meta.chunks) + 1
      /\ DOMAIN ws = 0 .. Workspace-1 /\ DOMAIN rows = 0 .. batch.tokens-1
      /\ \A t \in DOMAIN rows : rows[t] = Wanted(t)
  BY <1>1, ServedSame DEF RowsInv, Serving
<1>3. ASSUME NEW t \in DOMAIN rows, t < cu[d.size]
      PROVE  Place(t) * DecodeWidth + (t - cu[Place(t)]) = t
  <2>1. t \in Nat
    BY <1>2, TokensType
  <2> QED BY <1>2, <1>3, <2>1, UnpackSame
<1> HIDE DEF cu, Place, d
<1>4. ASSUME NEW t \in DOMAIN rows PROVE rows'[t] = rows[t]
  BY <1>1, <1>3
<1>5. DOMAIN rows' = DOMAIN rows
  BY <1>1
<1>6. rows' = [t \in DOMAIN rows |-> rows[t]] /\ rows' = [t \in DOMAIN rows' |-> rows'[t]]
  BY <1>1, <1>3
<1>7. ASSUME NEW t \in DOMAIN rows' PROVE (rows[t] = Wanted(t))'
  BY <1>1, <1>2, <1>4, <1>5, WantedSame
<1>8. DOMAIN ws' = 0 .. Workspace-1 /\ DOMAIN rows' = 0 .. batch'.tokens-1
      /\ next' \in 1 .. Len(meta'.chunks) + 1
  BY <1>1, <1>2, <1>5
<1> QED BY <1>1, <1>2, <1>6, <1>7, <1>8 DEF RowsInv, Serving

LEMMA AttendRows ==
  ASSUME StepInv, RowsInv, Attend
  PROVE  RowsInv'
<1>1. /\ pc = "attend" /\ pc' \in {"insert", "sample"}
      /\ ws' = [i \in DOMAIN ws |-> Clobbered]
      /\ UNCHANGED <<nextN, flatten, ratio, elems, len, slack, batch, meta, next, rows>>
  BY DEF Attend, deploy
<1>2. meta' = Built' /\ next \in 1 .. Len(meta.chunks) + 1 /\ DOMAIN ws = 0 .. Workspace-1
  BY <1>1, ServedSame DEF RowsInv
<1>3. next' \in 1 .. Len(meta'.chunks) + 1 /\ DOMAIN ws' = 0 .. Workspace-1
  BY <1>1, <1>2
<1> QED BY <1>1, <1>2, <1>3 DEF RowsInv, Serving

LEMMA InitRowsInv == Init => RowsInv
BY DEF Init, RowsInv, Serving

LEMMA NextRowsInv == CacheInv /\ StepInv /\ RowsInv /\ [Next]_vars => RowsInv'
<1> SUFFICES ASSUME CacheInv, StepInv, RowsInv, [Next]_vars PROVE RowsInv'
  OBVIOUS
<1>1. CASE Schedule
  <2>1. pc = "schedule" /\ pc' = "build" /\ UNCHANGED <<meta, next, ws>>
    BY <1>1 DEF Schedule
  <2>2. meta = NoMeta /\ next = 1 /\ DOMAIN ws = 0 .. Workspace-1
    BY <2>1 DEF RowsInv
  <2> QED BY <2>1, <2>2 DEF RowsInv, Serving, NoMeta
<1>2. CASE Sample
  <2>1. pc' = "schedule" /\ meta' = NoMeta /\ next' = 1 /\ ws' = ws
    BY <1>2 DEF Sample
  <2> QED BY <2>1 DEF RowsInv, Serving, NoMeta
<1>3. CASE \E r \in Reqs : Replace(r)
  <2>1. pc = "schedule" /\ pc' = pc /\ UNCHANGED <<meta, next, ws>>
    BY <1>3 DEF Replace
  <2>2. meta = NoMeta /\ next = 1 /\ DOMAIN ws = 0 .. Workspace-1
    BY <2>1 DEF RowsInv
  <2> QED BY <2>1, <2>2 DEF RowsInv, Serving, NoMeta
<1>4. CASE UNCHANGED vars
  <2>1. UNCHANGED <<nextN, flatten, ratio, elems, len, slack, kv, batch, meta, pc, layer, next,
                    ws, rows>>
    BY <1>4 DEF vars
  <2>2. Built' = Built
    BY <2>1, BuiltSame
  <2>3. ASSUME NEW t PROVE Wanted(t)' = Wanted(t) /\ Answered(t)' = Answered(t)
    BY <2>1, WantedSame, Zenon DEF Answered, Filler
  <2>4. ASSUME NEW c PROVE HoldsOwn(c)' <=> HoldsOwn(c)
    BY <2>1, OwnSame DEF HoldsOwn
  <2>5. HoldsOwn(meta.chunks[next - 1])' <=> HoldsOwn(meta.chunks[next - 1])
    <3>1. PICK c : c = meta.chunks[next - 1]
      OBVIOUS
    <3>2. c = meta'.chunks[next' - 1]
      BY <2>1, <3>1
    <3>3. HoldsOwn(meta.chunks[next - 1])' <=> HoldsOwn(c)'
      BY <3>2, Zenon DEF HoldsOwn
    <3> QED BY <2>4, <3>1, <3>3, Zenon
  <2>6. Qsl' = Qsl
    BY <2>1 DEF Qsl
  <2>7. rows' = rows /\ ws' = ws /\ meta' = meta /\ pc' = pc /\ next' = next /\ batch' = batch
    BY <2>1
  <2> QED BY <2>2, <2>3, <2>5, <2>6, <2>7 DEF RowsInv, Serving, NoMeta, Filler
<1> QED BY <1>1, <1>2, <1>3, <1>4, BuildRows, InsertRows, ScoreChunkRows, EndPrefillRows,
           ScoreDecodeRows, UnpackRows, AttendRows DEF Next

-----------------------------------------------------------------------------
(* What holds in every state *)

IndexerInv == CacheInv /\ StepInv /\ RowsInv

LEMMA InvHolds == Spec => []IndexerInv
<1>1. Init => IndexerInv
  BY InitCacheInv, InitStepInv, InitRowsInv DEF IndexerInv
<1>2. IndexerInv /\ [Next]_vars => IndexerInv'
  BY NextCacheInv, NextStepInv, NextRowsInv DEF IndexerInv
<1> QED BY <1>1, <1>2, PTL DEF Spec

LEMMA EntriesBounded ==
  ASSUME IndexerInv, NEW l \in Layers, NEW r \in Reqs
  PROVE  kv[l][r] \subseteq 0 .. MaxLen-1
<1> DEFINE m == len[r] + IF Entered(l) THEN Given(r) ELSE 0
<1>1. /\ kv[l][r] = 0 .. (m \div ratio) - 1 /\ ratio \in Nat \ {0} /\ BatchType
      /\ MaxLen \in Nat /\ len[r] \in Nat /\ len[r] <= MaxLen
  BY IndexerConstants DEF IndexerInv, CacheInv, StepInv, RequestsOk
<1>2. m \in Nat /\ m <= MaxLen
  <2>1. CASE Entered(l) /\ Places(r) # {}
    <3>1. PICK b \in Indices : Req(b) = r
      BY <2>1 DEF Places
    <3>2. Given(r) = QLen(b)
      BY <1>1, <3>1, OnePlace
    <3>3. pc # "schedule"
      BY <2>1, LayerOne DEF Entered, IndexerInv, CacheInv
    <3>4. BatchOk /\ RequestsOk /\ Real(b)
      BY <3>1, <3>3, IndexerConstants DEF IndexerInv, StepInv, Real
    <3>5. QLen(b) \in Nat /\ len[r] + QLen(b) <= MaxLen
      BY <3>1, <3>4 DEF BatchOk
    <3> QED BY <1>1, <2>1, <3>2, <3>5
  <2>2. CASE ~(Entered(l) /\ Places(r) # {})
    <3>1. m = len[r] + 0
      BY <2>2 DEF Given
    <3> QED BY <1>1, <3>1
  <2> QED BY <2>1, <2>2
<1> HIDE DEF m
<1>3. m \div ratio \in Nat /\ m \div ratio <= MaxLen
  <2> DEFINE n == m \div ratio
  <2>1. n \in Nat /\ n * ratio <= m
    BY <1>1, <1>2, Quotient
  <2> HIDE DEF n
  <2>2. n * 1 <= n * ratio /\ n * ratio \in Nat
    <3>1. 1 * n <= ratio * n
      BY <1>1, <2>1, TimesMonotone
    <3> QED BY <1>1, <2>1, <3>1
  <2>3. n <= MaxLen
    BY <1>1, <1>2, <2>1, <2>2
  <2> QED BY <2>1, <2>3 DEF n
<1> QED BY <1>1, <1>3

\* Every variable has its type: no request outgrows the model length, no layer
\* of the cache holds an entry beyond it, the loop's next chunk is one of the
\* chunks build() returned or the place behind them, and the metadata counts no
\* more decodes and decode tokens than the batch has (sparse_attn_indexer.py,
\* indexer.py).
THEOREM TypeCorrect == Spec => []TypeOK
<1>1. IndexerInv => TypeOK
  <2> SUFFICES ASSUME IndexerInv PROVE TypeOK
    OBVIOUS
  <2>1. CacheInv /\ StepInv /\ RowsInv
    BY DEF IndexerInv
  <2>2. \A l \in Layers : \A r \in Reqs : kv[l][r] \subseteq 0 .. MaxLen-1
    BY EntriesBounded
  <2>3. /\ next \in 1 .. Len(meta.chunks) + 1
        /\ meta.nd <= N /\ meta.ndt <= batch.tokens
    <3>1. CASE pc \in {"schedule", "build"}
      <4>1. meta = NoMeta /\ next = 1
        BY <2>1, <3>1 DEF RowsInv
      <4>2. Len(meta.chunks) = 0 /\ meta.nd = 0 /\ meta.ndt = 0
        BY <4>1 DEF NoMeta
      <4>3. N \in Nat /\ batch.tokens \in Nat
        <5>1. CASE pc = "schedule"
          <6>1. batch = NoBatch
            BY <2>1, <5>1 DEF CacheInv
          <6> QED BY <6>1, NoBatchType DEF NoBatch
        <5>2. CASE pc # "schedule"
          BY <2>1, <5>2, TokensType, QslIs DEF StepInv
        <5> QED BY <5>1, <5>2
      <4> QED BY <4>1, <4>2, <4>3
    <3>2. CASE pc \notin {"schedule", "build"}
      <4>1. BatchOk /\ BuilderOk /\ RequestsOk /\ meta = Built
            /\ next \in 1 .. Len(meta.chunks) + 1
        BY <2>1, <3>2 DEF RowsInv, StepInv
      <4>2. meta.nd = NumDecodes /\ NumDecodes \in 0 .. N /\ N \in Nat
            /\ meta.ndt = IF NumDecodes = N THEN batch.tokens ELSE Qsl[NumDecodes]
        BY <4>1, BuiltIs, NumDecodesIs, QslIs
      <4>3. meta.ndt <= batch.tokens
        <5>1. CASE NumDecodes > 0
          BY <4>1, <4>2, <5>1, DecodeRowsAre
        <5>2. CASE ~(NumDecodes > 0)
          BY <4>1, <4>2, <5>2, QslIs, TokensType
        <5> QED BY <5>1, <5>2
      <4> QED BY <4>1, <4>2, <4>3
    <3> QED BY <3>1, <3>2
  <2> QED BY <2>1, <2>2, <2>3 DEF TypeOK, CacheInv, StepInv, RequestsOk, RowsInv
<1> QED BY <1>1, InvHolds, PTL

\* Whatever the requests, the pieces their prompts come in, the drafts and how
\* many of them stand, the compression, the decode path and the order of the
\* batch: between steps every layer's indexer cache holds exactly the entries
\* of the tokens each request has.
THEOREM CacheIsPrefix == Spec => []CommittedKV
<1>1. IndexerInv => CommittedKV
  <2> SUFFICES ASSUME CacheInv, pc = "schedule", NEW l \in Layers, NEW r \in Reqs
               PROVE  kv[l][r] = 0 .. (len[r] \div ratio) - 1
    BY DEF CommittedKV, IndexerInv
  <2>1. ~Entered(l)
    BY LayerOne DEF Entered, CacheInv
  <2>2. len[r] + 0 = len[r]
    BY DEF CacheInv
  <2> QED BY <2>1, <2>2 DEF CacheInv
<1> QED BY <1>1, InvHolds, PTL

\* When attention reads the buffer every row holds its answer: scored from its
\* own query and weights over the current entries of its own request up to its
\* own token.  For any split into chunks, any decode path of the builder and
\* any padding of the batch.
THEOREM RowsAreExact == Spec => []RowsExact
<1>1. IndexerInv => RowsExact
  BY DEF IndexerInv, RowsInv, RowsExact
<1> QED BY <1>1, InvHolds, PTL

\* A chunk that skips the gather (num_gather is zero for later sub-chunks of a
\* request) finds in the shared workspace what its own gather would bring.
THEOREM SkippedGathersAreSafe == Spec => []ReusedWorkspaceIsOwn
<1>1. IndexerInv => ReusedWorkspaceIsOwn
  <2> SUFFICES ASSUME IndexerInv, pc = "prefill", next <= Len(meta.chunks),
                      meta.chunks[next].skip,
                      NEW c, c = meta.chunks[next],
                      NEW i \in 0 .. c.cu[c.stop - c.start] - 1
               PROVE  ws[i] = Gathered(c)[i]
    BY DEF ReusedWorkspaceIsOwn
  <2>1. CacheInv /\ StepInv /\ RowsInv /\ ~Gathers(c)
    BY DEF IndexerInv, Gathers
  <2>2. PICK w : w = IF Gathers(c) THEN Gathered(c) ELSE ws
    OBVIOUS
  <2>3. w[i] = Own(c, i) /\ Gathered(c)[i] = Own(c, i)
    BY <2>1, <2>2, GatheredOwn
  <2> QED BY <2>1, <2>2, <2>3
<1> QED BY <1>1, InvHolds, PTL

-----------------------------------------------------------------------------
(* The op implements ExactRows *)

Want == IF Serving THEN [t \in 0 .. batch.tokens-1 |-> Wanted(t)] ELSE << >>
Have == IF Serving THEN rows ELSE << >>

LEMMA TokensThere ==
  ASSUME IndexerInv, pc # "schedule"
  PROVE  batch.tokens \in Nat \ {0}
<1>1. BatchOk /\ BuilderOk /\ RequestsOk
  BY DEF IndexerInv, StepInv
<1>2. batch.tokens \in Nat /\ Qsl[N] \in Nat /\ N \in Nat \ {0} /\ nextN \in Nat \ {0}
  BY <1>1, TokensType DEF BatchOk, BuilderOk
<1>3. CASE Padded
  <2>1. batch.tokens = N * nextN /\ N * nextN >= 1
    BY <1>1, <1>2, <1>3 DEF BatchOk
  <2> QED BY <1>2, <2>1
<1>4. CASE ~Padded
  <2>1. batch.tokens = Qsl[N] /\ 0 \in Indices /\ Real(0) /\ 0 + 1 = 1
    BY <1>1, <1>2, <1>4 DEF BatchOk, Indices
  <2>2. QLen(0) \in Nat /\ QLen(0) >= 1 /\ Qsl[1] = Qsl[0] + QLen(0) /\ Qsl[0] = 0
    BY <1>1, <2>1, RealIs, QslIs
  <2>3. Qsl[1] <= Qsl[N]
    <3>1. 1 \in 0 .. N /\ N \in 0 .. N /\ 1 <= N
      BY <1>2
    <3> QED BY <1>1, <3>1, QslIs
  <2> QED BY <1>2, <2>1, <2>2, <2>3
<1> QED BY <1>3, <1>4

LEMMA WantThere ==
  ASSUME IndexerInv, Serving
  PROVE  Want # << >> /\ DOMAIN Want = 0 .. batch.tokens-1 /\ DOMAIN rows = DOMAIN Want
<1>1. batch.tokens \in Nat \ {0}
  BY TokensThere DEF Serving
<1>2. DOMAIN Want = 0 .. batch.tokens-1 /\ 0 \in 0 .. batch.tokens-1
  BY <1>1 DEF Want
<1>3. DOMAIN rows = 0 .. batch.tokens-1
  BY DEF IndexerInv, RowsInv
<1>4. 0 \notin DOMAIN << >>
  OBVIOUS
<1> QED BY <1>2, <1>3, <1>4

\* A step within a call that answers rows.
LEMMA AnswerStep ==
  ASSUME IndexerInv, IndexerInv', Serving, Serving',
         UNCHANGED <<batch, len, ratio, layer>>,
         \A t \in DOMAIN rows :
            rows'[t] = rows[t] \/ (rows[t] = Filler /\ rows'[t] = Wanted(t))
  PROVE  Exact!Answer
<1>1. Want # << >> /\ DOMAIN Want = 0 .. batch.tokens-1 /\ DOMAIN rows = DOMAIN Want
  BY WantThere
<1>2. Want' = Want
  <2>1. \A t : Wanted(t)' = Wanted(t)
    BY WantedSame
  <2> QED BY <2>1 DEF Want
<1>3. DOMAIN rows' = 0 .. batch.tokens-1
  BY DEF IndexerInv, RowsInv
<1>4. Have = rows /\ Have' = rows'
  BY DEF Have
<1>5. \A t \in DOMAIN Want : Want[t] = Wanted(t)
  BY DEF Want
<1>6. DOMAIN Have' = DOMAIN Want
  BY <1>1, <1>3, <1>4
<1>7. \A t \in DOMAIN Want :
        Have'[t] = Have[t] \/ (Have[t] = Filler /\ Have'[t] = Want[t])
  BY <1>1, <1>4, <1>5
<1> QED BY <1>1, <1>2, <1>6, <1>7, Zenon DEF Exact!Answer, Want, Have

LEMMA StepAnswers ==
  ASSUME IndexerInv, IndexerInv', [Next]_vars
  PROVE  [Exact!Begin \/ Exact!Answer \/ Exact!Consume]_(Exact!xrVars)
<1>0. /\ CacheInv /\ StepInv /\ RowsInv /\ CacheInv' /\ StepInv' /\ RowsInv'
  BY DEF IndexerInv
<1>1. CASE Insert
  <2>1. /\ pc = "insert" /\ pc' = "prefill" /\ batch' = batch
        /\ rows' = [t \in 0 .. batch.tokens-1 |-> Filler]
    BY <1>1 DEF Insert
  <2>2. Serving' /\ ~Serving
    BY <2>1 DEF Serving
  <2>3. Want = << >> /\ Want' # << >> /\ DOMAIN Want' = 0 .. batch.tokens-1
    <3>1. (Want # << >> /\ DOMAIN Want = 0 .. batch.tokens-1)'
      BY <2>2, WantThere, PTL
    <3> QED BY <2>1, <2>2, <3>1 DEF Want
  <2>4. Have' = [t \in DOMAIN Want' |-> Filler]
    BY <2>1, <2>2, <2>3 DEF Have
  <2>5. Exact!Begin
    BY <2>3, <2>4, Zenon DEF Exact!Begin, Want, Have
  <2> QED BY <2>5
<1>2. CASE ScoreChunk
  <2>1. /\ pc = "prefill" /\ pc' = "prefill" /\ next' = next + 1 /\ next \in Nat
        /\ UNCHANGED <<batch, len, ratio, layer, meta>>
    <3>1. next \in 1 .. Len(meta.chunks) + 1 /\ pc = "prefill"
      BY <1>0, <1>2 DEF ScoreChunk, RowsInv
    <3>2. Len(meta.chunks) \in Nat
      BY <1>0, <3>1, BuiltChunks DEF RowsInv, StepInv
    <3> QED BY <1>2, <3>1, <3>2 DEF ScoreChunk, deploy
  <2>2. Serving /\ Serving'
    BY <2>1 DEF Serving
  <2>3. ASSUME NEW t \in DOMAIN rows
        PROVE  rows'[t] = rows[t] \/ (rows[t] = Filler /\ rows'[t] = Wanted(t))
    <3>1. rows[t] = Answered(t) /\ rows'[t] = Answered(t)'
      <4>1. DOMAIN rows' = DOMAIN rows
        BY <1>0, <2>1, <2>2 DEF RowsInv
      <4> QED BY <1>0, <2>1, <4>1 DEF RowsInv
    <3>2. Answered(t)' = IF \E k \in 1 .. next' - 1 : t \in meta.chunks[k].tokens
                           THEN Wanted(t) ELSE Filler
      <4>1. Wanted(t)' = Wanted(t) /\ meta' = meta
        BY <2>1, WantedSame
      <4> QED BY <4>1, Zenon DEF Answered, Filler
    <3>3. 1 .. next - 1 \subseteq 1 .. next' - 1
      BY <2>1
    <3> QED BY <3>1, <3>2, <3>3 DEF Answered
  <2>4. Exact!Answer
    BY <2>1, <2>2, <2>3, AnswerStep
  <2> QED BY <2>4
<1>3. CASE EndPrefill
  <2>1. /\ pc = "prefill" /\ pc' \in {"decode", "attend"}
        /\ UNCHANGED <<batch, len, ratio, layer, rows>>
    BY <1>3 DEF EndPrefill, deploy
  <2>2. Serving /\ Serving'
    BY <2>1 DEF Serving
  <2>3. Exact!Answer
    BY <2>1, <2>2, AnswerStep
  <2> QED BY <2>3
<1>4. CASE ScoreDecode
  <2>1. /\ pc = "decode" /\ pc' \in {"unpack", "attend"}
        /\ UNCHANGED <<batch, len, ratio, layer>>
    BY <1>4 DEF ScoreDecode, deploy
  <2>2. Serving /\ Serving'
    BY <2>1 DEF Serving
  <2>3. ASSUME NEW t \in DOMAIN rows
        PROVE  rows'[t] = rows[t] \/ (rows[t] = Filler /\ rows'[t] = Wanted(t))
    <3>1. rows[t] = IF t < Qsl[meta.nd] THEN Filler ELSE Wanted(t)
      BY <1>0, <2>1 DEF RowsInv
    <3>2. rows'[t] = Wanted(t)'
      <4>1. DOMAIN rows' = DOMAIN rows
        BY <1>0, <2>1, <2>2 DEF RowsInv
      <4> QED BY <1>0, <2>1, <4>1 DEF RowsInv
    <3>3. Wanted(t)' = Wanted(t)
      BY <2>1, WantedSame
    <3> QED BY <3>1, <3>2, <3>3
  <2>4. Exact!Answer
    BY <2>1, <2>2, <2>3, AnswerStep
  <2> QED BY <2>4
<1>5. CASE Unpack
  <2>1. /\ pc = "unpack" /\ pc' = "attend"
        /\ UNCHANGED <<batch, len, ratio, layer>>
    BY <1>5 DEF Unpack, deploy
  <2>2. Serving /\ Serving'
    BY <2>1 DEF Serving
  <2>3. rows' = [t \in DOMAIN rows |-> rows[t]]
    BY <1>0, <1>5, UnpackRows
  <2>4. Exact!Answer
    BY <2>1, <2>2, <2>3, AnswerStep
  <2> QED BY <2>4
<1>6. CASE Attend
  <2>1. pc = "attend" /\ pc' \in {"insert", "sample"}
    BY <1>6 DEF Attend
  <2>2. Serving /\ ~Serving'
    BY <2>1 DEF Serving
  <2>3. Want # << >> /\ Have = Want
    <3>1. Want # << >> /\ DOMAIN rows = 0 .. batch.tokens-1
      BY <2>2, WantThere
    <3>2. rows = [t \in DOMAIN rows |-> rows[t]] /\ \A t \in DOMAIN rows : rows[t] = Wanted(t)
      BY <1>0, <2>1, <2>2 DEF RowsInv
    <3>3. rows = [t \in 0 .. batch.tokens-1 |-> Wanted(t)]
      BY <3>1, <3>2
    <3> QED BY <2>2, <3>1, <3>3 DEF Want, Have
  <2>4. Want' = << >> /\ Have' = << >>
    BY <2>2 DEF Want, Have
  <2>5. Exact!Consume
    BY <2>3, <2>4, Zenon DEF Exact!Consume, Want, Have
  <2> QED BY <2>5
<1>7. CASE Schedule \/ Build \/ Sample \/ \E r \in Reqs : Replace(r)
  <2>1. ~Serving /\ ~Serving'
    BY <1>7 DEF Schedule, Build, Sample, Replace, Serving
  <2>2. Want' = Want /\ Have' = Have
    BY <2>1 DEF Want, Have
  <2> QED BY <2>2, Zenon DEF Exact!xrVars, Want, Have
<1>8. CASE UNCHANGED vars
  <2>1. UNCHANGED <<batch, len, ratio, layer, rows, pc>>
    BY <1>8 DEF vars
  <2>2. Serving' <=> Serving
    BY <2>1 DEF Serving
  <2>3. \A t : Wanted(t)' = Wanted(t)
    BY <2>1, WantedSame
  <2>4. Want' = Want /\ Have' = Have
    BY <2>1, <2>2, <2>3 DEF Want, Have
  <2> QED BY <2>4, Zenon DEF Exact!xrVars, Want, Have
<1> QED BY <1>1, <1>2, <1>3, <1>4, <1>5, <1>6, <1>7, <1>8 DEF Next

\* The indexer implements ExactRows: within a call every row goes from the
\* filler straight to its answer, no kernel overwrites an answer, and attention
\* reads the buffer when no row is missing.
THEOREM EachRowOnce == Spec => RowsAnsweredOnce
<1>1. Init => Exact!XRInit
  BY DEF Init, Serving, Exact!XRInit
<1>2. IndexerInv /\ IndexerInv' /\ [Next]_vars =>
        [Exact!Begin \/ Exact!Answer \/ Exact!Consume]_(Exact!xrVars)
  BY StepAnswers
<1> QED BY <1>1, <1>2, InvHolds, PTL DEF Spec, RowsAnsweredOnce, Exact!XRSpec
=============================================================================
