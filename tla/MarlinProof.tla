---------------------------- MODULE MarlinProof ----------------------------
(***************************************************************************)
(* The Marlin experts and weights.                                         *)
(*                                                                         *)
(* First the memory of a mixture-of-experts call, for any number of tokens *)
(* and experts and any widths: what the callers and the function set aside *)
(* holds every tensor that is laid over it, and the result has no trace of *)
(* what the memory held before.  MoeInv is the inductive invariant: what   *)
(* each kernel finds in the tensors the ones before it left, and how far   *)
(* it has got.                                                             *)
(*                                                                         *)
(* Then what a layer's weights, scales and zero points are when its first  *)
(* product takes them, for layers of any sizes over any number of ranks.   *)
(* WeightsInv says what each tensor is after each step, as a function of   *)
(* the layer; the three properties follow from what it says of the last.   *)
(***************************************************************************)
EXTENDS MarlinMoe, MarlinWeights, FiniteSetTheorems, TLAPS

LEMMA TimesMonotone ==
  \A a, b, d \in Nat : a <= b => d * a <= d * b
BY SMT

LEMMA QuotientIs ==
  ASSUME NEW i \in Nat, NEW k \in Nat \ {0}, NEW c \in 0 .. k - 1
  PROVE  (i * k + c) \div k = i /\ (i * k + c) % k = c
<1> DEFINE x == i * k + c
           q == x \div k
           m == x % k
<1>1. x \in Nat /\ i * k \in Nat /\ k * i = i * k
  BY SMT
<1> HIDE DEF x
<1>2. q \in Nat /\ m \in Nat /\ m < k /\ x = k * q + m
  BY <1>1, Z3
<1> HIDE DEF q, m
<1>3. k * q \in Nat
  BY <1>2
<1>4. ASSUME q < i PROVE FALSE
  <2>1. k * (q + 1) <= k * i
    BY <1>2, <1>4, TimesMonotone
  <2>2. k * (q + 1) = k * q + k
    BY <1>2
  <2> QED BY <1>1, <1>2, <1>3, <2>1, <2>2 DEF x
<1>5. ASSUME i < q PROVE FALSE
  <2>1. k * (i + 1) <= k * q
    BY <1>2, <1>5, TimesMonotone
  <2>2. k * (i + 1) = k * i + k
    OBVIOUS
  <2> QED BY <1>1, <1>2, <1>3, <2>1, <2>2 DEF x
<1>6. q = i
  BY <1>2, <1>4, <1>5
<1>7. m = c
  BY <1>1, <1>2, <1>6 DEF x
<1> QED BY <1>6, <1>7 DEF q, m, x

\* The arguments, as far as the sizes depend on them.
CallType ==
  /\ call.caller \in AllCallers
  /\ call.m \in Nat \ {0} /\ call.topk \in Nat \ {0}
  /\ call.n \in Nat /\ call.k \in Nat
  /\ IsFiniteSet(call.mapped) /\ call.mapped # {}
  /\ ~call.hasMap => call.mapped = Experts
  /\ ~Batched => call.ids \in [0 .. call.m * call.topk - 1 -> Experts]

LEMMA InitCallType == Init => CallType
<1> SUFFICES ASSUME Init PROVE CallType
  OBVIOUS
<1>1. PICK c \in Calls : call \in WithTokens(c)
  BY DEF Init
<1>2. /\ call.caller = c.caller /\ call.m = c.m /\ call.topk = c.topk
      /\ call.n = c.n /\ call.k = c.k /\ call.mapped = c.mapped
      /\ call.hasMap = c.hasMap
  BY <1>1 DEF WithTokens
<1>3. /\ c.caller \in Callers /\ c.m \in 1 .. MaxTokens /\ c.topk \in TopKs
      /\ c.n \in {v[1] : v \in Widths} /\ c.k \in {v[2] : v \in Widths}
      /\ c.mapped \subseteq Experts /\ c.mapped # {}
      /\ ~c.hasMap => c.mapped = Experts
  BY DEF Calls
<1>4. c.n \in Nat /\ c.k \in Nat
  BY <1>3, MoeConstants
<1>5. IsFiniteSet(c.mapped)
  <2>1. IsFiniteSet(Experts)
    BY MoeConstants, FS_Interval DEF Experts
  <2> QED BY <1>3, <2>1, FS_Subset
<1>6. c.caller \in AllCallers /\ c.m \in Nat \ {0} /\ c.topk \in Nat \ {0}
  <2>1. c.caller \in AllCallers
    BY <1>3, MoeConstants, Zenon
  <2>2. c.m \in Nat \ {0}
    BY <1>3
  <2>3. c.topk \in Nat \ {0}
    BY <1>3, MoeConstants, Zenon
  <2> QED BY <2>1, <2>2, <2>3
<1>7. c.caller # "batched" => call.ids \in [0 .. c.m * c.topk - 1 -> Experts]
  BY <1>1 DEF WithTokens
<1> QED BY <1>2, <1>3, <1>4, <1>5, <1>6, <1>7 DEF CallType, Batched

\* Counts of rows: those of the products, and of the result.
LEMMA RowCounts ==
  ASSUME CallType
  PROVE  /\ NumRows \in Nat /\ OutRows \in Nat /\ OutRows <= NumRows
         /\ N \in Nat /\ K \in Nat /\ Shards \in {1, 2}
<1>1. NumRows \in Nat
  <2>1. Cardinality(call.mapped) \in Nat
    BY FS_CardinalityType DEF CallType
  <2>2. CASE Batched
    BY <2>1, <2>2 DEF NumRows, CallType
  <2>3. CASE ~Batched
    BY <2>3 DEF NumRows, CallType
  <2> QED BY <2>2, <2>3
<1>2. OutRows \in Nat /\ OutRows <= NumRows
  <2>1. CASE Batched
    <3>1. RowsIn = 0 .. NumRows - 1
      BY <2>1 DEF RowsIn, Rows
    <3>2. Cardinality(RowsIn) = NumRows
      BY <1>1, <3>1, FS_Interval
    <3> QED BY <1>1, <3>2 DEF OutRows
  <2>2. CASE ~Batched
    <3>1. RowsIn = 0 .. call.m - 1 /\ call.m \in Nat
      BY <2>2 DEF RowsIn, CallType
    <3>2. Cardinality(RowsIn) = call.m
      BY <3>1, FS_Interval
    <3>3. call.m * 1 <= call.m * call.topk
      BY TimesMonotone DEF CallType
    <3>4. NumRows = call.m * call.topk
      BY <2>2 DEF NumRows
    <3> QED BY <3>1, <3>2, <3>3, <3>4 DEF OutRows
  <2> QED BY <2>1, <2>2
<1> QED BY <1>1, <1>2 DEF N, K, Shards, CallType

LEMMA Fits ==
  ASSUME CallType
  PROVE  ScratchSuffices
<1> DEFINE R == NumRows
<1>1. /\ R \in Nat /\ OutRows \in Nat /\ OutRows <= R
      /\ N \in Nat /\ K \in Nat /\ Shards \in {1, 2}
  BY RowCounts
<1>2. R * Shards * N = R * (Shards * N) /\ Shards * N \in Nat /\ Shards * N <= 2 * N
  BY <1>1
<1>3. \A a, b \in Nat : larger(a, b) \in Nat /\ a <= larger(a, b) /\ b <= larger(a, b)
  BY DEF larger
<1>4. R * N \in Nat /\ R * K \in Nat /\ OutRows * K \in Nat
  BY <1>1
<1>5. CASE call.caller = "method"
  <2>1. ~Batched /\ Placed.cache13 = "new13" /\ Placed.cache2 = "new2" /\ Target = "new13"
    BY <1>5 DEF Batched, Placed, Target
  <2>2. Placed.out \in {"hidden", "new"}
    BY <1>5 DEF Placed
  <2>3. /\ Capacity("new13") = R * larger(Shards * N, K) /\ Capacity("new2") = R * N
        /\ Capacity(Placed.out) = OutRows * K
    BY <2>2 DEF Capacity
  <2>4. R * (Shards * N) <= R * larger(Shards * N, K) /\ R * K <= R * larger(Shards * N, K)
    BY <1>1, <1>2, <1>3, TimesMonotone
  <2> QED BY <1>2, <1>4, <2>1, <2>3, <2>4 DEF ScratchSuffices
<1>6. CASE call.caller = "experts"
  <2>1. /\ ~Batched /\ Placed.cache13 = "ws2" /\ Placed.cache2 = "ws1"
        /\ Placed.out = "ws1" /\ Target = "ws2"
    BY <1>6 DEF Batched, Placed, Target
  <2>2. /\ Capacity("ws1") = larger(R * larger(N, K), OutRows * K)
        /\ Capacity("ws2") = R * larger(2 * N, K)
    BY <2>1 DEF Capacity, Workspaces
  <2>3. R * larger(N, K) \in Nat /\ R * larger(2 * N, K) \in Nat
    <3>1. 2 * N \in Nat
      BY <1>1
    <3>2. larger(N, K) \in Nat /\ larger(2 * N, K) \in Nat
      BY <1>1, <1>3, <3>1
    <3> QED BY <1>1, <3>2
  <2>4. R * (Shards * N) <= R * larger(2 * N, K)
    <3>1. 2 * N \in Nat /\ larger(2 * N, K) \in Nat /\ 2 * N <= larger(2 * N, K)
      BY <1>1, <1>3
    <3>2. Shards * N <= larger(2 * N, K)
      BY <1>1, <1>2, <3>1
    <3> QED BY <1>1, <1>2, <3>1, <3>2, TimesMonotone
  <2>5. R * K <= R * larger(2 * N, K) /\ R * N <= R * larger(N, K)
    <3>1. 2 * N \in Nat
      BY <1>1
    <3> QED BY <1>1, <1>3, <3>1, TimesMonotone
  <2>6. R * N <= Capacity("ws1") /\ OutRows * K <= Capacity("ws1")
    BY <1>3, <1>4, <2>2, <2>3, <2>5
  <2> QED BY <1>2, <2>1, <2>2, <2>4, <2>5, <2>6 DEF ScratchSuffices
<1>7. CASE call.caller = "batched"
  <2>1. /\ Batched /\ Placed.cache13 = "ws1" /\ Placed.cache2 = "ws2"
        /\ Placed.out = "ws1" /\ Target = "ws1"
    BY <1>7 DEF Batched, Placed, Target
  <2>2. /\ Capacity("ws1") = larger(R * larger(K, 2 * N), OutRows * K)
        /\ Capacity("ws2") = R * N
    BY <2>1 DEF Capacity, Workspaces
  <2>3. R * larger(K, 2 * N) \in Nat /\ 2 * N \in Nat
    BY <1>1, <1>3
  <2>4. R * (Shards * N) <= R * larger(K, 2 * N) /\ R * K <= R * larger(K, 2 * N)
    <3>1. larger(K, 2 * N) \in Nat /\ 2 * N <= larger(K, 2 * N) /\ K <= larger(K, 2 * N)
      BY <1>1, <1>3, <2>3
    <3>2. Shards * N <= larger(K, 2 * N)
      BY <1>1, <1>2, <3>1
    <3> QED BY <1>1, <1>2, <3>1, <3>2, TimesMonotone
  <2>5. R * larger(K, 2 * N) <= Capacity("ws1") /\ OutRows * K <= Capacity("ws1")
        /\ Capacity("ws1") \in Nat
    BY <1>3, <1>4, <2>2, <2>3
  <2>6. R * (Shards * N) \in Nat
    BY <1>1, <1>2
  <2> QED BY <1>2, <1>4, <2>1, <2>2, <2>3, <2>4, <2>5, <2>6 DEF ScratchSuffices
<1> QED BY <1>5, <1>6, <1>7 DEF CallType, AllCallers

LEMMA CallStep == CallType /\ [Next]_vars => CallType'
<1> SUFFICES ASSUME CallType, [Next]_vars PROVE CallType'
  OBVIOUS
<1>1. call' = call
  BY DEF Next, Launch, Done, vars
<1> QED BY <1>1 DEF CallType, Batched

\* Whatever the routing, the number of tokens and experts, the widths and the
\* caller: no tensor of the call reaches past the memory it shares with
\* others, though the two workspaces are sized in one module, swapped in
\* another, and one of them holds the output as well.
THEOREM WorkspacesHoldAll == Spec => []ScratchSuffices
<1>1. Spec => []CallType
  BY CallStep, InitCallType, PTL DEF Spec
<1>2. CallType => ScratchSuffices
  BY Fits
<1> QED BY <1>1, <1>2, PTL
-----------------------------------------------------------------------------
(* What the buffers hold *)

ActiveRows == {r \in Rows : Active(r)}
Own(t)     == t * call.topk .. t * call.topk + call.topk - 1

\* The rows of each tensor as the kernels before left them, in memory mm.
InputOk(mm, i) == \A c \in 0 .. K-1 : mm["hidden"][i * K + c] = <<"x", i, c>>

GateOk(mm, r) == \A c \in 0 .. Shards * N - 1 :
                   mm[Placed.cache13][r * (Shards * N) + c] = <<"gate", r, c, MulOnGate>>

ActOk(mm, r) == \A c \in 0 .. N-1 :
                  mm[Placed.cache2][r * N + c] = <<"act", r, c, MulOnGate>>

DownOk(mm, r)  == \A c \in 0 .. K-1 : mm[Target][r * K + c] = <<"down", r, c, 1>>

Cleared(mm, r) == \A c \in 0 .. K-1 : mm[Target][r * K + c] = Zero

SumOk(mm, t) ==
  \A c \in 0 .. K-1 :
    mm[Placed.out][t * K + c]
      = <<"sum", t, c, {<<"down", r, c, 1>> : r \in {r \in Own(t) : Active(r)}}>>

\* What kernel k finds, and what it has done with the rows not in td.
Gemm1Inv(mm, td) == /\ td \subseteq ActiveRows
                    /\ \A i \in RowsIn : InputOk(mm, i)
                    /\ \A r \in ActiveRows \ td : GateOk(mm, r)

ActInv(mm, td) == /\ td \subseteq Rows
                  /\ \A r \in ActiveRows : GateOk(mm, r)
                  /\ \A r \in ActiveRows \ td : ActOk(mm, r)

ZeroInv(mm, td) == /\ td \subseteq {0}
                   /\ \A r \in ActiveRows : ActOk(mm, r)
                   /\ td = {} => \A r \in Rows : Cleared(mm, r)

Gemm2Inv(mm, td) == /\ td \subseteq ActiveRows
                    /\ \A r \in ActiveRows : ActOk(mm, r)
                    /\ \A r \in ActiveRows \ td : DownOk(mm, r)
                    /\ ~Batched => \A r \in Rows \ ActiveRows : Cleared(mm, r)

SumInv(mm, td) == /\ td \subseteq RowsIn
                  /\ \A r \in ActiveRows : DownOk(mm, r)
                  /\ \A r \in Rows \ ActiveRows : Cleared(mm, r)
                  /\ \A t \in RowsIn \ td : SumOk(mm, t)

DoneInv(mm, td) == /\ td = {}
                   /\ Batched => \A r \in ActiveRows : DownOk(mm, r)
                   /\ ~Batched => \A t \in RowsIn : SumOk(mm, t)

PhaseInv(mm, k, td) ==
  /\ k \in {"none", "gemm1", "act", "zero", "gemm2", "sum", "done"}
  /\ k = "none"  => td = {} /\ \A i \in RowsIn : InputOk(mm, i)
  /\ k = "gemm1" => Gemm1Inv(mm, td)
  /\ k = "act"   => ActInv(mm, td)
  /\ k = "zero"  => ZeroInv(mm, td)
  /\ k = "gemm2" => Gemm2Inv(mm, td)
  /\ k = "sum"   => ~Batched /\ SumInv(mm, td)
  /\ k = "done"  => DoneInv(mm, td)

Typed(x) == \/ x \in {Junk, Zero}
            \/ x[1] \in {"x", "sum"}
            \/ x[1] \in {"gate", "act", "down"} /\ x[4] \in {0, 1}

Laid(mm) == /\ DOMAIN mm = Buffers
            /\ \A buf \in Buffers : DOMAIN mm[buf] = 0 .. Capacity(buf)-1
            /\ \A buf \in Buffers : \A a \in DOMAIN mm[buf] : Typed(mm[buf][a])

MoeInv == /\ CallType
          /\ Laid(mem)
          /\ PhaseInv(mem, kernel, todo)
-----------------------------------------------------------------------------
(* Where tensors lie *)

LEMMA Places ==
  ASSUME CallType
  PROVE  /\ "hidden" \in Buffers
         /\ Placed.cache13 \in Buffers \ {"hidden"} /\ Placed.cache2 \in Buffers \ {"hidden"}
         /\ Placed.cache13 # Placed.cache2
         /\ Target = Placed.cache13
         /\ Placed.out \in Buffers
         /\ ~Batched => Placed.out # Placed.cache13
         /\ Batched => Placed.out = Placed.cache13
<1>1. CASE call.caller = "method"
  <2>1. ~Batched /\ Placed.cache13 = "new13" /\ Placed.cache2 = "new2" /\ Target = "new13"
    BY <1>1 DEF Batched, Placed, Target
  <2>2. Placed.out \in {"hidden", "new"}
    BY <1>1 DEF Placed
  <2> QED BY <2>1, <2>2 DEF Buffers
<1>2. CASE call.caller = "experts"
  <2>1. /\ ~Batched /\ Placed.cache13 = "ws2" /\ Placed.cache2 = "ws1"
        /\ Placed.out = "ws1" /\ Target = "ws2"
    BY <1>2 DEF Batched, Placed, Target
  <2> QED BY <2>1 DEF Buffers
<1>3. CASE call.caller = "batched"
  <2>1. /\ Batched /\ Placed.cache13 = "ws1" /\ Placed.cache2 = "ws2"
        /\ Placed.out = "ws1" /\ Target = "ws1"
    BY <1>3 DEF Batched, Placed, Target
  <2> QED BY <2>1 DEF Buffers
<1> QED BY <1>1, <1>2, <1>3 DEF CallType, AllCallers

LEMMA Capacities ==
  ASSUME CallType, NEW buf \in Buffers
  PROVE  Capacity(buf) \in Nat
<1>1. /\ NumRows \in Nat /\ OutRows \in Nat /\ N \in Nat /\ K \in Nat /\ Shards \in {1, 2}
  BY RowCounts
<1>2. \A a, b \in Nat : larger(a, b) \in Nat
  BY DEF larger
<1>3. \A a, b \in Nat : a * b \in Nat
  OBVIOUS
<1>4. 2 * N \in Nat /\ Shards * N \in Nat
  BY <1>1
<1>5. Workspaces.ws1 \in Nat /\ Workspaces.ws2 \in Nat
  BY <1>1, <1>2, <1>3, <1>4 DEF Workspaces
<1>6. Capacity("new13") \in Nat
  BY <1>1, <1>2, <1>3, <1>4 DEF Capacity
<1>7. Capacity("new2") \in Nat
  BY <1>1, <1>2, <1>3, <1>4 DEF Capacity
<1>8. Capacity("hidden") \in Nat /\ Capacity("new") \in Nat
  BY <1>1, <1>2, <1>3, <1>4 DEF Capacity
<1>9. Capacity("ws1") \in Nat /\ Capacity("ws2") \in Nat
  <2>1. OutRows * K \in Nat
    BY <1>1
  <2> QED BY <1>2, <1>5, <2>1 DEF Capacity
<1>10. Buffers \subseteq {"hidden", "new", "new13", "new2", "ws1", "ws2"}
  <2>1. {Placed.cache13, Placed.cache2, Placed.out}
          \subseteq {"hidden", "new", "new13", "new2", "ws1", "ws2"}
    <3>1. CASE call.caller = "method"
      BY <3>1 DEF Placed
    <3>2. CASE call.caller = "experts"
      BY <3>2 DEF Placed
    <3>3. CASE call.caller = "batched"
      BY <3>3 DEF Placed
    <3> QED BY <3>1, <3>2, <3>3 DEF CallType, AllCallers
  <2> QED BY <2>1 DEF Buffers
<1> QED BY <1>6, <1>7, <1>8, <1>9, <1>10

\* Row r of a tensor of R rows and width v is inside its memory.
LEMMA RowInside ==
  ASSUME NEW R \in Nat, NEW v \in Nat, NEW cap \in Nat, R * v <= cap,
         NEW r \in 0 .. R - 1, NEW c \in 0 .. v - 1
  PROVE  r * v + c \in 0 .. cap - 1
<1>1. r \in Nat /\ r + 1 \in Nat /\ r + 1 <= R /\ v * (r + 1) <= v * R
  BY TimesMonotone
<1>2. v * (r + 1) = r * v + v /\ v * R = R * v /\ r * v \in Nat /\ R * v \in Nat
  BY <1>1
<1> QED BY <1>1, <1>2

\* Rows of a tensor lie apart.
LEMMA RowsApart ==
  ASSUME NEW v \in Nat, NEW r \in Nat, NEW j \in Nat, NEW c \in 0 .. v - 1
  PROVE  /\ j * v + c \in r * v .. r * v + v - 1 <=> j = r
         /\ (r * v + c) - r * v = c
<1>1. r * v \in Nat /\ j * v \in Nat /\ c \in Nat /\ c < v
  BY SMT
<1>2. ASSUME r < j PROVE j * v >= r * v + v
  <2>1. v * (r + 1) <= v * j
    BY <1>2, TimesMonotone
  <2>2. v * (r + 1) = r * v + v /\ v * j = j * v
    BY SMT
  <2> QED BY <1>1, <2>1, <2>2
<1>3. ASSUME j < r PROVE r * v >= j * v + v
  <2>1. v * (j + 1) <= v * r
    BY <1>3, TimesMonotone
  <2>2. v * (j + 1) = j * v + v /\ v * r = r * v
    BY SMT
  <2> QED BY <1>1, <2>1, <2>2
<1>4. CASE j = r
  BY <1>1, <1>4
<1>5. CASE r < j
  BY <1>1, <1>2, <1>5
<1>6. CASE j < r
  BY <1>1, <1>3, <1>6
<1> QED BY <1>1, <1>4, <1>5, <1>6

\* Memory mm after the addresses of f in buffer buf were written (Put).
Written(mm, buf, f) ==
  [mm EXCEPT ![buf] = [a \in DOMAIN @ |-> IF a \in DOMAIN f THEN f[a] ELSE @[a]]]

\* f is row r of a tensor of width v.
IsRow(f, r, v) == DOMAIN f = r * v .. r * v + v - 1

\* One row written: the other rows and the other buffers keep what they hold.
RowPut(m2, mm, buf, cap, v, r, f) ==
  /\ DOMAIN m2 = DOMAIN mm
  /\ \A b \in DOMAIN mm : b # buf => m2[b] = mm[b]
  /\ \A b \in DOMAIN mm : DOMAIN m2[b] = DOMAIN mm[b]
  /\ \A j \in Nat : \A c \in 0 .. v - 1 :
       j * v + c \in 0 .. cap - 1 =>
         m2[buf][j * v + c] = IF j = r THEN f[j * v + c] ELSE mm[buf][j * v + c]
  /\ \A a \in DOMAIN mm[buf] : \/ m2[buf][a] = mm[buf][a]
                               \/ a \in DOMAIN f /\ m2[buf][a] = f[a]

LEMMA RowWritten ==
  ASSUME NEW mm, NEW buf \in DOMAIN mm, NEW cap \in Nat, DOMAIN mm[buf] = 0 .. cap - 1,
         NEW v \in Nat, NEW r \in Nat, NEW f, IsRow(f, r, v),
         NEW m2, m2 = Written(mm, buf, f)
  PROVE  RowPut(m2, mm, buf, cap, v, r, f)
<1> USE DEF Written, IsRow
<1>1. m2[buf] = [a \in DOMAIN mm[buf] |-> IF a \in DOMAIN f THEN f[a] ELSE mm[buf][a]]
  OBVIOUS
<1>2. DOMAIN m2 = DOMAIN mm /\ \A b \in DOMAIN mm : b # buf => m2[b] = mm[b]
  OBVIOUS
<1>3. \A b \in DOMAIN mm : DOMAIN m2[b] = DOMAIN mm[b]
  BY <1>1, <1>2
<1>4. ASSUME NEW j \in Nat, NEW c \in 0 .. v - 1, j * v + c \in 0 .. cap - 1
      PROVE  m2[buf][j * v + c] = IF j = r THEN f[j * v + c] ELSE mm[buf][j * v + c]
  <2>1. j * v + c \in r * v .. r * v + v - 1 <=> j = r
    BY RowsApart
  <2>2. j * v + c \in DOMAIN f <=> j = r
    BY <2>1, Zenon
  <2> QED BY <1>1, <1>4, <2>2
<1>5. \A a \in DOMAIN mm[buf] : m2[buf][a] = mm[buf][a] \/ (a \in DOMAIN f /\ m2[buf][a] = f[a])
  BY <1>1
<1> QED BY <1>2, <1>3, <1>4, <1>5 DEF RowPut
-----------------------------------------------------------------------------
RowTyped(f, r, v) == IsRow(f, r, v) /\ \A a \in DOMAIN f : Typed(f[a])

\* m2 is mm but for row r of buf, which is f.
OneRow(m2, mm, buf, R, v, r, f) ==
  /\ \A b \in Buffers : b # buf => m2[b] = mm[b]
  /\ \A j \in 0 .. R - 1 : \A c \in 0 .. v - 1 :
       m2[buf][j * v + c] = IF j = r THEN f[j * v + c] ELSE mm[buf][j * v + c]

\* One row written to a tensor of R rows and width v that lies in buf.
LEMMA RowStep ==
  ASSUME CallType, NEW mm, Laid(mm), NEW buf \in Buffers,
         NEW R \in Nat, NEW v \in Nat, R * v <= Capacity(buf), NEW r \in 0 .. R - 1,
         NEW f, RowTyped(f, r, v), NEW m2, m2 = Written(mm, buf, f)
  PROVE  Laid(m2) /\ OneRow(m2, mm, buf, R, v, r, f)
<1> DEFINE cap == Capacity(buf)
<1>1. /\ cap \in Nat /\ DOMAIN mm = Buffers /\ buf \in DOMAIN mm
      /\ DOMAIN mm[buf] = 0 .. cap - 1 /\ R * v <= cap
  BY Capacities DEF Laid
<1> HIDE DEF cap
<1>2. RowPut(m2, mm, buf, cap, v, r, f)
  <2>1. r \in Nat
    OBVIOUS
  <2>2. IsRow(f, r, v)
    BY DEF RowTyped
  <2> QED BY <1>1, <2>1, <2>2, RowWritten
<1>3. Laid(m2)
  <2>1. ASSUME NEW b \in Buffers, NEW a \in DOMAIN m2[b] PROVE Typed(m2[b][a])
    <3>1. a \in DOMAIN mm[b] /\ Typed(mm[b][a])
      BY <1>1, <1>2, <2>1 DEF Laid, RowPut
    <3>2. CASE b # buf
      BY <1>1, <1>2, <3>1, <3>2 DEF RowPut
    <3>3. CASE b = buf
      BY <1>2, <3>1, <3>3 DEF RowTyped, RowPut
    <3> QED BY <3>2, <3>3
  <2>2. \A b \in Buffers : DOMAIN m2[b] = 0 .. Capacity(b)-1
    BY <1>1, <1>2 DEF Laid, RowPut
  <2> QED BY <1>1, <1>2, <2>1, <2>2 DEF Laid, RowPut
<1>4. ASSUME NEW j \in 0 .. R - 1, NEW c \in 0 .. v - 1
      PROVE  m2[buf][j * v + c] = IF j = r THEN f[j * v + c] ELSE mm[buf][j * v + c]
  <2>1. j * v + c \in 0 .. cap - 1
    BY <1>1, RowInside, Zenon
  <2>2. j \in Nat
    OBVIOUS
  <2> QED BY <1>2, <2>1, <2>2 DEF RowPut
<1>5. \A b \in Buffers : b # buf => m2[b] = mm[b]
  BY <1>1, <1>2 DEF RowPut
<1> QED BY <1>3, <1>4, <1>5 DEF OneRow

LEMMA RowRanges ==
  ASSUME CallType
  PROVE  /\ NumRows \in Nat /\ Rows = 0 .. NumRows - 1 /\ ActiveRows \subseteq Rows
         /\ N \in Nat /\ K \in Nat /\ Shards * N \in Nat /\ Shards \in {1, 2}
         /\ call.m \in Nat /\ call.topk \in Nat \ {0}
         /\ ~Batched => RowsIn = 0 .. call.m - 1 /\ NumRows = call.m * call.topk
         /\ Batched => RowsIn = Rows
         /\ \A r \in Rows : InputRow(r) \in RowsIn
<1>1. /\ NumRows \in Nat /\ N \in Nat /\ K \in Nat /\ Shards \in {1, 2}
      /\ Rows = 0 .. NumRows - 1
  BY RowCounts DEF Rows
<1>2. Shards * N \in Nat
  BY <1>1
<1>3. ~Batched => RowsIn = 0 .. call.m - 1 /\ NumRows = call.m * call.topk
  BY DEF RowsIn, NumRows
<1>4. Batched => RowsIn = Rows
  BY DEF RowsIn
<1>5. call.m \in Nat /\ call.topk \in Nat \ {0}
  BY DEF CallType
<1>6. ASSUME NEW r \in Rows PROVE InputRow(r) \in RowsIn
  <2>1. CASE Batched
    BY <1>4, <2>1 DEF InputRow
  <2>2. CASE ~Batched
    <3> DEFINE a == call.m
    <3> DEFINE b == call.topk
    <3> DEFINE q == r \div b
    <3>1. r \in Nat /\ a \in Nat /\ b \in Nat \ {0} /\ a * b \in Nat /\ r < a * b
      BY <1>1, <1>3, <1>5, <2>2
    <3> HIDE DEF a, b
    <3>2. q \in Nat /\ b * q <= r
      BY <3>1, Z3
    <3> HIDE DEF q
    <3>3. q < a
      <4>1. SUFFICES ASSUME a <= q PROVE FALSE
        BY <3>1, <3>2
      <4>2. b * a <= b * q
        BY <3>1, <3>2, <4>1, TimesMonotone
      <4>3. b * a = a * b /\ b * q \in Nat
        BY <3>1, <3>2
      <4> QED BY <3>1, <3>2, <4>2, <4>3
    <3>4. q \in 0 .. a - 1
      BY <3>1, <3>2, <3>3
    <3>5. InputRow(r) = q /\ RowsIn = 0 .. a - 1
      BY <1>3, <2>2 DEF InputRow, a, b, q
    <3> QED BY <3>4, <3>5
  <2> QED BY <2>1, <2>2
<1> QED BY <1>1, <1>2, <1>3, <1>4, <1>5, <1>6 DEF ActiveRows

\* What a kernel stores for a row lies in the row and is typed.
LEMMA Weights == MulOnGate \in {0, 1} /\ MulOnGate + MulOnDown = 1
BY DEF MulOnGate, MulOnDown

\* The first product of one row.
LEMMA Gemm1Step ==
  ASSUME CallType, Laid(mem), Gemm1Inv(mem, todo), NEW r \in todo, Gemm1(r)
  PROVE  Laid(mem') /\ Gemm1Inv(mem', todo \ {r})
<1> DEFINE whole == \A c \in 0 .. K-1 :
                      mem["hidden"][InputRow(r) * K + c] = <<"x", InputRow(r), c>>
           gate(c) == IF whole THEN <<"gate", r, c, MulOnGate>> ELSE Junk
           v == Shards * N
           f == [a \in r * v .. r * v + v - 1 |-> gate(a - r * v)]
           buf == Placed.cache13
<1>1. mem' = Written(mem, buf, f)
  BY DEF Gemm1, Put, RowOf, Written
<1>2. whole
  BY RowRanges DEF Gemm1Inv, InputOk
<1>3. /\ r \in 0 .. NumRows - 1 /\ NumRows \in Nat /\ v \in Nat
      /\ r \in Nat /\ r \in ActiveRows /\ ActiveRows \subseteq 0 .. NumRows - 1
  BY RowRanges DEF Gemm1Inv
<1>4. buf \in Buffers /\ buf # "hidden" /\ "hidden" \in Buffers
  BY Places
<1>5. NumRows * v <= Capacity(buf)
  <2>1. NumRows * Shards * N <= Capacity(buf)
    BY Fits DEF ScratchSuffices
  <2>2. NumRows * Shards * N = NumRows * (Shards * N)
    BY RowRanges
  <2> QED BY <2>1, <2>2
<1> HIDE DEF whole
<1>6. DOMAIN f = r * v .. r * v + v - 1
      /\ \A a \in DOMAIN f : f[a] = <<"gate", r, a - r * v, MulOnGate>>
  BY <1>2
<1> HIDE DEF f, v, buf
<1>7. RowTyped(f, r, v)
  BY <1>6, Weights DEF Typed, RowTyped, IsRow
<1>8. Laid(mem') /\ OneRow(mem', mem, buf, NumRows, v, r, f)
  <2> PICK m2 : m2 = mem'
    OBVIOUS
  <2>1. Laid(m2) /\ OneRow(m2, mem, buf, NumRows, v, r, f)
    BY <1>1, <1>3, <1>4, <1>5, <1>7, RowStep
  <2> QED BY <2>1
<1>9. ASSUME NEW j \in ActiveRows \ (todo \ {r}) PROVE GateOk(mem', j)
  <2> SUFFICES ASSUME NEW c \in 0 .. v - 1
               PROVE  mem'[buf][j * v + c] = <<"gate", j, c, MulOnGate>>
    BY DEF GateOk, v, buf
  <2>1. j \in 0 .. NumRows - 1
    BY <1>3
  <2>2. mem'[buf][j * v + c] = IF j = r THEN f[j * v + c] ELSE mem[buf][j * v + c]
    BY <1>8, <2>1 DEF OneRow
  <2>3. CASE j = r
    <3>1. j * v + c \in DOMAIN f /\ (j * v + c) - r * v = c
      BY <1>3, <1>6, <2>3, RowsApart
    <3> QED BY <1>6, <2>2, <2>3, <3>1
  <2>4. CASE j # r
    <3>1. GateOk(mem, j)
      BY <2>4 DEF Gemm1Inv
    <3>2. mem[buf][j * v + c] = <<"gate", j, c, MulOnGate>>
      BY <3>1 DEF GateOk, buf, v
    <3> QED BY <2>2, <2>4, <3>2
  <2> QED BY <2>3, <2>4
<1>10. ASSUME NEW i \in RowsIn PROVE InputOk(mem', i)
  BY <1>4, <1>8 DEF InputOk, Gemm1Inv, OneRow
<1> QED BY <1>3, <1>8, <1>9, <1>10 DEF Gemm1Inv
-----------------------------------------------------------------------------
\* The activation of one row.  A row of no local expert may hold anything.
LEMMA ActivateStep ==
  ASSUME CallType, Laid(mem), ActInv(mem, todo), NEW r \in todo, Activate(r)
  PROVE  Laid(mem') /\ ActInv(mem', todo \ {r})
<1> DEFINE cell(c) == mem[Placed.cache13][r * Shards * N + c]
           good(c) == /\ cell(c) = <<"gate", r, c, MulOnGate>>
                      /\ Shards = 2 => cell(c + N) = <<"gate", r, c + N, MulOnGate>>
           act(c) == IF good(c) THEN <<"act", r, c, MulOnGate>> ELSE Junk
           f == [a \in r * N .. r * N + N - 1 |-> act(a - r * N)]
           buf == Placed.cache2
<1>1. mem' = Written(mem, buf, f)
  BY DEF Activate, Put, RowOf, Written
<1>2. /\ r \in 0 .. NumRows - 1 /\ NumRows \in Nat /\ N \in Nat /\ r \in Nat
      /\ Shards \in {1, 2} /\ ActiveRows \subseteq 0 .. NumRows - 1
  BY RowRanges DEF ActInv
<1>3. buf \in Buffers /\ Placed.cache13 \in Buffers /\ buf # Placed.cache13
  BY Places
<1>4. NumRows * N <= Capacity(buf)
  BY Fits DEF ScratchSuffices
<1>5. ASSUME GateOk(mem, r), NEW c \in 0 .. N - 1 PROVE good(c)
  <2>1. r * Shards * N = r * (Shards * N)
    BY <1>2
  <2>2. c \in 0 .. Shards * N - 1 /\ (Shards = 2 => c + N \in 0 .. Shards * N - 1)
    BY <1>2
  <2>3. cell(c) = <<"gate", r, c, MulOnGate>>
    BY <1>5, <2>1, <2>2 DEF GateOk
  <2>4. Shards = 2 => cell(c + N) = <<"gate", r, c + N, MulOnGate>>
    BY <1>5, <2>1, <2>2 DEF GateOk
  <2> QED BY <2>3, <2>4
<1> HIDE DEF good
<1>6. /\ DOMAIN f = r * N .. r * N + N - 1
      /\ \A a \in DOMAIN f : /\ f[a] \in {<<"act", r, a - r * N, MulOnGate>>, Junk}
                             /\ good(a - r * N) => f[a] = <<"act", r, a - r * N, MulOnGate>>
  OBVIOUS
<1> HIDE DEF f, buf
<1>7. RowTyped(f, r, N)
  BY <1>6, Weights DEF Typed, RowTyped, IsRow
<1>8. Laid(mem') /\ OneRow(mem', mem, buf, NumRows, N, r, f)
  <2> PICK m2 : m2 = mem'
    OBVIOUS
  <2>1. Laid(m2) /\ OneRow(m2, mem, buf, NumRows, N, r, f)
    BY <1>1, <1>2, <1>3, <1>4, <1>7, RowStep
  <2> QED BY <2>1
<1>9. ASSUME NEW j \in ActiveRows PROVE GateOk(mem', j)
  <2>1. mem'[Placed.cache13] = mem[Placed.cache13]
    BY <1>3, <1>8 DEF OneRow
  <2>2. GateOk(mem, j)
    BY DEF ActInv
  <2> QED BY <2>1, <2>2 DEF GateOk
<1>10. ASSUME NEW j \in ActiveRows \ (todo \ {r}) PROVE ActOk(mem', j)
  <2> SUFFICES ASSUME NEW c \in 0 .. N - 1
               PROVE  mem'[buf][j * N + c] = <<"act", j, c, MulOnGate>>
    BY DEF ActOk, buf
  <2>1. j \in 0 .. NumRows - 1
    BY <1>2
  <2>2. mem'[buf][j * N + c] = IF j = r THEN f[j * N + c] ELSE mem[buf][j * N + c]
    BY <1>8, <2>1 DEF OneRow
  <2>3. CASE j = r
    <3>1. j * N + c \in DOMAIN f /\ (j * N + c) - r * N = c
      BY <1>2, <1>6, <2>3, RowsApart
    <3>2. good(c)
      BY <1>5, <2>3 DEF ActInv
    <3> QED BY <1>6, <2>2, <2>3, <3>1, <3>2
  <2>4. CASE j # r
    <3>1. ActOk(mem, j)
      BY <2>4 DEF ActInv
    <3>2. mem[buf][j * N + c] = <<"act", j, c, MulOnGate>>
      BY <3>1 DEF ActOk, buf
    <3> QED BY <2>2, <2>4, <3>2
  <2> QED BY <2>3, <2>4
<1> QED BY <1>8, <1>9, <1>10 DEF ActInv

\* The output, or the cache the output is added up from, is cleared.
LEMMA ZeroStep ==
  ASSUME CallType, Laid(mem), ZeroInv(mem, todo), NEW r \in todo, ZeroOut(r)
  PROVE  Laid(mem') /\ ZeroInv(mem', todo \ {r})
<1> DEFINE f == [a \in 0 .. NumRows * K - 1 |-> Zero]
           buf == Placed.cache13
<1>0. Target = buf /\ buf \in Buffers /\ Placed.cache2 \in Buffers /\ Placed.cache2 # buf
  BY Places
<1>1. mem' = [mem EXCEPT ![buf] =
                [a \in DOMAIN mem[buf] |-> IF a \in DOMAIN f THEN f[a] ELSE mem[buf][a]]]
  BY <1>0 DEF ZeroOut, Put
<1>2. /\ NumRows \in Nat /\ K \in Nat /\ Rows = 0 .. NumRows - 1
      /\ Capacity(buf) \in Nat /\ NumRows * K <= Capacity(buf)
      /\ DOMAIN mem[buf] = 0 .. Capacity(buf) - 1
      /\ DOMAIN mem = Buffers
  BY <1>0, RowRanges, Capacities, Fits DEF ScratchSuffices, Laid
<1> HIDE DEF buf
<1>3. /\ DOMAIN mem' = Buffers
      /\ \A b \in Buffers : b # buf => mem'[b] = mem[b]
      /\ mem'[buf] = [a \in DOMAIN mem[buf] |-> IF a \in DOMAIN f THEN f[a] ELSE mem[buf][a]]
  BY <1>0, <1>1, <1>2
<1>4. DOMAIN f = 0 .. NumRows * K - 1 /\ \A a \in DOMAIN f : f[a] = Zero
  OBVIOUS
<1> HIDE DEF f
<1>5. Laid(mem')
  <2>1. ASSUME NEW b \in Buffers, NEW a \in DOMAIN mem'[b] PROVE Typed(mem'[b][a])
    <3>1. a \in DOMAIN mem[b]
      BY <1>3
    <3>2. Typed(mem[b][a])
      BY <3>1 DEF Laid
    <3>3. mem'[b][a] = mem[b][a] \/ mem'[b][a] = Zero
      BY <1>3, <1>4, <3>1
    <3> QED BY <3>2, <3>3 DEF Typed
  <2>2. \A b \in Buffers : DOMAIN mem'[b] = 0 .. Capacity(b) - 1
    BY <1>2, <1>3 DEF Laid
  <2> QED BY <1>3, <2>1, <2>2 DEF Laid
<1>6. ASSUME NEW j \in ActiveRows PROVE ActOk(mem', j)
  <2>1. mem'[Placed.cache2] = mem[Placed.cache2]
    BY <1>0, <1>3
  <2>2. ActOk(mem, j)
    BY DEF ZeroInv
  <2> QED BY <2>1, <2>2 DEF ActOk
<1>7. ASSUME NEW j \in Rows PROVE Cleared(mem', j)
  <2> SUFFICES ASSUME NEW c \in 0 .. K - 1 PROVE mem'[buf][j * K + c] = Zero
    BY <1>0 DEF Cleared
  <2>1. NumRows * K \in Nat /\ NumRows * K <= NumRows * K /\ j \in 0 .. NumRows - 1
    BY <1>2
  <2>2. j * K + c \in 0 .. NumRows * K - 1
    BY <1>2, <2>1, RowInside, Zenon
  <2>3. j * K + c \in DOMAIN mem[buf]
    BY <1>2, <2>1, RowInside, Zenon
  <2> QED BY <1>3, <1>4, <2>2, <2>3
<1>8. todo \ {r} \subseteq {0}
  BY DEF ZeroInv
<1> QED BY <1>5, <1>6, <1>7, <1>8 DEF ZeroInv

\* The second product of one row: the first one that stores to Target.
LEMMA Gemm2Step ==
  ASSUME CallType, Laid(mem), Gemm2Inv(mem, todo), NEW r \in todo, Gemm2(r)
  PROVE  Laid(mem') /\ Gemm2Inv(mem', todo \ {r})
<1> DEFINE whole == \A c \in 0 .. N-1 :
                      mem[Placed.cache2][r * N + c] = <<"act", r, c, MulOnGate>>
           down(c) == IF whole THEN <<"down", r, c, MulOnGate + MulOnDown>> ELSE Junk
           f == [a \in r * K .. r * K + K - 1 |-> down(a - r * K)]
           buf == Target
<1>1. mem' = Written(mem, buf, f)
  BY DEF Gemm2, Put, RowOf, Written
<1>2. whole
  BY DEF Gemm2Inv, ActOk
<1>3. /\ r \in 0 .. NumRows - 1 /\ NumRows \in Nat /\ K \in Nat
      /\ r \in Nat /\ ActiveRows \subseteq 0 .. NumRows - 1
      /\ r \in ActiveRows /\ Rows = 0 .. NumRows - 1
  BY RowRanges DEF Gemm2Inv
<1>4. buf \in Buffers /\ Placed.cache2 \in Buffers /\ Placed.cache2 # buf
  BY Places
<1>5. NumRows * K <= Capacity(buf)
  BY Fits DEF ScratchSuffices
<1> HIDE DEF whole
<1>6. DOMAIN f = r * K .. r * K + K - 1
      /\ \A a \in DOMAIN f : f[a] = <<"down", r, a - r * K, 1>>
  BY <1>2, Weights
<1> HIDE DEF f, buf
<1>7. RowTyped(f, r, K)
  BY <1>6 DEF Typed, RowTyped, IsRow
<1>8. Laid(mem') /\ OneRow(mem', mem, buf, NumRows, K, r, f)
  <2> PICK m2 : m2 = mem'
    OBVIOUS
  <2>1. Laid(m2) /\ OneRow(m2, mem, buf, NumRows, K, r, f)
    BY <1>1, <1>3, <1>4, <1>5, <1>7, RowStep
  <2> QED BY <2>1
<1>9. ASSUME NEW j \in ActiveRows PROVE ActOk(mem', j)
  <2>1. mem'[Placed.cache2] = mem[Placed.cache2]
    BY <1>4, <1>8 DEF OneRow
  <2>2. ActOk(mem, j)
    BY DEF Gemm2Inv
  <2> QED BY <2>1, <2>2 DEF ActOk
<1>10. ASSUME NEW j \in ActiveRows \ (todo \ {r}) PROVE DownOk(mem', j)
  <2> SUFFICES ASSUME NEW c \in 0 .. K - 1
               PROVE  mem'[buf][j * K + c] = <<"down", j, c, 1>>
    BY DEF DownOk, buf
  <2>1. j \in 0 .. NumRows - 1
    BY <1>3
  <2>2. mem'[buf][j * K + c] = IF j = r THEN f[j * K + c] ELSE mem[buf][j * K + c]
    BY <1>8, <2>1 DEF OneRow
  <2>3. CASE j = r
    <3>1. j * K + c \in DOMAIN f /\ (j * K + c) - r * K = c
      BY <1>3, <1>6, <2>3, RowsApart
    <3> QED BY <1>6, <2>2, <2>3, <3>1
  <2>4. CASE j # r
    <3>1. DownOk(mem, j)
      BY <2>4 DEF Gemm2Inv
    <3>2. mem[buf][j * K + c] = <<"down", j, c, 1>>
      BY <3>1 DEF DownOk, buf
    <3> QED BY <2>2, <2>4, <3>2
  <2> QED BY <2>3, <2>4
<1>11. ASSUME ~Batched, NEW j \in Rows \ ActiveRows PROVE Cleared(mem', j)
  <2> SUFFICES ASSUME NEW c \in 0 .. K - 1 PROVE mem'[buf][j * K + c] = Zero
    BY DEF Cleared, buf
  <2>1. j \in 0 .. NumRows - 1 /\ j # r
    BY <1>3
  <2>2. mem'[buf][j * K + c] = mem[buf][j * K + c]
    BY <1>8, <2>1 DEF OneRow
  <2>3. Cleared(mem, j)
    BY <1>11 DEF Gemm2Inv
  <2> QED BY <2>2, <2>3 DEF Cleared, buf
<1> QED BY <1>3, <1>8, <1>9, <1>10, <1>11 DEF Gemm2Inv
-----------------------------------------------------------------------------
\* The rows of a token are rows of the products.
LEMMA OwnRows ==
  ASSUME CallType, ~Batched, NEW t \in RowsIn
  PROVE  Own(t) \subseteq Rows
<1> DEFINE b == call.topk
<1>1. /\ t \in 0 .. call.m - 1 /\ call.m \in Nat /\ b \in Nat
      /\ NumRows = call.m * b /\ Rows = 0 .. NumRows - 1
  BY RowRanges
<1> HIDE DEF b
<1>2. b * (t + 1) <= b * call.m
  BY <1>1, TimesMonotone
<1>3. b * (t + 1) = t * b + b /\ b * call.m = call.m * b /\ t * b \in Nat /\ call.m * b \in Nat
  BY <1>1
<1>4. ASSUME NEW r \in t * b .. t * b + b - 1 PROVE r \in 0 .. NumRows - 1
  BY <1>1, <1>2, <1>3
<1> QED BY <1>1, <1>4 DEF Own, b

\* The sum of a token's rows: the products of its local experts, and zeros.
LEMMA SumStep ==
  ASSUME CallType, Laid(mem), ~Batched, SumInv(mem, todo), NEW t \in todo, SumRow(t)
  PROVE  Laid(mem') /\ SumInv(mem', todo \ {t})
<1> DEFINE own == t * call.topk .. t * call.topk + call.topk - 1
           cell(r, c) == mem[Placed.cache13][r * K + c]
           good(r, c) == cell(r, c) = Zero \/ \E v \in 0 .. 2 : cell(r, c) = <<"down", r, c, v>>
           sum(c) == IF \A r \in own : good(r, c)
                       THEN <<"sum", t, c, {cell(r, c) : r \in own} \ {Zero}>> ELSE Junk
           f == [a \in t * K .. t * K + K - 1 |-> sum(a - t * K)]
           buf == Placed.out
           whole(c) == <<"sum", t, c, {<<"down", r, c, 1>> : r \in {r \in Own(t) : Active(r)}}>>
<1>1. mem' = Written(mem, buf, f)
  BY DEF SumRow, Put, RowOf, Written
<1>2. /\ RowsIn = 0 .. call.m - 1 /\ call.m \in Nat /\ K \in Nat
      /\ t \in 0 .. call.m - 1 /\ t \in Nat /\ t \in RowsIn /\ todo \subseteq RowsIn
  BY RowRanges DEF SumInv
<1>3. /\ buf \in Buffers /\ Placed.cache13 \in Buffers /\ buf # Placed.cache13
      /\ Target = Placed.cache13
  BY Places
<1>4. call.m * K <= Capacity(buf)
  <2>1. OutRows = call.m
    BY <1>2, FS_Interval DEF OutRows
  <2> QED BY <2>1, Fits DEF ScratchSuffices
<1>5. ASSUME NEW c \in 0 .. K - 1 PROVE sum(c) = whole(c)
  <2>1. ASSUME NEW r \in own
        PROVE  cell(r, c) = IF Active(r) THEN <<"down", r, c, 1>> ELSE Zero
    <3>1. r \in Rows
      BY <1>2, OwnRows DEF Own
    <3>2. CASE Active(r)
      BY <1>3, <3>1, <3>2 DEF SumInv, DownOk, ActiveRows
    <3>3. CASE ~Active(r)
      BY <1>3, <3>1, <3>3 DEF SumInv, Cleared, ActiveRows
    <3> QED BY <3>2, <3>3
  <2>2. ASSUME NEW r \in own PROVE good(r, c) /\ <<"down", r, c, 1>> # Zero
    <3>1. <<"down", r, c, 1>> # Zero
      BY DEF Zero
    <3>2. CASE Active(r)
      <4>1. cell(r, c) = <<"down", r, c, 1>>
        BY <2>1, <3>2
      <4>2. 1 \in 0 .. 2
        OBVIOUS
      <4> QED BY <3>1, <4>1, <4>2, Zenon
    <3>3. CASE ~Active(r)
      <4>1. cell(r, c) = Zero
        BY <2>1, <3>3
      <4> QED BY <3>1, <4>1, Zenon
    <3> QED BY <3>2, <3>3
  <2>3. {cell(r, c) : r \in own} \ {Zero} = {<<"down", r, c, 1>> : r \in {r \in own : Active(r)}}
    <3> HIDE DEF cell, good, own
    <3> QED BY <2>1, <2>2
  <2>4. Own(t) = own
    BY DEF Own
  <2> HIDE DEF cell, good, own
  <2> QED BY <2>2, <2>3, <2>4
<1> HIDE DEF sum
<1>6. DOMAIN f = t * K .. t * K + K - 1 /\ \A a \in DOMAIN f : f[a] = whole(a - t * K)
  <2>1. ASSUME NEW a \in t * K .. t * K + K - 1 PROVE a - t * K \in 0 .. K - 1
    <3>1. t * K \in Nat
      BY <1>2
    <3> QED BY <1>2, <3>1
  <2> HIDE DEF whole
  <2> QED BY <1>5, <2>1
<1> HIDE DEF f, buf
<1>7. RowTyped(f, t, K)
  <2>1. ASSUME NEW c PROVE Typed(whole(c))
    BY DEF Typed
  <2> HIDE DEF whole
  <2> QED BY <1>6, <2>1 DEF RowTyped, IsRow
<1>8. Laid(mem') /\ OneRow(mem', mem, buf, call.m, K, t, f)
  <2> PICK m2 : m2 = mem'
    OBVIOUS
  <2>1. Laid(m2) /\ OneRow(m2, mem, buf, call.m, K, t, f)
    BY <1>1, <1>2, <1>3, <1>4, <1>7, RowStep
  <2> QED BY <2>1
<1>9. mem'[Placed.cache13] = mem[Placed.cache13]
  BY <1>3, <1>8 DEF OneRow
<1>10. \A j \in ActiveRows : DownOk(mem', j)
  BY <1>3, <1>9 DEF SumInv, DownOk
<1>11. \A j \in Rows \ ActiveRows : Cleared(mem', j)
  BY <1>3, <1>9 DEF SumInv, Cleared
<1>12. ASSUME NEW j \in RowsIn \ (todo \ {t}) PROVE SumOk(mem', j)
  <2>1. ASSUME NEW c \in 0 .. K - 1
        PROVE  mem'[buf][j * K + c] = IF j = t THEN f[j * K + c] ELSE mem[buf][j * K + c]
    BY <1>2, <1>8 DEF OneRow
  <2>2. CASE j = t
    <3>1. ASSUME NEW c \in 0 .. K - 1 PROVE mem'[buf][j * K + c] = whole(c)
      <4>1. j * K + c \in DOMAIN f /\ (j * K + c) - t * K = c
        BY <1>2, <1>6, <2>2, RowsApart
      <4> HIDE DEF whole
      <4> QED BY <1>6, <2>1, <2>2, <4>1
    <3> QED BY <2>2, <3>1 DEF SumOk, buf
  <2>3. CASE j # t
    <3>1. SumOk(mem, j)
      BY <2>3 DEF SumInv
    <3> QED BY <2>1, <2>3, <3>1 DEF SumOk, buf
  <2> QED BY <2>2, <2>3
<1> QED BY <1>2, <1>8, <1>10, <1>11, <1>12 DEF SumInv

\* The rows that are nobody's are those of experts on another rank, and then
\* the call came with a map.
LEMMA AllLocal ==
  ASSUME CallType, ~Batched, ~call.hasMap
  PROVE  ActiveRows = Rows
<1>1. ASSUME NEW r \in Rows PROVE Active(r)
  <2>1. r \in 0 .. call.m * call.topk - 1
    BY DEF Rows, NumRows
  <2>2. call.ids \in [0 .. call.m * call.topk - 1 -> Experts] /\ call.mapped = Experts
    BY DEF CallType
  <2> QED BY <2>1, <2>2 DEF Active
<1> QED BY <1>1 DEF ActiveRows

\* A kernel that is launched finds what it needs.
LEMMA LaunchStep ==
  ASSUME MoeInv, Launch
  PROVE  Laid(mem') /\ PhaseInv(mem', kernel', todo')
<1> USE DEF MoeInv
<1>1. /\ todo = {} /\ kernel # "done" /\ mem' = mem
      /\ kernel' = After(kernel) /\ todo' = Work(After(kernel))
  BY DEF Launch
<1>2. /\ kernel \in {"none", "gemm1", "act", "zero", "gemm2", "sum"}
      /\ PhaseInv(mem, kernel, {})
  BY <1>1 DEF PhaseInv
<1>3. Laid(mem')
  BY <1>1
<1>4. CASE kernel = "none"
  <2>1. kernel' = "gemm1" /\ todo' = ActiveRows
    BY <1>1, <1>4 DEF After, Work, ActiveRows
  <2>2. Gemm1Inv(mem, ActiveRows)
    BY <1>2, <1>4 DEF PhaseInv, Gemm1Inv
  <2> QED BY <1>1, <1>3, <2>1, <2>2 DEF PhaseInv
<1>5. CASE kernel = "gemm1"
  <2>1. kernel' = "act" /\ todo' = Rows
    BY <1>1, <1>5 DEF After, Work
  <2>2. ActInv(mem, Rows)
    BY <1>2, <1>5, RowRanges DEF PhaseInv, Gemm1Inv, ActInv
  <2> QED BY <1>1, <1>3, <2>1, <2>2 DEF PhaseInv
<1>6. CASE kernel = "act"
  <2>1. \A r \in ActiveRows : ActOk(mem, r)
    BY <1>2, <1>6 DEF PhaseInv, ActInv
  <2>2. CASE NeedsZero
    <3>1. kernel' = "zero" /\ todo' = {0}
      BY <1>1, <1>6, <2>2 DEF After, Work
    <3>2. ZeroInv(mem, {0})
      BY <2>1 DEF ZeroInv
    <3> QED BY <1>1, <1>3, <3>1, <3>2 DEF PhaseInv
  <2>3. CASE ~NeedsZero
    <3>1. kernel' = "gemm2" /\ todo' = ActiveRows
      BY <1>1, <1>6, <2>3 DEF After, Work, ActiveRows
    <3>2. ~Batched => Rows \ ActiveRows = {}
      BY <2>3, AllLocal DEF NeedsZero
    <3>3. Gemm2Inv(mem, ActiveRows)
      BY <2>1, <3>2 DEF Gemm2Inv
    <3> QED BY <1>1, <1>3, <3>1, <3>3 DEF PhaseInv
  <2> QED BY <2>2, <2>3
<1>7. CASE kernel = "zero"
  <2>1. kernel' = "gemm2" /\ todo' = ActiveRows
    BY <1>1, <1>7 DEF After, Work, ActiveRows
  <2>2. Gemm2Inv(mem, ActiveRows)
    BY <1>2, <1>7 DEF PhaseInv, ZeroInv, Gemm2Inv
  <2> QED BY <1>1, <1>3, <2>1, <2>2 DEF PhaseInv
<1>8. CASE kernel = "gemm2"
  <2>1. \A r \in ActiveRows : DownOk(mem, r)
    BY <1>2, <1>8 DEF PhaseInv, Gemm2Inv
  <2>2. CASE Batched
    <3>1. kernel' = "done" /\ todo' = {}
      BY <1>1, <1>8, <2>2 DEF After, Work
    <3>2. DoneInv(mem, {})
      BY <2>1, <2>2 DEF DoneInv
    <3> QED BY <1>1, <1>3, <3>1, <3>2 DEF PhaseInv
  <2>3. CASE ~Batched
    <3>1. kernel' = "sum" /\ todo' = RowsIn
      BY <1>1, <1>8, <2>3 DEF After, Work
    <3>2. SumInv(mem, RowsIn)
      BY <1>2, <1>8, <2>1, <2>3 DEF PhaseInv, Gemm2Inv, SumInv
    <3> QED BY <1>1, <1>3, <2>3, <3>1, <3>2 DEF PhaseInv
  <2> QED BY <2>2, <2>3
<1>9. CASE kernel = "sum"
  <2>1. kernel' = "done" /\ todo' = {}
    BY <1>1, <1>9 DEF After, Work
  <2>2. DoneInv(mem, {})
    BY <1>2, <1>9 DEF PhaseInv, SumInv, DoneInv
  <2> QED BY <1>1, <1>3, <2>1, <2>2 DEF PhaseInv
<1> QED BY <1>2, <1>4, <1>5, <1>6, <1>7, <1>8, <1>9
-----------------------------------------------------------------------------
(* The invariant is inductive *)

LEMMA InitMoeInv == Init => MoeInv
<1> SUFFICES ASSUME Init PROVE MoeInv
  OBVIOUS
<1>1. CallType
  BY InitCallType
<1>2. /\ kernel = "none" /\ todo = {}
      /\ mem = [buf \in Buffers |->
                  [a \in 0 .. Capacity(buf)-1 |->
                     IF buf = "hidden" THEN <<"x", a \div K, a % K>> ELSE Junk]]
  BY DEF Init
<1>3. Laid(mem)
  <2>1. ASSUME NEW buf \in Buffers, NEW a \in DOMAIN mem[buf] PROVE Typed(mem[buf][a])
    BY <1>2, <2>1 DEF Typed
  <2>2. DOMAIN mem = Buffers /\ \A buf \in Buffers : DOMAIN mem[buf] = 0 .. Capacity(buf)-1
    BY <1>2
  <2> QED BY <2>1, <2>2 DEF Laid
<1>4. ASSUME NEW i \in RowsIn PROVE InputOk(mem, i)
  <2> SUFFICES ASSUME NEW c \in 0 .. K - 1
               PROVE  mem["hidden"][i * K + c] = <<"x", i, c>>
    BY DEF InputOk
  <2>1. "hidden" \in Buffers
    BY DEF Buffers
  <2>2. /\ OutRows \in Nat /\ RowsIn = 0 .. OutRows - 1 /\ K \in Nat /\ i \in Nat
    <3>1. PICK b \in Nat : RowsIn = 0 .. b - 1
      BY <1>1, RowRanges
    <3>2. Cardinality(0 .. b - 1) = b
      BY FS_Interval
    <3> QED BY <1>1, <3>1, <3>2, RowRanges DEF OutRows
  <2>3. Capacity("hidden") = OutRows * K /\ OutRows * K \in Nat
    BY <2>2 DEF Capacity
  <2>4. i * K + c \in 0 .. Capacity("hidden") - 1
    <3>1. OutRows * K <= Capacity("hidden") /\ Capacity("hidden") \in Nat
      BY <2>3
    <3> QED BY <2>2, <3>1, RowInside, Zenon
  <2>5. mem["hidden"][i * K + c] = <<"x", (i * K + c) \div K, (i * K + c) % K>>
    BY <1>2, <2>1, <2>4
  <2>6. (i * K + c) \div K = i /\ (i * K + c) % K = c
    <3> PICK k : k = K
      OBVIOUS
    <3>1. k \in Nat \ {0} /\ c \in 0 .. k - 1
      BY <2>2
    <3>2. (i * k + c) \div k = i /\ (i * k + c) % k = c
      BY <2>2, <3>1, QuotientIs
    <3> QED BY <3>2
  <2> QED BY <2>5, <2>6
<1>5. PhaseInv(mem, kernel, todo)
  BY <1>2, <1>4 DEF PhaseInv
<1> QED BY <1>1, <1>3, <1>5 DEF MoeInv

\* The invariant speaks of the arguments, which do not change, and of the
\* memory it is given.
LEMMA SameArguments ==
  ASSUME call' = call
  PROVE  /\ Laid(mem)' <=> Laid(mem')
         /\ PhaseInv(mem, kernel, todo)' <=> PhaseInv(mem', kernel', todo')
<1>1. /\ Batched' = Batched /\ N' = N /\ K' = K /\ Shards' = Shards /\ Placed' = Placed
      /\ MulOnGate' = MulOnGate
  BY DEF Batched, N, K, Shards, Placed, MulOnGate
<1>2. NumRows' = NumRows
  BY <1>1 DEF NumRows
<1>3. Rows' = Rows /\ RowsIn' = RowsIn
  BY <1>1, <1>2 DEF Rows, RowsIn
<1>4. \A r : Active(r)' = Active(r)
  BY <1>1 DEF Active
<1>5. OutRows' = OutRows /\ Workspaces' = Workspaces /\ Buffers' = Buffers /\ Target' = Target
  BY <1>1, <1>2, <1>3 DEF OutRows, Workspaces, Buffers, Target
<1>6. \A buf : Capacity(buf)' = Capacity(buf)
  BY <1>1, <1>2, <1>5 DEF Capacity
<1>7. Laid(mem)' <=> Laid(mem')
  BY <1>5, <1>6 DEF Laid
<1>8. ActiveRows' = ActiveRows
  BY <1>3, <1>4 DEF ActiveRows
<1>9. /\ \A i : InputOk(mem, i)' <=> InputOk(mem', i)
      /\ \A r : GateOk(mem, r)' <=> GateOk(mem', r)
      /\ \A r : ActOk(mem, r)' <=> ActOk(mem', r)
      /\ \A r : DownOk(mem, r)' <=> DownOk(mem', r)
      /\ \A r : Cleared(mem, r)' <=> Cleared(mem', r)
  BY <1>1, <1>5 DEF InputOk, GateOk, ActOk, DownOk, Cleared
<1>10. ASSUME NEW t PROVE SumOk(mem, t)' <=> SumOk(mem', t)
  <2>1. {r \in Own(t) : Active(r)}' = {r \in Own(t) : Active(r)}
    BY <1>4 DEF Own
  <2> QED BY <1>1, <2>1 DEF SumOk
<1>11. PhaseInv(mem, kernel, todo)' <=> PhaseInv(mem', kernel', todo')
  BY <1>1, <1>3, <1>8, <1>9, <1>10
     DEF PhaseInv, Gemm1Inv, ActInv, ZeroInv, Gemm2Inv, SumInv, DoneInv
<1> QED BY <1>7, <1>11

LEMMA NextMoeInv == MoeInv /\ [Next]_vars => MoeInv'
<1> SUFFICES ASSUME MoeInv, [Next]_vars PROVE MoeInv'
  OBVIOUS
<1> USE DEF MoeInv
<1>1. CallType' /\ call' = call
  BY CallStep DEF Next, Launch, Done, vars
<1>2. Laid(mem') /\ PhaseInv(mem', kernel', todo')
  <2>1. CASE Launch
    BY <2>1, LaunchStep
  <2>2. ASSUME NEW r \in todo, Done(r),
               Gemm1(r) \/ Activate(r) \/ ZeroOut(r) \/ Gemm2(r) \/ SumRow(r)
        PROVE  Laid(mem') /\ PhaseInv(mem', kernel', todo')
    <3>1. kernel' = kernel /\ todo' = todo \ {r}
      BY <2>2 DEF Done
    <3>2. CASE Gemm1(r)
      <4>1. kernel = "gemm1"
        BY <3>2 DEF Gemm1
      <4> QED BY <3>1, <3>2, <4>1, Gemm1Step DEF PhaseInv
    <3>3. CASE Activate(r)
      <4>1. kernel = "act"
        BY <3>3 DEF Activate
      <4> QED BY <3>1, <3>3, <4>1, ActivateStep DEF PhaseInv
    <3>4. CASE ZeroOut(r)
      <4>1. kernel = "zero"
        BY <3>4 DEF ZeroOut
      <4> QED BY <3>1, <3>4, <4>1, ZeroStep DEF PhaseInv
    <3>5. CASE Gemm2(r)
      <4>1. kernel = "gemm2"
        BY <3>5 DEF Gemm2
      <4> QED BY <3>1, <3>5, <4>1, Gemm2Step DEF PhaseInv
    <3>6. CASE SumRow(r)
      <4>1. kernel = "sum"
        BY <3>6 DEF SumRow
      <4> QED BY <3>1, <3>6, <4>1, SumStep DEF PhaseInv
    <3> QED BY <2>2, <3>2, <3>3, <3>4, <3>5, <3>6
  <2>3. CASE UNCHANGED vars
    BY <2>3 DEF vars
  <2> QED BY <2>1, <2>2, <2>3 DEF Next
<1> QED BY <1>1, <1>2, SameArguments

LEMMA MoeInvHolds == Spec => []MoeInv
BY InitMoeInv, NextMoeInv, PTL DEF Spec

\* Whatever the call: no memory holds a product to which the router weight was
\* applied twice, and every kernel works on rows of its tensor.
THEOREM TypeCorrect == Spec => []TypeOK
<1>1. ASSUME MoeInv PROVE TypeOK
  <2>1. \A buf \in Buffers : \A a \in DOMAIN mem[buf] : Typed(mem[buf][a])
    BY <1>1 DEF MoeInv, Laid
  <2>2. todo \subseteq Rows \cup RowsIn
    <3>1. ActiveRows \subseteq Rows /\ 0 \in Rows \cup RowsIn
      <4>1. CASE ~Batched
        BY <1>1, <4>1, RowRanges DEF MoeInv, CallType
      <4>2. CASE Batched
        <5>1. Cardinality(call.mapped) \in Nat /\ Cardinality(call.mapped) # 0
          BY <1>1, FS_CardinalityType, FS_EmptySet DEF MoeInv, CallType
        <5>2. Cardinality(call.mapped) * call.m > 0
          BY <1>1, <5>1 DEF MoeInv, CallType
        <5> QED BY <1>1, <4>2, <5>1, <5>2, RowRanges DEF MoeInv, NumRows
      <4> QED BY <4>1, <4>2
    <3> QED BY <1>1, <3>1
            DEF MoeInv, PhaseInv, Gemm1Inv, ActInv, ZeroInv, Gemm2Inv, SumInv, DoneInv
  <2>3. kernel \in {"none", "gemm1", "act", "zero", "gemm2", "sum", "done"}
    BY <1>1 DEF MoeInv, PhaseInv
  <2> QED BY <2>1, <2>2, <2>3 DEF TypeOK, Typed
<1> QED BY <1>1, MoeInvHolds, PTL

\* Whatever the routing, the counts, the widths, the caller, the order of the
\* rows and what the scratch held: the result of a token is the sum of its
\* local experts' products, each weighted once.
THEOREM OutputIsExact == Spec => []OutputExact
<1>1. ASSUME MoeInv PROVE OutputExact
  <2> SUFFICES ASSUME kernel = "done", NEW t \in RowsIn, NEW c \in 0 .. K-1
               PROVE  LET own == t * call.topk .. t * call.topk + call.topk - 1
                          got == mem[Placed.out][t * K + c]
                      IN  IF Batched THEN Active(t) => got = <<"down", t, c, 1>>
                          ELSE got = <<"sum", t, c, {<<"down", r, c, 1>> : r \in {r \in own : Active(r)}}>>
    BY DEF OutputExact
  <2>1. DoneInv(mem, todo) /\ CallType
    BY <1>1 DEF MoeInv, PhaseInv
  <2>2. CASE Batched
    <3>1. Active(t) => DownOk(mem, t)
      BY <2>1, <2>2, RowRanges DEF DoneInv, ActiveRows
    <3>2. Target = Placed.out
      BY <2>1, <2>2, Places
    <3> QED BY <2>2, <3>1, <3>2 DEF DownOk
  <2>3. CASE ~Batched
    <3>1. SumOk(mem, t)
      BY <2>1, <2>3 DEF DoneInv
    <3> QED BY <2>3, <3>1 DEF SumOk, Own
  <2> QED BY <2>2, <2>3
<1> QED BY <1>1, MoeInvHolds, PTL
-----------------------------------------------------------------------------
(* Weights: what is left after each step, as a function of the layer.      *)

\* The stages in which there are tensors.

Live == {"loaded", "converted", "fp8", "sorted", "zeros", "packed", "scaled", "called"}

\* What has been done by now.  Experts are packed and scaled before their zero
\* points are converted, linear layers after.
Converted == stage # "loaded"
Coded     == stage \notin {"loaded", "converted"}
Sorted    == stage \notin {"loaded", "converted", "fp8"}
Packed    == stage \in {"packed", "scaled", "called"} \cup (IF IsMoe THEN {"zeros"} ELSE {})
Scaled    == stage \in {"scaled", "called"} \cup (IF IsMoe THEN {"zeros"} ELSE {})
Zeroed    == stage \in {"zeros", "called"} \cup (IF IsMoe THEN {} ELSE {"packed", "scaled"})

\* The rank's rows as loaded; argsort of its g_idx; both after sorting; and how
\* many rows its scales have.
PlainRows == [k \in 0 .. size_k-1 |-> SourceRow(k)]
Sort      == SortIndices(LoadedIdx)
SortedIdx == [k \in 0 .. size_k-1 |-> LoadedIdx[Sort[k]]]
SortedRows == [k \in 0 .. size_k-1 |-> PlainRows[Sort[k]]]
RowCount  == Cardinality(DOMAIN GroupRows)

\* The size the scales are permuted by, and whether they become integers.
PermutedBy ==
  IF ~IsMoe THEN size_k
  ELSE IF layer.method = "awq_moe" THEN InterPP
  ELSE IF layer.product = "w2" THEN RowCount * (IF layer.gs = -1 THEN 8 ELSE layer.gs)
  ELSE IF layer.method = "gptq_moe" THEN InterPP ELSE 2 * size_n

TakesInt8 == /\ layer.act = "int8"
             /\ IF IsMoe THEN RowCount > 1 ELSE layer.gs # -1 /\ size_k \div layer.gs > 1

\* The scales' and zero points' columns as the steps leave them.
ScaleColumns == permute_scales(Columns, PermutedBy)
KernelZeros  == zero_points(Columns, layer.method # "ct_moe" /\ is_a_8bit)

Recoded == IF layer.method = "awq_moe" THEN "fp8-z" ELSE "fp8-8"

\* The g_idx and its sort indices, and then the three tensors, at every stage.
OrderHeld ==
  order = [idx  |-> IF ~Sorted THEN LoadedIdx ELSE IF has_g_idx THEN SortedIdx ELSE None,
           sort |-> IF Sorted /\ has_g_idx THEN Sort ELSE None]

WeightsHeld ==
  w = [rows   |-> IF Packed /\ has_g_idx THEN SortedRows
                  ELSE PlainRows,
       packed |-> IF Packed THEN "tiles"
                  ELSE IF layer.method = "awq_moe" \/ (IsAwq /\ ~Converted) THEN "awq" ELSE "k",
       cols   |-> IF IsAwq /\ ~(IF IsMoe THEN Packed ELSE Converted) THEN AwqColumns ELSE Columns,
       enc    |-> IF Coded /\ layer.act = "fp8" THEN Recoded ELSE "int4"]

ScalesHeld ==
  s = [groups |-> GroupRows,
       cols   |-> IF Scaled THEN ScaleColumns ELSE Columns,
       enc    |-> IF Scaled /\ TakesInt8 THEN "int16"
                  ELSE IF Coded /\ layer.act = "fp8" THEN "x512" ELSE "plain"]

ZerosHeld ==
  IF ~layer.asym THEN z = None
  ELSE z = [groups |-> GroupRows,
            cols   |-> IF Zeroed THEN KernelZeros
                       ELSE IF IsAwq /\ (IsMoe \/ ~Converted) THEN AwqColumns ELSE Columns]

\* What the checks that were passed say of the layer.
Supported == /\ check_marlin_supported
             /\ IF IsMoe THEN check_moe_marlin_supports_layer ELSE check_marlin_supports_shape

Passed ==
  /\ layer.method = "awq_moe" => layer.gs # -1
  /\ Coded /\ ~IsMoe /\ is_a_8bit => WeightType = "uint4b8"
  /\ Zeroed /\ ~IsMoe /\ layer.asym => RowCount = GroupedK
  /\ stage = "called" /\ ~IsMoe /\ layer.act = "int8" => TakesInt8

\* What apply hands to the kernel.
GivenHeld ==
  stage = "called" =>
    given = [zeros  |-> layer.asym,
             type   |-> IF layer.modular THEN ConfigType ELSE WeightType,
             factor |-> TakesInt8 /\ (layer.modular => ConfigHasFactor)]

\* The inductive invariant.
WeightsInv ==
  /\ layer \in Layers
  /\ stage \in Live \cup {"new", "chosen", "elsewhere", "refused"}
  /\ stage \in Live \cup {"chosen"} => Supported
  /\ stage \in Live => /\ Passed /\ OrderHeld /\ WeightsHeld /\ ScalesHeld /\ ZerosHeld
                       /\ GivenHeld

(* What the layer determines does not change. *)

LEMMA LayerFixed ==
  ASSUME layer' = layer
  PROVE  /\ (IsMoe' <=> IsMoe) /\ (IsAwq' <=> IsAwq) /\ (has_g_idx' <=> has_g_idx)
         /\ (is_a_8bit' <=> is_a_8bit) /\ WeightType' = WeightType /\ Recoded' = Recoded
         /\ size_k' = size_k /\ size_n' = size_n /\ InterPP' = InterPP
         /\ Columns' = Columns /\ AwqColumns' = AwqColumns
         /\ PlainRows' = PlainRows /\ LoadedIdx' = LoadedIdx /\ GroupRows' = GroupRows
         /\ RowCount' = RowCount /\ GroupedK' = GroupedK /\ PermutedBy' = PermutedBy
         /\ (TakesInt8' <=> TakesInt8) /\ ConfigType' = ConfigType
         /\ (ConfigHasFactor' <=> ConfigHasFactor) /\ (Supported' <=> Supported)
<1>1. (IsMoe' <=> IsMoe) /\ (IsAwq' <=> IsAwq) /\ (has_g_idx' <=> has_g_idx)
      /\ (is_a_8bit' <=> is_a_8bit) /\ InterPP' = InterPP /\ (SplitK' <=> SplitK)
      /\ FullK' = FullK
  BY DEF IsMoe, IsAwq, has_g_idx, is_a_8bit, InterPP, SplitK, FullK, Inter, Hidden
<1>2. size_k' = size_k /\ size_n' = size_n /\ WeightType' = WeightType /\ Recoded' = Recoded
  BY <1>1 DEF size_k, size_n, WeightType, Recoded, Inter, Hidden
<1>3. Columns' = Columns /\ PlainRows' = PlainRows
  BY <1>1, <1>2 DEF Columns, PlainRows, SourceCol, SourceRow, Inter
<1>4. AwqColumns' = AwqColumns
  BY <1>3 DEF AwqColumns, Permuted, interleave
<1>5. LoadedIdx' = LoadedIdx
  BY <1>1, <1>2 DEF LoadedIdx, GroupOf, SourceRow, NumGroups, None
<1>6. GroupRows' = GroupRows
  BY <1>1, <1>2 DEF GroupRows, NumGroups, AllGroups, load_full_w2,
     marlin_repeat_scales_on_all_ranks, row_parallel
<1>7. RowCount' = RowCount /\ GroupedK' = GroupedK
  BY <1>2, <1>6 DEF RowCount, GroupedK
<1>8. PermutedBy' = PermutedBy /\ (TakesInt8' <=> TakesInt8)
  BY <1>1, <1>2, <1>7 DEF PermutedBy, TakesInt8
<1>9. ConfigType' = ConfigType /\ (ConfigHasFactor' <=> ConfigHasFactor)
  BY DEF ConfigType, ConfigHasFactor
<1>10. Supported' <=> Supported
  BY <1>1, <1>2 DEF Supported, check_marlin_supported, check_moe_marlin_supports_layer,
     check_marlin_supports_shape, query_marlin_supported_quant_types, Hidden
<1> QED BY <1>1, <1>2, <1>3, <1>4, <1>5, <1>6, <1>7, <1>8, <1>9, <1>10

LEMMA SortFixed ==
  ASSUME layer' = layer
  PROVE  Sort' = Sort /\ SortedIdx' = SortedIdx /\ SortedRows' = SortedRows
<1>1. Sort' = Sort
  BY LayerFixed DEF Sort, SortIndices
<1> QED BY <1>1, LayerFixed DEF SortedIdx, SortedRows

LEMMA ColumnsFixed ==
  ASSUME layer' = layer
  PROVE  ScaleColumns' = ScaleColumns /\ KernelZeros' = KernelZeros
<1>1. ScaleColumns' = ScaleColumns
  BY LayerFixed DEF ScaleColumns, permute_scales, Permuted, scale_perm, scale_perm_single
<1>2. KernelZeros' = KernelZeros
  <2> DEFINE eight == layer.method # "ct_moe" /\ is_a_8bit
             p     == Permuted(Columns, scale_perm)
             q     == Permuted(p, interleave)
  <2>1. p' = p
    BY LayerFixed DEF Permuted, scale_perm
  <2>2. q' = q
    BY <2>1 DEF Permuted, interleave
  <2>3. eight' <=> eight
    BY LayerFixed
  <2>4. KernelZeros = IF eight THEN p ELSE q
    BY DEF KernelZeros, zero_points
  <2>5. KernelZeros' = IF eight' THEN p' ELSE q'
    BY DEF KernelZeros, zero_points
  <2> QED BY <2>1, <2>2, <2>3, <2>4, <2>5
<1> QED BY <1>1, <1>2

\* Fields of the tensors' records, changed one or two at a time.
LEMMA WeightFields ==
  ASSUME NEW x, NEW a, NEW b, NEW c, NEW d, NEW e, NEW p,
         x = [rows |-> a, packed |-> b, cols |-> c, enc |-> d]
  PROVE  /\ x.rows = a /\ x.packed = b /\ x.cols = c /\ x.enc = d
         /\ [x EXCEPT !.enc = e] = [rows |-> a, packed |-> b, cols |-> c, enc |-> e]
         /\ [x EXCEPT !.packed = p, !.cols = e]
               = [rows |-> a, packed |-> p, cols |-> e, enc |-> d]
         /\ [x EXCEPT !.cols = e, !.packed = p]
               = [rows |-> a, packed |-> p, cols |-> e, enc |-> d]
         /\ [x EXCEPT !.packed = p, !.rows = e]
               = [rows |-> e, packed |-> p, cols |-> c, enc |-> d]
<1>1. x.rows = a /\ x.packed = b /\ x.cols = c /\ x.enc = d
  OBVIOUS
<1>2. [x EXCEPT !.enc = e] = [rows |-> a, packed |-> b, cols |-> c, enc |-> e]
  OBVIOUS
<1> DEFINE tiles == [x EXCEPT !.packed = p]
           turned == [x EXCEPT !.cols = e]
<1>3. tiles = [rows |-> a, packed |-> p, cols |-> c, enc |-> d]
  OBVIOUS
<1>4. turned = [rows |-> a, packed |-> b, cols |-> e, enc |-> d]
  OBVIOUS
<1>5. [x EXCEPT !.packed = p, !.cols = e] = [tiles EXCEPT !.cols = e]
  BY Zenon
<1>6. [x EXCEPT !.cols = e, !.packed = p] = [turned EXCEPT !.packed = p]
  BY Zenon
<1>7. [x EXCEPT !.packed = p, !.rows = e] = [tiles EXCEPT !.rows = e]
  BY Zenon
<1> HIDE DEF tiles, turned
<1>8. [tiles EXCEPT !.cols = e] = [rows |-> a, packed |-> p, cols |-> e, enc |-> d]
  BY <1>3
<1>9. [turned EXCEPT !.packed = p] = [rows |-> a, packed |-> p, cols |-> e, enc |-> d]
  BY <1>4
<1>10. [tiles EXCEPT !.rows = e] = [rows |-> e, packed |-> p, cols |-> c, enc |-> d]
  BY <1>3
<1> QED BY <1>1, <1>2, <1>5, <1>6, <1>7, <1>8, <1>9, <1>10

\* The stage each step is due in, by method.
LEMMA Before ==
  ASSUME layer.method \in MoeMethods \cup LinearMethods, NEW step, Due(step)
  PROVE  /\ step = "converted" => layer.method = "awq_linear" /\ stage = "loaded"
         /\ step = "fp8" => stage = IF layer.method = "awq_linear" THEN "converted" ELSE "loaded"
         /\ step = "sorted" => stage = "fp8"
         /\ step = "packed" => stage = IF IsMoe THEN "sorted" ELSE "zeros"
         /\ step = "scaled" => stage = "packed"
         /\ step = "zeros" => /\ layer.method # "gptq_moe"
                              /\ stage = IF IsMoe THEN "scaled" ELSE "sorted"
<1>1. PICK i \in 2 .. Len(Steps) : Steps[i] = step /\ stage = Steps[i-1]
  BY DEF Due
<1>2. CASE layer.method = "gptq_moe"
  <2>1. IsMoe /\ Steps = <<"loaded", "fp8", "sorted", "packed", "scaled">>
    BY <1>2 DEF IsMoe, MoeMethods, Steps, MoeSteps
  <2>2. i \in {2, 3, 4, 5}
    BY <1>1, <2>1
  <2> QED BY <1>1, <1>2, <2>1, <2>2
<1>3. CASE layer.method \in {"ct_moe", "awq_moe"}
  <2>1. IsMoe /\ Steps = <<"loaded", "fp8", "sorted", "packed", "scaled", "zeros">>
    BY <1>3 DEF IsMoe, MoeMethods, Steps, MoeSteps
  <2>2. i \in {2, 3, 4, 5, 6}
    BY <1>1, <2>1
  <2> QED BY <1>1, <1>3, <2>1, <2>2
<1>4. CASE layer.method = "awq_linear"
  <2>1. ~IsMoe /\ Steps = <<"loaded", "converted", "fp8", "sorted", "zeros", "packed", "scaled">>
    BY <1>4 DEF IsMoe, IsAwq, MoeMethods, Steps, LinearSteps
  <2>2. i \in {2, 3, 4, 5, 6, 7}
    BY <1>1, <2>1
  <2> QED BY <1>1, <1>4, <2>1, <2>2
<1>5. CASE layer.method = "ct_linear"
  <2>1. ~IsMoe /\ Steps = <<"loaded", "fp8", "sorted", "zeros", "packed", "scaled">>
    BY <1>5 DEF IsMoe, IsAwq, MoeMethods, Steps, LinearSteps
  <2>2. i \in {2, 3, 4, 5, 6}
    BY <1>1, <2>1
  <2> QED BY <1>1, <1>5, <2>1, <2>2
<1> QED BY <1>2, <1>3, <1>4, <1>5 DEF MoeMethods, LinearMethods

LEMMA ReadyAt ==
  ASSUME layer.method \in MoeMethods \cup LinearMethods, Ready
  PROVE  stage = IF layer.method \in {"ct_moe", "awq_moe"} THEN "zeros" ELSE "scaled"
<1>1. CASE layer.method = "gptq_moe"
  BY <1>1 DEF IsMoe, MoeMethods, Steps, MoeSteps, Ready
<1>2. CASE layer.method \in {"ct_moe", "awq_moe"}
  BY <1>2 DEF IsMoe, MoeMethods, Steps, MoeSteps, Ready
<1>3. CASE layer.method \in LinearMethods
  BY <1>3 DEF IsMoe, IsAwq, MoeMethods, LinearMethods, Steps, LinearSteps, Ready
<1> QED BY <1>1, <1>2, <1>3 DEF MoeMethods, LinearMethods

LEMMA LayerIs ==
  ASSUME layer \in Layers
  PROVE  /\ layer.method \in MoeMethods \cup LinearMethods
         /\ layer.product \in {"w13", "w2", "column", "row"}
         /\ (IsMoe <=> layer.product \in {"w13", "w2"})
         /\ layer.asym \in BOOLEAN /\ layer.modular \in BOOLEAN
         /\ layer.gs \in {-1, 32, 64, 128} /\ layer.actorder \in {"none", "weight", "group"}
         /\ layer.act \in {"none", "int8", "fp8"}
         /\ Hidden \in Nat \ {0} /\ Inter \in Nat \ {0}
         /\ layer.tp \in Nat \ {0} /\ layer.rank \in Nat /\ layer.rank < layer.tp
         /\ Inter % layer.tp = 0
         /\ layer.product = "row" => Hidden % layer.tp = 0
         /\ IsAwq => layer.actorder = "none"
         /\ layer.method = "gptq_moe" => layer.actorder # "weight"
         /\ layer.modular => IsMoe
BY WeightConstants DEF Layer, Hidden, Inter, IsMoe, IsAwq

(* The steps preserve the invariant. *)

LEMMA WeightsAtStart == WeightsInit => WeightsInv
BY DEF WeightsInit, WeightsInv, Live

LEMMA ChooseInv == WeightsInv /\ Choose => WeightsInv'
<1> SUFFICES ASSUME WeightsInv, Choose PROVE WeightsInv'
  OBVIOUS
<1>1. layer' = layer /\ stage' \in {"elsewhere", "refused", "chosen"}
  BY DEF Choose, Stop
<1>2. stage' = "chosen" => Supported
  BY DEF Choose, Stop, Supported
<1>3. Supported' <=> Supported
  BY <1>1, LayerFixed
<1> QED BY <1>1, <1>2, <1>3 DEF WeightsInv, Live

\* A step that stops leaves nothing to say.
LEMMA StopInv ==
  ASSUME WeightsInv, Stop("refused")
  PROVE  WeightsInv'
BY DEF WeightsInv, Stop, Live

LEMMA CreateInv == WeightsInv /\ CreateWeights => WeightsInv'
<1> SUFFICES ASSUME WeightsInv, CreateWeights PROVE WeightsInv'
  OBVIOUS
<1>1. CASE layer.method = "awq_moe" /\ layer.gs = -1
  BY <1>1, StopInv DEF CreateWeights
<1>2. CASE ~(layer.method = "awq_moe" /\ layer.gs = -1)
  <2>1. /\ stage = "chosen" /\ stage' = "loaded" /\ layer' = layer
        /\ w' = LoadedWeights
        /\ s' = [groups |-> GroupRows, cols |-> Columns, enc |-> "plain"]
        /\ z' = IF layer.asym THEN [groups |-> GroupRows, cols |-> ZeroColumns] ELSE None
        /\ order' = [idx |-> LoadedIdx, sort |-> None]
    BY <1>2 DEF CreateWeights
  <2>2. layer \in Layers /\ Supported
    BY <2>1 DEF WeightsInv, Live
  <2>3. ~Converted' /\ ~Coded' /\ ~Sorted' /\ ~Packed' /\ ~Scaled' /\ ~Zeroed'
    BY <2>1 DEF Converted, Coded, Sorted, Packed, Scaled, Zeroed
  <2>4. OrderHeld'
    BY <2>1, <2>3, LayerFixed DEF OrderHeld, None
  <2>5. WeightsHeld'
    BY <2>1, <2>2, <2>3, LayerFixed, LayerIs DEF WeightsHeld, LoadedWeights, PlainRows, IsAwq
  <2>6. ScalesHeld'
    BY <2>1, <2>3, LayerFixed DEF ScalesHeld
  <2>7. ZerosHeld'
    BY <2>1, <2>2, <2>3, LayerFixed, LayerIs DEF ZerosHeld, ZeroColumns, None
  <2>8. Passed' /\ GivenHeld'
    BY <1>2, <2>1, <2>3 DEF Passed, GivenHeld
  <2> QED BY <2>1, <2>2, <2>4, <2>5, <2>6, <2>7, <2>8, LayerFixed DEF WeightsInv, Live
<1> QED BY <1>1, <1>2

LEMMA Quotient ==
  ASSUME NEW a \in Nat, NEW t \in Nat \ {0}
  PROVE  /\ a \div t \in Nat /\ a % t \in 0 .. t-1 /\ a = t * (a \div t) + (a % t)
<1> DEFINE q == a \div t
           r == a % t
<1>1. q \in Nat /\ r \in Nat /\ r < t /\ a = t * q + r
  BY Z3
<1> HIDE DEF q, r
<1>2. r \in 0 .. t-1
  BY <1>1
<1> QED BY <1>1, <1>2 DEF q, r

LEMMA IntervalSize ==
  ASSUME NEW n \in Nat
  PROVE  IsFiniteSet(0 .. n-1) /\ Cardinality(0 .. n-1) = n
<1>1. IsFiniteSet(0 .. n-1) /\ Cardinality(0 .. n-1) = IF 0 > n-1 THEN 0 ELSE (n-1) - 0 + 1
  BY FS_Interval
<1> QED BY <1>1

LEMMA PermLengths ==
  /\ Cardinality(DOMAIN interleave) = 8 /\ Cardinality(DOMAIN undo_interleave) = 8
  /\ Cardinality(DOMAIN scale_perm) = 64 /\ Cardinality(DOMAIN scale_perm_single) = 32
<1>1. DOMAIN interleave = 0 .. 8-1 /\ DOMAIN undo_interleave = 0 .. 8-1
  BY DEF interleave, undo_interleave
<1>2. DOMAIN scale_perm = 0 .. 64-1 /\ DOMAIN scale_perm_single = 0 .. 32-1
  BY DEF scale_perm, scale_perm_single
<1>3. Cardinality(0 .. 8-1) = 8 /\ Cardinality(0 .. 64-1) = 64 /\ Cardinality(0 .. 32-1) = 32
  BY IntervalSize
<1> QED BY <1>1, <1>2, <1>3

LEMMA Interleaved ==
  ASSUME NEW r \in 0 .. 7
  PROVE  undo_interleave[r] \in 0 .. 7 /\ interleave[undo_interleave[r]] = r
<1>1. \A i \in 0 .. 7 : /\ interleave[i] = <<0, 2, 4, 6, 1, 3, 5, 7>>[i + 1]
                        /\ undo_interleave[i] = <<0, 4, 1, 5, 2, 6, 3, 7>>[i + 1]
  BY DEF interleave, undo_interleave
<1>2. /\ interleave[0] = 0 /\ interleave[1] = 2 /\ interleave[2] = 4 /\ interleave[3] = 6
      /\ interleave[4] = 1 /\ interleave[5] = 3 /\ interleave[6] = 5 /\ interleave[7] = 7
  BY <1>1
<1>3. /\ undo_interleave[0] = 0 /\ undo_interleave[1] = 4 /\ undo_interleave[2] = 1
      /\ undo_interleave[3] = 5 /\ undo_interleave[4] = 2 /\ undo_interleave[5] = 6
      /\ undo_interleave[6] = 3 /\ undo_interleave[7] = 7
  BY <1>1
<1>4. r \in {0, 1, 2, 3, 4, 5, 6, 7}
  OBVIOUS
<1> QED BY <1>2, <1>3, <1>4

\* AWQ's order, undone, is the order of columns.
LEMMA UndoneAwq ==
  ASSUME NEW n \in Nat, n % 8 = 0, NEW f, DOMAIN f = 0 .. n-1, f = [i \in 0 .. n-1 |-> f[i]]
  PROVE  UndoAwq(Permuted(f, interleave)) = f
<1> DEFINE g == Permuted(f, interleave)
<1>1. g = [i \in 0 .. n-1 |-> f[8 * (i \div 8) + interleave[i % 8]]]
  BY PermLengths DEF Permuted
<1>2. UndoAwq(g) = [i \in 0 .. n-1 |-> g[8 * (i \div 8) + undo_interleave[i % 8]]]
  BY <1>1, PermLengths DEF Permuted, UndoAwq
<1>3. ASSUME NEW i \in 0 .. n-1
      PROVE  g[8 * (i \div 8) + undo_interleave[i % 8]] = f[i]
  <2> DEFINE q == i \div 8
             r == i % 8
  <2>1. q \in Nat /\ r \in 0 .. 7 /\ i = 8 * q + r
    <3>1. i \in Nat /\ 8 \in Nat \ {0}
      OBVIOUS
    <3>2. q \in Nat /\ r \in 0 .. 8-1 /\ i = 8 * q + r
      BY <3>1, Quotient
    <3> QED BY <3>2
  <2>2. 8 * q + 7 <= n - 1
    <3>1. n = 8 * (n \div 8) /\ n \div 8 \in Nat
      BY Quotient
    <3> HIDE DEF q, r
    <3> QED BY <3>1, <2>1
  <2> DEFINE u == undo_interleave[r]
  <2>3. u \in 0 .. 7 /\ interleave[u] = r
    BY <2>1, Interleaved
  <2> HIDE DEF q, r, u
  <2> DEFINE j == 8 * q + u
  <2>4. j \in 0 .. n-1 /\ j \div 8 = q /\ j % 8 = u
    <3>1. j \in 0 .. n-1 /\ j = q * 8 + u
      BY <2>1, <2>2, <2>3
    <3>2. u \in 0 .. 8-1 /\ 8 \in Nat \ {0}
      BY <2>3
    <3>3. (q * 8 + u) \div 8 = q /\ (q * 8 + u) % 8 = u
      BY <3>2, <2>1, QuotientIs
    <3> QED BY <3>1, <3>3
  <2> HIDE DEF j
  <2>5. g[j] = f[8 * (j \div 8) + interleave[j % 8]]
    BY <1>1, <2>4
  <2>6. g[j] = f[8 * q + r]
    BY <2>5, <2>4, <2>3
  <2> QED BY <2>6, <2>1 DEF j, u, q, r
<1> QED BY <1>1, <1>2, <1>3

\* What the checks of the method's choice make of the sizes.
LEMMA Sizes ==
  ASSUME layer \in Layers, Supported
  PROVE  /\ InterPP \in Nat \ {0} /\ Inter = layer.tp * InterPP
         /\ FullK \in Nat \ {0} /\ size_k \in Nat \ {0} /\ size_n \in Nat \ {0}
         /\ SplitK => FullK = layer.tp * size_k
         /\ ~SplitK => FullK = size_k
         /\ size_n % 64 = 0 /\ size_n % 8 = 0
         /\ layer.gs # -1 => size_k % layer.gs = 0
         /\ IsMoe => InterPP % 64 = 0 /\ Hidden % 128 = 0
         /\ IsMoe /\ layer.gs # -1 => InterPP % layer.gs = 0
         /\ IsAwq => layer.asym
         /\ layer.method = "gptq_moe" => ~layer.asym
<1> USE LayerIs
<1> DEFINE tp == layer.tp
<1>1. \A a \in Nat \ {0}, t \in Nat \ {0} : a % t = 0 => a = t * (a \div t) /\ a \div t \in Nat \ {0}
  <2> SUFFICES ASSUME NEW a \in Nat \ {0}, NEW t \in Nat \ {0}, a % t = 0
               PROVE  a = t * (a \div t) /\ a \div t \in Nat \ {0}
    OBVIOUS
  <2> DEFINE d == a \div t
  <2>1. d \in Int /\ a = t * d + (a % t)
    BY Quotient
  <2> HIDE DEF d
  <2>2. a = t * d
    BY <2>1
  <2>3. d > 0
    <3> SUFFICES ASSUME d <= 0 PROVE FALSE
      BY <2>1
    <3>1. t * d <= 0
      BY <2>1
    <3> QED BY <2>2, <3>1
  <2> QED BY <2>1, <2>2, <2>3 DEF d
<1>2. InterPP \in Nat \ {0} /\ Inter = tp * InterPP
  BY <1>1 DEF InterPP
<1>3. FullK \in Nat \ {0}
  BY DEF FullK
<1>4. SplitK => FullK % tp = 0
  BY DEF SplitK, FullK
<1>5. size_k \in Nat \ {0} /\ (SplitK => FullK = tp * size_k) /\ (~SplitK => FullK = size_k)
  BY <1>1, <1>3, <1>4 DEF size_k
<1>6. IsMoe => InterPP % 64 = 0 /\ Hidden % 128 = 0 /\ (layer.gs # -1 => InterPP % layer.gs = 0)
  <2>1. SUFFICES ASSUME IsMoe
                 PROVE  InterPP % 64 = 0 /\ Hidden % 128 = 0 /\ (layer.gs # -1 => InterPP % layer.gs = 0)
    OBVIOUS
  <2>2. Hidden % 128 = 0 /\ InterPP % (IF layer.gs > 64 THEN layer.gs ELSE 64) = 0
    BY <2>1 DEF Supported, check_moe_marlin_supports_layer
  <2> QED BY <1>2, <2>2
<1>7. size_n \in Nat \ {0} /\ size_n % 64 = 0
  <2>1. CASE layer.product = "w13"
    <3>1. IsMoe /\ size_n = 2 * InterPP
      BY <2>1 DEF size_n
    <3> QED BY <3>1, <1>2, <1>6
  <2>2. CASE layer.product = "column"
    <3>1. ~IsMoe /\ size_n = InterPP
      BY <2>2 DEF size_n, InterPP
    <3> QED BY <3>1, <1>2 DEF Supported, check_marlin_supports_shape
  <2>3. CASE layer.product \in {"w2", "row"}
    <3>1. size_n = Hidden
      BY <2>3 DEF size_n
    <3>2. size_n % 64 = 0
      BY <3>1, <1>6 DEF Supported, check_marlin_supports_shape
    <3> QED BY <3>1, <3>2
  <2> QED BY <2>1, <2>2, <2>3
<1>8. layer.gs # -1 => size_k % layer.gs = 0
  <2>1. CASE ~IsMoe
    BY <2>1 DEF Supported, check_marlin_supports_shape
  <2>2. CASE IsMoe /\ layer.product = "w13"
    <3>1. size_k = Hidden
      BY <2>2, <1>5 DEF SplitK, FullK
    <3> QED BY <3>1, <2>2, <1>6
  <2>3. CASE IsMoe /\ layer.product = "w2"
    <3>1. size_k = InterPP
      BY <2>3 DEF size_k, SplitK, FullK, InterPP
    <3> QED BY <3>1, <2>3, <1>6
  <2> QED BY <2>1, <2>2, <2>3
<1>9. (IsAwq => layer.asym) /\ (layer.method = "gptq_moe" => ~layer.asym)
  BY DEF Supported, check_marlin_supported, WeightType, query_marlin_supported_quant_types, IsAwq
<1>10. size_n % 8 = 0
  BY <1>7
<1> QED BY <1>2, <1>3, <1>5, <1>6, <1>7, <1>8, <1>9, <1>10

LEMMA ColumnsUndone ==
  ASSUME layer \in Layers, Supported
  PROVE  UndoAwq(AwqColumns) = Columns
<1>1. size_n \in Nat /\ size_n % 8 = 0
  BY Sizes
<1>2. DOMAIN Columns = 0 .. size_n-1 /\ Columns = [n \in 0 .. size_n-1 |-> Columns[n]]
  BY DEF Columns
<1> HIDE DEF Columns
<1> QED BY <1>1, <1>2, UndoneAwq DEF AwqColumns

LEMMA ScaleFields ==
  ASSUME NEW x, NEW a, NEW b, NEW c, NEW p, NEW q, x = [groups |-> a, cols |-> b, enc |-> c]
  PROVE  /\ x.groups = a /\ x.cols = b /\ x.enc = c
         /\ [x EXCEPT !.enc = q] = [groups |-> a, cols |-> b, enc |-> q]
         /\ [x EXCEPT !.cols = p, !.enc = q] = [groups |-> a, cols |-> p, enc |-> q]
<1>1. x.groups = a /\ x.cols = b /\ x.enc = c
  OBVIOUS
<1>2. [x EXCEPT !.enc = q] = [groups |-> a, cols |-> b, enc |-> q]
  OBVIOUS
<1> DEFINE turned == [x EXCEPT !.cols = p]
<1>3. turned = [groups |-> a, cols |-> p, enc |-> c]
  OBVIOUS
<1>4. [x EXCEPT !.cols = p, !.enc = q] = [turned EXCEPT !.enc = q]
  BY Zenon
<1> HIDE DEF turned
<1>5. [turned EXCEPT !.enc = q] = [groups |-> a, cols |-> p, enc |-> q]
  BY <1>3
<1> QED BY <1>1, <1>2, <1>4, <1>5

LEMMA ZeroFields ==
  ASSUME NEW x, NEW a, NEW b, NEW p, x = [groups |-> a, cols |-> b]
  PROVE  /\ x.groups = a /\ x.cols = b
         /\ [x EXCEPT !.cols = p] = [groups |-> a, cols |-> p]
OBVIOUS

\* What the steps share: they are taken in a live stage, whose facts they have.
LEMMA InStep ==
  ASSUME WeightsInv, stage \in Live
  PROVE  /\ layer \in Layers /\ Supported /\ Passed
         /\ OrderHeld /\ WeightsHeld /\ ScalesHeld /\ ZerosHeld
BY DEF WeightsInv

LEMMA ConvertInv == WeightsInv /\ Convert => WeightsInv'
<1> SUFFICES ASSUME WeightsInv, Convert PROVE WeightsInv'
  OBVIOUS
<1>1. layer \in Layers /\ layer.method \in MoeMethods \cup LinearMethods
  BY LayerIs DEF WeightsInv
<1>2. Due("converted") /\ stage' = "converted" /\ UNCHANGED <<layer, s, order, given>>
  BY DEF Convert, Step
<1>3. layer.method = "awq_linear" /\ stage = "loaded"
  BY <1>1, <1>2, Before
<1>4. Supported /\ Passed /\ OrderHeld /\ WeightsHeld /\ ScalesHeld /\ ZerosHeld
  BY <1>3, InStep DEF Live
<1>5. IsAwq /\ ~IsMoe /\ layer.asym
  BY <1>1, <1>3, <1>4, Sizes DEF IsAwq, IsMoe, MoeMethods
<1>6. /\ ~Converted /\ ~Coded /\ ~Sorted /\ ~Packed /\ ~Scaled /\ ~Zeroed
      /\ Converted' /\ ~Coded' /\ ~Sorted' /\ ~Packed' /\ ~Scaled' /\ ~Zeroed'
  BY <1>2, <1>3, <1>5, LayerFixed DEF Converted, Coded, Sorted, Packed, Scaled, Zeroed
<1>7. layer' = layer /\ order' = order /\ s' = s
  BY <1>2
<1>8. OrderHeld'
  BY <1>4, <1>6, <1>7, LayerFixed DEF OrderHeld, None
<1>9. ScalesHeld'
  BY <1>4, <1>6, <1>7, LayerFixed DEF ScalesHeld
<1>10. w = [rows |-> PlainRows, packed |-> "awq", cols |-> AwqColumns, enc |-> "int4"]
  BY <1>3, <1>4, <1>5, <1>6 DEF WeightsHeld
<1>11. w' = [rows |-> PlainRows, packed |-> "k", cols |-> Columns, enc |-> "int4"]
  <2>1. w' = [w EXCEPT !.cols = UndoAwq(w.cols), !.packed = "k"]
    BY DEF Convert
  <2>2. w.cols = AwqColumns
    BY <1>10
  <2>3. w' = [w EXCEPT !.cols = Columns, !.packed = "k"]
    BY <2>1, <2>2, <1>1, <1>4, ColumnsUndone
  <2> QED BY <2>3, <1>10, WeightFields
<1>12. WeightsHeld'
  BY <1>3, <1>5, <1>6, <1>7, <1>11, LayerFixed DEF WeightsHeld
<1>13. ZerosHeld'
  <2>1. z = [groups |-> GroupRows, cols |-> AwqColumns]
    BY <1>4, <1>5, <1>6 DEF ZerosHeld
  <2>2. z' = [z EXCEPT !.cols = UndoAwq(z.cols)]
    BY DEF Convert
  <2>3. z' = [groups |-> GroupRows, cols |-> Columns]
    BY <2>1, <2>2, <1>1, <1>4, ColumnsUndone, ZeroFields
  <2> QED BY <2>3, <1>5, <1>6, <1>7, LayerFixed DEF ZerosHeld
<1>14. Passed' /\ GivenHeld'
  BY <1>2, <1>3, <1>6, <1>7 DEF Passed, GivenHeld
<1> QED BY <1>1, <1>2, <1>4, <1>7, <1>8, <1>9, <1>12, <1>13, <1>14, LayerFixed DEF WeightsInv, Live

LEMMA PreprocessInv == WeightsInv /\ Preprocess => WeightsInv'
<1> SUFFICES ASSUME WeightsInv, Preprocess PROVE WeightsInv'
  OBVIOUS
<1>1. layer \in Layers /\ layer.method \in MoeMethods \cup LinearMethods
  BY LayerIs DEF WeightsInv
<1>2. /\ Due("fp8") /\ stage' = "fp8" /\ layer' = layer /\ z' = z /\ order' = order
      /\ IsMoe \/ ~is_a_8bit \/ WeightType = "uint4b8"
  BY DEF Preprocess, Step
<1>3. stage = IF layer.method = "awq_linear" THEN "converted" ELSE "loaded"
  BY <1>1, <1>2, Before
<1>4. Supported /\ Passed /\ OrderHeld /\ WeightsHeld /\ ScalesHeld /\ ZerosHeld
  BY <1>3, InStep DEF Live
<1>5. /\ (Converted <=> layer.method = "awq_linear")
      /\ ~Coded /\ ~Sorted /\ ~Packed /\ ~Scaled /\ ~Zeroed
  BY <1>3 DEF Converted, Coded, Sorted, Packed, Scaled, Zeroed
<1>6. Converted' /\ Coded' /\ ~Sorted' /\ ~Packed' /\ ~Scaled' /\ ~Zeroed'
  BY <1>2 DEF Converted, Coded, Sorted, Packed, Scaled, Zeroed
<1>7. OrderHeld'
  BY <1>2, <1>4, <1>5, <1>6, LayerFixed DEF OrderHeld, None
<1>8. IsAwq => (IsMoe <=> ~Converted)
  BY <1>5 DEF IsAwq, IsMoe, MoeMethods
<1>9. ZerosHeld'
  BY <1>2, <1>4, <1>5, <1>6, <1>8, LayerFixed DEF ZerosHeld, None
<1> DEFINE e      == IF layer.act = "fp8" THEN Recoded ELSE "int4"
           packed == IF layer.method = "awq_moe" THEN "awq" ELSE "k"
           cols   == IF layer.method = "awq_moe" THEN AwqColumns ELSE Columns
<1>10. w = [rows |-> PlainRows, packed |-> packed, cols |-> cols, enc |-> "int4"]
  BY <1>4, <1>5, <1>8 DEF WeightsHeld, IsAwq, IsMoe, MoeMethods
<1>11. w' = IF layer.act # "fp8" THEN w ELSE [w EXCEPT !.enc = Recoded]
  BY DEF Preprocess, Recoded
<1>12. w' = [rows |-> PlainRows, packed |-> packed, cols |-> cols, enc |-> e]
  <2> HIDE DEF packed, cols
  <2> QED BY <1>10, <1>11, WeightFields
<1>13. WeightsHeld'
  BY <1>2, <1>6, <1>12, LayerFixed DEF WeightsHeld, IsAwq, IsMoe, MoeMethods
<1>14. s = [groups |-> GroupRows, cols |-> Columns, enc |-> "plain"]
  BY <1>4, <1>5 DEF ScalesHeld
<1>15. s' = IF layer.act # "fp8" THEN s ELSE [s EXCEPT !.enc = "x512"]
  BY DEF Preprocess
<1>16. s' = [groups |-> GroupRows, cols |-> Columns,
             enc |-> IF layer.act = "fp8" THEN "x512" ELSE "plain"]
  BY <1>14, <1>15, ScaleFields
<1>17. ScalesHeld'
  BY <1>2, <1>6, <1>16, LayerFixed DEF ScalesHeld
<1>18. Passed' /\ GivenHeld'
  BY <1>2, <1>4, <1>6, LayerFixed DEF Passed, GivenHeld
<1> QED BY <1>1, <1>2, <1>4, <1>7, <1>9, <1>13, <1>17, <1>18, LayerFixed DEF WeightsInv, Live

LEMMA SortInv == WeightsInv /\ SortOrder => WeightsInv'
<1> SUFFICES ASSUME WeightsInv, SortOrder PROVE WeightsInv'
  OBVIOUS
<1>1. layer \in Layers /\ layer.method \in MoeMethods \cup LinearMethods
  BY LayerIs DEF WeightsInv
<1>2. Due("sorted") /\ stage' = "sorted" /\ layer' = layer /\ w' = w /\ s' = s /\ z' = z
  BY DEF SortOrder, Step
<1>3. stage = "fp8"
  BY <1>1, <1>2, Before
<1>4. Supported /\ Passed /\ OrderHeld /\ WeightsHeld /\ ScalesHeld /\ ZerosHeld
  BY <1>3, InStep DEF Live
<1>5. Converted /\ Coded /\ ~Sorted /\ ~Packed /\ ~Scaled /\ ~Zeroed
  BY <1>3 DEF Converted, Coded, Sorted, Packed, Scaled, Zeroed
<1>6. Converted' /\ Coded' /\ Sorted' /\ ~Packed' /\ ~Scaled' /\ ~Zeroed'
  BY <1>2 DEF Converted, Coded, Sorted, Packed, Scaled, Zeroed
<1>7. order.idx = LoadedIdx
  BY <1>4, <1>5 DEF OrderHeld
<1>8. order' = IF has_g_idx THEN [idx |-> SortedIdx, sort |-> Sort] ELSE [idx |-> None, sort |-> None]
  BY <1>7 DEF SortOrder, SortedIdx, Sort
<1>9. OrderHeld'
  BY <1>2, <1>6, <1>8, LayerFixed, SortFixed DEF OrderHeld, None
<1>10. WeightsHeld'
  BY <1>2, <1>4, <1>5, <1>6, LayerFixed DEF WeightsHeld
<1>11. ScalesHeld'
  BY <1>2, <1>4, <1>5, <1>6, LayerFixed DEF ScalesHeld
<1>12. ZerosHeld'
  BY <1>2, <1>4, <1>5, <1>6, LayerFixed DEF ZerosHeld, None
<1>13. Passed' /\ GivenHeld'
  BY <1>2, <1>4, <1>5, <1>6, LayerFixed DEF Passed, GivenHeld
<1> QED BY <1>1, <1>2, <1>4, <1>9, <1>10, <1>11, <1>12, <1>13, LayerFixed DEF WeightsInv, Live

LEMMA RepackInv == WeightsInv /\ Repack => WeightsInv'
<1> SUFFICES ASSUME WeightsInv, Repack PROVE WeightsInv'
  OBVIOUS
<1>1. layer \in Layers /\ layer.method \in MoeMethods \cup LinearMethods
  BY LayerIs DEF WeightsInv
<1>2. /\ Due("packed") /\ stage' = "packed" /\ layer' = layer
      /\ s' = s /\ z' = z /\ order' = order
  BY DEF Repack, Step
<1>3. stage = IF IsMoe THEN "sorted" ELSE "zeros"
  BY <1>1, <1>2, Before
<1>4. Supported /\ Passed /\ OrderHeld /\ WeightsHeld /\ ScalesHeld /\ ZerosHeld
  BY <1>3, InStep DEF Live
<1>5. Converted /\ Coded /\ Sorted /\ ~Packed /\ ~Scaled /\ (Zeroed <=> ~IsMoe)
  BY <1>3 DEF Converted, Coded, Sorted, Packed, Scaled, Zeroed
<1>6. Converted' /\ Coded' /\ Sorted' /\ Packed' /\ ~Scaled' /\ (Zeroed' <=> ~IsMoe)
  BY <1>2, LayerFixed DEF Converted, Coded, Sorted, Packed, Scaled, Zeroed
<1>7. OrderHeld'
  BY <1>2, <1>4, <1>5, <1>6, LayerFixed, SortFixed DEF OrderHeld, None
<1>8. ScalesHeld'
  BY <1>2, <1>4, <1>5, <1>6, LayerFixed DEF ScalesHeld
<1>9. ZerosHeld'
  BY <1>2, <1>4, <1>5, <1>6, LayerFixed, ColumnsFixed DEF ZerosHeld, None
<1>10. Passed' /\ GivenHeld'
  BY <1>2, <1>4, <1>5, <1>6, LayerFixed DEF Passed, GivenHeld
<1> DEFINE e == IF layer.act = "fp8" THEN Recoded ELSE "int4"
<1>11. CASE layer.method = "awq_moe"
  <2>1. w = [rows |-> PlainRows, packed |-> "awq", cols |-> AwqColumns, enc |-> e]
    BY <1>4, <1>5, <1>11 DEF WeightsHeld, IsAwq, IsMoe, MoeMethods
  <2>2. w' = [w EXCEPT !.packed = "tiles", !.cols = UndoAwq(w.cols)]
    BY <1>11 DEF Repack
  <2>3. w.cols = AwqColumns
    BY <2>1
  <2>4. w' = [w EXCEPT !.packed = "tiles", !.cols = Columns]
    BY <2>2, <2>3, <1>1, <1>4, ColumnsUndone
  <2>5. w' = [rows |-> PlainRows, packed |-> "tiles", cols |-> Columns, enc |-> e]
    <3> HIDE DEF e
    <3> QED BY <2>1, <2>4, WeightFields
  <2>6. ~has_g_idx
    BY <1>1, <1>11, LayerIs DEF has_g_idx, IsAwq
  <2>7. WeightsHeld'
    BY <1>2, <1>6, <1>11, <2>5, <2>6, LayerFixed DEF WeightsHeld, IsMoe, MoeMethods
  <2> QED BY <1>1, <1>2, <1>4, <1>7, <1>8, <1>9, <1>10, <2>7, LayerFixed DEF WeightsInv, Live
<1>12. CASE layer.method # "awq_moe"
  <2> DEFINE rows == IF has_g_idx THEN SortedRows ELSE PlainRows
  <2>1. w = [rows |-> PlainRows, packed |-> "k", cols |-> Columns, enc |-> e]
    BY <1>4, <1>5, <1>12 DEF WeightsHeld, IsAwq, IsMoe, MoeMethods
  <2>2. w' = [w EXCEPT !.packed = "tiles",
                       !.rows = IF order.sort = None THEN w.rows
                                ELSE [k \in 0 .. size_k-1 |-> w.rows[order.sort[k]]]]
    BY <1>12 DEF Repack
  <2>3. w.rows = PlainRows
    BY <2>1
  <2>4. order.sort = IF has_g_idx THEN Sort ELSE None
    BY <1>4, <1>5 DEF OrderHeld
  <2>5. Sort # None
    <3>1. DOMAIN Sort = 0 .. size_k-1
      BY DEF Sort, SortIndices
    <3>2. 0 \in DOMAIN Sort
      BY <3>1, <1>1, <1>4, Sizes
    <3>3. DOMAIN None = {}
      BY DEF None
    <3> QED BY <3>2, <3>3
  <2>6. (IF order.sort = None THEN w.rows
         ELSE [k \in 0 .. size_k-1 |-> w.rows[order.sort[k]]]) = rows
    BY <2>3, <2>4, <2>5 DEF SortedRows
  <2>7. w' = [w EXCEPT !.packed = "tiles", !.rows = rows]
    <3> HIDE DEF rows
    <3> QED BY <2>2, <2>6, Zenon
  <2>8. w' = [rows |-> rows, packed |-> "tiles", cols |-> Columns, enc |-> e]
    <3> HIDE DEF e, rows
    <3> QED BY <2>1, <2>7, WeightFields
  <2>9. WeightsHeld'
    BY <1>2, <1>6, <2>8, LayerFixed, SortFixed DEF WeightsHeld
  <2> QED BY <1>1, <1>2, <1>4, <1>7, <1>8, <1>9, <1>10, <2>9, LayerFixed DEF WeightsInv, Live
<1> QED BY <1>11, <1>12

LEMMA PermuteInv == WeightsInv /\ PermuteScales => WeightsInv'
<1> SUFFICES ASSUME WeightsInv, PermuteScales PROVE WeightsInv'
  OBVIOUS
<1>1. layer \in Layers /\ layer.method \in MoeMethods \cup LinearMethods
  BY LayerIs DEF WeightsInv
<1>2. /\ Due("scaled") /\ stage' = "scaled" /\ layer' = layer
      /\ w' = w /\ z' = z /\ order' = order
  BY DEF PermuteScales, Step
<1>3. stage = "packed"
  BY <1>1, <1>2, Before
<1>4. Supported /\ Passed /\ OrderHeld /\ WeightsHeld /\ ScalesHeld /\ ZerosHeld
  BY <1>3, InStep DEF Live
<1>5. Converted /\ Coded /\ Sorted /\ Packed /\ ~Scaled /\ (Zeroed <=> ~IsMoe)
  BY <1>3 DEF Converted, Coded, Sorted, Packed, Scaled, Zeroed
<1>6. Converted' /\ Coded' /\ Sorted' /\ Packed' /\ Scaled' /\ (Zeroed' <=> ~IsMoe)
  BY <1>2, LayerFixed DEF Converted, Coded, Sorted, Packed, Scaled, Zeroed
<1>7. OrderHeld'
  BY <1>2, <1>4, <1>5, <1>6, LayerFixed, SortFixed DEF OrderHeld, None
<1>8. WeightsHeld'
  BY <1>2, <1>4, <1>5, <1>6, LayerFixed, SortFixed DEF WeightsHeld
<1>9. ZerosHeld'
  BY <1>2, <1>4, <1>5, <1>6, LayerFixed, ColumnsFixed DEF ZerosHeld, None
<1>10. Passed' /\ GivenHeld'
  BY <1>2, <1>4, <1>5, <1>6, LayerFixed DEF Passed, GivenHeld
<1> DEFINE e == IF layer.act = "fp8" THEN "x512" ELSE "plain"
<1>11. s = [groups |-> GroupRows, cols |-> Columns, enc |-> e]
  BY <1>4, <1>5 DEF ScalesHeld
<1>12. GroupsIn(s) = RowCount /\ s.cols = Columns /\ s.enc = e
  BY <1>11 DEF GroupsIn, RowCount
<1>13. w.packed = "tiles"
  BY <1>4, <1>5 DEF WeightsHeld
<1>14. ScaleSizeK = PermutedBy
  BY <1>12, <1>13 DEF ScaleSizeK, PermutedBy
<1>15. int8_scales <=> TakesInt8
  BY <1>12 DEF int8_scales, TakesInt8
<1>16. s' = [s EXCEPT !.cols = ScaleColumns, !.enc = IF TakesInt8 THEN "int16" ELSE e]
  <2>1. s' = [s EXCEPT !.cols = permute_scales(s.cols, ScaleSizeK),
                       !.enc = IF int8_scales THEN "int16" ELSE s.enc]
    BY DEF PermuteScales
  <2>2. permute_scales(s.cols, ScaleSizeK) = ScaleColumns
    BY <1>12, <1>14 DEF ScaleColumns
  <2>3. (IF int8_scales THEN "int16" ELSE s.enc) = IF TakesInt8 THEN "int16" ELSE e
    BY <1>12, <1>15
  <2> HIDE DEF e
  <2> QED BY <2>1, <2>2, <2>3
<1>17. s' = [groups |-> GroupRows, cols |-> ScaleColumns, enc |-> IF TakesInt8 THEN "int16" ELSE e]
  <2> HIDE DEF e
  <2> QED BY <1>11, <1>16, ScaleFields
<1>18. ScalesHeld'
  BY <1>2, <1>6, <1>17, LayerFixed, ColumnsFixed DEF ScalesHeld
<1> QED BY <1>1, <1>2, <1>4, <1>7, <1>8, <1>9, <1>10, <1>18, LayerFixed DEF WeightsInv, Live

LEMMA ZerosInv == WeightsInv /\ ConvertZeros => WeightsInv'
<1> SUFFICES ASSUME WeightsInv, ConvertZeros PROVE WeightsInv'
  OBVIOUS
<1>1. layer \in Layers /\ layer.method \in MoeMethods \cup LinearMethods
  BY LayerIs DEF WeightsInv
<1>2. /\ Due("zeros") /\ stage' = "zeros" /\ layer' = layer
      /\ w' = w /\ s' = s /\ order' = order
  BY DEF ConvertZeros, Step
<1>3. stage = IF IsMoe THEN "scaled" ELSE "sorted"
  BY <1>1, <1>2, Before
<1>4. Supported /\ Passed /\ OrderHeld /\ WeightsHeld /\ ScalesHeld /\ ZerosHeld
  BY <1>3, InStep DEF Live
<1>5. Converted /\ Coded /\ Sorted /\ (Packed <=> IsMoe) /\ (Scaled <=> IsMoe) /\ ~Zeroed
  BY <1>3 DEF Converted, Coded, Sorted, Packed, Scaled, Zeroed
<1>6. Converted' /\ Coded' /\ Sorted' /\ (Packed' <=> IsMoe) /\ (Scaled' <=> IsMoe) /\ Zeroed'
  BY <1>2, LayerFixed DEF Converted, Coded, Sorted, Packed, Scaled, Zeroed
<1>7. OrderHeld'
  BY <1>2, <1>4, <1>5, <1>6, LayerFixed, SortFixed DEF OrderHeld, None
<1>8. WeightsHeld'
  BY <1>2, <1>4, <1>5, <1>6, LayerFixed, SortFixed DEF WeightsHeld
<1>9. ScalesHeld'
  BY <1>2, <1>4, <1>5, <1>6, LayerFixed, ColumnsFixed DEF ScalesHeld
<1>10. CASE ~layer.asym
  <2>1. z = None /\ z' = None
    BY <1>4, <1>10 DEF ZerosHeld, ConvertZeros
  <2>2. ZerosHeld'
    BY <1>2, <1>10, <2>1 DEF ZerosHeld, None
  <2>3. Passed' /\ GivenHeld'
    BY <1>2, <1>4, <1>5, <1>6, <1>10, LayerFixed DEF Passed, GivenHeld
  <2> QED BY <1>1, <1>2, <1>4, <1>7, <1>8, <1>9, <2>2, <2>3, LayerFixed DEF WeightsInv, Live
<1>11. CASE layer.asym
  <2> DEFINE cols  == IF IsAwq /\ IsMoe THEN AwqColumns ELSE Columns
             right == IF layer.method = "awq_moe" THEN UndoAwq(z.cols) ELSE z.cols
             eight == layer.method # "ct_moe" /\ is_a_8bit
  <2>1. z = [groups |-> GroupRows, cols |-> cols]
    BY <1>4, <1>5, <1>11 DEF ZerosHeld
  <2>2. GroupsIn(z) = RowCount /\ z.cols = cols
    <3> HIDE DEF cols
    <3> QED BY <2>1 DEF GroupsIn, RowCount
  <2>3. right = Columns
    BY <1>1, <1>4, <2>2, ColumnsUndone DEF IsAwq, IsMoe, MoeMethods
  <2>4. z' = [z EXCEPT !.cols = zero_points(right, eight)]
    <3>1. CASE layer.method = "awq_moe"
      <4>1. z' = [z EXCEPT !.cols = zero_points(UndoAwq(z.cols), is_a_8bit)]
        BY <1>11, <3>1 DEF ConvertZeros
      <4>2. right = UndoAwq(z.cols) /\ (eight <=> is_a_8bit)
        BY <3>1
      <4> HIDE DEF right, eight
      <4>3. zero_points(UndoAwq(z.cols), is_a_8bit) = zero_points(right, eight)
        BY <4>2 DEF zero_points
      <4> QED BY <4>1, <4>3
    <3>2. CASE layer.method = "ct_moe"
      <4>1. z' = [z EXCEPT !.cols = zero_points(z.cols, FALSE)]
        BY <1>11, <3>2 DEF ConvertZeros
      <4>2. right = z.cols /\ (eight <=> FALSE)
        BY <3>2
      <4> HIDE DEF right, eight
      <4>3. zero_points(z.cols, FALSE) = zero_points(right, eight)
        BY <4>2 DEF zero_points
      <4> QED BY <4>1, <4>3
    <3>3. CASE layer.method \notin {"awq_moe", "ct_moe"}
      <4>1. z' = [z EXCEPT !.cols = zero_points(z.cols, is_a_8bit)]
        BY <1>11, <3>3 DEF ConvertZeros
      <4>2. right = z.cols /\ (eight <=> is_a_8bit)
        BY <3>3
      <4> HIDE DEF right, eight
      <4>3. zero_points(z.cols, is_a_8bit) = zero_points(right, eight)
        BY <4>2 DEF zero_points
      <4> QED BY <4>1, <4>3
    <3> QED BY <3>1, <3>2, <3>3
  <2>5. zero_points(right, eight) = KernelZeros
    <3> HIDE DEF right
    <3> QED BY <2>3 DEF KernelZeros
  <2>6. z' = [groups |-> GroupRows, cols |-> KernelZeros]
    <3> HIDE DEF right, cols, eight
    <3> QED BY <2>1, <2>4, <2>5, ZeroFields
  <2>7. ZerosHeld'
    BY <1>2, <1>6, <1>11, <2>6, LayerFixed, ColumnsFixed DEF ZerosHeld
  <2>8. ~IsMoe => RowCount = GroupedK
    BY <1>11, <2>2 DEF ConvertZeros
  <2>9. Passed' /\ GivenHeld'
    BY <1>2, <1>4, <1>5, <1>6, <2>8, LayerFixed DEF Passed, GivenHeld
  <2> QED BY <1>1, <1>2, <1>4, <1>7, <1>8, <1>9, <2>7, <2>9, LayerFixed DEF WeightsInv, Live
<1> QED BY <1>10, <1>11

LEMMA ApplyInv == WeightsInv /\ Apply => WeightsInv'
<1> SUFFICES ASSUME WeightsInv, Apply PROVE WeightsInv'
  OBVIOUS
<1>1. layer \in Layers /\ layer.method \in MoeMethods \cup LinearMethods
  BY LayerIs DEF WeightsInv
<1>2. /\ Ready /\ stage' = "called" /\ layer' = layer
      /\ w' = w /\ s' = s /\ z' = z /\ order' = order
  BY DEF Apply
<1>3. stage = IF layer.method \in {"ct_moe", "awq_moe"} THEN "zeros" ELSE "scaled"
  BY <1>1, <1>2, ReadyAt
<1>4. Supported /\ Passed /\ OrderHeld /\ WeightsHeld /\ ScalesHeld /\ ZerosHeld
  BY <1>3, InStep DEF Live
<1>5. Converted /\ Coded /\ Sorted /\ Packed /\ Scaled
      /\ (Zeroed <=> layer.method # "gptq_moe")
  BY <1>1, <1>3 DEF Converted, Coded, Sorted, Packed, Scaled, Zeroed, IsMoe, MoeMethods,
     LinearMethods
<1>6. Converted' /\ Coded' /\ Sorted' /\ Packed' /\ Scaled' /\ Zeroed'
  BY <1>2, LayerFixed DEF Converted, Coded, Sorted, Packed, Scaled, Zeroed
<1>7. OrderHeld'
  BY <1>2, <1>4, <1>5, <1>6, LayerFixed, SortFixed DEF OrderHeld, None
<1>8. WeightsHeld'
  BY <1>2, <1>4, <1>5, <1>6, LayerFixed, SortFixed DEF WeightsHeld
<1>9. ScalesHeld'
  BY <1>2, <1>4, <1>5, <1>6, LayerFixed, ColumnsFixed DEF ScalesHeld
<1>10. ZerosHeld'
  <2>1. layer.asym => Zeroed
    BY <1>1, <1>4, <1>5, Sizes
  <2> QED BY <1>2, <1>4, <1>6, <2>1, LayerFixed, ColumnsFixed DEF ZerosHeld, None
<1>11. GroupsIn(s) = RowCount
  <2>1. s.groups = GroupRows
    BY <1>4 DEF ScalesHeld
  <2> QED BY <2>1 DEF GroupsIn, RowCount
<1>12. int8_scales <=> TakesInt8
  BY <1>11 DEF int8_scales, TakesInt8
<1>13. Passed'
  <2>1. layer.method = "awq_moe" => layer.gs # -1
    BY <1>4 DEF Passed
  <2>2. ~IsMoe /\ is_a_8bit => WeightType = "uint4b8"
    BY <1>4, <1>5 DEF Passed
  <2>3. ~IsMoe /\ layer.asym => RowCount = GroupedK
    BY <1>4, <1>5 DEF Passed, IsMoe, MoeMethods
  <2>4. ~IsMoe /\ layer.act = "int8" => TakesInt8
    BY <1>12 DEF Apply
  <2> QED BY <1>2, <2>1, <2>2, <2>3, <2>4, LayerFixed DEF Passed
<1>14. GivenHeld'
  <2>1. given' = [zeros  |-> layer.asym,
                  type   |-> IF layer.modular THEN ConfigType ELSE WeightType,
                  factor |-> int8_scales /\ (layer.modular => ConfigHasFactor)]
    BY DEF Apply
  <2>2. (int8_scales /\ (layer.modular => ConfigHasFactor))
           = (TakesInt8 /\ (layer.modular => ConfigHasFactor))
    BY <1>12
  <2>3. given' = [zeros  |-> layer.asym,
                  type   |-> IF layer.modular THEN ConfigType ELSE WeightType,
                  factor |-> TakesInt8 /\ (layer.modular => ConfigHasFactor)]
    BY <2>1, <2>2, Zenon
  <2>4. ConfigType' = ConfigType /\ WeightType' = WeightType
        /\ (TakesInt8 /\ (layer.modular => ConfigHasFactor))'
              = (TakesInt8 /\ (layer.modular => ConfigHasFactor))
    BY <1>2, LayerFixed
  <2> QED BY <1>2, <2>3, <2>4 DEF GivenHeld
<1> QED BY <1>1, <1>2, <1>4, <1>7, <1>8, <1>9, <1>10, <1>13, <1>14, LayerFixed DEF WeightsInv, Live

LEMMA WeightsStep == WeightsInv /\ [WeightsNext]_weightsVars => WeightsInv'
<1> SUFFICES ASSUME WeightsInv, [WeightsNext]_weightsVars PROVE WeightsInv'
  OBVIOUS
<1>1. CASE Choose
  BY <1>1, ChooseInv
<1>2. CASE CreateWeights
  BY <1>2, CreateInv
<1>3. CASE Convert
  BY <1>3, ConvertInv
<1>4. CASE Refuse8bit \/ RefuseZeros \/ RefuseApply
  BY <1>4, StopInv DEF Refuse8bit, RefuseZeros, RefuseApply
<1>5. CASE Preprocess
  BY <1>5, PreprocessInv
<1>6. CASE SortOrder
  BY <1>6, SortInv
<1>7. CASE Repack
  BY <1>7, RepackInv
<1>8. CASE PermuteScales
  BY <1>8, PermuteInv
<1>9. CASE ConvertZeros
  BY <1>9, ZerosInv
<1>10. CASE Apply
  BY <1>10, ApplyInv
<1>11. CASE UNCHANGED weightsVars
  <2>1. layer' = layer /\ stage' = stage /\ w' = w /\ s' = s /\ z' = z /\ order' = order
        /\ given' = given
    BY <1>11 DEF weightsVars
  <2>2. /\ Converted' <=> Converted
        /\ Coded' <=> Coded
        /\ Sorted' <=> Sorted
        /\ Packed' <=> Packed
        /\ Scaled' <=> Scaled
        /\ Zeroed' <=> Zeroed
    BY <2>1, LayerFixed DEF Converted, Coded, Sorted, Packed, Scaled, Zeroed
  <2>3. stage \in Live => OrderHeld' /\ WeightsHeld' /\ ScalesHeld' /\ ZerosHeld'
    <3> SUFFICES ASSUME stage \in Live
                 PROVE  OrderHeld' /\ WeightsHeld' /\ ScalesHeld' /\ ZerosHeld'
      OBVIOUS
    <3>1. OrderHeld'
      BY <2>1, <2>2, InStep, LayerFixed, SortFixed DEF OrderHeld, None
    <3>2. WeightsHeld'
      BY <2>1, <2>2, InStep, LayerFixed, SortFixed DEF WeightsHeld
    <3>3. ScalesHeld'
      BY <2>1, <2>2, InStep, LayerFixed, ColumnsFixed DEF ScalesHeld
    <3>4. ZerosHeld'
      BY <2>1, <2>2, InStep, LayerFixed, ColumnsFixed DEF ZerosHeld, None
    <3> QED BY <3>1, <3>2, <3>3, <3>4
  <2>4. stage \in Live => Passed'
    BY <2>1, <2>2, InStep, LayerFixed DEF Passed
  <2>5. stage \in Live => GivenHeld'
    <3> DEFINE factor == TakesInt8 /\ (layer.modular => ConfigHasFactor)
    <3>1. factor' = factor
      BY <2>1, LayerFixed
    <3>2. stage \in Live => GivenHeld
      BY DEF WeightsInv
    <3> QED BY <2>1, <3>1, <3>2, LayerFixed DEF GivenHeld
  <2> QED BY <2>1, <2>3, <2>4, <2>5, LayerFixed DEF WeightsInv, Live
<1> QED BY <1>1, <1>2, <1>3, <1>4, <1>5, <1>6, <1>7, <1>8, <1>9, <1>10, <1>11 DEF WeightsNext

LEMMA WeightsInvHolds == WeightsSpec => []WeightsInv
<1>1. WeightsInit => WeightsInv
  BY WeightsAtStart
<1>2. WeightsInv /\ [WeightsNext]_weightsVars => WeightsInv'
  BY WeightsStep
<1> QED BY <1>1, <1>2, PTL DEF WeightsSpec

(* What the kernel is called with, in terms of the layer *)

LEMMA AtCall ==
  ASSUME WeightsInv, Called
  PROVE  /\ layer \in Layers /\ Supported
         /\ layer.method = "awq_moe" => layer.gs # -1
         /\ ~IsMoe /\ is_a_8bit => WeightType = "uint4b8"
         /\ ~IsMoe /\ layer.asym => RowCount = GroupedK
         /\ ~IsMoe /\ layer.act = "int8" => TakesInt8
         /\ order.idx = (IF has_g_idx THEN SortedIdx ELSE None)
         /\ order.sort = (IF has_g_idx THEN Sort ELSE None)
         /\ w.rows = (IF has_g_idx THEN SortedRows ELSE PlainRows)
         /\ w.packed = "tiles" /\ w.cols = Columns
         /\ w.enc = (IF layer.act = "fp8" THEN Recoded ELSE "int4")
         /\ s.groups = GroupRows /\ s.cols = ScaleColumns
         /\ s.enc = (IF TakesInt8 THEN "int16" ELSE IF layer.act = "fp8" THEN "x512" ELSE "plain")
         /\ layer.asym => z.groups = GroupRows /\ z.cols = KernelZeros
         /\ given.zeros = layer.asym
         /\ given.type = (IF layer.modular THEN ConfigType ELSE WeightType)
         /\ given.factor = (TakesInt8 /\ (layer.modular => ConfigHasFactor))
<1>1. stage = "called" /\ stage \in Live
  BY DEF Called, Live
<1>2. /\ layer \in Layers /\ Supported /\ Passed
      /\ OrderHeld /\ WeightsHeld /\ ScalesHeld /\ ZerosHeld /\ GivenHeld
  BY <1>1 DEF WeightsInv
<1>3. Converted /\ Coded /\ Sorted /\ Packed /\ Scaled /\ Zeroed
  BY <1>1 DEF Converted, Coded, Sorted, Packed, Scaled, Zeroed
<1>4. /\ layer.method = "awq_moe" => layer.gs # -1
      /\ ~IsMoe /\ is_a_8bit => WeightType = "uint4b8"
      /\ ~IsMoe /\ layer.asym => RowCount = GroupedK
      /\ ~IsMoe /\ layer.act = "int8" => TakesInt8
  BY <1>1, <1>2, <1>3 DEF Passed
<1>5. /\ order.idx = (IF has_g_idx THEN SortedIdx ELSE None)
      /\ order.sort = (IF has_g_idx THEN Sort ELSE None)
  BY <1>2, <1>3 DEF OrderHeld
<1>6. /\ w.rows = (IF has_g_idx THEN SortedRows ELSE PlainRows)
      /\ w.packed = "tiles" /\ w.cols = Columns
      /\ w.enc = (IF layer.act = "fp8" THEN Recoded ELSE "int4")
  BY <1>2, <1>3 DEF WeightsHeld
<1>7. /\ s.groups = GroupRows /\ s.cols = ScaleColumns
      /\ s.enc = (IF TakesInt8 THEN "int16" ELSE IF layer.act = "fp8" THEN "x512" ELSE "plain")
  BY <1>2, <1>3 DEF ScalesHeld
<1>8. layer.asym => z.groups = GroupRows /\ z.cols = KernelZeros
  BY <1>2, <1>3 DEF ZerosHeld
<1>9. given = [zeros  |-> layer.asym,
               type   |-> IF layer.modular THEN ConfigType ELSE WeightType,
               factor |-> TakesInt8 /\ (layer.modular => ConfigHasFactor)]
  BY <1>1, <1>2 DEF GivenHeld
<1>10. /\ given.zeros = layer.asym
       /\ given.type = (IF layer.modular THEN ConfigType ELSE WeightType)
       /\ given.factor = (TakesInt8 /\ (layer.modular => ConfigHasFactor))
  BY <1>9, Zenon
<1> QED BY <1>2, <1>4, <1>5, <1>6, <1>7, <1>8, <1>10

LEMMA GroupsLoaded ==
  ASSUME WeightsInv, Called
  PROVE  GroupsIn(s) = RowCount /\ (int8_scales <=> TakesInt8)
<1>1. GroupsIn(s) = RowCount
  BY AtCall DEF GroupsIn, RowCount
<1> QED BY <1>1 DEF int8_scales, TakesInt8

LEMMA ExactQuotient ==
  ASSUME NEW a \in Nat, NEW t \in Nat \ {0}, NEW c \in Nat, a = c * t
  PROVE  a \div t = c
<1>1. 0 \in 0 .. t-1 /\ a = c * t + 0
  OBVIOUS
<1> QED BY <1>1, QuotientIs

\* A rank's groups, and those of all ranks.
LEMMA GroupCounts ==
  ASSUME layer \in Layers, Supported, layer.gs # -1
  PROVE  /\ size_k \div layer.gs \in Nat \ {0} /\ size_k = layer.gs * (size_k \div layer.gs)
         /\ NumGroups(FullK) = (IF SplitK THEN layer.tp ELSE 1) * (size_k \div layer.gs)
<1> DEFINE d == size_k \div layer.gs
           t == IF SplitK THEN layer.tp ELSE 1
<1>1. layer.gs \in Nat \ {0} /\ layer.tp \in Nat \ {0}
  BY LayerIs
<1>2. /\ size_k \in Nat \ {0} /\ size_k % layer.gs = 0 /\ FullK \in Nat
      /\ FullK = t * size_k
  BY Sizes
<1>3. d \in Nat /\ size_k = layer.gs * d
  <2>1. d \in Nat /\ size_k = layer.gs * d + (size_k % layer.gs)
    BY <1>1, <1>2, Quotient
  <2> HIDE DEF d
  <2> QED BY <1>1, <1>2, <2>1
<1> HIDE DEF d
<1>4. d # 0
  BY <1>1, <1>2, <1>3
<1>5. t \in Nat \ {0}
  BY <1>1
<1> HIDE DEF t
<1>6. t * d \in Nat /\ FullK = (t * d) * layer.gs
  <2>1. t * (layer.gs * d) = (t * d) * layer.gs
    BY <1>1, <1>3, <1>5
  <2> QED BY <1>2, <1>3, <1>5, <2>1
<1>7. FullK \div layer.gs = t * d
  BY <1>1, <1>2, <1>6, ExactQuotient
<1>8. NumGroups(FullK) = t * d
  BY <1>7 DEF NumGroups
<1> QED BY <1>3, <1>4, <1>8 DEF d, t

LEMMA RowCountIs ==
  ASSUME layer \in Layers, Supported
  PROVE  RowCount = IF AllGroups THEN NumGroups(FullK)
                    ELSE size_k \div (IF layer.gs = -1 THEN FullK ELSE layer.gs)
<1>1. NumGroups(FullK) \in Nat
  <2>1. CASE layer.gs = -1
    BY <2>1 DEF NumGroups
  <2>2. CASE layer.gs # -1
    <3>1. layer.tp \in Nat
      BY LayerIs
    <3> QED BY <2>2, <3>1, GroupCounts
  <2> QED BY <2>1, <2>2
<1> DEFINE n == size_k \div (IF layer.gs = -1 THEN FullK ELSE layer.gs)
<1>2. n \in Nat
  <2>1. size_k \in Nat /\ FullK \in Nat \ {0} /\ (layer.gs # -1 => layer.gs \in Nat \ {0})
    BY Sizes, LayerIs
  <2> QED BY <2>1, Quotient
<1> HIDE DEF n
<1>3. CASE AllGroups
  <2>1. DOMAIN GroupRows = 0 .. NumGroups(FullK)-1
    BY <1>3 DEF GroupRows
  <2> QED BY <1>1, <1>3, <2>1, IntervalSize DEF RowCount
<1>4. CASE ~AllGroups
  <2>1. DOMAIN GroupRows = 0 .. n-1
    BY <1>4 DEF GroupRows, n
  <2>2. RowCount = n
    BY <1>2, <2>1, IntervalSize DEF RowCount
  <2> QED BY <1>4, <2>2 DEF n
<1> QED BY <1>3, <1>4

\* Several groups of a rank's rows are several rows of scales.
LEMMA ManyRows ==
  ASSUME layer \in Layers, Supported, layer.gs # -1
  PROVE  RowCount = (IF AllGroups /\ SplitK THEN layer.tp ELSE 1) * (size_k \div layer.gs)
<1>1. size_k \div layer.gs \in Nat
  BY GroupCounts
<1>2. RowCount = IF AllGroups THEN NumGroups(FullK) ELSE size_k \div layer.gs
  BY RowCountIs
<1> QED BY <1>1, <1>2, GroupCounts

\* TakesInt8 of a linear layer is about several rows of scales.
LEMMA SeveralRows ==
  ASSUME layer \in Layers, Supported, TakesInt8
  PROVE  RowCount > 1
<1>1. CASE IsMoe
  BY <1>1 DEF TakesInt8
<1>2. CASE ~IsMoe
  <2> DEFINE d == size_k \div layer.gs
             t == IF AllGroups /\ SplitK THEN layer.tp ELSE 1
  <2>1. layer.gs # -1 /\ d > 1
    BY <1>2 DEF TakesInt8
  <2>2. d \in Nat /\ RowCount = t * d
    BY <2>1, GroupCounts, ManyRows
  <2>3. t \in Nat \ {0}
    BY LayerIs
  <2> HIDE DEF d, t
  <2>4. t * d >= 1 * d
    BY <2>2, <2>3, TimesMonotone
  <2> QED BY <2>1, <2>2, <2>3, <2>4
<1> QED BY <1>1, <1>2

\* Weights re-coded for 8-bit inputs, the scales' coding, the factor divided
\* out of them and the weight type reach the kernel fitting together (what
\* process_weights_after_loading and apply do) for exactly the layers that are
\* not of the two kinds CodesMatch names.
THEOREM CodesMatchHolds == WeightsSpec => []CodesMatch
<1>1. WeightsInv => CodesMatch
  <2> SUFFICES ASSUME WeightsInv, Called
               PROVE  CodesFit <=> ~(LostFactor \/ (AsymEightBit /\ layer.act = "fp8"))
    BY DEF CodesMatch
  <2>1. /\ layer \in Layers /\ Supported
        /\ ~IsMoe /\ is_a_8bit => WeightType = "uint4b8"
        /\ ~IsMoe /\ layer.act = "int8" => TakesInt8
    BY AtCall
  <2>2. /\ layer.method \in MoeMethods \cup LinearMethods /\ layer.asym \in BOOLEAN
        /\ layer.act \in {"none", "int8", "fp8"}
        /\ IsAwq => layer.asym
        /\ layer.method = "gptq_moe" => ~layer.asym
        /\ layer.modular => IsMoe
    BY <2>1, LayerIs, Sizes
  <2>3. given.zeros = layer.asym
    BY AtCall
  <2>4. given.type = IF layer.asym THEN "uint4" ELSE "uint4b8"
    <3>1. WeightType = IF layer.asym THEN "uint4" ELSE "uint4b8"
      BY <2>2 DEF WeightType, IsAwq
    <3> QED BY <3>1, AtCall DEF ConfigType
  <2>5. (w.enc = IF layer.act # "fp8" THEN "int4" ELSE IF layer.asym THEN "fp8-z" ELSE "fp8-8")
           <=> ~(AsymEightBit /\ layer.act = "fp8")
    <3>1. w.enc = IF layer.act = "fp8" THEN Recoded ELSE "int4"
      BY AtCall
    <3>2. layer.act = "fp8" => is_a_8bit
      BY DEF is_a_8bit
    <3>3. CASE layer.act # "fp8"
      BY <3>1, <3>3
    <3>4. CASE layer.act = "fp8" /\ ~IsMoe
      <4>1. ~layer.asym
        BY <2>1, <2>2, <3>2, <3>4 DEF WeightType, IsAwq, IsMoe, MoeMethods, LinearMethods
      <4> QED BY <3>1, <3>4, <4>1 DEF Recoded, AsymEightBit, IsMoe, MoeMethods
    <3>5. CASE layer.act = "fp8" /\ IsMoe
      BY <2>2, <3>1, <3>2, <3>5 DEF Recoded, AsymEightBit, IsMoe, MoeMethods, IsAwq
    <3> QED BY <3>3, <3>4, <3>5
  <2>6. layer.act = "int8" => (TakesInt8 <=> RowCount > 1)
    BY <2>1, SeveralRows DEF TakesInt8
  <2>7. TakesInt8 => layer.act = "int8"
    BY DEF TakesInt8
  <2>8. s.enc = IF TakesInt8 THEN "int16" ELSE IF layer.act = "fp8" THEN "x512" ELSE "plain"
    BY AtCall
  <2>9. s.enc = CASE layer.act = "fp8" -> "x512"
                  [] layer.act = "int8" /\ GroupsIn(s) > 1 -> "int16"
                  [] OTHER -> "plain"
    BY <2>6, <2>7, <2>8, GroupsLoaded
  <2>10. (given.factor = (s.enc = "int16")) <=> ~LostFactor
    <3>1. s.enc = "int16" <=> TakesInt8
      BY <2>8
    <3>2. given.factor = (TakesInt8 /\ (layer.modular => layer.method = "awq_moe"))
      <4>1. given.factor = (TakesInt8 /\ (layer.modular => ConfigHasFactor))
        BY AtCall
      <4> QED BY <4>1, Zenon DEF ConfigHasFactor
    <3>3. LostFactor <=> TakesInt8 /\ layer.modular /\ layer.method # "awq_moe"
      BY <2>2, GroupsLoaded DEF LostFactor, IsMoe, MoeMethods
    <3> QED BY <3>1, <3>2, <3>3
  <2> QED BY <2>3, <2>4, <2>5, <2>9, <2>10 DEF CodesFit
<1> QED BY <1>1, WeightsInvHolds, PTL

LEMMA FirstColumns ==
  ASSUME layer \in Layers, Supported
  PROVE  /\ DOMAIN Columns = 0 .. size_n-1 /\ size_n >= 64
         /\ Columns[1] # Columns[8] /\ Columns[8] # Columns[16]
<1>1. size_n \in Nat /\ size_n # 0 /\ size_n % 64 = 0
  BY Sizes
<1>2. size_n >= 64
  <2>1. size_n = 64 * (size_n \div 64) + (size_n % 64) /\ size_n \div 64 \in Nat
    BY <1>1, Quotient
  <2> QED BY <1>1, <2>1
<1>3. DOMAIN Columns = 0 .. size_n-1
  BY DEF Columns
<1>4. \A n \in {1, 8, 16} : Columns[n] = SourceCol(n)
  BY <1>1, <1>2 DEF Columns
<1>5. layer.rank \in Nat /\ Inter \in Nat /\ InterPP \in Nat \ {0}
  BY LayerIs, Sizes
<1>6. PICK b \in Int : \A n \in {1, 8, 16} : SourceCol(n) = b + n
  <2>1. CASE layer.product = "w13"
    <3>1. InterPP >= 64
      <4>1. IsMoe
        BY <2>1, LayerIs
      <4>2. InterPP % 64 = 0
        BY <4>1, Sizes
      <4>3. InterPP = 64 * (InterPP \div 64) + (InterPP % 64) /\ InterPP \div 64 \in Nat
        BY <1>5, Quotient
      <4> QED BY <1>5, <4>2, <4>3
    <3>2. ASSUME NEW n \in {1, 8, 16}
          PROVE  n \div InterPP = 0 /\ n % InterPP = n
      <4>1. n \in 0 .. InterPP-1 /\ n = 0 * InterPP + n
        BY <1>5, <3>1
      <4>2. (0 * InterPP + n) \div InterPP = 0 /\ (0 * InterPP + n) % InterPP = n
        BY <1>5, <4>1, QuotientIs
      <4> QED BY <4>1, <4>2
    <3> DEFINE c == layer.rank * InterPP
    <3>3. c \in Int
      BY <1>5
    <3>4. ASSUME NEW n \in {1, 8, 16}
          PROVE  SourceCol(n) = c + n
      <4>1. SourceCol(n) = (n \div InterPP) * Inter + layer.rank * InterPP + (n % InterPP)
        BY <2>1 DEF SourceCol
      <4>2. (n \div InterPP) * Inter = 0
        BY <1>5, <3>2
      <4> QED BY <3>2, <3>3, <4>1, <4>2
    <3> HIDE DEF c
    <3> QED BY <3>3, <3>4
  <2>2. CASE layer.product = "column"
    <3> DEFINE c == layer.rank * size_n
    <3>1. c \in Int
      BY <1>1, <1>5
    <3>2. \A n \in {1, 8, 16} : SourceCol(n) = c + n
      BY <2>2 DEF SourceCol
    <3> HIDE DEF c
    <3> QED BY <3>1, <3>2
  <2>3. CASE layer.product \notin {"w13", "column"}
    <3>1. \A n \in {1, 8, 16} : SourceCol(n) = 0 + n
      BY <2>3 DEF SourceCol
    <3> QED BY <3>1
  <2> QED BY <2>1, <2>2, <2>3
<1>7. Columns[1] = b + 1 /\ Columns[8] = b + 8 /\ Columns[16] = b + 16
  BY <1>4, <1>6
<1> QED BY <1>2, <1>3, <1>7

\* The two orders of scales differ, and so do the two of zero points.
LEMMA OrdersDiffer ==
  ASSUME layer \in Layers, Supported
  PROVE  /\ Permuted(Columns, scale_perm) # Permuted(Columns, scale_perm_single)
         /\ zero_points(Columns, TRUE) # zero_points(Columns, FALSE)
<1>1. 1 \in 0 .. size_n-1 /\ 2 \in 0 .. size_n-1 /\ DOMAIN Columns = 0 .. size_n-1
  BY FirstColumns, Sizes
<1> DEFINE f == Columns
           p == Permuted(f, scale_perm)
           q == Permuted(p, interleave)
           r == Permuted(f, scale_perm_single)
<1> HIDE DEF f
<1>2. p = [i \in 0 .. size_n-1 |-> f[64 * (i \div 64) + scale_perm[i % 64]]]
  BY <1>1, PermLengths DEF Permuted, f
<1>3. r = [i \in 0 .. size_n-1 |-> f[32 * (i \div 32) + scale_perm_single[i % 32]]]
  BY <1>1, PermLengths DEF Permuted, f
<1>4. q = [i \in 0 .. size_n-1 |-> p[8 * (i \div 8) + interleave[i % 8]]]
  BY <1>1, <1>2, PermLengths DEF Permuted
<1>5. scale_perm[1] = 8 /\ scale_perm[2] = 16 /\ scale_perm_single[1] = 1 /\ interleave[1] = 2
  BY DEF scale_perm, scale_perm_single, interleave
<1>6. /\ 1 \div 64 = 0 /\ 1 % 64 = 1 /\ 2 \div 64 = 0 /\ 2 % 64 = 2
      /\ 1 \div 32 = 0 /\ 1 % 32 = 1 /\ 1 \div 8 = 0 /\ 1 % 8 = 1
  OBVIOUS
<1>7. p[1] = f[8] /\ p[2] = f[16] /\ r[1] = f[1]
  <2> HIDE DEF p, q, r
  <2> QED BY <1>1, <1>2, <1>3, <1>5, <1>6
<1>8. q[1] = p[2]
  <2> HIDE DEF p, q, r
  <2> QED BY <1>1, <1>4, <1>5, <1>6
<1>9. f[1] # f[8] /\ f[8] # f[16]
  BY FirstColumns DEF f
<1>10. p # r /\ p # q
  <2> HIDE DEF p, q, r
  <2> QED BY <1>7, <1>8, <1>9
<1>11. zero_points(f, TRUE) = p /\ zero_points(f, FALSE) = q
  BY DEF zero_points
<1> QED BY <1>10, <1>11 DEF f

\* A rank has all rows, or less than all.
LEMMA RankOrWhole ==
  ASSUME layer \in Layers, Supported
  PROVE  /\ size_k \div FullK = IF row_parallel THEN 0 ELSE 1
         /\ row_parallel <=> SplitK /\ layer.tp # 1
<1>1. /\ size_k \in Nat \ {0} /\ FullK \in Nat \ {0}
      /\ SplitK => FullK = layer.tp * size_k
      /\ ~SplitK => FullK = size_k
  BY Sizes
<1>2. layer.tp \in Nat \ {0}
  BY LayerIs
<1>3. CASE SplitK /\ layer.tp # 1
  <2>1. size_k * 2 <= size_k * layer.tp
    BY <1>1, <1>2, <1>3, TimesMonotone
  <2>2. size_k * layer.tp = layer.tp * size_k
    BY <1>1, <1>2
  <2>3. size_k < FullK
    BY <1>1, <1>3, <2>1, <2>2
  <2>4. size_k \in 0 .. FullK-1 /\ size_k = 0 * FullK + size_k
    BY <1>1, <2>3
  <2>5. (0 * FullK + size_k) \div FullK = 0
    BY <1>1, <2>4, QuotientIs
  <2> QED BY <1>3, <2>3, <2>4, <2>5, <1>1 DEF row_parallel
<1>4. CASE ~SplitK \/ layer.tp = 1
  <2>1. size_k = FullK /\ FullK = 1 * FullK
    BY <1>1, <1>4
  <2>2. FullK \div FullK = 1
    BY <1>1, <2>1, ExactQuotient
  <2> QED BY <1>4, <2>1, <2>2 DEF row_parallel
<1> QED BY <1>3, <1>4

\* Whether the scales are permuted as groups, and whether the kernel takes
\* them so: they differ for GroupAtInter and OneGroup.
LEMMA ScaleTests ==
  ASSUME WeightsInv, Called, ~is_a_8bit
  PROVE  ((layer.gs < PermutedBy /\ layer.gs # -1) <=> RowCount > 1)
            <=> ~(GroupAtInter \/ OneGroup)
<1>1. /\ layer \in Layers /\ Supported
      /\ layer.method = "awq_moe" => layer.gs # -1
  BY AtCall
<1>2. /\ layer.method \in MoeMethods \cup LinearMethods
      /\ layer.product \in {"w13", "w2", "column", "row"}
      /\ IsMoe <=> layer.product \in {"w13", "w2"}
      /\ layer.gs \in {-1, 32, 64, 128} /\ layer.tp \in Nat \ {0}
      /\ IsAwq => ~has_g_idx
      /\ layer.method = "gptq_moe" => layer.actorder # "weight"
  BY <1>1, LayerIs DEF has_g_idx
<1>3. /\ InterPP \in Nat \ {0} /\ size_k \in Nat \ {0} /\ FullK \in Nat \ {0}
      /\ SplitK => FullK = layer.tp * size_k
      /\ ~SplitK => FullK = size_k
  BY <1>1, Sizes
<1>4. SplitK <=> layer.product \in {"w2", "row"}
  BY DEF SplitK
<1>5. IsMoe <=> layer.method \in MoeMethods
  BY DEF IsMoe
<1>6. GroupsIn(s) = RowCount
  BY GroupsLoaded
<1>7. CASE layer.gs = -1
  <2>1. ~GroupAtInter /\ ~OneGroup
    BY <1>3, <1>7 DEF GroupAtInter, OneGroup
  <2>2. RowCount = IF AllGroups THEN 1 ELSE size_k \div FullK
    BY <1>1, <1>7, RowCountIs DEF NumGroups
  <2>4. ~(RowCount > 1)
    BY <1>1, <2>2, RankOrWhole
  <2> QED BY <1>7, <2>1, <2>4
<1>8. CASE layer.gs # -1
  <2> DEFINE d == size_k \div layer.gs
             t == IF AllGroups /\ SplitK THEN layer.tp ELSE 1
  <2>1. d \in Nat \ {0} /\ size_k = layer.gs * d
    BY <1>1, <1>8, GroupCounts
  <2>2. RowCount = t * d
    BY <1>1, <1>8, ManyRows
  <2>3. t \in Nat \ {0}
    BY <1>2
  <2>4. layer.gs \in Nat \ {0}
    BY <1>2, <1>8
  <2> HIDE DEF d
  <2>5. (layer.gs < size_k <=> d > 1) /\ (layer.gs = size_k <=> d = 1)
    <3>1. CASE d = 1
      BY <2>1, <2>4, <3>1
    <3>2. CASE d > 1
      <4>1. layer.gs * 2 <= layer.gs * d
        BY <2>1, <2>4, <3>2, TimesMonotone
      <4> QED BY <2>1, <2>4, <3>2, <4>1
    <3> QED BY <2>1, <3>1, <3>2
  <2>6. CASE ~IsMoe
    <3>1. PermutedBy = size_k
      BY <2>6 DEF PermutedBy
    <3>2. ~GroupAtInter
      BY <1>5, <2>6 DEF GroupAtInter, MoeMethods
    <3>3. OneGroup <=> d = 1 /\ has_g_idx /\ row_parallel
      BY <1>2, <2>5, <2>6 DEF OneGroup
    <3>4. AllGroups <=> has_g_idx
      BY <1>2, <1>5, <1>8, <2>6 DEF AllGroups, IsAwq, marlin_repeat_scales_on_all_ranks, LinearMethods
    <3>5. row_parallel <=> SplitK /\ layer.tp # 1
      BY <1>1, RankOrWhole
    <3>6. d > 1 => RowCount > 1
      <4> HIDE DEF t
      <4>1. d * 1 <= d * t
        BY <2>1, <2>3, TimesMonotone
      <4>2. d * t = t * d
        BY <2>1, <2>3
      <4> QED BY <2>1, <2>2, <4>1, <4>2
    <3>7. d = 1 => RowCount = t
      BY <2>2, <2>3
    <3>8. t > 1 <=> has_g_idx /\ row_parallel
      BY <1>2, <3>4, <3>5
    <3> HIDE DEF t
    <3> QED BY <1>8, <2>1, <2>5, <3>1, <3>2, <3>3, <3>6, <3>7, <3>8
  <2>7. CASE IsMoe /\ layer.product = "w2"
    <3>1. ~GroupAtInter /\ ~OneGroup
      BY <2>7 DEF GroupAtInter, OneGroup
    <3>2. CASE layer.method = "awq_moe"
      <4>1. PermutedBy = InterPP
        BY <2>7, <3>2 DEF PermutedBy
      <4>2. size_k = InterPP
        BY <2>7 DEF size_k, SplitK, FullK, InterPP
      <4>3. ~AllGroups
        BY <3>2 DEF AllGroups, IsAwq
      <4>4. RowCount = d
        BY <2>1, <2>2, <4>3
      <4> QED BY <1>8, <2>5, <3>1, <4>1, <4>2, <4>4
    <3>3. CASE layer.method # "awq_moe"
      <4>1. PermutedBy = RowCount * layer.gs
        BY <1>8, <2>7, <3>3 DEF PermutedBy
      <4> HIDE DEF t
      <4>2. RowCount \in Nat
        BY <2>1, <2>2, <2>3
      <4>3. layer.gs * 1 < layer.gs * RowCount <=> RowCount > 1
        <5>1. RowCount > 1 => layer.gs * 2 <= layer.gs * RowCount
          BY <2>4, <4>2, TimesMonotone
        <5>2. RowCount <= 1 => layer.gs * RowCount <= layer.gs * 1
          BY <2>4, <4>2, TimesMonotone
        <5>3. layer.gs * RowCount \in Nat
          BY <2>4, <4>2
        <5> QED BY <2>4, <4>2, <5>1, <5>2, <5>3
      <4>4. layer.gs * RowCount = RowCount * layer.gs
        BY <2>4, <4>2
      <4> QED BY <1>8, <2>4, <3>1, <4>1, <4>3, <4>4
    <3> QED BY <3>2, <3>3
  <2>8. CASE IsMoe /\ layer.product = "w13"
    <3>1. RowCount = d
      BY <1>4, <2>1, <2>2, <2>8
    <3>2. CASE layer.method = "ct_moe"
      <4>1. PermutedBy = 2 * (2 * InterPP)
        BY <2>8, <3>2 DEF PermutedBy, size_n
      <4>2. layer.gs < PermutedBy
        <5>1. InterPP % layer.gs = 0
          BY <1>1, <1>8, <2>8, Sizes
        <5>2. InterPP = layer.gs * (InterPP \div layer.gs) + (InterPP % layer.gs)
              /\ InterPP \div layer.gs \in Nat
          BY <1>3, <2>4, Quotient
        <5> DEFINE e == InterPP \div layer.gs
        <5> HIDE DEF e
        <5>3. e \in Nat /\ InterPP = layer.gs * e
          BY <1>3, <2>4, <5>1, <5>2 DEF e
        <5>4. e # 0
          BY <1>3, <2>4, <5>3
        <5>5. layer.gs * 1 <= layer.gs * e
          BY <2>4, <5>3, <5>4, TimesMonotone
        <5> QED BY <1>3, <2>4, <4>1, <5>3, <5>5
      <4>3. ~GroupAtInter
        BY <3>2 DEF GroupAtInter
      <4>4. OneGroup <=> d = 1
        BY <2>5, <2>8, <3>2 DEF OneGroup
      <4> QED BY <1>8, <2>1, <3>1, <4>2, <4>3, <4>4
    <3>3. CASE layer.method # "ct_moe"
      <4>1. layer.method \in {"awq_moe", "gptq_moe"}
        BY <1>5, <2>8, <3>3 DEF MoeMethods
      <4>2. PermutedBy = InterPP
        BY <2>8, <4>1 DEF PermutedBy
      <4>3. GroupAtInter <=> layer.gs >= InterPP /\ d > 1
        BY <1>6, <2>8, <3>1, <4>1 DEF GroupAtInter
      <4>4. OneGroup <=> d = 1 /\ layer.gs < InterPP
        BY <2>5, <2>8, <3>3 DEF OneGroup
      <4> QED BY <1>3, <1>8, <2>1, <2>4, <3>1, <4>2, <4>3, <4>4
    <3> QED BY <3>2, <3>3
  <2> QED BY <1>2, <2>6, <2>7, <2>8
<1> QED BY <1>7, <1>8

\* Weights, scales and zero points of each column reach the kernel as that
\* column, through the packing orders and the permutations that the methods and
\* the kernel choose by different tests, for exactly the layers that are not of
\* the three kinds ColumnsMatch names.
THEOREM ColumnsMatchHolds == WeightsSpec => []ColumnsMatch
<1>1. WeightsInv => ColumnsMatch
  <2> SUFFICES ASSUME WeightsInv, Called
               PROVE  ColumnsMeet <=> ~(AsymEightBit \/ GroupAtInter \/ OneGroup)
    BY DEF ColumnsMatch
  <2>1. layer \in Layers /\ Supported /\ layer.asym \in BOOLEAN
    BY AtCall, LayerIs
  <2>2. w.packed = "tiles" /\ w.cols = Columns /\ given.zeros = layer.asym
    BY AtCall
  <2> DEFINE groups  == Permuted(Columns, scale_perm)
             channel == Permuted(Columns, scale_perm_single)
  <2>3. groups # channel /\ zero_points(Columns, TRUE) # zero_points(Columns, FALSE)
    BY <2>1, OrdersDiffer
  <2>4. s.cols = IF (layer.gs < PermutedBy /\ layer.gs # -1) /\ ~is_a_8bit THEN groups ELSE channel
    <3>1. s.cols = permute_scales(Columns, PermutedBy)
      BY AtCall DEF ScaleColumns
    <3> QED BY <3>1 DEF permute_scales
  <2>5. KernelScaleOrder(Columns, GroupsIn(s))
           = IF RowCount > 1 /\ ~is_a_8bit THEN groups ELSE channel
    BY GroupsLoaded DEF KernelScaleOrder
  <2> HIDE DEF groups, channel
  <2>6. s.cols = KernelScaleOrder(Columns, GroupsIn(s)) <=> ~(GroupAtInter \/ OneGroup)
    <3>1. CASE is_a_8bit
      BY <2>4, <2>5, <3>1 DEF GroupAtInter, OneGroup
    <3>2. CASE ~is_a_8bit
      BY <2>3, <2>4, <2>5, <3>2, ScaleTests
    <3> QED BY <3>1, <3>2
  <2>7. (given.zeros => z.cols = zero_points(Columns, is_a_8bit)) <=> ~AsymEightBit
    <3>1. CASE ~layer.asym
      BY <2>2, <3>1 DEF AsymEightBit
    <3>2. CASE layer.asym
      <4>1. z.cols = zero_points(Columns, layer.method # "ct_moe" /\ is_a_8bit)
        BY <3>2, AtCall DEF KernelZeros
      <4>2. CASE layer.method = "ct_moe" /\ is_a_8bit
        <5>1. z.cols = zero_points(Columns, FALSE)
          BY <4>1, <4>2 DEF zero_points
        <5>2. zero_points(Columns, is_a_8bit) = zero_points(Columns, TRUE)
          BY <4>2 DEF zero_points
        <5> QED BY <2>2, <2>3, <3>2, <4>2, <5>1, <5>2 DEF AsymEightBit
      <4>3. CASE ~(layer.method = "ct_moe" /\ is_a_8bit)
        <5>1. z.cols = zero_points(Columns, is_a_8bit)
          BY <4>1, <4>3 DEF zero_points
        <5> QED BY <4>3, <5>1 DEF AsymEightBit
      <4> QED BY <4>2, <4>3
    <3> QED BY <2>1, <3>1, <3>2
  <2> QED BY <2>2, <2>6, <2>7 DEF ColumnsMeet
<1> QED BY <1>1, WeightsInvHolds, PTL

LEMMA Inside ==
  ASSUME NEW n \in Nat, NEW T \in SUBSET (0 .. n-1), NEW k \in 0 .. n-1, k \notin T
  PROVE  IsFiniteSet(T) /\ Cardinality(T) \in 0 .. n-1
<1>1. IsFiniteSet(0 .. n-1) /\ Cardinality(0 .. n-1) = n
  BY IntervalSize
<1>2. IsFiniteSet(T) /\ Cardinality(T) <= n /\ (n = Cardinality(T) => 0 .. n-1 = T)
  BY <1>1, FS_Subset
<1>3. Cardinality(T) \in Nat
  BY <1>2, FS_CardinalityType
<1> QED BY <1>2, <1>3

\* argsort places every row once.
LEMMA SortPlacesAll ==
  ASSUME size_k \in Nat, NEW idx, \A k \in 0 .. size_k-1 : idx[k] \in Int
  PROVE  /\ \A i \in 0 .. size_k-1 : SortIndices(idx)[i] \in 0 .. size_k-1
         /\ \A k \in 0 .. size_k-1 : \E i \in 0 .. size_k-1 : SortIndices(idx)[i] = k
<1> DEFINE S == 0 .. size_k-1
           before(a, b) == idx[a] < idx[b] \/ (idx[a] = idx[b] /\ a < b)
           below(k)     == {j \in S : before(j, k)}
           place(k)     == Cardinality(below(k))
           placed       == {<<k, place(k)>> : k \in S}
<1>1. /\ \A a \in S : ~before(a, a)
      /\ \A a, b \in S : a = b \/ before(a, b) \/ before(b, a)
      /\ \A a, b, c \in S : before(a, b) /\ before(b, c) => before(a, c)
  <2>1. \A a \in S : a \in Int /\ idx[a] \in Int
    OBVIOUS
  <2> QED BY <2>1
<1>0. SortIndices(idx) = [i \in S |-> (CHOOSE p \in placed : p[2] = i)[1]]
  BY DEF SortIndices
<1> HIDE DEF before
<1>2. ASSUME NEW k \in S
      PROVE  below(k) \in SUBSET S /\ k \notin below(k) /\ IsFiniteSet(below(k)) /\ place(k) \in S
  <2>1. below(k) \in SUBSET S /\ k \notin below(k)
    BY <1>1
  <2> HIDE DEF below
  <2> QED BY <2>1, Inside
<1>3. ASSUME NEW a \in S, NEW b \in S, before(a, b)
      PROVE  place(a) # place(b)
  <2>1. below(a) \in SUBSET below(b) /\ a \in below(b) /\ a \notin below(a)
    BY <1>1, <1>3
  <2>2. IsFiniteSet(below(b))
    BY <1>2
  <2> HIDE DEF below
  <2> QED BY <2>1, <2>2, FS_Subset
<1>4. ASSUME NEW a \in S, NEW b \in S, place(a) = place(b)
      PROVE  a = b
  <2> HIDE DEF place
  <2> QED BY <1>1, <1>3, <1>4
<1> HIDE DEF place
<1> DEFINE F == [k \in S |-> place(k)]
<1>5. ASSUME NEW i \in S
      PROVE  \E k \in S : place(k) = i
  <2>1. F \in Injection(S, S)
    BY <1>2, <1>4 DEF Injection, IsInjective
  <2>2. IsFiniteSet(S)
    BY IntervalSize
  <2>3. F \in Surjection(S, S)
    BY <2>1, <2>2, FS_Injection
  <2> QED BY <2>3 DEF Surjection
<1> DEFINE q(i) == CHOOSE p \in placed : p[2] = i
<1>6. ASSUME NEW i \in S
      PROVE  q(i)[1] \in S /\ place(q(i)[1]) = i
  <2>1. PICK k \in S : place(k) = i
    BY <1>5
  <2>2. <<k, place(k)>> \in placed /\ <<k, place(k)>>[2] = i
    BY <2>1
  <2>3. q(i) \in placed /\ q(i)[2] = i
    BY <2>2, Zenon
  <2> HIDE DEF q
  <2>4. PICK j \in S : q(i) = <<j, place(j)>>
    BY <2>3
  <2> QED BY <2>3, <2>4
<1>7. \A i \in S : SortIndices(idx)[i] = q(i)[1]
  BY <1>0
<1> HIDE DEF q, placed
<1>8. ASSUME NEW k \in S
      PROVE  \E i \in S : SortIndices(idx)[i] = k
  <2>1. place(k) \in S
    BY <1>2 DEF place
  <2>2. q(place(k))[1] \in S /\ place(q(place(k))[1]) = place(k)
    BY <1>6, <2>1
  <2>3. q(place(k))[1] = k
    BY <1>4, <2>2
  <2> QED BY <1>7, <2>1, <2>3
<1> QED BY <1>6, <1>7, <1>8

LEMMA EqualShares ==
  ASSUME NEW x \in Nat \ {0}, NEW d \in Nat \ {0}
  PROVE  (x * d) \div d = x /\ (x * d) % d = 0
<1> DEFINE y == x * d
<1>1. 0 \in 0 .. d-1 /\ y \in Nat /\ y + 0 = y
  BY SMT
<1>2. (x * d + 0) \div d = x /\ (x * d + 0) % d = 0
  BY <1>1, QuotientIs
<1> QED BY <1>1, <1>2

LEMMA Cancelled ==
  ASSUME NEW x \in Nat, NEW y \in Nat, NEW d \in Nat \ {0}, x * d = y * d
  PROVE  x = y
BY SMT

\* The groups of a part of the rows that starts at a multiple of its size.
LEMMA Regrouped ==
  ASSUME NEW x \in Nat \ {0}, NEW d \in Nat \ {0}, NEW r \in Nat, NEW k \in 0 .. (x * d)-1
  PROVE  /\ k \div x \in 0 .. d-1
         /\ (r * (x * d) + k) \div x = r * d + (k \div x)
<1> DEFINE q == k \div x
           m == k % x
<1>1. x * d \in Nat /\ r * d \in Nat /\ k \in Nat
  BY SMT
<1>2. q \in Nat /\ m \in 0 .. x-1 /\ k = x * q + m
  BY <1>1, Quotient
<1> HIDE DEF q, m
<1>3. x * q \in Nat
  BY <1>2
<1>4. q < d
  <2>1. d <= q => x * d <= x * q
    BY <1>2, TimesMonotone
  <2> QED BY <1>1, <1>2, <1>3, <2>1
<1>5. r * (x * d) + k = (r * d + q) * x + m
  <2>1. r * (x * d) = (r * d) * x
    BY SMT
  <2>2. (r * d + q) * x = (r * d) * x + x * q
    BY <1>1, <1>2
  <2>3. (r * d) * x \in Nat
    BY <1>1
  <2> QED BY <1>2, <1>3, <2>1, <2>2, <2>3
<1>6. r * d + q \in Nat
  BY <1>1, <1>2
<1>7. ((r * d + q) * x + m) \div x = r * d + q
  BY <1>2, <1>6, QuotientIs
<1>8. q \in 0 .. d-1
  BY <1>2, <1>4
<1> QED BY <1>5, <1>7, <1>8 DEF q

\* The scale rows a rank has, when they are its own.
LEMMA OwnGroups ==
  ASSUME layer \in Layers, Supported, layer.gs # -1, NEW b \in Nat,
         b = (IF SplitK THEN layer.rank ELSE 0) * (size_k \div layer.gs),
         ~has_g_idx, RowCount = size_k \div layer.gs,
         GroupRows = [g \in 0 .. (size_k \div layer.gs)-1 |-> b + g]
  PROVE  /\ size_k % RowCount = 0
         /\ \A k \in 0 .. size_k-1 :
              LET g == k \div (size_k \div RowCount)
              IN  g \in DOMAIN GroupRows /\ GroupRows[g] = GroupOf(SourceRow(k))
<1> DEFINE d == size_k \div layer.gs
           r == IF SplitK THEN layer.rank ELSE 0
<1>1. layer.gs \in Nat \ {0} /\ r \in Nat
  BY LayerIs
<1>2. d \in Nat \ {0} /\ size_k = layer.gs * d /\ size_k \in Nat
  BY GroupCounts, Sizes
<1>3. b = r * d /\ RowCount = d /\ GroupRows = [g \in 0 .. d-1 |-> b + g]
  OBVIOUS
<1> HIDE DEF d
<1>4. size_k \div d = layer.gs /\ size_k % d = 0
  BY <1>1, <1>2, EqualShares
<1>5. ASSUME NEW k \in 0 .. size_k-1
      PROVE  k \div layer.gs \in 0 .. d-1 /\ b + (k \div layer.gs) = GroupOf(SourceRow(k))
  <2>1. k \in 0 .. (layer.gs * d)-1
    BY <1>2
  <2>2. /\ k \div layer.gs \in 0 .. d-1
        /\ (r * (layer.gs * d) + k) \div layer.gs = r * d + (k \div layer.gs)
    BY <1>1, <1>2, <2>1, Regrouped
  <2>3. SourceRow(k) = r * size_k + k
    BY <1>2 DEF SourceRow
  <2>4. GroupOf(SourceRow(k)) = SourceRow(k) \div layer.gs
    BY DEF GroupOf
  <2> HIDE DEF r
  <2> QED BY <1>2, <1>3, <2>2, <2>3, <2>4
<1>6. DOMAIN GroupRows = 0 .. d-1 /\ \A g \in 0 .. d-1 : GroupRows[g] = b + g
  BY <1>3
<1> HIDE DEF r
<1> QED BY <1>3, <1>4, <1>5, <1>6

\* With a g_idx: its group's row is there, and holds that group.
LEMMA GroupsAsGiven ==
  ASSUME layer \in Layers, Supported, has_g_idx, NEW r \in Nat
  PROVE  GroupOf(r) \in DOMAIN GroupRows /\ GroupRows[GroupOf(r)] = GroupOf(r)
<1>1. /\ layer.method \in MoeMethods \cup LinearMethods /\ ~IsAwq
      /\ layer.product \in {"w13", "w2", "column", "row"}
      /\ IsMoe <=> layer.product \in {"w13", "w2"}
      /\ IsMoe <=> layer.method \in MoeMethods
  BY LayerIs DEF has_g_idx, IsMoe
<1> DEFINE n == NumGroups(FullK)
<1>2. n \in Nat \ {0} /\ GroupOf(r) \in 0 .. n-1
  <2>1. CASE layer.gs = -1
    BY <2>1 DEF NumGroups, GroupOf
  <2>2. CASE layer.gs # -1
    <3>1. /\ size_k \div layer.gs \in Nat \ {0} /\ layer.tp \in Nat \ {0}
          /\ n = (IF SplitK THEN layer.tp ELSE 1) * (size_k \div layer.gs)
      BY <2>2, GroupCounts, LayerIs
    <3>2. \A x, y \in Nat \ {0} : x * y \in Nat \ {0}
      BY SMT
    <3>3. n \in Nat \ {0}
      BY <3>1, <3>2
    <3>4. GroupOf(r) = r % n
      BY <2>2 DEF GroupOf
    <3> HIDE DEF n
    <3> QED BY <3>3, <3>4, Quotient
  <2> QED BY <2>1, <2>2
<1>3. GroupRows = [g \in 0 .. n-1 |-> g]
  <2>1. CASE AllGroups
    BY <2>1 DEF GroupRows
  <2>2. CASE ~AllGroups
    <3>1. layer.gs # -1 /\ ~SplitK
      BY <1>1, <2>2 DEF AllGroups, IsAwq, marlin_repeat_scales_on_all_ranks, load_full_w2,
         has_g_idx, SplitK, MoeMethods, LinearMethods
    <3>2. n = size_k \div layer.gs
      BY <3>1, GroupCounts
    <3> QED BY <2>2, <3>1, <3>2 DEF GroupRows
  <2> QED BY <2>1, <2>2
<1> HIDE DEF n
<1> QED BY <1>2, <1>3

\* Without a g_idx: dividing the rank's rows equally finds their groups.
DivisionFinds ==
  /\ size_k % RowCount = 0
  /\ \A k \in 0 .. size_k-1 :
       LET g == k \div (size_k \div RowCount)
       IN  g \in DOMAIN GroupRows /\ GroupRows[g] = GroupOf(SourceRow(k))

LEMMA OneRowFound ==
  ASSUME WeightsInv, Called, layer.gs = -1
  PROVE  DivisionFinds
<1>1. /\ layer \in Layers /\ Supported
      /\ layer.method = "awq_moe" => layer.gs # -1
      /\ ~IsMoe /\ layer.asym => RowCount = GroupedK
  BY AtCall
<1>2. /\ layer.method \in MoeMethods \cup LinearMethods
      /\ layer.rank \in Nat /\ layer.rank < layer.tp /\ layer.tp \in Nat
      /\ IsAwq => layer.asym
      /\ size_k \in Nat \ {0}
  BY <1>1, LayerIs, Sizes
<1>3. /\ size_k \div FullK = IF row_parallel THEN 0 ELSE 1
      /\ row_parallel <=> SplitK /\ layer.tp # 1
  BY <1>1, RankOrWhole
<1>4. RowCount = IF AllGroups THEN 1 ELSE size_k \div FullK
  BY <1>1, RowCountIs DEF NumGroups
<1>5. ~AllGroups => ~row_parallel
  <2> SUFFICES ASSUME ~AllGroups, row_parallel PROVE FALSE
    OBVIOUS
  <2>1. CASE layer.method \in {"ct_moe", "gptq_moe"}
    BY <2>1 DEF AllGroups, IsAwq
  <2>2. CASE layer.method = "ct_linear"
    BY <2>2 DEF AllGroups, IsAwq, marlin_repeat_scales_on_all_ranks
  <2>3. CASE layer.method = "awq_moe"
    BY <1>1, <2>3
  <2>4. CASE layer.method = "awq_linear"
    <3>1. GroupedK = 1
      BY DEF GroupedK
    <3>2. RowCount = 1
      BY <1>1, <1>2, <2>4, <3>1 DEF IsMoe, IsAwq, MoeMethods
    <3> QED BY <1>3, <1>4, <3>2
  <2> QED BY <1>2, <2>1, <2>2, <2>3, <2>4 DEF MoeMethods, LinearMethods
<1>6. RowCount = 1
  BY <1>3, <1>4, <1>5
<1>7. DOMAIN GroupRows = 0 .. 0 /\ GroupRows[0] = 0
  <2>1. CASE AllGroups
    BY <2>1 DEF GroupRows, NumGroups
  <2>2. CASE ~AllGroups
    <3>1. SplitK => layer.rank = 0
      BY <1>2, <1>3, <1>5, <2>2
    <3>2. size_k \div FullK = 1
      BY <1>3, <1>5, <2>2
    <3>3. GroupRows = [g \in 0 .. 0 |-> IF SplitK THEN layer.rank * 1 + g ELSE g]
      BY <2>2, <3>2 DEF GroupRows
    <3> QED BY <3>1, <3>3
  <2> QED BY <2>1, <2>2
<1>8. size_k \div 1 = size_k /\ size_k % 1 = 0
  BY <1>2
<1>9. ASSUME NEW k \in 0 .. size_k-1
      PROVE  k \div size_k = 0 /\ GroupOf(SourceRow(k)) = 0
  <2>1. k \in Nat /\ k = 0 * size_k + k
    BY <1>2
  <2>2. (0 * size_k + k) \div size_k = 0
    BY <1>2, QuotientIs
  <2> QED BY <2>1, <2>2 DEF GroupOf
<1> QED BY <1>6, <1>7, <1>8, <1>9 DEF DivisionFinds

LEMMA EqualDivision ==
  ASSUME WeightsInv, Called, ~has_g_idx
  PROVE  DivisionFinds <=> ~OrderWithoutIdx
<1>1. layer \in Layers /\ Supported
  BY AtCall
<1>2. CASE layer.gs = -1
  BY <1>2, OneRowFound DEF OrderWithoutIdx, load_full_w2
<1>3. CASE layer.gs # -1
  <2> DEFINE d == size_k \div layer.gs
             r == IF SplitK THEN layer.rank ELSE 0
  <2>1. /\ layer.gs \in Nat \ {0} /\ layer.tp \in Nat \ {0} /\ layer.rank \in Nat
        /\ layer.rank < layer.tp
        /\ layer.method \in MoeMethods \cup LinearMethods
        /\ layer.actorder \in {"none", "weight", "group"}
        /\ layer.method = "gptq_moe" => layer.actorder # "weight"
    BY <1>1, <1>3, LayerIs
  <2>2. d \in Nat \ {0} /\ size_k = layer.gs * d
    BY <1>1, <1>3, GroupCounts
  <2>3. RowCount = (IF AllGroups /\ SplitK THEN layer.tp ELSE 1) * d
    BY <1>1, <1>3, ManyRows
  <2>4. row_parallel <=> SplitK /\ layer.tp # 1
    BY <1>1, RankOrWhole
  <2>5. CASE ~AllGroups
    <3>1. ~OrderWithoutIdx
      BY <2>5 DEF OrderWithoutIdx, AllGroups, IsAwq
    <3>2. RowCount = d
      BY <2>2, <2>3, <2>5
    <3> DEFINE b == r * d
    <3>3. b \in Nat
      BY <2>1, <2>2
    <3>4. GroupRows = [g \in 0 .. d-1 |-> b + g]
      <4>1. GroupRows = [g \in 0 .. d-1 |-> IF SplitK THEN layer.rank * d + g ELSE g]
        BY <1>3, <2>5 DEF GroupRows
      <4>2. ASSUME NEW g \in 0 .. d-1
            PROVE  (IF SplitK THEN layer.rank * d + g ELSE g) = b + g
        <5>1. CASE SplitK
          BY <5>1
        <5>2. CASE ~SplitK
          BY <5>2, <2>2
        <5> QED BY <5>1, <5>2
      <4> QED BY <4>1, <4>2
    <3>5. DivisionFinds
      BY <1>1, <1>3, <3>2, <3>3, <3>4, OwnGroups DEF DivisionFinds
    <3> QED BY <3>1, <3>5
  <2>6. CASE AllGroups
    <3>1. layer.method = "ct_moe" /\ load_full_w2 /\ SplitK
      BY <1>3, <2>1, <2>6 DEF AllGroups, marlin_repeat_scales_on_all_ranks, load_full_w2,
         has_g_idx, IsAwq, SplitK, MoeMethods, LinearMethods
    <3>2. OrderWithoutIdx <=> layer.tp # 1
      BY <2>4, <3>1 DEF OrderWithoutIdx
    <3>3. GroupRows = [g \in 0 .. (layer.tp * d)-1 |-> g] /\ RowCount = layer.tp * d
      BY <1>1, <1>3, <2>3, <2>6, <3>1, GroupCounts DEF GroupRows
    <3>4. CASE layer.tp = 1
      <4>1. layer.rank = 0 /\ layer.tp * d = d
        BY <2>1, <2>2, <3>4
      <4>2. GroupRows = [g \in 0 .. d-1 |-> 0 + g]
        BY <3>3, <4>1
      <4>3. 0 = r * d
        BY <2>2, <4>1
      <4>4. DivisionFinds
        BY <1>1, <1>3, <3>3, <4>1, <4>2, <4>3, OwnGroups DEF DivisionFinds
      <4> QED BY <3>2, <3>4, <4>4
    <3>5. CASE layer.tp # 1
      <4> SUFFICES ASSUME DivisionFinds PROVE FALSE
        BY <3>2, <3>5
      <4> DEFINE e == size_k \div RowCount
      <4>1. RowCount \in Nat \ {0} /\ size_k % RowCount = 0
        <5>1. \A x, y \in Nat \ {0} : x * y \in Nat \ {0}
          BY SMT
        <5> QED BY <2>1, <2>2, <3>3, <5>1 DEF DivisionFinds
      <4>2. size_k \in Nat \ {0} /\ e \in Nat /\ size_k = RowCount * e
        <5>1. size_k \in Nat \ {0}
          BY <1>1, Sizes
        <5>2. e \in Nat /\ size_k = RowCount * e + (size_k % RowCount)
          BY <4>1, <5>1, Quotient
        <5> HIDE DEF e
        <5> QED BY <4>1, <5>1, <5>2
      <4>3. \A k \in 0 .. size_k-1 : k \div e \in DOMAIN GroupRows
                                     /\ GroupRows[k \div e] = GroupOf(SourceRow(k))
        BY DEF DivisionFinds
      <4> HIDE DEF e
      <4>4. e # 0
        BY <4>1, <4>2
      <4>5. \A k \in 0 .. size_k-1 : k \div e = GroupOf(SourceRow(k))
        BY <3>3, <4>3
      <4>6. ASSUME NEW k \in 0 .. size_k-1
            PROVE  /\ k \div layer.gs \in Nat
                   /\ GroupOf(SourceRow(k)) = layer.rank * d + (k \div layer.gs)
        <5> HIDE DEF d
        <5>1. k \in 0 .. (layer.gs * d)-1
          BY <2>2
        <5>2. /\ k \div layer.gs \in 0 .. d-1
              /\ (layer.rank * (layer.gs * d) + k) \div layer.gs
                   = layer.rank * d + (k \div layer.gs)
          BY <2>1, <2>2, <5>1, Regrouped
        <5>3. SourceRow(k) = layer.rank * (layer.gs * d) + k
          BY <2>2, <3>1 DEF SourceRow
        <5>4. GroupOf(SourceRow(k)) = SourceRow(k) \div layer.gs
          BY <1>3 DEF GroupOf
        <5> QED BY <5>2, <5>3, <5>4
      <4>7. layer.gs = layer.tp * e
        <5>1. layer.gs * d = (layer.tp * d) * e
          BY <2>2, <3>3, <4>2
        <5> HIDE DEF d
        <5>2. layer.gs * d = (layer.tp * e) * d
          BY <2>1, <2>2, <4>2, <5>1
        <5>3. layer.tp * e \in Nat
          BY <2>1, <4>2
        <5> QED BY <2>1, <2>2, <5>2, <5>3, Cancelled
      <4>8. e < layer.gs /\ e < size_k
        <5>1. e * 2 <= e * layer.tp
          BY <2>1, <3>5, <4>2, TimesMonotone
        <5>2. e * layer.tp = layer.tp * e
          BY <2>1, <4>2
        <5>3. layer.gs * 1 <= layer.gs * d
          BY <2>1, <2>2, TimesMonotone
        <5> HIDE DEF d
        <5> QED BY <2>1, <2>2, <4>2, <4>4, <4>7, <5>1, <5>2, <5>3
      <4>9. CASE layer.rank = 0
        <5>1. e \in 0 .. size_k-1
          BY <4>2, <4>8
        <5>2. e \div e = 1 /\ e \div layer.gs = 0
          <6>1. (1 * e) \div e = 1
            BY <4>2, <4>4, EqualShares
          <6>2. e \in 0 .. layer.gs-1
            BY <2>1, <4>2, <4>8
          <6>3. (0 * layer.gs + e) \div layer.gs = 0
            BY <2>1, <6>2, QuotientIs
          <6> QED BY <2>1, <4>2, <6>1, <6>3
        <5>3. layer.rank * d = 0
          BY <2>2, <4>9
        <5> QED BY <4>5, <4>6, <5>1, <5>2, <5>3
      <4>10. CASE layer.rank # 0
        <5>1. 0 \in 0 .. size_k-1
          BY <4>2
        <5>2. 0 \div e = 0 /\ 0 \div layer.gs = 0
          BY <2>1, <4>2, <4>4
        <5>3. d * 1 <= d * layer.rank /\ d * layer.rank = layer.rank * d
          BY <2>1, <2>2, <4>10, TimesMonotone
        <5>4. GroupOf(SourceRow(0)) = 0
          BY <4>5, <5>1, <5>2
        <5>5. GroupOf(SourceRow(0)) = layer.rank * d + 0
          BY <4>6, <5>1, <5>2
        <5> HIDE DEF d
        <5>6. layer.rank * d \in Nat
          BY <2>1, <2>2
        <5> QED BY <2>2, <5>3, <5>4, <5>5, <5>6
      <4> QED BY <4>9, <4>10
    <3> QED BY <3>4, <3>5
  <2> QED BY <2>5, <2>6
<1> QED BY <1>2, <1>3

LEMMA SourceRowsNat ==
  ASSUME layer \in Layers, Supported, NEW k \in 0 .. size_k-1
  PROVE  SourceRow(k) \in Nat
<1>1. size_k \in Nat /\ layer.rank \in Nat
  BY Sizes, LayerIs
<1> QED BY <1>1 DEF SourceRow

LEMMA SortOfRows ==
  ASSUME layer \in Layers, Supported, has_g_idx
  PROVE  /\ \A k \in 0 .. size_k-1 : LoadedIdx[k] = GroupOf(SourceRow(k))
         /\ \A i \in 0 .. size_k-1 : Sort[i] \in 0 .. size_k-1
         /\ \A k \in 0 .. size_k-1 : \E i \in 0 .. size_k-1 : Sort[i] = k
         /\ Sort # None /\ SortedIdx # None
<1>1. size_k \in Nat \ {0}
  BY Sizes
<1>2. \A k \in 0 .. size_k-1 : LoadedIdx[k] = GroupOf(SourceRow(k))
  <2>1. LoadedIdx = [k \in 0 .. size_k-1 |-> GroupOf(SourceRow(k))]
    BY DEF LoadedIdx
  <2> QED BY <2>1
<1>3. \A k \in 0 .. size_k-1 : GroupOf(SourceRow(k)) \in Int
  <2> SUFFICES ASSUME NEW k \in 0 .. size_k-1 PROVE GroupOf(SourceRow(k)) \in Int
    OBVIOUS
  <2>1. GroupOf(SourceRow(k)) \in DOMAIN GroupRows
    BY SourceRowsNat, GroupsAsGiven
  <2>2. DOMAIN GroupRows \subseteq Int
    BY DEF GroupRows
  <2> QED BY <2>1, <2>2
<1>4. \A k \in 0 .. size_k-1 : LoadedIdx[k] \in Int
  BY <1>2, <1>3
<1>5. /\ \A i \in 0 .. size_k-1 : Sort[i] \in 0 .. size_k-1
      /\ \A k \in 0 .. size_k-1 : \E i \in 0 .. size_k-1 : Sort[i] = k
  BY <1>1, <1>4, SortPlacesAll DEF Sort
<1>6. DOMAIN Sort = 0 .. size_k-1 /\ DOMAIN SortedIdx = 0 .. size_k-1 /\ DOMAIN None = {}
  BY DEF Sort, SortIndices, SortedIdx, None
<1>7. 0 \in 0 .. size_k-1
  BY <1>1
<1>8. Sort # None /\ SortedIdx # None
  BY <1>6, <1>7
<1> QED BY <1>2, <1>5, <1>8

LEMMA Tensors ==
  ASSUME WeightsInv, Called, NEW t \in {s} \cup (IF given.zeros THEN {z} ELSE {})
  PROVE  t.groups = GroupRows /\ GroupsIn(t) = RowCount
<1>1. t.groups = GroupRows
  BY AtCall
<1> QED BY <1>1 DEF GroupsIn, RowCount

\* A rank's rows reach the product once each, in the order of its inputs, with
\* the scale and zero point of the group they have in the checkpoint, sorted by
\* g_idx or divided equally, for exactly the layers that are not of the kind
\* GroupsMatch names.
THEOREM GroupsMatchHolds == WeightsSpec => []GroupsMatch
<1>1. WeightsInv => GroupsMatch
  <2> SUFFICES ASSUME WeightsInv, Called
               PROVE  RowsMeetGroups <=> ~OrderWithoutIdx
    BY DEF GroupsMatch
  <2> DEFINE S == 0 .. size_k-1
             T == {s} \cup (IF given.zeros THEN {z} ELSE {})
  <2>1. layer \in Layers /\ Supported
    BY AtCall
  <2>2. \A t \in T : t.groups = GroupRows /\ GroupsIn(t) = RowCount
    BY Tensors
  <2>3. CASE has_g_idx
    <3>1. order.idx = SortedIdx /\ order.sort = Sort /\ w.rows = SortedRows
      BY <2>3, AtCall
    <3>2. /\ \A k \in S : LoadedIdx[k] = GroupOf(SourceRow(k))
          /\ \A i \in S : Sort[i] \in S
          /\ \A k \in S : \E i \in S : Sort[i] = k
          /\ Sort # None /\ SortedIdx # None
      BY <2>1, <2>3, SortOfRows
    <3>3. \A k \in S : w.rows[k] = SourceRow(Sort[k])
      BY <3>1, <3>2 DEF SortedRows, PlainRows
    <3>4. {w.rows[k] : k \in S} = {SourceRow(k) : k \in S}
      <4>1. ASSUME NEW k \in S PROVE w.rows[k] \in {SourceRow(j) : j \in S}
        BY <3>2, <3>3
      <4>2. ASSUME NEW k \in S PROVE SourceRow(k) \in {w.rows[j] : j \in S}
        <5>1. PICK i \in S : Sort[i] = k
          BY <3>2
        <5> QED BY <3>3, <5>1
      <4> QED BY <4>1, <4>2
    <3>5. \A k \in S : w.rows[k] = SourceRow(IF order.sort # None THEN order.sort[k] ELSE k)
      BY <3>1, <3>2, <3>3
    <3>6. ASSUME NEW t \in T, NEW k \in S
          PROVE  GroupRead(t, k) \in DOMAIN t.groups /\ t.groups[GroupRead(t, k)] = GroupOf(w.rows[k])
      <4>1. GroupRead(t, k) = SortedIdx[k]
        BY <3>1, <3>2 DEF GroupRead
      <4>2. SortedIdx[k] = GroupOf(SourceRow(Sort[k]))
        BY <3>2 DEF SortedIdx
      <4>3. Sort[k] \in S /\ SourceRow(Sort[k]) \in Nat
        BY <2>1, <3>2, SourceRowsNat
      <4>4. GroupOf(SourceRow(Sort[k])) \in DOMAIN GroupRows
            /\ GroupRows[GroupOf(SourceRow(Sort[k]))] = GroupOf(SourceRow(Sort[k]))
        BY <2>1, <2>3, <4>3, GroupsAsGiven
      <4> QED BY <2>2, <3>3, <4>1, <4>2, <4>4
    <3>7. order.idx # None
      BY <3>1, <3>2
    <3>8. is_k_full => ~row_parallel
      BY <2>1, <2>3, LayerIs DEF is_k_full, row_parallel, size_k, FullK, SplitK, InterPP,
         has_g_idx, IsAwq, IsMoe, MoeMethods, LinearMethods
    <3>9. ~OrderWithoutIdx
      BY <2>3 DEF OrderWithoutIdx
    <3> QED BY <3>4, <3>5, <3>6, <3>7, <3>8, <3>9 DEF RowsMeetGroups
  <2>4. CASE ~has_g_idx
    <3>1. order.idx = None /\ order.sort = None /\ w.rows = PlainRows
      BY <2>4, AtCall
    <3>2. \A k \in S : w.rows[k] = SourceRow(k)
      BY <3>1 DEF PlainRows
    <3>3. {w.rows[k] : k \in S} = {SourceRow(k) : k \in S}
      BY <3>2
    <3>4. \A k \in S : w.rows[k] = SourceRow(IF order.sort # None THEN order.sort[k] ELSE k)
      BY <3>1, <3>2
    <3>5. \A t \in T, k \in S : GroupRead(t, k) = k \div (size_k \div RowCount)
      BY <2>2, <3>1 DEF GroupRead
    <3>6. (\A t \in T : /\ order.idx = None => size_k % GroupsIn(t) = 0
                        /\ \A k \in S : GroupRead(t, k) \in DOMAIN t.groups
                                        /\ t.groups[GroupRead(t, k)] = GroupOf(w.rows[k]))
             <=> DivisionFinds
      <4>1. ASSUME NEW t \in T
            PROVE  (/\ order.idx = None => size_k % GroupsIn(t) = 0
                    /\ \A k \in S : GroupRead(t, k) \in DOMAIN t.groups
                                    /\ t.groups[GroupRead(t, k)] = GroupOf(w.rows[k]))
                     <=> DivisionFinds
        BY <2>2, <3>1, <3>2, <3>5 DEF DivisionFinds
      <4>2. s \in T
        OBVIOUS
      <4> QED BY <4>1, <4>2
    <3>7. DivisionFinds <=> ~OrderWithoutIdx
      BY <2>4, EqualDivision
    <3> QED BY <3>1, <3>3, <3>4, <3>6, <3>7 DEF RowsMeetGroups
  <2> QED BY <2>3, <2>4
<1> QED BY <1>1, WeightsInvHolds, PTL
=============================================================================
