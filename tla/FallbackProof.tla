---------------------------- MODULE FallbackProof ----------------------------
(***************************************************************************)
(* The kernels of FallbackKernels, for every shape and tile size: their    *)
(* programs store to disjoint cells, look inside the block tables, cover   *)
(* the result and compute what DeepGEMM promises.                          *)
(***************************************************************************)
EXTENDS FallbackKernels, FiniteSetTheorems, WellFoundedInduction, TLAPS

(* Arithmetic *)

LEMMA TimesMonotone ==
  \A a, b, d \in Nat : a <= b => a * d <= b * d
BY SMT

\* A number lies in one tile only.
LEMMA TilesApart ==
  ASSUME NEW p \in Nat, NEW q \in Nat, NEW size \in Nat \ {0},
         NEW x \in Tile(p, size), x \in Tile(q, size)
  PROVE  p = q
<1>1. p * size \in Nat /\ q * size \in Nat
  BY SMT
<1>2. x \in Int /\ p * size <= x /\ x < p * size + size /\ q * size <= x /\ x < q * size + size
  BY <1>1 DEF Tile
<1>3. ASSUME p < q PROVE FALSE
  <2>1. (p + 1) * size <= q * size
    BY <1>3, TimesMonotone
  <2>2. (p + 1) * size = p * size + size
    BY SMT
  <2> QED BY <1>1, <1>2, <2>1, <2>2
<1>4. ASSUME q < p PROVE FALSE
  <2>1. (q + 1) * size <= p * size
    BY <1>4, TimesMonotone
  <2>2. (q + 1) * size = q * size + size
    BY SMT
  <2> QED BY <1>1, <1>2, <2>1, <2>2
<1> QED BY <1>3, <1>4

LEMMA GridIsNat ==
  ASSUME NEW n, NEW size
  PROVE  Grid(n, size) \subseteq Nat
BY DEF Grid

\* A position below the end lies in one of the pages up to the end.
LEMMA PageInside ==
  ASSUME NEW end \in Nat, NEW size \in Nat \ {0}, NEW x \in Nat, x < end
  PROVE  x \div size \in 0 .. Cdiv(end, size) - 1
<1> DEFINE a == x \div size
<1> DEFINE b == (end + size - 1) \div size
<1>1. a \in Nat /\ size * a <= x
  BY Z3
<1>2. b \in Nat /\ end + size - 1 < size * b + size
  BY Z3
<1>3. size * a \in Nat /\ size * b \in Nat
  BY <1>1, <1>2
<1>4. a < b
  <2>1. SUFFICES ASSUME b <= a PROVE FALSE
    BY <1>1, <1>2
  <2>2. b * size <= a * size
    BY <1>1, <1>2, <2>1, TimesMonotone
  <2>3. b * size = size * b /\ a * size = size * a
    BY <1>1, <1>2
  <2> QED BY <1>1, <1>2, <1>3, <2>2, <2>3
<1> QED BY <1>1, <1>2, <1>4 DEF Cdiv

\* A set of naturals has a least member, and a bounded one a greatest.
LEMMA LeastOf ==
  ASSUME NEW S \in SUBSET Nat, S # {}
  PROVE  \E x \in S : \A y \in S : x <= y
<1> DEFINE R == {p \in Nat \X Nat : p[1] < p[2]}
<1>1. R \cap (Nat \X Nat) \subseteq OpToRel(<, Nat)
  BY DEF OpToRel
<1>2. IsWellFoundedOn(R, Nat)
  BY <1>1, NatLessThanWellFounded, IsWellFoundedOnSubrelation
<1>3. \E x \in S : \A y \in S : ~ (<<y, x>> \in R)
  <2> HIDE DEF R
  <2> QED BY <1>2, WFMin
<1>4. ASSUME NEW x \in S, NEW y \in S, <<y, x>> \notin R
      PROVE  x <= y
  <2>1. x \in Nat /\ y \in Nat /\ <<y, x>> \in Nat \X Nat
    OBVIOUS
  <2>2. ~(y < x)
    BY <1>4, <2>1
  <2> QED BY <2>1, <2>2
<1> HIDE DEF R
<1> QED BY <1>3, <1>4

LEMMA GreatestOf ==
  ASSUME NEW S \in SUBSET Nat, S # {}, NEW n \in Nat, \A s \in S : s < n
  PROVE  \E x \in S : \A y \in S : x >= y
<1> DEFINE T == {n - s : s \in S}
<1>1. T \in SUBSET Nat /\ T # {}
  <2>1. ASSUME NEW s \in S PROVE n - s \in Nat
    OBVIOUS
  <2>2. PICK s \in S : TRUE
    OBVIOUS
  <2> QED BY <2>1, <2>2
<1>2. PICK d \in T : \A e \in T : d <= e
  <2> HIDE DEF T
  <2> QED BY <1>1, LeastOf
<1>3. PICK x \in S : d = n - x
  OBVIOUS
<1>4. ASSUME NEW y \in S PROVE x >= y
  <2>1. n - x <= n - y
    BY <1>2, <1>3
  <2> QED BY <2>1
<1> QED BY <1>4
-----------------------------------------------------------------------------
(* Calls *)

PagedType ==
  /\ call.batch \in Nat \ {0} /\ call.nextN \in Nat \ {0}
  /\ call.start \in Nat /\ call.count \in Nat
  /\ call.start + call.count <= MaxModelLen
  /\ ~call.triton \/ call.scaledQ => call.start = 0 /\ call.count = MaxModelLen
  /\ DOMAIN call.lens = 0 .. call.batch-1
  /\ \A b \in 0 .. call.batch-1 :
       /\ DOMAIN call.lens[b] = {0} \/ DOMAIN call.lens[b] = 0 .. call.nextN-1
       /\ \A q \in DOMAIN call.lens[b] : call.lens[b][q] \in 0 .. MaxModelLen

DenseType == call.rows \in Nat /\ call.keys \in Nat /\ call.bytes \in Nat

PrenormType ==
  /\ call.rows \in Nat /\ call.k \in Nat
  /\ call.n \in Nat \ {0} /\ call.splits \in Nat \ {0}
  /\ call.split \/ call.splits = 1

CallType ==
  /\ call.op \in {"paged", "dense", "prenorm"}
  /\ call.op = "paged" => PagedType
  /\ call.op = "dense" => DenseType
  /\ call.op = "prenorm" => PrenormType
  /\ call.op # "prenorm" => call.heads \in Nat \ {0}

LEMMA InitCallType == Init => CallType
<1>1. ASSUME PagedInit PROVE CallType
  <2>1. PICK s \in Shapes, h \in HeadCounts, d \in HeadDims, t \in BOOLEAN, q \in BOOLEAN, z \in {0, 1} :
          \E given \in {0 .. 0, 0 .. s[2]-1}, w \in Windows(t, q) :
            \E l \in [0 .. s[1]-1 -> [given -> 0 .. MaxModelLen]] :
              call = [op |-> "paged", batch |-> s[1], nextN |-> s[2], heads |-> h, dim |-> d,
                      lens |-> l, stale |-> z, triton |-> t, scaledQ |-> q,
                      start |-> w[1], count |-> w[2]]
    BY <1>1 DEF PagedInit
  <2>0. PICK given \in {0 .. 0, 0 .. s[2]-1} :
          \E w \in Windows(t, q), l \in [0 .. s[1]-1 -> [given -> 0 .. MaxModelLen]] :
            call = [op |-> "paged", batch |-> s[1], nextN |-> s[2], heads |-> h, dim |-> d,
                    lens |-> l, stale |-> z, triton |-> t, scaledQ |-> q,
                    start |-> w[1], count |-> w[2]]
    BY <2>1
  <2>2. PICK w \in Windows(t, q), l \in [0 .. s[1]-1 -> [given -> 0 .. MaxModelLen]] :
          /\ call.op = "paged" /\ call.batch = s[1] /\ call.nextN = s[2]
          /\ call.start = w[1] /\ call.count = w[2] /\ call.heads = h
          /\ call.lens = l /\ call.triton = t /\ call.scaledQ = q
    BY <2>0
  <2>3. s[1] \in Nat \ {0} /\ s[2] \in Nat \ {0} /\ MaxModelLen \in Nat /\ h \in Nat \ {0}
    BY KernelConstants
  <2>4. /\ w[1] \in Nat /\ w[2] \in Nat /\ w[1] + w[2] <= MaxModelLen
        /\ ~t \/ q => w[1] = 0 /\ w[2] = MaxModelLen
    BY <2>3 DEF Windows
  <2>5. ASSUME NEW b \in 0 .. s[1]-1
        PROVE  /\ DOMAIN l[b] = {0} \/ DOMAIN l[b] = 0 .. s[2]-1
               /\ \A i \in DOMAIN l[b] : l[b][i] \in 0 .. MaxModelLen
    <3>1. l[b] \in [given -> 0 .. MaxModelLen]
      OBVIOUS
    <3>2. 0 .. 0 = {0}
      OBVIOUS
    <3> QED BY <3>1, <3>2
  <2>6. PagedType
    BY <2>2, <2>3, <2>4, <2>5 DEF PagedType
  <2> QED BY <2>2, <2>3, <2>6 DEF CallType
<1>2. ASSUME DenseInit PROVE CallType
  <2>1. PICK r \in QueryCounts, k \in KeyCounts, h \in HeadCounts, b \in Bytes :
          /\ call.op = "dense" /\ call.rows = r /\ call.keys = k
          /\ call.heads = h /\ call.bytes = b
    BY <1>2 DEF DenseInit
  <2> QED BY <2>1, KernelConstants DEF CallType, DenseType
<1>3. ASSUME PrenormInit PROVE CallType
  <2>1. PICK g \in GemmSizes, d \in BOOLEAN :
          call = [op |-> "prenorm", rows |-> g[1], k |-> g[2], n |-> g[3],
                  splits |-> IF d THEN g[4] ELSE 1, split |-> d]
    BY <1>3 DEF PrenormInit
  <2>2. /\ call.op = "prenorm" /\ call.rows = g[1] /\ call.k = g[2] /\ call.n = g[3]
        /\ call.splits = (IF d THEN g[4] ELSE 1) /\ call.split = d
    BY <2>1
  <2>3. g[1] \in Nat /\ g[2] \in Nat /\ g[3] \in Nat \ {0} /\ g[4] \in Nat \ {0}
    BY KernelConstants
  <2> QED BY <2>2, <2>3 DEF CallType, PrenormType
<1> QED BY <1>1, <1>2, <1>3 DEF Init

RowCount == IF call.op = "paged" THEN call.batch * call.nextN ELSE call.rows

LEMMA RowsAre ==
  ASSUME CallType
  PROVE  RowCount \in Nat /\ Rows = 0 .. RowCount - 1 /\ Cardinality(Rows) = RowCount
<1>1. RowCount \in Nat
  <2>1. CASE call.op = "paged"
    <3>1. call.batch \in Nat /\ call.nextN \in Nat
      BY <2>1 DEF CallType, PagedType
    <3>2. call.batch * call.nextN \in Nat
      BY <3>1
    <3> QED BY <2>1, <3>2 DEF RowCount
  <2>2. CASE call.op # "paged"
    BY <2>2 DEF RowCount, CallType, DenseType, PrenormType
  <2> QED BY <2>1, <2>2
<1>2. Rows = 0 .. RowCount - 1
  BY DEF Rows, RowCount
<1>3. Cardinality(0 .. RowCount - 1) = RowCount
  <2>1. Cardinality(0 .. RowCount - 1) = IF 0 > RowCount - 1 THEN 0 ELSE RowCount - 1 - 0 + 1
    BY <1>1, FS_Interval
  <2> QED BY <1>1, <2>1
<1> QED BY <1>1, <1>2, <1>3

\* The tile that is chosen is one of those there are.
LEMMA RowTileChosen ==
  ASSUME CallType
  PROVE  RowTile \in RowTiles
<1> DEFINE n == Cardinality(Rows)
<1> DEFINE S == {t \in RowTiles : n <= t}
<1>1. n \in Nat
  BY RowsAre
<1>2. RowTiles \in SUBSET Nat /\ RowTiles # {}
  BY KernelConstants
<1> HIDE DEF n
<1>3. CASE S # {}
  <2>1. \E x \in S : \A y \in S : x <= y
    BY <1>2, <1>3, LeastOf
  <2>2. Min(S) \in S
    BY <2>1 DEF Min
  <2>3. RowTile = Min(S)
    BY <1>3 DEF RowTile, n
  <2> QED BY <2>2, <2>3
<1>4. CASE S = {}
  <2>1. \A t \in RowTiles : t < n
    BY <1>1, <1>2, <1>4
  <2>2. \E x \in RowTiles : \A y \in RowTiles : x >= y
    BY <1>1, <1>2, <2>1, GreatestOf
  <2>3. Max(RowTiles) \in RowTiles
    BY <2>2 DEF Max
  <2>4. RowTile = Max(RowTiles)
    BY <1>4 DEF RowTile, n
  <2> QED BY <2>3, <2>4
<1> QED BY <1>3, <1>4
-----------------------------------------------------------------------------
(* The invariant *)

GridInv == /\ CallType
           /\ way \in {"none", Way}
           /\ todo \subseteq IF phase = "calling" \/ way = "none" THEN {} ELSE Programs
           /\ phase = "calling" => way = "none"

\* What is to be run depends on the arguments alone.
LEMMA SameCall ==
  ASSUME call' = call
  PROVE  CallType' = CallType /\ Way' = Way /\ Programs' = Programs
<1>1. CallType' = CallType
  BY DEF CallType, PagedType, DenseType, PrenormType
<1>2. Way' = Way
  BY DEF Way
<1>3. Programs' = Programs
  <2>1. Rows' = Rows
    BY DEF Rows
  <2>2. RowTile' = RowTile
    BY <2>1 DEF RowTile
  <2>3. HeadChunk' = HeadChunk /\ PageChunk' = PageChunk
    BY DEF HeadChunk, PageChunk
  <2>4. ASSUME NEW h0 PROVE KeyChunk(h0)' = KeyChunk(h0)
    BY <2>3 DEF KeyChunk, HeadsFrom
  <2>5. ASSUME NEW r PROVE ContextLen(r)' = ContextLen(r)
    BY DEF ContextLen, BatchOf, QPos
  <2> QED BY <1>2, <2>1, <2>2, <2>3, <2>4, <2>5 DEF Programs
<1> QED BY <1>1, <1>2, <1>3

LEMMA InitGridInv == Init => GridInv
BY InitCallType DEF Init, GridInv

LEMMA NextGridInv == GridInv /\ [Next]_vars => GridInv'
<1> SUFFICES ASSUME GridInv, [Next]_vars PROVE GridInv'
  OBVIOUS
<1>1. CASE Launch
  <2>1. call' = call /\ way' = Way /\ phase = "calling"
    BY <1>1 DEF Launch
  <2>2. CASE Refused
    BY <1>1, <2>1, <2>2, SameCall DEF Launch, GridInv
  <2>3. CASE ~Refused
    <3>1. phase' = "running" /\ todo' = Programs
      BY <1>1, <2>3 DEF Launch
    <3>2. Way # "none"
      BY DEF Way, GridInv, CallType
    <3> QED BY <2>1, <3>1, <3>2, SameCall DEF GridInv
  <2> QED BY <2>2, <2>3
<1>2. ASSUME NEW p \in todo, Program(p) PROVE GridInv'
  <2>1. UNCHANGED <<call, way, phase>> /\ todo' \subseteq todo
    BY <1>2 DEF Program
  <2> QED BY <2>1, SameCall DEF GridInv
<1>3. CASE Finish
  <2>1. UNCHANGED <<call, way, todo>> /\ phase = "running" /\ phase' = "returned"
    BY <1>3 DEF Finish
  <2> QED BY <2>1, SameCall DEF GridInv
<1>4. CASE UNCHANGED vars
  BY <1>4, SameCall DEF vars, GridInv
<1> QED BY <1>1, <1>2, <1>3, <1>4 DEF Next

\* A program that is still to be run is of the grid of the chosen kernel.
LEMMA InGrid ==
  ASSUME GridInv, NEW p \in todo
  PROVE  /\ way = Way /\ p \in Programs /\ way # "none"
         /\ way \in {"tiles", "rowwise"} => call.op = "paged"
<1>1. way = Way /\ p \in Programs /\ way # "none"
  BY DEF GridInv
<1>2. way \in {"tiles", "rowwise"} => call.op = "paged"
  BY <1>1 DEF Way, GridInv, CallType
<1> QED BY <1>1, <1>2
-----------------------------------------------------------------------------
(* Stores *)

\* A cell is stored to by one program of a grid.
LEMMA OneStore ==
  ASSUME GridInv, way \notin Loops, NEW p \in todo, NEW o \in todo,
         NEW c \in Stores(p), c \in Stores(o)
  PROVE  p = o
<1>1. way = Way /\ p \in Programs /\ o \in Programs
  BY InGrid
<1>2. CASE way = "tiles"
  <2>1. RowTile \in Nat \ {0} /\ ColTile \in Nat \ {0}
    BY RowTileChosen, KernelConstants DEF GridInv
  <2>2. p \in Nat \X Nat /\ o \in Nat \X Nat
    BY <1>1, <1>2, GridIsNat DEF Programs
  <2>3. /\ c[1] \in Tile(p[1], RowTile) /\ c[1] \in Tile(o[1], RowTile)
        /\ c[2] \in Tile(p[2], ColTile) /\ c[2] \in Tile(o[2], ColTile)
    BY <1>2 DEF Stores
  <2>4. p[1] = o[1] /\ p[2] = o[2]
    BY <2>1, <2>2, <2>3, TilesApart
  <2> QED BY <2>2, <2>4
<1>3. CASE way = "rowwise"
  <2>1. p \in Rows \X Nat /\ o \in Rows \X Nat
    BY <1>1, <1>3, GridIsNat DEF Programs
  <2>2. /\ c[1] = p[1] /\ c[1] = o[1]
        /\ c[2] \in Tile(p[2], WideColTile) /\ c[2] \in Tile(o[2], WideColTile)
    BY <1>3 DEF Stores
  <2>3. p[2] = o[2]
    BY <2>1, <2>2, KernelConstants, TilesApart
  <2>4. p = <<p[1], p[2]>> /\ o = <<o[1], o[2]>>
    BY <2>1
  <2> QED BY <2>2, <2>3, <2>4
<1>4. CASE way = "dense"
  <2>1. p \in Nat \X Nat /\ o \in Nat \X Nat
    BY <1>1, <1>4, GridIsNat DEF Programs
  <2>2. /\ c[1] \in Tile(p[1], DenseRowTile) /\ c[1] \in Tile(o[1], DenseRowTile)
        /\ c[2] \in Tile(p[2], ColTile) /\ c[2] \in Tile(o[2], ColTile)
    BY <1>4 DEF Stores
  <2>3. p[1] = o[1] /\ p[2] = o[2]
    BY <2>1, <2>2, KernelConstants, TilesApart
  <2> QED BY <2>1, <2>3
<1>5. CASE way = "splits"
  <2>1. p \in Nat \X Nat \X Nat /\ o \in Nat \X Nat \X Nat
    BY <1>1, <1>5, GridIsNat DEF Programs
  <2>2. ASSUME NEW q, c \in Stores(q)
        PROVE  /\ c[2] = q[3] /\ c[3] \in Tile(q[1], GemmRowTile)
               /\ \/ c[1] = "out" /\ c[4] \in Tile(q[2], GemmColTile)
                  \/ c[1] = "sqrsum" /\ q[2] = 0
    BY <1>5, <2>2 DEF Stores, SquaresBy
  <2>3. p[3] = o[3] /\ p[1] = o[1]
    BY <2>1, <2>2, KernelConstants, TilesApart
  <2>4. p[2] = o[2]
    BY <2>1, <2>2, KernelConstants, TilesApart
  <2> QED BY <2>1, <2>3, <2>4
<1>6. CASE way = "whole"
  BY <1>1, <1>6 DEF Programs
<1>7. way \in {"tiles", "rowwise", "dense", "splits", "whole"}
  <2>1. call.op \in {"paged", "dense", "prenorm"}
    BY DEF GridInv, CallType
  <2>2. Way \in {"tiles", "rowwise", "dense", "splits", "whole"} \cup Loops
    BY <2>1 DEF Way, Loops
  <2> QED BY <1>1, <2>2
<1> QED BY <1>2, <1>3, <1>4, <1>5, <1>6, <1>7

\* Whatever the shapes, the tiles, the kernel that is chosen and the order in
\* which its programs run: no two of them store to the same cell, also not
\* the sums of squares that one column of programs stores for all.
THEOREM GridsAreDisjoint == Spec => []NoRaces
<1>1. Spec => []GridInv
  BY InitGridInv, NextGridInv, PTL DEF Spec
<1>2. GridInv => NoRaces
  BY OneStore DEF NoRaces
<1> QED BY <1>1, <1>2, PTL
-----------------------------------------------------------------------------
(* Reads *)

LEMMA RanksInside ==
  ASSUME GridInv, way \in {"tiles", "rowwise"}, NEW p \in todo
  PROVE  Ranks(p) \subseteq 0 .. TableWidth - 1
<1>1. /\ call.start \in Nat /\ call.count \in Nat
      /\ call.start + call.count <= MaxModelLen /\ call.op = "paged"
  BY InGrid DEF GridInv, CallType, PagedType
<1>2. ASSUME NEW c \in Cols
      PROVE  (call.start + c) \div BlockSize \in 0 .. TableWidth - 1
  <2>1. c \in Nat /\ call.start + c \in Nat /\ call.start + c < MaxModelLen
    BY <1>1, KernelConstants DEF Cols
  <2>2. MaxModelLen \in Nat /\ BlockSize \in Nat \ {0}
    BY KernelConstants
  <2> QED BY <2>1, <2>2, PageInside DEF TableWidth
<1> QED BY <1>2 DEF Ranks

\* Whatever the page size, the model length, the window and the tiles: no
\* program looks up a page beyond the end of a request's block table, though
\* the tiles reach past the window and the generic kernel past the context.
THEOREM TablesAreLongEnough == Spec => []TableReadsInside
<1>1. Spec => []GridInv
  BY InitGridInv, NextGridInv, PTL DEF Spec
<1>2. GridInv => TableReadsInside
  BY RanksInside DEF TableReadsInside
<1> QED BY <1>1, <1>2, PTL
-----------------------------------------------------------------------------
(* Tiles *)

LEMMA Divided ==
  ASSUME NEW x \in Nat, NEW d \in Nat \ {0}
  PROVE  /\ x \div d \in Nat /\ (x \div d) * d \in Nat
         /\ (x \div d) * d <= x /\ x < (x \div d) * d + d
         /\ (x % d) \in 0 .. d - 1 /\ x = (x \div d) * d + (x % d)
<1>1. x \div d \in Nat /\ d * (x \div d) <= x /\ x < d * (x \div d) + d
  BY Z3
<1>2. (x % d) \in 0 .. d - 1 /\ x = d * (x \div d) + (x % d)
  BY Z3
<1>3. (x \div d) * d = d * (x \div d) /\ (x \div d) * d \in Nat
  BY <1>1
<1> QED BY <1>1, <1>2, <1>3

\* Every number lies in a tile, and in no other.
LEMMA OwnTile ==
  ASSUME NEW x \in Nat, NEW size \in Nat \ {0}
  PROVE  /\ x \div size \in Nat /\ x \in Tile(x \div size, size)
         /\ \A p \in Nat : x \in Tile(p, size) => p = x \div size
<1>1. x \div size \in Nat /\ x \in Tile(x \div size, size)
  BY Divided DEF Tile
<1> QED BY <1>1, TilesApart

\* The tiles of a grid cover what it is made for.
LEMMA GridCovers ==
  ASSUME NEW n \in Nat, NEW size \in Nat \ {0}, NEW x \in 0 .. n-1
  PROVE  x \div size \in Grid(n, size) /\ x \in Tile(x \div size, size)
<1>1. x \in Nat /\ x < n
  OBVIOUS
<1> QED BY <1>1, PageInside, OwnTile DEF Grid

\* So do the steps of a loop, each number in the one that starts Start before it.
Start(x, step) == (x \div step) * step

LEMMA MultipleOf ==
  ASSUME NEW a \in Nat, NEW d \in Nat \ {0}
  PROVE  (a * d) % d = 0 /\ (a * d) \div d = a /\ a * d \in Nat
<1>1. a * d \in Nat
  BY SMT
<1> DEFINE q == (a * d) \div d
<1>2. q \in Nat /\ q * d <= a * d /\ a * d < q * d + d /\ (a * d) = q * d + ((a * d) % d)
      /\ q * d \in Nat /\ (a * d) % d \in 0 .. d-1
  BY <1>1, Divided
<1> HIDE DEF q
<1>3. ~(q < a)
  <2>1. SUFFICES ASSUME q + 1 <= a PROVE FALSE
    BY <1>2
  <2>2. (q + 1) * d <= a * d
    BY <1>2, <2>1, TimesMonotone
  <2>3. (q + 1) * d = q * d + d
    BY <1>2
  <2> QED BY <1>1, <1>2, <2>2, <2>3
<1>4. ~(a < q)
  <2>1. SUFFICES ASSUME a + 1 <= q PROVE FALSE
    BY <1>2
  <2>2. (a + 1) * d <= q * d
    BY <1>2, <2>1, TimesMonotone
  <2>3. (a + 1) * d = a * d + d
    OBVIOUS
  <2> QED BY <1>1, <1>2, <2>2, <2>3
<1>5. q = a
  BY <1>2, <1>3, <1>4
<1> QED BY <1>1, <1>2, <1>5 DEF q

LEMMA OwnStart ==
  ASSUME NEW n \in Nat, NEW step \in Nat \ {0}, NEW x \in 0 .. n-1
  PROVE  /\ Start(x, step) \in Starts(n, step) /\ Start(x, step) \in Nat
         /\ x - Start(x, step) \in 0 .. step-1
         /\ x \in Start(x, step) .. Start(x, step) + step - 1
         /\ \A s \in Starts(n, step) : x - s \in 0 .. step-1 => s = Start(x, step)
         /\ \A s \in Starts(n, step) : x \in s .. s + step - 1 => s = Start(x, step)
<1> DEFINE b == Start(x, step)
<1>1. x \div step \in Nat /\ b \in Nat /\ b <= x /\ x < b + step
  BY Divided DEF Start
<1>2. b % step = 0
  BY <1>1, MultipleOf DEF Start
<1>3. ASSUME NEW s \in Starts(n, step), s <= x, x < s + step
      PROVE  s = b
  <2>1. s \in Nat /\ s % step = 0
    BY DEF Starts
  <2>2. s \div step \in Nat /\ s = (s \div step) * step
    <3>1. s = (s \div step) * step + (s % step) /\ (s \div step) * step \in Nat
          /\ s \div step \in Nat
      BY <2>1, Divided
    <3> QED BY <2>1, <3>1
  <2>3. x \in Tile(s \div step, step) /\ x \in Nat
    BY <1>3, <2>1, <2>2 DEF Tile
  <2>4. s \div step = x \div step
    BY <2>2, <2>3, OwnTile
  <2> QED BY <2>2, <2>4 DEF Start
<1> HIDE DEF b
<1>4. b \in Starts(n, step)
  BY <1>1, <1>2 DEF Starts
<1>5. \A s \in Starts(n, step) : s \in Nat
  BY DEF Starts
<1>6. \A s \in Starts(n, step) : x - s \in 0 .. step-1 => s <= x /\ x < s + step
  BY <1>5
<1>7. \A s \in Starts(n, step) : x \in s .. s + step - 1 => s <= x /\ x < s + step
  BY <1>5
<1>8. x - b \in 0 .. step-1 /\ x \in b .. b + step - 1
  BY <1>1
<1> QED BY <1>1, <1>3, <1>4, <1>6, <1>7, <1>8 DEF b
-----------------------------------------------------------------------------
(* Pages *)

LEMMA ContextType ==
  ASSUME CallType, call.op = "paged", NEW r \in Rows
  PROVE  /\ BatchOf(r) \in 0 .. call.batch-1 /\ ContextLen(r) \in 0 .. MaxModelLen
         /\ Longest(BatchOf(r)) \in Nat /\ ContextLen(r) <= Longest(BatchOf(r))
<1> DEFINE b == r \div call.nextN
<1> DEFINE lens == call.lens[b]
<1>1. /\ call.batch \in Nat \ {0} /\ call.nextN \in Nat \ {0} /\ MaxModelLen \in Nat
      /\ r \in Nat /\ r < call.batch * call.nextN /\ call.batch * call.nextN \in Nat
  <2>1. call.batch \in Nat \ {0} /\ call.nextN \in Nat \ {0}
    BY DEF CallType, PagedType
  <2>2. call.batch * call.nextN \in Nat
    BY <2>1
  <2> QED BY <2>1, <2>2, KernelConstants DEF Rows
<1>2. b \in Nat /\ b * call.nextN \in Nat /\ b * call.nextN <= r /\ r < b * call.nextN + call.nextN
  BY <1>1, Divided
<1>3. b < call.batch
  <2> HIDE DEF b
  <2>1. SUFFICES ASSUME call.batch <= b PROVE FALSE
    BY <1>1, <1>2
  <2>2. call.batch * call.nextN <= b * call.nextN
    BY <1>1, <1>2, <2>1, TimesMonotone
  <2> QED BY <1>1, <1>2, <2>2
<1>4. BatchOf(r) = b /\ b \in 0 .. call.batch-1 /\ QPos(r) \in 0 .. call.nextN-1
  <2>1. BatchOf(r) = b
    BY DEF BatchOf
  <2>2. QPos(r) = r - b * call.nextN
    BY <2>1 DEF QPos
  <2> HIDE DEF b
  <2> QED BY <1>1, <1>2, <1>3, <2>1, <2>2
<1> HIDE DEF b
<1>5. /\ DOMAIN lens = {0} \/ DOMAIN lens = 0 .. call.nextN-1
      /\ \A q \in DOMAIN lens : lens[q] \in 0 .. MaxModelLen
  BY <1>4 DEF CallType, PagedType
<1>6. PICK q \in DOMAIN lens : ContextLen(r) = lens[q]
  <2>1. ContextLen(r) = IF DOMAIN lens = {0} THEN lens[0] ELSE lens[QPos(r)]
    BY <1>4 DEF ContextLen
  <2> QED BY <1>4, <1>5, <2>1
<1> DEFINE S == {lens[i] : i \in DOMAIN lens}
<1>7. S \in SUBSET Nat /\ \A s \in S : s < MaxModelLen + 1
  BY <1>1, <1>5
<1>8. lens[q] \in S
  OBVIOUS
<1>9. Longest(b) = Max(S)
  BY DEF Longest
<1> HIDE DEF S, lens
<1>10. \E x \in S : \A y \in S : x >= y
  <2>1. S # {} /\ MaxModelLen + 1 \in Nat
    BY <1>1, <1>8
  <2> QED BY <1>7, <2>1, GreatestOf
<1>11. Max(S) \in S /\ \A y \in S : Max(S) >= y
  BY <1>10 DEF Max
<1>12. lens[q] \in 0 .. MaxModelLen
  BY <1>5
<1> QED BY <1>4, <1>6, <1>7, <1>8, <1>9, <1>11, <1>12

\* A row finds its own tokens behind its block table.
LEMMA TokenFound ==
  ASSUME CallType, call.op = "paged", NEW r \in Rows, NEW pos \in Nat, pos < ContextLen(r)
  PROVE  TokenAt(r, pos) = <<BatchOf(r), pos>>
<1> DEFINE b == BatchOf(r)
<1> DEFINE rank == pos \div BlockSize
<1> DEFINE n == call.batch
<1>1. BlockSize \in Nat \ {0} /\ n \in Nat \ {0} /\ b \in 0 .. n-1
  BY ContextType, KernelConstants DEF CallType, PagedType
<1>2. rank \in Nat /\ rank * BlockSize \in Nat /\ rank * BlockSize <= pos
  BY <1>1, Divided
<1>3. rank * BlockSize < Longest(b)
  <2>1. ContextLen(r) \in Nat /\ ContextLen(r) <= Longest(b) /\ Longest(b) \in Nat
    BY ContextType
  <2> HIDE DEF rank, b
  <2> QED BY <1>2, <2>1
<1>4. BlockTable(b, rank) = 1 + rank * n + b
  BY <1>3 DEF BlockTable
<1>5. TokenAt(r, pos) = TokenIn(1 + rank * n + b, pos - rank * BlockSize)
  BY <1>4 DEF TokenAt
<1> HIDE DEF b, rank, n
<1> DEFINE m == rank * n + b
<1>6. rank * n \in Nat /\ m \in Nat
  BY <1>1, <1>2
<1>7. (m % n) = b /\ m \div n = rank
  <2>1. m \in Tile(rank, n)
    BY <1>1, <1>2, <1>6 DEF Tile
  <2>2. m \div n = rank
    BY <1>1, <1>2, <1>6, <2>1, OwnTile
  <2>3. m = (m \div n) * n + (m % n) /\ (m % n) \in Nat
    <3> HIDE DEF m
    <3>1. (m % n) \in 0 .. n - 1 /\ m = (m \div n) * n + (m % n)
      BY <1>1, <1>6, Divided
    <3> QED BY <1>1, <3>1
  <2>4. rank * n + b = rank * n + (m % n)
    BY <2>2, <2>3
  <2>5. b \in Nat
    BY <1>1
  <2> HIDE DEF m
  <2>6. (m % n) = b
    BY <1>6, <2>3, <2>4, <2>5
  <2> QED BY <2>2, <2>6
<1>8. 1 + rank * n + b # 0 /\ (1 + rank * n + b) - 1 = m
  BY <1>1, <1>6
<1>9. TokenAt(r, pos) = <<m % n, (m \div n) * BlockSize + (pos - rank * BlockSize)>>
  BY <1>5, <1>8 DEF TokenIn, n
<1>10. (m \div n) * BlockSize + (pos - rank * BlockSize) = pos
  <2>1. (m \div n) * BlockSize = rank * BlockSize
    BY <1>7
  <2> HIDE DEF m
  <2> QED BY <1>2, <2>1
<1> QED BY <1>7, <1>9, <1>10 DEF b
-----------------------------------------------------------------------------
(* What the programs compute *)

\* The share of split s: the products of its own part of k, each once.
Partial(s) == [k \in 0 .. call.k-1 |-> IF k \div SplitLen = s THEN 1 ELSE 0]

\* What is in a cell when the programs have run, before gathered keys are
\* masked: that is for Finish, and here the mask is applied already.
Final(c) == IF call.op = "prenorm" THEN Partial(c[2]) ELSE Expected(c)

LEMMA WayOf ==
  ASSUME CallType, way = Way
  PROVE  /\ call.op = "paged" <=> way \in {"tiles", "rowwise", "pagedTorch"}
         /\ call.op = "dense" <=> way \in {"dense", "denseTorch"}
         /\ call.op = "prenorm" <=> way \in {"splits", "whole"}
         /\ way = "pagedTorch" => call.start = 0 /\ call.count = MaxModelLen
         /\ way = "whole" => call.splits = 1
<1>1. call.op \in {"paged", "dense", "prenorm"}
  BY DEF CallType
<1>2. CASE call.op = "paged"
  <2>1. way \in {"tiles", "rowwise", "pagedTorch"}
        /\ (way = "pagedTorch" => ~call.triton \/ call.scaledQ)
    BY <1>2 DEF Way
  <2>2. PagedType
    BY <1>2 DEF CallType
  <2> QED BY <1>2, <2>1, <2>2 DEF PagedType
<1>3. CASE call.op = "dense"
  BY <1>3 DEF Way
<1>4. CASE call.op = "prenorm"
  <2>1. way = IF call.split THEN "splits" ELSE "whole"
    BY <1>4 DEF Way
  <2>2. call.split \/ call.splits = 1
    BY <1>4 DEF CallType, PrenormType
  <2> QED BY <1>4, <2>1, <2>2
<1> QED BY <1>1, <1>2, <1>3, <1>4

LEMMA CellsAre ==
  ASSUME CallType, NEW c \in Cells
  PROVE  /\ call.op # "prenorm" => c \in Rows \X Cols /\ c = <<c[1], c[2]>>
         /\ call.op = "prenorm" =>
              /\ c[2] \in 0 .. call.splits-1 /\ c[3] \in Rows
              /\ c[1] \in {"out", "sqrsum"}
BY DEF Cells

LEMMA ColsAre ==
  ASSUME CallType, call.op # "prenorm"
  PROVE  /\ call.op = "paged" => call.count \in Nat /\ Cols = 0 .. call.count-1
         /\ call.op = "dense" => call.keys \in Nat /\ Cols = 0 .. call.keys-1
         /\ Cols \subseteq Nat /\ Rows \subseteq Nat
BY RowsAre DEF Cols, CallType, PagedType, DenseType

\* A tile at a time, every head is added once.
LEMMA EachHeadOnce ==
  ASSUME CallType, call.op # "prenorm"
  PROVE  ByTiles = Once
<1>1. call.heads \in Nat \ {0} /\ HeadTile \in Nat \ {0}
  BY KernelConstants DEF CallType
<1>2. ASSUME NEW h \in Heads
      PROVE  Cardinality({h0 \in HeadSteps : h - h0 \in 0 .. HeadTile-1}) = 1
  <2> DEFINE S == {h0 \in HeadSteps : h - h0 \in 0 .. HeadTile-1}
  <2>1. h \in 0 .. call.heads-1
    BY DEF Heads
  <2>2. S = {Start(h, HeadTile)}
    <3>1. /\ Start(h, HeadTile) \in Starts(call.heads, HeadTile)
          /\ h - Start(h, HeadTile) \in 0 .. HeadTile-1
          /\ \A s \in Starts(call.heads, HeadTile) :
               h - s \in 0 .. HeadTile-1 => s = Start(h, HeadTile)
      <4>1. call.heads \in Nat
        BY <1>1
      <4> QED BY <1>1, <2>1, <4>1, OwnStart
    <3> QED BY <3>1 DEF HeadSteps
  <2>3. Cardinality({Start(h, HeadTile)}) = 1
    BY FS_Singleton
  <2> QED BY <2>2, <2>3
<1> QED BY <1>2 DEF ByTiles, Once

LEMMA PagedIs ==
  ASSUME CallType, call.op = "paged", NEW r \in Rows, NEW k \in Cols
  PROVE  Paged(r, k, Once) = Expected(<<r, k>>)
<1>1. k \in Nat /\ call.start \in Nat /\ call.start + k \in Nat
  BY ColsAre DEF CallType, PagedType
<1>2. call.start + k < ContextLen(r) => TokenAt(r, call.start + k) = <<BatchOf(r), call.start + k>>
  BY <1>1, TokenFound
<1> QED BY <1>2 DEF Paged, Expected

LEMMA SplitLenIs ==
  ASSUME CallType, call.op = "prenorm", NEW k \in 0 .. call.k-1
  PROVE  SplitLen \in Nat \ {0} /\ k \div SplitLen \in 0 .. call.splits-1
<1>1. call.k \in Nat /\ call.splits \in Nat \ {0} /\ k \in Nat /\ k < call.k
  BY DEF CallType, PrenormType
<1> DEFINE q == SplitLen
<1>2. q \in Nat /\ q * call.splits \in Nat /\ call.k + call.splits - 1 < q * call.splits + call.splits
  <2>1. call.k + call.splits - 1 \in Nat
    BY <1>1
  <2> QED BY <1>1, <2>1, Divided DEF SplitLen, Cdiv
<1> HIDE DEF q
<1>3. q # 0
  <2>1. SUFFICES ASSUME q = 0 PROVE FALSE
    OBVIOUS
  <2>2. q * call.splits = 0
    BY <1>1, <2>1
  <2>3. call.k + call.splits - 1 < call.splits
    BY <1>1, <1>2, <2>2
  <2> QED BY <1>1, <2>3
<1> DEFINE s == k \div q
<1>4. s \in Nat /\ s * q \in Nat /\ s * q <= k
  BY <1>1, <1>2, <1>3, Divided
<1> HIDE DEF s
<1>5. s < call.splits
  <2>1. SUFFICES ASSUME call.splits <= s PROVE FALSE
    BY <1>1, <1>4
  <2>2. call.splits * q <= s * q
    BY <1>1, <1>2, <1>4, <2>1, TimesMonotone
  <2>3. call.splits * q = q * call.splits
    BY <1>1, <1>2
  <2> QED BY <1>1, <1>2, <1>4, <2>2, <2>3
<1> QED BY <1>1, <1>2, <1>3, <1>4, <1>5 DEF s, q

\* The tiles of a split add the products of its part of k, the last one cut.
LEMMA AddedIs ==
  ASSUME CallType, call.op = "prenorm", NEW p, p[3] \in Nat
  PROVE  Added(p) = Partial(p[3])
<1> DEFINE begin == p[3] * SplitLen
<1> DEFINE end == Least(begin + SplitLen, call.k)
<1> DEFINE T(k) == {k0 \in Starts(SplitLen, GemmKTile) :
                      k < end /\ k - (begin + k0) \in 0 .. GemmKTile-1}
<1>1. Added(p) = [k \in 0 .. call.k-1 |-> Cardinality(T(k))]
  BY DEF Added
<1>2. ASSUME NEW k \in 0 .. call.k-1
      PROVE  Cardinality(T(k)) = IF k \div SplitLen = p[3] THEN 1 ELSE 0
  <2>1. /\ SplitLen \in Nat \ {0} /\ k \in Nat /\ k < call.k /\ call.k \in Nat
        /\ GemmKTile \in Nat \ {0} /\ begin \in Nat
    <3>1. SplitLen \in Nat \ {0} /\ call.k \in Nat
      BY SplitLenIs DEF CallType, PrenormType
    <3> QED BY <3>1, KernelConstants
  <2>2. k \div SplitLen = p[3] <=> begin <= k /\ k < begin + SplitLen
    <3>1. k \in Tile(k \div SplitLen, SplitLen)
          /\ (k \in Tile(p[3], SplitLen) => p[3] = k \div SplitLen)
      BY <2>1, OwnTile
    <3>2. k \in Tile(p[3], SplitLen) <=> begin <= k /\ k < begin + SplitLen
      <4>1. Tile(p[3], SplitLen) = begin .. begin + SplitLen - 1
        BY DEF Tile
      <4> HIDE DEF begin
      <4> QED BY <2>1, <4>1
    <3> HIDE DEF begin
    <3> QED BY <3>1, <3>2
  <2> HIDE DEF begin
  <2>3. CASE begin <= k /\ k < begin + SplitLen
    <3> DEFINE x == k - begin
    <3>1. x \in 0 .. SplitLen-1 /\ k < end
      BY <2>1, <2>3 DEF Least
    <3>2. ASSUME NEW k0 \in Nat PROVE k - (begin + k0) = x - k0
      BY <2>1
    <3>3. \A k0 \in Starts(SplitLen, GemmKTile) : k0 \in Nat
      BY DEF Starts
    <3> HIDE DEF x, end
    <3>4. Start(x, GemmKTile) \in Starts(SplitLen, GemmKTile)
          /\ x - Start(x, GemmKTile) \in 0 .. GemmKTile-1
          /\ \A k0 \in Starts(SplitLen, GemmKTile) :
               x - k0 \in 0 .. GemmKTile-1 => k0 = Start(x, GemmKTile)
      BY <2>1, <3>1, OwnStart
    <3>5. T(k) = {Start(x, GemmKTile)}
      BY <3>1, <3>2, <3>3, <3>4
    <3>6. Cardinality(T(k)) = 1
      BY <3>5, FS_Singleton
    <3> QED BY <2>2, <2>3, <3>6
  <2>4. CASE ~(begin <= k /\ k < begin + SplitLen)
    <3>1. k < begin \/ ~(k < end)
      BY <2>1, <2>4 DEF Least
    <3>2. ASSUME NEW k0 \in Starts(SplitLen, GemmKTile), k < end
          PROVE  k - (begin + k0) \notin 0 .. GemmKTile-1
      <4>1. k0 \in Nat
        BY DEF Starts
      <4> HIDE DEF end
      <4> QED BY <2>1, <3>1, <3>2, <4>1
    <3>3. T(k) = {}
      BY <3>2
    <3>4. Cardinality(T(k)) = 0
      BY <3>3, FS_EmptySet
    <3> QED BY <2>2, <2>4, <3>4
  <2> QED BY <2>3, <2>4
<1> HIDE DEF T
<1> QED BY <1>1, <1>2 DEF Partial
-----------------------------------------------------------------------------
LEMMA PageChunkIs ==
  ASSUME CallType, call.op = "paged"
  PROVE  PageChunk \in Nat \ {0}
<1>1. Bytes \in SUBSET Nat /\ Bytes # {}
  BY KernelConstants
<1>2. \E x \in Bytes : \A y \in Bytes : x <= y
  BY <1>1, LeastOf
<1>3. Min(Bytes) \in Nat
  BY <1>1, <1>2 DEF Min
<1>4. Most(1, call.heads * 4) \in Nat \ {0}
  <2>1. call.heads \in Nat \ {0}
    BY DEF CallType
  <2> QED BY <2>1 DEF Most
<1> DEFINE a == Min(Bytes) \div Most(1, call.heads * 4)
<1>5. a \in Nat
  BY <1>3, <1>4, Divided
<1>6. PageChunk = Most(1, a)
  BY DEF PageChunk
<1> HIDE DEF a
<1> QED BY <1>5, <1>6 DEF Most

LEMMA ValueIsFinal ==
  ASSUME CallType, way = Way, way # "denseTorch",
         NEW p \in Programs, NEW c \in Cells, c \in Stores(p)
  PROVE  Value(p, c) = Final(c)
<1>1. CASE way = "tiles"
  <2>1. call.op = "paged" /\ c \in Rows \X Cols /\ c = <<c[1], c[2]>>
    BY <1>1, WayOf, CellsAre
  <2>2. Value(p, c) = Paged(c[1], c[2], Once) /\ Final(c) = Expected(c)
    BY <1>1, <2>1 DEF Value, Final
  <2>3. Paged(c[1], c[2], Once) = Expected(<<c[1], c[2]>>)
    BY <2>1, PagedIs
  <2> QED BY <2>1, <2>2, <2>3
<1>2. CASE way = "rowwise"
  <2>1. call.op = "paged" /\ c \in Rows \X Cols /\ c = <<c[1], c[2]>>
    BY <1>2, WayOf, CellsAre
  <2>2. Value(p, c) = Rowwise(p, c[2]) /\ Final(c) = Expected(c)
    BY <1>2, <2>1 DEF Value, Final
  <2>3. /\ c[1] = p[1] /\ p[2] \in Nat
        /\ c[2] \in Tile(p[2], WideColTile) /\ c[2] \in Nat
    BY <1>2, <2>1, GridIsNat, ColsAre DEF Stores, Programs
  <2>4. Paged(c[1], c[2], Once) = Expected(c)
    <3>1. Paged(c[1], c[2], Once) = Expected(<<c[1], c[2]>>)
      BY <2>1, PagedIs
    <3> QED BY <2>1, <3>1
  <2>5. CASE call.start + p[2] * WideColTile >= ContextLen(p[1])
    <3>1. Rowwise(p, c[2]) = NegInf
      BY <2>5 DEF Rowwise
    <3>2. p[2] * WideColTile \in Nat /\ p[2] * WideColTile <= c[2]
      <4>1. WideColTile \in Nat /\ p[2] * WideColTile \in Nat
        BY <2>3, KernelConstants
      <4> QED BY <2>3, <4>1 DEF Tile
    <3>3. call.start \in Nat /\ ContextLen(c[1]) \in Nat
      <4>1. ContextLen(c[1]) \in 0 .. MaxModelLen /\ MaxModelLen \in Nat
        BY <2>1, ContextType, KernelConstants
      <4> QED BY <2>1, <4>1 DEF CallType, PagedType
    <3>4. ~(call.start + c[2] < ContextLen(c[1]))
      BY <2>3, <2>5, <3>2, <3>3
    <3>5. Expected(c) = NegInf
      BY <2>1, <3>4 DEF Expected
    <3> QED BY <2>2, <3>1, <3>5
  <2>6. CASE ~(call.start + p[2] * WideColTile >= ContextLen(p[1]))
    <3>1. Rowwise(p, c[2]) = Paged(p[1], c[2], ByTiles)
      BY <2>6 DEF Rowwise
    <3>2. ByTiles = Once
      BY <2>1, EachHeadOnce
    <3> QED BY <2>2, <2>3, <2>4, <3>1, <3>2
  <2> QED BY <2>5, <2>6
<1>3. CASE way = "dense"
  <2>1. call.op = "dense"
    BY <1>3, WayOf
  <2> QED BY <1>3, <2>1 DEF Value, Final, Expected
<1>4. CASE way = "splits"
  <2>1. call.op = "prenorm"
    BY <1>4, WayOf
  <2>2. p[3] \in Nat
    <3>1. Programs = Grid(call.rows, GemmRowTile) \X Grid(call.n, GemmColTile)
                          \X (0 .. call.splits-1)
      BY <1>4 DEF Programs
    <3>2. p[3] \in 0 .. call.splits-1
      BY <3>1
    <3> QED BY <2>1, <3>2 DEF CallType, PrenormType
  <2>3. c[2] = p[3]
    BY <1>4 DEF Stores
  <2>4. Added(p) = Partial(p[3])
    BY <2>1, <2>2, AddedIs
  <2>5. Value(p, c) = Added(p) /\ Final(c) = Partial(c[2])
    BY <1>4, <2>1 DEF Value, Final
  <2> QED BY <2>3, <2>4, <2>5
<1>5. CASE way = "whole"
  <2>1. call.op = "prenorm" /\ call.splits = 1
    BY <1>5, WayOf
  <2>2. c[2] = 0
    BY <2>1, CellsAre
  <2>3. ASSUME NEW k \in 0 .. call.k-1 PROVE k \div SplitLen = 0
    BY <2>1, SplitLenIs
  <2>4. Value(p, c) = [k \in 0 .. call.k-1 |-> 1] /\ Final(c) = Partial(0)
    BY <1>5, <2>1, <2>2 DEF Value, Final
  <2> QED BY <2>3, <2>4 DEF Partial
<1>6. CASE way = "pagedTorch"
  <2>1. call.op = "paged" /\ c \in Rows \X Cols /\ call.start = 0
    BY <1>6, WayOf, CellsAre
  <2>2. c[1] = p[1] /\ c[2] < ContextLen(c[1]) /\ c[2] \in Nat
    BY <1>6, <2>1, ColsAre DEF Stores
  <2>3. TokenAt(c[1], c[2]) = <<BatchOf(c[1]), c[2]>>
    BY <2>1, <2>2, TokenFound
  <2>4. 0 + c[2] = c[2]
    BY <2>2
  <2>5. Value(p, c) = Score(c[1], TokenAt(c[1], c[2]), Once)
    BY <1>6 DEF Value
  <2>6. Final(c) = Score(c[1], <<BatchOf(c[1]), c[2]>>, Once)
    BY <2>1, <2>2, <2>4 DEF Final, Expected
  <2> QED BY <2>3, <2>5, <2>6
<1>7. way \in {"tiles", "rowwise", "dense", "splits", "whole", "pagedTorch"}
  <2>1. call.op \in {"paged", "dense", "prenorm"}
    BY DEF CallType
  <2> QED BY <2>1, WayOf
<1> QED BY <1>1, <1>2, <1>3, <1>4, <1>5, <1>6, <1>7

\* A cell that no program stores to is right before the first.
LEMMA Covered ==
  ASSUME CallType, way = Way, way # "denseTorch", NEW c \in Cells
  PROVE  Blank(c) = Final(c) \/ \E p \in Programs : c \in Stores(p)
<1>1. CASE way = "tiles"
  <2>1. call.op = "paged" /\ c \in Rows \X Cols
    BY <1>1, WayOf, CellsAre
  <2> DEFINE p == <<c[1] \div RowTile, c[2] \div ColTile>>
  <2>2. RowTile \in Nat \ {0} /\ ColTile \in Nat \ {0}
    BY RowTileChosen, KernelConstants
  <2>3. /\ c[1] \div RowTile \in Grid(RowCount, RowTile)
        /\ c[1] \in Tile(c[1] \div RowTile, RowTile)
    BY <2>1, <2>2, RowsAre, GridCovers
  <2>4. /\ c[2] \div ColTile \in Grid(call.count, ColTile)
        /\ c[2] \in Tile(c[2] \div ColTile, ColTile)
    BY <2>1, <2>2, ColsAre, GridCovers
  <2>5. p \in Programs
    BY <1>1, <2>3, <2>4, RowsAre DEF Programs
  <2>6. c \in Stores(p)
    BY <1>1, <2>1, <2>3, <2>4 DEF Stores
  <2> QED BY <2>5, <2>6
<1>2. CASE way = "rowwise"
  <2>1. call.op = "paged" /\ c \in Rows \X Cols
    BY <1>2, WayOf, CellsAre
  <2> DEFINE p == <<c[1], c[2] \div WideColTile>>
  <2>2. WideColTile \in Nat \ {0}
    BY KernelConstants
  <2>3. /\ c[2] \div WideColTile \in Grid(call.count, WideColTile)
        /\ c[2] \in Tile(c[2] \div WideColTile, WideColTile)
    BY <2>1, <2>2, ColsAre, GridCovers
  <2>4. p \in Programs
    BY <1>2, <2>1, <2>3 DEF Programs
  <2>5. c \in Stores(p)
    BY <1>2, <2>1, <2>3 DEF Stores
  <2> QED BY <2>4, <2>5
<1>3. CASE way = "dense"
  <2>1. call.op = "dense" /\ c \in Rows \X Cols
    BY <1>3, WayOf, CellsAre
  <2> DEFINE p == <<c[1] \div DenseRowTile, c[2] \div ColTile>>
  <2>2. DenseRowTile \in Nat \ {0} /\ ColTile \in Nat \ {0}
    BY KernelConstants
  <2>3. /\ c[1] \div DenseRowTile \in Grid(call.rows, DenseRowTile)
        /\ c[1] \in Tile(c[1] \div DenseRowTile, DenseRowTile)
    <3>1. RowCount = call.rows /\ RowCount \in Nat /\ c[1] \in 0 .. RowCount - 1
      BY <2>1, RowsAre DEF RowCount
    <3> QED BY <2>2, <3>1, GridCovers
  <2>4. /\ c[2] \div ColTile \in Grid(call.keys, ColTile)
        /\ c[2] \in Tile(c[2] \div ColTile, ColTile)
    BY <2>1, <2>2, ColsAre, GridCovers
  <2>5. p \in Programs
    BY <1>3, <2>3, <2>4 DEF Programs
  <2>6. c \in Stores(p)
    BY <1>3, <2>1, <2>3, <2>4 DEF Stores
  <2> QED BY <2>5, <2>6
<1>4. CASE way = "splits"
  <2>1. call.op = "prenorm"
    BY <1>4, WayOf
  <2>2. /\ call.rows \in Nat /\ call.n \in Nat \ {0}
        /\ GemmRowTile \in Nat \ {0} /\ GemmColTile \in Nat \ {0}
    BY <2>1, KernelConstants DEF CallType, PrenormType
  <2>3. c[2] \in 0 .. call.splits-1 /\ c[3] \in Rows
    BY <2>1, CellsAre
  <2> DEFINE a == c[3] \div GemmRowTile
  <2>4. a \in Grid(call.rows, GemmRowTile) /\ c[3] \in Tile(a, GemmRowTile)
    <3>1. RowCount = call.rows /\ c[3] \in 0 .. RowCount - 1
      BY <2>1, <2>3, RowsAre DEF RowCount
    <3> QED BY <2>2, <3>1, GridCovers
  <2> HIDE DEF a
  <2>5. CASE c[1] = "out"
    <3> DEFINE b == c[4] \div GemmColTile
    <3>1. c \in {"out"} \X (0 .. call.splits-1) \X Rows \X (0 .. call.n-1)
      BY <2>1, <2>5 DEF Cells
    <3>2. b \in Grid(call.n, GemmColTile) /\ c[4] \in Tile(b, GemmColTile)
      BY <2>2, <3>1, GridCovers
    <3> HIDE DEF b
    <3>3. <<a, b, c[2]>> \in Programs
      BY <1>4, <2>3, <2>4, <3>2 DEF Programs
    <3>4. c \in {"out"} \X {c[2]} \X (Tile(a, GemmRowTile) \cap Rows)
                  \X (Tile(b, GemmColTile) \cap 0 .. call.n-1)
      BY <2>4, <3>1, <3>2
    <3>5. c \in Stores(<<a, b, c[2]>>)
      BY <1>4, <3>4 DEF Stores
    <3> QED BY <3>3, <3>5
  <2>6. CASE c[1] = "sqrsum"
    <3>1. c \in {"sqrsum"} \X (0 .. call.splits-1) \X Rows
      BY <2>1, <2>6 DEF Cells
    <3>2. 0 \in Grid(call.n, GemmColTile)
      <4>1. 0 \in 0 .. call.n - 1
        BY <2>2
      <4>2. 0 \div GemmColTile = 0
        BY <2>2, Z3
      <4>3. call.n \in Nat
        BY <2>2
      <4>4. 0 \div GemmColTile \in Grid(call.n, GemmColTile)
        BY <2>2, <4>1, <4>3, GridCovers
      <4> QED BY <4>2, <4>4
    <3>3. <<a, 0, c[2]>> \in Programs
      BY <1>4, <2>3, <2>4, <3>2 DEF Programs
    <3>4. c \in {"sqrsum"} \X {c[2]} \X (Tile(a, GemmRowTile) \cap Rows)
      BY <2>4, <3>1
    <3>5. c \in Stores(<<a, 0, c[2]>>)
      BY <1>4, <3>4 DEF Stores, SquaresBy
    <3> QED BY <3>3, <3>5
  <2> QED BY <2>1, <2>5, <2>6, CellsAre
<1>5. CASE way = "whole"
  BY <1>5 DEF Programs, Stores
<1>6. CASE way = "pagedTorch"
  <2>1. /\ call.op = "paged" /\ c \in Rows \X Cols /\ call.start = 0
        /\ call.count = MaxModelLen /\ c = <<c[1], c[2]>>
    BY <1>6, WayOf, CellsAre
  <2>2. c[2] \in Nat /\ 0 + c[2] = c[2] /\ c[2] \in 0 .. MaxModelLen-1 /\ MaxModelLen \in Nat
    BY <2>1, ColsAre, KernelConstants
  <2>3. CASE c[2] < ContextLen(c[1])
    <3> DEFINE s == Start(c[2], PageChunk)
    <3>1. PageChunk \in Nat \ {0}
      BY <2>1, PageChunkIs
    <3>2. s \in Starts(MaxModelLen, PageChunk) /\ s \in Nat /\ s <= c[2]
      BY <2>2, <3>1, OwnStart, Divided DEF Start
    <3>3. s \div PageChunk = c[2] \div PageChunk /\ c[2] \in Tile(c[2] \div PageChunk, PageChunk)
      BY <2>2, <3>1, MultipleOf, OwnTile, Divided DEF Start
    <3> HIDE DEF s
    <3>4. ContextLen(c[1]) \in Nat
      BY <2>1, <2>2, ContextType
    <3>5. s < ContextLen(c[1])
      BY <2>2, <2>3, <3>2, <3>4
    <3>6. <<c[1], s>> \in Programs
      BY <1>6, <2>1, <3>2, <3>5 DEF Programs
    <3>7. c \in {c[1]} \X {k \in Tile(s \div PageChunk, PageChunk) : k < ContextLen(c[1])}
      BY <2>1, <2>3, <3>3
    <3>8. c \in Stores(<<c[1], s>>)
      BY <1>6, <3>7 DEF Stores
    <3> QED BY <3>6, <3>8
  <2>4. CASE ~(c[2] < ContextLen(c[1]))
    <3>1. Final(c) = NegInf
      BY <2>1, <2>2, <2>4 DEF Final, Expected
    <3>2. Blank(c) = NegInf
      BY <1>6 DEF Blank
    <3> QED BY <3>1, <3>2
  <2> QED BY <2>3, <2>4
<1>7. way \in {"tiles", "rowwise", "dense", "splits", "whole", "pagedTorch"}
  <2>1. call.op \in {"paged", "dense", "prenorm"}
    BY DEF CallType
  <2> QED BY <2>1, WayOf
<1> QED BY <1>1, <1>2, <1>3, <1>4, <1>5, <1>6, <1>7
-----------------------------------------------------------------------------
(* The torch reference for gathered keys adds a chunk of heads at a time *)

Adds(p, c, h) == c \in Stores(p) /\ h \in HeadsFrom(p[1])

LEMMA ChunksAre ==
  ASSUME CallType, call.op = "dense"
  PROVE  HeadChunk \in Nat \ {0} /\ \A h0 \in Nat : KeyChunk(h0) \in Nat \ {0}
<1>1. call.heads \in Nat \ {0} /\ call.rows \in Nat /\ call.keys \in Nat /\ call.bytes \in Nat
  BY DEF CallType, DenseType
<1>2. ASSUME NEW a \in Nat, NEW b \in Nat
      PROVE  Most(1, a * b) * 4 \in Nat \ {0}
  <2>1. a * b \in Nat
    OBVIOUS
  <2> QED BY <2>1 DEF Most
<1>3. ASSUME NEW a \in Nat, NEW b \in Nat PROVE call.bytes \div (Most(1, a * b) * 4) \in Nat
  BY <1>1, <1>2, Divided
<1>4. HeadChunk \in Nat \ {0}
  <2> DEFINE x == call.bytes \div (Most(1, call.rows * call.keys) * 4)
  <2>1. x \in Nat
    BY <1>1, <1>3
  <2>2. HeadChunk = Most(1, Least(Least(8, call.heads), x))
    BY DEF HeadChunk, HeadChunkSize
  <2> HIDE DEF x
  <2> QED BY <1>1, <2>1, <2>2 DEF Most, Least
<1>5. ASSUME NEW h0 \in Nat PROVE KeyChunk(h0) \in Nat \ {0}
  <2> DEFINE size == Cardinality(HeadsFrom(h0))
  <2>1. size \in Nat
    <3>1. Least(h0 + HeadChunk, call.heads) - 1 \in Int
      BY <1>1, <1>4 DEF Least
    <3>2. IsFiniteSet(HeadsFrom(h0))
      BY <3>1, FS_Interval DEF HeadsFrom
    <3> QED BY <3>2, FS_CardinalityType
  <2> HIDE DEF size
  <2> DEFINE x == call.bytes \div (Most(1, call.rows * size) * 4)
  <2>2. x \in Nat
    BY <1>1, <1>3, <2>1
  <2>3. KeyChunk(h0) = Most(1, Least(call.keys, x))
    BY DEF KeyChunk, KeyChunkSize, size
  <2> HIDE DEF x
  <2> QED BY <1>1, <2>2, <2>3 DEF Most, Least
<1> QED BY <1>4, <1>5

\* One step of the two loops adds a head to a logit.
LEMMA AddedOnce ==
  ASSUME CallType, way = Way, way = "denseTorch", NEW c \in Cells, NEW h \in Heads
  PROVE  /\ \E p \in Programs : Adds(p, c, h)
         /\ \A p, o \in Programs : Adds(p, c, h) /\ Adds(o, c, h) => p = o
<1> DEFINE h0 == Start(h, HeadChunk)
<1> DEFINE k0 == Start(c[2], KeyChunk(h0))
<1>1. call.op = "dense" /\ c \in Rows \X Cols /\ c = <<c[1], c[2]>>
  BY WayOf, CellsAre
<1>2. call.heads \in Nat /\ h \in 0 .. call.heads-1 /\ h \in Nat
      /\ call.keys \in Nat /\ c[2] \in 0 .. call.keys-1
  BY <1>1, ColsAre DEF Heads, CallType
<1>3. HeadChunk \in Nat \ {0}
  BY <1>1, ChunksAre
<1>4. /\ h0 \in Starts(call.heads, HeadChunk) /\ h0 \in Nat /\ h \in h0 .. h0 + HeadChunk - 1
      /\ \A s \in Starts(call.heads, HeadChunk) : h \in s .. s + HeadChunk - 1 => s = h0
  BY <1>2, <1>3, OwnStart
<1> HIDE DEF h0
<1>5. KeyChunk(h0) \in Nat \ {0}
  BY <1>1, <1>4, ChunksAre
<1>6. /\ k0 \in Starts(call.keys, KeyChunk(h0)) /\ k0 \in Nat /\ c[2] \in k0 .. k0 + KeyChunk(h0) - 1
      /\ \A s \in Starts(call.keys, KeyChunk(h0)) : c[2] \in s .. s + KeyChunk(h0) - 1 => s = k0
  BY <1>2, <1>5, OwnStart
<1> HIDE DEF k0
<1>7. Programs = UNION {{x} \X Starts(call.keys, KeyChunk(x)) : x \in Starts(call.heads, HeadChunk)}
  BY DEF Programs
<1>8. ASSUME NEW s \in Starts(call.heads, HeadChunk)
      PROVE  h \in HeadsFrom(s) <=> h \in s .. s + HeadChunk - 1
  <2>1. s \in Nat
    BY DEF Starts
  <2> QED BY <1>2, <1>3, <2>1 DEF HeadsFrom, Least
<1>9. ASSUME NEW p PROVE Stores(p) = Rows \X {k \in p[2] .. p[2] + KeyChunk(p[1]) - 1 : k < call.keys}
  BY DEF Stores
<1>10. <<h0, k0>> \in Programs
  BY <1>4, <1>6, <1>7
<1>11. Adds(<<h0, k0>>, c, h)
  <2>1. c \in Rows \X {k \in k0 .. k0 + KeyChunk(h0) - 1 : k < call.keys}
    BY <1>1, <1>2, <1>6
  <2>2. Stores(<<h0, k0>>) = Rows \X {k \in k0 .. k0 + KeyChunk(h0) - 1 : k < call.keys}
    BY <1>9
  <2> QED BY <1>4, <1>8, <2>1, <2>2 DEF Adds
<1>12. ASSUME NEW p \in Programs, Adds(p, c, h) PROVE p = <<h0, k0>>
  <2>1. /\ p[1] \in Starts(call.heads, HeadChunk) /\ p = <<p[1], p[2]>>
        /\ p[2] \in Starts(call.keys, KeyChunk(p[1]))
    BY <1>7
  <2>2. p[1] = h0
    BY <1>4, <1>8, <1>12, <2>1 DEF Adds
  <2>3. c[2] \in p[2] .. p[2] + KeyChunk(h0) - 1
    BY <1>9, <1>12, <2>2 DEF Adds
  <2>4. p[2] = k0
    BY <1>6, <2>1, <2>2, <2>3
  <2> QED BY <2>1, <2>2, <2>4
<1> QED BY <1>10, <1>11, <1>12
-----------------------------------------------------------------------------
(* The invariant of the results *)

\* A cell has its final value, or a program that stores to it is still to
\* run; in the loop that adds heads, each head counts once its step has run.
Settled == \A c \in Cells :
             \/ mem[c] = Final(c)
             \/ mem[c] = Blank(c) /\ \E p \in todo : c \in Stores(p)

Counts(c) == [h \in Heads |-> IF \E p \in todo : Adds(p, c, h) THEN 0 ELSE 1]
Counted   == \A c \in Cells : mem[c] = Score(c[1], c[2], Counts(c))

Running == /\ way = Way /\ ~Refused /\ mem = [c \in Cells |-> mem[c]]
           /\ way # "denseTorch" => Settled
           /\ way = "denseTorch" => Counted

Returned == /\ way = Way /\ mem = [c \in Cells |-> mem[c]]
            /\ \A c \in Cells : mem[c] = Final(c)

ResultInv == /\ GridInv
             /\ phase \in {"calling", "raised"} => mem = [c \in Cells |-> Junk]
             /\ phase = "running"  => Running
             /\ phase = "returned" => Returned
             /\ phase \in {"calling", "running", "returned", "raised"}

LEMMA SameResult ==
  ASSUME call' = call, way' = way
  PROVE  /\ Cells' = Cells /\ Heads' = Heads
         /\ \A c : Final(c)' = Final(c) /\ Blank(c)' = Blank(c)
         /\ \A p : Stores(p)' = Stores(p) /\ HeadsFrom(p)' = HeadsFrom(p)
<1>1. Rows' = Rows /\ Cols' = Cols /\ Heads' = Heads /\ Once' = Once /\ Never' = Never
  BY DEF Rows, Cols, Heads, Once, Never
<1>2. Cells' = Cells
  BY <1>1 DEF Cells
<1>3. Way' = Way /\ RowTile' = RowTile
  BY <1>1 DEF Way, RowTile
<1>4. SplitLen' = SplitLen /\ HeadChunk' = HeadChunk /\ PageChunk' = PageChunk
  BY DEF SplitLen, HeadChunk, PageChunk
<1>5. ASSUME NEW h0 PROVE HeadsFrom(h0)' = HeadsFrom(h0) /\ KeyChunk(h0)' = KeyChunk(h0)
  BY <1>4 DEF HeadsFrom, KeyChunk
<1>6. ASSUME NEW r
      PROVE  BatchOf(r)' = BatchOf(r) /\ ContextLen(r)' = ContextLen(r)
  BY DEF ContextLen, BatchOf, QPos
<1>7. ASSUME NEW c PROVE Final(c)' = Final(c) /\ Blank(c)' = Blank(c)
  <2>1. Partial(c[2])' = Partial(c[2])
    BY <1>4 DEF Partial
  <2>2. Dense(c[1], c[2])' = Dense(c[1], c[2])
    BY <1>1 DEF Dense, InWindow
  <2>3. Expected(c)' = Expected(c)
    BY <1>1, <1>6, <2>2 DEF Expected
  <2> QED BY <1>1, <1>3, <2>1, <2>3 DEF Final, Blank
<1>8. ASSUME NEW p PROVE Stores(p)' = Stores(p)
  BY <1>1, <1>2, <1>3, <1>4, <1>5, <1>6 DEF Stores, SquaresBy
<1> QED BY <1>1, <1>2, <1>5, <1>7, <1>8
-----------------------------------------------------------------------------
LEMMA Launched ==
  (/\ CallType /\ way = Way /\ ~Refused /\ todo = Programs
   /\ mem = [c \in Cells |-> Blank(c)])
  => Running
<1> SUFFICES ASSUME CallType, way = Way, ~Refused, todo = Programs,
                    mem = [c \in Cells |-> Blank(c)]
             PROVE  Running
  OBVIOUS
<1>1. ASSUME way # "denseTorch" PROVE Settled
  BY <1>1, Covered DEF Settled
<1>2. ASSUME way = "denseTorch" PROVE Counted
  <2>1. ASSUME NEW c \in Cells PROVE mem[c] = Score(c[1], c[2], Counts(c))
    <3>1. Counts(c) = Never
      BY <1>2, AddedOnce DEF Counts, Never
    <3>2. Blank(c) = Score(c[1], c[2], Never)
      BY <1>2 DEF Blank
    <3> QED BY <3>1, <3>2
  <2> QED BY <2>1 DEF Counted
<1>3. mem = [c \in Cells |-> mem[c]]
  OBVIOUS
<1> QED BY <1>1, <1>2, <1>3 DEF Running

LEMMA LaunchResult ==
  ASSUME ResultInv, Launch
  PROVE  ResultInv'
<1>1. GridInv' /\ CallType /\ call' = call /\ way' = Way /\ phase = "calling"
  BY NextGridInv DEF ResultInv, GridInv, Launch, Next
<1>2. CASE Refused
  <2>1. phase' = "raised" /\ mem' = mem /\ mem = [c \in Cells |-> Junk]
    BY <1>1, <1>2 DEF Launch, ResultInv
  <2>2. Cells' = Cells
    <3>1. Rows' = Rows /\ Cols' = Cols
      BY <1>1 DEF Rows, Cols
    <3> QED BY <1>1, <3>1 DEF Cells
  <2> QED BY <1>1, <2>1, <2>2 DEF ResultInv
<1>3. CASE ~Refused
  <2>1. phase' = "running" /\ todo' = Programs /\ mem' = [c \in Cells |-> Blank(c)]
    BY <1>3 DEF Launch
  <2>2. CallType' /\ way' = Way' /\ todo' = Programs'
    BY <1>1, <2>1, SameCall
  <2>3. Refused' = Refused
    BY <1>1, <2>2 DEF Refused
  <2>4. Cells' = Cells /\ \A c : Blank(c)' = Blank(c)
    <3>1. Rows' = Rows /\ Cols' = Cols /\ Never' = Never
      BY <1>1 DEF Rows, Cols, Never, Heads
    <3> QED BY <1>1, <2>2, <3>1 DEF Cells, Blank
  <2>5. mem' = [c \in Cells' |-> Blank(c)']
    BY <2>1, <2>4
  <2>6. ((/\ CallType /\ way = Way /\ ~Refused /\ todo = Programs
          /\ mem = [c \in Cells |-> Blank(c)])
         => Running)'
    BY Launched, PTL
  <2>7. Running'
    BY <1>3, <2>2, <2>3, <2>5, <2>6
  <2> QED BY <1>1, <2>1, <2>7 DEF ResultInv
<1> QED BY <1>2, <1>3

LEMMA ProgramResult ==
  ASSUME ResultInv, NEW p \in todo, Program(p)
  PROVE  ResultInv'
<1>1. /\ GridInv' /\ CallType /\ call' = call /\ way' = way
      /\ phase = "running" /\ phase' = "running" /\ todo' = todo \ {p}
      /\ mem' = [c \in DOMAIN mem |-> IF c \in Stores(p) THEN Value(p, c) ELSE mem[c]]
  BY NextGridInv DEF ResultInv, GridInv, Program, Next
<1>2. Running /\ way = Way /\ todo \subseteq Programs /\ DOMAIN mem = Cells
  BY <1>1, InGrid DEF ResultInv, Running
<1>3. /\ Cells' = Cells /\ Heads' = Heads /\ Way' = Way /\ Refused' = Refused
      /\ \A c : Final(c)' = Final(c) /\ Blank(c)' = Blank(c)
      /\ \A q : Stores(q)' = Stores(q) /\ HeadsFrom(q)' = HeadsFrom(q)
  <2>1. Way' = Way
    BY <1>1 DEF Way
  <2> QED BY <1>1, <2>1, SameResult DEF Refused
<1>4. mem' = [c \in Cells' |-> mem'[c]] /\ way' = Way' /\ ~Refused'
  BY <1>1, <1>2, <1>3 DEF Running
<1>5. ASSUME way # "denseTorch" PROVE Settled'
  <2>1. ASSUME NEW c \in Cells
        PROVE  \/ mem'[c] = Final(c)
               \/ mem'[c] = Blank(c) /\ \E q \in todo' : c \in Stores(q)
    <3>1. CASE c \in Stores(p)
      <4>1. mem'[c] = Value(p, c)
        BY <1>1, <1>2, <3>1
      <4>2. Value(p, c) = Final(c)
        BY <1>1, <1>2, <1>5, <3>1, ValueIsFinal
      <4> QED BY <4>1, <4>2
    <3>2. CASE c \notin Stores(p)
      <4>1. mem'[c] = mem[c]
        BY <1>1, <1>2, <3>2
      <4>2. mem[c] = Final(c) \/ (mem[c] = Blank(c) /\ \E q \in todo : c \in Stores(q))
        BY <1>2, <1>5 DEF Running, Settled
      <4> QED BY <1>1, <3>2, <4>1, <4>2
    <3> QED BY <3>1, <3>2
  <2> QED BY <1>3, <2>1 DEF Settled
<1>6. ASSUME way = "denseTorch" PROVE Counted'
  <2>1. ASSUME NEW c \in Cells
        PROVE  mem'[c] = Score(c[1], c[2], Counts(c)')
    <3>1. mem[c] = Score(c[1], c[2], Counts(c))
      BY <1>2, <1>6 DEF Running, Counted
    <3>2. Counts(c)' = [h \in Heads |-> IF \E q \in todo' : Adds(q, c, h) THEN 0 ELSE 1]
      BY <1>3 DEF Counts, Adds
    <3>3. CASE c \in Stores(p)
      <4>1. mem'[c] = AddHeads(mem[c], HeadsFrom(p[1]))
        BY <1>1, <1>2, <1>6, <3>3 DEF Value
      <4>2. mem'[c] = Score(c[1], c[2],
                        [h \in Heads |-> Counts(c)[h] + IF h \in HeadsFrom(p[1]) THEN 1 ELSE 0])
        BY <3>1, <4>1 DEF AddHeads, Score
      <4>3. ASSUME NEW h \in Heads
            PROVE  Counts(c)[h] + (IF h \in HeadsFrom(p[1]) THEN 1 ELSE 0)
                     = IF \E q \in todo' : Adds(q, c, h) THEN 0 ELSE 1
        <5>1. Counts(c)[h] = IF \E q \in todo : Adds(q, c, h) THEN 0 ELSE 1
          BY DEF Counts
        <5>2. CASE h \in HeadsFrom(p[1])
          <6>1. Adds(p, c, h)
            BY <3>3, <5>2 DEF Adds
          <6>2. \A q \in todo' : ~Adds(q, c, h)
            BY <1>1, <1>2, <1>6, <6>1, AddedOnce
          <6> QED BY <5>1, <5>2, <6>1, <6>2
        <5>3. CASE h \notin HeadsFrom(p[1])
          <6>1. (\E q \in todo : Adds(q, c, h)) <=> \E q \in todo' : Adds(q, c, h)
            BY <1>1, <5>3 DEF Adds
          <6> QED BY <5>1, <5>3, <6>1
        <5> QED BY <5>2, <5>3
      <4>4. [h \in Heads |-> Counts(c)[h] + IF h \in HeadsFrom(p[1]) THEN 1 ELSE 0] = Counts(c)'
        BY <3>2, <4>3
      <4> QED BY <4>2, <4>4
    <3>4. CASE c \notin Stores(p)
      <4>1. mem'[c] = mem[c]
        BY <1>1, <1>2, <3>4
      <4>2. ASSUME NEW h \in Heads
            PROVE  (\E q \in todo : Adds(q, c, h)) <=> \E q \in todo' : Adds(q, c, h)
        BY <1>1, <3>4 DEF Adds
      <4>3. Counts(c)' = Counts(c)
        BY <3>2, <4>2 DEF Counts
      <4> QED BY <3>1, <4>1, <4>3
    <3> QED BY <3>3, <3>4
  <2> QED BY <1>3, <2>1 DEF Counted
<1>7. Running'
  BY <1>1, <1>4, <1>5, <1>6 DEF Running
<1> QED BY <1>1, <1>7 DEF ResultInv

LEMMA FinishResult ==
  ASSUME ResultInv, Finish
  PROVE  ResultInv'
<1>1. /\ GridInv' /\ CallType /\ call' = call /\ way' = way
      /\ phase = "running" /\ phase' = "returned" /\ todo = {}
  BY NextGridInv DEF ResultInv, GridInv, Finish, Next
<1>2. Running /\ way = Way /\ DOMAIN mem = Cells /\ mem = [c \in Cells |-> mem[c]]
  BY <1>1 DEF ResultInv, Running
<1>3. /\ Cells' = Cells /\ Way' = Way /\ \A c : Final(c)' = Final(c)
  <2>1. Way' = Way
    BY <1>1 DEF Way
  <2> QED BY <1>1, <2>1, SameResult
<1>4. mem' = [c \in Cells |-> mem'[c]] /\ \A c \in Cells : mem'[c] = Final(c)
  <2>1. CASE way # "denseTorch"
    <3>1. mem' = mem
      BY <2>1 DEF Finish
    <3>2. \A c \in Cells : mem[c] = Final(c)
      BY <1>1, <1>2, <2>1 DEF Running, Settled
    <3> QED BY <1>2, <3>1, <3>2
  <2>2. CASE way = "denseTorch"
    <3>1. call.op = "dense"
      BY <1>1, <1>2, <2>2, WayOf
    <3>2. ASSUME NEW c \in Cells
          PROVE  mem[c] = Score(c[1], c[2], Once) /\ Final(c) = Dense(c[1], c[2])
      <4>1. Counts(c) = Once
        BY <1>1 DEF Counts, Once
      <4>2. mem[c] = Score(c[1], c[2], Counts(c))
        BY <1>2, <2>2 DEF Running, Counted
      <4> QED BY <3>1, <4>1, <4>2 DEF Final, Expected
    <3>3. CASE call.clean
      <4>1. mem' = [c \in Cells |-> IF InWindow(c[1], c[2]) THEN mem[c] ELSE NegInf]
        BY <1>2, <2>2, <3>3 DEF Finish
      <4> QED BY <3>2, <3>3, <4>1 DEF Dense
    <3>4. CASE ~call.clean
      <4>1. mem' = mem
        BY <3>4 DEF Finish
      <4> QED BY <1>2, <3>2, <3>4, <4>1 DEF Dense
    <3> QED BY <3>3, <3>4
  <2> QED BY <2>1, <2>2
<1>5. Returned'
  BY <1>1, <1>2, <1>3, <1>4 DEF Returned
<1> QED BY <1>1, <1>5 DEF ResultInv

LEMMA NextResultInv == ResultInv /\ [Next]_vars => ResultInv'
<1> SUFFICES ASSUME ResultInv, [Next]_vars PROVE ResultInv'
  OBVIOUS
<1>1. CASE Next
  BY <1>1, LaunchResult, ProgramResult, FinishResult DEF Next
<1>2. CASE UNCHANGED vars
  <2>1. call' = call /\ way' = way /\ mem' = mem /\ todo' = todo /\ phase' = phase
    BY <1>2 DEF vars
  <2>2. GridInv'
    BY NextGridInv DEF ResultInv
  <2>3. /\ Cells' = Cells /\ Heads' = Heads
        /\ \A c : Final(c)' = Final(c) /\ Blank(c)' = Blank(c)
        /\ \A q : Stores(q)' = Stores(q) /\ HeadsFrom(q)' = HeadsFrom(q)
    BY <2>1, SameResult
  <2>4. Way' = Way
    BY <2>1 DEF Way
  <2>5. Refused' = Refused
    BY <2>1, <2>4 DEF Refused
  <2>6. Settled' = Settled
    BY <2>1, <2>3 DEF Settled
  <2>7. Counted' = Counted
    <3>1. ASSUME NEW c PROVE Counts(c)' = Counts(c)
      BY <2>1, <2>3 DEF Counts, Adds
    <3> QED BY <2>1, <2>3, <3>1 DEF Counted
  <2>8. Running' = Running /\ Returned' = Returned
    BY <2>1, <2>3, <2>4, <2>5, <2>6, <2>7 DEF Running, Returned
  <2> QED BY <2>1, <2>2, <2>3, <2>8 DEF ResultInv
<1> QED BY <1>1, <1>2

LEMMA InitResultInv == Init => ResultInv
BY InitGridInv DEF Init, ResultInv

LEMMA ResultHolds == Spec => []ResultInv
<1>1. ResultInv /\ UNCHANGED vars => ResultInv'
  BY NextResultInv
<1> QED BY InitResultInv, NextResultInv, PTL DEF Spec
-----------------------------------------------------------------------------
(* Sums *)

\* What MapThenSumSet computes, for the sums over the subsets of S.
SumsOf(iter, f, S) ==
  iter = [s \in SUBSET S |->
            IF s = {} THEN 0
            ELSE f[CHOOSE x \in s : TRUE] + iter[s \ {CHOOSE x \in s : TRUE}]]

\* Values that are 0 but for one that is 1 add up to 1.
LEMMA SumOfOne ==
  ASSUME NEW n \in Nat, NEW x0 \in 0 .. n-1, NEW f,
         \A s \in 0 .. n-1 : f[s] = IF s = x0 THEN 1 ELSE 0
  PROVE  /\ \E iter : SumsOf(iter, f, 0 .. n-1)
         /\ \A iter : SumsOf(iter, f, 0 .. n-1) => iter[0 .. n-1] = 1
<1> DEFINE S == 0 .. n-1
<1> DEFINE one == [s \in SUBSET S |-> IF x0 \in s THEN 1 ELSE 0]
<1>1. ASSUME NEW s \in SUBSET S, s # {}, NEW x, x = CHOOSE y \in s : TRUE
      PROVE  x \in s /\ s \ {x} \in SUBSET S /\ one[s] = f[x] + one[s \ {x}]
  <2>1. x \in s
    BY <1>1
  <2>2. f[x] = IF x = x0 THEN 1 ELSE 0
    BY <2>1
  <2> QED BY <2>1, <2>2
<1>2. SumsOf(one, f, S)
  <2> DEFINE body == [s \in SUBSET S |->
            IF s = {} THEN 0
            ELSE f[CHOOSE x \in s : TRUE] + one[s \ {CHOOSE x \in s : TRUE}]]
  <2>1. ASSUME NEW s \in SUBSET S PROVE one[s] = body[s]
    <3>1. CASE s = {}
      BY <3>1
    <3>2. CASE s # {}
      <4> HIDE DEF one
      <4> QED BY <1>1, <3>2
    <3> QED BY <3>1, <3>2
  <2>2. one = [s \in SUBSET S |-> one[s]] /\ body = [s \in SUBSET S |-> body[s]]
    OBVIOUS
  <2>3. one = body
    <3> HIDE DEF one, body
    <3> QED BY <2>1, <2>2
  <2> HIDE DEF one
  <2> QED BY <2>3 DEF SumsOf
<1>3. IsFiniteSet(S)
  BY FS_Interval
<1>4. ASSUME NEW iter, SumsOf(iter, f, S) PROVE iter[S] = 1
  <2> DEFINE Bad == {k \in Nat : \E s \in SUBSET S : Cardinality(s) = k /\ iter[s] # one[s]}
  <2>1. ASSUME NEW k \in Bad, \A j \in Bad : k <= j PROVE FALSE
    <3>1. PICK s \in SUBSET S : Cardinality(s) = k /\ iter[s] # one[s]
      OBVIOUS
    <3>2. s # {}
      BY <1>4, <3>1 DEF SumsOf
    <3>3. PICK x : x = CHOOSE y \in s : TRUE
      OBVIOUS
    <3>4. x \in s /\ s \ {x} \in SUBSET S /\ one[s] = f[x] + one[s \ {x}]
      <4> HIDE DEF one
      <4> QED BY <1>1, <3>2, <3>3
    <3>5. iter[s] = f[x] + iter[s \ {x}]
      BY <1>4, <3>2, <3>3 DEF SumsOf
    <3>6. Cardinality(s \ {x}) \in Nat /\ Cardinality(s \ {x}) < k
      <4>1. IsFiniteSet(s)
        BY <1>3, FS_Subset
      <4>2. Cardinality(s \ {x}) = Cardinality(s) - 1 /\ IsFiniteSet(s \ {x})
        BY <3>4, <4>1, FS_RemoveElement
      <4>3. Cardinality(s \ {x}) \in Nat
        BY <4>2, FS_CardinalityType
      <4> QED BY <3>1, <4>2, <4>3
    <3>7. Cardinality(s \ {x}) \notin Bad
      <4>1. k \in Nat
        OBVIOUS
      <4> HIDE DEF Bad
      <4> QED BY <2>1, <3>6, <4>1
    <3>8. iter[s \ {x}] = one[s \ {x}]
      <4> HIDE DEF one
      <4> QED BY <3>4, <3>6, <3>7
    <3> HIDE DEF one, Bad
    <3> QED BY <3>1, <3>4, <3>5, <3>8
  <2>2. Bad = {}
    <3>1. Bad \in SUBSET Nat
      OBVIOUS
    <3> HIDE DEF Bad
    <3> QED BY <2>1, <3>1, LeastOf
  <2>3. Cardinality(S) \in Nat
    BY <1>3, FS_CardinalityType
  <2>4. iter[S] = one[S]
    <3> HIDE DEF one
    <3> QED BY <2>2, <2>3
  <2> QED BY <2>4
<1> HIDE DEF one
<1> QED BY <1>2, <1>4

\* Every k is in the part of one split.
LEMMA PartialsAddUp ==
  ASSUME CallType, call.op = "prenorm", NEW k \in 0 .. call.k-1
  PROVE  /\ k \div SplitLen \in 0 .. call.splits-1
         /\ \A s : Partial(s)[k] = IF s = k \div SplitLen THEN 1 ELSE 0
BY SplitLenIs DEF Partial
-----------------------------------------------------------------------------
(* The theorems *)

LEMMA FinalType ==
  ASSUME CallType, call.op # "prenorm", NEW c \in Cells
  PROVE  \/ Final(c) = NegInf
         \/ Final(c)[1] = "score" /\ \A h \in Heads : Final(c)[4][h] \in {0, 1}
<1>1. ASSUME NEW a, NEW b
      PROVE  Score(a, b, Once)[1] = "score" /\ \A h \in Heads : Score(a, b, Once)[4][h] = 1
  BY DEF Score, Once
<1>2. PICK a, b : Final(c) = NegInf \/ Final(c) = Score(a, b, Once)
  BY DEF Final, Expected, Dense
<1> QED BY <1>1, <1>2

LEMMA ResultTypes == ResultInv => TypeOK
<1> SUFFICES ASSUME ResultInv PROVE TypeOK
  OBVIOUS
<1>1. CallType /\ phase \in {"calling", "running", "returned", "raised"}
  BY DEF ResultInv, GridInv
<1>2. DOMAIN mem = Cells
  BY <1>1 DEF ResultInv, Running, Returned
<1>3. ASSUME call.op # "prenorm", NEW c \in Cells
      PROVE  \/ mem[c] \in {Junk, NegInf}
             \/ mem[c][1] = "score" /\ \A h \in Heads : mem[c][4][h] \in {0, 1}
  <2>1. CASE phase \in {"calling", "raised"}
    BY <2>1 DEF ResultInv
  <2>2. CASE mem[c] = Final(c)
    BY <1>1, <1>3, <2>2, FinalType
  <2>3. CASE phase = "running" /\ way # "denseTorch"
    <3>1. mem[c] = Blank(c) => mem[c] \in {Junk, NegInf}
      BY <2>3 DEF ResultInv, Running, Blank
    <3> QED BY <2>2, <2>3, <3>1 DEF ResultInv, Running, Settled
  <2>4. CASE phase = "running" /\ way = "denseTorch"
    <3>1. mem[c] = Score(c[1], c[2], Counts(c))
      BY <2>4 DEF ResultInv, Running, Counted
    <3>2. mem[c][1] = "score" /\ mem[c][4] = Counts(c)
      BY <3>1 DEF Score
    <3>3. \A h \in Heads : Counts(c)[h] \in {0, 1}
      BY DEF Counts
    <3> QED BY <3>2, <3>3
  <2>5. CASE phase = "returned"
    BY <2>2, <2>5 DEF ResultInv, Returned
  <2> QED BY <1>1, <2>1, <2>3, <2>4, <2>5
<1> QED BY <1>1, <1>2, <1>3 DEF TypeOK

\* Whatever the shapes and the order of the programs, no head enters a logit
\* twice, also not where the row-wise kernel or the loop of the torch
\* reference takes the heads in tiles and the last one is cut.
THEOREM TypeCorrect == Spec => []TypeOK
BY ResultHolds, ResultTypes, PTL

LEMMA ResultsAreExact == ResultInv => ResultExact
<1> SUFFICES ASSUME ResultInv, phase = "returned"
             PROVE  IF call.op = "prenorm"
                      THEN \A m \in Rows : /\ SummedOnce(LAMBDA s : mem[<<"sqrsum", s, m>>])
                                           /\ \A n \in 0 .. call.n-1 : SummedOnce(LAMBDA s : mem[<<"out", s, m, n>>])
                      ELSE \A c \in Cells : mem[c] = Expected(c)
  BY DEF ResultExact
<1>1. CallType /\ \A c \in Cells : mem[c] = Final(c)
  BY DEF ResultInv, GridInv, Returned
<1>2. CASE call.op # "prenorm"
  BY <1>1, <1>2 DEF Final
<1>3. CASE call.op = "prenorm"
  <2> DEFINE S == 0 .. call.splits-1
  <2>1. call.splits \in Nat
    BY <1>1, <1>3 DEF CallType, PrenormType
  <2>2. ASSUME NEW k \in 0 .. call.k-1, NEW f, \A s \in S : f[s] = Partial(s)[k]
        PROVE  /\ \E iter : SumsOf(iter, f, S)
               /\ \A iter : SumsOf(iter, f, S) => iter[S] = 1
    <3>1. PICK x : x = k \div SplitLen
      OBVIOUS
    <3>2. x \in S /\ \A s \in S : f[s] = IF s = x THEN 1 ELSE 0
      BY <1>1, <1>3, <2>2, <3>1, PartialsAddUp
    <3> QED BY <2>1, <3>2, SumOfOne
  <2>3. ASSUME NEW m \in Rows PROVE SummedOnce(LAMBDA s : mem[<<"sqrsum", s, m>>])
    <3>1. ASSUME NEW k \in 0 .. call.k-1
          PROVE  MapThenSumSet(LAMBDA s : mem[<<"sqrsum", s, m>>][k], S) = 1
      <4> DEFINE f == [s \in S |-> mem[<<"sqrsum", s, m>>][k]]
      <4> DEFINE Body(iter) == [s \in SUBSET S |->
            IF s = {} THEN 0
            ELSE mem[<<"sqrsum", CHOOSE x \in s : TRUE, m>>][k]
                   + iter[s \ {CHOOSE x \in s : TRUE}]]
      <4>1. \A s \in S : f[s] = Partial(s)[k]
        <5>1. ASSUME NEW s \in S PROVE mem[<<"sqrsum", s, m>>] = Partial(s)
          <6>1. <<"sqrsum", s, m>> \in Cells
            BY <1>3 DEF Cells
          <6> QED BY <1>1, <1>3, <6>1 DEF Final
        <5> QED BY <5>1
      <4>2. ASSUME NEW iter PROVE iter = Body(iter) <=> SumsOf(iter, f, S)
        <5>1. ASSUME NEW s \in SUBSET S, s # {}
              PROVE  f[CHOOSE x \in s : TRUE] = mem[<<"sqrsum", CHOOSE x \in s : TRUE, m>>][k]
          <6>1. (CHOOSE x \in s : TRUE) \in S
            BY <5>1
          <6> QED BY <6>1
        <5> DEFINE Other == [s \in SUBSET S |->
              IF s = {} THEN 0
              ELSE f[CHOOSE x \in s : TRUE] + iter[s \ {CHOOSE x \in s : TRUE}]]
        <5> HIDE DEF f, S
        <5> DEFINE Read(s) == IF s = {} THEN 0
                              ELSE mem[<<"sqrsum", CHOOSE x \in s : TRUE, m>>][k]
                                     + iter[s \ {CHOOSE x \in s : TRUE}]
        <5> DEFINE Kept(s) == IF s = {} THEN 0
                              ELSE f[CHOOSE x \in s : TRUE] + iter[s \ {CHOOSE x \in s : TRUE}]
        <5>2. Body(iter) = Other
          <6>1. ASSUME NEW s \in SUBSET S PROVE Read(s) = Kept(s)
            <7>1. CASE s = {}
              BY <7>1
            <7>2. CASE s # {}
              BY <5>1, <7>2
            <7> QED BY <7>1, <7>2
          <6>2. Body(iter) = [s \in SUBSET S |-> Read(s)] /\ Other = [s \in SUBSET S |-> Kept(s)]
            BY Zenon
          <6> HIDE DEF Body, Other, Read, Kept
          <6> QED BY <6>1, <6>2
        <5>3. SumsOf(iter, f, S) <=> iter = Other
          BY Zenon DEF SumsOf
        <5> QED BY <5>2, <5>3, Zenon
      <4>3. MapThenSumSet(LAMBDA s : mem[<<"sqrsum", s, m>>][k], S) = (CHOOSE iter : iter = Body(iter))[S]
        BY DEF MapThenSumSet, MapThenFoldSet
      <4> DEFINE sums == CHOOSE iter : iter = Body(iter)
      <4> HIDE DEF f, Body
      <4>4. SumsOf(sums, f, S)
        BY <2>2, <4>1, <4>2
      <4>5. sums[S] = 1
        <5> HIDE DEF sums
        <5> QED BY <2>2, <4>1, <4>4
      <4> QED BY <4>3, <4>5
    <3> QED BY <3>1 DEF SummedOnce
  <2>4. ASSUME NEW m \in Rows, NEW n \in 0 .. call.n-1
        PROVE  SummedOnce(LAMBDA s : mem[<<"out", s, m, n>>])
    <3>1. ASSUME NEW k \in 0 .. call.k-1
          PROVE  MapThenSumSet(LAMBDA s : mem[<<"out", s, m, n>>][k], S) = 1
      <4> DEFINE f == [s \in S |-> mem[<<"out", s, m, n>>][k]]
      <4> DEFINE Body(iter) == [s \in SUBSET S |->
            IF s = {} THEN 0
            ELSE mem[<<"out", CHOOSE x \in s : TRUE, m, n>>][k]
                   + iter[s \ {CHOOSE x \in s : TRUE}]]
      <4>1. \A s \in S : f[s] = Partial(s)[k]
        <5>1. ASSUME NEW s \in S PROVE mem[<<"out", s, m, n>>] = Partial(s)
          <6>1. <<"out", s, m, n>> \in Cells
            BY <1>3 DEF Cells
          <6> QED BY <1>1, <1>3, <6>1 DEF Final
        <5> QED BY <5>1
      <4>2. ASSUME NEW iter PROVE iter = Body(iter) <=> SumsOf(iter, f, S)
        <5>1. ASSUME NEW s \in SUBSET S, s # {}
              PROVE  f[CHOOSE x \in s : TRUE] = mem[<<"out", CHOOSE x \in s : TRUE, m, n>>][k]
          <6>1. (CHOOSE x \in s : TRUE) \in S
            BY <5>1
          <6> QED BY <6>1
        <5> DEFINE Other == [s \in SUBSET S |->
              IF s = {} THEN 0
              ELSE f[CHOOSE x \in s : TRUE] + iter[s \ {CHOOSE x \in s : TRUE}]]
        <5> HIDE DEF f, S
        <5> DEFINE Read(s) == IF s = {} THEN 0
                              ELSE mem[<<"out", CHOOSE x \in s : TRUE, m, n>>][k]
                                     + iter[s \ {CHOOSE x \in s : TRUE}]
        <5> DEFINE Kept(s) == IF s = {} THEN 0
                              ELSE f[CHOOSE x \in s : TRUE] + iter[s \ {CHOOSE x \in s : TRUE}]
        <5>2. Body(iter) = Other
          <6>1. ASSUME NEW s \in SUBSET S PROVE Read(s) = Kept(s)
            <7>1. CASE s = {}
              BY <7>1
            <7>2. CASE s # {}
              BY <5>1, <7>2
            <7> QED BY <7>1, <7>2
          <6>2. Body(iter) = [s \in SUBSET S |-> Read(s)] /\ Other = [s \in SUBSET S |-> Kept(s)]
            BY Zenon
          <6> HIDE DEF Body, Other, Read, Kept
          <6> QED BY <6>1, <6>2
        <5>3. SumsOf(iter, f, S) <=> iter = Other
          BY Zenon DEF SumsOf
        <5> QED BY <5>2, <5>3, Zenon
      <4>3. MapThenSumSet(LAMBDA s : mem[<<"out", s, m, n>>][k], S) = (CHOOSE iter : iter = Body(iter))[S]
        BY DEF MapThenSumSet, MapThenFoldSet
      <4> DEFINE sums == CHOOSE iter : iter = Body(iter)
      <4> HIDE DEF f, Body
      <4>4. SumsOf(sums, f, S)
        BY <2>2, <4>1, <4>2
      <4>5. sums[S] = 1
        <5> HIDE DEF sums
        <5> QED BY <2>2, <4>1, <4>4
      <4> QED BY <4>3, <4>5
    <3> QED BY <3>1 DEF SummedOnce
  <2> QED BY <1>3, <2>3, <2>4
<1> QED BY <1>2, <1>3

\* For every shape, tile size, window and chosen kernel and every order of the
\* programs: a returned result is the one DeepGEMM promises.  The tiles cover
\* it, though the last of each dimension is cut; a row reads its own pages and
\* stops at its own context; all heads are in and none twice; the splits of
\* a product add up to it.
THEOREM ResultsExact == Spec => []ResultExact
BY ResultHolds, ResultsAreExact, PTL
=============================================================================
