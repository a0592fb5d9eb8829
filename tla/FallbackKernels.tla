-------------------------- MODULE FallbackKernels --------------------------
(***************************************************************************)
(* One call of a DeepGEMM replacement on GB10: the indexer's logits over   *)
(* gathered keys ("dense"), over a request's pages ("paged"), and the      *)
(* split-K product of the hyper-connections ("prenorm").  The wrapper      *)
(* (sm12x_deep_gemm_fallbacks.py) chooses a Triton kernel (sm12x_mqa.py)   *)
(* or the torch reference.  The programs of a grid run in any order; the   *)
(* torch loops run in theirs.                                              *)
(*                                                                         *)
(* Numbers are replaced by what they are made of: a logit by its query     *)
(* row, the key it read and how often each head was added; a partial       *)
(* product by how often each k was.  The loop over the head dimension is   *)
(* left out.                                                               *)
(***************************************************************************)
EXTENDS Integers, FiniteSets, FiniteSetsExt, ChunkSizes

CONSTANTS Shapes,      \* paged: <<batch_size, next_n>>
          BlockSize,   \* tokens of a page
          MaxModelLen,
          QueryCounts, KeyCounts,  \* dense: seq_len and seq_len_kv
          HeadCounts, HeadDims,
          Bytes,       \* values of _SM120_MQA_LOGITS_MAX_SCORE_BYTES
          GemmSizes,   \* prenorm: <<m, k, n, num_split>>, at least a column and a split
          RowTiles,    \* BLOCK_M of the generic paged kernel: 1, 2, 4, 8
          DenseRowTile, ColTile, WideColTile,  \* 8, 64, 128
          HeadTile,    \* BLOCK_H of the row-wise kernel: 8
          AlignHeads, AlignDim,                \* 4, 64
          GemmRowTile, GemmColTile, GemmKTile  \* 16, 16 to 32, 64

ASSUME KernelConstants ==
  /\ Shapes \subseteq (Nat \ {0}) \X (Nat \ {0}) /\ GemmSizes \subseteq Nat \X Nat \X (Nat \ {0}) \X (Nat \ {0})
  /\ QueryCounts \subseteq Nat /\ KeyCounts \subseteq Nat
  /\ Bytes \subseteq Nat /\ Bytes # {}
  /\ HeadCounts \subseteq Nat \ {0} /\ HeadDims \subseteq Nat \ {0}
  /\ RowTiles \subseteq Nat \ {0} /\ RowTiles # {}
  /\ {BlockSize, MaxModelLen, DenseRowTile, ColTile, WideColTile, HeadTile, AlignHeads,
      AlignDim, GemmRowTile, GemmColTile, GemmKTile} \subseteq Nat \ {0}

VARIABLES call,  \* the arguments, which do not change
          way,   \* the kernel chosen, "none" before
          mem,   \* cell of the result -> content
          todo,  \* programs, or loop steps, not yet run
          phase  \* calling, running, returned, raised

vars == <<call, way, mem, todo, phase>>

Junk   == <<"junk">>
NegInf == <<"-inf">>
Score(row, key, counts) == <<"score", row, key, counts>>

Cdiv(n, size)  == (n + size - 1) \div size
Grid(n, size)  == 0 .. Cdiv(n, size) - 1
Tile(p, size)  == p * size .. p * size + size - 1
Starts(n, step) == {i \in 0 .. n-1 : i % step = 0}  \* range(0, n, step)

Heads   == 0 .. call.heads-1
Once    == [h \in Heads |-> 1]
Never   == [h \in Heads |-> 0]
Rows    == 0 .. (IF call.op = "paged" THEN call.batch * call.nextN ELSE call.rows) - 1
Cols    == 0 .. (IF call.op = "paged" THEN call.count ELSE call.keys) - 1
-----------------------------------------------------------------------------
(* The pages of a paged call *)

BatchOf(r) == r \div call.nextN
QPos(r)    == r - BatchOf(r) * call.nextN

\* One length per row, or one per request for all of its rows.
ContextLen(r) ==
  LET lens == call.lens[BatchOf(r)]
  IN  IF DOMAIN lens = {0} THEN lens[0] ELSE lens[QPos(r)]

TableWidth == Cdiv(MaxModelLen, BlockSize)
Longest(b) == Max({call.lens[b][q] : q \in DOMAIN call.lens[b]})

\* The pages of the requests alternate; page 0 belongs to nobody.  Entries
\* past a request's pages are whatever the table was left with.
BlockTable(b, rank) ==
  IF rank * BlockSize < Longest(b) THEN 1 + rank * call.batch + b ELSE call.stale

\* The token a slot of a page holds.
TokenIn(block, offset) ==
  IF block = 0 THEN Junk
  ELSE <<(block - 1) % call.batch, ((block - 1) \div call.batch) * BlockSize + offset>>

TokenAt(r, pos) ==
  TokenIn(BlockTable(BatchOf(r), pos \div BlockSize), pos - (pos \div BlockSize) * BlockSize)
-----------------------------------------------------------------------------
(* Calls *)

\* The chunked top-k, which insists on Triton, asks for a window of columns
\* at a time, others for all of them.
Windows(triton, scaledQ) ==
  IF triton /\ ~scaledQ THEN {w \in (0 .. MaxModelLen) \X (0 .. MaxModelLen) : w[1] + w[2] <= MaxModelLen}
  ELSE {<<0, MaxModelLen>>}

PagedInit ==
  \E s \in Shapes, h \in HeadCounts, d \in HeadDims, t \in BOOLEAN, q \in BOOLEAN, z \in {0, 1} :
    \E given \in {0 .. 0, 0 .. s[2]-1}, w \in Windows(t, q) :
      \E l \in [0 .. s[1]-1 -> [given -> 0 .. MaxModelLen]] :
        call = [op |-> "paged", batch |-> s[1], nextN |-> s[2], heads |-> h, dim |-> d,
                lens |-> l, stale |-> z, triton |-> t, scaledQ |-> q,
                start |-> w[1], count |-> w[2]]

DenseInit ==
  \E r \in QueryCounts, k \in KeyCounts, h \in HeadCounts, b \in Bytes, t \in BOOLEAN,
     q \in BOOLEAN, c \in BOOLEAN :
    \E ks, ke \in [0 .. r-1 -> 0 .. k] :
      /\ \A i \in 0 .. r-1 : ks[i] <= ke[i]
      /\ call = [op |-> "dense", rows |-> r, keys |-> k, heads |-> h, bytes |-> b,
                 triton |-> t, scaledQ |-> q, clean |-> c, ks |-> ks, ke |-> ke]

PrenormInit ==
  \E g \in GemmSizes, d \in BOOLEAN :
    call = [op |-> "prenorm", rows |-> g[1], k |-> g[2], n |-> g[3],
            splits |-> IF d THEN g[4] ELSE 1, split |-> d]

Cells == IF call.op = "prenorm"
           THEN ({"out"} \X (0 .. call.splits-1) \X Rows \X (0 .. call.n-1))
                \cup ({"sqrsum"} \X (0 .. call.splits-1) \X Rows)
           ELSE Rows \X Cols

Init == /\ PagedInit \/ DenseInit \/ PrenormInit
        /\ way = "none" /\ todo = {} /\ phase = "calling"
        /\ mem = [c \in Cells |-> Junk]
-----------------------------------------------------------------------------
(* The choice of a kernel and its grid *)

Way ==
  CASE call.op = "dense" -> IF call.triton /\ ~call.scaledQ THEN "dense" ELSE "denseTorch"
    [] call.op = "prenorm" -> IF call.split THEN "splits" ELSE "whole"
    [] call.op = "paged" ->
         IF ~call.triton \/ call.scaledQ THEN "pagedTorch"
         ELSE IF call.dim % AlignDim = 0 /\ call.heads % AlignHeads = 0 THEN "rowwise"
         ELSE "tiles"

\* The torch references take no scaled queries, and the paged one wants a
\* length for every row.
Refused ==
  \/ Way \in {"denseTorch", "pagedTorch"} /\ call.scaledQ
  \/ Way = "pagedTorch" /\ \E b \in DOMAIN call.lens : DOMAIN call.lens[b] # 0 .. call.nextN-1

\* The smallest tile that covers the rows, or the largest there is.
RowTile == LET n == Cardinality(Rows)
           IN  IF \E t \in RowTiles : n <= t THEN Min({t \in RowTiles : n <= t})
               ELSE Max(RowTiles)

HeadChunk == HeadChunkSize(call.rows, call.keys, call.heads, call.bytes)
HeadsFrom(h0) == h0 .. Least(h0 + HeadChunk, call.heads) - 1
KeyChunk(h0)  == KeyChunkSize(call.rows, call.keys, Cardinality(HeadsFrom(h0)), call.bytes)
PageChunk     == Most(1, Min(Bytes) \div Most(1, call.heads * 4))

Programs ==
  CASE Way = "tiles"   -> Grid(Cardinality(Rows), RowTile) \X Grid(call.count, ColTile)
    [] Way = "rowwise" -> Rows \X Grid(call.count, WideColTile)
    [] Way = "dense"   -> Grid(call.rows, DenseRowTile) \X Grid(call.keys, ColTile)
    [] Way = "splits"  -> Grid(call.rows, GemmRowTile) \X Grid(call.n, GemmColTile)
                          \X (0 .. call.splits-1)
    [] Way = "whole"   -> {<<0, 0, 0>>}
    [] Way = "pagedTorch" -> {p \in Rows \X Starts(MaxModelLen, PageChunk) : p[2] < ContextLen(p[1])}
    [] Way = "denseTorch" -> UNION {{h0} \X Starts(call.keys, KeyChunk(h0)) :
                                      h0 \in Starts(call.heads, HeadChunk)}

\* What the result holds before the first program.
Blank(c) == CASE Way = "pagedTorch" -> NegInf
              [] Way = "denseTorch" -> Score(c[1], c[2], Never)
              [] OTHER -> Junk

Launch == /\ phase = "calling"
          /\ way' = Way
          /\ IF Refused
               THEN phase' = "raised" /\ UNCHANGED <<mem, todo>>
               ELSE /\ phase' = "running"
                    /\ todo' = Programs
                    /\ mem' = [c \in Cells |-> Blank(c)]
          /\ UNCHANGED call
-----------------------------------------------------------------------------
(* The programs *)

\* Mutant of Ranks: columns past the window are not masked.
RanksUnmasked(p) ==
  IF way = "tiles" THEN {(call.start + c) \div BlockSize : c \in Tile(p[2], ColTile)}
  ELSE {(call.start + c) \div BlockSize : c \in Tile(p[2], WideColTile)}

\* The places of the block table a program loads.  The generic kernel does
\* not mask by the context, which is each row's own.
Ranks(p) ==
  IF way = "tiles" THEN {(call.start + c) \div BlockSize : c \in Tile(p[2], ColTile) \cap Cols}
  ELSE {(call.start + c) \div BlockSize :
          c \in {c \in Tile(p[2], WideColTile) \cap Cols : call.start + c < ContextLen(p[1])}}

\* Mutant of HeadSteps: a tile for every aligned group of heads.
HeadStepsAligned == Starts(call.heads, AlignHeads)

\* The row-wise kernel adds the heads a tile at a time.
HeadSteps == Starts(call.heads, HeadTile)
ByTiles == [h \in Heads |-> Cardinality({h0 \in HeadSteps : h - h0 \in 0 .. HeadTile-1})]

\* A logit of a page, where the row's context reaches.
Paged(r, c, counts) ==
  IF call.start + c < ContextLen(r) THEN Score(r, TokenAt(r, call.start + c), counts) ELSE NegInf

\* A window past the row's context is filled without looking further.
Rowwise(p, c) ==
  IF call.start + p[2] * WideColTile >= ContextLen(p[1]) THEN NegInf
  ELSE Paged(p[1], c, ByTiles)

InWindow(r, k) == k >= call.ks[r] /\ k < call.ke[r]
Dense(r, k)    == IF call.clean => InWindow(r, k) THEN Score(r, k, Once) ELSE NegInf

AddHeads(cell, heads) ==
  Score(cell[2], cell[3], [h \in Heads |-> cell[4][h] + IF h \in heads THEN 1 ELSE 0])

\* Mutant of SplitLen: the remainder is dropped.
SplitLenFloor == call.k \div call.splits

SplitLen == Cdiv(call.k, call.splits)

\* How often program p adds each k to its sums.
Added(p) ==
  LET begin == p[3] * SplitLen
      end   == Least(begin + SplitLen, call.k)
  IN  [k \in 0 .. call.k-1 |->
         Cardinality({k0 \in Starts(SplitLen, GemmKTile) :
                        k < end /\ k - (begin + k0) \in 0 .. GemmKTile-1})]

\* Mutant of SquaresBy: every column of programs stores the squares.
SquaresByAll(p) == TRUE

\* One column of programs stores the sums of squares.
SquaresBy(p) == p[2] = 0

\* The cells a program stores to.
Stores(p) ==
  CASE way = "tiles"   -> (Tile(p[1], RowTile) \cap Rows) \X (Tile(p[2], ColTile) \cap Cols)
    [] way = "rowwise" -> {p[1]} \X (Tile(p[2], WideColTile) \cap Cols)
    [] way = "dense"   -> (Tile(p[1], DenseRowTile) \cap Rows) \X (Tile(p[2], ColTile) \cap Cols)
    [] way = "splits"  -> ({"out"} \X {p[3]} \X (Tile(p[1], GemmRowTile) \cap Rows)
                            \X (Tile(p[2], GemmColTile) \cap 0 .. call.n-1))
                          \cup IF SquaresBy(p)
                                 THEN {"sqrsum"} \X {p[3]} \X (Tile(p[1], GemmRowTile) \cap Rows)
                                 ELSE {}
    [] way = "whole"   -> Cells
    [] way = "pagedTorch" -> {p[1]} \X {c \in Tile(p[2] \div PageChunk, PageChunk) : c < ContextLen(p[1])}
    [] way = "denseTorch" -> Rows \X {k \in p[2] .. p[2] + KeyChunk(p[1]) - 1 : k < call.keys}

Value(p, c) ==
  CASE way = "tiles"   -> Paged(c[1], c[2], Once)
    [] way = "rowwise" -> Rowwise(p, c[2])
    [] way = "dense"   -> Dense(c[1], c[2])
    [] way = "splits"  -> Added(p)
    [] way = "whole"   -> [k \in 0 .. call.k-1 |-> 1]
    [] way = "pagedTorch" -> Score(c[1], TokenAt(c[1], c[2]), Once)
    [] way = "denseTorch" -> AddHeads(mem[c], HeadsFrom(p[1]))

Loops == {"pagedTorch", "denseTorch"}
Before(p, o) == p[1] < o[1] \/ (p[1] = o[1] /\ p[2] <= o[2])

Program(p) ==
  /\ phase = "running"
  /\ way \in Loops => \A o \in todo : Before(p, o)
  /\ mem' = [c \in DOMAIN mem |-> IF c \in Stores(p) THEN Value(p, c) ELSE mem[c]]
  /\ todo' = todo \ {p}
  /\ UNCHANGED <<call, way, phase>>

\* The torch reference for gathered keys masks at the end.
Finish == /\ phase = "running" /\ todo = {}
          /\ mem' = IF way = "denseTorch" /\ call.clean
                      THEN [c \in DOMAIN mem |-> IF InWindow(c[1], c[2]) THEN mem[c] ELSE NegInf]
                      ELSE mem
          /\ phase' = "returned"
          /\ UNCHANGED <<call, way, todo>>

Next == Launch \/ (\E p \in todo : Program(p)) \/ Finish

Spec == Init /\ [][Next]_vars
-----------------------------------------------------------------------------
(* Properties *)

\* No head enters a logit twice.
TypeOK ==
  /\ phase \in {"calling", "running", "returned", "raised"}
  /\ DOMAIN mem = Cells
  /\ call.op # "prenorm" =>
       \A c \in DOMAIN mem : \/ mem[c] \in {Junk, NegInf}
                             \/ mem[c][1] = "score" /\ \A h \in Heads : mem[c][4][h] \in {0, 1}

\* Every way of computing a result gives the one DeepGEMM promises: a logit
\* for each key of the row's own context, from the row's own pages and all
\* heads, minus infinity elsewhere, and partial products that add up over
\* the splits.
Expected(c) ==
  IF call.op = "dense" THEN Dense(c[1], c[2])
  ELSE IF call.start + c[2] < ContextLen(c[1])
         THEN Score(c[1], <<BatchOf(c[1]), call.start + c[2]>>, Once)
         ELSE NegInf

SummedOnce(cell(_)) ==
  \A k \in 0 .. call.k-1 : MapThenSumSet(LAMBDA s : cell(s)[k], 0 .. call.splits-1) = 1

ResultExact ==
  phase = "returned" =>
    IF call.op = "prenorm"
      THEN \A m \in Rows : /\ SummedOnce(LAMBDA s : mem[<<"sqrsum", s, m>>])
                           /\ \A n \in 0 .. call.n-1 : SummedOnce(LAMBDA s : mem[<<"out", s, m, n>>])
      ELSE \A c \in Cells : mem[c] = Expected(c)

\* No program looks beyond the end of a request's block table.
TableReadsInside ==
  way \in {"tiles", "rowwise"} => \A p \in todo : Ranks(p) \subseteq 0 .. TableWidth-1

\* No two programs of a grid store to the same cell.
NoRaces ==
  way \notin Loops => \A p, o \in todo : p # o => Stores(p) \cap Stores(o) = {}
=============================================================================
