------------------------------ MODULE MlaCache ------------------------------
(***************************************************************************)
(* The sparse-MLA key/value cache and the attention that reads it          *)
(* (sm12x_sparse_mla_attn.py), with either record layout.  A store writes  *)
(* one record per token (_nvfp4ds_scatter_kernel; fp8 records are written  *)
(* by a native kernel); attention gathers the slots the indexer chose,     *)
(* decodes them and accumulates a softmax tile by tile.                    *)
(*                                                                         *)
(* Bytes carry whose they are and which part, not their value.  A token's  *)
(* score, the dot product with the query, is an integer and its weight a   *)
(* power of two: Weight(d) is that of a score d below the maximum.  One    *)
(* query row and one head are modelled, they do not interact.              *)
(***************************************************************************)
EXTENDS MlaRecord, Sequences, FiniteSetsExt

CONSTANTS NumSlots,   \* total_slots
          MaxTokens,  \* bound: tokens stored
          BatchSizes, \* tokens per store
          TopK,       \* width of the index rows
          BlockN,     \* candidates per tile of the fused kernels
          MaxScore    \* scores are 0 .. MaxScore

ASSUME CacheConstants ==
  /\ NumSlots \in Nat \ {0} /\ MaxTokens \in Nat /\ BatchSizes \subseteq Nat \ {0}
  /\ TopK \in Nat \ {0} /\ BlockN \in Nat \ {0} /\ MaxScore \in Nat
  /\ EntryBytes("nvfp4") # EntryBytes("fp8")

Slots   == 0 .. NumSlots-1
Tokens  == 1 .. MaxTokens
Nothing == 0
NegInf  == -1 \* below every score

VARIABLES width,                 \* k_cache.shape[-1]
          cache,                 \* address -> byte
          stored,                \* tokens stored so far
          pending,               \* programs of the store under way
          pc,
          fused, indices, lens,  \* the attention call,
          score,                 \* and the scores of its query
          n0, runMax, denom, acc \* its loop and running state

call == <<fused, indices, lens, score>>
loop == <<n0, runMax, denom, acc>>
vars == <<width, cache, stored, pending, pc, call, loop>>
-----------------------------------------------------------------------------
(* Records in memory *)

\* Mutant of Base: 32-bit arithmetic, in which the last slot's address wraps.
BaseWrapped(slot) == (slot * width) % ((NumSlots - 1) * width)

\* slot.to(int64) * stride_cache_s
Base(slot) == slot * width
Format     == FormatOf(width)
At(slot, o) == cache[Base(slot) + o]

\* All parts read for the record at slot are those of token t.
Holds(slot, t) ==
  /\ \A i \in 0 .. NopeDim-1 :
       LET byte == At(slot, NopeByte(Format, i))
       IN  /\ byte[1] = t /\ byte[2] = "nope"
           /\ byte[3][Nibble(Format, i)] = i
           /\ \A b \in 0 .. ScaleBytes(Format)-1 :
                At(slot, ScaleByte(Format, i, b)) =
                  <<t, "scale", (i \div PerScale(Format)) * ScaleBytes(Format) + b>>
  /\ \A j \in 0 .. RopeDim-1 : \A b \in {0, 1} :
       At(slot, RopeByte(Format, j, b)) = <<t, "rope", 2 * j + b>>

\* The token whose record a reader finds at slot.
Decoded(slot) == LET t == At(slot, 0)[1]
                 IN  IF t \in Tokens /\ Holds(slot, t) THEN t ELSE Nothing

Weight(d) == 2 ^ (MaxScore - d)
NoAcc     == [t \in Tokens |-> 0]

Init == /\ width \in {EntryBytes(fmt) : fmt \in Formats}
        /\ cache = [a \in 0 .. NumSlots * width - 1 |-> << Nothing >>]
        /\ stored = 0
        /\ pending = {}
        /\ pc = "idle"
        /\ fused = TRUE /\ indices = << >> /\ lens = 0 /\ score = << >>
        /\ n0 = 0 /\ runMax = NegInf /\ denom = 0 /\ acc = NoAcc
-----------------------------------------------------------------------------
(* Store *)

\* The slot mapping of a step: distinct slots, and -1 for a padding token.
Store == /\ pc = "idle"
         /\ \E n \in BatchSizes :
            \E slot \in [1 .. n -> Slots \cup {-1}] :
              /\ stored + n <= MaxTokens
              /\ \A i, j \in 1 .. n : i # j => slot[i] # slot[j] \/ slot[i] = -1
              /\ pending' = {[slot |-> slot[i], token |-> stored + i] : i \in 1 .. n}
              /\ stored' = stored + n
         /\ pc' = "store"
         /\ UNCHANGED <<width, cache, call, loop>>

\* Mutant of Written: the slot is not tested.
WrittenUntested(w) ==
  [a \in DOMAIN cache |->
     LET o == a - (IF w.slot < 0 THEN w.slot + NumSlots ELSE w.slot) * width
     IN  IF o \in 0 .. width-1 THEN ByteOf(Format, w.token, o) ELSE cache[a]]

\* One program of the scatter kernel, which returns at once for slot -1.
Written(w) ==
  [a \in DOMAIN cache |->
     LET o == a - Base(w.slot)
     IN  IF w.slot >= 0 /\ o \in 0 .. width-1
           THEN ByteOf(Format, w.token, o) ELSE cache[a]]

Scatter == /\ pc = "store"
           /\ \E w \in pending :
                /\ cache' = Written(w)
                /\ pending' = pending \ {w}
           /\ pc' = IF pending' = {} THEN "idle" ELSE "store"
           /\ UNCHANGED <<width, stored, call, loop>>
-----------------------------------------------------------------------------
(* Attention *)

\* The indexer's row of global slots: slots that hold a token, -1, or a
\* number beyond the cache; topk_length caps how many count.
Attend == /\ pc = "idle"
          /\ fused' \in BOOLEAN
          /\ LET held == {s \in Slots : Decoded(s) # Nothing}
             IN  /\ indices' \in [0 .. TopK-1 -> held \cup {-1, NumSlots}]
                 /\ score' \in [{Decoded(s) : s \in held} -> 0 .. MaxScore]
          /\ lens' \in 0 .. TopK
          /\ n0' = 0 /\ runMax' = NegInf /\ denom' = 0 /\ acc' = NoAcc
          /\ pc' = "tiles"
          /\ UNCHANGED <<width, cache, stored, pending>>

\* Mutant of Counts: the cap is not applied.
CountsAll(c) == indices[c] >= 0 /\ indices[c] < NumSlots

Counts(c) == indices[c] >= 0 /\ indices[c] < NumSlots /\ c < lens

TileWidth == IF fused THEN BlockN ELSE 1
Tile      == {c \in n0 .. n0 + TileWidth - 1 : c < TopK /\ Counts(c)}
ScoreOf(c) == score[Decoded(indices[c])]

\* The weights of candidates under a maximum, added up; those of one token.
Weighed(max, cands) == MapThenSumSet(LAMBDA c : Weight(max - ScoreOf(c)), cands)
Of(t, cands)        == {c \in cands : Decoded(indices[c]) = t}

\* Mutant of MoreTiles: the loop runs once too often.
MoreTilesOff == n0 <= TopK

MoreTiles == n0 < TopK

\* Mutant of Rescaled: the accumulator keeps its old scale.
RescaledNever(x, next) == x

\* previous_weight: 0 as long as no candidate was seen.
Rescaled(x, next) ==
  IF runMax = NegInf THEN 0 ELSE x \div 2 ^ (next - runMax)

\* One tile of the fused kernel, or one candidate of the materialized one.
\* A tile without a valid candidate leaves the running state alone.
DoTile ==
  /\ pc = "tiles" /\ MoreTiles
  /\ LET tileMax == IF Tile = {} THEN NegInf ELSE Max({ScoreOf(c) : c \in Tile})
         next    == IF tileMax > runMax THEN tileMax ELSE runMax
     IN  /\ runMax' = next
         /\ denom' = Rescaled(denom, next) + Weighed(next, Tile)
         /\ acc' = [t \in Tokens |-> Rescaled(acc[t], next) + Weighed(next, Of(t, Tile))]
  /\ n0' = n0 + TileWidth
  /\ UNCHANGED <<width, cache, stored, pending, pc, call>>

Finish == /\ pc = "tiles" /\ ~MoreTiles
          /\ pc' = "idle"
          /\ fused' = TRUE /\ indices' = << >> /\ lens' = 0 /\ score' = << >>
          /\ n0' = 0 /\ runMax' = NegInf /\ denom' = 0 /\ acc' = NoAcc
          /\ UNCHANGED <<width, cache, stored, pending>>

Next == Store \/ Scatter \/ Attend \/ DoTile \/ Finish

Spec == Init /\ [][Next]_vars
-----------------------------------------------------------------------------
(* Properties *)

TypeOK == /\ width \in {EntryBytes(fmt) : fmt \in Formats}
          /\ stored \in 0 .. MaxTokens
          /\ pc \in {"idle", "store", "tiles"}
          /\ DOMAIN cache = 0 .. NumSlots * width - 1
          /\ n0 \in 0 .. TopK + TileWidth - 1
          /\ runMax \in NegInf .. MaxScore
          /\ denom \in Nat /\ acc \in [Tokens -> Nat]

\* The running state is the softmax of the candidates the indexer chose among
\* those passed so far, and of no other, whatever the tiles were, wherever the
\* maximum came, and with tiles that hold no valid candidate; the fused and
\* the materialized path agree.
SoftmaxOfPrefix ==
  pc = "tiles" =>
    LET seen == {c \in 0 .. lens-1 : c < n0 /\ indices[c] \in Slots}
        top  == IF seen = {} THEN NegInf ELSE Max({ScoreOf(c) : c \in seen})
    IN  /\ runMax = top
        /\ denom = Weighed(top, seen)
        /\ \A t \in Tokens : acc[t] = Weighed(top, Of(t, seen))

\* Reading every slot through the layout, the cache is the map it promises:
\* each program puts its own token at its own slot, and changes no other
\* record; a token without a slot changes none.
Records == INSTANCE KvMap
             WITH todo <- pending, map <- [s \in Slots |-> Decoded(s)]
StoresRecords == Records!KMSpec
=============================================================================
