---------------------------- MODULE MlaCacheProof ----------------------------
(***************************************************************************)
(* Proofs about MlaCache, for every record geometry, cache size, batch and *)
(* tile width.  The store: the parts of a record do not overlap and are    *)
(* read where they were written, records of different slots are disjoint,  *)
(* and so the cache of bytes is a map from slots to tokens.  The attention *)
(* loop: sums of weights add up over disjoint sets and scale by powers of  *)
(* two, so rescaling the running state loses nothing and it stays the      *)
(* softmax of the candidates seen.                                         *)
(***************************************************************************)
EXTENDS MlaCache, FiniteSetTheorems, WellFoundedInduction, TLAPS

(* Arithmetic *)

LEMMA Division ==
  ASSUME NEW a \in Nat, NEW d \in Nat \ {0}
  PROVE  /\ a \div d \in Nat
         /\ a % d \in 0 .. d-1
         /\ a = d * (a \div d) + (a % d)
<1>1. a \div d \in Nat
  BY SMT
<1>2. a % d \in 0 .. d-1
  BY SMT
<1>3. a = d * (a \div d) + (a % d)
  BY Z3
<1> QED BY <1>1, <1>2, <1>3

LEMMA TimesMonotone ==
  \A a, b, d \in Nat : a <= b => a * d <= b * d
BY SMT

\* One of the first n numbers lies in one of the first n \div d pieces of d.
LEMMA PieceInRange ==
  ASSUME NEW n \in Nat, NEW d \in Nat \ {0}, n % d = 0, NEW i \in 0 .. n-1
  PROVE  i \div d \in 0 .. (n \div d) - 1
<1> DEFINE p == i \div d
<1> DEFINE q == n \div d
<1>1. p \in Nat /\ q \in Nat /\ d * p <= i /\ n = d * q
  BY Division
<1>2. SUFFICES ASSUME q <= p PROVE FALSE
  BY <1>1
<1>3. q * d <= p * d
  BY <1>1, <1>2, TimesMonotone
<1>4. q * d = d * q /\ p * d = d * p
  BY <1>1
<1> QED BY <1>1, <1>3, <1>4

\* Different slots have their bytes apart.
LEMMA SlotsApart ==
  ASSUME NEW x \in Nat, NEW y \in Nat, x # y, NEW len \in Nat, NEW o \in 0 .. len-1
  PROVE  (x * len + o) - y * len \notin 0 .. len-1
<1>1. x * len \in Nat /\ y * len \in Nat
  BY SMT
<1>2. CASE x < y
  <2>1. (x + 1) * len <= y * len
    BY <1>2, TimesMonotone
  <2>2. (x + 1) * len = x * len + len
    BY SMT
  <2> QED BY <1>1, <2>1, <2>2
<1>3. CASE y < x
  <2>1. (y + 1) * len <= x * len
    BY <1>3, TimesMonotone
  <2>2. (y + 1) * len = y * len + len
    BY SMT
  <2> QED BY <1>1, <2>1, <2>2
<1> QED BY <1>2, <1>3

\* A record lies within the cache.
LEMMA SlotInside ==
  ASSUME NEW x \in Nat, NEW count \in Nat, x < count, NEW len \in Nat, NEW o \in 0 .. len-1
  PROVE  x * len + o \in 0 .. count * len - 1
<1>1. x * len \in Nat /\ count * len \in Nat /\ (x + 1) * len = x * len + len
  BY SMT
<1>2. (x + 1) * len <= count * len
  BY TimesMonotone
<1> QED BY <1>1, <1>2
-----------------------------------------------------------------------------
(* The layouts *)

LEMMA Parts ==
  ASSUME NEW fmt \in Formats
  PROVE  /\ PerByte(fmt) \in {1, 2} /\ NopeDim % PerByte(fmt) = 0
         /\ PerScale(fmt) \in Nat \ {0} /\ NopeDim % PerScale(fmt) = 0
         /\ ScaleBytes(fmt) \in Nat \ {0}
         /\ NopeBytes(fmt) \in Nat \ {0} /\ NumScales(fmt) \in Nat
         /\ ScaleOff(fmt) = NopeBytes(fmt)
<1>1. fmt \in {"nvfp4", "fp8"}
  BY DEF Formats
<1>2. /\ PerByte(fmt) \in {1, 2} /\ NopeDim % PerByte(fmt) = 0
      /\ PerScale(fmt) \in Nat \ {0} /\ NopeDim % PerScale(fmt) = 0
      /\ ScaleBytes(fmt) \in Nat \ {0}
  BY <1>1, RecordConstants DEF PerByte, PerScale, ScaleBytes
<1>3. NopeBytes(fmt) \in Nat \ {0}
  BY <1>2, RecordConstants DEF NopeBytes
<1>4. NumScales(fmt) \in Nat
  BY <1>2, RecordConstants, Division DEF NumScales
<1> QED BY <1>2, <1>3, <1>4 DEF ScaleOff

LEMMA Offsets ==
  ASSUME NEW fmt \in Formats
  PROVE  /\ ScaleOff(fmt) \in Nat \ {0} /\ RopeOff(fmt) \in Nat /\ EntryBytes(fmt) \in Nat
         /\ RopeOff(fmt) = ScaleOff(fmt) + ScaleBytes(fmt) * NumScales(fmt)
         /\ ScaleOff(fmt) <= RopeOff(fmt)
         /\ EntryBytes(fmt) = RopeOff(fmt) + 2 * RopeDim
<1>1. ScaleBytes(fmt) * NumScales(fmt) \in Nat
  BY Parts
<1> QED BY <1>1, Parts, RecordConstants DEF RopeOff, EntryBytes

LEMMA FormatIsTold ==
  ASSUME NEW fmt \in Formats
  PROVE  FormatOf(EntryBytes(fmt)) = fmt
BY CacheConstants DEF FormatOf, Formats

\* An element is read from the byte and the nibble it was packed into.
LEMMA NopeRead ==
  ASSUME NEW fmt \in Formats, NEW t, NEW i \in 0 .. NopeDim-1
  PROVE  LET o == NopeByte(fmt, i)
         IN  /\ o \in 0 .. EntryBytes(fmt) - 1
             /\ ByteOf(fmt, t, o)[1] = t /\ ByteOf(fmt, t, o)[2] = "nope"
             /\ ByteOf(fmt, t, o)[3][Nibble(fmt, i)] = i
<1> DEFINE d == PerByte(fmt)
<1> DEFINE o == NopeByte(fmt, i)
<1>1. o \in 0 .. ScaleOff(fmt) - 1
  BY Parts, RecordConstants, PieceInRange DEF NopeByte, NopeBytes
<1>2. ByteOf(fmt, t, o) = <<t, "nope", [x \in 0 .. d-1 |-> o * d + x]>>
  <2>1. ~(RopeOff(fmt) <= o) /\ ~(ScaleOff(fmt) <= o)
    BY <1>1, Offsets
  <2> QED BY <2>1 DEF ByteOf
<1>3. Nibble(fmt, i) \in 0 .. d-1 /\ o * d + Nibble(fmt, i) = i
  <2>1. d \in {1, 2} /\ i \in Nat
    BY Parts, RecordConstants
  <2> QED BY <2>1 DEF NopeByte, Nibble
<1>4. [x \in 0 .. d-1 |-> o * d + x][Nibble(fmt, i)] = i
  BY <1>3
<1> QED BY <1>1, <1>2, <1>4, Offsets, RecordConstants

LEMMA ScaleByteOf ==
  ASSUME NEW fmt, NEW t, NEW o, ScaleOff(fmt) <= o, ~(RopeOff(fmt) <= o)
  PROVE  ByteOf(fmt, t, o) = <<t, "scale", o - ScaleOff(fmt)>>
BY DEF ByteOf

\* A scale is read where it was written, and lies after the elements and
\* before the RoPE part.
LEMMA ScaleRead ==
  ASSUME NEW fmt \in Formats, NEW t, NEW i \in 0 .. NopeDim-1, NEW b \in 0 .. ScaleBytes(fmt)-1
  PROVE  LET o == ScaleByte(fmt, i, b)
         IN  /\ o \in 0 .. EntryBytes(fmt) - 1
             /\ ByteOf(fmt, t, o) = <<t, "scale", (i \div PerScale(fmt)) * ScaleBytes(fmt) + b>>
<1> DEFINE g == i \div PerScale(fmt)
<1> DEFINE len == ScaleBytes(fmt)
<1> DEFINE o == ScaleByte(fmt, i, b)
<1>1. g \in 0 .. NumScales(fmt) - 1
  BY Parts, RecordConstants, PieceInRange DEF NumScales
<1>2. g * len + b \in 0 .. NumScales(fmt) * len - 1
  BY <1>1, Parts, SlotInside
<1>3. o = ScaleOff(fmt) + (g * len + b)
  BY <1>1, Parts, Offsets DEF ScaleByte
<1>4. NumScales(fmt) * len = len * NumScales(fmt)
  BY Parts
<1>5. ScaleOff(fmt) <= o /\ o < RopeOff(fmt) /\ o \in Nat /\ o - ScaleOff(fmt) = g * len + b
  <2> DEFINE r == g * len + b
  <2>1. r \in 0 .. len * NumScales(fmt) - 1 /\ o = ScaleOff(fmt) + r
    BY <1>2, <1>3, <1>4
  <2>2. len * NumScales(fmt) \in Nat /\ RopeOff(fmt) = ScaleOff(fmt) + len * NumScales(fmt)
    BY Offsets, Parts
  <2> HIDE DEF o, r, g, len
  <2>3. ScaleOff(fmt) <= o /\ o < RopeOff(fmt) /\ o \in Nat /\ o - ScaleOff(fmt) = r
    BY <2>1, <2>2, Offsets
  <2> QED BY <2>3 DEF r
<1>6. ByteOf(fmt, t, o) = <<t, "scale", g * len + b>>
  <2>1. ScaleOff(fmt) <= o /\ ~(RopeOff(fmt) <= o)
    BY <1>5, Offsets
  <2> HIDE DEF o, g, len
  <2> QED BY <1>5, <2>1, ScaleByteOf
<1>7. o \in 0 .. EntryBytes(fmt) - 1
  BY <1>5, Offsets, RecordConstants
<1> QED BY <1>6, <1>7

LEMMA RopeRead ==
  ASSUME NEW fmt \in Formats, NEW t, NEW j \in 0 .. RopeDim-1, NEW b \in {0, 1}
  PROVE  LET o == RopeByte(fmt, j, b)
         IN  /\ o \in 0 .. EntryBytes(fmt) - 1
             /\ ByteOf(fmt, t, o) = <<t, "rope", 2 * j + b>>
BY Offsets, RecordConstants DEF RopeByte, ByteOf
\* What a reader looks at lies within the record.
LEMMA ReadsInside ==
  ASSUME NEW fmt \in Formats
  PROVE  /\ 0 \in 0 .. EntryBytes(fmt) - 1
         /\ \A i \in 0 .. NopeDim-1 :
              /\ NopeByte(fmt, i) \in 0 .. EntryBytes(fmt) - 1
              /\ \A b \in 0 .. ScaleBytes(fmt)-1 :
                   ScaleByte(fmt, i, b) \in 0 .. EntryBytes(fmt) - 1
         /\ \A j \in 0 .. RopeDim-1 : \A b \in {0, 1} :
              RopeByte(fmt, j, b) \in 0 .. EntryBytes(fmt) - 1
<1>1. 0 \in 0 .. EntryBytes(fmt) - 1
  BY Offsets, RecordConstants
<1> QED BY <1>1, NopeRead, ScaleRead, RopeRead
-----------------------------------------------------------------------------
(* The invariant *)

Ticket == [slot : Slots \cup {-1}, token : Tokens]

CInv == /\ width \in {EntryBytes(fmt) : fmt \in Formats}
        /\ DOMAIN cache = 0 .. NumSlots * width - 1
        /\ stored \in 0 .. MaxTokens
        /\ pending \subseteq Ticket
        /\ pc # "store" => pending = {}

LEMMA WidthIsOfFormat ==
  ASSUME CInv
  PROVE  Format \in Formats /\ width = EntryBytes(Format) /\ width \in Nat
<1>1. PICK fmt \in Formats : width = EntryBytes(fmt)
  BY DEF CInv
<1>2. Format = fmt
  BY <1>1, FormatIsTold DEF Format
<1> QED BY <1>1, <1>2, Offsets

\* Every byte of every slot has an address.
LEMMA Addresses ==
  ASSUME CInv, NEW s \in Slots, NEW o \in 0 .. width-1
  PROVE  Base(s) + o \in DOMAIN cache
<1>1. s \in Nat /\ s < NumSlots /\ NumSlots \in Nat /\ width \in Nat
  BY WidthIsOfFormat, CacheConstants DEF Slots
<1> QED BY <1>1, SlotInside DEF CInv, Base

LEMMA InitCInv == Init => CInv
<1> SUFFICES ASSUME Init PROVE CInv
  OBVIOUS
<1>1. width \in {EntryBytes(fmt) : fmt \in Formats}
  BY DEF Init
<1>2. DOMAIN cache = 0 .. NumSlots * width - 1
  BY DEF Init
<1>3. stored \in 0 .. MaxTokens
  BY CacheConstants DEF Init
<1>4. pending \subseteq Ticket /\ (pc # "store" => pending = {})
  BY DEF Init
<1> QED BY <1>1, <1>2, <1>3, <1>4 DEF CInv

LEMMA NextCInv == CInv /\ [Next]_vars => CInv'
<1> SUFFICES ASSUME CInv, [Next]_vars PROVE CInv'
  OBVIOUS
<1>1. CASE Store
  <2>1. UNCHANGED <<width, cache>> /\ pc' = "store"
    BY <1>1 DEF Store
  <2>2. PICK n \in BatchSizes : \E slot \in [1 .. n -> Slots \cup {-1}] :
          /\ stored + n <= MaxTokens
          /\ pending' = {[slot |-> slot[i], token |-> stored + i] : i \in 1 .. n}
          /\ stored' = stored + n
    BY <1>1 DEF Store
  <2>3. PICK slot \in [1 .. n -> Slots \cup {-1}] :
          /\ stored + n <= MaxTokens
          /\ pending' = {[slot |-> slot[i], token |-> stored + i] : i \in 1 .. n}
          /\ stored' = stored + n
    BY <2>2
  <2>4. n \in Nat \ {0} /\ MaxTokens \in Nat /\ stored \in 0 .. MaxTokens
    BY CacheConstants DEF CInv
  <2>5. stored' \in 0 .. MaxTokens
    BY <2>3, <2>4
  <2>6. ASSUME NEW i \in 1 .. n
        PROVE  [slot |-> slot[i], token |-> stored + i] \in Ticket
    <3>1. stored + i \in Tokens
      BY <2>3, <2>4 DEF Tokens
    <3> QED BY <3>1 DEF Ticket
  <2>7. pending' \subseteq Ticket
    BY <2>3, <2>6
  <2> QED BY <2>1, <2>5, <2>7 DEF CInv, Ticket, Slots, Tokens
<1>2. CASE Scatter
  <2>1. UNCHANGED <<width, stored>>
    BY <1>2 DEF Scatter
  <2>2. PICK w \in pending : cache' = Written(w) /\ pending' = pending \ {w}
    BY <1>2 DEF Scatter
  <2>3. DOMAIN cache' = DOMAIN cache
    BY <2>2 DEF Written
  <2>4. pc' # "store" => pending' = {}
    BY <1>2 DEF Scatter
  <2> QED BY <2>1, <2>2, <2>3, <2>4 DEF CInv, Ticket, Slots, Tokens
<1>3. CASE Attend
  BY <1>3 DEF Attend, CInv, Ticket, Slots, Tokens
<1>4. CASE DoTile
  BY <1>4 DEF DoTile, CInv, Ticket, Slots, Tokens
<1>5. CASE Finish
  BY <1>5 DEF Finish, CInv, Ticket, Slots, Tokens
<1>6. CASE UNCHANGED vars
  BY <1>6 DEF vars, CInv, Ticket, Slots, Tokens
<1> QED BY <1>1, <1>2, <1>3, <1>4, <1>5, <1>6 DEF Next
-----------------------------------------------------------------------------
(* What a program of the scatter kernel does to the records *)

\* A record whose bytes stay is read as before.
LEMMA Kept ==
  ASSUME CInv, width' = width, NEW s \in Slots,
         \A o \in 0 .. width-1 : At(s, o)' = At(s, o)
  PROVE  Decoded(s)' = Decoded(s)
<1>1. Format \in Formats /\ width = EntryBytes(Format)
  BY WidthIsOfFormat
<1>2. Format' = Format
  BY DEF Format
<1>3. At(s, 0)' = At(s, 0)
  BY <1>1, ReadsInside
<1>4. ASSUME NEW t PROVE Holds(s, t)' <=> Holds(s, t)
  <2>1. ASSUME NEW i \in 0 .. NopeDim-1
        PROVE  /\ At(s, NopeByte(Format, i))' = At(s, NopeByte(Format, i))
               /\ \A b \in 0 .. ScaleBytes(Format)-1 :
                    At(s, ScaleByte(Format, i, b))' = At(s, ScaleByte(Format, i, b))
    BY <1>1, <1>2, ReadsInside
  <2>2. ASSUME NEW j \in 0 .. RopeDim-1, NEW b \in {0, 1}
        PROVE  At(s, RopeByte(Format, j, b))' = At(s, RopeByte(Format, j, b))
    BY <1>1, <1>2, ReadsInside
  <2> QED BY <1>2, <2>1, <2>2 DEF Holds
<1> QED BY <1>3, <1>4 DEF Decoded

\* The program's own slot is read as its token.
LEMMA Arrives ==
  ASSUME CInv, width' = width, NEW w \in Ticket, w.slot \in Slots, cache' = Written(w)
  PROVE  Decoded(w.slot)' = w.token
<1> DEFINE s == w.slot
<1> DEFINE t == w.token
<1>1. Format \in Formats /\ width = EntryBytes(Format) /\ width \in Nat
  BY WidthIsOfFormat
<1>2. Format' = Format
  BY DEF Format
<1>3. s \in Nat /\ Base(s) \in Nat /\ t \in Tokens
  BY <1>1, CacheConstants DEF Slots, Base, Ticket
<1>4. ASSUME NEW o \in 0 .. width-1
      PROVE  At(s, o)' = ByteOf(Format, t, o)
  <2>1. Base(s) + o \in DOMAIN cache
    BY Addresses
  <2>2. (Base(s) + o) - Base(s) = o
    BY <1>3
  <2>3. Written(w)[Base(s) + o] = ByteOf(Format, t, o)
    BY <1>3, <2>1, <2>2 DEF Written
  <2> QED BY <2>3 DEF At, Base
<1>5. ASSUME NEW i \in 0 .. NopeDim-1
      PROVE  LET byte == At(s, NopeByte(Format, i))'
             IN  byte[1] = t /\ byte[2] = "nope" /\ byte[3][Nibble(Format, i)] = i
  <2>1. NopeByte(Format, i) \in 0 .. width-1
    BY <1>1, ReadsInside
  <2>2. At(s, NopeByte(Format, i))' = ByteOf(Format, t, NopeByte(Format, i))
    BY <1>2, <1>4, <2>1
  <2> QED BY <1>1, <2>2, NopeRead
<1>6. ASSUME NEW i \in 0 .. NopeDim-1, NEW b \in 0 .. ScaleBytes(Format)-1
      PROVE  At(s, ScaleByte(Format, i, b))' =
               <<t, "scale", (i \div PerScale(Format)) * ScaleBytes(Format) + b>>
  <2>1. ScaleByte(Format, i, b) \in 0 .. width-1
    BY <1>1, ReadsInside
  <2>2. At(s, ScaleByte(Format, i, b))' = ByteOf(Format, t, ScaleByte(Format, i, b))
    BY <1>2, <1>4, <2>1
  <2> QED BY <1>1, <2>2, ScaleRead
<1>7. ASSUME NEW j \in 0 .. RopeDim-1, NEW b \in {0, 1}
      PROVE  At(s, RopeByte(Format, j, b))' = <<t, "rope", 2 * j + b>>
  <2>1. RopeByte(Format, j, b) \in 0 .. width-1
    BY <1>1, ReadsInside
  <2>2. At(s, RopeByte(Format, j, b))' = ByteOf(Format, t, RopeByte(Format, j, b))
    BY <1>2, <1>4, <2>1
  <2> QED BY <1>1, <2>2, RopeRead
<1>8. Holds(s, t)'
  BY <1>2, <1>5, <1>6, <1>7 DEF Holds
<1>9. At(s, 0)'[1] = t
  <2>1. 0 \in 0 .. NopeDim-1 /\ NopeByte(Format, 0) = 0
    BY <1>1, Parts, RecordConstants DEF NopeByte
  <2>2. At(s, NopeByte(Format, 0))'[1] = t
    BY <1>5, <2>1
  <2> QED BY <1>2, <2>1, <2>2
<1> QED BY <1>3, <1>8, <1>9 DEF Decoded

\* Every other slot is read as before.
LEMMA OthersKept ==
  ASSUME CInv, width' = width, NEW w \in Ticket, cache' = Written(w),
         NEW s \in Slots, s # w.slot
  PROVE  Decoded(s)' = Decoded(s)
<1>1. width \in Nat /\ s \in Nat
  BY WidthIsOfFormat, CacheConstants DEF Slots
<1>2. ASSUME NEW o \in 0 .. width-1
      PROVE  At(s, o)' = At(s, o)
  <2>1. Base(s) + o \in DOMAIN cache
    BY Addresses
  <2>2. ASSUME w.slot >= 0
        PROVE  (Base(s) + o) - Base(w.slot) \notin 0 .. width-1
    <3>1. w.slot \in Nat
      BY <2>2, CacheConstants DEF Ticket, Slots
    <3> QED BY <1>1, <3>1, SlotsApart DEF Base
  <2>3. Written(w)[Base(s) + o] = cache[Base(s) + o]
    BY <2>1, <2>2 DEF Written
  <2> QED BY <2>3 DEF At, Base
<1> QED BY <1>2, Kept
-----------------------------------------------------------------------------
(* The refinement *)

LEMMA InitRecords == Init => Records!KMInit
<1> SUFFICES ASSUME Init PROVE Records!KMInit
  OBVIOUS
<1>1. CInv
  BY InitCInv
<1>2. ASSUME NEW s \in Slots PROVE Decoded(s) = Nothing
  <2>1. 0 \in 0 .. width-1
    BY <1>1, WidthIsOfFormat, ReadsInside
  <2>2. Base(s) + 0 \in DOMAIN cache
    BY <1>1, <2>1, Addresses
  <2>3. At(s, 0) = << Nothing >>
    BY <2>2 DEF Init, At
  <2>4. Nothing \notin Tokens
    BY CacheConstants DEF Nothing, Tokens
  <2> QED BY <2>3, <2>4 DEF Decoded
<1> QED BY <1>2 DEF Records!KMInit, Init

LEMMA StepRecords ==
  CInv /\ [Next]_vars => [Records!HandIn \/ Records!Arrive]_Records!kmVars
<1> SUFFICES ASSUME CInv, [Next]_vars
             PROVE  [Records!HandIn \/ Records!Arrive]_Records!kmVars
  OBVIOUS
<1> DEFINE map == [s \in Slots |-> Decoded(s)]
<1>1. ASSUME UNCHANGED <<width, cache>> PROVE map' = map
  <2>1. ASSUME NEW s \in Slots PROVE Decoded(s)' = Decoded(s)
    BY <1>1, <2>1, Kept DEF At, Base
  <2> QED BY <2>1
<1>2. CASE Store
  <2>1. map' = map
    BY <1>1, <1>2 DEF Store
  <2>2. pending = {}
    BY <1>2 DEF Store, CInv
  <2>3. pending' # {}
    <3>1. PICK n \in BatchSizes : \E slot \in [1 .. n -> Slots \cup {-1}] :
            pending' = {[slot |-> slot[i], token |-> stored + i] : i \in 1 .. n}
      BY <1>2 DEF Store
    <3>2. 1 \in 1 .. n
      BY CacheConstants
    <3> QED BY <3>1, <3>2
  <2> QED BY <2>1, <2>2, <2>3 DEF Records!HandIn
<1>3. CASE Scatter
  <2>1. width' = width
    BY <1>3 DEF Scatter
  <2>2. PICK w \in pending : cache' = Written(w) /\ pending' = pending \ {w}
    BY <1>3 DEF Scatter
  <2>3. w \in Ticket
    BY DEF CInv
  <2>4. ASSUME NEW s \in Slots
        PROVE  Decoded(s)' = IF s = w.slot THEN w.token ELSE Decoded(s)
    BY <2>1, <2>2, <2>3, Arrives, OthersKept
  <2>5. map' = [s \in Slots |-> IF s = w.slot THEN w.token ELSE map[s]]
    BY <2>4
  <2> QED BY <2>2, <2>5 DEF Records!Arrive
<1>4. CASE Attend \/ DoTile \/ Finish \/ UNCHANGED vars
  <2>1. UNCHANGED <<width, cache, pending>>
    BY <1>4 DEF Attend, DoTile, Finish, vars
  <2> QED BY <1>1, <2>1 DEF Records!kmVars
<1> QED BY <1>2, <1>3, <1>4 DEF Next

\* Whatever the dimensions of a record, the layout, the number of slots and
\* the batches: what a slot reads as is the token that was last stored there,
\* in whatever order the programs of the scatter kernel run.
THEOREM CacheIsMap == Spec => StoresRecords
<1>1. Spec => []CInv
  BY InitCInv, NextCInv, PTL DEF Spec
<1>2. Spec => StoresRecords
  BY <1>1, InitRecords, StepRecords, PTL DEF Spec, StoresRecords, Records!KMSpec
<1> QED BY <1>2
-----------------------------------------------------------------------------
(* Induction over natural numbers, stated for sets, and powers of two *)

LEMMA LeastOf ==
  ASSUME NEW S \in SUBSET Nat, S # {}
  PROVE  \E x \in S : \A y \in S : x <= y
<1> DEFINE R == {p \in Nat \X Nat : p[1] < p[2]}
<1>1. R \cap (Nat \X Nat) \subseteq OpToRel(<, Nat)
  BY DEF OpToRel
<1>2. IsWellFoundedOn(R, Nat)
  BY <1>1, NatLessThanWellFounded, IsWellFoundedOnSubrelation
<1>3. \E x \in S : \A y \in S : ~ (<<y, x>> \in R)
  <2> HIDE DEF R
  <2> QED BY <1>2, WFMin
<1>4. ASSUME NEW x \in S, NEW y \in S, <<y, x>> \notin R
      PROVE  x <= y
  <2>1. x \in Nat /\ y \in Nat /\ <<y, x>> \in Nat \X Nat
    OBVIOUS
  <2>2. ~(y < x)
    BY <1>4, <2>1
  <2> QED BY <2>1, <2>2
<1> HIDE DEF R
<1> QED BY <1>3, <1>4

LEMMA Induction ==
  ASSUME NEW S, 0 \in S, \A n \in Nat : n \in S => n + 1 \in S
  PROVE  Nat \subseteq S
<1> SUFFICES ASSUME ~(Nat \subseteq S) PROVE FALSE
  OBVIOUS
<1>1. PICK x \in Nat \ S : \A y \in Nat \ S : x <= y
  <2> DEFINE M == Nat \ S
  <2>1. M \in SUBSET Nat /\ M # {}
    OBVIOUS
  <2> HIDE DEF M
  <2>2. \E x \in M : \A y \in M : x <= y
    BY <2>1, LeastOf
  <2> QED BY <2>2 DEF M
<1>2. x # 0 /\ x - 1 \in Nat /\ ~(x <= x - 1)
  BY <1>1
<1>3. x - 1 \in S
  BY <1>1, <1>2
<1> QED BY <1>1, <1>2, <1>3

\* 2 ^ n is the number of sets of n things: doubled by one thing more.
LEMMA PowerDoubles ==
  ASSUME NEW n \in Nat
  PROVE  2 ^ n \in Nat /\ 2 ^ (n + 1) = 2 * 2 ^ n
<1> DEFINE S == 1 .. n
<1> DEFINE x == n + 1
<1> DEFINE With == {A \cup {x} : A \in SUBSET S}
<1> DEFINE f == [A \in SUBSET S |-> A \cup {x}]
<1>1. IsFiniteSet(S) /\ Cardinality(S) = n
  BY FS_Interval
<1>2. IsFiniteSet(S \cup {x}) /\ Cardinality(S \cup {x}) = n + 1
  <2>1. x \notin S
    OBVIOUS
  <2> HIDE DEF S, x
  <2>2. Cardinality(S \cup {x}) = Cardinality(S) + 1
    BY <1>1, <2>1, FS_AddElement
  <2> QED BY <1>1, <2>2, FS_AddElement DEF x
<1>3. x \notin S
  OBVIOUS
<1> HIDE DEF S, x
<1>4. IsFiniteSet(SUBSET S) /\ Cardinality(SUBSET S) = 2 ^ n
  BY <1>1, FS_SUBSET
<1>5. Cardinality(SUBSET (S \cup {x})) = 2 ^ (n + 1)
  <2>1. Cardinality(SUBSET (S \cup {x})) = 2 ^ Cardinality(S \cup {x})
    BY <1>2, FS_SUBSET
  <2> QED BY <1>2, <2>1
<1>6. f \in Bijection(SUBSET S, With)
  <2>1. f \in [SUBSET S -> With]
    OBVIOUS
  <2>2. \A A, B \in SUBSET S : f[A] = f[B] => A = B
    BY <1>3
  <2>3. \A C \in With : \E A \in SUBSET S : f[A] = C
    OBVIOUS
  <2> HIDE DEF f, With
  <2> QED BY <2>1, <2>2, <2>3 DEF Bijection, Injection, Surjection, IsInjective
<1>7. IsFiniteSet(With) /\ Cardinality(With) = 2 ^ n
  <2> HIDE DEF f, With
  <2>1. ExistsBijection(SUBSET S, With)
    BY <1>6 DEF ExistsBijection
  <2> QED BY <1>4, <2>1, FS_Bijection
<1>8. SUBSET (S \cup {x}) = (SUBSET S) \cup With
  <2>1. ASSUME NEW A \in SUBSET (S \cup {x}) PROVE A \in (SUBSET S) \cup With
    <3>1. CASE x \in A
      <4>1. A = (A \ {x}) \cup {x} /\ A \ {x} \in SUBSET S
        BY <3>1
      <4> QED BY <4>1
    <3>2. CASE x \notin A
      BY <3>2
    <3> QED BY <3>1, <3>2
  <2> QED BY <2>1
<1>9. (SUBSET S) \cap With = {}
  BY <1>3
<1>10. Cardinality((SUBSET S) \cup With) = Cardinality(SUBSET S) + Cardinality(With) - Cardinality({})
  <2> HIDE DEF f, With
  <2> QED BY <1>4, <1>7, <1>9, FS_Union
<1>11. Cardinality({}) = 0
  BY FS_EmptySet
<1>12. 2 ^ n \in Nat
  <2>1. Cardinality(SUBSET S) \in Nat
    BY <1>4, FS_CardinalityType
  <2> QED BY <1>4, <2>1
<1>13. 2 ^ (n + 1) = 2 ^ n + 2 ^ n
  <2> DEFINE total == Cardinality(SUBSET (S \cup {x}))
  <2>1. total = 2 ^ n + 2 ^ n - 0
    BY <1>4, <1>7, <1>8, <1>10, <1>11
  <2>2. total = 2 ^ (n + 1)
    BY <1>5
  <2> HIDE DEF total
  <2> QED BY <1>12, <2>1, <2>2
<1> QED BY <1>12, <1>13

LEMMA PowersAdd ==
  ASSUME NEW a \in Nat, NEW b \in Nat
  PROVE  2 ^ a \in Nat \ {0} /\ 2 ^ (a + b) = 2 ^ a * 2 ^ b
<1> DEFINE S == {c \in Nat : 2 ^ c # 0 /\ 2 ^ (a + c) = 2 ^ a * 2 ^ c}
<1>1. 2 ^ 0 = 1
  BY Z3
<1>2. 0 \in S
  <2>1. 2 ^ a \in Nat /\ a + 0 = a
    BY PowerDoubles
  <2> QED BY <1>1, <2>1
<1>3. ASSUME NEW n \in Nat, n \in S PROVE n + 1 \in S
  <2>1. /\ 2 ^ a \in Nat /\ 2 ^ n \in Nat /\ 2 ^ (a + n) \in Nat
        /\ 2 ^ (n + 1) = 2 * 2 ^ n /\ 2 ^ ((a + n) + 1) = 2 * 2 ^ (a + n)
    BY PowerDoubles
  <2>2. (a + n) + 1 = a + (n + 1)
    OBVIOUS
  <2>3. 2 ^ n # 0 /\ 2 ^ (a + n) = 2 ^ a * 2 ^ n
    BY <1>3
  <2>4. 2 * (2 ^ a * 2 ^ n) = 2 ^ a * (2 * 2 ^ n)
    BY <2>1
  <2>5. 2 ^ (a + (n + 1)) = 2 ^ a * 2 ^ (n + 1)
    BY <2>1, <2>2, <2>3, <2>4
  <2>6. 2 ^ (n + 1) # 0
    BY <2>1, <2>3
  <2> QED BY <2>5, <2>6
<1>4. Nat \subseteq S
  <2> HIDE DEF S
  <2> QED BY <1>2, <1>3, Induction
<1>5. a \in S /\ b \in S
  BY <1>4
<1>6. 2 ^ a \in Nat
  BY PowerDoubles
<1> QED BY <1>5, <1>6
-----------------------------------------------------------------------------
(* Sums over finite sets *)

\* sum[A] adds up f over A, for every part A of S.
Adds(sum, f, S) ==
  /\ \A x \in S : f[x] \in Nat
  /\ \A A \in SUBSET S : sum[A] \in Nat
  /\ sum[{}] = 0
  /\ \A A \in SUBSET S : \A x \in A : sum[A] = f[x] + sum[A \ {x}]

LEMMA SumExists ==
  ASSUME NEW n \in Nat, NEW f, \A x \in 0 .. n-1 : f[x] \in Nat
  PROVE  \E sum : Adds(sum, f, 0 .. n-1)
<1> DEFINE S == {k \in Nat : k <= n => \E sum : Adds(sum, f, 0 .. k-1)}
<1>1. 0 \in S
  <2> DEFINE none == [A \in {{}} |-> 0]
  <2>1. 0 .. 0-1 = {}
    OBVIOUS
  <2>2. Adds(none, f, {})
    BY DEF Adds
  <2> HIDE DEF none
  <2> QED BY <2>1, <2>2
<1>2. ASSUME NEW k \in Nat, k \in S PROVE k + 1 \in S
  <2> SUFFICES ASSUME k + 1 <= n PROVE \E sum : Adds(sum, f, 0 .. (k+1)-1)
    OBVIOUS
  <2>1. PICK old : Adds(old, f, 0 .. k-1)
    BY <1>2
  <2>2. f[k] \in Nat /\ k \notin 0 .. k-1 /\ 0 .. (k+1)-1 = (0 .. k-1) \cup {k}
    OBVIOUS
  <2> DEFINE D == 0 .. k-1
  <2> DEFINE sum == [A \in SUBSET (D \cup {k}) |-> old[A \ {k}] + (IF k \in A THEN f[k] ELSE 0)]
  <2> HIDE DEF D, S
  <2>3. ASSUME NEW A \in SUBSET (D \cup {k})
        PROVE  A \ {k} \in SUBSET D /\ old[A \ {k}] \in Nat /\ sum[A] \in Nat
    <3>1. A \ {k} \in SUBSET D
      OBVIOUS
    <3>2. old[A \ {k}] \in Nat
      BY <2>1, <3>1 DEF Adds, D
    <3> QED BY <2>2, <3>1, <3>2
  <2>4. sum[{}] = 0
    <3>1. {} \ {k} = {} /\ old[{}] = 0
      BY <2>1 DEF Adds
    <3> QED BY <3>1
  <2>5. ASSUME NEW A \in SUBSET (D \cup {k}), NEW x \in A
        PROVE  sum[A] = f[x] + sum[A \ {x}]
    <3>1. A \ {k} \in SUBSET D /\ old[A \ {k}] \in Nat /\ sum[A \ {x}] \in Nat
      BY <2>3
    <3>2. CASE x = k
      <4>1. (A \ {x}) \ {k} = A \ {k} /\ k \notin A \ {x}
        BY <3>2
      <4>2. sum[A] = old[A \ {k}] + f[k] /\ sum[A \ {x}] = old[A \ {k}] + 0
        BY <3>2, <4>1
      <4> HIDE DEF sum
      <4> QED BY <2>2, <3>1, <3>2, <4>2
    <3>3. CASE x # k
      <4> DEFINE B == A \ {k}
      <4>1. (A \ {x}) \ {k} = B \ {x} /\ x \in B /\ (k \in A \ {x} <=> k \in A)
        BY <3>3
      <4>2. old[B] = f[x] + old[B \ {x}]
        BY <2>1, <3>1, <4>1 DEF Adds, D
      <4>3. B \ {x} \in SUBSET D /\ x \in D
        BY <3>1, <4>1
      <4>4. old[B \ {x}] \in Nat /\ f[x] \in Nat
        <5>1. x \in 0 .. n-1
          BY <4>3 DEF D
        <5> QED BY <2>1, <4>3, <5>1 DEF Adds, D
      <4> DEFINE more == IF k \in A THEN f[k] ELSE 0
      <4>5. sum[A] = old[B] + more /\ sum[A \ {x}] = old[B \ {x}] + more
        BY <4>1
      <4>6. more \in Nat
        BY <2>2
      <4> HIDE DEF sum, B, more
      <4> QED BY <4>2, <4>4, <4>5, <4>6
    <3> QED BY <3>2, <3>3
  <2>6. Adds(sum, f, D \cup {k})
    <3>1. \A x \in D \cup {k} : f[x] \in Nat
      BY <2>2 DEF D
    <3> HIDE DEF sum
    <3> QED BY <3>1, <2>3, <2>4, <2>5 DEF Adds
  <2> HIDE DEF sum
  <2> QED BY <2>2, <2>6 DEF D
<1>3. n \in S
  <2> HIDE DEF S
  <2> QED BY <1>1, <1>2, Induction
<1> QED BY <1>3

LEMMA SumOfPart ==
  ASSUME NEW f, NEW sum, NEW S, Adds(sum, f, S), NEW T \in SUBSET S
  PROVE  Adds(sum, f, T)
BY DEF Adds

\* tau takes an element off every nonempty part of S, whichever it is.
TakesOff(tau, f, S) ==
  tau[{}] = 0 /\ \A A \in SUBSET S : A # {} => \E x \in A : tau[A] = f[x] + tau[A \ {x}]

\* Whatever takes off one element after the other computes the sum.
LEMMA OneSum ==
  ASSUME NEW f, NEW sum, NEW S, IsFiniteSet(S), Adds(sum, f, S),
         NEW tau, TakesOff(tau, f, S)
  PROVE  tau[S] = sum[S]
<1> DEFINE Bad == {k \in Nat : \E A \in SUBSET S : Cardinality(A) = k /\ tau[A] # sum[A]}
<1>1. ASSUME NEW k \in Bad, \A j \in Bad : k <= j PROVE FALSE
  <2>1. PICK A \in SUBSET S : Cardinality(A) = k /\ tau[A] # sum[A]
    OBVIOUS
  <2>2. A # {}
    BY <2>1 DEF Adds, TakesOff
  <2>3. PICK x \in A : tau[A] = f[x] + tau[A \ {x}]
    BY <2>2 DEF TakesOff
  <2>4. A \ {x} \in SUBSET S /\ sum[A] = f[x] + sum[A \ {x}]
    BY DEF Adds
  <2>5. Cardinality(A \ {x}) \in Nat /\ Cardinality(A \ {x}) < k
    <3>1. IsFiniteSet(A)
      BY FS_Subset
    <3>2. Cardinality(A \ {x}) = Cardinality(A) - 1 /\ IsFiniteSet(A \ {x})
      BY <3>1, FS_RemoveElement
    <3>3. Cardinality(A \ {x}) \in Nat
      BY <3>2, FS_CardinalityType
    <3> QED BY <2>1, <3>2, <3>3
  <2>6. Cardinality(A \ {x}) \notin Bad
    <3>1. k \in Nat
      OBVIOUS
    <3> HIDE DEF Bad
    <3> QED BY <1>1, <2>5, <3>1
  <2>7. tau[A \ {x}] = sum[A \ {x}]
    BY <2>4, <2>5, <2>6
  <2> HIDE DEF Bad
  <2> QED BY <2>1, <2>3, <2>4, <2>7
<1>2. Bad = {}
  <2>1. Bad \in SUBSET Nat
    OBVIOUS
  <2> HIDE DEF Bad
  <2> QED BY <1>1, <2>1, LeastOf
<1>3. Cardinality(S) \in Nat
  BY FS_CardinalityType
<1> QED BY <1>2, <1>3

\* A sum over two sets apart.
LEMMA SumOfUnion ==
  ASSUME NEW f, NEW sum, NEW S, IsFiniteSet(S), Adds(sum, f, S),
         NEW A \in SUBSET S, NEW B \in SUBSET S, A \cap B = {}
  PROVE  sum[A \cup B] = sum[A] + sum[B]
<1> DEFINE tau == [C \in SUBSET B |-> sum[A \cup C] - sum[A]]
<1>1. sum[A] \in Nat /\ \A C \in SUBSET B : sum[A \cup C] \in Nat /\ sum[C] \in Nat
  BY DEF Adds
<1>2. tau[{}] = 0
  <2>1. A \cup {} = A
    OBVIOUS
  <2> QED BY <1>1, <2>1
<1>3. ASSUME NEW C \in SUBSET B, NEW x \in C
      PROVE  tau[C] = f[x] + tau[C \ {x}]
  <2>1. (A \cup C) \ {x} = A \cup (C \ {x}) /\ A \cup C \in SUBSET S /\ x \in A \cup C
    OBVIOUS
  <2>2. sum[A \cup C] = f[x] + sum[A \cup (C \ {x})]
    BY <2>1 DEF Adds
  <2>3. f[x] \in Nat /\ A \cup C \in SUBSET S /\ C \ {x} \in SUBSET B
    BY DEF Adds
  <2>4. /\ tau[C] = sum[A \cup C] - sum[A]
        /\ tau[C \ {x}] = sum[A \cup (C \ {x})] - sum[A]
        /\ sum[A \cup (C \ {x})] \in Nat
    BY <1>1, <2>3
  <2> HIDE DEF tau
  <2> QED BY <1>1, <2>2, <2>3, <2>4
<1>4. Adds(sum, f, B) /\ IsFiniteSet(B)
  BY SumOfPart, FS_Subset
<1>5. TakesOff(tau, f, B)
  <2> HIDE DEF tau
  <2> QED BY <1>2, <1>3 DEF TakesOff
<1>6. tau[B] = sum[B]
  <2> HIDE DEF tau
  <2> QED BY <1>4, <1>5, OneSum
<1>7. tau[B] = sum[A \cup B] - sum[A] /\ sum[A \cup B] \in Nat /\ sum[B] \in Nat
  BY <1>1
<1> HIDE DEF tau
<1> QED BY <1>1, <1>6, <1>7

LEMMA SumScaled ==
  ASSUME NEW S, IsFiniteSet(S), NEW f, NEW sumF, Adds(sumF, f, S),
         NEW g, NEW sumG, Adds(sumG, g, S), NEW m \in Nat,
         \A x \in S : f[x] = m * g[x]
  PROVE  sumF[S] = m * sumG[S]
<1> DEFINE tau == [A \in SUBSET S |-> m * sumG[A]]
<1>1. tau[{}] = 0
  BY DEF Adds
<1>2. ASSUME NEW A \in SUBSET S, NEW x \in A
      PROVE  tau[A] = f[x] + tau[A \ {x}]
  <2>1. A \ {x} \in SUBSET S /\ sumG[A] = g[x] + sumG[A \ {x}]
    BY DEF Adds
  <2>2. sumG[A] \in Nat /\ sumG[A \ {x}] \in Nat /\ g[x] \in Nat
    BY <2>1 DEF Adds
  <2>3. f[x] = m * g[x]
    OBVIOUS
  <2>4. m * (g[x] + sumG[A \ {x}]) = m * g[x] + m * sumG[A \ {x}]
    BY <2>2
  <2>5. tau[A] = m * sumG[A] /\ tau[A \ {x}] = m * sumG[A \ {x}]
    BY <2>1
  <2> HIDE DEF tau
  <2> QED BY <2>1, <2>3, <2>4, <2>5
<1>3. TakesOff(tau, f, S)
  <2> HIDE DEF tau
  <2> QED BY <1>1, <1>2 DEF TakesOff
<1>4. tau[S] = sumF[S]
  <2> HIDE DEF tau
  <2> QED BY <1>3, OneSum
<1>5. tau[S] = m * sumG[S]
  OBVIOUS
<1> HIDE DEF tau
<1> QED BY <1>4, <1>5

\* f gives each candidate of A its weight under the maximum top.
IsWeight(f, top, A) == \A c \in A : f[c] = Weight(top - ScoreOf(c))

WeighedIsSum ==
  \A S, f, sum, top : IsFiniteSet(S) /\ Adds(sum, f, S) /\ IsWeight(f, top, S)
     => Weighed(top, S) = sum[S]

\* Weighed, a fold over an unordered set, is the sum of the weights.
LEMMA WeighedIs == WeighedIsSum
<1> SUFFICES ASSUME NEW S, NEW f, NEW sum, NEW top,
                    IsFiniteSet(S), Adds(sum, f, S), IsWeight(f, top, S)
             PROVE  Weighed(top, S) = sum[S]
  BY DEF WeighedIsSum
<1> DEFINE W(c) == Weight(top - ScoreOf(c))
<1> DEFINE Body(iter) == [s \in SUBSET S |->
             IF s = {} THEN 0
             ELSE Weight(top - ScoreOf(CHOOSE x \in s : TRUE)) + iter[s \ {CHOOSE x \in s : TRUE}]]
<1>1. ASSUME NEW s \in SUBSET S, s # {}, NEW x, x = CHOOSE y \in s : TRUE
      PROVE  x \in s /\ W(x) = f[x] /\ s \ {x} \in SUBSET S
  BY <1>1 DEF IsWeight
<1>2. ASSUME NEW iter, iter = Body(iter) PROVE iter[S] = sum[S]
  <2>1. iter[{}] = 0
    BY <1>2
  <2>2. ASSUME NEW s \in SUBSET S, s # {}
        PROVE  \E x \in s : iter[s] = f[x] + iter[s \ {x}]
    <3>1. PICK x : x = CHOOSE y \in s : TRUE
      OBVIOUS
    <3>2. x \in s /\ W(x) = f[x]
      BY <1>1, <2>2, <3>1
    <3>3. iter[s] = W(x) + iter[s \ {x}]
      <4>1. Body(iter)[s] = W(x) + iter[s \ {x}]
        BY <2>2, <3>1
      <4> HIDE DEF Body, W
      <4> QED BY <1>2, <4>1
    <3> HIDE DEF W
    <3> QED BY <3>2, <3>3
  <2>3. TakesOff(iter, f, S)
    BY <2>1, <2>2 DEF TakesOff
  <2> HIDE DEF Body, W
  <2> QED BY <2>3, OneSum
<1>3. \E iter : iter = Body(iter)
  <2> DEFINE it == [s \in SUBSET S |-> sum[s]]
  <2>1. ASSUME NEW s \in SUBSET S PROVE it[s] = Body(it)[s]
    <3>1. CASE s = {}
      BY <3>1 DEF Adds
    <3>2. CASE s # {}
      <4>1. PICK x : x = CHOOSE y \in s : TRUE
        OBVIOUS
      <4>2. x \in s /\ W(x) = f[x] /\ s \ {x} \in SUBSET S
        BY <1>1, <3>2, <4>1
      <4>3. sum[s] = f[x] + sum[s \ {x}]
        BY <4>2 DEF Adds
      <4>4. Body(it)[s] = W(x) + it[s \ {x}]
        <5> HIDE DEF it
        <5> QED BY <3>2, <4>1
      <4>5. it[s] = sum[s] /\ it[s \ {x}] = sum[s \ {x}]
        BY <4>2
      <4> HIDE DEF it, Body, W
      <4> QED BY <4>2, <4>3, <4>4, <4>5
    <3> QED BY <3>1, <3>2
  <2>2. it = [s \in SUBSET S |-> it[s]] /\ Body(it) = [s \in SUBSET S |-> Body(it)[s]]
    OBVIOUS
  <2>3. it = Body(it)
    <3> HIDE DEF it, Body
    <3> QED BY <2>1, <2>2
  <2> HIDE DEF it, Body
  <2> QED BY <2>3
<1>4. Weighed(top, S) = (CHOOSE iter : iter = Body(iter))[S]
  <2> USE DEF Weighed, MapThenSumSet, MapThenFoldSet
  <2> QED OBVIOUS
<1> HIDE DEF Body
<1> QED BY <1>2, <1>3, <1>4
-----------------------------------------------------------------------------
(* The invariant of the attention loop *)

Row   == 0 .. TopK-1
Valid == {c \in Row : indices[c] \in Slots}
Seen  == {c \in 0 .. lens-1 : c < n0 /\ indices[c] \in Slots}
Top(cands) == IF cands = {} THEN NegInf ELSE Max({ScoreOf(c) : c \in cands})

CallType ==
  /\ fused \in BOOLEAN /\ lens \in 0 .. TopK
  /\ n0 \in 0 .. TopK + TileWidth - 1
  /\ indices \in [Row -> Slots \cup {-1, NumSlots}]
  /\ \A c \in Valid : ScoreOf(c) \in 0 .. MaxScore

\* Between two tiles the running state is that of the candidates seen.
RunningState ==
  /\ runMax = Top(Seen)
  /\ denom = Weighed(runMax, Seen)
  /\ acc = [t \in Tokens |-> Weighed(runMax, Of(t, Seen))]

Resting == fused = TRUE /\ n0 = 0 /\ runMax = NegInf /\ denom = 0 /\ acc = NoAcc

SoftmaxInv ==
  /\ CInv
  /\ pc \in {"idle", "store", "tiles"}
  /\ pc # "tiles" => Resting
  /\ pc = "tiles" => CallType /\ RunningState

LEMMA ValidIs ==
  ASSUME CallType
  PROVE  /\ IsFiniteSet(Row) /\ IsFiniteSet(Valid)
         /\ Seen \in SUBSET Valid /\ Tile \in SUBSET Valid
<1>1. IsFiniteSet(Row)
  BY CacheConstants, FS_Interval DEF Row
<1>2. IsFiniteSet(Valid)
  BY <1>1, FS_Subset DEF Valid
<1>3. Seen \in SUBSET Valid
  BY CacheConstants DEF CallType, Seen, Valid, Row
<1>4. Tile \in SUBSET Valid
  <2>1. ASSUME NEW c \in Tile PROVE c \in Row /\ indices[c] \in Slots
    <3>1. c \in n0 .. n0 + TileWidth - 1 /\ c < TopK /\ Counts(c)
      BY DEF Tile
    <3>2. c \in Row
      <4>1. n0 \in Nat
        BY DEF CallType
      <4> HIDE DEF TileWidth
      <4> QED BY <3>1, <4>1, CacheConstants DEF Row
    <3>3. indices[c] \in Slots \cup {-1, NumSlots}
      BY <3>2 DEF CallType
    <3> QED BY <3>1, <3>2, <3>3, CacheConstants DEF Counts, Slots
  <2> QED BY <2>1 DEF Valid
<1> QED BY <1>1, <1>2, <1>3, <1>4

\* The weights under a maximum that is a score, or none, are numbers, and
\* they add up.
LEMMA WeighedAddsUp ==
  ASSUME CallType, NEW top \in NegInf .. MaxScore
  PROVE  \E f, sum : /\ Adds(sum, f, Valid) /\ IsWeight(f, top, Valid)
                     /\ \A A \in SUBSET Valid : Weighed(top, A) = sum[A]
<1> DEFINE f == [c \in Row |-> IF c \in Valid THEN Weight(top - ScoreOf(c)) ELSE 0]
<1>1. ASSUME NEW c \in Row PROVE f[c] \in Nat
  <2>1. CASE c \in Valid
    <3>1. ScoreOf(c) \in 0 .. MaxScore
      BY <2>1 DEF CallType
    <3> DEFINE e == MaxScore - (top - ScoreOf(c))
    <3>2. e \in Nat
      BY <3>1, CacheConstants DEF NegInf
    <3>3. Weight(top - ScoreOf(c)) = 2 ^ e
      BY DEF Weight
    <3> HIDE DEF e
    <3>4. 2 ^ e \in Nat
      BY <3>2, PowerDoubles
    <3> QED BY <2>1, <3>3, <3>4
  <2>2. CASE c \notin Valid
    BY <2>2
  <2> QED BY <2>1, <2>2
<1>2. PICK sum : Adds(sum, f, Row)
  <2>1. \A c \in 0 .. TopK-1 : f[c] \in Nat
    BY <1>1 DEF Row
  <2> HIDE DEF f
  <2>2. \E sum : Adds(sum, f, 0 .. TopK-1)
    BY <2>1, SumExists, CacheConstants
  <2> QED BY <2>2 DEF Row
<1>3. Valid \in SUBSET Row
  BY DEF Valid
<1>4. Adds(sum, f, Valid) /\ IsWeight(f, top, Valid)
  <2>1. IsWeight(f, top, Valid)
    BY <1>3 DEF IsWeight
  <2> HIDE DEF f
  <2> QED BY <1>2, <1>3, <2>1, SumOfPart
<1>5. ASSUME NEW A \in SUBSET Valid PROVE Weighed(top, A) = sum[A]
  <2> HIDE DEF f
  <2>1. IsFiniteSet(A)
    BY ValidIs, FS_Subset
  <2>2. Adds(sum, f, A) /\ IsWeight(f, top, A)
    BY <1>4, SumOfPart DEF IsWeight
  <2> QED BY <2>1, <2>2, WeighedIs DEF WeighedIsSum
<1> HIDE DEF f
<1> QED BY <1>4, <1>5

LEMMA WeighedUnion ==
  ASSUME CallType, NEW top \in NegInf .. MaxScore,
         NEW A \in SUBSET Valid, NEW B \in SUBSET Valid, A \cap B = {}
  PROVE  /\ Weighed(top, A) \in Nat /\ Weighed(top, B) \in Nat
         /\ Weighed(top, A \cup B) = Weighed(top, A) + Weighed(top, B)
<1>1. PICK f, sum : /\ Adds(sum, f, Valid)
                    /\ \A C \in SUBSET Valid : Weighed(top, C) = sum[C]
  BY WeighedAddsUp
<1>2. IsFiniteSet(Valid)
  BY ValidIs
<1>3. sum[A \cup B] = sum[A] + sum[B]
  <2>1. PICK S : S = Valid
    OBVIOUS
  <2>2. Adds(sum, f, S) /\ IsFiniteSet(S) /\ A \in SUBSET S /\ B \in SUBSET S
    BY <1>1, <1>2, <2>1
  <2> QED BY <2>2, SumOfUnion
<1>4. A \cup B \in SUBSET Valid /\ sum[A] \in Nat /\ sum[B] \in Nat
  BY <1>1 DEF Adds
<1> QED BY <1>1, <1>3, <1>4

WeighedNothing == \A top : Weighed(top, {}) = 0

LEMMA WeighedNone == WeighedNothing
<1> SUFFICES ASSUME NEW top PROVE Weighed(top, {}) = 0
  BY DEF WeighedNothing
<1> DEFINE none == [A \in {{}} |-> 0]
<1>1. Adds(none, none, {}) /\ IsWeight(none, top, {}) /\ IsFiniteSet({})
  BY FS_EmptySet DEF Adds, IsWeight
<1>2. none[{}] = 0
  OBVIOUS
<1> HIDE DEF none
<1> QED BY <1>1, <1>2, WeighedIs DEF WeighedIsSum

\* A maximum higher by d divides every weight, and so their sum, by 2 ^ d.
LEMMA WeighedScaled ==
  ASSUME CallType, NEW top \in 0 .. MaxScore, NEW next \in top .. MaxScore,
         NEW A \in SUBSET Valid
  PROVE  /\ Weighed(top, A) = 2 ^ (next - top) * Weighed(next, A)
         /\ Weighed(next, A) \in Nat /\ 2 ^ (next - top) \in Nat \ {0}
<1>0. /\ top \in NegInf .. MaxScore /\ next \in NegInf .. MaxScore
      /\ top \in Nat /\ next \in Nat /\ next - top \in Nat /\ MaxScore \in Nat
  BY CacheConstants DEF NegInf
<1>1. PICK f, sumF : /\ Adds(sumF, f, Valid) /\ IsWeight(f, top, Valid)
                     /\ \A C \in SUBSET Valid : Weighed(top, C) = sumF[C]
  BY <1>0, WeighedAddsUp
<1>2. PICK g, sumG : /\ Adds(sumG, g, Valid) /\ IsWeight(g, next, Valid)
                     /\ \A C \in SUBSET Valid : Weighed(next, C) = sumG[C]
  BY <1>0, WeighedAddsUp
<1>3. 2 ^ (next - top) \in Nat \ {0}
  BY <1>0, PowersAdd
<1>4. ASSUME NEW c \in A PROVE f[c] = 2 ^ (next - top) * g[c]
  <2>1. ScoreOf(c) \in 0 .. MaxScore
    BY DEF CallType
  <2> DEFINE a == next - top
  <2> DEFINE b == MaxScore - (next - ScoreOf(c))
  <2>2. a \in Nat /\ b \in Nat /\ MaxScore - (top - ScoreOf(c)) = a + b
    BY <1>0, <2>1
  <2>3. f[c] = 2 ^ (a + b) /\ g[c] = 2 ^ b
    BY <1>1, <1>2, <2>2 DEF IsWeight, Weight
  <2> HIDE DEF b
  <2>4. 2 ^ (a + b) = 2 ^ a * 2 ^ b
    BY <2>2, PowersAdd
  <2> QED BY <2>3, <2>4
<1>5. IsFiniteSet(A) /\ Adds(sumF, f, A) /\ Adds(sumG, g, A)
  BY <1>1, <1>2, ValidIs, FS_Subset, SumOfPart
<1>6. sumF[A] = 2 ^ (next - top) * sumG[A]
  <2> DEFINE m == 2 ^ (next - top)
  <2>1. m \in Nat /\ \A c \in A : f[c] = m * g[c]
    BY <1>3, <1>4
  <2> HIDE DEF m
  <2>2. sumF[A] = m * sumG[A]
    BY <1>5, <2>1, SumScaled
  <2> QED BY <2>2 DEF m
<1>7. sumG[A] \in Nat
  BY <1>5 DEF Adds
<1> QED BY <1>1, <1>2, <1>3, <1>6, <1>7

LEMMA ExactDivision ==
  ASSUME NEW m \in Nat \ {0}, NEW x \in Nat
  PROVE  (m * x) \div m = x
<1> DEFINE p == m * x
<1> DEFINE q == p \div m
<1> DEFINE r == p % m
<1>1. p \in Nat
  BY SMT
<1> HIDE DEF p
<1>2. q \in Nat /\ r \in 0 .. m-1 /\ p = m * q + r
  BY <1>1, Division
<1> HIDE DEF q, r
<1>3. m * x = m * q + r
  BY <1>2 DEF p
<1>4. ~(x < q)
  <2> SUFFICES ASSUME x < q PROVE FALSE
    OBVIOUS
  <2>1. x * m + m <= q * m
    <3>1. (x + 1) * m <= q * m
      BY <1>2, TimesMonotone
    <3> QED BY <3>1
  <2> QED BY <1>2, <1>3, <2>1
<1>5. ~(q < x)
  <2> SUFFICES ASSUME q < x PROVE FALSE
    OBVIOUS
  <2>1. q * m + m <= x * m
    <3>1. (q + 1) * m <= x * m
      BY <1>2, TimesMonotone
    <3> QED BY <1>2, <3>1
  <2> QED BY <1>2, <1>3, <2>1
<1>6. q = x
  BY <1>2, <1>4, <1>5
<1> QED BY <1>6 DEF q, p

\* What was weighed under the old maximum, rescaled to the new one.
LEMMA RescaledIs ==
  ASSUME CallType, runMax \in NegInf .. MaxScore, NEW next \in runMax .. MaxScore,
         NEW A \in SUBSET Valid, runMax = NegInf => A = {}
  PROVE  Rescaled(Weighed(runMax, A), next) = Weighed(next, A)
<1>1. CASE runMax = NegInf
  BY <1>1, WeighedNone DEF Rescaled, WeighedNothing
<1>2. CASE runMax # NegInf
  <2>1. runMax \in 0 .. MaxScore
    BY <1>2 DEF NegInf
  <2>2. PICK top : top = runMax
    OBVIOUS
  <2>3. /\ Weighed(top, A) = 2 ^ (next - top) * Weighed(next, A)
        /\ Weighed(next, A) \in Nat /\ 2 ^ (next - top) \in Nat \ {0}
    BY <2>1, <2>2, WeighedScaled
  <2>4. (2 ^ (next - top) * Weighed(next, A)) \div 2 ^ (next - top) = Weighed(next, A)
    BY <2>3, ExactDivision
  <2> QED BY <1>2, <2>2, <2>3, <2>4 DEF Rescaled
<1> QED BY <1>1, <1>2

\* The highest score of a set of candidates.
LEMMA TopIs ==
  ASSUME CallType, NEW A \in SUBSET Valid
  PROVE  /\ Top(A) \in NegInf .. MaxScore
         /\ Top(A) = NegInf <=> A = {}
         /\ \A c \in A : ScoreOf(c) \in 0 .. MaxScore /\ ScoreOf(c) <= Top(A)
         /\ A # {} => \E c \in A : ScoreOf(c) = Top(A)
<1>1. \A c \in A : ScoreOf(c) \in 0 .. MaxScore
  BY DEF CallType
<1>2. CASE A = {}
  BY <1>2, CacheConstants DEF Top, NegInf
<1>3. CASE A # {}
  <2> DEFINE S == {ScoreOf(c) : c \in A}
  <2> DEFINE D == {MaxScore - s : s \in S}
  <2>1. S \subseteq 0 .. MaxScore /\ S # {}
    BY <1>1, <1>3
  <2> HIDE DEF S
  <2>2. D \in SUBSET Nat /\ D # {}
    <3>1. ASSUME NEW s \in S PROVE MaxScore - s \in Nat
      BY <2>1, CacheConstants
    <3> QED BY <2>1, <3>1
  <2>3. PICK d \in D : \A e \in D : d <= e
    <3> HIDE DEF D
    <3> QED BY <2>2, LeastOf
  <2>4. PICK x \in S : d = MaxScore - x
    OBVIOUS
  <2>5. \A y \in S : x >= y
    <3>1. ASSUME NEW y \in S PROVE x >= y
      <4>1. MaxScore - x <= MaxScore - y
        BY <2>3, <2>4
      <4> QED BY <2>1, <4>1, CacheConstants
    <3> QED BY <3>1
  <2>6. Max(S) \in S /\ \A y \in S : Max(S) >= y
    BY <2>5 DEF Max
  <2>7. Top(A) = Max(S)
    BY <1>3 DEF Top, S
  <2>8. Top(A) \in S /\ Top(A) \in 0 .. MaxScore /\ \A y \in S : y <= Top(A)
    <3>1. Max(S) \in 0 .. MaxScore
      BY <2>1, <2>6
    <3>2. \A y \in S : y <= Max(S)
      BY <2>1, <2>6, <3>1, CacheConstants
    <3> QED BY <2>6, <2>7, <3>1, <3>2
  <2> QED BY <1>1, <1>3, <2>8, CacheConstants DEF S, NegInf
<1> QED BY <1>2, <1>3

LEMMA TopOfUnion ==
  ASSUME CallType, NEW A \in SUBSET Valid, NEW B \in SUBSET Valid
  PROVE  Top(A \cup B) = IF Top(B) > Top(A) THEN Top(B) ELSE Top(A)
<1>1. A \cup B \in SUBSET Valid
  OBVIOUS
<1> DEFINE a == Top(A)
<1> DEFINE b == Top(B)
<1> DEFINE u == Top(A \cup B)
<1>2. u \in NegInf .. MaxScore /\ a \in NegInf .. MaxScore /\ b \in NegInf .. MaxScore
      /\ MaxScore \in Nat
  BY <1>1, TopIs, CacheConstants
<1>3. a <= u /\ b <= u
  <2>1. ASSUME NEW C \in SUBSET Valid, C \subseteq A \cup B PROVE Top(C) <= u
    <3>1. CASE C = {}
      <4>1. Top(C) = NegInf
        BY <3>1 DEF Top
      <4> QED BY <1>2, <4>1 DEF NegInf
    <3>2. CASE C # {}
      <4>1. PICK c \in C : ScoreOf(c) = Top(C)
        BY <3>2, TopIs
      <4>2. ScoreOf(c) <= u
        BY <1>1, <2>1, TopIs
      <4> QED BY <4>1, <4>2
    <3> QED BY <3>1, <3>2
  <2> QED BY <2>1
<1>4. u = a \/ u = b
  <2>1. CASE A \cup B = {}
    <3>1. A \cup B = A
      BY <2>1
    <3> QED BY <3>1
  <2>2. CASE A \cup B # {}
    <3>1. PICK c \in A \cup B : ScoreOf(c) = u
      BY <1>1, <2>2, TopIs
    <3>2. c \in A => u <= a
      BY <3>1, TopIs
    <3>3. c \in B => u <= b
      BY <3>1, TopIs
    <3> HIDE DEF a, b, u
    <3> QED BY <1>2, <1>3, <3>2, <3>3 DEF NegInf
  <2> QED BY <2>1, <2>2
<1> HIDE DEF a, b, u
<1>5. u = IF b > a THEN b ELSE a
  BY <1>2, <1>3, <1>4 DEF NegInf
<1> QED BY <1>5 DEF a, b, u
-----------------------------------------------------------------------------
(* The steps *)

LEMMA WeighedIsNext == WeighedIsSum'
BY WeighedIs, PTL

LEMMA WeighedNoneNext == WeighedNothing'
BY WeighedNone, PTL

\* A call's candidates keep their tokens, scores and weights.
LEMMA CallKept ==
  ASSUME CInv, CallType, UNCHANGED <<width, cache, call>>,
         NEW A, A \in SUBSET Valid, NEW top \in NegInf .. MaxScore
  PROVE  /\ \A c \in A : ScoreOf(c)' = ScoreOf(c)
         /\ Weighed(top, A)' = Weighed(top, A)
         /\ Top(A)' = Top(A)
         /\ \A t : Of(t, A)' = Of(t, A)
<1>1. ASSUME NEW s \in Slots PROVE Decoded(s)' = Decoded(s)
  BY Kept DEF At, Base
<1>2. UNCHANGED <<indices, score, lens, fused>>
  BY DEF call
<1>3. ASSUME NEW c \in A
      PROVE  /\ indices'[c] = indices[c] /\ Decoded(indices[c])' = Decoded(indices[c])
             /\ ScoreOf(c)' = ScoreOf(c)
  <2>1. PICK s \in Slots : s = indices[c]
    BY DEF Valid
  <2>2. Decoded(s)' = Decoded(s)
    BY <1>1
  <2>3. Decoded(indices[c])' = Decoded(indices[c])
    BY <1>2, <2>1, <2>2
  <2> QED BY <1>2, <2>3 DEF ScoreOf
<1>4. Weighed(top, A)' = Weighed(top, A)
  <2>1. PICK f, sum : /\ Adds(sum, f, Valid) /\ IsWeight(f, top, Valid)
                      /\ \A C \in SUBSET Valid : Weighed(top, C) = sum[C]
    BY WeighedAddsUp
  <2>2. IsFiniteSet(A) /\ Adds(sum, f, A)
    BY <2>1, ValidIs, FS_Subset, SumOfPart
  <2>3. IsWeight(f, top, A)'
    <3>1. \A c \in A : f[c] = Weight(top - ScoreOf(c))
      BY <2>1 DEF IsWeight
    <3> QED BY <1>3, <3>1 DEF IsWeight, Weight
  <2>4. Weighed(top, A)' = sum[A]
    BY <2>2, <2>3, WeighedIsNext DEF WeighedIsSum, Adds
  <2> QED BY <2>1, <2>4
<1>5. Top(A)' = Top(A)
  <2>1. {ScoreOf(c) : c \in A}' = {ScoreOf(c) : c \in A}
    BY <1>3
  <2> QED BY <2>1 DEF Top
<1>6. ASSUME NEW t PROVE Of(t, A)' = Of(t, A)
  BY <1>3 DEF Of
<1> QED BY <1>3, <1>4, <1>5, <1>6

LEMMA SeenAndTile ==
  ASSUME CallType, n0' = n0 + TileWidth, UNCHANGED call
  PROVE  Seen' = Seen \cup Tile /\ Seen \cap Tile = {}
<1>1. /\ n0 \in Nat /\ TileWidth \in Nat \ {0} /\ lens \in 0 .. TopK /\ TopK \in Nat
      /\ NumSlots \in Nat
  BY CacheConstants DEF CallType, TileWidth
<1>2. UNCHANGED <<indices, lens>>
  BY DEF call
<1>3. ASSUME NEW c \in Int, c < lens, c >= 0
      PROVE  indices[c] \in Slots <=> indices[c] >= 0 /\ indices[c] < NumSlots
  <2>1. indices[c] \in Slots \cup {-1, NumSlots}
    BY <1>1, <1>3 DEF CallType, Row
  <2> QED BY <1>1, <2>1 DEF Slots
<1> HIDE DEF TileWidth
<1>4. ASSUME NEW c \in Seen' PROVE c \in Seen \cup Tile
  <2>1. c \in 0 .. lens-1 /\ c < n0 + TileWidth /\ indices[c] \in Slots
    BY <1>2 DEF Seen
  <2>2. CASE c < n0
    BY <2>1, <2>2 DEF Seen
  <2>3. CASE ~(c < n0)
    <3>1. c \in n0 .. n0 + TileWidth - 1 /\ c < TopK /\ c \in Int /\ c < lens /\ c >= 0
      BY <1>1, <2>1, <2>3
    <3> QED BY <1>3, <2>1, <3>1 DEF Tile, Counts
  <2> QED BY <2>2, <2>3
<1>5. ASSUME NEW c \in Seen PROVE c \in Seen' /\ c \notin Tile
  <2>1. c \in 0 .. lens-1 /\ c < n0 /\ indices[c] \in Slots
    BY DEF Seen
  <2>2. c < n0 + TileWidth /\ c \notin n0 .. n0 + TileWidth - 1
    BY <1>1, <2>1
  <2> QED BY <1>2, <2>1, <2>2 DEF Seen, Tile
<1>6. ASSUME NEW c \in Tile PROVE c \in Seen'
  <2>1. c \in n0 .. n0 + TileWidth - 1 /\ Counts(c)
    BY DEF Tile
  <2>2. c \in Int /\ c < lens /\ c >= 0 /\ c < n0 + TileWidth /\ indices[c] \in Slots
    BY <1>1, <1>3, <2>1 DEF Counts
  <2>3. c \in 0 .. lens-1
    BY <1>1, <2>2
  <2> QED BY <1>2, <2>2, <2>3 DEF Seen
<1> QED BY <1>4, <1>5, <1>6

\* A tile brings its candidates into the running state, and keeps the others.
LEMMA TileSoftmax ==
  ASSUME CInv, CallType, RunningState, DoTile
  PROVE  CallType' /\ RunningState'
<1>1. UNCHANGED <<width, cache, call, pc>> /\ n0' = n0 + TileWidth /\ n0 < TopK
  BY DEF DoTile, MoreTiles
<1>2. UNCHANGED <<fused, indices, lens, score>>
  BY <1>1 DEF call
<1> DEFINE next == IF Top(Tile) > runMax THEN Top(Tile) ELSE runMax
<1>3. /\ runMax' = next
      /\ denom' = Rescaled(denom, next) + Weighed(next, Tile)
      /\ acc' = [t \in Tokens |-> Rescaled(acc[t], next) + Weighed(next, Of(t, Tile))]
  BY DEF DoTile, Top
<1>4. Seen \in SUBSET Valid /\ Tile \in SUBSET Valid
  BY ValidIs
<1>5. Seen' = Seen \cup Tile /\ Seen \cap Tile = {}
  BY <1>1, SeenAndTile
<1>6. CallType'
  <2>1. n0' \in 0 .. TopK + TileWidth' - 1
    <3>1. TileWidth' = TileWidth /\ TileWidth \in Nat /\ n0 \in Nat /\ TopK \in Nat
      BY <1>2, CacheConstants DEF TileWidth, CallType
    <3> HIDE DEF TileWidth
    <3> QED BY <1>1, <3>1
  <2>2. Valid' = Valid
    BY <1>2 DEF Valid, Row
  <2>3. ASSUME NEW c \in Valid PROVE ScoreOf(c)' \in 0 .. MaxScore
    <3>1. 0 \in NegInf .. MaxScore
      BY CacheConstants DEF NegInf
    <3>2. ScoreOf(c)' = ScoreOf(c)
      <4>1. PICK A : A = {c}
        OBVIOUS
      <4> QED BY <1>1, <3>1, <4>1, CallKept
    <3>3. ScoreOf(c) \in 0 .. MaxScore
      BY DEF CallType
    <3> QED BY <3>2, <3>3
  <2> QED BY <1>2, <2>1, <2>2, <2>3 DEF CallType, Row
<1>7. PICK A, B, n : A = Seen /\ B = Tile /\ n = next
  OBVIOUS
<1>8. /\ A \in SUBSET Valid /\ B \in SUBSET Valid /\ A \cup B \in SUBSET Valid
      /\ A \cap B = {} /\ Seen' = A \cup B
  BY <1>4, <1>5, <1>7
<1>9. /\ runMax \in NegInf .. MaxScore /\ n \in runMax .. MaxScore /\ n \in NegInf .. MaxScore
      /\ (runMax = NegInf => A = {}) /\ n = Top(A \cup B) /\ runMax' = n
  <2>1. Top(A) \in NegInf .. MaxScore /\ Top(B) \in NegInf .. MaxScore
        /\ (Top(A) = NegInf => A = {})
    BY <1>8, TopIs
  <2>2. runMax = Top(A)
    BY <1>7 DEF RunningState
  <2>3. n = IF Top(B) > Top(A) THEN Top(B) ELSE Top(A)
    BY <1>7, <2>2
  <2>4. n = Top(A \cup B)
    BY <1>8, <2>3, TopOfUnion
  <2>5. runMax' = n
    BY <1>3, <1>7
  <2>6. n \in Top(A) .. MaxScore
    BY <2>1, <2>3, CacheConstants DEF NegInf
  <2> QED BY <2>1, <2>2, <2>3, <2>4, <2>5, <2>6
<1>10. denom' = Weighed(n, A \cup B)
  <2>1. Rescaled(Weighed(runMax, A), n) = Weighed(n, A)
    BY <1>8, <1>9, RescaledIs
  <2>2. Weighed(n, A \cup B) = Weighed(n, A) + Weighed(n, B)
    BY <1>8, <1>9, WeighedUnion
  <2>3. denom' = Rescaled(Weighed(runMax, A), n) + Weighed(n, B)
    BY <1>3, <1>7 DEF RunningState
  <2> QED BY <2>1, <2>2, <2>3
<1>11. ASSUME NEW t \in Tokens
       PROVE  acc'[t] = Weighed(n, Of(t, A \cup B))
  <2>1. PICK C, D : C = Of(t, A) /\ D = Of(t, B)
    OBVIOUS
  <2>2. /\ C \in SUBSET Valid /\ D \in SUBSET Valid /\ C \cap D = {} /\ (A = {} => C = {})
        /\ Of(t, A \cup B) = C \cup D
    BY <1>8, <2>1 DEF Of
  <2>3. Rescaled(Weighed(runMax, C), n) = Weighed(n, C)
    BY <1>9, <2>2, RescaledIs
  <2>4. Weighed(n, C \cup D) = Weighed(n, C) + Weighed(n, D)
    BY <1>9, <2>2, WeighedUnion
  <2>5. acc[t] = Weighed(runMax, C)
    BY <1>7, <2>1 DEF RunningState
  <2>6. acc'[t] = Rescaled(acc[t], n) + Weighed(n, D)
    BY <1>3, <1>7, <2>1
  <2> QED BY <2>2, <2>3, <2>4, <2>5, <2>6
<1>12. PICK S : S = A \cup B
  OBVIOUS
<1>13. /\ Weighed(n, S)' = Weighed(n, S) /\ Top(S)' = Top(S)
       /\ \A t : Of(t, S)' = Of(t, S)
  BY <1>1, <1>8, <1>9, <1>12, CallKept
<1>14. runMax' = Top(S)'
  BY <1>9, <1>12, <1>13
<1>15. denom' = Weighed(n, S)'
  BY <1>10, <1>12, <1>13
<1>16. ASSUME NEW t \in Tokens PROVE acc'[t] = Weighed(n, Of(t, S))'
  <2>1. PICK C : C = Of(t, S)
    OBVIOUS
  <2>2. C \in SUBSET Valid
    BY <1>8, <1>12, <2>1 DEF Of
  <2>3. Weighed(n, C)' = Weighed(n, C)
    BY <1>1, <1>9, <2>2, CallKept
  <2>4. Of(t, S)' = C
    BY <1>13, <2>1
  <2>5. acc'[t] = Weighed(n, C)
    BY <1>11, <1>12, <2>1
  <2>6. Weighed(n, Of(t, S))' = Weighed(n, C)'
    BY <2>4 DEF Weighed
  <2> QED BY <2>3, <2>5, <2>6
<1>17. RunningState'
  <2>1. Seen' = S /\ runMax' = n
    BY <1>8, <1>9, <1>12
  <2>2. runMax' = Top(Seen)'
    BY <1>14, <2>1 DEF Top
  <2>3. denom' = Weighed(runMax, Seen)'
    BY <1>15, <2>1 DEF Weighed
  <2>4. acc' = [t \in Tokens |-> Weighed(runMax, Of(t, Seen))]'
    <3>1. ASSUME NEW t \in Tokens PROVE acc'[t] = Weighed(runMax, Of(t, Seen))'
      <4>1. Weighed(runMax, Of(t, Seen))' = Weighed(n, Of(t, S))'
        BY <2>1 DEF Weighed, Of
      <4> QED BY <1>16, <4>1
    <3>2. acc' = [t \in Tokens |-> acc'[t]]
      BY <1>3
    <3> QED BY <3>1, <3>2
  <2> QED BY <2>2, <2>3, <2>4 DEF RunningState
<1> QED BY <1>6, <1>17

\* A step that touches neither the cache nor the attention keeps both.
LEMMA IdleKeeps ==
  ASSUME CInv, CallType, RunningState, UNCHANGED <<width, cache, call, loop>>
  PROVE  CallType' /\ RunningState'
<1>1. UNCHANGED <<width, cache, call>> /\ UNCHANGED <<fused, indices, lens, score>>
      /\ UNCHANGED <<n0, runMax, denom, acc>>
  BY DEF call, loop
<1>2. Valid' = Valid /\ Seen' = Seen /\ TileWidth' = TileWidth
  BY <1>1 DEF Valid, Row, Seen, TileWidth
<1>3. 0 \in NegInf .. MaxScore
  BY CacheConstants DEF NegInf
<1>4. CallType'
  <2>1. ASSUME NEW c \in Valid PROVE ScoreOf(c)' \in 0 .. MaxScore
    <3>1. ScoreOf(c)' = ScoreOf(c)
      <4>1. PICK A : A = {c}
        OBVIOUS
      <4> QED BY <1>1, <1>3, <4>1, CallKept
    <3> QED BY <3>1 DEF CallType
  <2> QED BY <1>1, <1>2, <2>1 DEF CallType, Row
<1>5. PICK S, n : S = Seen /\ n = runMax
  OBVIOUS
<1>6. S \in SUBSET Valid /\ n \in NegInf .. MaxScore /\ n = Top(S)
  BY <1>5, ValidIs, TopIs DEF RunningState
<1>7. /\ Weighed(n, S)' = Weighed(n, S) /\ Top(S)' = Top(S)
      /\ \A t : Of(t, S)' = Of(t, S)
  BY <1>1, <1>6, CallKept
<1>8. Seen' = S /\ runMax' = n
  BY <1>1, <1>2, <1>5
<1>9. runMax' = Top(Seen)'
  BY <1>6, <1>7, <1>8 DEF Top
<1>10. denom' = Weighed(runMax, Seen)'
  <2>1. denom' = Weighed(n, S)
    BY <1>1, <1>5 DEF RunningState
  <2> QED BY <1>7, <1>8, <2>1 DEF Weighed
<1>11. acc' = [t \in Tokens |-> Weighed(runMax, Of(t, Seen))]'
  <2>1. ASSUME NEW t \in Tokens PROVE acc'[t] = Weighed(runMax, Of(t, Seen))'
    <3>1. PICK C : C = Of(t, S)
      OBVIOUS
    <3>2. C \in SUBSET Valid
      BY <1>6, <3>1 DEF Of
    <3>3. Weighed(n, C)' = Weighed(n, C)
      BY <1>1, <1>6, <3>2, CallKept
    <3>4. acc'[t] = Weighed(n, C)
      BY <1>1, <1>5, <3>1 DEF RunningState
    <3>5. Of(t, Seen)' = C
      BY <1>7, <1>8, <3>1 DEF Of
    <3>6. Weighed(runMax, Of(t, Seen))' = Weighed(n, C)'
      BY <1>8, <3>5 DEF Weighed
    <3> QED BY <3>3, <3>4, <3>6
  <2>2. acc' = [t \in Tokens |-> acc'[t]]
    BY <1>1 DEF RunningState
  <2> QED BY <2>1, <2>2
<1> QED BY <1>4, <1>9, <1>10, <1>11 DEF RunningState

LEMMA InitSoftmax == Init => SoftmaxInv
<1> SUFFICES ASSUME Init PROVE SoftmaxInv
  OBVIOUS
<1>1. CInv
  BY InitCInv
<1> QED BY <1>1 DEF Init, SoftmaxInv, Resting

LEMMA AttendSoftmax ==
  ASSUME CInv, Attend
  PROVE  CallType' /\ RunningState'
<1> DEFINE held == {s \in Slots : Decoded(s) # Nothing}
<1>1. /\ UNCHANGED <<width, cache>> /\ fused' \in BOOLEAN /\ lens' \in 0 .. TopK
      /\ n0' = 0 /\ runMax' = NegInf /\ denom' = 0 /\ acc' = NoAcc
      /\ indices' \in [Row -> held \cup {-1, NumSlots}]
      /\ score' \in [{Decoded(s) : s \in held} -> 0 .. MaxScore]
  BY DEF Attend, Row
<1>2. ASSUME NEW c \in Valid' PROVE ScoreOf(c)' \in 0 .. MaxScore
  <2>1. c \in Row /\ indices'[c] \in Slots
    BY DEF Valid, Row, Slots
  <2>2. PICK s : s = indices'[c]
    OBVIOUS
  <2>3. s \in held
    <3>1. -1 \notin Slots /\ NumSlots \notin Slots
      BY CacheConstants DEF Slots
    <3>2. s \in held \cup {-1, NumSlots}
      BY <1>1, <2>1, <2>2
    <3> QED BY <2>1, <2>2, <3>1, <3>2
  <2>4. Decoded(s)' = Decoded(s)
    BY <1>1, <2>3, Kept DEF At, Base
  <2>5. Decoded(indices[c])' = Decoded(s)
    BY <2>2, <2>4
  <2>6. score'[Decoded(s)] \in 0 .. MaxScore
    BY <1>1, <2>3
  <2> QED BY <2>5, <2>6 DEF ScoreOf
<1>3. CallType'
  <2>1. indices' \in [Row -> Slots \cup {-1, NumSlots}]
    BY <1>1
  <2>2. n0' \in 0 .. TopK + TileWidth' - 1
    BY <1>1, CacheConstants DEF TileWidth
  <2> HIDE DEF held
  <2> QED BY <1>1, <1>2, <2>1, <2>2 DEF CallType, Row, Slots
<1>4. Seen' = {}
  BY <1>1, CacheConstants DEF Seen
<1>5. RunningState'
  <2>1. runMax' = Top(Seen)'
    BY <1>1, <1>4 DEF Top
  <2>2. PICK none : none = {}
    OBVIOUS
  <2>3. \A top : Weighed(top, none)' = 0
    <3>1. WeighedNothing'
      BY WeighedNoneNext
    <3> QED BY <2>2, <3>1 DEF WeighedNothing
  <2>4. denom' = Weighed(runMax, Seen)'
    <3>1. Weighed(runMax, Seen)' = Weighed(NegInf, none)'
      BY <1>1, <1>4, <2>2 DEF Weighed
    <3> QED BY <1>1, <2>3, <3>1
  <2>5. acc' = [t \in Tokens |-> Weighed(runMax, Of(t, Seen))]'
    <3>1. ASSUME NEW t \in Tokens PROVE Weighed(runMax, Of(t, Seen))' = 0
      <4>1. Of(t, Seen)' = none
        BY <1>4, <2>2 DEF Of
      <4>2. Weighed(runMax, Of(t, Seen))' = Weighed(NegInf, none)'
        BY <1>1, <4>1 DEF Weighed
      <4> QED BY <2>3, <4>2
    <3>2. acc' = [t \in Tokens |-> 0]
      BY <1>1 DEF NoAcc, Tokens
    <3> QED BY <3>1, <3>2 DEF Tokens
  <2> QED BY <2>1, <2>4, <2>5 DEF RunningState
<1> QED BY <1>3, <1>5

LEMMA NextSoftmax == SoftmaxInv /\ [Next]_vars => SoftmaxInv'
<1> SUFFICES ASSUME SoftmaxInv, [Next]_vars PROVE SoftmaxInv'
  OBVIOUS
<1>1. CInv /\ CInv'
  BY NextCInv DEF SoftmaxInv
<1>2. CASE Store
  BY <1>1, <1>2 DEF Store, SoftmaxInv, Resting, loop, call, NoAcc, Tokens
<1>3. CASE Scatter
  BY <1>1, <1>3 DEF Scatter, SoftmaxInv, Resting, loop, call, NoAcc, Tokens
<1>4. CASE Attend
  <2>1. pc' = "tiles"
    BY <1>4 DEF Attend
  <2> QED BY <1>1, <1>4, <2>1, AttendSoftmax DEF SoftmaxInv
<1>5. CASE DoTile
  <2>1. pc = "tiles" /\ pc' = "tiles"
    BY <1>5 DEF DoTile
  <2>2. CallType /\ RunningState
    BY <2>1 DEF SoftmaxInv
  <2> QED BY <1>1, <1>5, <2>1, <2>2, TileSoftmax DEF SoftmaxInv
<1>6. CASE Finish
  BY <1>1, <1>6 DEF Finish, SoftmaxInv, Resting
<1>7. CASE UNCHANGED vars
  <2>1. UNCHANGED <<width, cache, call, loop, pc>> /\ UNCHANGED <<fused, indices, lens, score>>
        /\ UNCHANGED <<n0, runMax, denom, acc>>
    BY <1>7 DEF vars, call, loop
  <2>2. CASE pc # "tiles"
    BY <1>1, <2>1, <2>2 DEF SoftmaxInv, Resting, NoAcc, Tokens
  <2>3. CASE pc = "tiles"
    <3>1. CallType /\ RunningState
      BY <2>3 DEF SoftmaxInv
    <3>2. CallType' /\ RunningState'
      BY <1>1, <2>1, <3>1, IdleKeeps
    <3> QED BY <1>1, <2>1, <2>3, <3>2 DEF SoftmaxInv
  <2> QED BY <2>2, <2>3
<1> QED BY <1>2, <1>3, <1>4, <1>5, <1>6, <1>7 DEF Next

LEMMA SoftmaxHolds == Spec => []SoftmaxInv
BY InitSoftmax, NextSoftmax, PTL DEF Spec

\* Whatever the record, the cache, the rows of slots and the tiles, the
\* variables keep their types: the running maximum is a score or none, and
\* the sums of weights are natural numbers.
THEOREM TypeCorrect == Spec => []TypeOK
<1>1. SoftmaxInv => TypeOK
  <2> SUFFICES ASSUME SoftmaxInv PROVE TypeOK
    OBVIOUS
  <2>1. CInv /\ pc \in {"idle", "store", "tiles"}
    BY DEF SoftmaxInv
  <2>2. CASE pc # "tiles"
    <3>1. Resting
      BY <2>2 DEF SoftmaxInv
    <3>2. n0 \in 0 .. TopK + TileWidth - 1 /\ runMax \in NegInf .. MaxScore
      BY <3>1, CacheConstants DEF Resting, TileWidth, NegInf
    <3>3. denom \in Nat /\ acc \in [Tokens -> Nat]
      BY <3>1 DEF Resting, NoAcc
    <3> QED BY <2>1, <3>2, <3>3 DEF TypeOK, CInv
  <2>3. CASE pc = "tiles"
    <3>1. CallType /\ RunningState
      BY <2>3 DEF SoftmaxInv
    <3>2. PICK S, n : S = Seen /\ n = runMax
      OBVIOUS
    <3>3. S \in SUBSET Valid /\ n \in NegInf .. MaxScore
      BY <3>1, <3>2, ValidIs, TopIs DEF RunningState
    <3>4. ASSUME NEW A \in SUBSET S PROVE Weighed(n, A) \in Nat
      <4>1. PICK none : none = {}
        OBVIOUS
      <4>2. A \in SUBSET Valid /\ none \in SUBSET Valid /\ A \cap none = {}
        BY <3>3, <4>1
      <4> QED BY <3>1, <3>3, <4>2, WeighedUnion
    <3>5. denom \in Nat
      BY <3>1, <3>2, <3>4 DEF RunningState
    <3>6. ASSUME NEW t \in Tokens PROVE Weighed(n, Of(t, S)) \in Nat
      <4>1. Of(t, S) \in SUBSET S
        BY DEF Of
      <4> QED BY <3>4, <4>1
    <3>7. acc \in [Tokens -> Nat]
      BY <3>1, <3>2, <3>6 DEF RunningState
    <3> QED BY <2>1, <3>1, <3>2, <3>3, <3>5, <3>7 DEF TypeOK, CInv, CallType
  <2> QED BY <2>2, <2>3
<1> QED BY <1>1, SoftmaxHolds, PTL

\* Whatever the tiles, the order of the scores and the candidates that do
\* not count, the running maximum, the denominator and each token's share are
\* those of the softmax over exactly the candidates passed so far; the fused
\* path and the materialized one agree.
THEOREM SoftmaxIsExact == Spec => []SoftmaxOfPrefix
<1>1. SoftmaxInv => SoftmaxOfPrefix
  <2> SUFFICES ASSUME SoftmaxInv, pc = "tiles" PROVE SoftmaxOfPrefix
    BY DEF SoftmaxOfPrefix
  <2>1. RunningState
    BY DEF SoftmaxInv
  <2>2. /\ runMax = Top(Seen) /\ denom = Weighed(Top(Seen), Seen)
        /\ \A t \in Tokens : acc[t] = Weighed(Top(Seen), Of(t, Seen))
    BY <2>1 DEF RunningState
  <2> QED BY <2>2 DEF SoftmaxOfPrefix, Top, Seen
<1> QED BY <1>1, SoftmaxHolds, PTL
=============================================================================
