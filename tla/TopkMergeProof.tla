--------------------------- MODULE TopkMergeProof ---------------------------
(***************************************************************************)
(* TopkMerge proved for every shape, chunk size, score and tie-breaking.   *)
(*                                                                         *)
(* The induction carries, besides ExactTopK, what ties the loop's two      *)
(* halves together: the chunk's logits are the sums over the heads added   *)
(* so far, and best holds the totals of the keys in out.  The heart is a   *)
(* pigeonhole argument: if topk candidates are at least v, then so is      *)
(* every one that torch.topk selects.                                      *)
(***************************************************************************)
EXTENDS TopkMerge, FiniteSetTheorems, TLAPS

\* n places cannot go to n places less one without a clash.
LEMMA NoRoom ==
  ASSUME NEW n \in Nat, NEW j \in 1 .. n, NEW h \in [1 .. n -> (1 .. n) \ {j}]
  PROVE  \E x, y \in 1 .. n : x # y /\ h[x] = h[y]
<1>1. IsFiniteSet(1 .. n) /\ Cardinality(1 .. n) = n
  BY FS_Interval
<1>2. IsFiniteSet((1 .. n) \ {j}) /\ Cardinality((1 .. n) \ {j}) = n - 1
  BY <1>1, FS_RemoveElement
<1>3. Cardinality((1 .. n) \ {j}) < Cardinality(1 .. n)
  BY <1>1, <1>2
<1>. QED  BY <1>1, <1>2, <1>3, FS_PigeonHole

\* If n distinct places of s hold at least v, so do the n that are selected.
LEMMA TopKBeats ==
  ASSUME NEW L \in Nat, NEW s \in [1 .. L -> Int], NEW n \in Nat,
         NEW f \in TopKOf(s, n), NEW v \in Int,
         NEW g \in [1 .. n -> 1 .. L],
         \A i, j \in 1 .. n : i # j => g[i] # g[j],
         \A i \in 1 .. n : s[g[i]] >= v
  PROVE  \A j \in 1 .. n : s[f[j]] >= v
<1> SUFFICES ASSUME NEW j \in 1 .. n, s[f[j]] < v
             PROVE  FALSE
  BY DEF TopKOf
<1>1. /\ f \in [1 .. n -> 1 .. L]
      /\ \A p \in 1 .. L : (\A i \in 1 .. n : f[i] # p) => s[p] <= s[f[j]]
  BY DEF TopKOf
<1>2. \A i \in 1 .. n : \E k \in (1 .. n) \ {j} : f[k] = g[i]
  <2> SUFFICES ASSUME NEW i \in 1 .. n
               PROVE  \E k \in (1 .. n) \ {j} : f[k] = g[i]
    OBVIOUS
  <2>1. g[i] \in 1 .. L /\ s[g[i]] >= v /\ s[g[i]] \in Int /\ s[f[j]] \in Int
    BY <1>1
  <2>2. ~(s[g[i]] <= s[f[j]])
    BY <2>1
  <2>3. PICK k \in 1 .. n : f[k] = g[i]
    BY <1>1, <2>1, <2>2, Zenon
  <2>4. k # j
    BY <2>2, <2>3, <2>1
  <2>. QED  BY <2>3, <2>4
<1> DEFINE h == [i \in 1 .. n |-> CHOOSE k \in (1 .. n) \ {j} : f[k] = g[i]]
<1>3. \A i \in 1 .. n : h[i] \in (1 .. n) \ {j} /\ f[h[i]] = g[i]
  BY <1>2
<1>4. h \in [1 .. n -> (1 .. n) \ {j}]
  BY <1>3
<1> HIDE DEF h
<1>5. PICK x, y \in 1 .. n : x # y /\ h[x] = h[y]
  BY <1>4, NoRoom
<1>6. f[h[x]] = g[x] /\ f[h[y]] = g[y] /\ g[x] # g[y]
  BY <1>3, <1>5
<1>. QED  BY <1>5, <1>6

\* Selecting as many as there are selects them all.
LEMMA TopKAll ==
  ASSUME NEW n \in Nat, NEW s \in [1 .. n -> Int], NEW f \in TopKOf(s, n),
         NEW p \in 1 .. n
  PROVE  \E i \in 1 .. n : f[i] = p
<1> SUFFICES ASSUME \A i \in 1 .. n : f[i] # p  PROVE FALSE
  OBVIOUS
<1>1. f \in [1 .. n -> (1 .. n) \ {p}]
  BY DEF TopKOf
<1>2. PICK x, y \in 1 .. n : x # y /\ f[x] = f[y]
  BY <1>1, NoRoom
<1>. QED  BY <1>2 DEF TopKOf

-----------------------------------------------------------------------------
(* The inductive invariant *)

\* What Init fixes and no step changes.
Shape ==
  /\ rows \in RowCounts /\ kv \in KeyCounts /\ heads \in HeadCounts
  /\ topk \in TopKs /\ maxBytes \in Bytes
  /\ ke \in 0 .. kv /\ ks \in 0 .. ke
  /\ headChunk \in Nat \ {0} /\ keyChunk \in Nat \ {0}
  /\ psum \in [0 .. heads -> [Keys -> Int]]
  /\ psum[0] = Zeros
  /\ \A k \in Keys : Total(k) \in Int /\ NegInf < Total(k)

Progress ==
  /\ pc \in {"chunks", "done"}
  /\ keyStart \in Nat /\ headStart \in 0 .. heads
  /\ pc = "done" => keyStart >= kv

\* The chunk's logits are the sums over the heads added so far.
Summed == logits = [k \in Keys |-> IF k >= keyStart /\ k < KeyEnd
                                     THEN psum[headStart][k] ELSE 0]

\* best holds the totals of the keys in out, and -inf where there is none.
BestOfOut ==
  /\ best \in [1 .. topk -> Int]
  /\ out \in [1 .. topk -> {-1} \cup Keys]
  /\ \A i \in 1 .. topk :
       best[i] = IF out[i] = -1 THEN NegInf ELSE Total(out[i])

IndInv == Shape /\ Progress /\ Summed /\ BestOfOut /\ ExactTopK

\* The arithmetic of the constants.
LEMMA ConstantTypes ==
  ASSUME Shape
  PROVE  /\ rows \in Nat /\ kv \in Nat /\ heads \in Nat \ {0}
         /\ topk \in Nat \ {0} /\ maxBytes \in Nat /\ NegInf \in Int
         /\ ks \in Nat /\ ke \in Nat /\ ks <= ke /\ ke <= kv
BY MergeConstants DEF Shape

\* The chunk the loop is at lies within the keys.
LEMMA ChunkBounds ==
  ASSUME Shape, Progress, keyStart < kv
  PROVE  /\ KeyEnd \in Nat /\ keyStart < KeyEnd /\ KeyEnd <= kv
         /\ Width \in Nat \ {0} /\ Width = KeyEnd - keyStart
         /\ KeyEnd = keyStart + keyChunk \/ KeyEnd = kv
         /\ KeyEnd <= keyStart + keyChunk
         /\ Picked \in Nat \ {0} /\ Picked <= Width /\ Picked <= topk
         /\ Picked = Width \/ Picked = topk
<1>1. /\ kv \in Nat /\ keyStart \in Nat /\ keyChunk \in Nat \ {0}
      /\ topk \in Nat \ {0}
  BY ConstantTypes DEF Shape, Progress
<1>2. /\ KeyEnd \in Nat /\ keyStart < KeyEnd /\ KeyEnd <= kv
      /\ KeyEnd = keyStart + keyChunk \/ KeyEnd = kv
      /\ KeyEnd <= keyStart + keyChunk
  BY <1>1 DEF KeyEnd, Least
<1>3. Width \in Nat \ {0} /\ Width = KeyEnd - keyStart
  BY <1>1, <1>2 DEF Width
<1>. QED  BY <1>1, <1>2, <1>3 DEF Picked, Least

LEMMA ChunkSizesPositive ==
  /\ \A r, k, h, b \in Nat : HeadChunkSize(r, k, h, b) \in Nat \ {0}
  /\ \A r, k, h, b \in Nat : KeyChunkSize(r, k, h, b) \in Nat \ {0}
  /\ \A c \in Int : PageChunkSize(c) \in Nat \ {0}
<1>1. \A x, y \in Nat : y > 0 => x \div y \in Nat
  OBVIOUS
<1>2. \A x \in Int : Most(1, x) \in Nat \ {0}
  BY DEF Most
<1>3. \A x, y \in Int : Least(x, y) \in Int
  BY DEF Least
<1>4. ASSUME NEW r \in Nat, NEW k \in Nat, NEW h \in Nat, NEW b \in Nat
      PROVE  HeadChunkSize(r, k, h, b) \in Nat \ {0}
  <2>1. r * k \in Int
    OBVIOUS
  <2>2. Most(1, r * k) * 4 \in Nat /\ Most(1, r * k) * 4 > 0
    BY <2>1, <1>2
  <2>3. b \div (Most(1, r * k) * 4) \in Nat
    BY <2>2, <1>1
  <2>4. \A d \in Nat : Least(Least(8, h), d) \in Int
    BY <1>3
  <2>. QED  BY <2>3, <2>4, <1>2 DEF HeadChunkSize
<1>5. ASSUME NEW r \in Nat, NEW k \in Nat, NEW h \in Nat, NEW b \in Nat
      PROVE  KeyChunkSize(r, k, h, b) \in Nat \ {0}
  <2>1. r * h \in Int
    OBVIOUS
  <2>2. Most(1, r * h) * 4 \in Nat /\ Most(1, r * h) * 4 > 0
    BY <2>1, <1>2
  <2>3. b \div (Most(1, r * h) * 4) \in Nat
    BY <2>2, <1>1
  <2>4. \A d \in Nat : Least(k, d) \in Int
    BY <1>3
  <2>. QED  BY <2>3, <2>4, <1>2 DEF KeyChunkSize
<1>6. \A c \in Int : PageChunkSize(c) \in Nat \ {0}
  BY <1>2 DEF PageChunkSize
<1>. QED  BY <1>4, <1>5, <1>6

LEMMA InitIndInv == Init => IndInv
<1> SUFFICES ASSUME Init  PROVE IndInv
  OBVIOUS
<1>1. /\ rows \in Nat /\ kv \in Nat /\ heads \in Nat \ {0}
      /\ topk \in Nat \ {0} /\ maxBytes \in Nat
  BY MergeConstants DEF Init
<1>2. PICK s \in [1 .. heads -> [Keys -> Scores]] :
         psum = [h \in 0 .. heads |-> IF h = 0 THEN Zeros ELSE s[h]]
  BY DEF Init
<1>3. Zeros \in [Keys -> Int]
  BY DEF Zeros
<1>4. /\ psum \in [0 .. heads -> [Keys -> Int]]
      /\ psum[0] = Zeros
      /\ \A k \in Keys : Total(k) \in Int /\ NegInf < Total(k)
  <2>1. \A h \in 1 .. heads : s[h] \in [Keys -> Int]
    BY <1>2, MergeConstants
  <2>2. \A h \in 0 .. heads : psum[h] \in [Keys -> Int]
    BY <1>1, <1>2, <1>3, <2>1
  <2>3. psum = [h \in 0 .. heads |-> psum[h]]
    BY <1>2
  <2>4. psum \in [0 .. heads -> [Keys -> Int]]
    BY <2>2, <2>3
  <2>5. \A k \in Keys : Total(k) = s[heads][k] /\ s[heads][k] \in Scores
    BY <1>1, <1>2 DEF Total
  <2>6. \A k \in Keys : Total(k) \in Int /\ NegInf < Total(k)
    BY <2>5, MergeConstants
  <2>7. psum[0] = Zeros
    BY <1>1, <1>2
  <2>. QED  BY <2>4, <2>6, <2>7
<1>5. headChunk \in Nat \ {0} /\ keyChunk \in Nat \ {0}
  <2>1. CASE /\ headChunk = HeadChunkSize(rows, kv, heads, maxBytes)
             /\ keyChunk = KeyChunkSize(rows, kv, headChunk, maxBytes)
    <3>1. headChunk \in Nat \ {0}
      BY <1>1, <2>1, ChunkSizesPositive
    <3>. QED  BY <1>1, <2>1, <3>1, ChunkSizesPositive
  <2>2. CASE headChunk = heads /\ \E c \in PageChunks : keyChunk = PageChunkSize(c)
    BY <1>1, <2>2, ChunkSizesPositive, MergeConstants
  <2>. QED  BY <2>1, <2>2 DEF Init
<1>6. ks \in 0 .. ke /\ ke \in 0 .. kv
  BY <1>1 DEF Init
<1>7. Shape
  BY <1>4, <1>5, <1>6 DEF Init, Shape
<1>8. Progress
  BY <1>1 DEF Init, Progress
<1>9. Summed
  BY <1>4 DEF Init, Summed, Zeros
<1>10. BestOfOut
  BY <1>1, MergeConstants DEF Init, BestOfOut
<1>11. ExactTopK
  BY <1>1 DEF Init, ExactTopK, Passed, Keys
<1>. QED  BY <1>7, <1>8, <1>9, <1>10, <1>11 DEF IndInv

LEMMA AddHeadsIndInv == IndInv /\ AddHeads => IndInv'
<1> SUFFICES ASSUME IndInv, AddHeads  PROVE IndInv'
  OBVIOUS
<1>1. Shape'
  BY DEF IndInv, AddHeads, inputs, Shape, Keys, Total, Zeros
<1>2. /\ rows \in Nat /\ kv \in Nat /\ heads \in Nat \ {0}
      /\ headChunk \in Nat \ {0} /\ headStart \in 0 .. heads
      /\ headStart < heads
  BY ConstantTypes DEF IndInv, Shape, Progress, AddHeads
<1>3. Least(headStart + headChunk, heads) \in 0 .. heads
  BY <1>2 DEF Least
<1>4. Progress'
  BY <1>2, <1>3 DEF IndInv, Progress, AddHeads, inputs
<1>5. Summed'
  <2> DEFINE headEnd == Least(headStart + headChunk, heads)
             In(k)   == k >= keyStart /\ k < KeyEnd
  <2>1. /\ headStart' = headEnd /\ Keys' = Keys /\ KeyEnd' = KeyEnd
        /\ psum' = psum /\ keyStart' = keyStart
    BY DEF AddHeads, inputs, Keys, KeyEnd
  <2>2. \A k \in Keys : In(k) => logits[k] = psum[headStart][k]
    BY DEF IndInv, Summed
  <2>3. \A k \in Keys : ~In(k) => logits[k] = 0
    BY DEF IndInv, Summed
  <2>4. headEnd \in 0 .. heads
    BY <1>3
  <2>5. \A k \in Keys : psum[headStart][k] \in Int /\ psum[headEnd][k] \in Int
    BY <1>2, <2>4 DEF IndInv, Shape
  <2>6. logits' = [k \in Keys |->
                     IF In(k) THEN logits[k] + (psum[headEnd][k] - psum[headStart][k])
                     ELSE logits[k]]
    BY DEF AddHeads
  <2> HIDE DEF headEnd, In
  <2>7. \A k \in Keys : logits[k] + (psum[headEnd][k] - psum[headStart][k])
                          = psum[headEnd][k] \/ ~In(k)
    BY <2>2, <2>5
  <2>8. logits' = [k \in Keys |-> IF In(k) THEN psum[headEnd][k] ELSE 0]
    BY <2>3, <2>6, <2>7
  <2>. QED  BY <2>1, <2>8 DEF Summed, In
<1>6. BestOfOut'
  BY DEF IndInv, AddHeads, inputs, BestOfOut, Keys, Total
<1>7. ExactTopK'
  BY DEF IndInv, AddHeads, inputs, ExactTopK, Passed, Keys, Valid, Total
<1>. QED  BY <1>1, <1>4, <1>5, <1>6, <1>7 DEF IndInv

LEMMA FinishIndInv == IndInv /\ Finish => IndInv'
<1> SUFFICES ASSUME IndInv, Finish  PROVE IndInv'
  OBVIOUS
<1>1. Shape'
  BY DEF IndInv, Finish, inputs, Shape, Keys, Total, Zeros
<1>2. Progress'
  BY DEF IndInv, Progress, Finish, inputs
<1>3. Summed'
  BY DEF IndInv, Summed, Finish, inputs, Keys, KeyEnd
<1>4. BestOfOut'
  BY DEF IndInv, Finish, inputs, BestOfOut, Keys, Total
<1>5. Passed' = Passed
  <2>1. \A k \in Keys : k < keyStart
    BY ConstantTypes DEF IndInv, Progress, Finish, Keys
  <2>. QED  BY <2>1 DEF Finish, inputs, Passed, Keys, Valid
<1>6. ExactTopK'
  BY <1>5 DEF IndInv, Finish, inputs, ExactTopK, Total
<1>. QED  BY <1>1, <1>2, <1>3, <1>4, <1>6 DEF IndInv
-----------------------------------------------------------------------------
(* Merge *)

\* Once all heads are in, a chunk value is the key's total or -inf.
LEMMA ChunkValue ==
  ASSUME IndInv, keyStart < kv, headStart >= heads
  PROVE  /\ ChunkValues \in [1 .. Width -> Int]
         /\ \A p \in 1 .. Width :
              /\ keyStart + p - 1 \in Keys
              /\ keyStart + p - 1 >= keyStart /\ keyStart + p - 1 < KeyEnd
              /\ ChunkValues[p] = IF Valid(keyStart + p - 1)
                                    THEN Total(keyStart + p - 1) ELSE NegInf
<1>1. /\ KeyEnd \in Nat /\ KeyEnd <= kv /\ Width = KeyEnd - keyStart
      /\ Width \in Nat /\ keyStart \in Nat /\ kv \in Nat /\ NegInf \in Int
  BY ChunkBounds, ConstantTypes DEF IndInv, Progress
<1>2. headStart = heads
  BY ConstantTypes DEF IndInv, Progress
<1> SUFFICES ASSUME NEW p \in 1 .. Width
             PROVE  /\ keyStart + p - 1 \in Keys
                    /\ keyStart + p - 1 >= keyStart /\ keyStart + p - 1 < KeyEnd
                    /\ ChunkValues[p] \in Int
                    /\ ChunkValues[p] = IF Valid(keyStart + p - 1)
                                          THEN Total(keyStart + p - 1) ELSE NegInf
  BY <1>1 DEF ChunkValues
<1> DEFINE k == keyStart + p - 1
<1>3. k \in Keys /\ k >= keyStart /\ k < KeyEnd
  BY <1>1 DEF Keys
<1> HIDE DEF k
<1>4. logits[k] = Total(k)
  BY <1>2, <1>3 DEF IndInv, Summed, Total
<1>5. ChunkValues[p] = IF Valid(k) THEN logits[k] ELSE NegInf
  BY DEF ChunkValues, k
<1>6. Total(k) \in Int
  BY <1>3 DEF IndInv, Shape
<1>. QED  BY <1>1, <1>3, <1>4, <1>5, <1>6 DEF k

\* The keys passed once the chunk is merged.
Passing == {k \in Keys : Valid(k) /\ k < KeyEnd}

\* What the candidates are: a finite one stands for a key passed, with its
\* total, and no two finite ones for the same key.
LEMMA CandidateFacts ==
  ASSUME IndInv, pc = "chunks", keyStart < kv, headStart >= heads,
         NEW a \in TopKOf(ChunkValues, Picked)
  PROVE  /\ CandidateValues(a) \in [Candidates -> Int]
         /\ \A c \in Candidates : CandidateValues(a)[c] # NegInf =>
              /\ CandidateKeys(a)[c] \in Passing
              /\ CandidateValues(a)[c] = Total(CandidateKeys(a)[c])
         /\ \A c, d \in Candidates :
              c # d /\ CandidateValues(a)[c] # NegInf
                    /\ CandidateValues(a)[d] # NegInf
              => CandidateKeys(a)[c] # CandidateKeys(a)[d]
<1> DEFINE vals == CandidateValues(a)
           keys == CandidateKeys(a)
<1>1. /\ topk \in Nat \ {0} /\ Picked \in Nat \ {0} /\ keyStart \in Nat
      /\ kv \in Nat /\ keyStart < KeyEnd /\ KeyEnd \in Nat /\ Width \in Nat
  BY ChunkBounds, ConstantTypes DEF IndInv, Progress
<1>2. /\ a \in [1 .. Picked -> 1 .. Width]
      /\ \A i, j \in 1 .. Picked : i # j => a[i] # a[j]
  BY ChunkValue DEF TopKOf
<1>3. \A c \in Candidates : c <= topk =>
        c \in 1 .. topk /\ vals[c] = best[c] /\ keys[c] = out[c]
  BY <1>1 DEF CandidateValues, CandidateKeys, Candidates
<1>4. \A c \in Candidates : ~(c <= topk) =>
        /\ c - topk \in 1 .. Picked /\ a[c - topk] \in 1 .. Width
        /\ vals[c] = ChunkValues[a[c - topk]]
        /\ keys[c] = keyStart + a[c - topk] - 1
  BY <1>1, <1>2 DEF CandidateValues, CandidateKeys, Candidates
<1>5. \A c \in Candidates : c <= topk =>
        /\ vals[c] \in Int
        /\ vals[c] # NegInf => /\ keys[c] \in Passing /\ keys[c] < keyStart
                               /\ keys[c] # -1 /\ vals[c] = Total(keys[c])
  <2>1. \A i \in 1 .. topk : best[i] \in Int /\ best[i] = IF out[i] = -1 THEN NegInf ELSE Total(out[i])
    BY DEF IndInv, BestOfOut
  <2>2. \A i \in 1 .. topk : out[i] # -1 =>
          out[i] \in Keys /\ Valid(out[i]) /\ out[i] < keyStart
    BY DEF IndInv, ExactTopK, Passed
  <2>3. \A k \in Keys : k < keyStart => k < KeyEnd
    BY <1>1 DEF Keys
  <2>. QED  BY <1>3, <2>1, <2>2, <2>3 DEF Passing
<1>6. \A c \in Candidates : ~(c <= topk) =>
        /\ vals[c] \in Int
        /\ vals[c] # NegInf => /\ keys[c] \in Passing /\ keys[c] >= keyStart
                               /\ vals[c] = Total(keys[c])
  BY <1>4, ChunkValue DEF Passing
<1> HIDE DEF vals, keys
<1>7. vals \in [Candidates -> Int]
  BY <1>5, <1>6 DEF vals, CandidateValues
<1>8. ASSUME NEW c \in Candidates, NEW d \in Candidates, c # d,
             vals[c] # NegInf, vals[d] # NegInf
      PROVE  keys[c] # keys[d]
  <2>1. CASE c <= topk /\ d <= topk
    <3>1. out[c] # -1
      BY <1>3, <1>5, <1>8, <2>1
    <3>. QED  BY <1>3, <1>8, <2>1, <3>1 DEF IndInv, ExactTopK
  <2>2. CASE ~(c <= topk) /\ ~(d <= topk)
    <3>1. c \in Int /\ d \in Int /\ topk \in Int
      BY <1>1 DEF Candidates
    <3>2. c - topk # d - topk
      BY <3>1, <1>8
    <3>3. a[c - topk] # a[d - topk]
      BY <1>2, <1>4, <2>2, <3>2
    <3>. QED  BY <1>1, <1>4, <2>2, <3>3
  <2>3. CASE c <= topk /\ ~(d <= topk)
    BY <1>1, <1>5, <1>6, <1>8, <2>3 DEF Passing, Keys
  <2>4. CASE ~(c <= topk) /\ d <= topk
    BY <1>1, <1>5, <1>6, <1>8, <2>4 DEF Passing, Keys
  <2>. QED  BY <2>1, <2>2, <2>3, <2>4
<1>. QED  BY <1>5, <1>6, <1>7, <1>8 DEF vals, keys

\* A key passed is a candidate itself, or topk candidates are as good.
LEMMA KeyOrBetter ==
  ASSUME IndInv, pc = "chunks", keyStart < kv, headStart >= heads,
         NEW a \in TopKOf(ChunkValues, Picked), NEW k \in Passing
  PROVE  \/ \E c \in Candidates : /\ CandidateKeys(a)[c] = k
                                  /\ CandidateValues(a)[c] = Total(k)
         \/ \E g \in [1 .. topk -> Candidates] :
              /\ \A i, j \in 1 .. topk : i # j => g[i] # g[j]
              /\ \A i \in 1 .. topk : CandidateValues(a)[g[i]] >= Total(k)
<1>1. /\ topk \in Nat \ {0} /\ Picked \in Nat \ {0} /\ keyStart \in Nat
      /\ kv \in Nat /\ keyStart < KeyEnd /\ KeyEnd \in Nat /\ Width \in Nat
      /\ Width = KeyEnd - keyStart /\ (Picked = Width \/ Picked = topk)
  BY ChunkBounds, ConstantTypes DEF IndInv, Progress
<1>2. /\ a \in [1 .. Picked -> 1 .. Width]
      /\ \A i, j \in 1 .. Picked : i # j => a[i] # a[j]
      /\ \A p \in 1 .. Width : (\A i \in 1 .. Picked : a[i] # p) =>
           \A i \in 1 .. Picked : ChunkValues[p] <= ChunkValues[a[i]]
  BY ChunkValue DEF TopKOf
<1>3. \A i \in 1 .. topk :
        /\ i \in Candidates
        /\ CandidateValues(a)[i] = best[i] /\ CandidateKeys(a)[i] = out[i]
  BY <1>1 DEF CandidateValues, CandidateKeys, Candidates
<1>4. \A i \in 1 .. Picked :
        /\ topk + i \in Candidates
        /\ CandidateValues(a)[topk + i] = ChunkValues[a[i]]
        /\ CandidateKeys(a)[topk + i] = keyStart + a[i] - 1
  <2> SUFFICES ASSUME NEW i \in 1 .. Picked
               PROVE  /\ topk + i \in Candidates
                      /\ CandidateValues(a)[topk + i] = ChunkValues[a[i]]
                      /\ CandidateKeys(a)[topk + i] = keyStart + a[i] - 1
    OBVIOUS
  <2>1. topk + i \in Candidates /\ ~(topk + i <= topk) /\ (topk + i) - topk = i
    BY <1>1 DEF Candidates
  <2>. QED  BY <2>1 DEF CandidateValues, CandidateKeys
<1>5. k \in Keys /\ Valid(k) /\ k < KeyEnd /\ k \in Nat
  BY <1>1 DEF Passing, Keys
<1>6. CASE k < keyStart
  <2>1. k \in Passed
    BY <1>5, <1>6 DEF Passed
  <2>2. CASE \E i \in 1 .. topk : out[i] = k
    <3>1. PICK i \in 1 .. topk : out[i] = k
      BY <2>2
    <3>2. out[i] # -1
      BY <1>5, <3>1
    <3>3. best[i] = Total(k)
      BY <3>1, <3>2 DEF IndInv, BestOfOut
    <3>. QED  BY <1>3, <3>1, <3>3
  <2>3. CASE \A i \in 1 .. topk : out[i] # k
    <3>1. \A i \in 1 .. topk : out[i] # -1 /\ Total(k) <= Total(out[i])
      BY <2>1, <2>3 DEF IndInv, ExactTopK
    <3>2. \A i \in 1 .. topk : best[i] = Total(out[i]) /\ best[i] \in Int
      BY <3>1 DEF IndInv, BestOfOut
    <3>3. Total(k) \in Int
      BY <1>5 DEF IndInv, Shape
    <3>4. \A i \in 1 .. topk : CandidateValues(a)[i] >= Total(k)
      BY <1>3, <3>1, <3>2, <3>3
    <3> DEFINE g == [i \in 1 .. topk |-> i]
    <3>5. g \in [1 .. topk -> Candidates] /\ \A i \in 1 .. topk : g[i] = i
      BY <1>3
    <3> HIDE DEF g
    <3>. QED  BY <3>4, <3>5
  <2>. QED  BY <2>2, <2>3
<1>7. CASE k >= keyStart
  <2> DEFINE p == k - keyStart + 1
  <2>1. p \in 1 .. Width /\ keyStart + p - 1 = k
    BY <1>1, <1>5, <1>7
  <2> HIDE DEF p
  <2>2. ChunkValues[p] = Total(k)
    BY <1>5, <2>1, ChunkValue
  <2>3. CASE \E i \in 1 .. Picked : a[i] = p
    <3>1. PICK i \in 1 .. Picked : a[i] = p
      BY <2>3
    <3>. QED  BY <1>4, <2>1, <2>2, <3>1
  <2>4. CASE \A i \in 1 .. Picked : a[i] # p
    <3>1. \A i \in 1 .. Picked : ChunkValues[p] <= ChunkValues[a[i]]
      BY <1>2, <2>1, <2>4
    <3>2. Picked = topk
      <4> SUFFICES ASSUME Picked = Width  PROVE FALSE
        BY <1>1
      <4>1. ChunkValues \in [1 .. Picked -> Int]
        BY ChunkValue
      <4>2. Picked \in Nat /\ p \in 1 .. Picked
        BY <1>1, <2>1
      <4>3. \E i \in 1 .. Picked : a[i] = p
        <5>1. \A n \in Nat : \A s \in [1 .. n -> Int] : \A f \in TopKOf(s, n) :
                \A q \in 1 .. n : \E i \in 1 .. n : f[i] = q
          BY TopKAll
        <5>. QED  BY <4>1, <4>2, <5>1
      <4>. QED  BY <2>4, <4>3
    <3>3. \A i \in 1 .. Picked : ChunkValues[a[i]] \in Int /\ ChunkValues[p] \in Int
      BY <1>2, <2>1, ChunkValue
    <3>4. \A i \in 1 .. topk :
            topk + i \in Candidates /\ CandidateValues(a)[topk + i] >= Total(k)
      BY <1>4, <2>2, <3>1, <3>2, <3>3
    <3> DEFINE g == [i \in 1 .. topk |-> topk + i]
    <3>5. g \in [1 .. topk -> Candidates] /\ \A i \in 1 .. topk : g[i] = topk + i
      BY <3>4
    <3> HIDE DEF g
    <3>6. \A i, j \in 1 .. topk : i # j => g[i] # g[j]
      BY <1>1, <3>5
    <3>. QED  BY <3>4, <3>5, <3>6
  <2>. QED  BY <2>3, <2>4
<1>. QED  BY <1>1, <1>5, <1>6, <1>7

LEMMA MergeIndInv == IndInv /\ Merge => IndInv'
<1> SUFFICES ASSUME IndInv, Merge  PROVE IndInv'
  OBVIOUS
<1>0. pc = "chunks" /\ keyStart < kv /\ headStart >= heads
  BY DEF Merge
<1>1. PICK a \in TopKOf(ChunkValues, Picked) :
      \E b \in TopKOf(CandidateValues(a), topk) :
        /\ best' = [i \in 1 .. topk |-> CandidateValues(a)[b[i]]]
        /\ out' = [i \in 1 .. topk |-> IF best'[i] = NegInf THEN -1
                                       ELSE CandidateKeys(a)[b[i]]]
  BY DEF Merge
<1> DEFINE vals == CandidateValues(a)
           keys == CandidateKeys(a)
<1>2. PICK b \in TopKOf(vals, topk) :
        /\ best' = [i \in 1 .. topk |-> vals[b[i]]]
        /\ out' = [i \in 1 .. topk |-> IF best'[i] = NegInf THEN -1
                                       ELSE keys[b[i]]]
  BY <1>1
<1>3. /\ vals \in [Candidates -> Int]
      /\ \A c \in Candidates : vals[c] # NegInf =>
           keys[c] \in Passing /\ vals[c] = Total(keys[c])
      /\ \A c, d \in Candidates :
           c # d /\ vals[c] # NegInf /\ vals[d] # NegInf => keys[c] # keys[d]
  BY <1>0, CandidateFacts
<1>4. \A k \in Passing :
        \/ \E c \in Candidates : keys[c] = k /\ vals[c] = Total(k)
        \/ \E g \in [1 .. topk -> Candidates] :
             /\ \A i, j \in 1 .. topk : i # j => g[i] # g[j]
             /\ \A i \in 1 .. topk : vals[g[i]] >= Total(k)
  BY <1>0, KeyOrBetter
<1> HIDE DEF vals, keys
<1>5. /\ topk \in Nat \ {0} /\ Picked \in Nat /\ kv \in Nat /\ heads \in Nat
      /\ keyStart \in Nat /\ keyChunk \in Nat \ {0} /\ KeyEnd \in Nat
      /\ KeyEnd = keyStart + keyChunk \/ KeyEnd = kv
      /\ KeyEnd <= keyStart + keyChunk /\ NegInf \in Int
      /\ KeyEnd <= kv
  BY <1>0, ChunkBounds, ConstantTypes DEF IndInv, Progress, Shape
<1>6. /\ b \in [1 .. topk -> Candidates]
      /\ \A i, j \in 1 .. topk : i # j => b[i] # b[j]
      /\ \A c \in Candidates : (\A i \in 1 .. topk : b[i] # c) =>
           \A i \in 1 .. topk : vals[c] <= vals[b[i]]
  BY <1>3 DEF TopKOf
<1>7. \A i \in 1 .. topk :
        /\ best'[i] = vals[b[i]] /\ best'[i] \in Int
        /\ out'[i] = IF vals[b[i]] = NegInf THEN -1 ELSE keys[b[i]]
        /\ vals[b[i]] # NegInf =>
             /\ keys[b[i]] \in Passing /\ keys[b[i]] # -1
             /\ vals[b[i]] = Total(keys[b[i]])
  BY <1>2, <1>3, <1>6 DEF Passing, Keys
<1>8. /\ UNCHANGED inputs /\ pc' = pc /\ keyStart' = keyStart + keyChunk
      /\ headStart' = 0 /\ logits' = Zeros
  BY DEF Merge
<1>9. Shape'
  BY <1>8 DEF IndInv, inputs, Shape, Keys, Total, Zeros
<1>10. Progress'
  BY <1>0, <1>5, <1>8 DEF IndInv, Progress, inputs
<1>11. Summed'
  <2>1. Keys' = Keys /\ psum'[0] = Zeros /\ headStart' = 0
    BY <1>8 DEF IndInv, Shape, inputs, Keys
  <2>2. logits' = [k \in Keys |-> 0] /\ \A k \in Keys : psum'[headStart'][k] = 0
    BY <1>8, <2>1 DEF Zeros
  <2>. QED  BY <2>1, <2>2 DEF Summed
<1>12. BestOfOut'
  <2>1. topk' = topk /\ Keys' = Keys /\ \A k \in Keys : Total(k)' = Total(k)
    BY <1>8 DEF inputs, Keys, Total
  <2>2. best' \in [1 .. topk -> Int]
    BY <1>2, <1>7
  <2>3. \A i \in 1 .. topk :
          /\ out'[i] \in {-1} \cup Keys
          /\ best'[i] = IF out'[i] = -1 THEN NegInf ELSE Total(out'[i])
    BY <1>7 DEF Passing
  <2>4. out' \in [1 .. topk -> {-1} \cup Keys]
    BY <1>2, <2>3
  <2>5. heads' = heads /\ psum' = psum /\ NegInf' = NegInf
    BY <1>8 DEF inputs
  <2>. QED  BY <2>1, <2>2, <2>3, <2>4, <2>5 DEF BestOfOut, Total
<1>13. Passed' = Passing
  <2>1. \A k \in Keys : k < KeyEnd <=> k < keyStart + keyChunk
    BY <1>5 DEF Keys
  <2>2. Keys' = Keys /\ pc' # "done" /\ keyStart' = keyStart + keyChunk
    BY <1>0, <1>8 DEF inputs, Keys
  <2>3. \A k \in Keys : Valid(k)' <=> Valid(k)
    BY <1>8 DEF inputs, Valid
  <2>. QED  BY <2>1, <2>2, <2>3, <1>8 DEF Passed, Passing, inputs, Valid
<1>14. ASSUME NEW k \in Passing, \A i \in 1 .. topk : out'[i] # k
       PROVE  \A i \in 1 .. topk : out'[i] # -1 /\ Total(k) <= Total(out'[i])
  <2>1. Total(k) \in Int /\ NegInf < Total(k)
    BY DEF IndInv, Shape, Passing
  <2>2. \A i \in 1 .. topk : vals[b[i]] >= Total(k)
    <3>1. CASE \E c \in Candidates : keys[c] = k /\ vals[c] = Total(k)
      <4>1. PICK c \in Candidates : keys[c] = k /\ vals[c] = Total(k)
        BY <3>1
      <4>2. \A i \in 1 .. topk : b[i] # c
        <5> SUFFICES ASSUME NEW i \in 1 .. topk, b[i] = c  PROVE FALSE
          OBVIOUS
        <5>1. vals[b[i]] # NegInf
          BY <1>5, <2>1, <4>1
        <5>. QED  BY <1>7, <1>14, <4>1, <5>1
      <4>3. \A i \in 1 .. topk : vals[c] <= vals[b[i]] /\ vals[b[i]] \in Int
        BY <1>6, <1>7, <4>2
      <4>. QED  BY <2>1, <4>1, <4>3
    <3>2. CASE \E g \in [1 .. topk -> Candidates] :
                 /\ \A i, j \in 1 .. topk : i # j => g[i] # g[j]
                 /\ \A i \in 1 .. topk : vals[g[i]] >= Total(k)
      <4>1. PICK g \in [1 .. topk -> 1 .. topk + Picked] :
                   /\ \A i, j \in 1 .. topk : i # j => g[i] # g[j]
                   /\ \A i \in 1 .. topk : vals[g[i]] >= Total(k)
        BY <3>2 DEF Candidates
      <4>2. topk + Picked \in Nat /\ vals \in [1 .. topk + Picked -> Int]
        BY <1>3, <1>5 DEF Candidates
      <4>. QED  BY <1>5, <2>1, <4>1, <4>2, TopKBeats
    <3>. QED  BY <1>4, <3>1, <3>2
  <2>. QED  BY <1>5, <1>7, <2>1, <2>2
<1>15. ExactTopK'
  <2>1. topk' = topk /\ psum' = psum /\ heads' = heads
    BY <1>8 DEF inputs
  <2>2. \A i \in 1 .. topk : out'[i] # -1 => out'[i] \in Passing
    BY <1>7
  <2>3. \A i, j \in 1 .. topk : i # j /\ out'[i] # -1 => out'[i] # out'[j]
    BY <1>3, <1>6, <1>7
  <2>. QED  BY <1>13, <1>14, <2>1, <2>2, <2>3 DEF ExactTopK, Total
<1>. QED  BY <1>9, <1>10, <1>11, <1>12, <1>15 DEF IndInv
-----------------------------------------------------------------------------
(* Theorems *)

LEMMA IndInvStep == IndInv /\ [Next]_vars => IndInv'
<1> SUFFICES ASSUME IndInv, [Next]_vars  PROVE IndInv'
  OBVIOUS
<1>1. CASE AddHeads
  BY <1>1, AddHeadsIndInv
<1>2. CASE Merge
  BY <1>2, MergeIndInv
<1>3. CASE Finish
  BY <1>3, FinishIndInv
<1>4. CASE UNCHANGED vars
  BY <1>4 DEF vars, IndInv, Shape, Progress, Summed, BestOfOut, ExactTopK, Passed,
              Keys, Zeros, Total, Valid, KeyEnd
<1>. QED  BY <1>1, <1>2, <1>3, <1>4 DEF Next

LEMMA IndInvHolds == Spec => []IndInv
BY InitIndInv, IndInvStep, PTL DEF Spec

\* The types: in particular the row never holds anything but -1 or a key.
THEOREM TypeCorrect == Spec => []TypeOK
<1>1. IndInv => TypeOK
  <2> SUFFICES ASSUME IndInv  PROVE TypeOK
    OBVIOUS
  <2>1. kv \in Nat /\ \A k \in Keys : k \in -1 .. kv-1
    BY ConstantTypes DEF IndInv, Keys
  <2>2. logits \in [Keys -> Int]
    BY DEF IndInv, Summed, Shape, Progress
  <2>3. out \in [1 .. topk -> -1 .. kv-1]
    BY <2>1 DEF IndInv, BestOfOut
  <2>. QED  BY <2>2, <2>3 DEF IndInv, Shape, Progress, BestOfOut, TypeOK
<1>. QED  BY <1>1, IndInvHolds, PTL

\* Whatever the chunk sizes and however torch.topk breaks ties, the row holds
\* the best topk keys of the part of its window that was passed.
THEOREM MergedTopKIsExact == Spec => []ExactTopK
<1>1. IndInv => ExactTopK
  BY DEF IndInv
<1>. QED  BY <1>1, IndInvHolds, PTL

LEMMA DivFacts ==
  ASSUME NEW x \in Nat, NEW y \in Nat \ {0}
  PROVE  x \div y \in Nat /\ (x \div y) * y <= x /\ (y <= x => x \div y >= 1)
OBVIOUS

LEMMA TimesMonotone ==
  ASSUME NEW x \in Nat, NEW y \in Nat, NEW z \in Nat, x <= y
  PROVE  x * z \in Nat /\ y * z \in Nat /\ x * z <= y * z
OBVIOUS

\* The two chunk sizes together keep the score tensor within the bound.
LEMMA SizesFit ==
  ASSUME NEW r \in Nat, NEW k \in Nat \ {0}, NEW h \in Nat, NEW b \in Nat,
         NEW hc, hc = HeadChunkSize(r, k, h, b),
         NEW kc, kc = KeyChunkSize(r, k, hc, b)
  PROVE  hc * r * kc * 4 <= b \/ (hc = 1 /\ kc = 1)
<1>1. hc \in Nat \ {0} /\ kc \in Nat \ {0}
  BY ChunkSizesPositive
<1>2. CASE r = 0
  <2>1. hc * 0 * kc * 4 = 0
    BY <1>1
  <2>. QED  BY <1>2, <2>1
<1>3. CASE r # 0
  <2> DEFINE row  == r * hc * 4
             all  == r * k * 4
  <2>1. row \in Nat \ {0} /\ all \in Nat \ {0}
    BY <1>1, <1>3
  <2>2. Most(1, r * hc) * 4 = row /\ Most(1, r * k) * 4 = all
    BY <1>1, <1>3 DEF Most
  <2>3. row * k = hc * all /\ kc * row = hc * r * kc * 4
    BY <1>1
  <2> HIDE DEF row, all
  <2>4. hc = Most(1, Least(Least(8, h), b \div all))
    BY <2>2 DEF HeadChunkSize
  <2>5. kc = Most(1, Least(k, b \div row))
    BY <2>2 DEF KeyChunkSize
  <2>6. CASE row <= b
    <3>1. b \div row \in Nat /\ b \div row >= 1 /\ (b \div row) * row <= b
      BY <2>1, <2>6, DivFacts
    <3>2. kc <= b \div row
      BY <2>5, <3>1 DEF Most, Least
    <3>3. kc * row \in Nat /\ kc * row <= (b \div row) * row /\ (b \div row) * row \in Nat
      BY <1>1, <2>1, <3>1, <3>2, TimesMonotone
    <3>4. kc * row <= b
      BY <3>1, <3>3
    <3>. QED  BY <2>3, <3>4
  <2>7. CASE ~(row <= b)
    <3>1. b \div row \in Nat /\ (b \div row) * row <= b
      BY <2>1, DivFacts
    <3>2. b \div row = 0
      <4>1. 1 <= b \div row => 1 * row <= (b \div row) * row
        BY <2>1, <3>1, TimesMonotone
      <4>. QED  BY <2>1, <2>7, <3>1, <4>1
    <3>3. kc = 1
      BY <2>5, <3>2 DEF Most, Least
    <3>4. hc = 1
      <4> SUFFICES ASSUME hc # 1  PROVE FALSE
        OBVIOUS
      <4>1. b \div all \in Nat /\ (b \div all) * all <= b
        BY <2>1, DivFacts
      <4>2. hc <= b \div all
        BY <1>1, <2>4, <4>1 DEF Most, Least
      <4>3. hc * all \in Nat /\ hc * all <= (b \div all) * all /\ (b \div all) * all \in Nat
        BY <1>1, <2>1, <4>1, <4>2, TimesMonotone
      <4>4. 1 * row <= k * row /\ k * row = row * k
        BY <2>1, TimesMonotone
      <4>. QED  BY <2>1, <2>3, <2>7, <4>1, <4>3, <4>4
    <3>. QED  BY <3>3, <3>4
  <2>. QED  BY <2>6, <2>7, <2>1
<1>. QED  BY <1>2, <1>3

\* The transient score tensor keeps to its byte bound for every shape, unless
\* one key of one head alone exceeds it.
THEOREM ScoresFit == Spec => []ScoresBounded
<1>1. IndInv => ScoresBounded
  <2> SUFFICES ASSUME IndInv, kv > 0,
                      headChunk = HeadChunkSize(rows, kv, heads, maxBytes),
                      keyChunk = KeyChunkSize(rows, kv, headChunk, maxBytes)
               PROVE  \/ headChunk * rows * keyChunk * 4 <= maxBytes
                      \/ headChunk = 1 /\ keyChunk = 1
    BY DEF ScoresBounded
  <2>1. /\ rows \in Nat /\ kv \in Nat \ {0} /\ heads \in Nat
        /\ maxBytes \in Nat
    BY ConstantTypes DEF IndInv
  <2>. QED  BY <2>1, SizesFit
<1>. QED  BY <1>1, IndInvHolds, PTL
=============================================================================
