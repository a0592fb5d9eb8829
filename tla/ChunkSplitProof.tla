-------------------------- MODULE ChunkSplitProof --------------------------
(***************************************************************************)
(* Proofs about ChunkSplit, for every batch, workspace size and logits     *)
(* budget.  IndInv is the inductive invariant; what it adds to the safety  *)
(* properties is the state of the two loops: which rows the open group     *)
(* holds, and how far the sub-chunk loop has got in them.  PlanInv adds    *)
(* what the closed-form plan has left to hand out.                         *)
(***************************************************************************)
EXTENDS ChunkSplit, WellFoundedInduction, SequenceTheorems, TLAPS

\* The caller's cumulative arrays: rows strictly grow, KV entries may not.
Monotone == /\ \A i, j \in 0 .. n : i < j => qsl[i] < qsl[j]
            /\ \A i, j \in 0 .. n : i < j => cu[i] <= cu[j]

\* The open group's totals are those of its requests.
GroupTotals == /\ m = qsl[end] - qsl[start]
               /\ nk = cu[end] - cu[start]
               /\ end > start => m > 0

Done(mm, q) == IF q < mm THEN q ELSE mm

InGroup == /\ start <= end /\ start < n
           /\ GroupTotals
           /\ end > start => nk <= workspace /\ m * nk <= elems
           /\ Covered = qsl[start]

InSlice == /\ start < end
           /\ GroupTotals
           /\ end = start + 1 \/ (nk <= workspace /\ m * nk <= elems)
           /\ maxq = MaxQ(elems, m, nk)
           /\ qoff = 0 \/ qoff >= maxq
           /\ Covered = qsl[start] + Done(m, qoff)
           /\ qoff > 0 => LET c == chunks[Len(chunks)]
                          IN  /\ chunks # << >>
                              /\ c.start = start /\ c.stop = end
                              /\ c.hi = Done(m, qoff)

IndInv == /\ TypeOK
          /\ Monotone
          /\ pc = "group" => InGroup
          /\ pc = "slice" => InSlice
          /\ RowsTiled
          /\ WithinLimits
          /\ GatherPrecedesReuse
-----------------------------------------------------------------------------
(* Facts about the arithmetic of one sub-chunk *)

\* The code's max_q rows never exceed the logits budget unless max_q is 1.
LEMMA DivFits ==
  ASSUME NEW a \in Nat, NEW b \in Nat \ {0}
  PROVE  /\ a \div b \in Nat
         /\ (a \div b) * b <= a
BY SMT

\* ... and it is the largest number of rows that fits.
LEMMA DivMax ==
  ASSUME NEW a \in Nat, NEW b \in Nat \ {0}, NEW c \in Nat, c * b <= a
  PROVE  c <= a \div b
BY SMT

LEMMA ProductMonotone ==
  ASSUME NEW a \in Nat, NEW b \in Nat, NEW c \in Nat, a <= b
  PROVE  a * c <= b * c
BY SMT

\* max_q is at least 1: the range of the sub-chunk loop always advances.
LEMMA MaxQPositive ==
  ASSUME NEW e \in Nat, NEW mm \in Nat \ {0}, NEW k \in Nat
  PROVE  MaxQ(e, mm, k) \in Nat \ {0}
<1>1. CASE k > 0
  BY <1>1, DivFits DEF MaxQ
<1>2. CASE k = 0
  BY <1>2 DEF MaxQ
<1>. QED
  BY <1>1, <1>2

\* A sub-chunk of at most max_q rows is within the budget or is one row, and
\* a group that fits is not cut at all.
LEMMA MaxQBounds ==
  ASSUME NEW e \in Nat, NEW mm \in Nat \ {0}, NEW k \in Nat,
         NEW sub \in Nat, sub <= mm, sub <= MaxQ(e, mm, k)
  PROVE  /\ sub * k <= e \/ (sub <= 1 /\ e < k)
         /\ mm * k <= e => mm <= MaxQ(e, mm, k)
<1>1. CASE k = 0
  <2>1. MaxQ(e, mm, k) = mm
    BY <1>1 DEF MaxQ
  <2>2. sub * k = 0
    BY <1>1, SMT
  <2>. QED
    BY <2>1, <2>2
<1>2. CASE k > 0 /\ e \div k > 1
  <2>. DEFINE d == e \div k
  <2>1. MaxQ(e, mm, k) = d
    BY <1>2 DEF MaxQ
  <2>2. d \in Nat /\ d * k <= e /\ d > 1
    BY <1>2, DivFits
  <2>3. mm * k <= e => mm <= d
    BY <1>2, DivMax
  <2>4. sub * k <= d * k
    BY <2>1, <2>2, ProductMonotone
  <2>. HIDE DEF d
  <2>5. sub * k \in Nat /\ d * k \in Nat
    BY <2>2, SMT
  <2>6. sub * k <= e
    BY <2>2, <2>4, <2>5
  <2>. QED
    BY <2>1, <2>2, <2>3, <2>6
<1>3. CASE k > 0 /\ ~(e \div k > 1)
  <2>. DEFINE d == e \div k
  <2>1. MaxQ(e, mm, k) = 1
    BY <1>3 DEF MaxQ
  <2>2. d \in Nat /\ d <= 1
    BY <1>3, DivFits
  <2>3. mm * k <= e => mm <= d
    BY <1>3, DivMax
  <2>4. k <= e => sub * k <= e
    <3>1. sub = 0 \/ sub = 1
      BY <2>1
    <3>. QED
      BY <3>1, SMT
  <2>. HIDE DEF d
  <2>. QED
    BY <2>1, <2>2, <2>3, <2>4
<1>. QED
  BY <1>1, <1>2, <1>3
-----------------------------------------------------------------------------
(* The invariant is inductive: one lemma per action *)

\* What the typing of the inputs says of single entries.
LEMMA InputTypes ==
  ASSUME n \in Counts, qsl \in [0 .. n -> Rows], cu \in [0 .. n -> Entries]
  PROVE  /\ n \in Nat /\ n > 0
         /\ \A i \in 0 .. n : qsl[i] \in Nat /\ cu[i] \in Nat
<1>1. n \in Nat /\ n > 0
  BY SplitConstants
<1>2. ASSUME NEW i \in 0 .. n
      PROVE  qsl[i] \in Nat /\ cu[i] \in Nat
  <2>1. qsl[i] \in Rows /\ cu[i] \in Entries
    BY <1>2
  <2>. QED
    BY <2>1, SplitConstants
<1>. QED
  BY <1>1, <1>2

LEMMA InitIndInv == Init => IndInv
<1>. SUFFICES ASSUME Init PROVE IndInv
  OBVIOUS
<1>. USE SplitConstants DEF Init
<1>1. TypeOK
  BY DEF TypeOK
<1>2. Monotone
  BY DEF Monotone
<1>3. n \in Nat \ {0} /\ qsl[0] \in Nat /\ cu[0] \in Nat
  BY InputTypes
<1>4. InGroup
  BY <1>3 DEF InGroup, GroupTotals, Covered
<1>5. RowsTiled /\ WithinLimits /\ GatherPrecedesReuse
  BY DEF RowsTiled, WithinLimits, GatherPrecedesReuse
<1>. QED
  BY <1>1, <1>2, <1>4, <1>5 DEF IndInv

\* Take changes the open group and nothing the chunks are judged by.
LEMMA TakeIndInv == IndInv /\ Take => IndInv'
<1>. SUFFICES ASSUME IndInv, Take PROVE IndInv'
  OBVIOUS
<1>. USE SplitConstants DEF IndInv
<1>1. /\ UNCHANGED <<n, qsl, cu, workspace, elems, pc, start, chunks>>
      /\ UNCHANGED <<maxq, qoff>>
      /\ pc = "group" /\ end' = end + 1 /\ end < n
  BY DEF Take, CanTake, inputs
<1>2. /\ n \in Nat /\ end \in 0 .. n-1 /\ end + 1 \in 0 .. n
      /\ start \in 0 .. n /\ m \in Nat /\ nk \in Nat
      /\ qsl[end] \in Nat /\ qsl[end + 1] \in Nat /\ qsl[start] \in Nat
      /\ cu[end] \in Nat /\ cu[end + 1] \in Nat /\ cu[start] \in Nat
      /\ qsl[end] < qsl[end + 1] /\ cu[end] <= cu[end + 1]
  <2>1. /\ n \in Nat /\ end \in 0 .. n-1 /\ end + 1 \in 0 .. n
        /\ start \in 0 .. n /\ m \in Nat /\ nk \in Nat
    BY <1>1, InputTypes DEF TypeOK
  <2>. QED
    BY <2>1, InputTypes DEF TypeOK, Monotone
<1>3. /\ m' = m + (qsl[end + 1] - qsl[end])
      /\ nk' = nk + (cu[end + 1] - cu[end])
      /\ nk' <= workspace /\ m' * nk' <= elems
  BY DEF Take, CanTake
<1>4. m' \in Nat /\ nk' \in Nat /\ m' > 0
  BY <1>2, <1>3
<1>5. TypeOK'
  BY <1>1, <1>2, <1>4 DEF TypeOK
<1>6. Monotone'
  BY <1>1 DEF Monotone
<1>7. InGroup'
  <2>1. GroupTotals'
    BY <1>1, <1>2, <1>3, <1>4 DEF InGroup, GroupTotals
  <2>. QED
    BY <2>1, <1>1, <1>2, <1>3 DEF InGroup, Covered, TokenEnd
<1>8. RowsTiled' /\ WithinLimits' /\ GatherPrecedesReuse'
  BY <1>1 DEF RowsTiled, WithinLimits, GatherPrecedesReuse, Covered,
              TokenStart, TokenEnd
<1>. QED
  BY <1>1, <1>5, <1>6, <1>7, <1>8

\* Close fixes the group: what fits, or one request alone.
LEMMA CloseIndInv == IndInv /\ Close => IndInv'
<1>. SUFFICES ASSUME IndInv, Close PROVE IndInv'
  OBVIOUS
<1>. USE SplitConstants DEF IndInv
<1>1. /\ UNCHANGED <<n, qsl, cu, workspace, elems, start, chunks>>
      /\ pc = "group" /\ pc' = "slice" /\ qoff' = 0
      /\ maxq' = MaxQ(elems, m', nk')
  BY DEF Close, inputs
<1>2. /\ n \in Nat /\ end \in 0 .. n /\ start \in 0 .. n
      /\ start <= end /\ start < n
      /\ m \in Nat /\ nk \in Nat /\ elems \in Nat
  BY <1>1 DEF TypeOK, InGroup
<1>3. /\ start < end' /\ end' \in 0 .. n
      /\ m' \in Nat \ {0} /\ nk' \in Nat
      /\ m' = qsl[end'] - qsl[start] /\ nk' = cu[end'] - cu[start]
      /\ end' = start + 1 \/ (nk' <= workspace /\ m' * nk' <= elems)
  <2>1. CASE end = start
    <3>1. /\ end' = start + 1 /\ end' \in 0 .. n
          /\ m' = qsl[end'] - qsl[start] /\ nk' = cu[end'] - cu[start]
      BY <1>2, <2>1 DEF Close
    <3>2. /\ qsl[start] \in Nat /\ qsl[start + 1] \in Nat
          /\ cu[start] \in Nat /\ cu[start + 1] \in Nat
          /\ qsl[start] < qsl[start + 1] /\ cu[start] <= cu[start + 1]
      <4>1. start \in 0 .. n-1 /\ start + 1 \in 0 .. n
        BY <1>2
      <4>. QED
        BY <1>2, <4>1, InputTypes DEF TypeOK, Monotone
    <3>3. m' \in Nat \ {0} /\ nk' \in Nat
      BY <3>1, <3>2
    <3>. QED
      BY <1>2, <3>1, <3>3
  <2>2. CASE end # start
    <3>1. m' = m /\ nk' = nk /\ end' = end
      BY <2>2 DEF Close
    <3>2. start < end
      BY <1>2, <2>2
    <3>3. /\ m > 0 /\ m = qsl[end] - qsl[start] /\ nk = cu[end] - cu[start]
          /\ nk <= workspace /\ m * nk <= elems
      BY <1>1, <3>2 DEF InGroup, GroupTotals
    <3>. QED
      BY <1>2, <3>1, <3>2, <3>3
  <2>. QED
    BY <2>1, <2>2
<1>4. MaxQ(elems, m', nk') \in Nat \ {0}
  BY <1>2, <1>3, MaxQPositive
<1>5. TypeOK'
  BY <1>1, <1>3, <1>4 DEF TypeOK
<1>6. Monotone'
  BY <1>1 DEF Monotone
<1>7. Covered' = qsl[start] /\ qsl[start] \in Nat
  BY <1>1, <1>2 DEF Covered, TokenEnd, InGroup, TypeOK
<1>8. InSlice'
  BY <1>1, <1>3, <1>7 DEF InSlice, GroupTotals, Done
<1>9. RowsTiled' /\ WithinLimits' /\ GatherPrecedesReuse'
  BY <1>1 DEF RowsTiled, WithinLimits, GatherPrecedesReuse, Covered,
              TokenStart, TokenEnd
<1>. QED
  BY <1>1, <1>5, <1>6, <1>8, <1>9

\* Slice appends one sub-chunk, which starts where the last chunk ended.
LEMMA SliceIndInv == IndInv /\ Slice => IndInv'
<1>. SUFFICES ASSUME IndInv, Slice PROVE IndInv'
  OBVIOUS
<1>. USE SplitConstants DEF IndInv
<1>. DEFINE sub == IF maxq < m - qoff THEN maxq ELSE m - qoff
            c   == Chunk(start, end, qoff, qoff + sub)
            L   == Len(chunks)
<1>1. /\ UNCHANGED <<n, qsl, cu, workspace, elems, pc, start, end, m, nk, maxq>>
      /\ pc = "slice" /\ qoff < m /\ qoff' = qoff + maxq
      /\ chunks' = Append(chunks, c)
  BY DEF Slice, inputs
<1>2. InSlice
  BY <1>1
<1>3. /\ n \in Nat /\ start \in 0 .. n /\ end \in 0 .. n /\ start < end
      /\ m \in Nat \ {0} /\ nk \in Nat /\ qoff \in Nat
      /\ elems \in Nat /\ workspace \in Nat
      /\ maxq = MaxQ(elems, m, nk)
      /\ qsl[start] \in Nat /\ qsl[end] \in Nat
      /\ m = qsl[end] - qsl[start] /\ nk = cu[end] - cu[start]
  BY <1>1, <1>2, InputTypes DEF TypeOK, InSlice, GroupTotals
<1>4. maxq \in Nat \ {0}
  BY <1>3, MaxQPositive
<1>5. /\ sub \in Nat \ {0} /\ sub <= maxq /\ sub <= m
      /\ qoff + sub <= m
      /\ qoff + sub = Done(m, qoff + maxq)
  <2>1. CASE maxq < m - qoff
    <3>1. sub = maxq
      BY <2>1
    <3>2. m \in Nat /\ qoff \in Nat /\ maxq \in Nat \ {0}
      BY <1>3, <1>4
    <3>3. Done(m, qoff + maxq) = qoff + maxq
      BY <2>1, <3>2 DEF Done
    <3>. HIDE DEF sub
    <3>. QED
      BY <2>1, <3>1, <3>2, <3>3
  <2>2. CASE ~(maxq < m - qoff)
    <3>1. sub = m - qoff
      BY <2>2
    <3>2. m \in Nat /\ qoff \in Nat /\ maxq \in Nat /\ qoff < m
      BY <1>1, <1>3, <1>4
    <3>3. Done(m, qoff + maxq) = m
      BY <2>2, <3>2 DEF Done
    <3>. HIDE DEF sub
    <3>. QED
      BY <2>2, <3>1, <3>2, <3>3
  <2>. QED
    BY <2>1, <2>2
<1>6. c = [start |-> start, stop |-> end, lo |-> qoff, hi |-> qoff + sub]
  BY DEF Chunk
<1>. HIDE DEF sub, c
<1>7. /\ c.start = start /\ c.stop = end /\ c.lo = qoff /\ c.hi = qoff + sub
      /\ c \in [start : 0 .. n, stop : 0 .. n, lo : Nat, hi : Nat]
  BY <1>3, <1>5, <1>6
<1>8. /\ chunks \in Seq([start : 0 .. n, stop : 0 .. n, lo : Nat, hi : Nat])
      /\ L \in Nat
      /\ chunks' \in Seq([start : 0 .. n, stop : 0 .. n, lo : Nat, hi : Nat])
      /\ Len(chunks') = L + 1 /\ chunks' # << >>
      /\ chunks'[L + 1] = c
      /\ \A k \in 1 .. L : chunks'[k] = chunks[k]
      /\ L = 0 <=> chunks = << >>
  BY <1>1, <1>7 DEF TypeOK
<1>. HIDE DEF L
<1>9. TypeOK'
  <2>1. qoff' \in Nat
    BY <1>1, <1>3, <1>4
  <2>. QED
    BY <2>1, <1>1, <1>8 DEF TypeOK
<1>10. Monotone'
  BY <1>1 DEF Monotone
<1>11. /\ Covered = qsl[start] + qoff
       /\ Covered = (IF L = 0 THEN qsl[0] ELSE TokenEnd(qsl, chunks[L]))
  <2>1. Covered = qsl[start] + qoff
    BY <1>1, <1>2, <1>3 DEF InSlice, Done
  <2>. QED
    BY <2>1, <1>8 DEF Covered, L
<1>12. Covered' = qsl[start] + (qoff + sub)
  BY <1>1, <1>7, <1>8 DEF Covered, TokenEnd
<1>13. InSlice'
  <2>1. GroupTotals'
    BY <1>1, <1>2 DEF InSlice, GroupTotals
  <2>2. (qoff = 0 \/ qoff >= maxq)'
    BY <1>1, <1>3, <1>4
  <2>3. (Covered = qsl[start] + Done(m, qoff))'
    BY <1>1, <1>5, <1>12 DEF Done
  <2>4. LET e == chunks'[Len(chunks')]
        IN  /\ chunks' # << >>
            /\ e.start = start' /\ e.stop = end' /\ e.hi = Done(m', qoff')
    BY <1>1, <1>5, <1>7, <1>8 DEF Done
  <2>. QED
    BY <1>1, <1>2, <2>1, <2>2, <2>3, <2>4 DEF InSlice
<1>14. RowsTiled'
  <2>1. TokenStart(qsl, c) = Covered /\ TokenStart(qsl, c) < TokenEnd(qsl, c)
        /\ TokenEnd(qsl, c) <= qsl[c.stop]
    BY <1>3, <1>5, <1>7, <1>11 DEF TokenStart, TokenEnd
  <2>2. ASSUME NEW k \in 1 .. (L + 1)
        PROVE  /\ TokenStart(qsl, chunks'[k]) =
                    (IF k = 1 THEN qsl[0] ELSE TokenEnd(qsl, chunks'[k - 1]))
               /\ TokenStart(qsl, chunks'[k]) < TokenEnd(qsl, chunks'[k])
               /\ TokenEnd(qsl, chunks'[k]) <= qsl[chunks'[k].stop]
    <3>1. CASE k = L + 1
      <4>1. L # 0 => L \in 1 .. L
        BY <1>8
      <4>2. L # 0 => chunks'[k - 1] = chunks[L]
        BY <3>1, <4>1, <1>8
      <4>3. chunks'[k] = c
        BY <3>1, <1>8
      <4>. QED
        BY <3>1, <4>2, <4>3, <1>8, <1>11, <2>1
    <3>2. CASE k # L + 1
      <4>1. k \in 1 .. L /\ (k # 1 => k - 1 \in 1 .. L)
        BY <3>2, <1>8
      <4>2. chunks'[k] = chunks[k] /\ (k # 1 => chunks'[k - 1] = chunks[k - 1])
        BY <4>1, <1>8
      <4>. QED
        BY <4>1, <4>2 DEF RowsTiled, L
    <3>. QED
      BY <3>1, <3>2
  <2>. QED
    BY <2>2, <1>1, <1>8 DEF RowsTiled
<1>15. WithinLimits'
  <2>1. /\ c.stop = c.start + 1 \/ cu[c.stop] - cu[c.start] <= workspace
        /\ \/ (c.hi - c.lo) * (cu[c.stop] - cu[c.start]) <= elems
           \/ c.stop = c.start + 1 /\ c.hi = c.lo + 1
    <3>1. \/ sub * nk <= elems
          \/ sub <= 1 /\ elems < nk
      BY <1>3, <1>5, MaxQBounds
    <3>2. end = start + 1 \/ (nk <= workspace /\ m * nk <= elems)
      BY <1>2 DEF InSlice
    <3>3. nk <= m * nk
      <4>1. 1 * nk <= m * nk
        BY <1>3, ProductMonotone
      <4>. QED
        BY <1>3, <4>1
    <3>4. m * nk \in Nat
      BY <1>3, SMT
    <3>5. elems < nk => end = start + 1
      BY <1>3, <3>2, <3>3, <3>4
    <3>6. sub <= 1 => c.hi = c.lo + 1
      BY <1>3, <1>5, <1>7
    <3>7. c.hi - c.lo = sub /\ cu[c.stop] - cu[c.start] = nk
      BY <1>3, <1>5, <1>7
    <3>. QED
      BY <1>7, <3>1, <3>2, <3>5, <3>6, <3>7
  <2>2. ASSUME NEW k \in 1 .. (L + 1)
        PROVE  chunks'[k] = c \/ (k \in 1 .. L /\ chunks'[k] = chunks[k])
    <3>1. k = L + 1 \/ k \in 1 .. L
      BY <1>8
    <3>. QED
      BY <3>1, <1>8
  <2>. QED
    BY <2>1, <2>2, <1>1, <1>8 DEF WithinLimits, L
<1>16. GatherPrecedesReuse'
  <2>1. ASSUME qoff > 0
        PROVE  /\ L > 0 /\ end = start + 1
               /\ chunks[L].start = start /\ chunks[L].stop = end
               /\ chunks[L].hi = qoff
    <3>1. chunks # << >> /\ chunks[L].start = start /\ chunks[L].stop = end
          /\ chunks[L].hi = qoff
      BY <2>1, <1>1, <1>2, <1>3 DEF InSlice, Done, L
    <3>2. maxq < m
      BY <2>1, <1>1, <1>2, <1>3, <1>4 DEF InSlice
    <3>3. m * nk <= elems => m <= maxq
      <4>1. 0 <= m /\ 0 <= MaxQ(elems, m, nk)
        BY <1>3, <1>4
      <4>. QED
        BY <4>1, <1>3, MaxQBounds
    <3>4. end = start + 1
      BY <1>2, <1>3, <1>4, <3>2, <3>3 DEF InSlice
    <3>. QED
      BY <3>1, <3>4, <1>8
  <2>2. ASSUME NEW k \in 1 .. (L + 1), chunks'[k].lo > 0
        PROVE  /\ k > 1
               /\ chunks'[k - 1].start = chunks'[k].start
               /\ chunks'[k - 1].stop = chunks'[k].stop
               /\ chunks'[k - 1].hi = chunks'[k].lo
               /\ chunks'[k].stop = chunks'[k].start + 1
    <3>1. CASE k = L + 1
      <4>1. chunks'[k] = c
        BY <3>1, <1>8
      <4>2. qoff > 0
        BY <2>2, <4>1, <1>7
      <4>3. L \in 1 .. L /\ chunks'[k - 1] = chunks[L]
        BY <2>1, <4>2, <3>1, <1>8
      <4>. QED
        BY <3>1, <4>1, <4>2, <4>3, <2>1, <1>7, <1>8
    <3>2. CASE k # L + 1
      <4>1. k \in 1 .. L /\ (k # 1 => k - 1 \in 1 .. L)
        BY <3>2, <1>8
      <4>2. chunks'[k] = chunks[k] /\ (k # 1 => chunks'[k - 1] = chunks[k - 1])
        BY <4>1, <1>8
      <4>. QED
        BY <2>2, <4>1, <4>2 DEF GatherPrecedesReuse, L
    <3>. QED
      BY <3>1, <3>2
  <2>. QED
    BY <2>2, <1>8 DEF GatherPrecedesReuse
<1>. QED
  BY <1>1, <1>9, <1>10, <1>13, <1>14, <1>15, <1>16

\* NextGroup leaves the sub-chunk loop with the whole group handed out.
LEMMA NextGroupIndInv == IndInv /\ NextGroup => IndInv'
<1>. SUFFICES ASSUME IndInv, NextGroup PROVE IndInv'
  OBVIOUS
<1>. USE SplitConstants DEF IndInv
<1>1. /\ UNCHANGED <<n, qsl, cu, workspace, elems, end, maxq, qoff, chunks>>
      /\ pc = "slice" /\ qoff >= m
      /\ start' = end /\ m' = 0 /\ nk' = 0
      /\ pc' = IF end < n THEN "group" ELSE "done"
  BY DEF NextGroup, inputs
<1>2. /\ n \in Nat /\ start \in 0 .. n /\ end \in 0 .. n /\ start < end
      /\ m \in Nat /\ qoff \in Nat
      /\ qsl[start] \in Nat /\ qsl[end] \in Nat /\ cu[end] \in Nat
      /\ m = qsl[end] - qsl[start]
  BY <1>1, InputTypes DEF TypeOK, InSlice, GroupTotals
<1>3. Covered' = qsl[end]
  <2>1. Covered = qsl[start] + m
    BY <1>1, <1>2 DEF InSlice, Done
  <2>. QED
    BY <2>1, <1>1, <1>2 DEF Covered, TokenEnd
<1>4. TypeOK'
  BY <1>1, <1>2 DEF TypeOK
<1>5. Monotone'
  BY <1>1 DEF Monotone
<1>6. pc' = "group" => InGroup'
  BY <1>1, <1>2, <1>3 DEF InGroup, GroupTotals
<1>7. pc' = "done" => (Covered = qsl[n])'
  BY <1>1, <1>2, <1>3
<1>8. RowsTiled' /\ WithinLimits' /\ GatherPrecedesReuse'
  BY <1>1, <1>7 DEF RowsTiled, WithinLimits, GatherPrecedesReuse,
                    TokenStart, TokenEnd
<1>. QED
  BY <1>1, <1>4, <1>5, <1>6, <1>8
-----------------------------------------------------------------------------
(* Theorems *)

LEMMA IndInvStep == IndInv /\ [Next]_vars => IndInv'
<1>. SUFFICES ASSUME IndInv, [Next]_vars PROVE IndInv'
  OBVIOUS
<1>1. CASE Next
  BY <1>1, TakeIndInv, CloseIndInv, SliceIndInv, NextGroupIndInv DEF Next
<1>2. CASE UNCHANGED vars
  BY <1>2 DEF vars, IndInv, TypeOK, Monotone, InGroup, InSlice, GroupTotals,
              Covered, RowsTiled, WithinLimits, GatherPrecedesReuse,
              TokenStart, TokenEnd
<1>. QED
  BY <1>1, <1>2

LEMMA IndInvHolds == Spec => []IndInv
<1>1. Init => IndInv
  BY InitIndInv
<1>2. IndInv /\ [Next]_vars => IndInv'
  BY IndInvStep
<1>. QED
  BY <1>1, <1>2, PTL DEF Spec

\* The planner's variables keep their types, for every batch: in particular
\* end never runs past the last request.
THEOREM TypeCorrect == Spec => []TypeOK
<1>1. IndInv => TypeOK
  BY DEF IndInv
<1>. QED
  BY <1>1, IndInvHolds, PTL

\* Whatever the batch, the workspace and the budget: the chunks tile the
\* prefill rows, without overlap, gap or reach beyond the group.
THEOREM RowsAreTiled == Spec => []RowsTiled
<1>1. IndInv => RowsTiled
  BY DEF IndInv
<1>. QED
  BY <1>1, IndInvHolds, PTL

\* The two limits of the docstring hold of every chunk, but for the two
\* exceptions WithinLimits names.
THEOREM LimitsAreKept == Spec => []WithinLimits
<1>1. IndInv => WithinLimits
  BY DEF IndInv
<1>. QED
  BY <1>1, IndInvHolds, PTL

\* A chunk that skips the KV gather directly follows its own group's chunk.
THEOREM ReuseIsSafe == Spec => []GatherPrecedesReuse
<1>1. IndInv => GatherPrecedesReuse
  BY DEF IndInv
<1>. QED
  BY <1>1, IndInvHolds, PTL

\* A step either appends one chunk, whose rows are the next ones, or leaves
\* the list alone.
LEMMA HandOutStep ==
  IndInv /\ [Next]_vars => [Tiling!HandOut]_(Tiling!rtVars)
<1>. SUFFICES ASSUME IndInv, [Next]_vars
              PROVE  [Tiling!HandOut]_(Tiling!rtVars)
  OBVIOUS
<1>1. CASE UNCHANGED <<n, qsl, chunks>>
  BY <1>1 DEF Tiling!rtVars, Covered, TokenEnd
<1>2. CASE Slice
  <2>1. IndInv'
    BY IndInvStep
  <2>2. /\ n' = n /\ qsl' = qsl /\ pc = "slice" /\ pc' = "slice"
        /\ start' = start /\ end' = end /\ m' = m
        /\ qoff < m /\ qoff' = qoff + maxq
    BY <1>2 DEF Slice, inputs
  <2>3. /\ Covered = qsl[start] + Done(m, qoff)
        /\ Covered' = qsl[start] + Done(m, qoff')
        /\ maxq = MaxQ(elems, m, nk)
    BY <2>1, <2>2 DEF IndInv, InSlice
  <2>4. /\ n \in Nat /\ n > 0 /\ start \in 0 .. n /\ end \in 0 .. n
        /\ qsl[start] \in Nat /\ qsl[end] \in Nat /\ qsl[n] \in Nat
        /\ m = qsl[end] - qsl[start] /\ m \in Nat /\ m > 0
        /\ qoff \in Nat /\ elems \in Nat /\ nk \in Nat
    BY <2>2, InputTypes, SplitConstants
       DEF IndInv, TypeOK, InSlice, GroupTotals
  <2>5. maxq \in Nat /\ maxq > 0
    BY <2>3, <2>4, MaxQPositive
  <2>6. qsl[end] <= qsl[n]
    BY <2>4 DEF IndInv, Monotone
  <2>7. /\ Done(m, qoff) = qoff /\ Done(m, qoff') \in Nat
        /\ qoff < Done(m, qoff') /\ Done(m, qoff') <= m
    BY <2>2, <2>4, <2>5 DEF Done
  <2>8. Covered < qsl[n] /\ Covered' \in (Covered + 1) .. qsl[n]
    BY <2>3, <2>4, <2>6, <2>7
  <2>. QED
    BY <2>2, <2>8 DEF Tiling!HandOut
<1>3. Take \/ Close \/ NextGroup => UNCHANGED <<n, qsl, chunks>>
  BY DEF Take, Close, NextGroup, inputs
<1>. QED
  BY <1>1, <1>2, <1>3 DEF Next, vars

\* Every step of the two loops hands out a run of rows or changes nothing the
\* consumer sees: the safety part of HandsOutRows.
THEOREM PlannerHandsOutRows ==
  Spec => Tiling!RTInit /\ [][Tiling!HandOut]_(Tiling!rtVars)
<1>1. Init => Tiling!RTInit
  <2>. SUFFICES ASSUME Init PROVE Tiling!RTInit
    OBVIOUS
  <2>1. IndInv
    BY InitIndInv
  <2>2. n \in Nat /\ n > 0 /\ \A i \in 0 .. n : qsl[i] \in Nat
    BY <2>1, InputTypes DEF IndInv, TypeOK
  <2>3. qsl[0] < qsl[n]
    BY <2>1, <2>2 DEF IndInv, Monotone
  <2>4. Covered = qsl[0]
    BY DEF Init, Covered
  <2>. QED
    BY <2>2, <2>3, <2>4 DEF Tiling!RTInit
<1>2. IndInv /\ [Next]_vars => [Tiling!HandOut]_(Tiling!rtVars)
  BY HandOutStep
<1>. QED
  BY <1>1, <1>2, IndInvHolds, PTL DEF Spec
-----------------------------------------------------------------------------
(* The closed-form plan.  Its recursion over the requests is unfolded by   *)
(* induction, stated for sets of numbers.                                  *)

LEMMA LeastOf ==
  ASSUME NEW S \in SUBSET Nat, S # {}
  PROVE  \E x \in S : \A y \in S : x <= y
<1>. DEFINE R == {p \in Nat \X Nat : p[1] < p[2]}
<1>1. R \cap (Nat \X Nat) \subseteq OpToRel(<, Nat)
  BY DEF OpToRel
<1>2. IsWellFoundedOn(R, Nat)
  BY <1>1, NatLessThanWellFounded, IsWellFoundedOnSubrelation
<1>3. \E x \in S : \A y \in S : ~ (<<y, x>> \in R)
  <2>. HIDE DEF R
  <2>. QED
    BY <1>2, WFMin
<1>4. ASSUME NEW x \in S, NEW y \in S, <<y, x>> \notin R
      PROVE  x <= y
  <2>1. x \in Nat /\ y \in Nat /\ <<y, x>> \in Nat \X Nat
    OBVIOUS
  <2>2. ~(y < x)
    BY <1>4, <2>1
  <2>. QED
    BY <2>1, <2>2
<1>. HIDE DEF R
<1>. QED
  BY <1>3, <1>4

LEMMA Induction ==
  ASSUME NEW S, 0 \in S, \A k \in Nat : k \in S => k + 1 \in S
  PROVE  Nat \subseteq S
<1>. SUFFICES ASSUME ~(Nat \subseteq S) PROVE FALSE
  OBVIOUS
<1>1. PICK x \in Nat \ S : \A y \in Nat \ S : x <= y
  <2>. DEFINE M == Nat \ S
  <2>1. M \in SUBSET Nat /\ M # {}
    OBVIOUS
  <2>. HIDE DEF M
  <2>2. \E x \in M : \A y \in M : x <= y
    BY <2>1, LeastOf
  <2>. QED
    BY <2>2 DEF M
<1>2. x # 0 /\ x - 1 \in Nat /\ ~(x <= x - 1)
  BY <1>1
<1>3. x - 1 \in S
  BY <1>1, <1>2
<1>. QED
  BY <1>1, <1>2, <1>3

\* A set of bounded numbers has a largest one.
LEMMA LargestOf ==
  ASSUME NEW S \in SUBSET Nat, S # {}, NEW b \in Nat, \A s \in S : s <= b
  PROVE  \E x \in S : \A y \in S : y <= x
<1>. DEFINE T == {b - s : s \in S}
<1>1. T \in SUBSET Nat /\ T # {}
  <2>1. ASSUME NEW s \in S PROVE b - s \in Nat
    OBVIOUS
  <2>2. PICK s \in S : TRUE
    OBVIOUS
  <2>. QED
    BY <2>1, <2>2
<1>2. PICK d \in T : \A e \in T : d <= e
  <2>. HIDE DEF T
  <2>. QED
    BY <1>1, LeastOf
<1>3. PICK x \in S : d = b - x
  OBVIOUS
<1>4. ASSUME NEW y \in S PROVE y <= x
  <2>1. b - x <= b - y
    BY <1>2, <1>3
  <2>. QED
    BY <2>1
<1>. QED
  BY <1>4

\* What the arrays of one call are, for lemmas that do not depend on the
\* state of the loop: ql and kl stand for qsl and cu, num for n.
Arrays(ql, kl, num) ==
  /\ num \in Nat
  /\ \A i \in 0 .. num : ql[i] \in Nat /\ kl[i] \in Nat
  /\ \A i, j \in 0 .. num : i < j => ql[i] < ql[j] /\ kl[i] <= kl[j]

ChunkSet == [start : Nat, stop : Nat, lo : Nat, hi : Nat]

LEMMA GroupEndRange ==
  ASSUME NEW ql, NEW kl, NEW num \in Nat, NEW w, NEW el, NEW s \in 0 .. num - 1
  PROVE  GroupEnd(ql, kl, num, w, el, s) \in s + 1 .. num
<1>. DEFINE ends == {e \in (s + 1) .. num : Fits(ql, kl, w, el, s, e)}
<1>1. CASE ends = {}
  BY <1>1 DEF GroupEnd
<1>2. CASE ends # {}
  <2>1. ends \in SUBSET Nat /\ \A x \in ends : x <= num
    OBVIOUS
  <2>2. \E e \in ends : \A f \in ends : f <= e
    <3>. HIDE DEF ends
    <3>. QED
      BY <1>2, <2>1, LargestOf
  <2>3. GroupEnd(ql, kl, num, w, el, s) = CHOOSE e \in ends : \A f \in ends : f <= e
    BY <1>2, Zenon DEF GroupEnd
  <2>4. GroupEnd(ql, kl, num, w, el, s) \in ends
    <3>. HIDE DEF ends
    <3>. QED
      BY <2>2, <2>3
  <2>. QED
    BY <2>4
<1>. QED
  BY <1>1, <1>2

\* More requests fit only where fewer fit: the sums grow with the group.
LEMMA FewerFit ==
  ASSUME NEW ql, NEW kl, NEW num, Arrays(ql, kl, num), NEW w \in Nat, NEW el \in Nat,
         NEW s \in 0 .. num, NEW e \in s .. num, NEW f \in e .. num,
         Fits(ql, kl, w, el, s, f)
  PROVE  Fits(ql, kl, w, el, s, e)
<1>. DEFINE a == ql[e] - ql[s]
            b == kl[e] - kl[s]
            c == ql[f] - ql[s]
            d == kl[f] - kl[s]
<1>1. /\ s \in Int /\ e \in Int /\ f \in Int /\ s <= e /\ e <= f
      /\ s \in 0 .. num /\ e \in 0 .. num /\ f \in 0 .. num
  BY DEF Arrays
<1>2. /\ ql[s] \in Nat /\ ql[e] \in Nat /\ ql[f] \in Nat
      /\ kl[s] \in Nat /\ kl[e] \in Nat /\ kl[f] \in Nat
      /\ ql[s] <= ql[e] /\ ql[e] <= ql[f] /\ kl[s] <= kl[e] /\ kl[e] <= kl[f]
  <2>1. ql[s] <= ql[e] /\ kl[s] <= kl[e]
    <3>1. s < e \/ s = e
      BY <1>1
    <3>. QED
      BY <1>1, <3>1 DEF Arrays
  <2>2. ql[e] <= ql[f] /\ kl[e] <= kl[f]
    <3>1. e < f \/ e = f
      BY <1>1
    <3>. QED
      BY <1>1, <3>1 DEF Arrays
  <2>. QED
    BY <1>1, <2>1, <2>2 DEF Arrays
<1>3. a \in Nat /\ b \in Nat /\ c \in Nat /\ d \in Nat /\ a <= c /\ b <= d
  BY <1>2
<1>4. d <= w /\ c * d <= el
  BY DEF Fits
<1>. SUFFICES b <= w /\ a * b <= el
  BY DEF Fits
<1>. HIDE DEF a, b, c, d
<1>5. a * b <= c * b
  BY <1>3, ProductMonotone
<1>6. b * c <= d * c
  BY <1>3, ProductMonotone
<1>7. a * b \in Nat /\ c * b \in Nat /\ c * d \in Nat /\ b * c = c * b /\ d * c = c * d
  BY <1>3, SMT
<1>. QED
  BY <1>3, <1>4, <1>5, <1>6, <1>7

\* The group a greedy loop arrives at is the closed form's: the longest that
\* fits, or one request alone.
LEMMA GreedyIsLongest ==
  ASSUME NEW ql, NEW kl, NEW num, Arrays(ql, kl, num), NEW w \in Nat, NEW el \in Nat,
         NEW s \in 0 .. num - 1, NEW e \in s .. num,
         e > s => Fits(ql, kl, w, el, s, e),
         e < num => ~Fits(ql, kl, w, el, s, e + 1)
  PROVE  GroupEnd(ql, kl, num, w, el, s) = IF e = s THEN s + 1 ELSE e
<1>. DEFINE ends == {f \in (s + 1) .. num : Fits(ql, kl, w, el, s, f)}
<1>1. num \in Nat /\ s \in Nat /\ e \in Nat /\ s <= e /\ e <= num
  BY DEF Arrays
<1>2. ASSUME NEW f \in ends PROVE f <= e
  <2>1. SUFFICES ASSUME ~(f <= e) PROVE FALSE
    OBVIOUS
  <2>2. f \in Nat /\ s < f /\ f <= num /\ Fits(ql, kl, w, el, s, f)
    BY <1>1
  <2>3. e + 1 \in s .. num /\ f \in e + 1 .. num /\ e < num /\ s \in 0 .. num
    BY <1>1, <2>1, <2>2
  <2>4. Fits(ql, kl, w, el, s, e + 1)
    BY <2>2, <2>3, FewerFit
  <2>. QED
    BY <2>3, <2>4
<1>3. CASE e = s
  <2>1. ends = {}
    <3>1. ASSUME NEW f \in ends PROVE FALSE
      <4>1. f <= e
        BY <1>2
      <4>. QED
        BY <1>1, <1>3, <4>1
    <3>. QED
      BY <3>1
  <2>. QED
    BY <1>3, <2>1 DEF GroupEnd
<1>4. CASE e # s
  <2>1. e \in ends /\ ends # {} /\ \A x \in ends : x \in Nat
    BY <1>1, <1>4
  <2>2. GroupEnd(ql, kl, num, w, el, s) = CHOOSE x \in ends : \A f \in ends : f <= x
    BY <2>1, Zenon DEF GroupEnd
  <2>. HIDE DEF ends
  <2>3. \E x \in ends : \A f \in ends : f <= x
    BY <1>2, <2>1
  <2>4. PICK g \in ends : g = GroupEnd(ql, kl, num, w, el, s) /\ \A f \in ends : f <= g
    BY <2>2, <2>3
  <2>5. g <= e /\ e <= g
    BY <1>2, <2>1, <2>4
  <2>. QED
    BY <1>1, <1>4, <2>1, <2>4, <2>5
<1>. QED
  BY <1>3, <1>4

\* The sub-chunks of a group: runs of mq rows, as many as it takes to reach
\* the last row and no more.
LEMMA SubChunksAre ==
  ASSUME NEW ql, NEW kl, NEW num, Arrays(ql, kl, num), NEW el \in Nat,
         NEW s \in 0 .. num - 1, NEW e \in s + 1 .. num
  PROVE  LET q  == SubChunks(ql, kl, el, s, e)
             rm == ql[e] - ql[s]
             mq == MaxQ(el, rm, kl[e] - kl[s])
         IN  /\ q \in Seq(ChunkSet)
             /\ \A k \in 1 .. Len(q) :
                  q[k] = Chunk(s, e, (k - 1) * mq, IF k * mq < rm THEN k * mq ELSE rm)
             /\ \A k \in 0 .. Len(q) : k < Len(q) <=> k * mq < rm
<1>. DEFINE rm == ql[e] - ql[s]
            nks == kl[e] - kl[s]
            mq == MaxQ(el, rm, nks)
            cnt == (rm + mq - 1) \div mq
            q == [k \in 1 .. cnt |-> Chunk(s, e, (k - 1) * mq, IF k * mq < rm THEN k * mq ELSE rm)]
<1>1. /\ s \in 0 .. num /\ e \in 0 .. num /\ s < e /\ s \in Nat /\ e \in Nat
      /\ rm \in Nat \ {0} /\ nks \in Nat
  <2>1. s \in 0 .. num /\ e \in 0 .. num /\ s < e /\ s \in Nat /\ e \in Nat
    BY DEF Arrays
  <2>. QED
    BY <2>1 DEF Arrays
<1>2. SubChunks(ql, kl, el, s, e) = q
  BY DEF SubChunks
<1>3. mq \in Nat \ {0}
  <2>. HIDE DEF rm, nks
  <2>. QED
    BY <1>1, MaxQPositive
<1>. HIDE DEF rm, mq, nks
<1>4. cnt \in Nat /\ cnt * mq <= rm + mq - 1
  <2>1. rm + mq - 1 \in Nat
    BY <1>1, <1>3
  <2>. QED
    BY <1>3, <2>1, DivFits
<1>5. ASSUME NEW k \in Nat, k * mq < rm PROVE k + 1 <= cnt
  <2>1. (k + 1) * mq = k * mq + mq /\ k * mq \in Nat
    BY <1>3
  <2>2. (k + 1) * mq <= rm + mq - 1
    BY <1>1, <1>3, <1>5, <2>1
  <2>3. rm + mq - 1 \in Nat /\ k + 1 \in Nat
    BY <1>1, <1>3
  <2>. QED
    BY <1>3, <2>2, <2>3, DivMax
<1>6. ASSUME NEW k \in Nat, k < cnt PROVE k * mq < rm
  <2>1. (k + 1) * mq = k * mq + mq /\ k * mq \in Nat
    BY <1>3
  <2>. HIDE DEF cnt
  <2>2. (k + 1) * mq <= cnt * mq
    <3>1. k + 1 \in Nat /\ k + 1 <= cnt
      BY <1>4, <1>6
    <3>. QED
      BY <1>3, <1>4, <3>1, ProductMonotone
  <2>3. cnt * mq \in Nat
    BY <1>3, <1>4
  <2>. QED
    BY <1>1, <1>3, <1>4, <2>1, <2>2, <2>3
<1>. HIDE DEF cnt
<1>7. ASSUME NEW k \in 1 .. cnt
      PROVE  Chunk(s, e, (k - 1) * mq, IF k * mq < rm THEN k * mq ELSE rm) \in ChunkSet
  <2>1. k - 1 \in Nat /\ k \in Nat
    BY <1>4
  <2>2. (k - 1) * mq \in Nat /\ k * mq \in Nat
    BY <1>3, <2>1
  <2>. QED
    BY <1>1, <2>2 DEF Chunk, ChunkSet
<1>8. q \in Seq(ChunkSet) /\ Len(q) = cnt
  <2>1. q \in [1 .. cnt -> ChunkSet]
    BY <1>7
  <2>. HIDE DEF q
  <2>. QED
    BY <1>4, <2>1
<1>9. \A k \in 0 .. cnt : k < cnt <=> k * mq < rm
  <2>1. ASSUME NEW k \in 0 .. cnt PROVE k < cnt <=> k * mq < rm
    <3>1. k \in Nat
      BY <1>4
    <3>. QED
      BY <1>4, <1>5, <1>6, <3>1
  <2>. QED
    BY <2>1
<1>10. \A k \in 1 .. cnt : q[k] = Chunk(s, e, (k - 1) * mq, IF k * mq < rm THEN k * mq ELSE rm)
  OBVIOUS
<1>. HIDE DEF q
<1>. QED
  BY <1>2, <1>8, <1>9, <1>10 DEF rm, mq, nks

\* p holds the plan of the requests from s on, for every s.
PlanFrom(p, ql, kl, num, w, el) ==
  p = [s \in DOMAIN p |->
         IF s = num THEN << >>
         ELSE LET e == GroupEnd(ql, kl, num, w, el, s)
              IN  SubChunks(ql, kl, el, s, e) \o p[e]]

LEMMA PlanFromExists ==
  ASSUME NEW ql, NEW kl, NEW num \in Nat, NEW w, NEW el
  PROVE  \E p : DOMAIN p = 0 .. num /\ PlanFrom(p, ql, kl, num, w, el)
<1>. DEFINE G(p) == PlanFrom(p, ql, kl, num, w, el)
            S == {k \in Nat : k <= num => \E p : DOMAIN p = num - k .. num /\ G(p)}
<1>1. 0 \in S
  <2>. DEFINE p == [s \in num .. num |-> << >>]
  <2>1. G(p)
    BY DEF PlanFrom
  <2>2. DOMAIN p = num - 0 .. num
    OBVIOUS
  <2>. HIDE DEF G, p
  <2>. QED
    BY <2>1, <2>2
<1>2. ASSUME NEW k \in Nat, k \in S PROVE k + 1 \in S
  <2>. SUFFICES ASSUME k + 1 <= num
                PROVE  \E p : DOMAIN p = num - (k + 1) .. num /\ G(p)
    OBVIOUS
  <2>1. PICK p : DOMAIN p = num - k .. num /\ G(p)
    BY <1>2
  <2>. DEFINE t == num - (k + 1)
              g == GroupEnd(ql, kl, num, w, el, t)
              d == [s \in t .. num |->
                      IF s = t THEN SubChunks(ql, kl, el, t, g) \o p[g] ELSE p[s]]
  <2>2. t \in 0 .. num - 1 /\ t + 1 = num - k
    OBVIOUS
  <2>. HIDE DEF t
  <2>3. g \in t + 1 .. num
    BY <2>2, GroupEndRange
  <2>4. ASSUME NEW s \in t .. num
        PROVE  d[s] = IF s = num THEN << >>
                      ELSE LET e == GroupEnd(ql, kl, num, w, el, s)
                           IN  SubChunks(ql, kl, el, s, e) \o d[e]
    <3>1. CASE s = t
      <4>1. g \in t .. num /\ g # t /\ s # num
        BY <2>2, <2>3, <3>1
      <4>2. d[g] = p[g] /\ d[s] = SubChunks(ql, kl, el, t, g) \o p[g]
        <5>. HIDE DEF g
        <5>. QED
          BY <3>1, <4>1
      <4>. HIDE DEF d
      <4>. QED
        BY <3>1, <4>1, <4>2
    <3>2. CASE s # t
      <4>1. s \in num - k .. num
        BY <2>2, <3>2
      <4>2. d[s] = p[s]
        BY <3>2
      <4>3. CASE s = num
        BY <2>1, <4>1, <4>2, <4>3 DEF PlanFrom
      <4>4. CASE s # num
        <5>. DEFINE e == GroupEnd(ql, kl, num, w, el, s)
        <5>1. e \in s + 1 .. num
          <6>1. s \in 0 .. num - 1
            BY <2>2, <4>4
          <6>. QED
            BY <6>1, GroupEndRange
        <5>2. d[e] = p[e]
          <6>. HIDE DEF e
          <6>1. e \in t .. num /\ e # t
            BY <2>2, <5>1, <3>2
          <6>. QED
            BY <6>1
        <5>3. p[s] = SubChunks(ql, kl, el, s, e) \o p[e]
          BY <2>1, <4>1, <4>4 DEF PlanFrom
        <5>. HIDE DEF d
        <5>. QED
          BY <4>2, <4>4, <5>2, <5>3
      <4>. QED
        BY <4>3, <4>4
    <3>. QED
      BY <3>1, <3>2
  <2>5. DOMAIN d = t .. num /\ d = [s \in t .. num |-> d[s]]
    OBVIOUS
  <2>. HIDE DEF d
  <2>6. G(d)
    BY <2>4, <2>5 DEF PlanFrom
  <2>. HIDE DEF G
  <2>. QED
    BY <2>5, <2>6 DEF t
<1>. HIDE DEF S
<1>3. Nat \subseteq S
  BY <1>1, <1>2, Induction
<1>4. num \in S /\ num - num = 0
  BY <1>3
<1>. HIDE DEF G
<1>5. \E p : DOMAIN p = num - num .. num /\ G(p)
  BY <1>4 DEF S
<1>. QED
  BY <1>4, <1>5 DEF G

\* What p says of each s: no chunk from n on, before that the sub-chunks of
\* the group at s and then the plan from the group's end.
Unfolded(p, ql, kl, num, w, el) ==
  /\ p[0] = Plan(ql, kl, num, w, el)
  /\ p[num] = << >>
  /\ \A s \in 0 .. num : p[s] \in Seq(ChunkSet)
  /\ \A s \in 0 .. num - 1 :
       LET e == GroupEnd(ql, kl, num, w, el, s)
       IN  p[s] = SubChunks(ql, kl, el, s, e) \o p[e]

LEMMA PlanUnfolds ==
  ASSUME NEW ql, NEW kl, NEW num, Arrays(ql, kl, num), NEW w, NEW el \in Nat
  PROVE  \E p : Unfolded(p, ql, kl, num, w, el)
<1>. DEFINE Body(p) ==
       [s \in 0 .. num |->
          IF s = num THEN << >>
          ELSE LET e == GroupEnd(ql, kl, num, w, el, s)
               IN  SubChunks(ql, kl, el, s, e) \o p[e]]
            p == CHOOSE q : q = Body(q)
<1>0. num \in Nat
  BY DEF Arrays
<1>1. Plan(ql, kl, num, w, el) = p[0]
  BY Zenon DEF Plan
<1>2. PICK q : DOMAIN q = 0 .. num /\ PlanFrom(q, ql, kl, num, w, el)
  BY <1>0, PlanFromExists
<1>3. q = Body(q)
  BY <1>2 DEF PlanFrom
<1>4. p = Body(p)
  <2>. HIDE DEF Body
  <2>. QED
    BY <1>3, Zenon
<1>. HIDE DEF p
<1>5. p[num] = << >> /\ p[num] \in Seq(ChunkSet)
  <2>1. p[num] = << >>
    BY <1>0, <1>4
  <2>2. << >> \in Seq(ChunkSet)
    OBVIOUS
  <2>. QED
    BY <2>1, <2>2
<1>6. ASSUME NEW s \in 0 .. num - 1
      PROVE  LET e == GroupEnd(ql, kl, num, w, el, s)
             IN  e \in s + 1 .. num /\ p[s] = SubChunks(ql, kl, el, s, e) \o p[e]
  <2>. DEFINE e == GroupEnd(ql, kl, num, w, el, s)
  <2>1. e \in s + 1 .. num
    BY <1>0, GroupEndRange
  <2>2. s \in 0 .. num /\ s # num
    BY <1>0
  <2>3. p[s] = Body(p)[s]
    BY <1>4
  <2>4. Body(p)[s] = SubChunks(ql, kl, el, s, e) \o p[e]
    BY <2>2
  <2>. QED
    BY <2>1, <2>3, <2>4
<1>. DEFINE S == {k \in Nat : \A s \in 0 .. num : num - s <= k => p[s] \in Seq(ChunkSet)}
<1>7. 0 \in S
  <2>1. ASSUME NEW s \in 0 .. num, num - s <= 0 PROVE p[s] \in Seq(ChunkSet)
    <3>1. s = num
      BY <1>0, <2>1
    <3>. QED
      BY <1>5, <3>1
  <2>. QED
    BY <2>1
<1>8. ASSUME NEW k \in Nat, k \in S PROVE k + 1 \in S
  <2>1. ASSUME NEW s \in 0 .. num, num - s <= k + 1 PROVE p[s] \in Seq(ChunkSet)
    <3>1. CASE s = num
      BY <1>5, <3>1
    <3>2. CASE s # num
      <4>. DEFINE e == GroupEnd(ql, kl, num, w, el, s)
      <4>1. s \in 0 .. num - 1
        BY <1>0, <3>2
      <4>2. e \in s + 1 .. num /\ p[s] = SubChunks(ql, kl, el, s, e) \o p[e]
        BY <4>1, <1>6
      <4>. HIDE DEF e
      <4>3. p[e] \in Seq(ChunkSet)
        <5>1. e \in 0 .. num /\ num - e <= k
          BY <1>0, <2>1, <4>1, <4>2
        <5>. QED
          BY <1>8, <5>1
      <4>4. SubChunks(ql, kl, el, s, e) \in Seq(ChunkSet)
        BY <4>1, <4>2, SubChunksAre
      <4>. QED
        BY <4>2, <4>3, <4>4
    <3>. QED
      BY <3>1, <3>2
  <2>. QED
    BY <2>1
<1>. HIDE DEF S
<1>9. Nat \subseteq S
  BY <1>7, <1>8, Induction
<1>10. \A s \in 0 .. num : p[s] \in Seq(ChunkSet)
  <2>1. ASSUME NEW s \in 0 .. num PROVE p[s] \in Seq(ChunkSet)
    <3>1. num - s \in Nat /\ num - s <= num - s /\ num - s \in S
      BY <1>0, <1>9
    <3>. QED
      BY <3>1 DEF S
  <2>. QED
    BY <2>1
<1>. QED
  BY <1>1, <1>5, <1>6, <1>10 DEF Unfolded
-----------------------------------------------------------------------------
(* The loop computes the closed-form plan.  What it holds while a group is *)
(* open: the chunks so far, in front of the plan from that group on, are   *)
(* the whole plan.  While a group is cut: the chunks before it, then the   *)
(* first k of its sub-chunks.                                              *)

PlanTail == CHOOSE p : Unfolded(p, qsl, cu, n, workspace, elems)

ThePlan == Plan(qsl, cu, n, workspace, elems)

GroupSubs == SubChunks(qsl, cu, elems, start, end)

PlanInv ==
  /\ pc = "group" => ThePlan = chunks \o PlanTail[start]
  /\ pc = "slice" =>
       /\ end = GroupEnd(qsl, cu, n, workspace, elems, start)
       /\ \E before \in Seq(ChunkSet), k \in 0 .. Len(GroupSubs) :
            /\ chunks = before \o SubSeq(GroupSubs, 1, k)
            /\ qoff = k * maxq
            /\ ThePlan = before \o PlanTail[start]
  /\ pc = "done" => chunks = ThePlan

LEMMA IndInvArrays ==
  ASSUME IndInv
  PROVE  /\ Arrays(qsl, cu, n) /\ workspace \in Nat /\ elems \in Nat
         /\ chunks \in Seq(ChunkSet)
<1>. USE SplitConstants
<1>1. /\ TypeOK /\ Monotone
  BY DEF IndInv
<1>2. /\ n \in Nat /\ n > 0
      /\ \A i \in 0 .. n : qsl[i] \in Nat /\ cu[i] \in Nat
  BY <1>1, InputTypes DEF TypeOK
<1>3. Arrays(qsl, cu, n)
  BY <1>1, <1>2 DEF Monotone, Arrays
<1>4. workspace \in Nat /\ elems \in Nat
  BY <1>1 DEF TypeOK
<1>5. chunks \in Seq(ChunkSet)
  <2>. DEFINE C == [start : 0 .. n, stop : 0 .. n, lo : Nat, hi : Nat]
  <2>1. chunks \in Seq(C)
    BY <1>1 DEF TypeOK
  <2>2. C \subseteq ChunkSet
    <3>1. 0 .. n \subseteq Nat
      BY <1>2
    <3>. QED
      BY <3>1 DEF ChunkSet
  <2>. HIDE DEF C
  <2>. QED
    BY <2>1, <2>2
<1>. QED
  BY <1>3, <1>4, <1>5

LEMMA TailUnfolds ==
  ASSUME IndInv
  PROVE  Unfolded(PlanTail, qsl, cu, n, workspace, elems)
<1>1. \E p : Unfolded(p, qsl, cu, n, workspace, elems)
  BY IndInvArrays, PlanUnfolds
<1>. QED
  BY <1>1, Zenon DEF PlanTail

LEMMA PlanInvInit == Init /\ IndInv => PlanInv
<1>. SUFFICES ASSUME Init, IndInv PROVE PlanInv
  OBVIOUS
<1>1. pc = "group" /\ start = 0 /\ chunks = << >>
  BY DEF Init
<1>2. PlanTail[0] = ThePlan /\ PlanTail[0] \in Seq(ChunkSet)
  <2>1. 0 \in 0 .. n
    BY IndInvArrays DEF Arrays
  <2>. QED
    BY <2>1, TailUnfolds DEF Unfolded, ThePlan
<1>3. ASSUME NEW t, t \in Seq(ChunkSet) PROVE << >> \o t = t
  BY <1>3, ConcatEmptySeq
<1>4. ThePlan = chunks \o PlanTail[start]
  BY <1>1, <1>2, <1>3
<1>. QED
  BY <1>1, <1>4 DEF PlanInv

LEMMA PlanInvTake == IndInv /\ PlanInv /\ Take => PlanInv'
<1>. SUFFICES ASSUME IndInv, PlanInv, Take PROVE PlanInv'
  OBVIOUS
<1>1. /\ UNCHANGED <<n, qsl, cu, workspace, elems, pc, start, chunks>>
      /\ pc = "group"
  BY DEF Take, inputs
<1>2. PlanTail' = PlanTail /\ ThePlan' = ThePlan
  BY <1>1 DEF PlanTail, ThePlan
<1>. QED
  BY <1>1, <1>2 DEF PlanInv

\* Close ends the group where the closed form ends it.
LEMMA PlanInvClose == IndInv /\ PlanInv /\ Close => PlanInv'
<1>. SUFFICES ASSUME IndInv, PlanInv, Close PROVE PlanInv'
  OBVIOUS
<1>1. /\ UNCHANGED <<n, qsl, cu, workspace, elems, start, chunks>>
      /\ pc = "group" /\ pc' = "slice" /\ qoff' = 0 /\ ~CanTake
      /\ end' = IF end = start THEN end + 1 ELSE end
  BY DEF Close, inputs
<1>2. PlanTail' = PlanTail /\ ThePlan' = ThePlan
  BY <1>1 DEF PlanTail, ThePlan
<1>3. /\ Arrays(qsl, cu, n) /\ workspace \in Nat /\ elems \in Nat
      /\ chunks \in Seq(ChunkSet)
  BY IndInvArrays
<1>4. /\ InGroup /\ n \in Nat /\ start \in 0 .. n - 1 /\ end \in start .. n
      /\ start \in 0 .. n /\ end \in 0 .. n
  BY <1>1, <1>3 DEF IndInv, TypeOK, InGroup, Arrays
<1>5. end > start => Fits(qsl, cu, workspace, elems, start, end)
  BY <1>4 DEF InGroup, GroupTotals, Fits
<1>6. end < n => ~Fits(qsl, cu, workspace, elems, start, end + 1)
  <2>. SUFFICES ASSUME end < n PROVE ~Fits(qsl, cu, workspace, elems, start, end + 1)
    OBVIOUS
  <2>1. end + 1 \in 0 .. n
    BY <1>4
  <2>2. /\ qsl[start] \in Nat /\ qsl[end] \in Nat /\ qsl[end + 1] \in Nat
        /\ cu[start] \in Nat /\ cu[end] \in Nat /\ cu[end + 1] \in Nat
    BY <1>3, <1>4, <2>1 DEF Arrays
  <2>3. /\ m + (qsl[end + 1] - qsl[end]) = qsl[end + 1] - qsl[start]
        /\ nk + (cu[end + 1] - cu[end]) = cu[end + 1] - cu[start]
    BY <1>4, <2>2 DEF InGroup, GroupTotals
  <2>. QED
    BY <1>1, <2>3 DEF CanTake, Fits
<1>7. end' = GroupEnd(qsl, cu, n, workspace, elems, start)
  <2>1. GroupEnd(qsl, cu, n, workspace, elems, start)
          = IF end = start THEN start + 1 ELSE end
    BY <1>3, <1>4, <1>5, <1>6, GreedyIsLongest
  <2>. QED
    BY <1>1, <2>1
<1>8. GroupSubs' \in Seq(ChunkSet)
  <2>1. end' \in start + 1 .. n
    BY <1>4, <1>7, GroupEndRange
  <2>2. SubChunks(qsl, cu, elems, start, end') \in Seq(ChunkSet)
    BY <1>3, <1>4, <2>1, SubChunksAre
  <2>. QED
    BY <1>1, <2>2 DEF GroupSubs
<1>9. ThePlan = chunks \o PlanTail[start]
  BY <1>1 DEF PlanInv
<1>10. \E before \in Seq(ChunkSet), k \in 0 .. Len(GroupSubs') :
            /\ chunks' = before \o SubSeq(GroupSubs', 1, k)
            /\ qoff' = k * maxq'
            /\ ThePlan' = before \o PlanTail'[start']
  <2>1. 0 \in 0 .. Len(GroupSubs')
    BY <1>8
  <2>2. chunks = chunks \o SubSeq(GroupSubs', 1, 0)
    <3>1. SubSeq(GroupSubs', 1, 0) = << >>
      BY <1>8
    <3>. QED
      BY <1>3, <3>1, ConcatEmptySeq
  <2>3. qoff' = 0 * maxq'
    <3>1. maxq' \in Nat
      BY CloseIndInv DEF IndInv, TypeOK
    <3>2. ASSUME NEW x \in Nat PROVE 0 = 0 * x
      OBVIOUS
    <3>3. 0 = 0 * maxq'
      BY <3>1, <3>2, Zenon
    <3>. QED
      BY <1>1, <3>3, Zenon
  <2>4. ThePlan' = chunks \o PlanTail'[start']
    BY <1>1, <1>2, <1>9
  <2>. QED
    BY <1>1, <1>3, <2>1, <2>2, <2>3, <2>4
<1>. QED
  BY <1>1, <1>7, <1>10 DEF PlanInv

\* Slice appends the next sub-chunk of the group.
LEMMA PlanInvSlice == IndInv /\ PlanInv /\ Slice => PlanInv'
<1>. SUFFICES ASSUME IndInv, PlanInv, Slice PROVE PlanInv'
  OBVIOUS
<1>. DEFINE sub == IF maxq < m - qoff THEN maxq ELSE m - qoff
            c   == Chunk(start, end, qoff, qoff + sub)
<1>1. /\ UNCHANGED <<n, qsl, cu, workspace, elems, start, end, m, maxq, pc>>
      /\ pc = "slice" /\ qoff < m /\ qoff' = qoff + maxq
      /\ chunks' = Append(chunks, c)
  BY DEF Slice, inputs
<1>2. PlanTail' = PlanTail /\ ThePlan' = ThePlan /\ GroupSubs' = GroupSubs
  BY <1>1 DEF PlanTail, ThePlan, GroupSubs
<1>3. /\ Arrays(qsl, cu, n) /\ workspace \in Nat /\ elems \in Nat /\ n \in Nat
  BY IndInvArrays DEF Arrays
<1>4. /\ InSlice /\ start \in 0 .. n - 1 /\ end \in start + 1 .. n
      /\ m \in Nat /\ maxq \in Nat /\ qoff \in Nat
      /\ m = qsl[end] - qsl[start]
      /\ maxq = MaxQ(elems, qsl[end] - qsl[start], cu[end] - cu[start])
  <2>1. TypeOK /\ InSlice /\ GroupTotals
    BY <1>1 DEF IndInv, InSlice
  <2>2. start \in 0 .. n - 1 /\ end \in start + 1 .. n
    BY <1>3, <2>1 DEF TypeOK, InSlice
  <2>. QED
    BY <2>1, <2>2 DEF TypeOK, InSlice, GroupTotals
<1>5. /\ GroupSubs \in Seq(ChunkSet)
      /\ \A k \in 1 .. Len(GroupSubs) :
           GroupSubs[k] = Chunk(start, end, (k - 1) * maxq, IF k * maxq < m THEN k * maxq ELSE m)
      /\ \A k \in 0 .. Len(GroupSubs) : k < Len(GroupSubs) <=> k * maxq < m
  BY <1>3, <1>4, SubChunksAre DEF GroupSubs
<1>6. PICK before \in Seq(ChunkSet), k \in 0 .. Len(GroupSubs) :
            /\ chunks = before \o SubSeq(GroupSubs, 1, k)
            /\ qoff = k * maxq
            /\ ThePlan = before \o PlanTail[start]
  BY <1>1 DEF PlanInv
<1>7. /\ k + 1 \in 1 .. Len(GroupSubs) /\ k + 1 \in 0 .. Len(GroupSubs)
      /\ (k + 1) - 1 = k /\ k \in Nat /\ Len(GroupSubs) \in Nat
  BY <1>1, <1>5, <1>6
<1>8. (k + 1) * maxq = qoff + maxq
  <2>1. (k + 1) * maxq = k * maxq + maxq
    BY <1>4, <1>7
  <2>. QED
    BY <1>6, <2>1
<1>9. GroupSubs[k + 1] = c
  <2>1. GroupSubs[k + 1] = Chunk(start, end, qoff, IF qoff + maxq < m THEN qoff + maxq ELSE m)
    BY <1>5, <1>6, <1>7, <1>8
  <2>2. (IF qoff + maxq < m THEN qoff + maxq ELSE m) = qoff + sub
    BY <1>1, <1>4
  <2>. QED
    BY <2>1, <2>2
<1>. HIDE DEF c
<1>10. chunks' = before \o SubSeq(GroupSubs, 1, k + 1)
  <2>. DEFINE a == SubSeq(GroupSubs, 1, k)
  <2>1. /\ a \in Seq(ChunkSet) /\ c \in ChunkSet
    <3>1. c \in ChunkSet
      BY <1>5, <1>7, <1>9
    <3>2. a \in Seq(ChunkSet)
      BY <1>5, <1>7
    <3>. QED
      BY <3>1, <3>2
  <2>2. SubSeq(GroupSubs, 1, k + 1) = Append(a, c)
    BY <1>5, <1>7, <1>9
  <2>. HIDE DEF a
  <2>3. Append(before \o a, c) = before \o Append(a, c)
    BY <2>1
  <2>. QED
    BY <1>1, <1>6, <2>2, <2>3 DEF a
<1>11. \E b \in Seq(ChunkSet), j \in 0 .. Len(GroupSubs') :
            /\ chunks' = b \o SubSeq(GroupSubs', 1, j)
            /\ qoff' = j * maxq'
            /\ ThePlan' = b \o PlanTail'[start']
  BY <1>1, <1>2, <1>6, <1>7, <1>8, <1>10
<1>12. (end = GroupEnd(qsl, cu, n, workspace, elems, start))'
  BY <1>1 DEF PlanInv
<1>. QED
  BY <1>1, <1>11, <1>12 DEF PlanInv

\* NextGroup finds every sub-chunk of the group appended.
LEMMA PlanInvNextGroup == IndInv /\ PlanInv /\ NextGroup => PlanInv'
<1>. SUFFICES ASSUME IndInv, PlanInv, NextGroup PROVE PlanInv'
  OBVIOUS
<1>1. /\ UNCHANGED <<n, qsl, cu, workspace, elems, chunks>>
      /\ pc = "slice" /\ qoff >= m /\ start' = end
      /\ pc' = IF end < n THEN "group" ELSE "done"
  BY DEF NextGroup, inputs
<1>2. PlanTail' = PlanTail /\ ThePlan' = ThePlan
  BY <1>1 DEF PlanTail, ThePlan
<1>3. /\ Arrays(qsl, cu, n) /\ workspace \in Nat /\ elems \in Nat /\ n \in Nat
  BY IndInvArrays DEF Arrays
<1>4. /\ start \in 0 .. n - 1 /\ end \in start + 1 .. n
      /\ m \in Nat /\ maxq \in Nat /\ qoff \in Nat
      /\ m = qsl[end] - qsl[start]
      /\ maxq = MaxQ(elems, qsl[end] - qsl[start], cu[end] - cu[start])
  <2>1. TypeOK /\ InSlice /\ GroupTotals
    BY <1>1 DEF IndInv, InSlice
  <2>2. start \in 0 .. n - 1 /\ end \in start + 1 .. n
    BY <1>3, <2>1 DEF TypeOK, InSlice
  <2>. QED
    BY <2>1, <2>2 DEF TypeOK, InSlice, GroupTotals
<1>5. /\ GroupSubs \in Seq(ChunkSet)
      /\ \A k \in 0 .. Len(GroupSubs) : k < Len(GroupSubs) <=> k * maxq < m
  BY <1>3, <1>4, SubChunksAre DEF GroupSubs
<1>6. PICK before \in Seq(ChunkSet), k \in 0 .. Len(GroupSubs) :
            /\ chunks = before \o SubSeq(GroupSubs, 1, k)
            /\ qoff = k * maxq
            /\ ThePlan = before \o PlanTail[start]
  BY <1>1 DEF PlanInv
<1>7. chunks = before \o GroupSubs
  <2>1. k = Len(GroupSubs)
    <3>1. ~(k * maxq < m)
      BY <1>1, <1>4, <1>6
    <3>. QED
      BY <1>5, <3>1
  <2>2. SubSeq(GroupSubs, 1, Len(GroupSubs)) = GroupSubs
    BY <1>5
  <2>. QED
    BY <1>6, <2>1, <2>2
<1>8. PlanTail[start] = GroupSubs \o PlanTail[end] /\ PlanTail[end] \in Seq(ChunkSet)
  <2>1. end = GroupEnd(qsl, cu, n, workspace, elems, start) /\ end \in 0 .. n
    BY <1>1, <1>3, <1>4 DEF PlanInv
  <2>. QED
    BY <1>4, <2>1, TailUnfolds DEF Unfolded, GroupSubs
<1>9. ThePlan = chunks \o PlanTail[end]
  <2>1. ASSUME NEW a \in Seq(ChunkSet), NEW b \in Seq(ChunkSet), NEW d \in Seq(ChunkSet)
        PROVE  a \o (b \o d) = (a \o b) \o d
    BY ConcatAssociative
  <2>2. before \o (GroupSubs \o PlanTail[end]) = (before \o GroupSubs) \o PlanTail[end]
    BY <1>5, <1>8, <2>1, Zenon
  <2>. QED
    BY <1>6, <1>7, <1>8, <2>2, Zenon
<1>10. ASSUME ~(end < n) PROVE chunks = ThePlan
  <2>1. end = n
    BY <1>3, <1>4, <1>10
  <2>2. PlanTail[end] = << >>
    BY <2>1, TailUnfolds DEF Unfolded
  <2>3. chunks \in Seq(ChunkSet)
    BY IndInvArrays
  <2>. QED
    BY <1>9, <2>2, <2>3, ConcatEmptySeq
<1>. QED
  BY <1>1, <1>2, <1>9, <1>10 DEF PlanInv

\* For every batch and both limits: when the loop ends, its chunks are those
\* of the closed form, every group the longest that fits.
THEOREM GreedyComputesPlan == Spec => []ComputesPlan
<1>1. Init => PlanInv
  BY InitIndInv, PlanInvInit
<1>2. IndInv /\ PlanInv /\ [Next]_vars => PlanInv'
  <2>1. IndInv /\ PlanInv /\ UNCHANGED vars => PlanInv'
    BY DEF vars, PlanInv, PlanTail, ThePlan, GroupSubs
  <2>. QED
    BY <2>1, PlanInvTake, PlanInvClose, PlanInvSlice, PlanInvNextGroup DEF Next
<1>3. PlanInv => ComputesPlan
  BY DEF PlanInv, ComputesPlan, ThePlan
<1>. QED
  BY <1>1, <1>2, <1>3, IndInvHolds, PTL DEF Spec
=============================================================================
