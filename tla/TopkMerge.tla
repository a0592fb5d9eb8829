----------------------------- MODULE TopkMerge -----------------------------
(***************************************************************************)
(* The chunked top-k of the GB10 fallback (sm12x_deep_gemm_fallbacks.py):  *)
(* the key axis is cut into chunks, each chunk's logits are accumulated    *)
(* over chunks of heads, and the chunk's best keys are merged into the     *)
(* best so far.  _fp8_mqa_logits_topk_torch works on the gathered keys of  *)
(* a prefill chunk; fp8_fp4_paged_mqa_topk_indices on a request's pages.   *)
(*                                                                         *)
(* Rows do not interact, so one row is modelled.  Logits are integers:     *)
(* psum[h][k] is the score of key k summed over the first h heads, and     *)
(* rounding is left out.  torch.topk may order and choose ties at will.    *)
(***************************************************************************)
EXTENDS Integers, ChunkSizes

CONSTANTS RowCounts,  \* seq_len: query rows scored together
          KeyCounts,  \* seq_len_kv, or max_model_len of the paged variant
          HeadCounts, \* num_heads
          TopKs,      \* topk_tokens
          Bytes,      \* values of _SM120_MQA_LOGITS_MAX_SCORE_BYTES
          PageChunks, \* values of GLM52_PAGED_MQA_TOPK_CHUNK_SIZE
          Scores,     \* partial sums explored
          NegInf      \* float("-inf")

ASSUME MergeConstants ==
  /\ RowCounts \subseteq Nat /\ KeyCounts \subseteq Nat
  /\ HeadCounts \subseteq Nat \ {0} /\ TopKs \subseteq Nat \ {0}
  /\ Bytes \subseteq Nat /\ PageChunks \subseteq Int
  /\ Scores \subseteq Int /\ NegInf \in Int
  /\ \A s \in Scores : NegInf < s

VARIABLES rows, kv, heads, topk, maxBytes, \* the call's shape
          ks, ke,                          \* the row's window of keys
          psum,                            \* partial sums over the heads
          headChunk, keyChunk,             \* chunk sizes
          pc, keyStart, headStart,         \* the two loops
          logits,                          \* chunk_logits
          best, out                        \* best_values and the answer

inputs == <<rows, kv, heads, topk, maxBytes, ks, ke, psum, headChunk, keyChunk>>
vars   == <<rows, kv, heads, topk, maxBytes, ks, ke, psum, headChunk, keyChunk,
            pc, keyStart, headStart, logits, best, out>>
-----------------------------------------------------------------------------
(* torch.topk: any n distinct places of s, best first, such that no place  *)
(* left out beats one chosen.                                              *)
TopKOf(s, n) ==
  {f \in [1 .. n -> DOMAIN s] :
     /\ \A i, j \in 1 .. n : i # j => f[i] # f[j]
     /\ \A i, j \in 1 .. n : i < j => s[f[i]] >= s[f[j]]
     /\ \A p \in DOMAIN s :
          (\A i \in 1 .. n : f[i] # p) => \A i \in 1 .. n : s[p] <= s[f[i]]}

Keys     == 0 .. kv-1
Zeros    == [k \in Keys |-> 0]
Total(k) == psum[heads][k]
Valid(k) == k >= ks /\ k < ke
KeyEnd   == Least(keyStart + keyChunk, kv)

Init == /\ rows \in RowCounts /\ kv \in KeyCounts /\ heads \in HeadCounts
        /\ topk \in TopKs /\ maxBytes \in Bytes
        /\ \E s \in [1 .. heads -> [Keys -> Scores]] :
             psum = [h \in 0 .. heads |-> IF h = 0 THEN Zeros ELSE s[h]]
        /\ ke \in 0 .. kv
        /\ \/ /\ ks \in 0 .. ke
              /\ headChunk = HeadChunkSize(rows, kv, heads, maxBytes)
              /\ keyChunk = KeyChunkSize(rows, kv, headChunk, maxBytes)
           \/ /\ ks = 0
              /\ headChunk = heads
              /\ \E c \in PageChunks : keyChunk = PageChunkSize(c)
        /\ pc = "chunks" /\ keyStart = 0 /\ headStart = 0
        /\ logits = Zeros
        /\ best = [i \in 1 .. topk |-> NegInf]
        /\ out = [i \in 1 .. topk |-> -1]

\* One chunk of heads is added to the chunk's logits.
AddHeads ==
  /\ pc = "chunks" /\ keyStart < kv
  /\ headStart < heads
  /\ LET headEnd == Least(headStart + headChunk, heads)
     IN  /\ logits' = [k \in Keys |->
                         IF k >= keyStart /\ k < KeyEnd
                           THEN logits[k] + (psum[headEnd][k] - psum[headStart][k])
                           ELSE logits[k]]
         /\ headStart' = headEnd
  /\ UNCHANGED <<inputs, pc, keyStart, best, out>>

\* The chunk's logits with the keys outside the row's window masked.
Width == KeyEnd - keyStart
ChunkValues == [p \in 1 .. Width |->
                  IF Valid(keyStart + p - 1) THEN logits[keyStart + p - 1]
                  ELSE NegInf]

\* The candidates, for the chunk's places a: the best so far, then the
\* chunk's own (chunk_topk of them), with the key each stands for.
Picked     == Least(topk, Width)
Candidates == 1 .. topk + Picked
CandidateValues(a) ==
  [c \in Candidates |-> IF c <= topk THEN best[c] ELSE ChunkValues[a[c - topk]]]

\* Mutants of CandidateKeys: numbered within the chunk; counted from one.
ChunkLocalKeys(a) ==
  [c \in Candidates |-> IF c <= topk THEN out[c] ELSE a[c - topk] - 1]
KeysFromOne(a) ==
  [c \in Candidates |-> IF c <= topk THEN out[c] ELSE keyStart + a[c - topk]]

CandidateKeys(a) ==
  [c \in Candidates |-> IF c <= topk THEN out[c] ELSE keyStart + a[c - topk] - 1]

\* All heads are in: the chunk's best are merged into the best so far, and
\* what is not finite is no key.
Merge ==
  /\ pc = "chunks" /\ keyStart < kv
  /\ headStart >= heads
  /\ \E a \in TopKOf(ChunkValues, Picked) :
     \E b \in TopKOf(CandidateValues(a), topk) :
       /\ best' = [i \in 1 .. topk |-> CandidateValues(a)[b[i]]]
       /\ out' = [i \in 1 .. topk |-> IF best'[i] = NegInf THEN -1
                                      ELSE CandidateKeys(a)[b[i]]]
  /\ keyStart' = keyStart + keyChunk
  /\ headStart' = 0
  /\ logits' = Zeros
  /\ UNCHANGED <<inputs, pc>>

Finish == /\ pc = "chunks" /\ keyStart >= kv
          /\ pc' = "done"
          /\ UNCHANGED <<inputs, keyStart, headStart, logits, best, out>>

Next == AddHeads \/ Merge \/ Finish

Spec == Init /\ [][Next]_vars /\ WF_vars(Next)
-----------------------------------------------------------------------------
(* Properties *)

TypeOK ==
  /\ rows \in RowCounts /\ kv \in KeyCounts /\ heads \in HeadCounts
  /\ topk \in TopKs /\ maxBytes \in Bytes
  /\ ks \in 0 .. ke /\ ke \in 0 .. kv
  /\ headChunk \in Nat \ {0} /\ keyChunk \in Nat \ {0}
  /\ pc \in {"chunks", "done"}
  /\ keyStart \in Nat /\ headStart \in 0 .. heads
  /\ logits \in [Keys -> Int]
  /\ best \in [1 .. topk -> Int] /\ out \in [1 .. topk -> -1 .. kv-1]

\* The keys of the window that the loop has passed; all, when it is done.
Passed == {k \in Keys : Valid(k) /\ (k < keyStart \/ pc = "done")}

\* The row holds distinct keys of the window that are the best of those
\* passed so far, whatever the chunk boundaries were; if it has room for all
\* of them it misses none, and the rest is -1.
ExactTopK ==
  /\ \A i \in 1 .. topk : out[i] # -1 => out[i] \in Passed
  /\ \A i, j \in 1 .. topk : i # j /\ out[i] # -1 => out[i] # out[j]
  /\ \A k \in Passed : (\A i \in 1 .. topk : out[i] # k) =>
       \A i \in 1 .. topk : out[i] # -1 /\ Total(k) <= Total(out[i])

\* The score tensor [head chunk, rows, key chunk] of the torch path keeps to
\* its byte bound, except when one key of one head already exceeds it.
ScoresBounded ==
  (/\ kv > 0
   /\ headChunk = HeadChunkSize(rows, kv, heads, maxBytes)
   /\ keyChunk = KeyChunkSize(rows, kv, headChunk, maxBytes))
  => \/ headChunk * rows * keyChunk * 4 <= maxBytes
     \/ headChunk = 1 /\ keyChunk = 1

\* The loop comes to its end: no chunk is empty.
Terminates == <>(pc = "done")
=============================================================================
