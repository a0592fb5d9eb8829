----------------------------- MODULE ChunkSizes -----------------------------
(***************************************************************************)
(* How the GB10 fallbacks cut a score tensor into chunks that fit a bound  *)
(* in bytes (sm12x_deep_gemm_fallbacks.py).                                *)
(***************************************************************************)
EXTENDS Integers

Least(a, b) == IF a <= b THEN a ELSE b
Most(a, b)  == IF a >= b THEN a ELSE b

\* _fp8_mqa_logits_head_chunk_size
HeadChunkSize(seqLen, seqLenKv, numHeads, bytes) ==
  Most(1, Least(Least(8, numHeads), bytes \div (Most(1, seqLen * seqLenKv) * 4)))

\* Mutant of KeyChunkSize: the rows are not counted.
KeyChunkPerRow(seqLen, seqLenKv, headChunkSize, bytes) ==
  Most(1, Least(seqLenKv, bytes \div (Most(1, headChunkSize) * 4)))

\* _fp8_mqa_logits_k_chunk_size
KeyChunkSize(seqLen, seqLenKv, headChunkSize, bytes) ==
  Most(1, Least(seqLenKv, bytes \div (Most(1, seqLen * headChunkSize) * 4)))

\* Mutant of PageChunkSize: what is configured is taken as it is.
PageChunkAsGiven(configured) == configured

\* _paged_mqa_topk_chunk_size
PageChunkSize(configured) == Most(1, configured)
=============================================================================
