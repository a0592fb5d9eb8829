---------------------------- MODULE PrefillPlan ----------------------------
(***************************************************************************)
(* The chunk plan of the sparse-indexer prefill as a function of its       *)
(* inputs: the closed form of split_indexer_prefill_chunks (indexer.py),   *)
(* used where the loop's steps do not matter.  ChunkSplit models the loop  *)
(* itself and is checked to compute exactly this plan.                     *)
(*                                                                         *)
(* Requests are numbered 0 .. n-1.  Lengths come as the cumulative arrays  *)
(* the caller holds: qsl[i] is query_start_loc, so request i has the query *)
(* rows qsl[i] .. qsl[i+1]-1; cu[i] is the cumulative compressed context   *)
(* length, so request i has cu[i+1]-cu[i] indexer KV entries.              *)
(***************************************************************************)
EXTENDS Integers, Sequences

\* A planned chunk: requests start .. stop-1, rows lo .. hi-1 counted from
\* the first row of request start (req_slice and query_slice of the code).
Chunk(start, stop, lo, hi) ==
  [start |-> start, stop |-> stop, lo |-> lo, hi |-> hi]

\* token_start and token_end of build_prefill_chunk_metadata.
TokenStart(qsl, c) == qsl[c.start] + c.lo
TokenEnd(qsl, c)   == qsl[c.start] + c.hi

\* Both constraints of the docstring, for requests s .. e-1 taken together.
Fits(qsl, cu, workspace, elems, s, e) ==
  /\ cu[e] - cu[s] <= workspace
  /\ (qsl[e] - qsl[s]) * (cu[e] - cu[s]) <= elems

\* Rows per sub-chunk of a group with m rows over nk KV entries.
MaxQ(elems, m, nk) ==
  IF nk > 0
    THEN IF elems \div nk > 1 THEN elems \div nk ELSE 1
    ELSE m

\* The group of requests that starts at s: as many as fit, or s alone.
GroupEnd(qsl, cu, n, workspace, elems, s) ==
  LET ends == {e \in (s + 1) .. n : Fits(qsl, cu, workspace, elems, s, e)}
  IN  IF ends = {} THEN s + 1
      ELSE CHOOSE e \in ends : \A f \in ends : f <= e

\* The sub-chunks of the group s .. e-1.
SubChunks(qsl, cu, elems, s, e) ==
  LET m   == qsl[e] - qsl[s]
      mq  == MaxQ(elems, m, cu[e] - cu[s])
      cnt == (m + mq - 1) \div mq
  IN  [k \in 1 .. cnt |->
         Chunk(s, e, (k - 1) * mq, IF k * mq < m THEN k * mq ELSE m)]

Plan(qsl, cu, n, workspace, elems) ==
  LET from[s \in 0 .. n] ==
        IF s = n THEN << >>
        ELSE LET e == GroupEnd(qsl, cu, n, workspace, elems, s)
             IN  SubChunks(qsl, cu, elems, s, e) \o from[e]
  IN  from[0]
=============================================================================
