------------------------- MODULE MCDeepGemmDispatch -------------------------
(***************************************************************************)
(* DeepGemmDispatch for TLC: a complete library, one without the product   *)
(* the scale format is about, one without each of the indexer's symbols,   *)
(* and one whose only symbol does not count as looked up.                  *)
(***************************************************************************)
EXTENDS DeepGemmDispatch

Libraries == {Symbols, Symbols \ {"fp8_gemm_nt"}, Symbols \ {"paged_mqa_logits_metadata"},
              Symbols \ {"mqa_logits"}, {"mn_major_tma_aligned"}, {}}
=============================================================================
