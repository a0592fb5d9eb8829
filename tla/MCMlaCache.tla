---------------------------- MODULE MCMlaCache ----------------------------
(***************************************************************************)
(* MlaCache for TLC with small records: four NoPE elements with a scale    *)
(* for two (nvfp4) or four (fp8), and one RoPE element.  Three index       *)
(* places in tiles of two leave a last tile that is not full.              *)
(***************************************************************************)
EXTENDS MlaCache
=============================================================================
