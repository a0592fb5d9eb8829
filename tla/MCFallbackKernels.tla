------------------------- MODULE MCFallbackKernels -------------------------
(***************************************************************************)
(* FallbackKernels for TLC, with tiles of two or three where the code has  *)
(* 8 to 128, so that the last tile of a row, of the heads and of k is cut. *)
(***************************************************************************)
EXTENDS FallbackKernels

MCShapes    == {<<1, 1>>, <<1, 2>>, <<2, 1>>, <<2, 2>>, <<3, 1>>}
MCGemmSizes == {<<0, 3, 1, 2>>, <<1, 3, 2, 1>>, <<3, 5, 3, 2>>, <<2, 3, 1, 4>>, <<1, 6, 3, 2>>}
=============================================================================
