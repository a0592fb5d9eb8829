---------------------------- MODULE MCMarlinMoe ----------------------------
(***************************************************************************)
(* MarlinMoe for TLC.  Two tokens with up to two of three experts each, an *)
(* intermediate width below, at and above the hidden one.                  *)
(***************************************************************************)
EXTENDS MarlinMoe

MCWidths == {<<1, 3>>, <<1, 1>>, <<3, 1>>}
=============================================================================
