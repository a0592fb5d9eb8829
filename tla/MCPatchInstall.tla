--------------------------- MODULE MCPatchInstall ---------------------------
(***************************************************************************)
(* Model values for PatchInstall: every script, both layouts, images that  *)
(* up to two edits do not fit, and three runs, of which any may be killed *)
(* anywhere: enough for a kill, the run that meets what it left, and the   *)
(* run after that one.                                                     *)
(***************************************************************************)
EXTENDS PatchInstall

MCLayouts == {"repository", "complete"}
MCRepository == {"repository"}
=============================================================================
