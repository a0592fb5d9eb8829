---------------------------- MODULE MCChunkSplit ----------------------------
(***************************************************************************)
(* ChunkSplit for TLC: one to three prefill requests that share at most    *)
(* six rows and five KV entries, cut in every possible way; workspaces and *)
(* budgets that all, some or none of the requests fit.                     *)
(***************************************************************************)
EXTENDS ChunkSplit

MCCounts     == 1 .. 3
MCRows       == 1 .. 7
MCEntries    == 0 .. 5
MCWorkspaces == {2, 4}
MCBudgets    == {1, 4, 7}

\* The planner's result is returned and nothing runs after it.
Returned == pc = "done" /\ UNCHANGED vars
MCNext   == Next \/ Returned
MCSpec   == Init /\ [][MCNext]_vars /\ WF_vars(Next)
=============================================================================
