---------------------------- MODULE MCTopkMerge ----------------------------
(***************************************************************************)
(* TopkMerge for TLC: up to four keys in chunks of one to four, two heads  *)
(* taken together or one by one, fewer slots than keys and more.           *)
(***************************************************************************)
EXTENDS TopkMerge

MCScores     == {-1, 1}
MCPageChunks == {0, 1, 3, 8}
MCNegInf     == -9

\* The call returns and nothing runs after it.
Returned == pc = "done" /\ UNCHANGED vars
MCNext   == Next \/ Returned
MCSpec   == Init /\ [][MCNext]_vars /\ WF_vars(Next)
=============================================================================
