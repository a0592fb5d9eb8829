----------------------------- MODULE RowTiling -----------------------------
(***************************************************************************)
(* What the sparse-indexer prefill planner promises its consumer, whatever *)
(* chunks it chooses: the query rows of the prefill requests are handed    *)
(* out left to right, each exactly once, in non-empty runs, until none is  *)
(* left.  sparse_attn_indexer.py writes the rows of one run per loop       *)
(* iteration and never looks at a row again, so a row handed out twice     *)
(* would be written twice and a row skipped would keep its -1 filler.      *)
(***************************************************************************)
EXTENDS Naturals

VARIABLES first,   \* the first prefill row of the batch
          last,    \* one past the last prefill row
          handed   \* rows first .. handed-1 have been handed out

rtVars == <<first, last, handed>>

RTInit == /\ first \in Nat
          /\ last \in Nat
          /\ first < last
          /\ handed = first

\* One chunk: the next run of rows, at least one of them.
HandOut == /\ handed < last
           /\ handed' \in (handed + 1) .. last
           /\ UNCHANGED <<first, last>>

RTSpec == RTInit /\ [][HandOut]_rtVars /\ WF_rtVars(HandOut)
=============================================================================
