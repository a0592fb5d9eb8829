----------------------------- MODULE ExactRows -----------------------------
(***************************************************************************)
(* What one call of the sparse indexer promises the attention layer behind *)
(* it.  want[t] is the answer row t of the batch must get; have[t] is what *)
(* the top-k buffer holds.  The buffer starts with every row at the filler *)
(* (-1); from then on a row only ever goes from the filler to its exact    *)
(* answer; and attention reads the buffer when no row is missing.  In what *)
(* order and in how many kernels the rows are filled is left open.         *)
(***************************************************************************)
CONSTANT Filler

VARIABLES want, have

xrVars == <<want, have>>

XRInit == want = << >> /\ have = << >>

\* A call begins: the answers are determined by the batch, the buffer is
\* cleared.
Begin == /\ want = << >>
         /\ want' # << >>
         /\ have' = [t \in DOMAIN want' |-> Filler]

\* A kernel answers some rows that had no answer.
Answer == /\ want # << >>
          /\ want' = want
          /\ DOMAIN have' = DOMAIN want
          /\ \A t \in DOMAIN want :
               have'[t] = have[t] \/ (have[t] = Filler /\ have'[t] = want[t])

\* Attention consumes the complete buffer.
Consume == /\ want # << >> /\ have = want
           /\ want' = << >> /\ have' = << >>

XRSpec == XRInit /\ [][Begin \/ Answer \/ Consume]_xrVars
=============================================================================
