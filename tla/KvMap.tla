------------------------------- MODULE KvMap -------------------------------
(***************************************************************************)
(* What a paged cache of token records promises: a map from slots to       *)
(* tokens.  A store hands in which slots get which tokens; they arrive in  *)
(* any order, each at its own slot and nowhere else; a token without a     *)
(* slot arrives nowhere.                                                   *)
(***************************************************************************)
EXTENDS Integers

CONSTANTS Slots, Nothing

VARIABLES todo, map  \* tokens to arrive, each with its slot; the map

kmVars == <<todo, map>>

KMInit == todo = {} /\ map = [s \in Slots |-> Nothing]

HandIn == /\ todo = {} /\ todo' # {}
          /\ map' = map

Arrive == \E w \in todo :
            /\ todo' = todo \ {w}
            /\ map' = [s \in Slots |-> IF s = w.slot THEN w.token ELSE map[s]]

KMSpec == KMInit /\ [][HandIn \/ Arrive]_kmVars
=============================================================================
