-------------------------- MODULE MCSparseIndexer --------------------------
(***************************************************************************)
(* SparseIndexer for TLC: two requests, two indexer layers.  The five      *)
(* deployments reach every path of the builder: native decode with one or  *)
(* more tokens, flattened decode, and KV compression with both.            *)
(***************************************************************************)
EXTENDS SparseIndexer

Deployed(n, dc, c) == [nextN |-> n, family100 |-> dc, ratio |-> c]

MCDeployments == {Deployed(1, FALSE, 1),  \* no speculation
                  Deployed(2, FALSE, 1),  \* one draft: native on any GPU
                  Deployed(4, FALSE, 1),  \* the GB10 recipe: flattened
                  Deployed(3, FALSE, 2),  \* flattened and compressed
                  Deployed(3, TRUE, 2)}   \* datacenter GPU: native
=============================================================================
