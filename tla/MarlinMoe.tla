----------------------------- MODULE MarlinMoe -----------------------------
(***************************************************************************)
(* One call of the Marlin mixture-of-experts forward (marlin_moe.py) by    *)
(* its three callers: the quantization method, which lets the function     *)
(* allocate; MarlinExperts, whose scratch and output come from the modular *)
(* kernel; BatchedMarlinExperts, whose tokens come sorted by expert.       *)
(*                                                                         *)
(* The kernels run one after another; the rows of one kernel in any order. *)
(* A buffer holds what was written, by kind, row and column, or Junk: what *)
(* an earlier call or nobody left there.  The last field of gate, act and  *)
(* down counts the times the router weight was applied.  LoRA, activation  *)
(* quantization and block sizes are left out.                              *)
(***************************************************************************)
EXTENDS Integers, FiniteSets

CONSTANTS MaxTokens,  \* tokens of a call, or per expert of a batch
          TopKs,      \* experts per token
          NumExperts, \* global_num_experts
          Widths,     \* the sizes <<N, K>>: intermediate and hidden
          Callers     \* a subset of AllCallers

AllCallers == {"method", "experts", "batched"}

ASSUME MoeConstants ==
  /\ MaxTokens \in Nat \ {0} /\ TopKs \subseteq Nat \ {0}
  /\ NumExperts \in Nat \ {0} /\ Callers \subseteq AllCallers
  /\ Widths \subseteq (Nat \ {0}) \X (Nat \ {0})

VARIABLES call,   \* the arguments, which do not change
          mem,    \* buffer -> address -> content
          kernel, \* the kernel that runs
          todo    \* its rows not yet done

vars == <<call, mem, kernel, todo>>

larger(a, b) == IF a > b THEN a ELSE b

Junk == <<"junk">>
Zero == <<"zero">>

Experts == 0 .. NumExperts-1
Batched == call.caller = "batched"
N == call.n
K == call.k
Shards == IF call.gated THEN 2 ELSE 1

\* M * num_topk; a batch has a fixed place for every token of every expert.
NumRows == IF Batched THEN Cardinality(call.mapped) * call.m ELSE call.m * call.topk
Rows    == 0 .. NumRows-1
RowsIn  == IF Batched THEN Rows ELSE 0 .. call.m - 1  \* rows of hidden_states
InputRow(r) == IF Batched THEN r ELSE r \div call.topk

\* A row some local expert works on; other rows are in no block.
Active(r) == IF Batched THEN r % call.m < call.counts[r \div call.m]
                        ELSE call.ids[r] \in call.mapped
-----------------------------------------------------------------------------
(* Where the tensors lie *)

\* Mutant of Placed: the workspaces are not swapped.
PlacedUnswapped ==
  CASE call.caller = "method"  -> [cache13 |-> "new13", cache2 |-> "new2",
                                   out |-> IF call.inplace THEN "hidden" ELSE "new"]
    [] call.caller = "experts" -> [cache13 |-> "ws1", cache2 |-> "ws2", out |-> "ws1"]
    [] call.caller = "batched" -> [cache13 |-> "ws1", cache2 |-> "ws2", out |-> "ws1"]

\* The buffer each tensor starts at the beginning of.  The modular kernel
\* takes the output from the same memory as its first workspace.
Placed ==
  CASE call.caller = "method"  -> [cache13 |-> "new13", cache2 |-> "new2",
                                   out |-> IF call.inplace THEN "hidden" ELSE "new"]
    [] call.caller = "experts" -> [cache13 |-> "ws2", cache2 |-> "ws1", out |-> "ws1"]
    [] call.caller = "batched" -> [cache13 |-> "ws1", cache2 |-> "ws2", out |-> "ws1"]

\* Mutant of Workspaces: the first one is sized for the output alone.
WorkspacesShort ==
  IF Batched THEN [ws1 |-> NumRows * larger(K, 2 * N), ws2 |-> NumRows * N]
  ELSE [ws1 |-> NumRows * K, ws2 |-> NumRows * larger(2 * N, K)]

\* workspace_shapes: elements of the two workspaces.
Workspaces ==
  IF Batched THEN [ws1 |-> NumRows * larger(K, 2 * N), ws2 |-> NumRows * N]
  ELSE [ws1 |-> NumRows * larger(N, K), ws2 |-> NumRows * larger(2 * N, K)]

OutRows == Cardinality(RowsIn)
Buffers == {"hidden", Placed.cache13, Placed.cache2, Placed.out}

Capacity(buf) ==
  CASE buf = "new13"  -> NumRows * larger(Shards * N, K)
    [] buf = "new2"   -> NumRows * N
    [] buf \in {"hidden", "new"} -> OutRows * K
    [] buf = "ws1"    -> larger(Workspaces.ws1, OutRows * K)
    [] buf = "ws2"    -> Workspaces.ws2

\* The second product goes to cache3, which is cache13 again, or for a batch
\* to the output.
Target == IF Batched THEN Placed.out ELSE Placed.cache13

\* Address a of buffer buf gets f[a], for the addresses of f.
Put(buf, f) ==
  [mem EXCEPT ![buf] = [a \in DOMAIN @ |-> IF a \in DOMAIN f THEN f[a] ELSE @[a]]]

\* Row r of a tensor with the given width, as addresses, holding g(column).
RowOf(r, width, g(_)) == [a \in r * width .. r * width + width - 1 |-> g(a - r * width)]
-----------------------------------------------------------------------------
Calls ==
  {c \in [caller : Callers, m : 1 .. MaxTokens, topk : TopKs, n : {w[1] : w \in Widths},
          k : {w[2] : w \in Widths}, gated : BOOLEAN, inplace : BOOLEAN,
          onInput : BOOLEAN, hasMap : BOOLEAN, mapped : (SUBSET Experts) \ {{}}] :
     /\ <<c.n, c.k>> \in Widths
     /\ ~c.hasMap => c.mapped = Experts
     /\ c.inplace => c.caller = "method"
     /\ c.caller = "batched" => c.topk = 1 /\ c.mapped = 0 .. Cardinality(c.mapped)-1}

\* ids: topk_ids, flattened; counts: expert_num_tokens.
WithTokens(c) ==
  {[caller |-> c.caller, m |-> c.m, topk |-> c.topk, n |-> c.n, k |-> c.k,
    gated |-> c.gated, inplace |-> c.inplace, onInput |-> c.onInput,
    hasMap |-> c.hasMap, mapped |-> c.mapped, ids |-> i, counts |-> t] :
     i \in IF c.caller = "batched" THEN {<< >>}
           ELSE {f \in [0 .. c.m * c.topk - 1 -> Experts] :
                   \A x, y \in DOMAIN f :
                     x # y /\ x \div c.topk = y \div c.topk => f[x] # f[y]},
     t \in IF c.caller = "batched" THEN [c.mapped -> 0 .. c.m] ELSE {<< >>}}

\* The tensors of the call: the input, and scratch that holds anything.
Init == /\ call \in UNION {WithTokens(c) : c \in Calls}
        /\ mem = [buf \in Buffers |->
                    [a \in 0 .. Capacity(buf)-1 |->
                       IF buf = "hidden" THEN <<"x", a \div K, a % K>> ELSE Junk]]
        /\ kernel = "none" /\ todo = {}

\* Mutant of NeedsZero: the output is never cleared.
NeedsZeroNever == FALSE

NeedsZero == call.hasMap

After(k) == CASE k = "none"  -> "gemm1"
              [] k = "gemm1" -> "act"
              [] k = "act"   -> IF NeedsZero THEN "zero" ELSE "gemm2"
              [] k = "zero"  -> "gemm2"
              [] k = "gemm2" -> IF Batched THEN "done" ELSE "sum"
              [] k = "sum"   -> "done"

Work(k) == CASE k \in {"gemm1", "gemm2"} -> {r \in Rows : Active(r)}
             [] k = "act"  -> Rows
             [] k = "zero" -> {0}
             [] k = "sum"  -> RowsIn
             [] k = "done" -> {}

Launch == /\ todo = {} /\ kernel # "done"
          /\ kernel' = After(kernel)
          /\ todo' = Work(After(kernel))
          /\ UNCHANGED <<call, mem>>

Done(r) == /\ todo' = todo \ {r}
           /\ UNCHANGED <<call, kernel>>

\* Mutant of MulOnDown: the weight is applied after the second product always.
MulOnDownAlways == 1

\* mul_topk_weights of the two products.  For a batch the weights are ones:
\* the caller applies the router's when it adds the experts up.
MulOnGate == IF call.onInput THEN 1 ELSE 0
MulOnDown == IF call.onInput THEN 0 ELSE 1

Gemm1(r) ==
  LET whole == \A c \in 0 .. K-1 :
                 mem["hidden"][InputRow(r) * K + c] = <<"x", InputRow(r), c>>
      gate(c) == IF whole THEN <<"gate", r, c, MulOnGate>> ELSE Junk
  IN  /\ kernel = "gemm1"
      /\ mem' = Put(Placed.cache13, RowOf(r, Shards * N, gate))

\* act(gate) * up, or act(up) of a layer that has no gate.
Activate(r) ==
  LET cell(c) == mem[Placed.cache13][r * Shards * N + c]
      act(c)  == IF /\ cell(c) = <<"gate", r, c, MulOnGate>>
                    /\ Shards = 2 => cell(c + N) = <<"gate", r, c + N, MulOnGate>>
                   THEN <<"act", r, c, MulOnGate>> ELSE Junk
  IN  /\ kernel = "act"
      /\ mem' = Put(Placed.cache2, RowOf(r, N, act))

ZeroOut(r) ==
  /\ kernel = "zero"
  /\ mem' = Put(Target, [a \in 0 .. NumRows * K - 1 |-> Zero])

Gemm2(r) ==
  LET whole == \A c \in 0 .. N-1 :
                 mem[Placed.cache2][r * N + c] = <<"act", r, c, MulOnGate>>
      down(c) == IF whole THEN <<"down", r, c, MulOnGate + MulOnDown>> ELSE Junk
  IN  /\ kernel = "gemm2"
      /\ mem' = Put(Target, RowOf(r, K, down))

\* moe_sum over the topk rows of token t.
SumRow(t) ==
  LET own     == t * call.topk .. t * call.topk + call.topk - 1
      cell(r, c) == mem[Placed.cache13][r * K + c]
      good(r, c) == cell(r, c) = Zero \/ \E w \in 0 .. 2 : cell(r, c) = <<"down", r, c, w>>
      sum(c)  == IF \A r \in own : good(r, c)
                   THEN <<"sum", t, c, {cell(r, c) : r \in own} \ {Zero}>> ELSE Junk
  IN  /\ kernel = "sum"
      /\ mem' = Put(Placed.out, RowOf(t, K, sum))

Next == \/ Launch
        \/ \E r \in todo : /\ Gemm1(r) \/ Activate(r) \/ ZeroOut(r) \/ Gemm2(r) \/ SumRow(r)
                           /\ Done(r)

Spec == Init /\ [][Next]_vars
-----------------------------------------------------------------------------
(* Properties *)

\* The router weight enters no product twice.
TypeOK ==
  /\ kernel \in {"none", "gemm1", "act", "zero", "gemm2", "sum", "done"}
  /\ todo \subseteq Rows \cup RowsIn
  /\ \A buf \in Buffers : \A a \in DOMAIN mem[buf] :
       LET x == mem[buf][a]
       IN  \/ x \in {Junk, Zero}
           \/ x[1] \in {"x", "sum"}
           \/ x[1] \in {"gate", "act", "down"} /\ x[4] \in {0, 1}

\* Whatever the scratch memory held, the result of a token is the sum of its
\* local experts' products, weighted once: stale rows of experts that live on
\* another rank, the memory two caches share, the memory the output shares
\* with a cache and an output written over its input leave no trace.
OutputExact ==
  kernel = "done" =>
    \A t \in RowsIn : \A c \in 0 .. K-1 :
      LET own == t * call.topk .. t * call.topk + call.topk - 1
          got == mem[Placed.out][t * K + c]
      IN  IF Batched THEN Active(t) => got = <<"down", t, c, 1>>
          ELSE got = <<"sum", t, c, {<<"down", r, c, 1>> : r \in {r \in own : Active(r)}}>>

\* Every tensor of the call fits the memory it is laid over.
ScratchSuffices ==
  /\ NumRows * Shards * N <= Capacity(Placed.cache13)
  /\ NumRows * K <= Capacity(Target)
  /\ NumRows * N <= Capacity(Placed.cache2)
  /\ OutRows * K <= Capacity(Placed.out)
=============================================================================
