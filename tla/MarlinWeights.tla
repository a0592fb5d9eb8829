--------------------------- MODULE MarlinWeights ---------------------------
(***************************************************************************)
(* What happens to one 4-bit quantized matrix between a checkpoint and the *)
(* first Marlin product: the kernel is chosen, the parameters are created  *)
(* and loaded for one tensor-parallel rank, process_weights_after_loading  *)
(* rewrites them step by step, and the layer hands them to the kernel.     *)
(* Five methods do this: compressed-tensors experts (ct_moe, as patched    *)
(* for asymmetric weights), AWQ and GPTQ experts (int_wna16.py), and the   *)
(* two linear methods, which share MarlinLinearKernel.                     *)
(*                                                                         *)
(* Numbers are abstracted to where they come from: a weight's row and      *)
(* column, a scale's or zero point's group and column in the checkpoint.   *)
(* Both permutations of columns and the packing orders are kept, rows and  *)
(* columns apart.  Experts, biases, 8-bit weights, the Flashinfer backend  *)
(* and platforms other than CUDA are left out.                             *)
(***************************************************************************)
EXTENDS Integers, Sequences, FiniteSets

CONSTANT Layers  \* the layers tried, a set of records like Layer

MoeMethods    == {"ct_moe", "awq_moe", "gptq_moe"}
LinearMethods == {"ct_linear", "awq_linear"}

\* hidden: input of w13 and output of w2; inter: intermediate size of all
\* ranks together; act: VLLM_MARLIN_INPUT_DTYPE; modular: experts called
\* through the modular kernel rather than the method's own apply; actorder
\* "group" comes with a g_idx, "weight" without.
Layer == [method : MoeMethods \cup LinearMethods, product : {"w13", "w2", "column", "row"},
          asym : BOOLEAN, gs : {-1, 32, 64, 128}, actorder : {"none", "weight", "group"},
          act : {"none", "int8", "fp8"}, hidden : Nat \ {0}, inter : Nat \ {0},
          sm : Nat, tp : Nat \ {0}, rank : Nat, modular : BOOLEAN]

\* Sizes are split evenly; AWQ has no activation order and GPTQ one with a
\* g_idx; only experts have a modular kernel.
ASSUME WeightConstants ==
  /\ Layers \subseteq Layer
  /\ \A l \in Layers :
       /\ l.rank < l.tp /\ l.inter % l.tp = 0
       /\ l.product = "row" => l.hidden % l.tp = 0
       /\ l.method \in MoeMethods <=> l.product \in {"w13", "w2"}
       /\ l.method \in {"awq_moe", "awq_linear"} => l.actorder = "none"
       /\ l.method = "gptq_moe" => l.actorder # "weight"
       /\ l.modular => l.method \in MoeMethods

VARIABLES layer, \* the layer, which does not change
          stage, \* the step done last
          w,     \* packed weights
          s,     \* scales
          z,     \* zero points
          order, \* g_idx and its sort indices
          given  \* what the kernel was given

weightsVars == <<layer, stage, w, s, z, order, given>>

None == <<>>
-----------------------------------------------------------------------------
(* Shapes.  size_k: input size, size_n: output size, of this rank. *)

Hidden  == layer.hidden
Inter   == layer.inter
IsMoe   == layer.method \in MoeMethods
SplitK  == layer.product \in {"w2", "row"}
FullK   == IF layer.product = "w2" THEN Inter ELSE Hidden
size_k  == IF SplitK THEN FullK \div layer.tp ELSE FullK
InterPP == Inter \div layer.tp
size_n  == CASE layer.product = "w13" -> 2 * InterPP
             [] layer.product = "column" -> Inter \div layer.tp
             [] OTHER -> Hidden
is_a_8bit == layer.act # "none"
has_g_idx == layer.actorder = "group"

\* Where the rank's rows and columns are in the checkpoint.  Gate and up
\* halves are split each by itself.
SourceRow(k) == IF SplitK THEN layer.rank * size_k + k ELSE k
SourceCol(n) == CASE layer.product = "w13" ->
                   (n \div InterPP) * Inter + layer.rank * InterPP + (n % InterPP)
              [] layer.product = "column" -> layer.rank * size_n + n
              [] OTHER -> n

\* The group of a checkpoint row; activation order deals rows out in turn.
NumGroups(k) == IF layer.gs = -1 THEN 1 ELSE k \div layer.gs
GroupOf(row) == IF layer.gs = -1 THEN 0
                ELSE IF has_g_idx THEN row % NumGroups(FullK) ELSE row \div layer.gs
-----------------------------------------------------------------------------
(* Column orders *)

\* get_scale_perms
scale_perm        == [i \in 0 .. 63 |-> i \div 8 + 8 * (i % 8)]
scale_perm_single == [i \in 0 .. 31 |-> 2 * (i \div 8) + (i % 2) + 8 * ((i % 8) \div 2)]

interleave      == [i \in 0 .. 7 |-> <<0, 2, 4, 6, 1, 3, 5, 7>>[i + 1]]
undo_interleave == [i \in 0 .. 7 |-> <<0, 4, 1, 5, 2, 6, 3, 7>>[i + 1]]

\* reshape((-1, len(perm)))[:, perm]
Permuted(f, perm) ==
  LET len == Cardinality(DOMAIN perm)
  IN  [i \in DOMAIN f |-> f[len * (i \div len) + perm[i % len]]]

\* marlin_permute_scales
permute_scales(f, size) ==
  IF layer.gs < size /\ layer.gs # -1 /\ ~is_a_8bit
  THEN Permuted(f, scale_perm) ELSE Permuted(f, scale_perm_single)

\* marlin_zero_points
zero_points(f, a_8bit) ==
  LET p == Permuted(f, scale_perm)
  IN  IF a_8bit THEN p ELSE Permuted(p, interleave)

\* Mutant of UndoAwq: the order is applied again instead of undone.
RedoAwq(f) == Permuted(f, interleave)

\* AWQ packs the eight columns of a word in the interleaved order.
UndoAwq(f) == Permuted(f, undo_interleave)

GroupsIn(t) == Cardinality(DOMAIN t.groups)

\* The order the kernel takes scales in.  It is given the scale rows and
\* nothing of the group size: several rows are groups, one is a channel.
KernelScaleOrder(f, rows) ==
  IF rows > 1 /\ ~is_a_8bit
  THEN Permuted(f, scale_perm) ELSE Permuted(f, scale_perm_single)

\* The row of t the kernel reads for row k.
GroupRead(t, k) == IF order.idx # None THEN order.idx[k]
                   ELSE k \div (size_k \div GroupsIn(t))
-----------------------------------------------------------------------------
(* Choosing the method *)

query_marlin_supported_quant_types(has_zp) == IF has_zp THEN {"uint4"} ELSE {"uint4b8"}

IsAwq == layer.method \in {"awq_moe", "awq_linear"}

WeightType == CASE IsAwq -> "uint4"
                [] layer.method = "gptq_moe" -> "uint4b8"
                [] OTHER -> IF layer.asym THEN "uint4" ELSE "uint4b8"

check_marlin_supported ==
  /\ layer.sm >= 75 /\ layer.gs \in {-1, 32, 64, 128}
  /\ WeightType \in query_marlin_supported_quant_types(layer.asym)

check_marlin_supports_shape ==
  /\ size_n % 64 = 0 /\ size_k % 128 = 0
  /\ layer.gs # -1 => size_k % layer.gs = 0

check_moe_marlin_supports_layer ==
  Hidden % 128 = 0 /\ InterPP % (IF layer.gs > 64 THEN layer.gs ELSE 64) = 0

\* get_marlin_input_dtype
InputDtypeRaises == layer.act = "fp8" /\ layer.sm \notin {89, 121}

WeightsInit ==
  /\ layer \in Layers
  /\ stage = "new"
  /\ w = None /\ s = None /\ z = None /\ order = None /\ given = None

Stop(why) == stage' = why /\ UNCHANGED <<layer, w, s, z, order, given>>

\* Another kernel or method takes the layer, or nobody does.
Choose ==
  /\ stage = "new"
  /\ IF ~check_marlin_supported \/ (IF IsMoe THEN ~check_moe_marlin_supports_layer
                                             ELSE ~check_marlin_supports_shape)
     THEN Stop("elsewhere")
     ELSE IF InputDtypeRaises THEN Stop("refused") ELSE Stop("chosen")
-----------------------------------------------------------------------------
(* Creating and loading the parameters *)

row_parallel == size_k # FullK

\* Mutant of load_full_w2: only this rank's scales, in any order of rows.
load_full_w2_never == FALSE

load_full_w2 == layer.product = "w2" /\ layer.actorder # "none" /\ layer.gs # -1

marlin_repeat_scales_on_all_ranks == has_g_idx \/ (layer.gs = -1 /\ row_parallel)

\* Every rank has the scales of all groups, or those of its own rows.
AllGroups == CASE IsAwq -> FALSE
               [] layer.method = "ct_linear" -> marlin_repeat_scales_on_all_ranks
               [] OTHER -> layer.gs = -1 \/ load_full_w2

\* The checkpoint's group in each row of the rank's scales and zero points.
GroupRows ==
  IF AllGroups THEN [g \in 0 .. NumGroups(FullK)-1 |-> g]
  ELSE LET n == size_k \div (IF layer.gs = -1 THEN FullK ELSE layer.gs)
       IN  [g \in 0 .. n-1 |-> IF SplitK THEN layer.rank * n + g ELSE g]

Columns    == [n \in 0 .. size_n-1 |-> SourceCol(n)]
AwqColumns == Permuted(Columns, interleave)

ZeroColumns == IF IsAwq THEN AwqColumns ELSE Columns

LoadedWeights ==
  [rows |-> [k \in 0 .. size_k-1 |-> SourceRow(k)], packed |-> IF IsAwq THEN "awq" ELSE "k",
   cols |-> IF IsAwq THEN AwqColumns ELSE Columns, enc |-> "int4"]

\* The experts of two methods always have a g_idx, which holds anything when
\* the checkpoint has none.
LoadedIdx ==
  CASE has_g_idx -> [k \in 0 .. size_k-1 |-> GroupOf(SourceRow(k))]
    [] ~has_g_idx /\ layer.method \in {"ct_moe", "gptq_moe"} -> [k \in 0 .. size_k-1 |-> -1]
    [] OTHER -> None

\* create_weights and the loader.
CreateWeights ==
  /\ stage = "chosen"
  /\ IF layer.method = "awq_moe" /\ layer.gs = -1
     THEN Stop("refused")  \* a negative number of groups
     ELSE /\ stage' = "loaded"
          /\ w' = LoadedWeights
          /\ s' = [groups |-> GroupRows, cols |-> Columns, enc |-> "plain"]
          /\ z' = IF layer.asym THEN [groups |-> GroupRows, cols |-> ZeroColumns] ELSE None
          /\ order' = [idx |-> LoadedIdx, sort |-> None]
          /\ UNCHANGED <<layer, given>>

\* MoE methods: by the intermediate size; linear ones: marlin_is_k_full.
is_k_full == CASE layer.method = "awq_moe" -> InterPP = Inter
               [] layer.method \in {"ct_moe", "gptq_moe"} ->
                    layer.actorder = "none" \/ InterPP = Inter
               [] OTHER -> ~has_g_idx \/ ~row_parallel
-----------------------------------------------------------------------------
(* process_weights_after_loading, step by step *)

LinearSteps ==
  IF IsAwq THEN <<"loaded", "converted", "fp8", "sorted", "zeros", "packed", "scaled">>
  ELSE <<"loaded", "fp8", "sorted", "zeros", "packed", "scaled">>

\* Mutant of MoeSteps: experts are repacked before their rows are sorted.
MoeStepsPackFirst ==
  IF layer.method = "gptq_moe" THEN <<"loaded", "fp8", "packed", "sorted", "scaled">>
  ELSE <<"loaded", "fp8", "packed", "sorted", "scaled", "zeros">>

MoeSteps ==
  IF layer.method = "gptq_moe" THEN <<"loaded", "fp8", "sorted", "packed", "scaled">>
  ELSE <<"loaded", "fp8", "sorted", "packed", "scaled", "zeros">>

Steps == IF IsMoe THEN MoeSteps ELSE LinearSteps

Due(step) == \E i \in 2 .. Len(Steps) : Steps[i] = step /\ stage = Steps[i-1]
Step(step) == Due(step) /\ stage' = step

\* _convert_awq_to_standard_format
Convert == /\ Step("converted")
           /\ w' = [w EXCEPT !.cols = UndoAwq(@), !.packed = "k"]
           /\ z' = [z EXCEPT !.cols = UndoAwq(@)]
           /\ UNCHANGED <<layer, s, order, given>>

\* MarlinLinearKernel takes 8-bit inputs for symmetric weights only.
Refuse8bit == /\ Due("fp8") /\ ~IsMoe /\ is_a_8bit /\ WeightType # "uint4b8"
              /\ Stop("refused")

\* Mutant of Preprocess: the scales are left as they are.
PreprocessWeightsOnly ==
  /\ Step("fp8")
  /\ IsMoe \/ ~is_a_8bit \/ WeightType = "uint4b8"
  /\ w' = IF layer.act # "fp8" THEN w
          ELSE [w EXCEPT !.enc = IF layer.method = "awq_moe" THEN "fp8-z" ELSE "fp8-8"]
  /\ UNCHANGED <<layer, s, z, order, given>>

\* For fp8 inputs the weights are re-coded less their zero point, which is 8
\* unless the zero points are given, and the scales grow by 512.
Preprocess ==
  /\ Step("fp8")
  /\ IsMoe \/ ~is_a_8bit \/ WeightType = "uint4b8"
  /\ IF layer.act # "fp8" THEN UNCHANGED <<w, s>>
     ELSE /\ w' = [w EXCEPT !.enc = IF layer.method = "awq_moe" THEN "fp8-z" ELSE "fp8-8"]
          /\ s' = [s EXCEPT !.enc = "x512"]
  /\ UNCHANGED <<layer, z, order, given>>

\* argsort; ties in the order of rows.
SortIndices(idx) ==
  LET before(a, b) == idx[a] < idx[b] \/ (idx[a] = idx[b] /\ a < b)
      placed == {<<k, Cardinality({j \in 0 .. size_k-1 : before(j, k)})>> : k \in 0 .. size_k-1}
  IN  [i \in 0 .. size_k-1 |-> (CHOOSE p \in placed : p[2] = i)[1]]

SortOrder ==
  /\ Step("sorted")
  /\ order' = IF has_g_idx
              THEN LET p == SortIndices(order.idx)
                   IN  [idx |-> [k \in 0 .. size_k-1 |-> order.idx[p[k]]], sort |-> p]
              ELSE [idx |-> None, sort |-> None]
  /\ UNCHANGED <<layer, w, s, z, given>>

\* gptq_marlin_repack takes rows packed by eights and sorts them,
\* awq_marlin_repack columns packed by eights.
Repack ==
  /\ Step("packed")
  /\ w' = IF layer.method = "awq_moe"
          THEN [w EXCEPT !.packed = "tiles", !.cols = UndoAwq(@)]
          ELSE [w EXCEPT !.packed = "tiles",
                         !.rows = IF order.sort = None THEN @
                                  ELSE [k \in 0 .. size_k-1 |-> @[order.sort[k]]]]
  /\ UNCHANGED <<layer, s, z, order, given>>

\* The size each method permutes its scales by.  The second dimension of
\* repacked 4-bit weights is twice the output size.
ScaleSizeK ==
  IF ~IsMoe THEN size_k
  ELSE IF layer.method = "awq_moe" THEN InterPP
  ELSE IF layer.product = "w2" THEN GroupsIn(s) * (IF layer.gs = -1 THEN 8 ELSE layer.gs)
  ELSE IF layer.method = "gptq_moe" THEN InterPP
  ELSE IF w.packed = "tiles" THEN 2 * size_n ELSE size_n

\* Several groups of scales become 16-bit integers times one number.
int8_scales ==
  /\ layer.act = "int8"
  /\ IF IsMoe THEN GroupsIn(s) > 1 ELSE layer.gs # -1 /\ size_k \div layer.gs > 1

PermuteScales ==
  /\ Step("scaled")
  /\ s' = [s EXCEPT !.cols = permute_scales(@, ScaleSizeK),
                    !.enc = IF int8_scales THEN "int16" ELSE @]
  /\ UNCHANGED <<layer, w, z, order, given>>

\* unpack_cols asserts the shape the linear kernel expects.
GroupedK == IF layer.gs = -1 THEN 1 ELSE size_k \div layer.gs

RefuseZeros == /\ Due("zeros") /\ ~IsMoe /\ layer.asym /\ GroupsIn(z) # GroupedK
               /\ Stop("refused")

\* The patch converts the zero points of experts for 16-bit inputs always.
ConvertZeros ==
  /\ Step("zeros")
  /\ z' = IF ~layer.asym THEN z
          ELSE CASE layer.method = "awq_moe" -> [z EXCEPT !.cols = zero_points(UndoAwq(@), is_a_8bit)]
                 [] layer.method = "ct_moe"  -> [z EXCEPT !.cols = zero_points(@, FALSE)]
                 [] OTHER -> [z EXCEPT !.cols = zero_points(@, is_a_8bit)]
  /\ ~IsMoe /\ layer.asym => GroupsIn(z) = GroupedK
  /\ UNCHANGED <<layer, w, s, order, given>>
-----------------------------------------------------------------------------
(* The first product *)

Ready == stage = Steps[Len(Steps)]

\* apply_gptq_marlin_linear multiplies by a number a single group has not got.
RefuseApply == /\ Ready /\ ~IsMoe /\ layer.act = "int8" /\ ~int8_scales
               /\ Stop("refused")

\* The modular kernel's quantization config: the type follows from the zero
\* points, and only AWQ's carries the scales' common factor.
ConfigType      == IF layer.asym THEN "uint4" ELSE "uint4b8"
ConfigHasFactor == layer.method = "awq_moe"

Apply ==
  /\ Ready /\ ~(~IsMoe /\ layer.act = "int8" /\ ~int8_scales)
  /\ stage' = "called"
  /\ given' = [zeros  |-> layer.asym,
              type   |-> IF layer.modular THEN ConfigType ELSE WeightType,
              factor |-> int8_scales /\ (layer.modular => ConfigHasFactor)]
  /\ UNCHANGED <<layer, w, s, z, order>>

WeightsNext ==
  \/ Choose \/ CreateWeights \/ Convert \/ Refuse8bit \/ Preprocess \/ SortOrder \/ Repack
  \/ PermuteScales \/ RefuseZeros \/ ConvertZeros \/ RefuseApply \/ Apply

WeightsSpec == WeightsInit /\ [][WeightsNext]_weightsVars
-----------------------------------------------------------------------------
Called == stage = "called"

(* Layers the code gets wrong.  The three properties say that it gets      *)
(* right exactly the others.                                               *)

\* Patched experts with zero points and 8-bit inputs: the zero points are
\* interleaved as for 16-bit inputs, and for fp8 the codes taken for symmetric.
AsymEightBit == layer.method = "ct_moe" /\ layer.asym /\ is_a_8bit

\* actorder "weight" over several ranks: the scales of all groups are loaded,
\* but no g_idx says which of them are the rank's.
OrderWithoutIdx == layer.method = "ct_moe" /\ load_full_w2 /\ ~has_g_idx /\ row_parallel

\* w13's scales are permuted by whether the group is below the intermediate
\* size; the kernel goes by the input, which is the hidden size.
GroupAtInter == /\ layer.method \in {"awq_moe", "gptq_moe"} /\ layer.product = "w13"
                /\ layer.gs >= InterPP /\ GroupsIn(s) > 1 /\ ~is_a_8bit

\* All rows of the rank are one group.  Experts permute the one row of w13's
\* scales as groups, which the kernel takes for a channel; a linear layer with
\* a g_idx permutes the rows of all ranks' groups as a channel.
OneGroup == /\ layer.gs = size_k /\ ~is_a_8bit
            /\ \/ layer.product = "w13" /\ (layer.method = "ct_moe" \/ layer.gs < InterPP)
               \/ ~IsMoe /\ has_g_idx /\ row_parallel

\* Integer scales through a modular kernel whose config has no factor.
LostFactor == layer.method \in {"ct_moe", "gptq_moe"} /\ layer.modular /\ int8_scales

(***************************************************************************)
(* The rank's rows reach the product once each, in the order its inputs    *)
(* are taken; the scale and the zero point the kernel finds for a row, by  *)
(* g_idx or by equal division, are those of the row's group in the         *)
(* checkpoint, wherever the rank's part lies; and the kernel is told that  *)
(* it has all rows only when it has.                                       *)
(***************************************************************************)
RowsMeetGroups ==
  /\ {w.rows[k] : k \in 0 .. size_k-1} = {SourceRow(k) : k \in 0 .. size_k-1}
  /\ \A k \in 0 .. size_k-1 :
       w.rows[k] = SourceRow(IF order.sort # None THEN order.sort[k] ELSE k)
  /\ \A t \in {s} \cup (IF given.zeros THEN {z} ELSE {}) :
       /\ order.idx = None => size_k % GroupsIn(t) = 0
       /\ \A k \in 0 .. size_k-1 :
            GroupRead(t, k) \in DOMAIN t.groups /\ t.groups[GroupRead(t, k)] = GroupOf(w.rows[k])
  /\ is_k_full /\ order.idx # None => ~row_parallel

GroupsMatch == Called => (RowsMeetGroups <=> ~OrderWithoutIdx)

(***************************************************************************)
(* Weights, scales and zero points of one column reach the kernel as that  *)
(* column: through two packing orders, the transposes, the two             *)
(* permutations of scales, of which methods and kernel choose one by       *)
(* different tests, and the interleaving of zero points.                   *)
(***************************************************************************)
ColumnsMeet ==
  /\ w.packed = "tiles" /\ w.cols = Columns
  /\ s.cols = KernelScaleOrder(Columns, GroupsIn(s))
  /\ given.zeros => z.cols = zero_points(Columns, is_a_8bit)

ColumnsMatch == Called => (ColumnsMeet <=> ~(AsymEightBit \/ GroupAtInter \/ OneGroup))

(***************************************************************************)
(* Codes fit together: weights re-coded for fp8 inputs less the right zero *)
(* point, with scales 512 times as large; integer scales, which only       *)
(* grouped int8 products take, with the factor they were divided by; and   *)
(* the weight type and zero points of the checkpoint.                      *)
(***************************************************************************)
CodesFit ==
  /\ given.zeros = layer.asym
  /\ given.type = IF layer.asym THEN "uint4" ELSE "uint4b8"
  /\ w.enc = IF layer.act # "fp8" THEN "int4" ELSE IF layer.asym THEN "fp8-z" ELSE "fp8-8"
  /\ s.enc = CASE layer.act = "fp8" -> "x512"
               [] layer.act = "int8" /\ GroupsIn(s) > 1 -> "int16"
               [] OTHER -> "plain"
  /\ given.factor = (s.enc = "int16")

CodesMatch == Called => (CodesFit <=> ~(LostFactor \/ (AsymEightBit /\ layer.act = "fp8")))
=============================================================================
