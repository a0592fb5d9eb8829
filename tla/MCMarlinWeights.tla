-------------------------- MODULE MCMarlinWeights --------------------------
(***************************************************************************)
(* MarlinWeights for TLC: a hidden size of 256 and an intermediate size of *)
(* 128, and the other way round, over one or two ranks, with groups below, *)
(* at and above a rank's part.                                             *)
(***************************************************************************)
EXTENDS MarlinWeights

Whole == {<<1, 0>>, <<2, 0>>, <<2, 1>>}

AllLayers ==
  {l \in [method : MoeMethods \cup LinearMethods, product : {"w13", "w2", "column", "row"},
          asym : BOOLEAN, gs : {-1, 32, 64, 128}, actorder : {"none", "weight", "group"},
          act : {"none", "int8", "fp8"}, hidden : {128, 256}, inter : {128, 256},
          sm : {80, 121}, tp : {1, 2}, rank : {0, 1}, modular : BOOLEAN] :
     /\ l.hidden # l.inter
     /\ <<l.tp, l.rank>> \in Whole
     /\ l.method \in MoeMethods <=> l.product \in {"w13", "w2"}
     /\ l.modular => l.method # "ct_linear" /\ l.method # "awq_linear"
     /\ l.method \in {"awq_moe", "gptq_moe"} => l.modular
     /\ l.method = "gptq_moe" => ~l.asym /\ l.actorder # "weight"
     /\ l.method \in {"awq_moe", "awq_linear"} => l.actorder = "none"
     /\ l.actorder = "group" => ~l.asym /\ l.gs # -1
     /\ l.sm = 80 => l.act = "fp8"}
=============================================================================
