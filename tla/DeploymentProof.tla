--------------------------- MODULE DeploymentProof ---------------------------
(***************************************************************************)
(* Proofs about the scripts of a deployment.  First PatchInstall: the four *)
(* installers, for any image, any edits that do not fit it and any number  *)
(* of runs, kills and copies that fail.  Then Evaluation, for any set of   *)
(* workers, any bounds on launches and polls, and any number of questions  *)
(* and threads; the launches and the benchmark are independent but for the *)
(* server's answers, so each safety property has an inductive invariant of *)
(* its own.                                                                *)
(***************************************************************************)
EXTENDS Evaluation, PatchInstall, TLAPS

(* The scripts *)

CopyOps == {"install", "copyover", "backup"}
EditOps == {"patch", "replace"}

\* The edits of a step are in a list, under names of their own.
EditsListed(edits) ==
  /\ Len(edits) \in Nat \ {0} /\ DOMAIN edits = 1 .. Len(edits)
  /\ \A p, q \in DOMAIN edits : p # q => edits[p].name # edits[q].name
  /\ \A p \in DOMAIN edits : edits[p].copies \in Nat \ {0}

\* A patch carries its marker; a replacement is guarded by its own mark, or
\* uses up the only copy of its anchor.
PatchMade(step) ==
  /\ step.parseFirst \in BOOLEAN
  /\ \E p \in DOMAIN step.edits : step.marker \in step.edits[p].marks

ReplaceMade(step) ==
  \A p \in DOMAIN step.edits :
    LET e == step.edits[p]
    IN  \/ e.name \in step.guarded /\ step.marker \in e.marks
        \/ ~e.keeps /\ e.copies = 1

StepMade(step) ==
  /\ step.op \in CopyOps \cup EditOps \cup {"check"}
  /\ step.op \in EditOps => EditsListed(step.edits)
  /\ step.op = "patch" => PatchMade(step)
  /\ step.op = "replace" => ReplaceMade(step)

\* Two patches of one file, the earlier one first: they make different
\* edits, and the earlier one does not bring the later one's marker.
PatchesApart(a, b) ==
  /\ a.op = "patch" /\ b.op = "patch"
  /\ \A d \in Edits(a), e \in Edits(b) : d.name # e.name
  /\ \A d \in Edits(a) : b.marker \notin d.marks

\* What the proofs use of the order of a script's steps.
Orderly(t) ==
  /\ Len(t) \in Nat \ {0} /\ DOMAIN t = 1 .. Len(t)
  /\ \A i \in DOMAIN t : StepMade(t[i])
  /\ \A i, j \in DOMAIN t :
       i < j /\ t[i].op \in EditOps /\ t[j].op \in EditOps /\ t[i].file = t[j].file
         => PatchesApart(t[i], t[j])
  /\ \A i, j \in DOMAIN t :
       i < j /\ t[j].op \in CopyOps /\ t[i].op \in EditOps \cup {"install", "backup"}
         => t[i].file # t[j].file
  /\ \A i \in DOMAIN t : t[i].op = "check" => i = Len(t)
  /\ \A i, j \in DOMAIN t : t[i].op \in EditOps /\ t[j].op \in {"install", "backup"}
       => t[i].file # t[j].file
  /\ \A i, j \in DOMAIN t : t[i].op \in EditOps /\ t[j].op = "copyover" /\ t[i].file = t[j].file
       => t[i].file = "flashmla_sparse"
  /\ \A i \in DOMAIN t : t[i].op = "patch" /\ ~t[i].parseFirst
       => \E j \in DOMAIN t : t[j].op = "check" /\ t[i].file \in t[j].files
  /\ \A i \in DOMAIN t : t[i].op = "check"
       => \A f \in t[i].files : \E j \in DOMAIN t : t[j].op \in EditOps /\ t[j].file = f

\* Which script has which steps.
Scripted(s, t) ==
  /\ \A i \in DOMAIN t : t[i].op = "install" => s = "sm12x"
  /\ \A i \in DOMAIN t : t[i].op = "copyover" => s = "nvfp4"
  /\ \A i \in DOMAIN t : t[i].op = "backup"
        => s = "asym" /\ t[i].file = "ct_moe.orig" /\ t[i].of = "ct_moe"
  /\ \A i \in DOMAIN t : t[i].op = "replace" <=> s = "sglang"
  /\ s = "asym" => /\ DOMAIN t = 1 .. 3
                   /\ t[1].op = "backup"
                   /\ t[2].op = "patch" /\ t[2].file = "ct_moe"
                   /\ t[3].op = "check"
LEMMA ListsOfEdits ==
  /\ EditsListed(DeepGemmEdits) /\ DeepGemmEdits[1].marks = GLM
  /\ EditsListed(GateEdits) /\ GateEdits[1].marks = GLM
  /\ EditsListed(FlashmlaEdits) /\ FlashmlaEdits[1].marks = NV
  /\ EditsListed(CacheEdits) /\ CacheEdits[1].marks = NV
  /\ EditsListed(QuantModeEdits) /\ QuantModeEdits[1].marks = NV
  /\ EditsListed(PageSizeEdits) /\ PageSizeEdits[1].marks = NV \cup {"times_416"}
  /\ EditsListed(TorchUtilsEdits) /\ TorchUtilsEdits[1].marks = NV
  /\ EditsListed(MlaAttentionEdits) /\ MlaAttentionEdits[1].marks = NV
  /\ EditsListed(BackendEdits) /\ BackendEdits[1].marks = NV \cup {"nvfp4_ds_mla_store"}
  /\ EditsListed(AsymEdits) /\ AsymEdits[3].marks = {"ASYM_MOE_PATCH_APPLIED"}
<1> USE DEF EditsListed, Inserts, Replaces
<1>1. EditsListed(DeepGemmEdits) /\ DeepGemmEdits[1].marks = GLM
  BY DEF DeepGemmEdits
<1>2. EditsListed(GateEdits) /\ GateEdits[1].marks = GLM
  BY DEF GateEdits
<1>3. EditsListed(FlashmlaEdits) /\ FlashmlaEdits[1].marks = NV
  BY DEF FlashmlaEdits
<1>4. EditsListed(CacheEdits) /\ CacheEdits[1].marks = NV
  BY DEF CacheEdits
<1>5. EditsListed(QuantModeEdits) /\ QuantModeEdits[1].marks = NV
  BY DEF QuantModeEdits
<1>6. EditsListed(PageSizeEdits) /\ PageSizeEdits[1].marks = NV \cup {"times_416"}
  <2>1. PICK M : M = NV \cup {"times_416"}
    OBVIOUS
  <2>2. PageSizeEdits = << Replaces("mla_page", M), Replaces("swa_page", M) >>
    BY <2>1 DEF PageSizeEdits
  <2>3. EditsListed(PageSizeEdits) /\ PageSizeEdits[1].marks = M
    BY <2>2
  <2> QED BY <2>1, <2>3
<1>7. EditsListed(TorchUtilsEdits) /\ TorchUtilsEdits[1].marks = NV
  BY DEF TorchUtilsEdits
<1>8. EditsListed(MlaAttentionEdits) /\ MlaAttentionEdits[1].marks = NV
  BY DEF MlaAttentionEdits
<1>9. EditsListed(BackendEdits) /\ BackendEdits[1].marks = NV \cup {"nvfp4_ds_mla_store"}
  <2>1. PICK M : M = NV \cup {"nvfp4_ds_mla_store"}
    OBVIOUS
  <2> DEFINE e == [Replaces("store", M) EXCEPT !.copies = 2]
  <2>2. e.name = "store" /\ e.marks = M /\ e.copies = 2
    OBVIOUS
  <2>3. BackendEdits = << e >>
    BY <2>1 DEF BackendEdits
  <2> HIDE DEF e
  <2>4. EditsListed(BackendEdits) /\ BackendEdits[1].marks = M
    BY <2>2, <2>3
  <2> QED BY <2>1, <2>4
<1>10. EditsListed(AsymEdits) /\ AsymEdits[3].marks = {"ASYM_MOE_PATCH_APPLIED"}
  BY DEF AsymEdits
<1> QED BY <1>1, <1>2, <1>3, <1>4, <1>5, <1>6, <1>7, <1>8, <1>9, <1>10

LEMMA PatchIsMade ==
  ASSUME NEW file, NEW marker, NEW edits, EditsListed(edits), marker \in edits[1].marks
  PROVE  StepMade(Patch(file, marker, edits))
<1>1. 1 \in DOMAIN edits
  BY DEF EditsListed
<1> QED BY <1>1 DEF Patch, StepMade, PatchMade, CopyOps, EditOps

LEMMA OthersAreMade ==
  ASSUME NEW file, NEW of
  PROVE  /\ StepMade(Install(file)) /\ StepMade(CopyOver(file))
         /\ StepMade(Backup(file, of)) /\ StepMade(Check(file))
BY DEF Install, CopyOver, Backup, Check, StepMade, CopyOps, EditOps

LEMMA Sm12xIsOrderly == Orderly(Sm12xSteps) /\ Scripted("sm12x", Sm12xSteps)
<1> DEFINE t == Sm12xSteps
<1>1. /\ Len(t) = 6 /\ DOMAIN t = 1 .. 6
      /\ t[1] = Install("sm12x_mqa") /\ t[2] = Install("fallbacks") /\ t[3] = Install("b12x_helpers")
      /\ t[4] = Patch("deep_gemm", "GLM52_SM12X_SPARSE", DeepGemmEdits)
      /\ t[5] = Patch("sparse_attn_indexer", "GLM52_SM12X_SPARSE", GateEdits)
      /\ t[6] = Check({"deep_gemm", "sparse_attn_indexer"})
  BY DEF Sm12xSteps
<1> HIDE DEF t
<1>2. /\ t[1].op = "install" /\ t[1].file = "sm12x_mqa"
      /\ t[2].op = "install" /\ t[2].file = "fallbacks"
      /\ t[3].op = "install" /\ t[3].file = "b12x_helpers"
      /\ t[4].op = "patch" /\ t[4].file = "deep_gemm" /\ t[4].parseFirst
      /\ t[5].op = "patch" /\ t[5].file = "sparse_attn_indexer" /\ t[5].parseFirst
      /\ t[6].op = "check" /\ t[6].files = {"deep_gemm", "sparse_attn_indexer"}
  BY <1>1 DEF Install, Patch, Check
<1>3. ASSUME NEW i \in DOMAIN t PROVE StepMade(t[i])
  <2>1. i \in {1, 2, 3, 4, 5, 6}
    BY <1>1
  <2>2. EditsListed(DeepGemmEdits) /\ "GLM52_SM12X_SPARSE" \in DeepGemmEdits[1].marks
    BY ListsOfEdits DEF GLM
  <2>3. EditsListed(GateEdits) /\ "GLM52_SM12X_SPARSE" \in GateEdits[1].marks
    BY ListsOfEdits DEF GLM
  <2>4. StepMade(t[4]) /\ StepMade(t[5])
    BY <1>1, <2>2, <2>3, PatchIsMade
  <2>5. StepMade(t[1]) /\ StepMade(t[2]) /\ StepMade(t[3]) /\ StepMade(t[6])
    BY <1>1, OthersAreMade
  <2> QED BY <2>1, <2>4, <2>5
<1>4. ASSUME NEW i \in DOMAIN t, NEW j \in DOMAIN t
      PROVE  /\ i < j /\ t[i].op \in EditOps /\ t[j].op \in EditOps => t[i].file # t[j].file
             /\ i < j /\ t[j].op \in CopyOps /\ t[i].op \in EditOps \cup {"install", "backup"}
                  => t[i].file # t[j].file
             /\ t[i].op \in EditOps /\ t[j].op \in CopyOps => t[i].file # t[j].file
  BY <1>1, <1>2 DEF CopyOps, EditOps
<1>5. ASSUME NEW i \in DOMAIN t
      PROVE  /\ t[i].op = "check" => i = Len(t)
             /\ t[i].op = "patch" => t[i].parseFirst
             /\ t[i].op = "check"
                  => \A f \in t[i].files : \E j \in DOMAIN t : t[j].op \in EditOps /\ t[j].file = f
  BY <1>1, <1>2 DEF CopyOps, EditOps
<1>6. Len(t) \in Nat \ {0} /\ DOMAIN t = 1 .. Len(t)
  BY <1>1
<1>7. ASSUME NEW i \in DOMAIN t, NEW j \in DOMAIN t
      PROVE  /\ i < j /\ t[i].op \in EditOps /\ t[j].op \in EditOps /\ t[i].file = t[j].file
                  => PatchesApart(t[i], t[j])
             /\ t[i].op \in EditOps /\ t[j].op \in {"install", "backup"} => t[i].file # t[j].file
             /\ t[i].op \in EditOps /\ t[j].op = "copyover" /\ t[i].file = t[j].file
                  => t[i].file = "flashmla_sparse"
  BY <1>4 DEF CopyOps
<1> HIDE DEF t
<1>8. Orderly(t)
  BY <1>3, <1>4, <1>5, <1>6, <1>7 DEF Orderly
<1>9. Scripted("sm12x", t)
  BY <1>1, <1>2 DEF Scripted
<1> QED BY <1>8, <1>9 DEF t

LEMMA Nvfp4IsOrderly == Orderly(Nvfp4Steps) /\ Scripted("nvfp4", Nvfp4Steps)
<1> DEFINE t == Nvfp4Steps
           n == "nvfp4_ds_mla"
           page == "times_416"
           store == "nvfp4_ds_mla_store"
<1>1. /\ Len(t) = 10 /\ DOMAIN t = 1 .. 10
      /\ t[1] = CopyOver("sm12x_sparse_mla_attn") /\ t[2] = CopyOver("flashmla_sparse")
      /\ t[3] = Patch("flashmla_sparse", n, FlashmlaEdits)
      /\ t[4] = Patch("cache", n, CacheEdits)
      /\ t[5] = Patch("kv_cache_interface", n, QuantModeEdits)
      /\ t[6] = Patch("kv_cache_interface", page, PageSizeEdits)
      /\ t[7] = Patch("torch_utils", n, TorchUtilsEdits)
      /\ t[8] = Patch("mla_attention", n, MlaAttentionEdits)
      /\ t[9] = Patch("backend", store, BackendEdits)
      /\ t[10] = Check({"cache", "kv_cache_interface"})
  BY DEF Nvfp4Steps
<1> HIDE DEF t
<1>2. /\ t[1].op = "copyover" /\ t[1].file = "sm12x_sparse_mla_attn"
      /\ t[2].op = "copyover" /\ t[2].file = "flashmla_sparse"
      /\ t[3].op = "patch" /\ t[3].file = "flashmla_sparse"
      /\ t[4].op = "patch" /\ t[4].file = "cache"
      /\ t[5].op = "patch" /\ t[5].file = "kv_cache_interface"
      /\ t[6].op = "patch" /\ t[6].file = "kv_cache_interface"
      /\ t[7].op = "patch" /\ t[7].file = "torch_utils"
      /\ t[8].op = "patch" /\ t[8].file = "mla_attention"
      /\ t[9].op = "patch" /\ t[9].file = "backend"
      /\ t[10].op = "check" /\ t[10].files = {"cache", "kv_cache_interface"}
  BY <1>1 DEF CopyOver, Patch, Check
<1>3. /\ t[3].parseFirst /\ t[4].parseFirst /\ t[5].parseFirst /\ t[6].parseFirst
      /\ t[7].parseFirst /\ t[8].parseFirst /\ t[9].parseFirst
  BY <1>1 DEF Patch
<1>4. ASSUME NEW i \in DOMAIN t PROVE StepMade(t[i])
  <2>1. i \in {1, 2, 3, 4, 5, 6, 7, 8, 9, 10}
    BY <1>1
  <2>2. StepMade(t[1]) /\ StepMade(t[2]) /\ StepMade(t[10])
    BY <1>1, OthersAreMade
  <2>3. /\ EditsListed(FlashmlaEdits) /\ n \in FlashmlaEdits[1].marks
        /\ EditsListed(CacheEdits) /\ n \in CacheEdits[1].marks
        /\ EditsListed(QuantModeEdits) /\ n \in QuantModeEdits[1].marks
    BY ListsOfEdits DEF NV
  <2>4. /\ EditsListed(PageSizeEdits) /\ page \in PageSizeEdits[1].marks
        /\ EditsListed(TorchUtilsEdits) /\ n \in TorchUtilsEdits[1].marks
        /\ EditsListed(MlaAttentionEdits) /\ n \in MlaAttentionEdits[1].marks
        /\ EditsListed(BackendEdits) /\ store \in BackendEdits[1].marks
    BY ListsOfEdits DEF NV
  <2>5. StepMade(t[3]) /\ StepMade(t[4]) /\ StepMade(t[5])
    BY <1>1, <2>3, PatchIsMade
  <2>6. StepMade(t[6]) /\ StepMade(t[7]) /\ StepMade(t[8]) /\ StepMade(t[9])
    BY <1>1, <2>4, PatchIsMade
  <2> QED BY <2>1, <2>2, <2>5, <2>6
<1>5. PatchesApart(t[5], t[6])
  <2>1. Edits(t[5]) = {Inserts("quant_mode", NV)}
    <3>1. t[5].edits = QuantModeEdits
      BY <1>1 DEF Patch
    <3> QED BY <3>1 DEF Edits, QuantModeEdits
  <2>2. \A e \in Edits(t[6]) : e.name \in {"mla_page", "swa_page"}
    <3>1. t[6].edits = PageSizeEdits
      BY <1>1 DEF Patch
    <3>2. DOMAIN PageSizeEdits = {1, 2}
      BY DEF PageSizeEdits
    <3>3. PageSizeEdits[1].name = "mla_page" /\ PageSizeEdits[2].name = "swa_page"
      <4>1. PICK M : M = NV \cup {"times_416"}
        OBVIOUS
      <4> QED BY <4>1 DEF PageSizeEdits, Replaces
    <3> QED BY <3>1, <3>2, <3>3 DEF Edits
  <2>3. t[6].marker = page /\ page # "nvfp4_ds_mla"
    BY <1>1 DEF Patch
  <2> QED BY <1>2, <2>1, <2>2, <2>3 DEF PatchesApart, Inserts, NV
<1>6. ASSUME NEW i \in DOMAIN t, NEW j \in DOMAIN t, i < j
      PROVE  /\ t[i].op \in EditOps /\ t[j].op \in EditOps /\ t[i].file = t[j].file => i = 5 /\ j = 6
             /\ t[j].op \in CopyOps /\ t[i].op \in EditOps \cup {"install", "backup"}
                  => t[i].file # t[j].file
  <2>1. ASSUME NEW x \in DOMAIN t
        PROVE  /\ t[x].op \in EditOps <=> x \in 3 .. 9
               /\ t[x].op \in CopyOps <=> x \in {1, 2}
               /\ t[x].op \notin {"install", "backup"}
    BY <1>1, <1>2 DEF CopyOps, EditOps
  <2>2. ASSUME i \in 3 .. 9, j \in 3 .. 9, t[i].file = t[j].file PROVE i = 5 /\ j = 6
    <3>1. i \in {3, 4, 5, 6, 7, 8, 9} /\ j \in {3, 4, 5, 6, 7, 8, 9}
      BY <2>2
    <3>2. ASSUME NEW x \in {3, 4, 5, 6, 7, 8, 9}
          PROVE  t[x].file = "kv_cache_interface" <=> x \in {5, 6}
      BY <1>2
    <3>3. CASE t[i].file = "kv_cache_interface"
      <4>1. i \in {5, 6} /\ j \in {5, 6}
        BY <2>2, <3>1, <3>2, <3>3
      <4> QED BY <1>6, <4>1
    <3>4. CASE t[i].file # "kv_cache_interface"
      <4>1. i \in {3, 4, 7, 8, 9} /\ j \in {3, 4, 7, 8, 9}
        BY <2>2, <3>1, <3>2, <3>4
      <4> QED BY <1>2, <1>6, <2>2, <4>1
    <3> QED BY <3>3, <3>4
  <2> QED BY <1>1, <1>6, <2>1, <2>2
<1>7. ASSUME NEW i \in DOMAIN t, NEW j \in DOMAIN t
      PROVE  /\ t[j].op \notin {"install", "backup"}
             /\ t[i].op \in EditOps /\ t[j].op = "copyover" /\ t[i].file = t[j].file
                  => t[i].file = "flashmla_sparse"
  BY <1>1, <1>2 DEF CopyOps, EditOps
<1>8. ASSUME NEW i \in DOMAIN t
      PROVE  /\ t[i].op = "check" => i = Len(t)
             /\ t[i].op = "patch" => t[i].parseFirst
             /\ t[i].op = "check"
                  => \A f \in t[i].files : \E j \in DOMAIN t : t[j].op \in EditOps /\ t[j].file = f
  BY <1>1, <1>2, <1>3 DEF CopyOps, EditOps
<1>9. Len(t) \in Nat \ {0} /\ DOMAIN t = 1 .. Len(t)
  BY <1>1
<1>10. Orderly(t)
  BY <1>4, <1>5, <1>6, <1>7, <1>8, <1>9 DEF Orderly
<1>11. Scripted("nvfp4", t)
  BY <1>1, <1>2 DEF Scripted
<1> QED BY <1>10, <1>11 DEF t

LEMMA AsymIsOrderly == Orderly(AsymSteps) /\ Scripted("asym", AsymSteps)
<1> DEFINE t == AsymSteps
<1>1. /\ Len(t) = 3 /\ DOMAIN t = 1 .. 3
      /\ t[1] = Backup("ct_moe.orig", "ct_moe") /\ t[2] = AsymPatch /\ t[3] = Check({"ct_moe"})
  BY DEF AsymSteps
<1> HIDE DEF t
<1>2. /\ AsymPatch.op = "patch" /\ AsymPatch.file = "ct_moe" /\ AsymPatch.edits = AsymEdits
      /\ AsymPatch.marker = "ASYM_MOE_PATCH_APPLIED" /\ AsymPatch.parseFirst = FALSE
  BY DEF AsymPatch, Patch
<1>3. /\ t[1].op = "backup" /\ t[1].file = "ct_moe.orig"
      /\ t[2].op = "patch" /\ t[2].file = "ct_moe"
      /\ t[3].op = "check" /\ t[3].files = {"ct_moe"}
  BY <1>1, <1>2 DEF Backup, Check
<1>4. ASSUME NEW i \in DOMAIN t PROVE StepMade(t[i])
  <2>1. i \in {1, 2, 3}
    BY <1>1
  <2>2. StepMade(t[1]) /\ StepMade(t[3])
    BY <1>1, OthersAreMade
  <2>3. 3 \in DOMAIN AsymEdits
    BY DEF AsymEdits
  <2>4. StepMade(AsymPatch)
    BY <1>2, <2>3, ListsOfEdits DEF StepMade, PatchMade, CopyOps, EditOps
  <2> QED BY <1>1, <2>1, <2>2, <2>4
<1>5. ASSUME NEW i \in DOMAIN t, NEW j \in DOMAIN t
      PROVE  /\ i < j => ~(t[i].op \in EditOps /\ t[j].op \in EditOps)
             /\ i < j => t[j].op \notin CopyOps
             /\ t[i].op \in EditOps /\ t[j].op \in CopyOps => t[i].file # t[j].file
             /\ t[j].op # "copyover"
  BY <1>1, <1>3 DEF CopyOps, EditOps
<1>6. ASSUME NEW i \in DOMAIN t
      PROVE  /\ t[i].op = "check" => i = Len(t)
             /\ t[i].op = "patch" => \E j \in DOMAIN t : t[j].op = "check" /\ t[i].file \in t[j].files
             /\ t[i].op = "check"
                  => \A f \in t[i].files : \E j \in DOMAIN t : t[j].op \in EditOps /\ t[j].file = f
  BY <1>1, <1>3 DEF CopyOps, EditOps
<1>7. Len(t) \in Nat \ {0} /\ DOMAIN t = 1 .. Len(t)
  BY <1>1
<1>8. ASSUME NEW i \in DOMAIN t, NEW j \in DOMAIN t
      PROVE  t[i].op \in EditOps /\ t[j].op \in {"install", "backup"} => t[i].file # t[j].file
  BY <1>5 DEF CopyOps
<1>9. Orderly(t)
  BY <1>4, <1>5, <1>6, <1>7, <1>8 DEF Orderly
<1>10. Scripted("asym", t)
  <2>1. t[1].of = "ct_moe"
    BY <1>1 DEF Backup
  <2> QED BY <1>1, <1>3, <2>1 DEF Scripted
<1> QED BY <1>9, <1>10 DEF t

LEMMA SglangIsOrderly == Orderly(SglangSteps) /\ Scripted("sglang", SglangSteps)
<1> DEFINE t == SglangSteps
           l == << Inserts("detect", SM121), Replaces("route", SM121) >>
<1>1. /\ Len(t) = 1 /\ DOMAIN t = 1 .. 1
      /\ t[1].op = "replace" /\ t[1].guarded = {"detect"} /\ t[1].marker = "_is_sm121a"
      /\ t[1].edits = l
  BY DEF SglangSteps
<1>2. /\ Len(l) = 2 /\ DOMAIN l = 1 .. 2 /\ l[1] = Inserts("detect", SM121)
      /\ l[2] = Replaces("route", SM121)
  OBVIOUS
<1> HIDE DEF t, l
<1>3. /\ l[1].name = "detect" /\ l[1].copies = 1 /\ "_is_sm121a" \in l[1].marks
      /\ l[2].name = "route" /\ ~l[2].keeps /\ l[2].copies = 1
  BY <1>2 DEF Inserts, Replaces, SM121
<1>4. EditsListed(l)
  BY <1>2, <1>3 DEF EditsListed
<1>5. ReplaceMade(t[1])
  BY <1>1, <1>2, <1>3 DEF ReplaceMade
<1>6. \A i \in DOMAIN t : i = 1
  BY <1>1
<1>7. StepMade(t[1])
  BY <1>1, <1>4, <1>5 DEF StepMade, CopyOps, EditOps
<1>8. Orderly(t)
  BY <1>1, <1>6, <1>7 DEF Orderly, CopyOps
<1>9. Scripted("sglang", t)
  BY <1>1, <1>6 DEF Scripted
<1> QED BY <1>8, <1>9 DEF t

LEMMA StepsAre ==
  ASSUME script \in Scripts
  PROVE  Orderly(Steps) /\ Scripted(script, Steps)
<1>1. CASE script = "sm12x"
  BY <1>1, Sm12xIsOrderly DEF Steps, StepsOf
<1>2. CASE script = "nvfp4"
  BY <1>2, Nvfp4IsOrderly DEF Steps, StepsOf
<1>3. CASE script = "asym"
  BY <1>3, AsymIsOrderly DEF Steps, StepsOf
<1>4. CASE script = "sglang"
  BY <1>4, SglangIsOrderly DEF Steps, StepsOf
<1> QED BY <1>1, <1>2, <1>3, <1>4 DEF Scripts
-----------------------------------------------------------------------------
(* What installers keep.  The operators are given the files, the text in   *)
(* memory and the place in the script, so that a step is two uses of them; *)
(* the script, the layout and the image never change.                      *)

IsText(x) == /\ DOMAIN x = {"state", "from", "has"}
             /\ x.state \in {"absent", "empty", "whole"}
             /\ \A e \in DOMAIN x.has : x.has[e] \in 0 .. 1

Bare(x)       == \A e \in DOMAIN x.has : x.has[e] = 0
Made(x, s)    == \A e \in Edits(s) : x.has[e.name] = 1
Unmade(x, s)  == \A e \in Edits(s) : x.has[e.name] = 0
ParsesBy(x, s) == \A e \in Edits(s) : x.has[e.name] > 0 => image[e.name] # "breaks"

PatchesOf(f) == {i \in DOMAIN Steps : Steps[i].op = "patch" /\ Steps[i].file = f}

\* A patch is made as a whole, after those that come before it, and a text
\* that was parsed before it was written parses.
WholeInOrder(x, f) ==
  /\ \A i \in PatchesOf(f) : Made(x, Steps[i]) \/ Unmade(x, Steps[i])
  /\ \A i, j \in PatchesOf(f) : i < j /\ Made(x, Steps[j]) => Made(x, Steps[i])
  /\ \A i \in PatchesOf(f) : Steps[i].parseFirst => ParsesBy(x, Steps[i])

IsEdited(x, f) == /\ DOMAIN x.has = Names(script, f)
                  /\ x.state # "absent"
                  /\ x.state # "whole" => Bare(x)

Fixed == /\ script \in Scripts /\ layout \in Layouts
         /\ \A f \in Files(script) : Names(script, f) \subseteq DOMAIN image
         /\ carries => /\ script = "nvfp4"
                       /\ \A e \in Names(script, "flashmla_sparse") : image[e] = "fits"

DiskInv(d) == /\ DOMAIN d = Files(script)
              /\ \A f \in Files(script) : IsText(d[f])
              /\ \A f \in EditedFiles : IsEdited(d[f], f) /\ WholeInOrder(d[f], f)

PlaceInv(r, w, a, q) ==
  /\ r \in 0 .. MaxRuns
  /\ w \in {"idle", "step", "copy", "edit", "write", "done", "failed"}
  /\ a \in 1 .. Len(Steps) + 1 /\ q \in Nat \ {0}
  /\ w = "copy" => a <= Len(Steps) /\ Steps[a].op \in CopyOps
  /\ w \in {"edit", "write"} => a <= Len(Steps) /\ Steps[a].op \in EditOps
  /\ w = "done" => a = Len(Steps) + 1

\* While a patch is made, the file has none of it, and memory its first edits.
EditInv(d, m, s, q) ==
  LET f == s.file
  IN  /\ IsText(m) /\ IsEdited(m, f) /\ m.state = d[f].state
      /\ q <= Len(s.edits) + 1
      /\ s.op = "patch" =>
           /\ Unmade(d[f], s)
           /\ \A p \in DOMAIN s.edits : m.has[s.edits[p].name] = IF p < q THEN 1 ELSE 0
           /\ \A n \in Names(script, f) \ {e.name : e \in Edits(s)} : m.has[n] = d[f].has[n]
           /\ q > 1 => m.state = "whole"

\* Between opening a file and writing it, the text in memory is complete.
WriteInv(d, m, s) ==
  LET f == s.file
  IN  /\ IsText(m) /\ IsEdited(m, f) /\ WholeInOrder(m, f)
      /\ d[f].state = "empty"
      /\ s.op = "patch" => m.state = "whole" /\ Made(m, s)

\* The files as they are once the text in memory is written.
Pending(d, m, w, a) == IF w = "write" THEN [d EXCEPT ![Steps[a].file] = m] ELSE d

\* What the steps that were passed have left in them.
StepDone(d, s) ==
  /\ s.op = "patch"   => Made(d[s.file], s) /\ d[s.file].state = "whole"
  /\ s.op = "install" => d[s.file].state = "whole" /\ d[s.file].from = "repo"
  /\ s.op = "check"   => \A f \in s.files : Parses(d[f])

PassedInv(d, a) == \A i \in DOMAIN Steps : i < a => StepDone(d, Steps[i])

CauseIn(d, a) ==
  \/ \E e \in DOMAIN image : image[e] # "fits"
  \/ a <= Len(Steps) /\ Steps[a].op \in {"install", "copyover"}
  \/ \E f \in EditedFiles : d[f].state = "empty"

Pristine(x) == x.state = "whole" /\ Bare(x)

\* A backup that is the file as shipped.
Kept(x) == x.state = "whole" /\ \A e \in Names(script, "ct_moe") : x.has[e] = 0

\* As long as no backup has failed or was cut short: the original is in its
\* place or kept, a backup is all there but while it is copied, and it is
\* there once a run has passed its first step.
BackupInv(d, w, a, u) ==
  script = "asym" /\ ~u =>
    /\ Pristine(d["ct_moe"]) \/ Kept(d["ct_moe.orig"])
    /\ d["ct_moe.orig"].state = "whole" => Kept(d["ct_moe.orig"])
    /\ IF w = "copy" THEN Pristine(d["ct_moe"]) ELSE d["ct_moe.orig"].state # "empty"
    /\ w \notin {"idle", "copy", "failed"} /\ a >= 2 => d["ct_moe.orig"].state # "absent"

StateInv(d, m, r, w, a, q, u) ==
  /\ DiskInv(d)
  /\ PlaceInv(r, w, a, q)
  /\ w = "edit"  => EditInv(d, m, Steps[a], q)
  /\ w = "write" => WriteInv(d, m, Steps[a])
  /\ w \notin {"idle", "failed"} => PassedInv(Pending(d, m, w, a), a)
  /\ w = "failed" => CauseIn(d, a)
  /\ u \in BOOLEAN /\ BackupInv(d, w, a, u)

InstallInv == Fixed /\ StateInv(disk, mem, runs, doing, at, k, unbacked)
-----------------------------------------------------------------------------
(* The steps of the script at hand *)

LEMMA StepsLaid ==
  ASSUME Fixed
  PROVE  /\ Orderly(Steps) /\ Scripted(script, Steps)
         /\ Len(Steps) \in Nat \ {0} /\ DOMAIN Steps = 1 .. Len(Steps)
BY StepsAre DEF Fixed, Orderly

LEMMA FilesAre ==
  ASSUME Fixed
  PROVE  /\ \A i \in DOMAIN Steps : Steps[i].op \in CopyOps => Steps[i].file \in Files(script)
         /\ \A i \in DOMAIN Steps : Steps[i].op \in EditOps =>
              /\ Steps[i].file \in EditedFiles
              /\ \A e \in Edits(Steps[i]) : /\ e \in EditsIn(script, Steps[i].file)
                                            /\ e.name \in Names(script, Steps[i].file)
         /\ \A f \in EditedFiles : /\ f \in Files(script)
                                   /\ \E i \in DOMAIN Steps :
                                        Steps[i].op \in EditOps /\ Steps[i].file = f
         /\ \A f : \A e \in EditsIn(script, f) :
              \E i \in DOMAIN Steps : /\ Steps[i].op \in EditOps /\ Steps[i].file = f
                                      /\ e \in Edits(Steps[i])
         /\ \A f : \A n \in Names(script, f) : \E e \in EditsIn(script, f) : e.name = n
         /\ \A f : Names(script, f) # {} => f \in EditedFiles
<1>1. Editing(script) = {Steps[i] : i \in {j \in DOMAIN Steps : Steps[j].op \in EditOps}}
  BY DEF Editing, StepSet, Steps, EditOps
<1>2. Copying(script) = {Steps[i] : i \in {j \in DOMAIN Steps : Steps[j].op \in CopyOps}}
  BY DEF Copying, StepSet, Steps, CopyOps
<1>3. \A f : \A e : e \in EditsIn(script, f) <=>
        \E i \in DOMAIN Steps : /\ Steps[i].op \in EditOps /\ Steps[i].file = f
                                /\ e \in Edits(Steps[i])
  BY <1>1 DEF EditsIn
<1>4. \A f : \A n : n \in Names(script, f) <=> \E e \in EditsIn(script, f) : e.name = n
  BY DEF Names
<1>5. \A i \in DOMAIN Steps : Steps[i].op \in CopyOps => Steps[i].file \in Files(script)
  BY <1>2 DEF Files
<1>6. \A f \in EditedFiles : /\ f \in Files(script)
                             /\ \E i \in DOMAIN Steps : Steps[i].op \in EditOps /\ Steps[i].file = f
  BY <1>1 DEF Files, EditedFiles
<1>7. \A i \in DOMAIN Steps : Steps[i].op \in EditOps =>
              /\ Steps[i].file \in EditedFiles
              /\ \A e \in Edits(Steps[i]) : /\ e \in EditsIn(script, Steps[i].file)
                                            /\ e.name \in Names(script, Steps[i].file)
  BY <1>1, <1>3, <1>4 DEF EditedFiles
<1>8. \A f : Names(script, f) # {} => f \in EditedFiles
  BY <1>3, <1>4, <1>7
<1> HIDE DEF Edits
<1> QED BY <1>3, <1>4, <1>5, <1>6, <1>7, <1>8

LEMMA StepIsMade ==
  ASSUME Fixed, NEW i \in DOMAIN Steps
  PROVE  /\ Steps[i].op \in CopyOps \cup EditOps \cup {"check"}
         /\ Steps[i].op \in EditOps =>
              /\ EditsListed(Steps[i].edits)
              /\ Edits(Steps[i]) = {Steps[i].edits[p] : p \in DOMAIN Steps[i].edits}
              /\ Edits(Steps[i]) # {}
         /\ Steps[i].op = "patch" => PatchMade(Steps[i]) /\ Strict
         /\ Steps[i].op = "replace" => ReplaceMade(Steps[i]) /\ ~Strict
<1>1. StepMade(Steps[i]) /\ (Steps[i].op = "replace" <=> ~Strict)
  BY StepsLaid DEF Orderly, Scripted, Strict
<1>2. ASSUME Steps[i].op \in EditOps PROVE Edits(Steps[i]) # {}
  <2>1. 1 \in DOMAIN Steps[i].edits
    BY <1>1, <1>2 DEF StepMade, EditsListed
  <2> QED BY <2>1 DEF Edits
<1> QED BY <1>1, <1>2 DEF StepMade, Edits

\* Two patches of a file are apart; a replacement has its file for itself.
LEMMA PatchesAreApart ==
  ASSUME Fixed, NEW i \in DOMAIN Steps, NEW j \in DOMAIN Steps, i # j,
         Steps[i].op \in EditOps, Steps[j].op \in EditOps, Steps[i].file = Steps[j].file
  PROVE  /\ Steps[i].op = "patch" /\ Steps[j].op = "patch"
         /\ \A d \in Edits(Steps[i]), e \in Edits(Steps[j]) : d.name # e.name
         /\ i < j => \A d \in Edits(Steps[i]) : Steps[j].marker \notin d.marks
<1>1. i \in Nat /\ j \in Nat
  BY StepsLaid
<1>2. CASE i < j
  <2>1. PatchesApart(Steps[i], Steps[j])
    BY <1>2, StepsLaid DEF Orderly
  <2> QED BY <2>1 DEF PatchesApart
<1>3. CASE j < i
  <2>1. PatchesApart(Steps[j], Steps[i])
    BY <1>3, StepsLaid DEF Orderly
  <2> QED BY <1>1, <1>3, <2>1 DEF PatchesApart
<1> QED BY <1>1, <1>2, <1>3
-----------------------------------------------------------------------------
(* Texts *)

LEMMA EmptiedIs ==
  ASSUME NEW x, IsText(x)
  PROVE  /\ IsText(Emptied(x)) /\ Emptied(x).state = "empty" /\ Bare(Emptied(x))
         /\ DOMAIN Emptied(x).has = DOMAIN x.has
<1> DEFINE none == [e \in DOMAIN x.has |-> 0]
<1>1. DOMAIN x = {"state", "from", "has"}
  BY DEF IsText
<1>2. Emptied(x) = [x EXCEPT !.state = "empty", !.has = none]
  BY DEF Emptied
<1>3. DOMAIN none = DOMAIN x.has /\ \A e \in DOMAIN none : none[e] = 0
  OBVIOUS
<1> HIDE DEF none
<1>4. /\ DOMAIN Emptied(x) = {"state", "from", "has"}
      /\ Emptied(x).state = "empty" /\ Emptied(x).has = none
  BY <1>1, <1>2
<1>5. DOMAIN Emptied(x).has = DOMAIN x.has /\ Bare(Emptied(x))
  BY <1>3, <1>4 DEF Bare
<1>6. IsText(Emptied(x))
  BY <1>3, <1>4 DEF IsText
<1> QED BY <1>4, <1>5, <1>6

\* A text with none of the edits, and one with all of them.
LEMMA BareInOrder ==
  ASSUME Fixed, NEW f \in EditedFiles, NEW x, DOMAIN x.has = Names(script, f), Bare(x)
  PROVE  WholeInOrder(x, f)
<1>1. ASSUME NEW i \in PatchesOf(f)
      PROVE  Unmade(x, Steps[i]) /\ ~Made(x, Steps[i]) /\ ParsesBy(x, Steps[i])
  <2>1. i \in DOMAIN Steps /\ Steps[i].op \in EditOps /\ Steps[i].file = f
    BY <1>1 DEF PatchesOf, EditOps
  <2>2. \A e \in Edits(Steps[i]) : x.has[e.name] = 0
    BY <2>1, FilesAre DEF Bare
  <2>3. Edits(Steps[i]) # {}
    BY <2>1, StepIsMade
  <2> QED BY <2>2, <2>3 DEF Unmade, Made, ParsesBy
<1> QED BY <1>1 DEF WholeInOrder

LEMMA CompleteInOrder ==
  ASSUME Fixed, NEW f \in EditedFiles, NEW x, \A n \in Names(script, f) : x.has[n] = 1,
         \A n \in Names(script, f) : image[n] = "fits"
  PROVE  WholeInOrder(x, f)
<1>1. ASSUME NEW i \in PatchesOf(f) PROVE Made(x, Steps[i]) /\ ParsesBy(x, Steps[i])
  <2>1. i \in DOMAIN Steps /\ Steps[i].op \in EditOps /\ Steps[i].file = f
    BY <1>1 DEF PatchesOf, EditOps
  <2>2. \A e \in Edits(Steps[i]) : x.has[e.name] = 1 /\ image[e.name] = "fits"
    BY <2>1, FilesAre
  <2> QED BY <2>2 DEF Made, ParsesBy
<1> QED BY <1>1 DEF WholeInOrder

LEMMA PutText ==
  ASSUME Fixed, DiskInv(disk), NEW f \in Files(script), NEW x, IsText(x),
         f \in EditedFiles => IsEdited(x, f) /\ WholeInOrder(x, f),
         disk' = [disk EXCEPT ![f] = x]
  PROVE  /\ DiskInv(disk') /\ disk'[f] = x
         /\ \A g \in Files(script) \ {f} : disk'[g] = disk[g]
<1>1. /\ DOMAIN disk' = Files(script) /\ disk'[f] = x
      /\ \A g \in Files(script) \ {f} : disk'[g] = disk[g]
  BY DEF DiskInv
<1>2. \A g \in EditedFiles : g \in Files(script)
  BY FilesAre
<1> QED BY <1>1, <1>2 DEF DiskInv
-----------------------------------------------------------------------------
(* The steps of the machine *)

Holds == StateInv(disk, mem, runs, doing, at, k, unbacked)
HoldsNext == StateInv(disk', mem', runs', doing', at', k', unbacked')

LEMMA Shared ==
  ASSUME Holds
  PROVE  /\ DiskInv(disk) /\ BackupInv(disk, doing, at, unbacked) /\ runs \in 0 .. MaxRuns
         /\ k \in Nat \ {0} /\ at \in Nat \ {0} /\ unbacked \in BOOLEAN
         /\ doing \notin {"idle", "failed"} => at \in 1 .. Len(Steps) + 1
BY DEF Holds, StateInv, PlaceInv

\* Steps that leave the files alone.
LEMMA BeginKeeps == ASSUME Fixed, Holds, Begin PROVE HoldsNext
<1>1. /\ runs' = runs + 1 /\ runs < MaxRuns /\ doing' = "step" /\ at' = 1
      /\ disk' = disk /\ k' = k /\ mem' = mem /\ unbacked' = unbacked
      /\ doing # "copy"
  BY DEF Begin, AtRest
<1>2. /\ DiskInv(disk) /\ BackupInv(disk, doing, at, unbacked) /\ unbacked \in BOOLEAN
      /\ runs \in 0 .. MaxRuns /\ k \in Nat \ {0}
  BY DEF Holds, StateInv, PlaceInv
<1>3. PlaceInv(runs', doing', at', k')
  BY <1>1, <1>2, StepsLaid, InstallConstants DEF PlaceInv
<1>4. PassedInv(Pending(disk', mem', doing', at'), at')
  BY <1>1, StepsLaid DEF PassedInv
<1>5. BackupInv(disk', doing', at', unbacked')
  BY <1>1, <1>2 DEF BackupInv
<1> QED BY <1>1, <1>2, <1>3, <1>4, <1>5 DEF HoldsNext, StateInv

LEMMA FinishKeeps == ASSUME Fixed, Holds, Finish PROVE HoldsNext
<1>1. /\ doing = "step" /\ at > Len(Steps) /\ doing' = "done"
      /\ disk' = disk /\ runs' = runs /\ at' = at /\ k' = k /\ mem' = mem
      /\ unbacked' = unbacked /\ unbacked \in BOOLEAN
  BY Shared DEF Finish
<1>2. /\ DiskInv(disk) /\ BackupInv(disk, doing, at, unbacked) /\ PlaceInv(runs, doing, at, k)
      /\ PassedInv(Pending(disk, mem, doing, at), at)
  BY <1>1 DEF Holds, StateInv
<1>3. PlaceInv(runs', doing', at', k')
  BY <1>1, <1>2, StepsLaid DEF PlaceInv
<1>4. PassedInv(Pending(disk', mem', doing', at'), at')
  BY <1>1, <1>2 DEF Pending
<1>5. BackupInv(disk', doing', at', unbacked')
  BY <1>1, <1>2 DEF BackupInv
<1> QED BY <1>1, <1>2, <1>3, <1>4, <1>5 DEF HoldsNext, StateInv

\* The files of the Marlin script, whose first step is the backup.
LEMMA MarlinFiles ==
  ASSUME Fixed, script = "asym"
  PROVE  /\ "ct_moe" \in EditedFiles /\ "ct_moe" \in Files(script)
         /\ "ct_moe.orig" \in Files(script)
         /\ Steps[1].op = "backup" /\ Steps[1].file = "ct_moe.orig"
<1>1. /\ 1 \in DOMAIN Steps /\ Steps[1].op = "backup" /\ Steps[1].file = "ct_moe.orig"
      /\ 2 \in DOMAIN Steps /\ Steps[2].op = "patch" /\ Steps[2].file = "ct_moe"
  BY StepsLaid DEF Scripted
<1> QED BY <1>1, FilesAre DEF CopyOps, EditOps

\* One more step is done.
LEMMA PassedOne ==
  ASSUME Fixed, NEW d, at \in 1 .. Len(Steps) + 1, PassedInv(d, at), StepDone(d, Steps[at])
  PROVE  PassedInv(d, at + 1)
<1> SUFFICES ASSUME NEW i \in DOMAIN Steps, i < at + 1 PROVE StepDone(d, Steps[i])
  BY DEF PassedInv
<1>1. i < at \/ i = at
  BY StepsLaid
<1> QED BY <1>1 DEF PassedInv

LEMMA FailKeeps ==
  ASSUME Fixed, Holds, CauseIn(disk, at), script = "asym" => doing # "copy",
         doing' = "failed", at' = at, UNCHANGED <<disk, runs, k, mem, unbacked>>
  PROVE  HoldsNext
<1>1. /\ DiskInv(disk) /\ BackupInv(disk, doing, at, unbacked) /\ PlaceInv(runs, doing, at, k)
      /\ unbacked \in BOOLEAN
  BY DEF Holds, StateInv
<1>2. PlaceInv(runs', doing', at', k') /\ BackupInv(disk', doing', at', unbacked')
  BY <1>1 DEF PlaceInv, BackupInv
<1> QED BY <1>1, <1>2 DEF HoldsNext, StateInv

\* A step that finds its work done is passed.
LEMMA PassKeeps ==
  ASSUME Fixed, Holds, doing = "step", at <= Len(Steps), StepDone(disk, Steps[at]),
         Steps[at].op = "backup" => disk[Steps[at].file].state # "absent",
         doing' = "step", at' = at + 1, UNCHANGED <<disk, runs, k, mem, unbacked>>
  PROVE  HoldsNext
<1>1. /\ DiskInv(disk) /\ BackupInv(disk, doing, at, unbacked) /\ PlaceInv(runs, doing, at, k)
      /\ PassedInv(Pending(disk, mem, doing, at), at) /\ unbacked \in BOOLEAN
  BY DEF Holds, StateInv
<1>2. PlaceInv(runs', doing', at', k')
  BY <1>1, StepsLaid DEF PlaceInv
<1>3. PassedInv(disk, at)
  BY <1>1 DEF Pending
<1>4. PassedInv(disk, at + 1)
  BY <1>1, <1>3, PassedOne DEF PlaceInv
<1>5. PassedInv(Pending(disk', mem', doing', at'), at')
  BY <1>4 DEF Pending
<1>6. BackupInv(disk', doing', at', unbacked')
  <2> SUFFICES ASSUME script = "asym", at + 1 >= 2
               PROVE  at >= 2 \/ disk["ct_moe.orig"].state # "absent"
    BY <1>1, StepsLaid DEF BackupInv, PlaceInv
  <2>1. at = 1 \/ at >= 2
    BY <1>1, StepsLaid DEF PlaceInv
  <2> QED BY <2>1, MarlinFiles
<1> QED BY <1>1, <1>2, <1>5, <1>6 DEF HoldsNext, StateInv

\* A file is changed that no step before this one has made.
LEMMA PassedStill ==
  ASSUME Fixed, NEW a \in 1 .. Len(Steps), NEW d, NEW e, PassedInv(d, a),
         \A i \in DOMAIN Steps : i < a /\ Steps[i].op # "check" /\ e[Steps[i].file] # d[Steps[i].file]
           => StepDone(e, Steps[i])
  PROVE  PassedInv(e, a)
<1> SUFFICES ASSUME NEW i \in DOMAIN Steps, i < a PROVE StepDone(e, Steps[i])
  BY DEF PassedInv
<1>1. Steps[i].op # "check"
  BY StepsLaid DEF Orderly
<1>2. StepDone(d, Steps[i])
  BY DEF PassedInv
<1> QED BY <1>1, <1>2 DEF StepDone

LEMMA CopyPlace ==
  ASSUME Fixed, at \in 1 .. Len(Steps), Step.op \in CopyOps
  PROVE  /\ Step = Steps[at] /\ at \in DOMAIN Steps /\ Step.file \in Files(script)
         /\ Step.file \in EditedFiles => Step.op = "copyover" /\ Step.file = "flashmla_sparse"
         /\ \A i \in DOMAIN Steps : i < at /\ Steps[i].op \in {"patch", "install", "backup"}
              => Steps[i].file # Step.file
         /\ script = "asym" => Step.op = "backup"
         /\ Step.op = "backup" => /\ script = "asym" /\ Step.file = "ct_moe.orig"
                                  /\ Step.of = "ct_moe"
<1>1. at \in DOMAIN Steps
  BY StepsLaid
<1>2. Step = Steps[at]
  BY DEF Step
<1> HIDE DEF Step
<1>3. Step.file \in Files(script)
  BY <1>1, <1>2, FilesAre
<1>4. \A i \in DOMAIN Steps : i < at /\ Steps[i].op \in {"patch", "install", "backup"}
              => Steps[i].file # Step.file
  BY <1>1, <1>2, StepsLaid DEF Orderly, EditOps
<1>5. ASSUME Step.file \in EditedFiles
      PROVE  Step.op = "copyover" /\ Step.file = "flashmla_sparse"
  <2>1. PICK i \in DOMAIN Steps : Steps[i].op \in EditOps /\ Steps[i].file = Step.file
    BY <1>5, FilesAre
  <2> QED BY <1>1, <1>2, <2>1, StepsLaid DEF Orderly, CopyOps
<1>6. Step.op = "backup" => /\ script = "asym" /\ Step.file = "ct_moe.orig"
                            /\ Step.of = "ct_moe"
  BY <1>1, <1>2, StepsLaid DEF Scripted
<1>7. script = "asym" => Step.op = "backup"
  BY <1>1, <1>2, StepsLaid DEF Scripted, CopyOps
<1> QED BY <1>1, <1>2, <1>3, <1>4, <1>5, <1>6, <1>7

LEMMA CopyPassed ==
  ASSUME Fixed, at \in 1 .. Len(Steps), Step.op \in CopyOps, PassedInv(disk, at), NEW d,
         \A g \in Files(script) \ {Step.file} : d[g] = disk[g]
  PROVE  PassedInv(d, at)
<1> SUFFICES ASSUME NEW i \in DOMAIN Steps, i < at, Steps[i].op # "check",
                    d[Steps[i].file] # disk[Steps[i].file]
             PROVE  StepDone(d, Steps[i])
  BY PassedStill
<1>1. Steps[i].op \notin {"patch", "install", "backup"}
  <2>1. Steps[i].file \in Files(script)
    BY StepIsMade, FilesAre
  <2>2. Steps[i].file = Step.file
    BY <2>1
  <2> QED BY <2>2, CopyPlace
<1> QED BY <1>1 DEF StepDone

LEMMA NoCopyKeeps == ASSUME Fixed, Holds, NoCopy PROVE HoldsNext
<1>1. /\ doing = "step" /\ at <= Len(Steps) /\ Step.op \in CopyOps /\ ~Copies
      /\ UNCHANGED <<disk, runs, k, mem, unbacked>>
  BY DEF NoCopy, AtStep, CopyOps
<1>2. at \in 1 .. Len(Steps)
  BY <1>1, Shared, StepsLaid
<1>3. CASE Step.op = "install"
  <2>1. doing' = "failed" /\ at' = at
    BY <1>3 DEF NoCopy, Fail
  <2>2. CauseIn(disk, at)
    BY <1>1, <1>2, <1>3, CopyPlace DEF CauseIn
  <2> QED BY <1>1, <2>1, <2>2, FailKeeps
<1>4. CASE Step.op # "install"
  <2>1. doing' = "step" /\ at' = at + 1
    BY <1>4 DEF NoCopy, NextStep
  <2>2. Step.op = "backup" => disk[Step.file].state # "absent"
    BY <1>1 DEF Copies
  <2>3. StepDone(disk, Steps[at])
    BY <1>1, <1>2, <1>4, CopyPlace DEF StepDone, CopyOps
  <2>4. Steps[at].op = "backup" => disk[Steps[at].file].state # "absent"
    BY <1>1, <1>2, <2>2, CopyPlace
  <2> QED BY <1>1, <2>1, <2>3, <2>4, PassKeeps
<1> QED BY <1>3, <1>4

\* A copy that fails ends the run, unless it is a backup's.
LEMMA CopyFailsKeeps == ASSUME Fixed, Holds, CopyFails PROVE HoldsNext
<1>1. /\ doing \in {"step", "copy"} /\ at \in 1 .. Len(Steps) /\ Step.op \in CopyOps
      /\ disk' = disk /\ runs' = runs /\ k' = k /\ mem' = mem
      /\ unbacked' = (unbacked \/ Step.op = "backup")
  BY Shared, StepsLaid DEF CopyFails, AtStep, CopyOps, Holds, StateInv, PlaceInv, Step
<1>2. /\ Step = Steps[at] /\ at \in DOMAIN Steps
      /\ script = "asym" => Step.op = "backup"
  BY <1>1, CopyPlace
<1>3. /\ DiskInv(disk) /\ PassedInv(disk, at) /\ PlaceInv(runs, doing, at, k)
      /\ unbacked \in BOOLEAN
  BY <1>1 DEF Holds, StateInv, Pending
<1>4. CASE Step.op = "backup"
  <2>1. doing' = "step" /\ at' = at + 1 /\ unbacked' = TRUE
    BY <1>1, <1>4 DEF CopyFails, NextStep
  <2>2. StepDone(disk, Steps[at])
    BY <1>2, <1>4 DEF StepDone
  <2>3. PassedInv(disk, at + 1)
    BY <1>1, <1>3, <2>2, PassedOne
  <2>4. PassedInv(Pending(disk', mem', doing', at'), at')
    BY <1>1, <2>1, <2>3 DEF Pending
  <2>5. PlaceInv(runs', doing', at', k')
    BY <1>1, <1>3, <2>1, StepsLaid DEF PlaceInv
  <2>6. BackupInv(disk', doing', at', unbacked')
    BY <2>1 DEF BackupInv
  <2> QED BY <1>1, <1>3, <2>1, <2>4, <2>5, <2>6 DEF HoldsNext, StateInv
<1>5. CASE Step.op # "backup"
  <2>1. doing' = "failed" /\ at' = at
    BY <1>5 DEF CopyFails, Fail
  <2>2. unbacked' = unbacked
    BY <1>1, <1>3, <1>5
  <2>3. CauseIn(disk, at)
    BY <1>1, <1>2, <1>5 DEF CauseIn, CopyOps
  <2> QED BY <1>1, <1>2, <1>5, <2>1, <2>2, <2>3, FailKeeps
<1> QED BY <1>4, <1>5

\* A kill leaves the files as they are; in a backup's copy it is on record.
LEMMA CrashKeeps == ASSUME Fixed, Holds, Crash PROVE HoldsNext
<1>1. /\ doing' = "idle"
      /\ disk' = disk /\ runs' = runs /\ at' = at /\ k' = k /\ mem' = mem
      /\ unbacked' = (unbacked \/ (doing = "copy" /\ Step.op = "backup"))
  BY DEF Crash
<1>2. /\ DiskInv(disk) /\ BackupInv(disk, doing, at, unbacked) /\ PlaceInv(runs, doing, at, k)
      /\ unbacked \in BOOLEAN
  BY DEF Holds, StateInv
<1>3. PlaceInv(runs', doing', at', k') /\ unbacked' \in BOOLEAN
  BY <1>1, <1>2 DEF PlaceInv
<1>4. BackupInv(disk', doing', at', unbacked')
  <2> SUFFICES ASSUME script = "asym", ~unbacked' PROVE doing # "copy" /\ ~unbacked
    BY <1>1, <1>2 DEF BackupInv
  <2>1. ASSUME doing = "copy" PROVE Step.op = "backup"
    <3>1. at \in 1 .. Len(Steps) /\ Step.op \in CopyOps
      BY <1>2, <2>1, StepsLaid DEF PlaceInv, Step
    <3> QED BY <3>1, CopyPlace
  <2> QED BY <1>1, <2>1
<1> QED BY <1>1, <1>2, <1>3, <1>4 DEF HoldsNext, StateInv

LEMMA StartCopyKeeps == ASSUME Fixed, Holds, StartCopy PROVE HoldsNext
<1> DEFINE f == Step.file
           x == Emptied(disk[f])
<1>1. /\ doing = "step" /\ at <= Len(Steps) /\ Step.op \in CopyOps /\ Copies
      /\ disk' = [disk EXCEPT ![f] = x] /\ doing' = "copy"
      /\ UNCHANGED <<runs, at, k, mem, unbacked>>
  BY DEF StartCopy, AtStep, CopyOps
<1>2. at \in 1 .. Len(Steps)
  BY <1>1, Shared, StepsLaid
<1>3. /\ Step = Steps[at] /\ f \in Files(script)
      /\ script = "asym" => Step.op = "backup" /\ f = "ct_moe.orig"
  BY <1>1, <1>2, CopyPlace
<1>4. /\ DiskInv(disk) /\ BackupInv(disk, doing, at, unbacked) /\ PassedInv(disk, at)
      /\ PlaceInv(runs, doing, at, k) /\ unbacked \in BOOLEAN
  BY <1>1 DEF Holds, StateInv, Pending
<1>5. /\ IsText(x) /\ x.state = "empty" /\ Bare(x)
      /\ DOMAIN x.has = DOMAIN disk[f].has
  BY <1>3, <1>4, EmptiedIs DEF DiskInv
<1>6. ASSUME f \in EditedFiles PROVE IsEdited(x, f) /\ WholeInOrder(x, f)
  <2>1. DOMAIN x.has = Names(script, f)
    BY <1>4, <1>5, <1>6 DEF DiskInv, IsEdited
  <2>2. IsEdited(x, f)
    BY <1>5, <2>1 DEF IsEdited
  <2> HIDE DEF f, x
  <2> QED BY <1>5, <1>6, <2>1, <2>2, BareInOrder
<1> HIDE DEF x
<1>7. /\ DiskInv(disk') /\ disk'[f] = x
      /\ \A g \in Files(script) \ {f} : disk'[g] = disk[g]
  BY <1>1, <1>3, <1>4, <1>5, <1>6, PutText
<1>8. PassedInv(Pending(disk', mem', doing', at'), at')
  BY <1>1, <1>2, <1>4, <1>7, CopyPassed DEF Pending
<1>9. PlaceInv(runs', doing', at', k')
  BY <1>1, <1>3, <1>4 DEF PlaceInv
<1>10. BackupInv(disk', doing', at', unbacked')
  <2> SUFFICES ASSUME script = "asym", ~unbacked
               PROVE  /\ disk'["ct_moe.orig"].state = "empty"
                      /\ Pristine(disk'["ct_moe"])
    BY <1>1 DEF BackupInv
  <2>1. f = "ct_moe.orig" /\ disk[f].state = "absent"
    BY <1>1, <1>3 DEF Copies
  <2>2. disk'["ct_moe"] = disk["ct_moe"]
    BY <1>7, <2>1, MarlinFiles
  <2>3. Pristine(disk["ct_moe"])
    BY <1>4, <2>1 DEF BackupInv, Kept
  <2> QED BY <1>5, <1>7, <2>1, <2>2, <2>3
<1> QED BY <1>1, <1>4, <1>7, <1>8, <1>9, <1>10 DEF HoldsNext, StateInv

LEMMA EndCopyKeeps == ASSUME Fixed, Holds, EndCopy PROVE HoldsNext
<1> DEFINE f == Step.file
           c == IF carries THEN 1 ELSE 0
           x == IF Step.op = "backup" THEN disk[Step.of]
                ELSE File("whole", "repo", [e \in Names(script, f) |-> c])
<1>1. /\ doing = "copy" /\ disk' = [disk EXCEPT ![f] = x] /\ doing' = "step" /\ at' = at + 1
      /\ UNCHANGED <<runs, k, mem, unbacked>>
  BY DEF EndCopy, NextStep, Uniform
<1>2. /\ DiskInv(disk) /\ BackupInv(disk, doing, at, unbacked)
      /\ PassedInv(disk, at) /\ PlaceInv(runs, doing, at, k)
      /\ at \in 1 .. Len(Steps) /\ Step.op \in CopyOps /\ unbacked \in BOOLEAN
  BY <1>1, StepsLaid DEF Holds, StateInv, Pending, PlaceInv, Step
<1>3. /\ Step = Steps[at] /\ at \in DOMAIN Steps /\ f \in Files(script)
      /\ f \in EditedFiles => Step.op = "copyover" /\ f = "flashmla_sparse"
      /\ script = "asym" => Step.op = "backup"
      /\ Step.op = "backup" => script = "asym" /\ f = "ct_moe.orig" /\ Step.of = "ct_moe"
  BY <1>2, CopyPlace
<1>4. ASSUME Step.op = "backup"
      PROVE  DiskInv(disk') /\ StepDone(disk', Step) /\ BackupInv(disk', doing', at', unbacked')
  <2>1. x = disk["ct_moe"] /\ script = "asym" /\ f = "ct_moe.orig" /\ f \notin EditedFiles
    BY <1>3, <1>4
  <2>2. IsText(x) /\ DOMAIN x.has = Names(script, "ct_moe") /\ (~unbacked => Pristine(x))
    BY <1>1, <1>2, <2>1, MarlinFiles DEF DiskInv, BackupInv, IsEdited
  <2> HIDE DEF x
  <2>3. /\ DiskInv(disk') /\ disk'[f] = x
        /\ \A g \in Files(script) \ {f} : disk'[g] = disk[g]
    BY <1>1, <1>2, <1>3, <2>1, <2>2, PutText
  <2>4. StepDone(disk', Step)
    BY <1>4 DEF StepDone
  <2>5. BackupInv(disk', doing', at', unbacked')
    <3> SUFFICES ASSUME ~unbacked PROVE Kept(disk'["ct_moe.orig"])
      BY <1>1 DEF BackupInv, Kept
    <3>1. disk'["ct_moe.orig"] = x
      BY <2>1, <2>3
    <3> QED BY <2>2, <3>1 DEF Kept, Pristine, Bare
  <2> QED BY <2>3, <2>4, <2>5
<1>5. ASSUME Step.op # "backup"
      PROVE  DiskInv(disk') /\ StepDone(disk', Step) /\ BackupInv(disk', doing', at', unbacked')
  <2>1. x = File("whole", "repo", [e \in Names(script, f) |-> c]) /\ c \in 0 .. 1
    BY <1>5
  <2>2. /\ IsText(x) /\ x.state = "whole" /\ x.from = "repo"
        /\ DOMAIN x.has = Names(script, f) /\ \A e \in Names(script, f) : x.has[e] = c
    <3> HIDE DEF c, x, f
    <3>1. /\ x.state = "whole" /\ x.from = "repo" /\ x.has = [e \in Names(script, f) |-> c]
          /\ DOMAIN x = {"state", "from", "has"}
      BY <2>1 DEF File
    <3> QED BY <2>1, <3>1 DEF IsText
  <2>3. ASSUME f \in EditedFiles PROVE IsEdited(x, f) /\ WholeInOrder(x, f)
    <3>1. IsEdited(x, f)
      BY <2>2 DEF IsEdited
    <3>2. CASE carries
      <4>1. \A e \in Names(script, f) : image[e] = "fits"
        BY <1>3, <2>3, <3>2 DEF Fixed
      <4>2. c = 1
        BY <3>2
      <4> HIDE DEF c, x, f
      <4> QED BY <2>2, <2>3, <3>1, <4>1, <4>2, CompleteInOrder
    <3>3. CASE ~carries
      <4>1. c = 0
        BY <3>3
      <4>2. Bare(x)
        BY <2>2, <4>1 DEF Bare
      <4> HIDE DEF c, x, f
      <4> QED BY <2>2, <2>3, <3>1, <4>2, BareInOrder
    <3> QED BY <3>2, <3>3
  <2> HIDE DEF x
  <2>4. /\ DiskInv(disk') /\ disk'[f] = x
        /\ \A g \in Files(script) \ {f} : disk'[g] = disk[g]
    BY <1>1, <1>2, <1>3, <2>2, <2>3, PutText
  <2>5. StepDone(disk', Step)
    BY <1>2, <1>5, <2>2, <2>4 DEF StepDone, CopyOps
  <2>6. BackupInv(disk', doing', at', unbacked')
    BY <1>3, <1>5 DEF BackupInv
  <2> QED BY <2>4, <2>5, <2>6
<1> HIDE DEF x
<1>6. /\ DiskInv(disk') /\ StepDone(disk', Steps[at]) /\ BackupInv(disk', doing', at', unbacked')
      /\ \A g \in Files(script) \ {f} : disk'[g] = disk[g]
  <2>1. \A g \in Files(script) \ {f} : disk'[g] = disk[g]
    BY <1>1, <1>2 DEF DiskInv
  <2> QED BY <1>3, <1>4, <1>5, <2>1
<1>7. PassedInv(disk', at)
  BY <1>2, <1>6, CopyPassed
<1>8. PassedInv(disk', at + 1)
  BY <1>2, <1>6, <1>7, PassedOne
<1>9. PlaceInv(runs', doing', at', k')
  BY <1>1, <1>2, StepsLaid DEF PlaceInv
<1> QED BY <1>1, <1>6, <1>8, <1>9, Shared DEF HoldsNext, StateInv, Pending

LEMMA EditPlace ==
  ASSUME Fixed, at \in 1 .. Len(Steps), Step.op \in EditOps
  PROVE  /\ Step = Steps[at] /\ at \in DOMAIN Steps
         /\ Step.file \in EditedFiles /\ Step.file \in Files(script)
         /\ \A e \in Edits(Step) : /\ e.name \in Names(script, Step.file)
                                   /\ e \in EditsIn(script, Step.file)
         /\ \A i \in DOMAIN Steps : Steps[i].op \in {"install", "backup"} => Steps[i].file # Step.file
         /\ script = "asym" => at = 2 /\ Step.op = "patch" /\ Step.file = "ct_moe"
         /\ EditsListed(Step.edits)
         /\ Edits(Step) = {Step.edits[p] : p \in DOMAIN Step.edits}
<1>1. at \in DOMAIN Steps /\ Step = Steps[at]
  BY StepsLaid DEF Step
<1> HIDE DEF Step
<1>2. /\ Step.file \in EditedFiles /\ Step.file \in Files(script)
      /\ \A e \in Edits(Step) : e.name \in Names(script, Step.file) /\ e \in EditsIn(script, Step.file)
  BY <1>1, FilesAre
<1>3. \A i \in DOMAIN Steps : Steps[i].op \in {"install", "backup"} => Steps[i].file # Step.file
  BY <1>1, StepsLaid DEF Orderly
<1>4. script = "asym" => at = 2 /\ Step.op = "patch" /\ Step.file = "ct_moe"
  BY <1>1, StepsLaid DEF Scripted, EditOps
<1>5. EditsListed(Step.edits) /\ Edits(Step) = {Step.edits[p] : p \in DOMAIN Step.edits}
  BY <1>1, StepIsMade
<1> QED BY <1>1, <1>2, <1>3, <1>4, <1>5

\* A patch whose marker is in the file is made there; one whose marker is
\* not there is not.
LEMMA MarkerFound ==
  ASSUME Fixed, DiskInv(disk), at \in 1 .. Len(Steps), Step.op = "patch",
         Step.marker \in MarksIn(disk[Step.file])
  PROVE  Made(disk[Step.file], Step) /\ disk[Step.file].state = "whole"
<1> DEFINE f == Step.file
<1>1. /\ Step = Steps[at] /\ at \in DOMAIN Steps /\ f \in EditedFiles /\ f \in Files(script)
  BY EditPlace DEF EditOps
<1>2. /\ IsText(disk[f]) /\ IsEdited(disk[f], f) /\ WholeInOrder(disk[f], f)
  BY <1>1 DEF DiskInv
<1>3. PICK d \in EditsIn(script, f) : disk[f].has[d.name] > 0 /\ Step.marker \in d.marks
  BY DEF MarksIn
<1>4. PICK j \in DOMAIN Steps :
        Steps[j].op \in EditOps /\ Steps[j].file = f /\ d \in Edits(Steps[j])
  BY <1>3, FilesAre
<1>5. d.name \in Names(script, f)
  BY <1>4, FilesAre
<1>6. disk[f].has[d.name] \in 0 .. 1 /\ disk[f].has[d.name] # 0
  BY <1>2, <1>3, <1>5 DEF IsText, IsEdited
<1>7. disk[f].state = "whole"
  BY <1>2, <1>5, <1>6 DEF IsEdited, Bare
<1> HIDE DEF f
<1>8. at \in PatchesOf(f)
  BY <1>1 DEF PatchesOf, f
<1>9. ~Unmade(disk[f], Steps[j])
  BY <1>4, <1>6 DEF Unmade
<1>10. CASE j = at
  <2>1. Made(disk[f], Steps[j])
    BY <1>2, <1>8, <1>9, <1>10 DEF WholeInOrder
  <2> QED BY <1>1, <1>7, <1>10, <2>1 DEF f
<1>11. CASE j # at
  <2>1. Steps[j].op = "patch" /\ (j < at => Step.marker \notin d.marks)
    BY <1>1, <1>4, <1>11, PatchesAreApart DEF f, EditOps
  <2>2. j > at
    BY <1>1, <1>3, <1>11, <2>1, StepsLaid
  <2>3. j \in PatchesOf(f)
    BY <1>4, <2>1 DEF PatchesOf
  <2>4. Made(disk[f], Steps[j])
    BY <1>2, <1>9, <2>3 DEF WholeInOrder
  <2>5. Made(disk[f], Steps[at])
    BY <1>2, <1>8, <2>2, <2>3, <2>4 DEF WholeInOrder
  <2> QED BY <1>1, <1>7, <2>5 DEF f
<1> QED BY <1>10, <1>11

LEMMA MarkerMissing ==
  ASSUME Fixed, DiskInv(disk), at \in 1 .. Len(Steps), Step.op = "patch",
         Step.marker \notin MarksIn(disk[Step.file])
  PROVE  Unmade(disk[Step.file], Step)
<1> DEFINE f == Step.file
<1>1. /\ Step = Steps[at] /\ at \in DOMAIN Steps /\ f \in EditedFiles /\ f \in Files(script)
      /\ \A e \in Edits(Step) : e.name \in Names(script, f) /\ e \in EditsIn(script, f)
      /\ Edits(Step) = {Step.edits[p] : p \in DOMAIN Step.edits}
  BY EditPlace DEF EditOps
<1>2. WholeInOrder(disk[f], f)
  BY <1>1 DEF DiskInv
<1>3. PICK e \in Edits(Step) : Step.marker \in e.marks
  BY <1>1, StepIsMade DEF PatchMade
<1>4. ~(disk[f].has[e.name] > 0)
  BY <1>1, <1>3 DEF MarksIn
<1>5. ~Made(disk[f], Step)
  BY <1>3, <1>4 DEF Made
<1>6. at \in PatchesOf(f)
  BY <1>1 DEF PatchesOf
<1> QED BY <1>1, <1>2, <1>5, <1>6 DEF WholeInOrder

LEMMA ReadKeeps == ASSUME Fixed, Holds, Read PROVE HoldsNext
<1> DEFINE f == Step.file
           skip == Step.op = "patch" /\ Step.marker \in MarksIn(disk[f])
<1>1. /\ doing = "step" /\ at <= Len(Steps) /\ Step.op \in EditOps
      /\ UNCHANGED <<disk, runs, unbacked>>
  BY DEF Read, AtStep, EditOps
<1>2. /\ DiskInv(disk) /\ BackupInv(disk, doing, at, unbacked)
      /\ PassedInv(disk, at) /\ PlaceInv(runs, doing, at, k) /\ at \in 1 .. Len(Steps)
  BY <1>1, StepsLaid DEF Holds, StateInv, Pending, PlaceInv
<1>3. /\ Step = Steps[at] /\ f \in EditedFiles /\ f \in Files(script) /\ EditsListed(Step.edits)
  BY <1>1, <1>2, EditPlace
<1>4. CASE skip
  <2>1. doing' = "step" /\ at' = at + 1 /\ UNCHANGED <<k, mem>>
    BY <1>4 DEF Read, NextStep
  <2>2. StepDone(disk, Step)
    BY <1>2, <1>4, MarkerFound DEF StepDone
  <2>3. UNCHANGED <<disk, runs, k, mem, unbacked>>
    BY <1>1, <2>1
  <2>4. Steps[at].op = "backup" => disk[Steps[at].file].state # "absent"
    BY <1>1, <1>3 DEF EditOps
  <2> HIDE DEF skip
  <2> QED BY <1>1, <1>3, <2>1, <2>2, <2>3, <2>4, PassKeeps
<1>5. CASE ~skip
  <2>1. mem' = disk[f] /\ k' = 1 /\ doing' = "edit" /\ at' = at
    BY <1>5 DEF Read
  <2>2. IsText(disk[f]) /\ IsEdited(disk[f], f)
    BY <1>2, <1>3 DEF DiskInv
  <2>3. EditInv(disk, disk[f], Step, 1)
    <3>1. ASSUME Step.op = "patch"
          PROVE  /\ Unmade(disk[f], Step)
                 /\ \A p \in DOMAIN Step.edits : disk[f].has[Step.edits[p].name] = 0 /\ ~(p < 1)
      <4>1. Unmade(disk[f], Step)
        BY <1>2, <1>5, <3>1, MarkerMissing
      <4>2. Edits(Step) = {Step.edits[p] : p \in DOMAIN Step.edits}
        BY <1>1, <1>2, EditPlace
      <4>3. \A p \in DOMAIN Step.edits : p \in 1 .. Len(Step.edits)
        BY <1>3 DEF EditsListed
      <4> QED BY <4>1, <4>2, <4>3 DEF Unmade
    <3>2. 1 <= Len(Step.edits) + 1
      BY <1>3 DEF EditsListed
    <3> HIDE DEF skip
    <3> QED BY <2>2, <3>1, <3>2 DEF EditInv
  <2>4. PlaceInv(runs', doing', at', k')
    BY <1>1, <1>2, <1>3, <2>1 DEF PlaceInv
  <2>5. BackupInv(disk', doing', at', unbacked')
    BY <1>1, <1>2, <2>1 DEF BackupInv
  <2> QED BY <1>1, <1>2, <1>3, <2>1, <2>3, <2>4, <2>5, Shared DEF HoldsNext, StateInv, Pending
<1> QED BY <1>4, <1>5

LEMMA FinalCheckKeeps == ASSUME Fixed, Holds, FinalCheck PROVE HoldsNext
<1>1. /\ doing = "step" /\ at <= Len(Steps) /\ Step.op = "check"
      /\ UNCHANGED <<disk, runs, k, mem, unbacked>>
  BY DEF FinalCheck, AtStep
<1>2. /\ DiskInv(disk) /\ at \in DOMAIN Steps /\ Step = Steps[at]
  BY <1>1, StepsLaid DEF Holds, StateInv, PlaceInv, Step
<1>3. CASE \A f \in Step.files : Parses(disk[f])
  <2>1. doing' = "step" /\ at' = at + 1
    BY <1>3 DEF FinalCheck, NextStep
  <2>2. StepDone(disk, Step)
    BY <1>1, <1>3 DEF StepDone
  <2> QED BY <1>1, <1>2, <2>1, <2>2, PassKeeps
<1>4. CASE ~(\A f \in Step.files : Parses(disk[f]))
  <2>1. doing' = "failed" /\ at' = at
    BY <1>4 DEF FinalCheck, Fail
  <2>2. PICK f \in Step.files : ~Parses(disk[f])
    BY <1>4
  <2>3. f \in EditedFiles
    <3>1. PICK j \in DOMAIN Steps : Steps[j].op \in EditOps /\ Steps[j].file = f
      BY <1>1, <1>2, <2>2, StepsLaid DEF Orderly
    <3> QED BY <3>1, FilesAre
  <2>4. DOMAIN disk[f].has \subseteq DOMAIN image
    BY <1>2, <2>3, FilesAre DEF DiskInv, IsEdited, Fixed
  <2>5. CauseIn(disk, at)
    BY <2>2, <2>4 DEF Parses, CauseIn
  <2> QED BY <1>1, <2>1, <2>5, FailKeeps
<1> QED BY <1>3, <1>4

LEMMA MakeEditKeeps == ASSUME Fixed, Holds, MakeEdit PROVE HoldsNext
<1> DEFINE f == Step.file
           n == Edit.name
<1>1. /\ doing = "edit" /\ k <= Len(Step.edits) /\ UNCHANGED <<disk, runs, unbacked>>
  BY DEF MakeEdit
<1>2. /\ DiskInv(disk) /\ BackupInv(disk, doing, at, unbacked)
      /\ PassedInv(disk, at) /\ PlaceInv(runs, doing, at, k)
      /\ EditInv(disk, mem, Step, k) /\ at \in 1 .. Len(Steps) /\ Step.op \in EditOps /\ k \in Nat \ {0}
  BY <1>1, StepsLaid DEF Holds, StateInv, Pending, PlaceInv, Step
<1>3. /\ Step = Steps[at] /\ at \in DOMAIN Steps /\ f \in EditedFiles /\ f \in Files(script)
      /\ EditsListed(Step.edits) /\ Edits(Step) = {Step.edits[p] : p \in DOMAIN Step.edits}
      /\ \A e \in Edits(Step) : e.name \in Names(script, f) /\ e \in EditsIn(script, f)
  BY <1>2, EditPlace
<1>4. /\ k \in DOMAIN Step.edits /\ Edit = Step.edits[k] /\ Edit \in Edits(Step)
      /\ Edit.copies \in Nat \ {0} /\ \A p \in DOMAIN Step.edits : p \in Nat
  BY <1>1, <1>2, <1>3 DEF EditsListed, Edit
<1> HIDE DEF Edit
<1>5. /\ n \in Names(script, f) /\ n \in DOMAIN image /\ Edit \in EditsIn(script, f)
  BY <1>3, <1>4 DEF Fixed
<1>6. IsText(mem) /\ IsEdited(mem, f) /\ mem.state = disk[f].state
  BY <1>2 DEF EditInv
<1>7. DOMAIN mem.has = Names(script, f) /\ mem.has[n] \in 0 .. 1
  BY <1>5, <1>6 DEF IsText, IsEdited
\* Edits made and edits passed over: the machine goes on to the next.
<1>8. ASSUME doing' = "edit", at' = at, k' = k + 1, EditInv(disk, mem', Step, k + 1)
      PROVE  HoldsNext
  <2>1. PlaceInv(runs', doing', at', k')
    BY <1>1, <1>2, <1>8 DEF PlaceInv
  <2>2. BackupInv(disk', doing', at', unbacked')
    BY <1>1, <1>2, <1>8 DEF BackupInv
  <2> QED BY <1>1, <1>2, <1>3, <1>8, <2>1, <2>2, Shared DEF HoldsNext, StateInv, Pending
<1>9. ASSUME Step.op = "replace" PROVE EditInv(disk, mem, Step, k + 1)
  BY <1>1, <1>2, <1>3, <1>6, <1>9 DEF EditInv, EditsListed
<1>10. Step.op \in {"patch", "replace"}
  BY <1>2 DEF EditOps
<1>11. CASE Skipped
  <2>1. doing' = doing /\ at' = at /\ k' = k + 1 /\ mem' = mem
    BY <1>11 DEF MakeEdit
  <2>2. Step.op = "replace"
    BY <1>11 DEF Skipped
  <2> QED BY <1>1, <1>8, <1>9, <2>1, <2>2
<1>12. CASE ~Skipped /\ Found
  <2>1. /\ doing' = doing /\ at' = at /\ k' = k + 1
        /\ mem' = [mem EXCEPT !.has[n] = @ + 1]
    BY <1>12 DEF MakeEdit
  <2>2. mem.has[n] = 0
    <3>1. CASE Step.op = "patch"
      BY <1>2, <1>4, <3>1 DEF EditInv
    <3>2. CASE Step.op = "replace"
      <4>1. ReplaceMade(Step)
        BY <1>3, <3>2, StepIsMade
      <4>2. CASE n \in Step.guarded /\ Step.marker \in Edit.marks
        <5>1. Step.marker \notin MarksIn(mem)
          BY <1>12, <3>2, <4>2 DEF Skipped
        <5>2. ~(mem.has[n] > 0)
          BY <1>5, <4>2, <5>1 DEF MarksIn
        <5> QED BY <1>7, <5>2
      <4>3. CASE ~Edit.keeps /\ Edit.copies = 1
        BY <1>7, <1>12, <4>3 DEF Found
      <4> QED BY <1>4, <4>1, <4>2, <4>3 DEF ReplaceMade
    <3> QED BY <1>10, <3>1, <3>2
  <2>3. /\ DOMAIN mem' = {"state", "from", "has"} /\ mem'.state = mem.state
        /\ mem'.has = [mem.has EXCEPT ![n] = 1]
    BY <1>6, <2>1, <2>2 DEF IsText
  <2>4. /\ DOMAIN mem'.has = Names(script, f) /\ mem'.has[n] = 1
        /\ \A e \in Names(script, f) \ {n} : mem'.has[e] = mem.has[e]
    BY <1>5, <1>7, <2>3
  <2>5. mem.state = "whole"
    BY <1>12 DEF Found
  <2> HIDE DEF n
  <2>6. IsText(mem') /\ IsEdited(mem', f)
    BY <1>6, <1>7, <2>3, <2>4, <2>5 DEF IsText, IsEdited
  <2>7. ASSUME Step.op = "patch"
        PROVE  /\ Unmade(disk[f], Step)
               /\ \A p \in DOMAIN Step.edits :
                    mem'.has[Step.edits[p].name] = IF p < k + 1 THEN 1 ELSE 0
               /\ \A e \in Names(script, f) \ {d.name : d \in Edits(Step)} : mem'.has[e] = disk[f].has[e]
    <3>1. ASSUME NEW p \in DOMAIN Step.edits
          PROVE  mem'.has[Step.edits[p].name] = IF p < k + 1 THEN 1 ELSE 0
      <4>1. p \in Nat /\ mem.has[Step.edits[p].name] = IF p < k THEN 1 ELSE 0
        BY <1>2, <1>4, <2>7 DEF EditInv
      <4>2. CASE p = k
        BY <1>2, <1>4, <2>4, <4>2 DEF n
      <4>3. CASE p # k
        <5>1. Step.edits[p].name # n
          BY <1>3, <1>4, <4>3 DEF EditsListed, n
        <5>2. Step.edits[p].name \in Names(script, f)
          BY <1>3
        <5> QED BY <1>2, <2>4, <4>1, <4>3, <5>1, <5>2
      <4> QED BY <4>2, <4>3
    <3>2. ASSUME NEW e \in Names(script, f) \ {d.name : d \in Edits(Step)}
          PROVE  mem'.has[e] = disk[f].has[e]
      <4>1. e # n
        BY <1>4 DEF n
      <4>2. mem.has[e] = disk[f].has[e]
        BY <1>2, <2>7 DEF EditInv
      <4> QED BY <2>4, <4>1, <4>2
    <3>3. Unmade(disk[f], Step)
      BY <1>2, <2>7 DEF EditInv
    <3> QED BY <3>1, <3>2, <3>3
  <2>8. EditInv(disk, mem', Step, k + 1)
    <3>1. k + 1 <= Len(Step.edits) + 1
      BY <1>1, <1>2, <1>3 DEF EditsListed
    <3> QED BY <1>6, <2>3, <2>5, <2>6, <2>7, <3>1 DEF EditInv
  <2> QED BY <1>1, <1>8, <2>1, <2>8
<1>13. CASE ~Skipped /\ ~Found
  <2>1. CASE Step.op = "patch"
    <3>1. doing' = "failed" /\ at' = at /\ UNCHANGED <<k, mem>>
      BY <1>13, <2>1 DEF MakeEdit, Fail
    <3>2. mem.has[n] = 0
      BY <1>2, <1>4, <2>1 DEF EditInv
    <3>3. mem.state # "whole" \/ image[n] = "lacks"
      BY <1>4, <1>13, <3>2 DEF Found
    <3>4. mem.state # "whole" => disk[f].state = "empty"
      BY <1>6 DEF IsText, IsEdited
    <3>5. CauseIn(disk, at)
      BY <1>3, <1>5, <3>3, <3>4 DEF CauseIn
    <3> QED BY <1>1, <3>1, <3>5, FailKeeps
  <2>2. CASE Step.op = "replace"
    <3>1. doing' = doing /\ at' = at /\ k' = k + 1 /\ mem' = mem
      BY <1>13, <2>2 DEF MakeEdit
    <3> QED BY <1>1, <1>8, <1>9, <2>2, <3>1
  <2> QED BY <1>10, <2>1, <2>2
<1> QED BY <1>11, <1>12, <1>13

\* The text a patch writes has the patch, and keeps what was in the file.
LEMMA EditedInOrder ==
  ASSUME Fixed, DiskInv(disk), PassedInv(disk, at), at \in 1 .. Len(Steps), Step.op \in EditOps,
         EditInv(disk, mem, Step, k), k > Len(Step.edits), k \in Nat,
         Step.op = "patch" /\ Step.parseFirst => Parses(mem)
  PROVE  /\ WholeInOrder(mem, Step.file)
         /\ Step.op = "patch" => mem.state = "whole" /\ Made(mem, Step)
         /\ \A i \in DOMAIN Steps : i < at /\ Steps[i].op = "patch" /\ Steps[i].file = Step.file
              => Made(mem, Steps[i]) /\ mem.state = "whole"
<1> DEFINE f == Step.file
<1>1. /\ Step = Steps[at] /\ at \in DOMAIN Steps /\ f \in EditedFiles /\ f \in Files(script)
      /\ EditsListed(Step.edits) /\ Edits(Step) = {Step.edits[p] : p \in DOMAIN Step.edits}
      /\ \A e \in Edits(Step) : e.name \in Names(script, f)
  BY EditPlace
<1>2. IsEdited(mem, f) /\ WholeInOrder(disk[f], f)
  BY <1>1 DEF EditInv, DiskInv
<1> HIDE DEF Step, f
<1>3. CASE Step.op = "replace"
  <2>1. \A i \in DOMAIN Steps : ~(Steps[i].op = "patch" /\ Steps[i].file = f)
    BY <1>1, <1>3, PatchesAreApart DEF EditOps, f
  <2>2. PatchesOf(f) = {}
    BY <2>1 DEF PatchesOf
  <2>3. WholeInOrder(mem, f)
    BY <2>2 DEF WholeInOrder
  <2> QED BY <1>3, <2>1, <2>3 DEF f
<1>4. CASE Step.op = "patch"
  <2>1. mem.state = "whole" /\ Made(mem, Step)
    <3>1. k > 1 /\ \A p \in DOMAIN Step.edits : p < k
      BY <1>1 DEF EditsListed
    <3>2. \A p \in DOMAIN Step.edits : mem.has[Step.edits[p].name] = 1
      BY <1>4, <3>1 DEF EditInv
    <3>3. Made(mem, Step)
      BY <1>1, <3>2 DEF Made
    <3> QED BY <1>4, <3>1, <3>3 DEF EditInv
  <2>2. ASSUME NEW i \in PatchesOf(f), i # at
        PROVE  \A e \in Edits(Steps[i]) : mem.has[e.name] = disk[f].has[e.name]
    <3>1. i \in DOMAIN Steps /\ Steps[i].op \in EditOps /\ Steps[i].file = f
      BY <2>2 DEF PatchesOf, EditOps
    <3>2. ASSUME NEW e \in Edits(Steps[i])
          PROVE  e.name \in Names(script, f) \ {d.name : d \in Edits(Step)}
      <4>1. e.name \in Names(script, f)
        BY <3>1, <3>2, FilesAre
      <4>2. \A d \in Edits(Step) : e.name # d.name
        BY <1>1, <2>2, <3>1, <3>2, PatchesAreApart DEF f
      <4> QED BY <4>1, <4>2
    <3> QED BY <1>4, <3>2 DEF EditInv, f
  <2>3. ASSUME NEW i \in PatchesOf(f), i # at
        PROVE  /\ Made(mem, Steps[i]) <=> Made(disk[f], Steps[i])
               /\ Unmade(mem, Steps[i]) <=> Unmade(disk[f], Steps[i])
               /\ ParsesBy(mem, Steps[i]) <=> ParsesBy(disk[f], Steps[i])
    BY <2>2, <2>3 DEF Made, Unmade, ParsesBy
  <2>4. ASSUME NEW i \in PatchesOf(f), i < at PROVE Made(mem, Steps[i])
    <3>1. i \in DOMAIN Steps /\ Steps[i].op = "patch" /\ Steps[i].file = f
      BY <2>4 DEF PatchesOf
    <3>2. Made(disk[f], Steps[i])
      BY <2>4, <3>1 DEF PassedInv, StepDone
    <3>3. i # at
      BY <2>4
    <3> QED BY <2>3, <2>4, <3>2, <3>3
  <2>5. ASSUME Step.parseFirst PROVE ParsesBy(mem, Step)
    <3>1. Parses(mem)
      BY <1>4, <2>5
    <3> QED BY <1>1, <1>2, <3>1 DEF Parses, ParsesBy, IsEdited
  <2>6. WholeInOrder(mem, f)
    <3>1. ASSUME NEW i \in PatchesOf(f)
          PROVE  /\ Made(mem, Steps[i]) \/ Unmade(mem, Steps[i])
                 /\ Steps[i].parseFirst => ParsesBy(mem, Steps[i])
      <4>1. CASE i = at
        BY <1>1, <2>1, <2>5, <4>1
      <4>2. CASE i # at
        BY <1>2, <2>3, <4>2 DEF WholeInOrder
      <4> QED BY <4>1, <4>2
    <3>2. ASSUME NEW i \in PatchesOf(f), NEW j \in PatchesOf(f), i < j, Made(mem, Steps[j])
          PROVE  Made(mem, Steps[i])
      <4>1. CASE i = at
        BY <1>1, <2>1, <4>1
      <4>2. CASE i # at /\ j = at
        BY <2>4, <3>2, <4>2
      <4>3. CASE i # at /\ j # at
        <5>1. Made(disk[f], Steps[j])
          BY <2>3, <3>2, <4>3
        <5>2. Made(disk[f], Steps[i])
          BY <1>2, <3>2, <5>1 DEF WholeInOrder
        <5> QED BY <2>3, <4>3, <5>2
      <4> QED BY <4>1, <4>2, <4>3
    <3> QED BY <3>1, <3>2 DEF WholeInOrder
  <2> QED BY <2>1, <2>4, <2>6 DEF PatchesOf, f
<1> QED BY <1>3, <1>4 DEF EditOps

\* While the Marlin file is edited its backup is kept.
LEMMA BackupThere ==
  ASSUME Fixed, Holds, script = "asym", ~unbacked, at = 2, doing \in {"edit", "write"}
  PROVE  Kept(disk["ct_moe.orig"])
<1>1. BackupInv(disk, doing, at, unbacked) /\ IsText(disk["ct_moe.orig"])
  BY MarlinFiles DEF Holds, StateInv, DiskInv
<1> QED BY <1>1 DEF BackupInv, IsText

LEMMA OpenKeeps == ASSUME Fixed, Holds, Open PROVE HoldsNext
<1> DEFINE f == Step.file
           x == Emptied(disk[f])
           bad == Step.op = "patch" /\ Step.parseFirst /\ ~Parses(mem)
<1>1. /\ doing = "edit" /\ k > Len(Step.edits) /\ UNCHANGED <<runs, k, mem, unbacked>>
  BY DEF Open
<1>2. /\ DiskInv(disk) /\ BackupInv(disk, doing, at, unbacked)
      /\ PassedInv(disk, at) /\ PlaceInv(runs, doing, at, k)
      /\ EditInv(disk, mem, Step, k) /\ at \in 1 .. Len(Steps) /\ Step.op \in EditOps /\ k \in Nat \ {0}
  BY <1>1, StepsLaid DEF Holds, StateInv, Pending, PlaceInv, Step
<1>3. /\ Step = Steps[at] /\ at \in DOMAIN Steps /\ f \in EditedFiles /\ f \in Files(script)
      /\ \A i \in DOMAIN Steps : Steps[i].op \in {"install", "backup"} => Steps[i].file # f
      /\ script = "asym" => at = 2 /\ Step.op = "patch" /\ f = "ct_moe"
  BY <1>2, EditPlace
<1>4. IsText(mem) /\ IsEdited(mem, f)
  BY <1>2 DEF EditInv
<1>5. CASE bad
  <2>1. doing' = "failed" /\ at' = at /\ disk' = disk
    BY <1>5 DEF Open, Fail
  <2>2. DOMAIN mem.has \subseteq DOMAIN image
    BY <1>3, <1>4 DEF IsEdited, Fixed
  <2>3. CauseIn(disk, at)
    BY <1>5, <2>2 DEF Parses, CauseIn
  <2> QED BY <1>1, <2>1, <2>3, FailKeeps
<1>6. CASE ~bad
  <2>1. doing' = "write" /\ at' = at /\ disk' = [disk EXCEPT ![f] = x]
    BY <1>6 DEF Open
  <2>2. /\ WholeInOrder(mem, f)
        /\ Step.op = "patch" => mem.state = "whole" /\ Made(mem, Step)
        /\ \A i \in DOMAIN Steps : i < at /\ Steps[i].op = "patch" /\ Steps[i].file = f
              => Made(mem, Steps[i]) /\ mem.state = "whole"
    BY <1>1, <1>2, <1>6, EditedInOrder
  <2> HIDE DEF bad
  <2>3. /\ IsText(x) /\ x.state = "empty" /\ Bare(x) /\ DOMAIN x.has = DOMAIN disk[f].has
    BY <1>2, <1>3, EmptiedIs DEF DiskInv
  <2>4. IsEdited(x, f) /\ WholeInOrder(x, f)
    <3>1. DOMAIN x.has = Names(script, f)
      BY <1>2, <1>3, <2>3 DEF DiskInv, IsEdited
    <3>2. IsEdited(x, f)
      BY <2>3, <3>1 DEF IsEdited
    <3> HIDE DEF f, x
    <3> QED BY <1>3, <2>3, <3>1, <3>2, BareInOrder
  <2> HIDE DEF x
  <2>5. /\ DiskInv(disk') /\ disk'[f] = x
        /\ \A g \in Files(script) \ {f} : disk'[g] = disk[g]
    BY <1>2, <1>3, <2>1, <2>3, <2>4, PutText
  <2>6. WriteInv(disk', mem', Steps[at'])
    BY <1>1, <1>3, <1>4, <2>1, <2>2, <2>3, <2>5 DEF WriteInv
  <2> DEFINE e == Pending(disk', mem', doing', at')
  <2>7. e[f] = mem /\ \A g \in Files(script) \ {f} : e[g] = disk[g]
    BY <1>1, <1>3, <2>1, <2>5 DEF Pending, DiskInv
  <2> HIDE DEF e
  <2>8. PassedInv(e, at)
    <3> SUFFICES ASSUME NEW i \in DOMAIN Steps, i < at, Steps[i].op # "check",
                        e[Steps[i].file] # disk[Steps[i].file]
                 PROVE  StepDone(e, Steps[i])
      BY <1>2, PassedStill
    <3>1. Steps[i].file \in Files(script)
      BY StepIsMade, FilesAre
    <3>2. Steps[i].file = f
      BY <2>7, <3>1
    <3>3. Steps[i].op \notin {"install", "backup"}
      BY <1>3, <3>2
    <3> QED BY <2>2, <2>7, <3>2, <3>3 DEF StepDone
  <2>9. PlaceInv(runs', doing', at', k')
    BY <1>1, <1>2, <1>3, <2>1 DEF PlaceInv
  <2>10. BackupInv(disk', doing', at', unbacked')
    <3> SUFFICES ASSUME script = "asym", ~unbacked
                 PROVE  Kept(disk'["ct_moe.orig"])
      BY <1>1, <2>1 DEF BackupInv, Kept
    <3>1. Kept(disk["ct_moe.orig"])
      BY <1>1, <1>3, BackupThere
    <3> QED BY <1>3, <2>5, <3>1, MarlinFiles
  <2> QED BY <1>1, <2>1, <2>5, <2>6, <2>8, <2>9, <2>10, Shared DEF HoldsNext, StateInv, e
<1> QED BY <1>5, <1>6

LEMMA WriteKeeps == ASSUME Fixed, Holds, Write PROVE HoldsNext
<1> DEFINE f == Step.file
<1>1. /\ doing = "write" /\ disk' = [disk EXCEPT ![f] = mem] /\ doing' = "step" /\ at' = at + 1
      /\ UNCHANGED <<runs, k, mem, unbacked>>
  BY DEF Write, NextStep
<1>2. /\ DiskInv(disk) /\ BackupInv(disk, doing, at, unbacked) /\ PlaceInv(runs, doing, at, k)
      /\ PassedInv(disk', at)
      /\ WriteInv(disk, mem, Step) /\ at \in 1 .. Len(Steps) /\ Step.op \in EditOps
  BY <1>1, StepsLaid DEF Holds, StateInv, Pending, PlaceInv, Step
<1>3. /\ Step = Steps[at] /\ at \in DOMAIN Steps /\ f \in EditedFiles /\ f \in Files(script)
      /\ script = "asym" => at = 2 /\ Step.op = "patch" /\ f = "ct_moe"
  BY <1>2, EditPlace
<1>4. IsText(mem) /\ IsEdited(mem, f) /\ WholeInOrder(mem, f)
  BY <1>2 DEF WriteInv
<1>5. /\ DiskInv(disk') /\ disk'[f] = mem
      /\ \A g \in Files(script) \ {f} : disk'[g] = disk[g]
  BY <1>1, <1>2, <1>3, <1>4, PutText
<1>6. StepDone(disk', Step)
  BY <1>2, <1>5 DEF StepDone, WriteInv, EditOps
<1>7. PassedInv(disk', at + 1)
  BY <1>2, <1>3, <1>6, PassedOne
<1>8. PlaceInv(runs', doing', at', k')
  BY <1>1, <1>2, StepsLaid DEF PlaceInv
<1>9. BackupInv(disk', doing', at', unbacked')
  <2> SUFFICES ASSUME script = "asym", ~unbacked
               PROVE  Kept(disk'["ct_moe.orig"])
    BY <1>1 DEF BackupInv, Kept
  <2>1. Kept(disk["ct_moe.orig"])
    BY <1>1, <1>3, BackupThere
  <2> QED BY <1>3, <1>5, <2>1, MarlinFiles
<1> QED BY <1>1, <1>5, <1>7, <1>8, <1>9, Shared DEF HoldsNext, StateInv, Pending
-----------------------------------------------------------------------------
(* The invariant *)

\* What never changes may be read in either state.
LEMMA SameScript ==
  ASSUME UNCHANGED <<script, layout, image, carries>>
  PROVE  (Fixed' <=> Fixed) /\ (Holds' <=> HoldsNext)
<1>1. Steps' = Steps /\ EditedFiles' = EditedFiles
  BY DEF Steps, EditedFiles
<1>2. /\ \A f : PatchesOf(f)' = PatchesOf(f)
      /\ \A x : Parses(x)' <=> Parses(x)
      /\ \A x, s : ParsesBy(x, s)' <=> ParsesBy(x, s)
      /\ \A x, f : IsEdited(x, f)' <=> IsEdited(x, f)
  BY <1>1 DEF PatchesOf, Parses, ParsesBy, IsEdited
<1>3. \A x, f : WholeInOrder(x, f)' <=> WholeInOrder(x, f)
  BY <1>1, <1>2 DEF WholeInOrder
<1>4. DiskInv(disk)' <=> DiskInv(disk')
  BY <1>1, <1>2, <1>3 DEF DiskInv
<1>5. PlaceInv(runs, doing, at, k)' <=> PlaceInv(runs', doing', at', k')
  BY <1>1 DEF PlaceInv
<1>6. EditInv(disk, mem, Steps[at], k)' <=> EditInv(disk', mem', Steps[at'], k')
  BY <1>1, <1>2 DEF EditInv
<1>7. WriteInv(disk, mem, Steps[at])' <=> WriteInv(disk', mem', Steps[at'])
  BY <1>1, <1>2, <1>3 DEF WriteInv
<1>8. Pending(disk, mem, doing, at)' = Pending(disk', mem', doing', at')
  BY <1>1 DEF Pending
<1>9. \A d, s : StepDone(d, s)' <=> StepDone(d, s)
  BY <1>2 DEF StepDone
<1>10. PassedInv(Pending(disk, mem, doing, at), at)'
         <=> PassedInv(Pending(disk', mem', doing', at'), at')
  BY <1>1, <1>8, <1>9 DEF PassedInv
<1>11. CauseIn(disk, at)' <=> CauseIn(disk', at')
  BY <1>1, <1>2, <1>3 DEF CauseIn
<1>12. BackupInv(disk, doing, at, unbacked)' <=> BackupInv(disk', doing', at', unbacked')
  BY <1>1 DEF BackupInv, Kept, Pristine, Bare
<1>13. Holds' <=> HoldsNext
  BY <1>4, <1>5, <1>6, <1>7, <1>10, <1>11, <1>12 DEF Holds, HoldsNext, StateInv
<1> QED BY <1>13 DEF Fixed

LEMMA InitInstallInv == InstallInit => InstallInv
<1> SUFFICES ASSUME InstallInit PROVE InstallInv
  OBVIOUS
<1>1. Fixed
  <2>1. DOMAIN image = UNION {Names(script, f) : f \in Files(script)}
    BY DEF InstallInit
  <2>2. /\ script \in Scripts /\ layout \in Layouts
        /\ carries => /\ script = "nvfp4"
                      /\ \A e \in Names(script, "flashmla_sparse") : image[e] = "fits"
    BY DEF InstallInit
  <2> QED BY <2>1, <2>2 DEF Fixed
<1>2. PICK there \in BOOLEAN :
        disk = [f \in Files(script) |->
                  IF Names(script, f) # {} \/ (script = "nvfp4" /\ there)
                    THEN File("whole", "image", Uniform(script, f, 0))
                    ELSE File("absent", "image", Uniform(script, f, 0))]
  BY DEF InstallInit
<1>3. ASSUME NEW f \in Files(script)
      PROVE  /\ IsText(disk[f]) /\ Bare(disk[f]) /\ DOMAIN disk[f].has = Names(script, f)
             /\ disk[f].state = IF Names(script, f) # {} \/ (script = "nvfp4" /\ there)
                                  THEN "whole" ELSE "absent"
  <2> DEFINE has == [e \in Names(script, f) |-> 0]
             state == IF Names(script, f) # {} \/ (script = "nvfp4" /\ there)
                        THEN "whole" ELSE "absent"
  <2>1. DOMAIN has = Names(script, f) /\ \A e \in DOMAIN has : has[e] = 0
    OBVIOUS
  <2>2. Uniform(script, f, 0) = has
    BY DEF Uniform
  <2>3. disk[f] = [state |-> state, from |-> "image", has |-> has]
    BY <1>2, <2>2 DEF File
  <2>4. state \in {"absent", "whole"}
    OBVIOUS
  <2> HIDE DEF has, state
  <2>5. /\ DOMAIN disk[f] = {"state", "from", "has"}
        /\ disk[f].state = state /\ disk[f].has = has
    BY <2>3
  <2>6. IsText(disk[f])
    BY <2>1, <2>4, <2>5 DEF IsText
  <2> QED BY <2>1, <2>5, <2>6 DEF Bare, state
<1>4. ASSUME NEW f \in EditedFiles
      PROVE  f \in Files(script) /\ Names(script, f) # {}
  <2>1. PICK i \in DOMAIN Steps : Steps[i].op \in EditOps /\ Steps[i].file = f
    BY <1>1, FilesAre
  <2>2. PICK e \in Edits(Steps[i]) : TRUE
    BY <1>1, <2>1, StepIsMade
  <2>3. e.name \in Names(script, f)
    BY <1>1, <2>1, FilesAre
  <2> QED BY <1>1, <2>3, FilesAre
<1>5. DiskInv(disk)
  <2>1. DOMAIN disk = Files(script)
    BY <1>2
  <2>2. ASSUME NEW f \in EditedFiles
        PROVE  IsEdited(disk[f], f) /\ WholeInOrder(disk[f], f)
    <3>1. IsEdited(disk[f], f)
      BY <1>3, <1>4 DEF IsEdited
    <3> QED BY <1>1, <1>3, <1>4, <3>1, BareInOrder
  <2> QED BY <1>3, <2>1, <2>2 DEF DiskInv
<1>6. /\ runs = 0 /\ doing = "idle" /\ at = 1 /\ k = 1 /\ unbacked = FALSE
  BY DEF InstallInit
<1>7. PlaceInv(runs, doing, at, k)
  BY <1>1, <1>6, StepsLaid, InstallConstants DEF PlaceInv
<1>8. BackupInv(disk, doing, at, unbacked)
  <2> SUFFICES ASSUME script = "asym"
               PROVE  Pristine(disk["ct_moe"]) /\ disk["ct_moe.orig"].state = "absent"
    BY <1>6 DEF BackupInv
  <2>1. /\ "ct_moe" \in EditedFiles /\ "ct_moe" \in Files(script)
        /\ "ct_moe.orig" \in Files(script)
    BY <1>1, MarlinFiles
  <2>2. Names(script, "ct_moe.orig") = {}
    <3>1. /\ 1 \in DOMAIN Steps /\ Steps[1].op = "backup" /\ Steps[1].file = "ct_moe.orig"
      BY <1>1, StepsLaid DEF Scripted
    <3>2. ASSUME "ct_moe.orig" \in EditedFiles PROVE FALSE
      <4>1. PICK i \in DOMAIN Steps : Steps[i].op \in EditOps /\ Steps[i].file = "ct_moe.orig"
        BY <1>1, <3>2, FilesAre
      <4> QED BY <1>1, <3>1, <4>1, StepsLaid DEF Orderly
    <3> QED BY <1>1, <3>2, FilesAre
  <2>3. Pristine(disk["ct_moe"])
    BY <1>3, <1>4, <2>1 DEF Pristine
  <2>4. disk["ct_moe.orig"].state = "absent"
    BY <1>3, <2>1, <2>2
  <2> QED BY <2>3, <2>4
<1>9. Holds
  BY <1>5, <1>6, <1>7, <1>8 DEF Holds, StateInv
<1> QED BY <1>1, <1>9 DEF InstallInv, Holds

LEMMA NextInstallInv == InstallInv /\ [InstallNext]_installVars => InstallInv'
<1> SUFFICES ASSUME InstallInv, [InstallNext]_installVars PROVE InstallInv'
  OBVIOUS
<1>1. Fixed /\ Holds
  BY DEF InstallInv, Holds
<1>2. UNCHANGED <<script, layout, image, carries>>
  BY DEF InstallNext, installVars, Begin, Finish, NoCopy, StartCopy, CopyFails, EndCopy, Read,
         MakeEdit, Open, Write, FinalCheck, Crash
<1>3. HoldsNext
  <2>1. CASE UNCHANGED installVars
    BY <1>1, <2>1 DEF installVars, Holds, HoldsNext
  <2>2. CASE InstallNext
    BY <1>1, <2>2, BeginKeeps, FinishKeeps, NoCopyKeeps,
       StartCopyKeeps, CopyFailsKeeps, EndCopyKeeps, ReadKeeps,
       MakeEditKeeps, OpenKeeps, WriteKeeps, FinalCheckKeeps, CrashKeeps DEF InstallNext
  <2> QED BY <2>1, <2>2
<1> QED BY <1>1, <1>2, <1>3, SameScript DEF InstallInv, Holds

LEMMA InstallInvHolds == InstallSpec => []InstallInv
BY InitInstallInv, NextInstallInv, PTL DEF InstallSpec
-----------------------------------------------------------------------------
(* What the installers promise *)

\* The state of an installer has its types: in particular no edit is made
\* twice, and no step beyond the script's last is looked up.
THEOREM InstallTypes == InstallSpec => []TypeOK
<1>1. InstallInv => TypeOK
  BY DEF InstallInv, Fixed, StateInv, DiskInv, IsText, PlaceInv, TypeOK
<1> QED BY <1>1, InstallInvHolds, PTL

\* A strict installer that says it is done has made every edit of every file,
\* in text that parses, and its kernels are there: whatever earlier runs left.
THEOREM DoneIsPatched == InstallSpec => []DoneMeansPatched
<1>1. ASSUME InstallInv PROVE DoneMeansPatched
  <2> SUFFICES ASSUME Strict, doing = "done" PROVE
        /\ \A f \in EditedFiles : Patched(f) /\ Parses(disk[f])
        /\ \A step \in StepSet(script) :
             step.op = "install" =>
               disk[step.file].state = "whole" /\ disk[step.file].from = "repo"
    BY DEF DoneMeansPatched
  <2>1. Fixed /\ DiskInv(disk) /\ PassedInv(disk, at) /\ at = Len(Steps) + 1
    BY <1>1 DEF InstallInv, StateInv, PlaceInv, Pending
  <2>2. \A i \in DOMAIN Steps : StepDone(disk, Steps[i])
    BY <2>1, StepsLaid DEF PassedInv
  <2>3. ASSUME NEW f \in EditedFiles PROVE Patched(f) /\ Parses(disk[f])
    <3>1. f \in Files(script) /\ IsEdited(disk[f], f) /\ WholeInOrder(disk[f], f)
      BY <2>1, <2>3, FilesAre DEF DiskInv
    <3>2. ASSUME NEW i \in DOMAIN Steps, Steps[i].op \in EditOps, Steps[i].file = f
          PROVE  i \in PatchesOf(f) /\ Made(disk[f], Steps[i]) /\ disk[f].state = "whole"
      <4>1. Steps[i].op = "patch"
        BY <2>1, <3>2, StepIsMade DEF EditOps
      <4> QED BY <2>2, <3>2, <4>1 DEF PatchesOf, StepDone
    <3>3. disk[f].state = "whole"
      BY <2>1, <2>3, <3>2, FilesAre
    <3>4. ASSUME NEW n \in DOMAIN disk[f].has
          PROVE  disk[f].has[n] = 1 /\ (disk[f].has[n] > 0 => image[n] # "breaks")
      <4>1. PICK e \in EditsIn(script, f) : e.name = n
        BY <2>1, <3>1, FilesAre DEF IsEdited
      <4>2. PICK i \in DOMAIN Steps : /\ Steps[i].op \in EditOps /\ Steps[i].file = f
                                      /\ e \in Edits(Steps[i])
        BY <2>1, FilesAre
      <4>3. i \in PatchesOf(f) /\ disk[f].has[n] = 1
        BY <3>2, <4>1, <4>2 DEF Made
      <4>4. CASE Steps[i].parseFirst
        <5>1. ParsesBy(disk[f], Steps[i])
          BY <3>1, <4>3, <4>4 DEF WholeInOrder
        <5> QED BY <4>1, <4>2, <4>3, <5>1 DEF ParsesBy
      <4>5. CASE ~Steps[i].parseFirst
        <5>1. PICK j \in DOMAIN Steps : Steps[j].op = "check" /\ f \in Steps[j].files
          BY <2>1, <4>2, <4>3, <4>5, StepsLaid DEF Orderly, PatchesOf
        <5>2. Parses(disk[f])
          BY <2>2, <5>1 DEF StepDone
        <5> QED BY <4>3, <5>2 DEF Parses
      <4> QED BY <4>4, <4>5
    <3> QED BY <3>3, <3>4 DEF Patched, Parses
  <2>4. ASSUME NEW step \in StepSet(script), step.op = "install"
        PROVE  disk[step.file].state = "whole" /\ disk[step.file].from = "repo"
    <3>1. PICK i \in DOMAIN Steps : step = Steps[i]
      BY DEF StepSet, Steps
    <3> QED BY <2>2, <2>4, <3>1 DEF StepDone
  <2> QED BY <2>3, <2>4
<1> QED BY <1>1, InstallInvHolds, PTL

\* No file that is whole has a part of a patch's edits.
THEOREM PatchesAreWhole == InstallSpec => []WholePatches
<1>1. ASSUME InstallInv PROVE WholePatches
  <2> SUFFICES ASSUME Strict, NEW step \in Editing(script)
               PROVE  \/ \A e \in Edits(step) : disk[step.file].has[e.name] = 0
                      \/ \A e \in Edits(step) : disk[step.file].has[e.name] = 1
    BY DEF WholePatches
  <2>1. Fixed /\ DiskInv(disk)
    BY <1>1 DEF InstallInv, StateInv
  <2>2. PICK i \in DOMAIN Steps : step = Steps[i] /\ Steps[i].op \in EditOps
    BY DEF Editing, StepSet, Steps, EditOps
  <2>3. step.file \in EditedFiles /\ i \in PatchesOf(step.file)
    BY <2>1, <2>2, FilesAre, StepIsMade DEF PatchesOf, EditOps
  <2>4. WholeInOrder(disk[step.file], step.file)
    BY <2>1, <2>3 DEF DiskInv
  <2> QED BY <2>2, <2>3, <2>4 DEF WholeInOrder, Made, Unmade
<1> QED BY <1>1, InstallInvHolds, PTL

\* A run fails for its image, at a copy, or for an emptied file, and never
\* for what an earlier run has completed.
THEOREM FailuresHaveCauses == InstallSpec => []FailsForCause
<1>1. InstallInv => FailsForCause
  BY DEF InstallInv, StateInv, CauseIn, FailsForCause, Step
<1> QED BY <1>1, InstallInvHolds, PTL

\* Unless a backup's copy has failed or was cut short, the Marlin file as
\* shipped is whole on disk, in its place or as its backup, and a backup that
\* is whole is that file.
THEOREM OriginalsAreKept == InstallSpec => []OriginalIsKept
<1>1. ASSUME InstallInv PROVE OriginalIsKept
  <2> DEFINE AsShipped(f) == /\ disk[f].state = "whole"
                             /\ \A e \in Names(script, "ct_moe") : disk[f].has[e] = 0
  <2> SUFFICES ASSUME script = "asym", ~unbacked
      PROVE  /\ AsShipped("ct_moe") \/ AsShipped("ct_moe.orig")
             /\ disk["ct_moe.orig"].state = "whole" => AsShipped("ct_moe.orig")
    BY DEF OriginalIsKept
  <2>1. Fixed /\ DiskInv(disk) /\ BackupInv(disk, doing, at, unbacked)
    BY <1>1 DEF InstallInv, StateInv
  <2>2. DOMAIN disk["ct_moe"].has = Names(script, "ct_moe")
    BY <2>1, MarlinFiles DEF DiskInv, IsEdited
  <2>3. Pristine(disk["ct_moe"]) => AsShipped("ct_moe")
    BY <2>2 DEF Pristine, Bare
  <2> QED BY <2>1, <2>3 DEF BackupInv, Kept
<1> QED BY <1>1, InstallInvHolds, PTL

\* Once every edit is made no step of a strict installer, in this run or a
\* later one, touches a file it edits, unless it is one it also copies.
THEOREM RerunsDoNothing == InstallSpec => RerunIsNoOp
<1> DEFINE A == Strict /\ (\A f \in EditedFiles : Patched(f))
                  => \A f \in EditedFiles \ CopiedFiles : disk'[f] = disk[f]
<1>1. ASSUME InstallInv, [InstallNext]_installVars PROVE [A]_installVars
  <2> SUFFICES ASSUME InstallNext, Strict, \A f \in EditedFiles : Patched(f),
                      NEW f \in EditedFiles, f \notin CopiedFiles
               PROVE  disk'[f] = disk[f]
    BY <1>1
  <2>1. Fixed /\ DiskInv(disk) /\ PlaceInv(runs, doing, at, k) /\ DOMAIN disk = Files(script)
    BY <1>1 DEF InstallInv, StateInv, DiskInv
  <2>2. CASE Begin \/ Finish \/ NoCopy \/ CopyFails \/ Read \/ MakeEdit \/ FinalCheck \/ Crash
    BY <2>2 DEF Begin, Finish, NoCopy, CopyFails, Read, MakeEdit, FinalCheck, Crash
  <2>3. CASE StartCopy \/ EndCopy
    <3>1. at \in DOMAIN Steps /\ Step.op \in CopyOps
      BY <2>1, <2>3, StepsLaid DEF StartCopy, EndCopy, AtStep, CopyOps, PlaceInv, Step
    <3>2. Step.file \in CopiedFiles
      BY <3>1 DEF CopiedFiles, Copying, StepSet, Step, Steps, CopyOps
    <3>3. Step.file # f
      BY <3>2
    <3>4. \E x : disk' = [disk EXCEPT ![Step.file] = x]
      BY <2>3 DEF StartCopy, EndCopy
    <3> QED BY <2>1, <3>3, <3>4
  <2>4. CASE Open \/ Write
    <3>1. at \in 1 .. Len(Steps) /\ Step.op \in EditOps /\ Step = Steps[at]
      BY <2>1, <2>4, StepsLaid DEF Open, Write, PlaceInv, Step
    <3>2. Step.file \in EditedFiles /\ EditsListed(Step.edits)
      BY <2>1, <3>1, EditPlace
    <3>3. Patched(Step.file)
      BY <3>2
    <3>4. CASE Write
      <4>1. disk[Step.file].state = "empty"
        BY <1>1, <3>1, <3>4 DEF Write, InstallInv, StateInv, WriteInv
      <4> QED BY <3>3, <4>1 DEF Patched
    <3>5. CASE Open
      <4>1. EditInv(disk, mem, Step, k) /\ Step.op = "patch"
        BY <1>1, <2>1, <3>1, <3>5, StepIsMade, StepsLaid DEF Open, InstallInv, StateInv, EditOps
      <4>2. Unmade(disk[Step.file], Step)
        BY <4>1 DEF EditInv
      <4>3. PICK e \in Edits(Step) : e.name \in Names(script, Step.file)
        BY <2>1, <3>1, EditPlace, StepIsMade, StepsLaid
      <4>4. DOMAIN disk[Step.file].has = Names(script, Step.file)
        BY <2>1, <3>2 DEF DiskInv, IsEdited
      <4> QED BY <3>3, <4>2, <4>3, <4>4 DEF Unmade, Patched
    <3> QED BY <2>4, <3>4, <3>5
  <2> QED BY <2>2, <2>3, <2>4 DEF InstallNext
<1>2. InstallInv /\ [InstallNext]_installVars => [A]_installVars
  BY <1>1
<1> QED BY <1>2, InstallInvHolds, PTL DEF InstallSpec, RerunIsNoOp
-----------------------------------------------------------------------------
(* What a row holds *)

Rows == [state : {"queued", "running", "done"}, tries : Nat, txt : Texts \cup ErrTexts,
         status : {"none", "ok", "empty", "length", "error"}]

NotAsked == [text |-> "none", fin |-> "none"]

RowsType == /\ bench \in Runners \cup {"none"}
            /\ row \in [Questions -> Rows]
            /\ got \in [Questions -> Outcomes \cup {NotAsked}]

\* The text is that of the last attempt, and nothing when there was none or
\* it was cut short.  A program is not asked for again once there is one, so
\* its text too is that of the last attempt, or nothing.
RowFollows(q) ==
  IF bench = "codegen"
  THEN /\ row[q].txt = IF Taken(got[q]) THEN Sanitized(got[q].text) ELSE "none"
       /\ row[q].status = "length" <=> got[q].fin = "length"
       /\ row[q].status = "ok" <=> Taken(got[q]) /\ Sanitized(got[q].text) # "none"
       /\ row[q].state # "done" => row[q].txt = "none"
  ELSE row[q].txt = IF got[q].fin \in {"none", "length"} THEN "none" ELSE got[q].text

RowsInv == RowsType /\ \A q \in Questions : RowFollows(q)

LEMMA RowsInit == Init => RowsInv
BY DEF Init, BenchInit, NoRows, NoneAsked, NotAsked, Fresh, RowsInv, RowsType, RowFollows, Rows,
       Texts, Taken, Sanitized

\* Rows as they are when no benchmark has asked.
LEMMA ClearedRows ==
  ASSUME bench' \in Runners \cup {"none"}, row' = NoRows, got' = NoneAsked
  PROVE  RowsInv'
BY DEF NoRows, NoneAsked, NotAsked, Fresh, RowsInv, RowsType, RowFollows, Rows,
       Texts, Taken, Sanitized

\* An outcome is a reply, or an error, whose text shows it.
LEMMA OutcomeIs ==
  ASSUME NEW o \in Outcomes
  PROVE  /\ o.text \in Texts \cup ErrTexts /\ o.fin \in {"stop", "length", "other", "error"}
         /\ o.fin = "error" <=> o.text \in ErrTexts
         /\ Taken(o) => Sanitized(o.text) \in Texts
BY DEF Outcomes, Replies, Errors, Texts, ErrTexts, Taken, Sanitized

\* One attempt: what a thread holds follows the outcome it has got.
LEMMA AttemptFollows ==
  ASSUME RowsInv, NEW q \in Questions, NEW o \in Outcomes, Attempt(q, o)
  PROVE  RowsInv'
<1> DEFINE r == Held([row[q] EXCEPT !.tries = @ + 1], o)
           s == IF Content(o) \/ r.tries = Tries THEN [r EXCEPT !.state = "done", !.tries = 0]
                                                ELSE r
<1>1. /\ row' = [row EXCEPT ![q] = s] /\ got' = [got EXCEPT ![q] = o] /\ bench' = bench
      /\ row[q].state = "running" /\ bench \in Runners
  BY DEF Attempt, RowsInv, RowsType, In
<1>2. row[q] \in Rows
  BY DEF RowsInv, RowsType
<1>3. r \in Rows /\ r.state = "running"
  <2> DEFINE t == [row[q] EXCEPT !.tries = @ + 1]
  <2>1. t \in Rows /\ t.state = "running"
    BY <1>1, <1>2 DEF Rows
  <2>2. CASE bench # "codegen"
    <3> DEFINE text == IF o.fin = "length" THEN "none" ELSE o.text
    <3>1. r = [t EXCEPT !.txt = text]
      BY <2>2 DEF Held
    <3>2. text \in Texts \cup ErrTexts
      BY OutcomeIs DEF Texts
    <3> HIDE DEF text, t
    <3> QED BY <2>1, <3>1, <3>2 DEF Rows
  <2>3. CASE bench = "codegen" /\ Taken(o)
    <3> DEFINE text == Sanitized(o.text)
               status == IF text = "none" THEN "empty" ELSE "ok"
    <3>1. r = [t EXCEPT !.txt = text, !.status = status]
      BY <2>3 DEF Held
    <3>2. text \in Texts /\ status \in {"empty", "ok"}
      BY <2>3, OutcomeIs
    <3> HIDE DEF text, status, t
    <3> QED BY <2>1, <3>1, <3>2 DEF Rows
  <2>4. CASE bench = "codegen" /\ ~Taken(o)
    <3>1. r = [t EXCEPT !.status = o.fin] /\ o.fin \in {"length", "error"}
      BY <2>4, OutcomeIs DEF Held, Taken
    <3> HIDE DEF t
    <3> QED BY <2>1, <3>1 DEF Rows
  <2> QED BY <2>2, <2>3, <2>4
<1>4. s \in Rows /\ s.txt = r.txt /\ s.status = r.status
      /\ (Content(o) => s.state = "done")
  BY <1>3 DEF Rows
<1>5. RowsType'
  BY <1>1, <1>4 DEF RowsInv, RowsType
<1>6. row'[q] = s /\ got'[q] = o
  BY <1>1 DEF RowsInv, RowsType
<1>7. RowFollows(q)
  BY DEF RowsInv
<1>8. RowFollows(q)'
  <2>1. CASE bench = "codegen"
    <3>1. r.txt = IF Taken(o) THEN Sanitized(o.text) ELSE row[q].txt
      BY <1>2, <2>1 DEF Held, Rows
    <3>2. r.status = "length" <=> o.fin = "length"
      BY <1>2, <2>1, OutcomeIs DEF Held, Rows, Taken
    <3>3. r.status = "ok" <=> Taken(o) /\ Sanitized(o.text) # "none"
      BY <1>2, <2>1, OutcomeIs DEF Held, Rows, Taken
    <3>4. row[q].txt = "none"
      BY <1>1, <1>7, <2>1 DEF RowFollows
    <3>5. s.state # "done" => r.txt = "none"
      BY <1>4, <2>1, <3>1, <3>4 DEF Content
    <3> QED BY <1>1, <1>4, <1>6, <2>1, <3>1, <3>2, <3>3, <3>4, <3>5 DEF RowFollows
  <2>2. CASE bench # "codegen"
    <3>1. r.txt = IF o.fin = "length" THEN "none" ELSE o.text
      BY <1>2, <2>2 DEF Held, Rows
    <3>2. o.fin # "none"
      BY OutcomeIs
    <3> QED BY <1>1, <1>4, <1>6, <2>2, <3>1, <3>2 DEF RowFollows
  <2> QED BY <2>1, <2>2
<1>9. ASSUME NEW p \in Questions, p # q PROVE RowFollows(p)'
  <2>1. row'[p] = row[p] /\ got'[p] = got[p]
    BY <1>1, <1>9 DEF RowsInv, RowsType
  <2> QED BY <1>1, <2>1 DEF RowFollows, RowsInv
<1> QED BY <1>5, <1>8, <1>9 DEF RowsInv

\* A question taken up is one nobody has asked.
LEMMA TakeFollows ==
  ASSUME RowsInv, Take
  PROVE  RowsInv'
<1>1. PICK q \in In("queued") : row' = [row EXCEPT ![q].state = "running"]
  BY DEF Take
<1>2. q \in Questions /\ row[q].state = "queued" /\ bench' = bench /\ got' = got
  BY DEF In, Take
<1>3. row[q] \in Rows
  BY <1>2 DEF RowsInv, RowsType
<1>4. [row[q] EXCEPT !.state = "running"] \in Rows
  BY <1>3 DEF Rows
<1>5. RowsType'
  BY <1>1, <1>2, <1>4 DEF RowsInv, RowsType
<1>6. ASSUME NEW p \in Questions PROVE RowFollows(p)'
  <2>1. RowFollows(p)
    BY DEF RowsInv
  <2>2. row'[p].txt = row[p].txt /\ row'[p].status = row[p].status
        /\ (row'[p].state # "done" => row[p].state # "done")
    BY <1>1, <1>2, <1>3 DEF RowsInv, RowsType, Rows
  <2> QED BY <1>2, <2>1, <2>2 DEF RowFollows
<1> QED BY <1>5, <1>6 DEF RowsInv

LEMMA RowsStep == RowsInv /\ [Next]_vars => RowsInv'
<1> SUFFICES ASSUME RowsInv, [Next]_vars PROVE RowsInv'
  OBVIOUS
<1>1. CASE Launching
  BY <1>1, ClearedRows DEF Launching, EndBench
<1>2. CASE Measure
  BY <1>2, ClearedRows DEF Measure, StartBench
<1>3. CASE Take
  BY <1>3, TakeFollows
<1>4. CASE Ask
  BY <1>4, AttemptFollows DEF Ask
<1>5. CASE UNCHANGED benchVars
  BY <1>5 DEF benchVars, RowsInv, RowsType, RowFollows
<1> QED BY <1>1, <1>2, <1>3, <1>4, <1>5 DEF Next, vars

(***************************************************************************)
(* What is counted is what the last attempt brought, by the text of a      *)
(* reply that was not cut for its length, however else it ended: for any   *)
(* number of questions and threads, whatever the server does.              *)
(***************************************************************************)
THEOREM CountsAreAnswers == Spec => []RowsAreAnswers
<1>1. RowsInv => RowsAreAnswers
  <2> SUFFICES ASSUME RowsInv, NEW q \in In("done")
               PROVE /\ ok(q) /\ ~empty(q)  <=> Taken(got[q]) /\ got[q].text = "right"
                     /\ ~ok(q) /\ ~empty(q) <=>
                          /\ Taken(got[q])
                          /\ \/ got[q].text = "wrong"
                             \/ bench # "codegen" /\ got[q].text = "unclear"
                     /\ ok(q) /\ empty(q) <=> bench # "codegen" /\ got[q].text = "err_right"
                     /\ bench = "codegen" =>
                          /\ row[q].status = "length" <=> got[q].fin = "length"
                          /\ row[q].status = "ok" <=> /\ got[q].fin \in {"stop", "other"}
                                                      /\ got[q].text \in {"right", "wrong"}
    BY DEF RowsAreAnswers
  <2> DEFINE o == got[q]
  <2>1. q \in Questions
    BY DEF In
  <2>2. RowFollows(q) /\ o \in Outcomes \cup {NotAsked}
    BY <2>1 DEF RowsInv, RowsType
  <2>3. \/ /\ o.text \in Texts \cup ErrTexts /\ o.fin \in {"stop", "length", "other", "error"}
           /\ o.fin = "error" <=> o.text \in ErrTexts
        \/ o.fin = "none" /\ o.text = "none"
    BY <2>2, OutcomeIs DEF NotAsked
  <2>4. CASE bench = "codegen"
    <3>1. /\ row[q].txt = IF Taken(o) THEN Sanitized(o.text) ELSE "none"
          /\ row[q].status = "length" <=> o.fin = "length"
          /\ row[q].status = "ok" <=> Taken(o) /\ Sanitized(o.text) # "none"
      BY <2>2, <2>4 DEF RowFollows
    <3> HIDE DEF o
    <3> QED BY <2>3, <2>4, <3>1 DEF o, ok, empty, Taken, Sanitized, Texts, ErrTexts
  <2>5. CASE bench # "codegen"
    <3>1. row[q].txt = IF o.fin \in {"none", "length"} THEN "none" ELSE o.text
      BY <2>2, <2>5 DEF RowFollows
    <3> HIDE DEF o
    <3> QED BY <2>3, <2>5, <3>1 DEF o, ok, empty, Taken, Texts, ErrTexts
  <2> QED BY <2>4, <2>5
<1> QED BY <1>1, RowsInit, RowsStep, PTL DEF Spec
-----------------------------------------------------------------------------
(* Who has taken a rank *)

Seats == [Workers -> Nat]

ClusterType ==
  /\ launch \in Nat
  /\ head \in [of : Nat, seat : Seats, ready : BOOLEAN]
  /\ worker \in [Workers -> [of : Nat, with : Nat]]
  /\ pc \in {"idle", "clear", "head", "workers", "poll"} \cup Ended

\* The head's container is an earlier experiment's until the head is launched,
\* and then only if its node was neither cleared nor freed.
HeadIsOld ==
  head.of # 0 => /\ head.of <= launch
                 /\ pc \in {"idle", "clear", "head"} => head.of < launch
                 /\ head.of # launch => HeadNode \notin clean \cup freed

\* A node that was cleared, or freed by a launcher, has no container of
\* another experiment, and what was cleared takes no rank.
Rid(n) == /\ n \in clean \cup freed => worker[n].of \in {0, launch}
          /\ n \in clean /\ head.of # 0 /\ head.of = launch => head.seat[n] \in {0, launch}

\* Starting the head is a group of one command.
HeadAlone == pc = "head" => todo = {HeadNode}

RanksInv == ClusterType /\ HeadIsOld /\ HeadAlone /\ \A n \in Workers : Rid(n)

LEMMA RanksInit == Init => RanksInv
BY DEF Init, ClusterInit, RanksInv, ClusterType, HeadIsOld, HeadAlone, Rid, NoHead, NoWorker,
       Seats, Ended

LEMMA RanksStart == RanksInv /\ Start => RanksInv'
<1> SUFFICES ASSUME RanksInv, Start PROVE RanksInv'
  OBVIOUS
<1>1. launch' = launch + 1 /\ pc' = "clear" /\ clean' = {} /\ freed' = {}
      /\ head' = head /\ worker' = worker /\ pc \in {"idle"} \cup Ended
  BY DEF Start
<1>2. head.of \in Nat /\ launch \in Nat
  BY DEF RanksInv, ClusterType
<1>3. HeadIsOld'
  BY <1>1, <1>2 DEF HeadIsOld, RanksInv, Ended
<1>4. ClusterType'
  BY <1>1, <1>2 DEF RanksInv, ClusterType
<1>5. \A n \in Workers : Rid(n)'
  BY <1>1 DEF Rid
<1>6. HeadAlone'
  BY <1>1 DEF HeadAlone
<1> QED BY <1>3, <1>4, <1>5, <1>6 DEF RanksInv

LEMMA NoHeadType == NoHead \in [of : Nat, seat : Seats, ready : BOOLEAN] /\ NoHead.of = 0
BY DEF NoHead, Seats

LEMMA RanksClear ==
  ASSUME RanksInv, NEW n \in Nodes, Clear(n)
  PROVE  RanksInv'
<1>1. /\ pc = "clear" /\ pc' \in {"clear", "head"} /\ launch' = launch /\ freed' = freed
      /\ clean' \subseteq clean \cup {n}
      /\ head' = NoHead \/ (head' = head /\ (clean' = clean \/ n # HeadNode))
      /\ \/ worker' = worker /\ (clean' = clean \/ n = HeadNode)
         \/ n \in Workers /\ worker' = [worker EXCEPT ![n] = NoWorker]
  BY DEF Clear, Done, Nodes
<1>2. head.of \in Nat /\ launch \in Nat
  BY DEF RanksInv, ClusterType
<1>3. ClusterType'
  BY <1>1, <1>2, NoHeadType DEF RanksInv, ClusterType, NoWorker
<1>4. HeadIsOld' /\ ~(head'.of # 0 /\ head'.of = launch)
  BY <1>1, <1>2, NoHeadType DEF RanksInv, HeadIsOld
<1>5. ASSUME NEW p \in Workers PROVE Rid(p)'
  <2>1. worker'[p] = worker[p] \/ worker'[p] = NoWorker
    BY <1>1 DEF RanksInv, ClusterType
  <2>2. p \in clean' \ clean => worker'[p] = NoWorker
    BY <1>1, ClusterConstants DEF RanksInv, ClusterType
  <2>3. NoWorker.of = 0
    BY DEF NoWorker
  <2>4. Rid(p)
    BY DEF RanksInv
  <2> QED BY <1>1, <1>4, <2>1, <2>2, <2>3, <2>4 DEF Rid
<1>6. HeadAlone'
  BY DEF HeadAlone, Clear, Done
<1> QED BY <1>3, <1>4, <1>5, <1>6 DEF RanksInv

LEMMA RanksLaunchHead == RanksInv /\ LaunchHead => RanksInv'
<1> SUFFICES ASSUME RanksInv, LaunchHead PROVE RanksInv'
  OBVIOUS
<1> DEFINE new == [NoHead EXCEPT !.of = launch]
<1>1. /\ pc = "head" /\ pc' = "workers"
      /\ \/ head' \in {NoHead, new} /\ freed' = freed \cup ({HeadNode} \ clean)
         \/ head' = head /\ freed' = freed
      /\ launch' = launch /\ worker' = worker /\ clean' = clean
  BY DEF LaunchHead, Done, RanksInv, HeadAlone
<1>2. /\ launch \in Nat /\ new \in [of : Nat, seat : Seats, ready : BOOLEAN]
      /\ new.of = launch /\ \A n \in Workers : new.seat[n] = 0
  BY DEF NoHead, Seats, RanksInv, ClusterType
<1>3. ClusterType'
  BY <1>1, <1>2, NoHeadType DEF RanksInv, ClusterType
<1>4. HeadIsOld' /\ HeadAlone'
  BY <1>1, <1>2, NoHeadType DEF HeadIsOld, HeadAlone, RanksInv
<1>5. ASSUME NEW n \in Workers PROVE Rid(n)'
  <2>1. Rid(n) /\ n # HeadNode
    BY ClusterConstants DEF RanksInv
  <2> QED BY <1>1, <1>2, <2>1, NoHeadType DEF Rid
<1> QED BY <1>3, <1>4, <1>5 DEF RanksInv

LEMMA RanksLaunchWorker ==
  ASSUME RanksInv, NEW n \in Workers, LaunchWorker(n)
  PROVE  RanksInv'
<1>1. /\ pc = "workers" /\ pc' \in {"workers", "poll"} /\ head' = head
      /\ launch' = launch /\ clean' = clean
      /\ \/ worker' = worker /\ freed' = freed
         \/ /\ freed' = freed \cup ({n} \ clean)
            /\ \E of \in {0, launch} : worker' = [worker EXCEPT ![n] = [of |-> of, with |-> 0]]
  BY DEF LaunchWorker, Done
<1>2. launch \in Nat
  BY DEF RanksInv, ClusterType
<1>3. ClusterType'
  BY <1>1, <1>2 DEF RanksInv, ClusterType
<1>4. HeadIsOld' /\ HeadAlone'
  BY <1>1, ClusterConstants DEF HeadIsOld, HeadAlone, RanksInv
<1>5. ASSUME NEW p \in Workers PROVE Rid(p)'
  <2>1. worker'[p].of \in {0, launch} \/ (worker'[p] = worker[p] /\ (p \in freed' => p \in freed))
    BY <1>1 DEF RanksInv, ClusterType
  <2>2. Rid(p)
    BY DEF RanksInv
  <2> QED BY <1>1, <2>1, <2>2 DEF Rid
<1> QED BY <1>3, <1>4, <1>5 DEF RanksInv

LEMMA RanksPoll == RanksInv /\ Poll => RanksInv'
<1> SUFFICES ASSUME RanksInv, Poll PROVE RanksInv'
  OBVIOUS
<1>1. /\ pc = "poll" /\ pc' \in {"ready", "died", "timeout", "poll"} /\ head' = head
      /\ launch' = launch /\ worker' = worker /\ clean' = clean /\ freed' = freed
  BY DEF Poll
<1>2. ClusterType' /\ HeadIsOld' /\ HeadAlone'
  BY <1>1 DEF RanksInv, ClusterType, HeadIsOld, HeadAlone, Ended
<1>3. \A n \in Workers : Rid(n)'
  BY <1>1 DEF RanksInv, Rid
<1> QED BY <1>2, <1>3 DEF RanksInv

\* A worker joins with the rank of what it is: only containers that were
\* neither cleared nor replaced can bring another experiment's.
LEMMA RanksJoin ==
  ASSUME RanksInv, NEW n \in Workers, Join(n)
  PROVE  RanksInv'
<1>1. /\ worker' = [worker EXCEPT ![n].with = head.of]
      /\ head' = [head EXCEPT !.seat[n] = worker[n].of]
      /\ UNCHANGED <<launch, pc, todo, clean, freed>>
  BY DEF Join
<1>2. /\ head \in [of : Nat, seat : Seats, ready : BOOLEAN]
      /\ worker \in [Workers -> [of : Nat, with : Nat]]
  BY DEF RanksInv, ClusterType
<1>3. /\ head' \in [of : Nat, seat : Seats, ready : BOOLEAN] /\ head'.of = head.of
      /\ \A p \in Workers : head'.seat[p] = IF p = n THEN worker[n].of ELSE head.seat[p]
  <2>1. worker[n].of \in Nat
    BY <1>2
  <2>2. head.seat \in Seats
    BY <1>2
  <2>3. [head.seat EXCEPT ![n] = worker[n].of] \in Seats
    BY <2>1, <2>2 DEF Seats
  <2>4. head' = [head EXCEPT !.seat = [head.seat EXCEPT ![n] = worker[n].of]]
    BY <1>1, <1>2
  <2>5. head'.seat = [head.seat EXCEPT ![n] = worker[n].of] /\ head'.of = head.of
    BY <1>2, <2>4
  <2>6. head' \in [of : Nat, seat : Seats, ready : BOOLEAN]
    BY <1>2, <2>3, <2>4
  <2> QED BY <2>2, <2>5, <2>6 DEF Seats
<1>4. worker' \in [Workers -> [of : Nat, with : Nat]]
      /\ \A p \in Workers : worker'[p].of = worker[p].of
  BY <1>1, <1>2
<1>5. ClusterType' /\ HeadIsOld' /\ HeadAlone'
  BY <1>1, <1>3, <1>4 DEF RanksInv, ClusterType, HeadIsOld, HeadAlone
<1>6. ASSUME NEW p \in Workers PROVE Rid(p)'
  <2>1. Rid(p)
    BY DEF RanksInv
  <2> QED BY <1>1, <1>3, <1>4, <2>1 DEF Rid
<1> QED BY <1>5, <1>6 DEF RanksInv

LEMMA RanksHeadReady == RanksInv /\ HeadReady => RanksInv'
<1> SUFFICES ASSUME RanksInv, HeadReady PROVE RanksInv'
  OBVIOUS
<1>1. /\ head' = [head EXCEPT !.ready = TRUE]
      /\ UNCHANGED <<launch, pc, todo, worker, clean, freed>>
  BY DEF HeadReady
<1>2. head \in [of : Nat, seat : Seats, ready : BOOLEAN]
  BY DEF RanksInv, ClusterType
<1>3. head' \in [of : Nat, seat : Seats, ready : BOOLEAN]
      /\ head'.of = head.of /\ head'.seat = head.seat
  BY <1>1, <1>2
<1>4. ClusterType' /\ HeadIsOld' /\ HeadAlone'
  BY <1>1, <1>3 DEF RanksInv, ClusterType, HeadIsOld, HeadAlone
<1>5. \A n \in Workers : Rid(n)'
  BY <1>1, <1>3 DEF RanksInv, Rid
<1> QED BY <1>4, <1>5 DEF RanksInv

LEMMA RanksDie == RanksInv /\ Die => RanksInv'
<1> SUFFICES ASSUME RanksInv, Die PROVE RanksInv'
  OBVIOUS
<1>1. /\ UNCHANGED <<launch, pc, todo, clean, freed>>
      /\ \/ head' = NoHead /\ worker' = worker
         \/ \E n \in Workers : worker' = [worker EXCEPT ![n] = NoWorker] /\ head' = head
  BY DEF Die
<1>2. NoWorker \in [of : Nat, with : Nat] /\ NoWorker.of = 0
  BY DEF NoWorker
<1>3. ClusterType'
  BY <1>1, <1>2, NoHeadType DEF RanksInv, ClusterType
<1>4. HeadIsOld' /\ HeadAlone'
  BY <1>1, NoHeadType DEF RanksInv, HeadIsOld, HeadAlone
<1>5. ASSUME NEW p \in Workers PROVE Rid(p)'
  <2>1. worker'[p] = worker[p] \/ worker'[p] = NoWorker
    BY <1>1 DEF RanksInv, ClusterType
  <2>2. Rid(p)
    BY DEF RanksInv
  <2> QED BY <1>1, <1>2, <2>1, <2>2, NoHeadType DEF Rid
<1> QED BY <1>3, <1>4, <1>5 DEF RanksInv

LEMMA RanksStep == RanksInv /\ [Next]_vars => RanksInv'
<1> SUFFICES ASSUME RanksInv, [Next]_vars PROVE RanksInv'
  OBVIOUS
<1>1. CASE Launching
  BY <1>1, RanksStart DEF Launching
<1>2. CASE Script
  <2>1. CASE LaunchHead
    BY <2>1, RanksLaunchHead
  <2>2. CASE Poll
    BY <2>2, RanksPoll
  <2>3. ASSUME NEW n \in Nodes, Clear(n) PROVE RanksInv'
    BY <2>3, RanksClear
  <2>4. ASSUME NEW n \in Nodes, n # HeadNode, LaunchWorker(n) PROVE RanksInv'
    BY <2>4, RanksLaunchWorker DEF Nodes
  <2> QED BY <1>2, <2>1, <2>2, <2>3, <2>4 DEF Script
<1>3. CASE Containers
  BY <1>3, RanksHeadReady, RanksDie, RanksJoin DEF Containers
<1>4. CASE UNCHANGED clusterVars
  BY <1>4 DEF clusterVars, RanksInv, ClusterType, HeadIsOld, HeadAlone, Rid
<1> QED BY <1>1, <1>2, <1>3, <1>4 DEF Next, Measure, Ask, vars

(***************************************************************************)
(* An earlier head is there only where clearing and removal both failed;   *)
(* this experiment's head has given ranks to earlier workers only on nodes *)
(* not cleared, and none serves on a node that is cleared or freed: for    *)
(* any number of nodes, experiments and polls.                             *)
(***************************************************************************)
THEOREM RanksBelong == Spec => []RanksAreOwn
<1>1. RanksInv => RanksAreOwn
  <2> SUFFICES ASSUME RanksInv, pc \in {"workers", "poll", "ready"}, head.of # 0
               PROVE  /\ head.of # launch => HeadNode \notin clean \cup freed
                      /\ \A n \in Workers : head.seat[n] \notin {0, launch} =>
                           /\ head.of = launch => n \notin clean
                           /\ worker[n] = [of |-> head.seat[n], with |-> head.of] =>
                                n \notin clean \cup freed
    BY DEF RanksAreOwn
  <2>1. head.of # launch => HeadNode \notin clean \cup freed
    BY DEF RanksInv, HeadIsOld
  <2>2. ASSUME NEW n \in Workers, head.seat[n] \notin {0, launch}
        PROVE  /\ head.of = launch => n \notin clean
               /\ worker[n] = [of |-> head.seat[n], with |-> head.of] =>
                    n \notin clean \cup freed
    <3>1. Rid(n)
      BY DEF RanksInv
    <3>2. worker[n] = [of |-> head.seat[n], with |-> head.of] => worker[n].of = head.seat[n]
      OBVIOUS
    <3> QED BY <2>2, <3>1, <3>2 DEF Rid
  <2> QED BY <2>1, <2>2
<1> QED BY <1>1, RanksInit, RanksStep, PTL DEF Spec
=============================================================================
