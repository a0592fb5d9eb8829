---------------------------- MODULE PatchScripts ----------------------------
(***************************************************************************)
(* The four patch installers as data: what each script copies, which edits *)
(* it makes to which file of the installed package, in which order.        *)
(*                                                                         *)
(* The text of an edit is reduced to what the scripts can tell of it: the  *)
(* markers it carries, whether the text it looks for (its anchor) is still *)
(* there after the edit, and how many copies of the anchor the file has.   *)
(***************************************************************************)
EXTENDS Sequences

\* An edit whose anchor is replaced, and one that leaves its anchor in place.
Replaces(name, marks) == [name |-> name, marks |-> marks, keeps |-> FALSE, copies |-> 1]
Inserts(name, marks)  == [name |-> name, marks |-> marks, keeps |-> TRUE, copies |-> 1]

\* The steps of a script: a kernel file that must be there; one that is
\* copied only over an existing file; a backup made once; a file edited
\* unless its marker is found; replacements made wherever they fit; a final
\* check of the named files.
Install(file)              == [op |-> "install", file |-> file]
CopyOver(file)             == [op |-> "copyover", file |-> file]
Backup(file, of)           == [op |-> "backup", file |-> file, of |-> of]
Patch(file, marker, edits) == [op |-> "patch", file |-> file, marker |-> marker,
                               edits |-> edits, parseFirst |-> TRUE]
Check(files)               == [op |-> "check", files |-> files]
-----------------------------------------------------------------------------
(* sm12x-deepgemm-bypass/run.sh *)

GLM == {"GLM52_SM12X_SPARSE"}

DeepGemmEdits == << Inserts("helper", GLM), Inserts("mqa_logits", GLM),
                    Inserts("paged_mqa_logits", GLM), Inserts("hc_prenorm", GLM) >>

GateEdits == << Replaces("constructor_gate", GLM) >>

Sm12xSteps ==
  << Install("sm12x_mqa"), Install("fallbacks"), Install("b12x_helpers"),
     Patch("deep_gemm", "GLM52_SM12X_SPARSE", DeepGemmEdits),
     Patch("sparse_attn_indexer", "GLM52_SM12X_SPARSE", GateEdits),
     Check({"deep_gemm", "sparse_attn_indexer"}) >>
-----------------------------------------------------------------------------
(* nvfp4-mla-kv/run.sh *)

NV == {"nvfp4_ds_mla"}

FlashmlaEdits == << Replaces("fm_dtypes", NV), Inserts("fm_shape", NV),
                    Replaces("fm_assert", NV), Replaces("fm_use_cache", NV),
                    Replaces("fm_decode", NV) >>

CacheEdits == << Inserts("cache_dtype", NV) >>

QuantModeEdits == << Inserts("quant_mode", NV) >>

\* The marker of these two edits is the text "* 416" of the new page size.
PageSizeEdits == << Replaces("mla_page", NV \cup {"times_416"}),
                    Replaces("swa_page", NV \cup {"times_416"}) >>

TorchUtilsEdits == << Replaces("str_dtype", NV) >>

MlaAttentionEdits == << Replaces("kv_dtype_route", NV) >>

\* The method stands in the file twice; the last copy is the one edited.
BackendEdits == << [Replaces("store", NV \cup {"nvfp4_ds_mla_store"})
                      EXCEPT !.copies = 2] >>

\* Mutant of Nvfp4Steps: the page size is patched before the quant mode,
\* whose marker its text contains.
Nvfp4PageSizeFirst ==
  << CopyOver("sm12x_sparse_mla_attn"), CopyOver("flashmla_sparse"),
     Patch("flashmla_sparse", "nvfp4_ds_mla", FlashmlaEdits),
     Patch("cache", "nvfp4_ds_mla", CacheEdits),
     Patch("kv_cache_interface", "times_416", PageSizeEdits),
     Patch("kv_cache_interface", "nvfp4_ds_mla", QuantModeEdits),
     Patch("torch_utils", "nvfp4_ds_mla", TorchUtilsEdits),
     Patch("mla_attention", "nvfp4_ds_mla", MlaAttentionEdits),
     Patch("backend", "nvfp4_ds_mla_store", BackendEdits),
     Check({"cache", "kv_cache_interface"}) >>

Nvfp4Steps ==
  << CopyOver("sm12x_sparse_mla_attn"), CopyOver("flashmla_sparse"),
     Patch("flashmla_sparse", "nvfp4_ds_mla", FlashmlaEdits),
     Patch("cache", "nvfp4_ds_mla", CacheEdits),
     Patch("kv_cache_interface", "nvfp4_ds_mla", QuantModeEdits),
     Patch("kv_cache_interface", "times_416", PageSizeEdits),
     Patch("torch_utils", "nvfp4_ds_mla", TorchUtilsEdits),
     Patch("mla_attention", "nvfp4_ds_mla", MlaAttentionEdits),
     Patch("backend", "nvfp4_ds_mla_store", BackendEdits),
     Check({"cache", "kv_cache_interface"}) >>
-----------------------------------------------------------------------------
(* asym-moe-marlin/run.sh and patch_ct_asym_moe.py.  One edit carries the  *)
(* marker; the file is not parsed before it is written.                    *)

AsymEdits == << Inserts("imports", {}), Inserts("unpack_cols", {}),
                Replaces("has_zp", {"ASYM_MOE_PATCH_APPLIED"}),
                Inserts("quant_type", {}), Inserts("zero_points", {}),
                Inserts("convert_zp", {}), Replaces("quant_config", {}),
                Inserts("apply", {}) >>

AsymPatch == [Patch("ct_moe", "ASYM_MOE_PATCH_APPLIED", AsymEdits)
                EXCEPT !.parseFirst = FALSE]

\* Mutant of AsymSteps: the backup is made after the edit.
AsymBackupLate == << AsymPatch, Backup("ct_moe.orig", "ct_moe"), Check({"ct_moe"}) >>

AsymSteps == << Backup("ct_moe.orig", "ct_moe"), AsymPatch, Check({"ct_moe"}) >>
-----------------------------------------------------------------------------
(* sglang-tilelang-dsa/run.sh: replacements that may find nothing, the     *)
(* first of them guarded by the marker that both insert.                   *)

SM121 == {"_is_sm121a"}

SglangSteps ==
  << [op |-> "replace", file |-> "nsa_indexer", guarded |-> {"detect"},
      marker |-> "_is_sm121a",
      edits |-> << Inserts("detect", SM121), Replaces("route", SM121) >>] >>
-----------------------------------------------------------------------------
Scripts == {"sm12x", "nvfp4", "asym", "sglang"}

StepsOf(script) == CASE script = "sm12x"  -> Sm12xSteps
                     [] script = "nvfp4"  -> Nvfp4Steps
                     [] script = "asym"   -> AsymSteps
                     [] script = "sglang" -> SglangSteps
=============================================================================
