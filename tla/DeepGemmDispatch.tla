-------------------------- MODULE DeepGemmDispatch --------------------------
(***************************************************************************)
(* The wrapper around the optional DeepGEMM library and the gates of its   *)
(* users.  Symbols of the library are looked up once, at the first call of *)
(* any wrapper; whether scales are rounded to powers of two is decided     *)
(* twice, by a cached answer for the products (is_deep_gemm_e8m0_used) and *)
(* by the oracle for the code that quantizes.  The sparse attention        *)
(* indexer checks at construction that the library can be found, and calls *)
(* it in every step; on the GB10 (family 120) a patch routes three of the  *)
(* operations to the fallback kernels instead.                             *)
(*                                                                         *)
(* Calls come in any order from one thread.  What a kernel computes, the   *)
(* JIT cache path and PDL are left out.                                    *)
(***************************************************************************)
EXTENDS FiniteSets

CONSTANT Packages  \* the sets of symbols a library may have

Casting == {"fp8_gemm_nt", "grouped", "grouped_fp4", "grouped_masked", "transform_sf"}
Plain   == {"cublaslt_gemm_nt", "fp8_einsum", "mk_alignment", "mn_major_tma_aligned"}
Bypass  == {"mqa_logits", "paged_mqa_logits", "tf32_hc_prenorm_gemm"}
Symbols == Casting \cup Plain \cup Bypass \cup {"paged_mqa_logits_metadata"}

ASSUME PackageAssumption == Packages \subseteq SUBSET Symbols

VARIABLES env,     \* flags, GPU family and installed packages
          module,  \* the cached result of _import_deep_gemm
          impls,   \* the symbols found
          oracle,  \* DeepGemmQuantScaleFMT._oracle_cache
          e8m0,    \* the cached answer of is_deep_gemm_e8m0_used
          built,   \* the indexer layer has been constructed
          last     \* the last call, what came of it, and whether it rounds

vars == <<env, module, impls, oracle, e8m0, built, last>>

Unknown == "unknown"
NoCall  == [op |-> "none", out |-> "none", rounds |-> Unknown]

\* external "raises": importing it fails with anything but an ImportError.
Environment ==
  [USE_DEEP_GEMM : BOOLEAN, E8M0 : BOOLEAN, family : {90, 100, 120}, patched : BOOLEAN,
   external : {"absent", "ok", "ImportError", "raises"}, vendored : {"absent", "ok", "fails"},
   supports120 : BOOLEAN, symbols : Packages]

Init == /\ env \in Environment
        /\ module = Unknown /\ impls = {} /\ oracle = Unknown /\ e8m0 = Unknown
        /\ built = FALSE /\ last = NoCall
-----------------------------------------------------------------------------
has_deep_gemm == env.external # "absent" \/ env.vendored # "absent"

\* The platform's answer for family 120 is not in this repository.
support_deep_gemm == env.family \in {90, 100} \/ env.supports120

is_deep_gemm_supported == env.USE_DEEP_GEMM /\ has_deep_gemm /\ support_deep_gemm

\* The external package first, then the vendored copy.
_import_deep_gemm ==
  IF module # Unknown THEN module
  ELSE IF env.external \in {"ok", "raises"} THEN env.external
  ELSE IF env.vendored = "ok" THEN "vendored" ELSE "None"

\* The one symbol missing here does not count as a sign of an earlier lookup.
FastPath == impls \ {"mn_major_tma_aligned"} # {}

Raises == ~FastPath /\ has_deep_gemm /\ _import_deep_gemm = "raises"

Looks == ~FastPath /\ has_deep_gemm /\ _import_deep_gemm # "raises"

\* impls after _lazy_init.
Found == IF Looks /\ _import_deep_gemm # "None" THEN env.symbols ELSE impls

\* Mutant of init_oracle_cache: it does not ask for the product it is about.
init_oracle_unasked ==
  IF env.E8M0 /\ is_deep_gemm_supported
  THEN IF env.family = 100 THEN "UE8M0" ELSE "FLOAT32_CEIL_UE8M0" ELSE "FLOAT32"

init_oracle_cache ==
  IF env.E8M0 /\ is_deep_gemm_supported /\ "fp8_gemm_nt" \in Found
  THEN IF env.family = 100 THEN "UE8M0" ELSE "FLOAT32_CEIL_UE8M0" ELSE "FLOAT32"

_lazy_init ==
  /\ module' = IF Looks THEN _import_deep_gemm ELSE module
  /\ impls' = Found
  /\ oracle' = IF Looks /\ _import_deep_gemm # "None" /\ oracle = Unknown
               THEN init_oracle_cache ELSE oracle

\* The answer for products, and the cache once it is asked for.
E8m0Answer ==
  CASE e8m0 # Unknown -> e8m0
    [] e8m0 = Unknown /\ is_deep_gemm_supported /\ "fp8_gemm_nt" \in Found /\ env.E8M0 -> "yes"
    [] OTHER -> "no"

Outcome(op, out, rounds) == last' = [op |-> op, out |-> out, rounds |-> rounds]

\* Nothing is cached when an import raises; the next call tries again.
Raised(op) == /\ Outcome(op, "raised", Unknown)
              /\ UNCHANGED <<env, module, impls, oracle, e8m0, built>>
-----------------------------------------------------------------------------
_glm52_sm12x_active == env.patched /\ env.family = 120

\* Mutant of Bypassed: the prefill logits are not routed.
BypassedPagedOnly(op) == _glm52_sm12x_active /\ op \in Bypass \ {"mqa_logits"}

Bypassed(op) == _glm52_sm12x_active /\ op \in Bypass

\* A wrapper of a kernel, without rounding or with the rounding of the answer.
Wrapper(op) ==
  IF Bypassed(op)
  THEN Outcome(op, "sm12x", Unknown) /\ UNCHANGED <<env, module, impls, oracle, e8m0, built>>
  ELSE IF Raises THEN Raised(op)
  ELSE /\ _lazy_init
       /\ IF op \notin Found THEN Outcome(op, "missing", Unknown) /\ UNCHANGED e8m0
          ELSE IF op \in Casting
          THEN Outcome(op, "DeepGEMM", E8m0Answer) /\ e8m0' = E8m0Answer
          ELSE Outcome(op, "DeepGEMM", Unknown) /\ UNCHANGED e8m0
       /\ UNCHANGED <<env, built>>

Call == \E op \in Casting \cup Plain \cup {"tf32_hc_prenorm_gemm"} : Wrapper(op)

\* fp8_gemm_nt told by its caller, who asked before.
CallTold ==
  /\ e8m0 # Unknown /\ ~Raises
  /\ _lazy_init
  /\ IF "fp8_gemm_nt" \in Found THEN Outcome("fp8_gemm_nt", "DeepGEMM", e8m0)
                                ELSE Outcome("fp8_gemm_nt", "missing", Unknown)
  /\ UNCHANGED <<env, e8m0, built>>

is_deep_gemm_e8m0_used ==
  IF e8m0 = Unknown /\ is_deep_gemm_supported /\ Raises THEN Raised("e8m0_used")
  ELSE /\ e8m0' = E8m0Answer
       /\ IF e8m0 = Unknown /\ is_deep_gemm_supported THEN _lazy_init
          ELSE UNCHANGED <<module, impls, oracle>>
       /\ Outcome("e8m0_used", "answered", E8m0Answer)
       /\ UNCHANGED <<env, built>>

\* Read by the code that quantizes; an AssertionError before the lookup.
from_oracle ==
  /\ Outcome("from_oracle", IF oracle = Unknown THEN "raised" ELSE oracle, Unknown)
  /\ UNCHANGED <<env, module, impls, oracle, e8m0, built>>

\* get_num_sms and set_num_sms import by themselves, found or not.
num_sms ==
  IF Raises \/ _import_deep_gemm = "raises" THEN Raised("num_sms")
  ELSE /\ impls' = Found /\ module' = _import_deep_gemm
       /\ oracle' = IF Looks /\ module' # "None" /\ oracle = Unknown
                    THEN init_oracle_cache ELSE oracle
       /\ Outcome("num_sms", IF module' = "None" THEN "missing" ELSE "DeepGEMM", Unknown)
       /\ UNCHANGED <<env, e8m0, built>>
-----------------------------------------------------------------------------
(* The sparse attention indexer *)

\* SparseAttnIndexer.__init__
Construct ==
  /\ ~built
  /\ IF ~has_deep_gemm /\ ~_glm52_sm12x_active
     THEN Outcome("construct", "raised", Unknown) /\ UNCHANGED built
     ELSE Outcome("construct", "built", Unknown) /\ built' = TRUE
  /\ UNCHANGED <<env, module, impls, oracle, e8m0>>

\* The metadata builder's decode part, when a layer uses it.
BuildMetadata == built /\ has_deep_gemm /\ Wrapper("paged_mqa_logits_metadata")

PrefillLogits == built /\ Wrapper("mqa_logits")
DecodeLogits  == built /\ Wrapper("paged_mqa_logits")

\* Whatever kept the import from working is gone.
Recover == /\ env.external = "raises" /\ env' = [env EXCEPT !.external = "ok"]
           /\ last' = NoCall
           /\ UNCHANGED <<module, impls, oracle, e8m0, built>>

Next == Call \/ CallTold \/ is_deep_gemm_e8m0_used \/ from_oracle \/ num_sms
        \/ Construct \/ BuildMetadata \/ PrefillLogits \/ DecodeLogits \/ Recover

Spec == Init /\ [][Next]_vars
-----------------------------------------------------------------------------
(***************************************************************************)
(* The scales that are written and the products that read them agree: in   *)
(* whatever order the wrappers, the cached answer and a retried import     *)
(* come, the answer is yes exactly when the oracle's format is a rounded   *)
(* one, and a product rounds exactly then.                                 *)
(***************************************************************************)
ScaleFormatsAgree ==
  /\ e8m0 # Unknown /\ oracle # Unknown => (e8m0 = "yes" <=> oracle # "FLOAT32")
  /\ e8m0 = "yes" => oracle # Unknown
  /\ last.rounds # Unknown /\ last.out = "DeepGEMM" => (last.rounds = "yes" <=> oracle # "FLOAT32")

\* A library that can be used has the symbol.
Usable(op) ==
  /\ env.external = "ok" \/ (env.external \in {"absent", "ImportError"} /\ env.vendored = "ok")
  /\ op \in env.symbols

(***************************************************************************)
(* A layer that was constructed serves: the gate at construction asks only *)
(* whether a package can be found, the calls of a step need its symbols.   *)
(* A call of the step fails just when a package is found that cannot be    *)
(* used.  With the patch on family 120 the logits never fail, and without  *)
(* a package nothing does; but a broken package still fails the step,      *)
(* for its metadata is not routed to the fallback.                         *)
(***************************************************************************)
ServesUnlessBroken ==
  last.op \in {"paged_mqa_logits_metadata", "mqa_logits", "paged_mqa_logits"} =>
    (last.out \in {"raised", "missing"} <=>
       /\ has_deep_gemm /\ ~Usable(last.op)
       /\ _glm52_sm12x_active => last.op = "paged_mqa_logits_metadata")
=============================================================================
