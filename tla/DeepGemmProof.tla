---------------------------- MODULE DeepGemmProof ----------------------------
(***************************************************************************)
(* Proofs about DeepGemmDispatch, for every family of symbol sets.  The    *)
(* inductive invariant says that all that is cached follows from the       *)
(* environment and from how far the lookup has got: the module is the one  *)
(* that can be imported, the symbols and the scale format are known        *)
(* exactly when it is, and the answer about products agrees with the       *)
(* format.                                                                 *)
(***************************************************************************)
EXTENDS DeepGemmDispatch, TLAPS

\* A library that can be imported.
Importable == env.external = "ok"
              \/ (env.external \in {"absent", "ImportError"} /\ env.vendored = "ok")

\* Products round.
Rounded == env.E8M0 /\ is_deep_gemm_supported /\ "fp8_gemm_nt" \in env.symbols

Format == IF Rounded THEN IF env.family = 100 THEN "UE8M0" ELSE "FLOAT32_CEIL_UE8M0"
          ELSE "FLOAT32"

Loaded == module \in {"ok", "vendored"}

ModuleFits == /\ module \in {Unknown, "None", "ok", "vendored"}
              /\ Loaded => Importable
              /\ module = "None" => ~Importable /\ env.external # "raises"

LookupFits == /\ impls = IF Loaded THEN env.symbols ELSE {}
              /\ oracle = IF Loaded THEN Format ELSE Unknown

AnswerFits == /\ e8m0 \in {Unknown, "yes", "no"}
              /\ e8m0 = "yes" => Loaded /\ Rounded
              /\ e8m0 = "no" => ~Rounded \/ (~Importable /\ env.external # "raises")

CallFits == last.rounds # Unknown /\ last.out = "DeepGEMM" =>
              Loaded /\ (last.rounds = "yes" <=> Rounded)

IndInv == env \in Environment /\ ModuleFits /\ LookupFits /\ AnswerFits /\ CallFits

LEMMA InitInv == Init => IndInv
BY DEF Init, NoCall, Unknown, IndInv, ModuleFits, LookupFits, AnswerFits, CallFits, Loaded

LEMMA EnvironmentType ==
  ASSUME IndInv
  PROVE  /\ env.external \in {"absent", "ok", "ImportError", "raises"}
         /\ env.vendored \in {"absent", "ok", "fails"}
BY DEF IndInv, Environment

\* What an import gives now.
LEMMA Import ==
  ASSUME IndInv
  PROVE  /\ Importable => _import_deep_gemm \in {"ok", "vendored"}
         /\ env.external = "raises" => _import_deep_gemm = "raises"
         /\ ~Importable /\ env.external # "raises" => _import_deep_gemm = "None"
<1>1. CASE module = Unknown
  <2>1. env.external \in {"absent", "ok", "ImportError", "raises"}
    BY EnvironmentType
  <2>2. CASE env.external \in {"ok", "raises"}
    BY <1>1, <2>2 DEF _import_deep_gemm, Importable
  <2>3. CASE env.external \in {"absent", "ImportError"}
    BY <1>1, <2>3 DEF _import_deep_gemm, Importable
  <2> QED BY <2>1, <2>2, <2>3
<1>2. CASE module # Unknown
  <2>1. _import_deep_gemm = module
    BY <1>2 DEF _import_deep_gemm
  <2>2. env.external # "raises"
    BY <1>2 DEF IndInv, ModuleFits, Importable, Loaded
  <2> QED BY <1>2, <2>1, <2>2 DEF IndInv, ModuleFits, Loaded
<1> QED BY <1>1, <1>2

\* What a lookup that does not raise finds, whether it is the first or not.
LEMMA Lookup ==
  ASSUME IndInv, ~Raises
  PROVE  /\ Found = IF Importable THEN env.symbols ELSE {}
         /\ Importable => has_deep_gemm /\ (Looks \/ Loaded)
         /\ Loaded => Importable
         /\ has_deep_gemm => env.external # "raises"
         /\ Looks /\ Importable => _import_deep_gemm \in {"ok", "vendored"}
         /\ Looks /\ ~Importable => _import_deep_gemm = "None"
<1>1. Importable => has_deep_gemm
  BY DEF Importable, has_deep_gemm
<1>2. Looks => _import_deep_gemm # "raises"
  BY DEF Looks
<1>3. Loaded => Importable
  BY DEF IndInv, ModuleFits
<1>4. Importable => Looks \/ FastPath
  BY <1>1 DEF Looks, Raises
<1>5. FastPath => Loaded
  BY DEF FastPath, IndInv, LookupFits
<1>6. Importable /\ Looks => Found = env.symbols
  BY Import DEF Found
<1>7. Importable /\ ~Looks => Found = env.symbols
  BY <1>4, <1>5 DEF Found, IndInv, LookupFits
<1>8. ~Importable => Found = {}
  BY <1>2, <1>3, Import DEF Found, IndInv, LookupFits
<1>9. has_deep_gemm => env.external # "raises"
  <2> SUFFICES ASSUME has_deep_gemm, env.external = "raises" PROVE FALSE
    OBVIOUS
  <2>1. ~Importable
    BY DEF Importable
  <2> QED BY <1>3, <1>5, <2>1, Import DEF Raises
<1> QED BY <1>1, <1>2, <1>3, <1>4, <1>5, <1>6, <1>7, <1>8, <1>9, Import

LEMMA SameEnvironment ==
  ASSUME env' = env
  PROVE  /\ Importable' <=> Importable
         /\ Rounded' <=> Rounded
         /\ Format' = Format
BY DEF Importable, Rounded, Format, is_deep_gemm_supported, has_deep_gemm, support_deep_gemm

\* The oracle decides by the symbols found: once they are, by Rounded.
LEMMA OracleFormat ==
  ASSUME IndInv, ~Raises, Importable
  PROVE  init_oracle_cache = Format
BY Lookup DEF init_oracle_cache, Format, Rounded

LEMMA FormatKnown == Format # Unknown /\ (Format # "FLOAT32" <=> Rounded)
BY DEF Format, Unknown

\* A lookup leaves the caches as the environment says.
LEMMA LazyInit ==
  ASSUME IndInv, ~Raises, _lazy_init, env' = env
  PROVE  /\ ModuleFits' /\ LookupFits'
         /\ Loaded' <=> Importable
<1>1. /\ module' = IF Looks THEN _import_deep_gemm ELSE module
      /\ impls' = Found
      /\ oracle' = IF Looks /\ _import_deep_gemm # "None" /\ oracle = Unknown
                   THEN init_oracle_cache ELSE oracle
  BY DEF _lazy_init
<1>2. Loaded' <=> Importable
  BY <1>1, Lookup DEF Loaded
<1>3. ModuleFits'
  <2>1. module' \in {Unknown, "None", "ok", "vendored"}
    BY <1>1, Lookup DEF IndInv, ModuleFits
  <2>2. module' = "None" => ~Importable /\ env.external # "raises"
    <3>1. CASE Looks
      <4>1. has_deep_gemm
        BY <3>1 DEF Looks
      <4> QED BY <1>1, <3>1, <4>1, Lookup
    <3>2. CASE ~Looks
      BY <1>1, <3>2 DEF IndInv, ModuleFits
    <3> QED BY <3>1, <3>2
  <2> QED BY <1>2, <2>1, <2>2, SameEnvironment DEF ModuleFits
<1>4. oracle' = IF Importable THEN Format ELSE Unknown
  <2>1. oracle = IF Loaded THEN Format ELSE Unknown
    BY DEF IndInv, LookupFits
  <2>2. CASE Loaded
    BY <1>1, <2>1, <2>2, Lookup, FormatKnown
  <2>3. CASE ~Loaded /\ Importable
    BY <1>1, <2>1, <2>3, Lookup, OracleFormat
  <2>4. CASE ~Loaded /\ ~Importable
    BY <1>1, <2>1, <2>4, Lookup
  <2> QED BY <2>2, <2>3, <2>4
<1>5. LookupFits'
  BY <1>1, <1>2, <1>4, Lookup, SameEnvironment DEF LookupFits
<1> QED BY <1>2, <1>3, <1>5

\* What a product is told once its symbol is found.
LEMMA AnswerWhenFound ==
  ASSUME IndInv, ~Raises, Importable
  PROVE  E8m0Answer \in {"yes", "no"} /\ (E8m0Answer = "yes" <=> Rounded)
<1>1. CASE e8m0 # Unknown
  BY <1>1 DEF E8m0Answer, IndInv, AnswerFits
<1>2. CASE e8m0 = Unknown
  <2>1. E8m0Answer = IF Rounded THEN "yes" ELSE "no"
    BY <1>2, Lookup DEF E8m0Answer, Rounded, Unknown
  <2> QED BY <2>1
<1> QED BY <1>1, <1>2

\* The answer is cached as it is, or stays as it was.
LEMMA AnswerStays ==
  ASSUME IndInv, env' = env, Loaded => Loaded', e8m0' = e8m0
  PROVE  AnswerFits'
BY SameEnvironment DEF IndInv, AnswerFits

LEMMA AnswerCached ==
  ASSUME IndInv, ~Raises, env' = env, Loaded' <=> Importable, Importable, e8m0' = E8m0Answer
  PROVE  AnswerFits'
BY AnswerWhenFound, SameEnvironment DEF AnswerFits

\* A call that says nothing about rounding.
LEMMA QuietCall ==
  ASSUME NEW op, NEW out, Outcome(op, out, Unknown)
  PROVE  CallFits'
BY DEF Outcome, CallFits

LEMMA TellingCall ==
  ASSUME NEW op, NEW rounds, Outcome(op, "DeepGEMM", rounds), env' = env,
         Loaded', rounds = "yes" <=> Rounded
  PROVE  CallFits'
BY SameEnvironment DEF Outcome, CallFits

LEMMA Unchanged ==
  ASSUME IndInv, UNCHANGED <<env, module, impls, oracle, e8m0>>, CallFits'
  PROVE  IndInv'
BY SameEnvironment DEF IndInv, ModuleFits, LookupFits, AnswerFits, Loaded

LEMMA WrapperStep ==
  ASSUME IndInv, NEW op, Wrapper(op)
  PROVE  IndInv'
<1>1. CASE Bypassed(op)
  BY <1>1, QuietCall, Unchanged DEF Wrapper
<1>2. CASE ~Bypassed(op) /\ Raises
  BY <1>2, QuietCall, Unchanged DEF Wrapper, Raised
<1>3. CASE ~Bypassed(op) /\ ~Raises
  <2>1. _lazy_init /\ env' = env
    BY <1>3 DEF Wrapper
  <2>2. ModuleFits' /\ LookupFits' /\ (Loaded' <=> Importable)
    BY <1>3, <2>1, LazyInit
  <2>3. Loaded => Importable
    BY <1>3, Lookup
  <2>4. CASE op \notin Found
    BY <1>3, <2>1, <2>2, <2>3, <2>4, QuietCall, AnswerStays DEF Wrapper, IndInv
  <2>5. CASE op \in Found /\ op \in Casting
    <3>1. Importable
      BY <1>3, <2>5, Lookup
    <3>2. Outcome(op, "DeepGEMM", E8m0Answer) /\ e8m0' = E8m0Answer
      BY <1>3, <2>5 DEF Wrapper
    <3>3. AnswerFits'
      BY <1>3, <2>1, <2>2, <3>1, <3>2, AnswerCached
    <3>4. CallFits'
      BY <1>3, <2>1, <2>2, <3>1, <3>2, AnswerWhenFound, TellingCall
    <3> QED BY <2>1, <2>2, <3>3, <3>4 DEF IndInv
  <2>6. CASE op \in Found /\ op \notin Casting
    BY <1>3, <2>1, <2>2, <2>3, <2>6, QuietCall, AnswerStays DEF Wrapper, IndInv
  <2> QED BY <2>4, <2>5, <2>6
<1> QED BY <1>1, <1>2, <1>3

LEMMA CallToldStep == IndInv /\ CallTold => IndInv'
<1> SUFFICES ASSUME IndInv, CallTold PROVE IndInv'
  OBVIOUS
<1>1. _lazy_init /\ env' = env /\ e8m0' = e8m0 /\ ~Raises /\ e8m0 # Unknown
  BY DEF CallTold
<1>2. ModuleFits' /\ LookupFits' /\ (Loaded' <=> Importable)
  BY <1>1, LazyInit
<1>3. AnswerFits'
  BY <1>1, <1>2, Lookup, AnswerStays
<1>4. CallFits'
  <2>1. CASE "fp8_gemm_nt" \in Found
    <3>1. Importable /\ E8m0Answer = e8m0
      BY <1>1, <2>1, Lookup DEF E8m0Answer
    <3>2. Outcome("fp8_gemm_nt", "DeepGEMM", e8m0)
      BY <2>1 DEF CallTold
    <3>3. e8m0 = "yes" <=> Rounded
      BY <1>1, <3>1, AnswerWhenFound
    <3> QED BY <1>1, <1>2, <3>1, <3>2, <3>3, TellingCall
  <2>2. CASE "fp8_gemm_nt" \notin Found
    BY <2>2, QuietCall DEF CallTold
  <2> QED BY <2>1, <2>2
<1> QED BY <1>1, <1>2, <1>3, <1>4 DEF IndInv

LEMMA AnswerStep == IndInv /\ is_deep_gemm_e8m0_used => IndInv'
<1> SUFFICES ASSUME IndInv, is_deep_gemm_e8m0_used PROVE IndInv'
  OBVIOUS
<1> DEFINE Asks == e8m0 = Unknown /\ is_deep_gemm_supported
<1>1. CASE Asks /\ Raises
  BY <1>1, QuietCall, Unchanged DEF is_deep_gemm_e8m0_used, Raised
<1>2. CASE ~(Asks /\ Raises)
  <2>1. /\ e8m0' = E8m0Answer /\ env' = env
        /\ Outcome("e8m0_used", "answered", E8m0Answer)
    BY <1>2 DEF is_deep_gemm_e8m0_used
  <2>2. CallFits'
    BY <2>1 DEF CallFits, Outcome
  <2>3. CASE Asks
    <3>1. _lazy_init /\ ~Raises
      BY <1>2, <2>3 DEF is_deep_gemm_e8m0_used
    <3>2. ModuleFits' /\ LookupFits' /\ (Loaded' <=> Importable)
      BY <2>1, <3>1, LazyInit
    <3>3. CASE Importable
      BY <2>1, <2>2, <3>1, <3>2, <3>3, AnswerCached DEF IndInv
    <3>4. CASE ~Importable
      <4>1. Found = {} /\ env.external # "raises"
        BY <2>3, <3>1, <3>4, Lookup DEF is_deep_gemm_supported
      <4>2. E8m0Answer = "no"
        BY <2>3, <4>1 DEF E8m0Answer
      <4>3. AnswerFits'
        BY <2>1, <3>4, <4>1, <4>2, SameEnvironment DEF AnswerFits
      <4> QED BY <2>1, <2>2, <3>2, <4>3 DEF IndInv
    <3> QED BY <3>3, <3>4
  <2>4. CASE ~Asks
    <3>1. UNCHANGED <<module, impls, oracle>>
      BY <2>4 DEF is_deep_gemm_e8m0_used
    <3>2. ModuleFits' /\ LookupFits' /\ (Loaded' <=> Loaded)
      BY <2>1, <3>1, SameEnvironment DEF IndInv, ModuleFits, LookupFits, Loaded
    <3>3. CASE e8m0 # Unknown
      <4>1. E8m0Answer = e8m0
        BY <3>3 DEF E8m0Answer
      <4> QED BY <2>1, <2>2, <3>2, <4>1, AnswerStays DEF IndInv
    <3>4. CASE e8m0 = Unknown /\ ~is_deep_gemm_supported
      <4>1. E8m0Answer = "no" /\ ~Rounded
        BY <3>4 DEF E8m0Answer, Rounded
      <4>2. AnswerFits'
        BY <2>1, <4>1, SameEnvironment DEF AnswerFits
      <4> QED BY <2>1, <2>2, <3>2, <4>2 DEF IndInv
    <3> QED BY <2>4, <3>3, <3>4
  <2> QED BY <2>3, <2>4
<1> QED BY <1>1, <1>2

LEMMA NumSmsStep == IndInv /\ num_sms => IndInv'
<1> SUFFICES ASSUME IndInv, num_sms PROVE IndInv'
  OBVIOUS
<1>1. CASE Raises \/ _import_deep_gemm = "raises"
  BY <1>1, QuietCall, Unchanged DEF num_sms, Raised
<1>2. CASE ~Raises /\ _import_deep_gemm # "raises"
  <2>1. /\ env' = env /\ e8m0' = e8m0 /\ impls' = Found /\ module' = _import_deep_gemm
        /\ oracle' = IF Looks /\ _import_deep_gemm # "None" /\ oracle = Unknown
                     THEN init_oracle_cache ELSE oracle
        /\ \E out : Outcome("num_sms", out, Unknown)
    BY <1>2 DEF num_sms
  <2>2. env.external # "raises"
    BY <1>2, Import
  <2>3. ModuleFits' /\ (Loaded' <=> Importable)
    BY <2>1, <2>2, Import, SameEnvironment DEF ModuleFits, Loaded
  <2>4. oracle' = IF Importable THEN Format ELSE Unknown
    <3>1. oracle = IF Loaded THEN Format ELSE Unknown
      BY DEF IndInv, LookupFits
    <3>2. CASE Loaded
      BY <1>2, <2>1, <3>1, <3>2, Lookup, FormatKnown
    <3>3. CASE ~Loaded /\ Importable
      BY <1>2, <2>1, <3>1, <3>3, Lookup, OracleFormat
    <3>4. CASE ~Loaded /\ ~Importable
      BY <1>2, <2>1, <3>1, <3>4, Lookup
    <3> QED BY <3>2, <3>3, <3>4
  <2>5. LookupFits'
    BY <1>2, <2>1, <2>3, <2>4, Lookup, SameEnvironment DEF LookupFits
  <2>6. AnswerFits'
    BY <1>2, <2>1, <2>3, Lookup, AnswerStays
  <2>7. CallFits'
    BY <2>1, QuietCall
  <2> QED BY <2>1, <2>3, <2>5, <2>6, <2>7 DEF IndInv
<1> QED BY <1>1, <1>2

\* An import that works again changes what can be imported, but nothing that
\* was cached: while it raised, nothing was.
LEMMA RecoverStep == IndInv /\ Recover => IndInv'
<1> SUFFICES ASSUME IndInv, Recover PROVE IndInv'
  OBVIOUS
<1>1. /\ env.external = "raises" /\ env' = [env EXCEPT !.external = "ok"]
      /\ last' = NoCall /\ UNCHANGED <<module, impls, oracle, e8m0, built>>
  BY DEF Recover
<1>2. env \in Environment
  BY DEF IndInv
<1>3. /\ env' \in Environment /\ env'.external = "ok" /\ env'.symbols = env.symbols
      /\ env'.USE_DEEP_GEMM = env.USE_DEEP_GEMM /\ env'.E8M0 = env.E8M0
      /\ env'.family = env.family /\ env'.supports120 = env.supports120
      /\ env'.vendored = env.vendored
  BY <1>1, <1>2 DEF Environment
<1>4. Rounded' <=> Rounded
  BY <1>1, <1>3 DEF Rounded, is_deep_gemm_supported, has_deep_gemm, support_deep_gemm
<1>5. ~Loaded /\ module = Unknown
  BY <1>1 DEF IndInv, ModuleFits, Importable, Loaded
<1>6. ModuleFits' /\ LookupFits'
  BY <1>1, <1>5 DEF IndInv, ModuleFits, LookupFits, Loaded, Unknown
<1>7. AnswerFits'
  BY <1>1, <1>4, <1>5 DEF IndInv, AnswerFits
<1>8. CallFits'
  BY <1>1 DEF CallFits, NoCall
<1> QED BY <1>3, <1>6, <1>7, <1>8 DEF IndInv

LEMMA NextInv == IndInv /\ [Next]_vars => IndInv'
<1> SUFFICES ASSUME IndInv, [Next]_vars PROVE IndInv'
  OBVIOUS
<1>1. CASE Call \/ BuildMetadata \/ PrefillLogits \/ DecodeLogits
  BY <1>1, WrapperStep DEF Call, BuildMetadata, PrefillLogits, DecodeLogits
<1>2. CASE from_oracle \/ Construct
  BY <1>2, QuietCall, Unchanged DEF from_oracle, Construct
<1>3. CASE UNCHANGED vars
  BY <1>3, Unchanged DEF vars, IndInv, CallFits, Loaded, Rounded, is_deep_gemm_supported,
                         has_deep_gemm, support_deep_gemm
<1> QED BY <1>1, <1>2, <1>3, CallToldStep, AnswerStep, NumSmsStep, RecoverStep DEF Next

(***************************************************************************)
(* The two decisions about rounded scales agree, for every library and in  *)
(* any order of calls: the format the code that quantizes asks for and     *)
(* what the products are told.                                             *)
(***************************************************************************)
THEOREM FormatsAgree == Spec => []ScaleFormatsAgree
<1>1. IndInv => ScaleFormatsAgree
  <2> SUFFICES ASSUME IndInv PROVE ScaleFormatsAgree
    OBVIOUS
  <2>1. oracle # Unknown <=> Loaded
    BY FormatKnown DEF IndInv, LookupFits
  <2>2. Loaded => (oracle # "FLOAT32" <=> Rounded)
    BY FormatKnown DEF IndInv, LookupFits
  <2>3. Loaded => Importable
    BY DEF IndInv, ModuleFits
  <2> QED BY <2>1, <2>2, <2>3 DEF IndInv, AnswerFits, CallFits, ScaleFormatsAgree
<1> QED BY <1>1, InitInv, NextInv, PTL DEF Spec
-----------------------------------------------------------------------------
(* The steps of a layer *)

StepOps == {"paged_mqa_logits_metadata", "mqa_logits", "paged_mqa_logits"}

\* A layer is built when a package can be found, or none is needed.
GateHeld == built => has_deep_gemm \/ _glm52_sm12x_active

ServesInv == IndInv /\ GateHeld /\ ServesUnlessBroken

LEMMA GateStays ==
  ASSUME GateHeld, env' = env, built' = built
  PROVE  GateHeld'
BY DEF GateHeld, has_deep_gemm, _glm52_sm12x_active

\* A call that belongs to no step.
LEMMA OtherCall ==
  ASSUME last'.op \notin StepOps
  PROVE  ServesUnlessBroken'
BY DEF ServesUnlessBroken, StepOps

LEMMA UsableWhenFound ==
  ASSUME IndInv, ~Raises, NEW op
  PROVE  op \in Found <=> Usable(op)
BY Lookup DEF Usable, Importable

\* What comes of a call of a step, before it is stated of the next state.
LEMMA StepOutcome ==
  ASSUME IndInv, NEW op \in StepOps, Wrapper(op),
         has_deep_gemm \/ Bypassed(op)
  PROVE  /\ env' = env /\ built' = built /\ last'.op = op
         /\ last'.out \in {"raised", "missing"} <=>
              /\ has_deep_gemm /\ ~Usable(op)
              /\ _glm52_sm12x_active => op = "paged_mqa_logits_metadata"
<1>1. Bypassed(op) <=> _glm52_sm12x_active /\ op # "paged_mqa_logits_metadata"
  BY DEF Bypassed, Bypass, StepOps
<1>2. CASE Bypassed(op)
  BY <1>1, <1>2 DEF Wrapper, Outcome
<1>3. CASE ~Bypassed(op) /\ Raises
  <2>1. last'.op = op /\ last'.out = "raised" /\ env' = env /\ built' = built
    BY <1>3 DEF Wrapper, Raised, Outcome
  <2>2. ~Usable(op)
    BY <1>3, Import DEF Raises, Usable, Importable
  <2> QED BY <1>1, <1>3, <2>1, <2>2
<1>4. CASE ~Bypassed(op) /\ ~Raises
  <2>1. last'.op = op /\ env' = env /\ built' = built
        /\ last'.out = IF op \in Found THEN "DeepGEMM" ELSE "missing"
    BY <1>4 DEF Wrapper, Outcome
  <2>2. op \in Found <=> Usable(op)
    BY <1>4, UsableWhenFound
  <2> QED BY <1>1, <1>4, <2>1, <2>2
<1> QED BY <1>2, <1>3, <1>4

LEMMA StepServes ==
  ASSUME IndInv, GateHeld, built, NEW op \in StepOps, Wrapper(op),
         op = "paged_mqa_logits_metadata" => has_deep_gemm
  PROVE  GateHeld' /\ ServesUnlessBroken'
<1>1. has_deep_gemm \/ Bypassed(op)
  BY DEF GateHeld, Bypassed, Bypass, StepOps
<1>2. /\ env' = env /\ built' = built /\ last'.op = op
      /\ last'.out \in {"raised", "missing"} <=>
           /\ has_deep_gemm /\ ~Usable(op)
           /\ _glm52_sm12x_active => op = "paged_mqa_logits_metadata"
  BY <1>1, StepOutcome
<1>3. /\ has_deep_gemm' <=> has_deep_gemm
      /\ _glm52_sm12x_active' <=> _glm52_sm12x_active
      /\ (Usable(last.op))' <=> Usable(op)
  BY <1>2 DEF has_deep_gemm, _glm52_sm12x_active, Usable
<1>4. ServesUnlessBroken'
  BY <1>2, <1>3 DEF ServesUnlessBroken
<1> QED BY <1>2, <1>4, GateStays

LEMMA OtherWrapper ==
  ASSUME NEW op, op \notin StepOps, Wrapper(op)
  PROVE  last'.op = op /\ env' = env /\ built' = built
BY DEF Wrapper, Raised, Outcome

LEMMA ServesStep == ServesInv /\ [Next]_vars => ServesInv'
<1> SUFFICES ASSUME ServesInv, [Next]_vars PROVE GateHeld' /\ ServesUnlessBroken'
  BY NextInv DEF ServesInv
<1> USE DEF ServesInv
<1>1. CASE Call
  <2>1. PICK op \in Casting \cup Plain \cup {"tf32_hc_prenorm_gemm"} : Wrapper(op)
    BY <1>1 DEF Call
  <2>2. op \notin StepOps
    BY DEF Casting, Plain, StepOps
  <2> QED BY <2>1, <2>2, OtherWrapper, OtherCall, GateStays
<1>2. CASE CallTold
  BY <1>2, OtherCall, GateStays DEF CallTold, Outcome, StepOps
<1>3. CASE is_deep_gemm_e8m0_used
  BY <1>3, OtherCall, GateStays DEF is_deep_gemm_e8m0_used, Raised, Outcome, StepOps
<1>4. CASE from_oracle
  BY <1>4, OtherCall, GateStays DEF from_oracle, Outcome, StepOps
<1>5. CASE num_sms
  BY <1>5, OtherCall, GateStays DEF num_sms, Raised, Outcome, StepOps
<1>6. CASE Construct
  <2>1. last'.op = "construct" /\ env' = env
        /\ (built' => has_deep_gemm \/ _glm52_sm12x_active)
    BY <1>6 DEF Construct, Outcome, GateHeld
  <2>2. GateHeld'
    BY <2>1 DEF GateHeld, has_deep_gemm, _glm52_sm12x_active
  <2> QED BY <2>1, <2>2, OtherCall DEF StepOps
<1>7. CASE BuildMetadata \/ PrefillLogits \/ DecodeLogits
  BY <1>7, StepServes DEF BuildMetadata, PrefillLogits, DecodeLogits, StepOps
<1>8. CASE Recover
  <2>1. /\ env.external = "raises" /\ env' = [env EXCEPT !.external = "ok"]
        /\ last'.op = "none" /\ built' = built
    BY <1>8 DEF Recover, NoCall
  <2>2. env \in Environment
    BY DEF IndInv
  <2>3. has_deep_gemm'
    BY <2>1, <2>2 DEF has_deep_gemm, Environment
  <2> QED BY <2>1, <2>3, OtherCall DEF GateHeld, StepOps
<1>9. CASE UNCHANGED vars
  BY <1>9 DEF vars, GateHeld, has_deep_gemm, _glm52_sm12x_active, ServesUnlessBroken, Usable
<1> QED BY <1>1, <1>2, <1>3, <1>4, <1>5, <1>6, <1>7, <1>8, <1>9 DEF Next

(***************************************************************************)
(* A step of a constructed layer fails just when a package is found that   *)
(* cannot be used, and on a patched GB10 only for its metadata, whatever   *)
(* the library has and was called for before.                              *)
(***************************************************************************)
THEOREM LayersServe == Spec => []ServesUnlessBroken
<1>1. Init => ServesInv
  BY InitInv DEF Init, NoCall, ServesInv, GateHeld, ServesUnlessBroken
<1>2. ServesInv => ServesUnlessBroken
  BY DEF ServesInv
<1> QED BY <1>1, <1>2, ServesStep, PTL DEF Spec
=============================================================================
