----------------------------- MODULE MlaRecord -----------------------------
(***************************************************************************)
(* The two per-token record layouts of the sparse-MLA cache                *)
(* (sm12x_sparse_mla_attn.py): where the NoPE elements, their block scales *)
(* and the RoPE elements lie.  nvfp4_ds_mla packs two elements in a byte   *)
(* and has a one-byte scale for Blk of them; fp8_ds_mla has one element a  *)
(* byte and a four-byte scale for QuantTile of them.                       *)
(***************************************************************************)
EXTENDS Integers

CONSTANTS NopeDim,  \* 512 in the model served
          RopeDim,  \* 64
          Blk,      \* 16: elements per nvfp4 scale
          QuantTile \* 128: elements per fp8 scale

ASSUME RecordConstants ==
  /\ NopeDim \in Nat \ {0} /\ RopeDim \in Nat \ {0}
  /\ Blk \in Nat \ {0} /\ QuantTile \in Nat \ {0}
  /\ NopeDim % 2 = 0 /\ NopeDim % Blk = 0 /\ NopeDim % QuantTile = 0

Formats == {"nvfp4", "fp8"}

\* Elements per byte, elements per scale, bytes per scale.
PerByte(fmt)    == IF fmt = "nvfp4" THEN 2 ELSE 1
PerScale(fmt)   == IF fmt = "nvfp4" THEN Blk ELSE QuantTile
ScaleBytes(fmt) == IF fmt = "nvfp4" THEN 1 ELSE 4

NopeBytes(fmt) == NopeDim \div PerByte(fmt)
NumScales(fmt) == NopeDim \div PerScale(fmt)
ScaleOff(fmt)  == NopeBytes(fmt)

\* Mutant of RopeOff: the RoPE part begins on the last scale.
RopeOffShort(fmt) == ScaleOff(fmt) + ScaleBytes(fmt) * NumScales(fmt) - 1

RopeOff(fmt)    == ScaleOff(fmt) + ScaleBytes(fmt) * NumScales(fmt)
EntryBytes(fmt) == RopeOff(fmt) + 2 * RopeDim

\* flash_mla_with_kvcache_triton tells the layouts apart by the width.
FormatOf(width) == IF width = EntryBytes("nvfp4") THEN "nvfp4" ELSE "fp8"

\* Where element i, its scale and RoPE element j are read, in a record.
NopeByte(fmt, i)     == i \div PerByte(fmt)
Nibble(fmt, i)       == i % PerByte(fmt)
ScaleByte(fmt, i, b) == ScaleOff(fmt) + (i \div PerScale(fmt)) * ScaleBytes(fmt) + b
RopeByte(fmt, j, b)  == RopeOff(fmt) + 2 * j + b

\* What byte o of the record of a token is written with: NoPE elements (the
\* even one in the low nibble), then scales, then RoPE.
ByteOf(fmt, token, o) ==
  IF RopeOff(fmt) <= o THEN <<token, "rope", o - RopeOff(fmt)>>
  ELSE IF ScaleOff(fmt) <= o THEN <<token, "scale", o - ScaleOff(fmt)>>
  ELSE <<token, "nope", [x \in 0 .. PerByte(fmt)-1 |-> o * PerByte(fmt) + x]>>
=============================================================================
