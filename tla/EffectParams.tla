---------------------------- MODULE EffectParams ----------------------------
(***************************************************************************)
(* plugin/ae/AeParams.cpp and the part of AeHostAdapter.cpp that reads the *)
(* effect's parameters from what the host hands over: how a value of the   *)
(* host becomes an AeParamValues, and that becomes the RenderParams of the *)
(* pipeline.                                                               *)
(*                                                                         *)
(* The unit interval is 0..Full, so that halves of even numbers are exact; *)
(* the rounding of floats is left out.  Of the eight parameters the four   *)
(* are kept that are clamped or combined (Quality, Slice Mode, Position,   *)
(* Range); Preserve Ratio, Output, Color Map and Soft Border are read and  *)
(* stored like them.                                                       *)
(***************************************************************************)
EXTENDS Integers, Sequences

CONSTANTS
    Models, DefaultModel,
    Full,        \* the steps of the unit interval
    NaN,         \* a slider value that is not finite
    NoTable,     \* params == nullptr
    NoData       \* in_data or out_data == nullptr

ASSUME ParamsAssumption ==
    /\ DefaultModel \in Models
    /\ Full \in Nat \ {0}
    /\ NaN \notin Int /\ NoData \notin Int

-----------------------------------------------------------------------------
(* AeParams.cpp.  The environment of the process gives the models the      *)
(* engine lists, env.available, and env.locked, the model that             *)
(* ResolveLockedModelId takes from a variable or from the default.         *)

Clamp(x, low, high) == IF x < low THEN low ELSE IF x > high THEN high ELSE x
ClampUnit(x) == Clamp(x, 0, Full)

ClampQualitySelection(selection) == Clamp(selection, 1, 8)

Near == 1
Far == 2
BandMode == 3
ClampSliceModeSelection(selection) ==
    IF selection \in {Near, Far} THEN selection ELSE BandMode

AeParamValues ==
    [model : Models, quality : Int, mode : {Near, Far, BandMode}, position : Int, range : Int]

DefaultAeParams ==
    [model |-> DefaultModel, quality |-> 2, mode |-> BandMode,
     position |-> Full \div 2, range |-> Full \div 10]

\* ApplyQualityDefaults tunes edges and percentiles in three classes.
Tuning(quality) ==
    CASE quality >= 6 -> "fine" [] quality \in 3..5 -> "medium" [] OTHER -> "coarse"

\* ApplySliceDefaults: the depths that are shown, in order.
Ordered(low, high) == IF high < low THEN <<high, low>> ELSE <<low, high>>

BandAround(position, range) ==
    << ClampUnit(position - (range \div 2)), ClampUnit(position + (range \div 2)) >>

SliceBounds(values) ==
    LET position == ClampUnit(values.position)
        bounds == CASE values.mode = Near -> <<position, Full>>
                    [] values.mode = Far -> <<0, position>>
                    [] OTHER -> BandAround(position, ClampUnit(values.range))
    IN  Ordered(bounds[1], bounds[2])

\* The model is the locked one whatever the values say.
ToRenderParams(env, values) ==
    LET quality == ClampQualitySelection(values.quality)
    IN  [model |-> env.locked, quality |-> quality, tuning |-> Tuning(quality),
         slice |-> SliceBounds(values)]

InMenu(model, menu) == \E i \in DOMAIN menu : menu[i] = model

BuildModelMenu(env) ==
    CASE env.available = <<>> -> <<>>
      [] InMenu(env.locked, env.available) -> <<env.locked>>
      [] OTHER -> <<env.available[1]>>


-----------------------------------------------------------------------------
(* The parameters of the SDK.  A call carries the counts of in_data and    *)
(* out_data, whether the host lets the effect check parameters out, and    *)
(* the values of its table by the parameter's index.                       *)

QualityIndex == 1
SliceModeIndex == 5
PositionIndex == 6
RangeIndex == 7

Positive(count) == IF count # NoData /\ count > 0 THEN count ELSE 0

\* The setup of sequences reads no parameters, so it is not among these.
AllowsSdkParamTableCount(kind) == kind \in {"params_setup", "changed", "render"}

GetSdkParamCountHint(c) ==
    LET in == Positive(c.in)
        out == IF AllowsSdkParamTableCount(c.kind) THEN Positive(c.out) ELSE 0
    IN  IF out > in THEN out ELSE in

\* GetParam finds the parameter in the table.
GetParam(c, index) ==
    IF GetSdkParamCountHint(c) > 0 THEN index < GetSdkParamCountHint(c)
                                   ELSE c.kind = "changed"

TryCheckoutParamDef(c) == c.kind = "render" /\ c.in # NoData /\ c.checkout

ResolveParamForRead(c, index) ==
    c.table # NoTable /\ (GetParam(c, index) \/ TryCheckoutParamDef(c))

\* A slider that is not finite is not read.
TryReadFloatSliderValue(c, index) ==
    ResolveParamForRead(c, index) /\ c.table[index] # NaN

AnyParamRead(c) ==
    \/ \E index \in {QualityIndex, SliceModeIndex} : ResolveParamForRead(c, index)
    \/ \E index \in {PositionIndex, RangeIndex} : TryReadFloatSliderValue(c, index)

TryExtractPfCmdParamValues(c) ==
    [model |-> DefaultModel,
     quality |-> IF ResolveParamForRead(c, QualityIndex)
                   THEN ClampQualitySelection(c.table[QualityIndex])
                   ELSE DefaultAeParams.quality,
     mode |-> IF ResolveParamForRead(c, SliceModeIndex)
                THEN ClampSliceModeSelection(c.table[SliceModeIndex])
                ELSE DefaultAeParams.mode,
     position |-> IF TryReadFloatSliderValue(c, PositionIndex)
                    THEN ClampUnit(c.table[PositionIndex])
                    ELSE DefaultAeParams.position,
     range |-> IF TryReadFloatSliderValue(c, RangeIndex)
                 THEN ClampUnit(c.table[RangeIndex])
                 ELSE DefaultAeParams.range]

-----------------------------------------------------------------------------
(* ZSodaSetParamsStubImpl: the band of older callers has two ends, which   *)
(* become the position and the range of a band.                            *)

LegacyBand(values, low, high) ==
    LET ends == Ordered(ClampUnit(low), ClampUnit(high))
    IN  [values EXCEPT !.mode = BandMode,
                       !.position = (ends[1] + ends[2]) \div 2,
                       !.range = ends[2] - ends[1]]
=============================================================================
