--------------------------- MODULE MCEffectEntry ---------------------------
EXTENDS EffectEntry, TLC

CONSTANTS m1, m2

\* The default model is locked and listed, listed but not locked, or neither.
MCEnvironments ==
    { [available |-> <<m1, m2>>, locked |-> m1, guarded |-> TRUE],
      [available |-> <<m1, m2>>, locked |-> m2, guarded |-> FALSE],
      [available |-> <<m2>>, locked |-> m1, guarded |-> FALSE],
      [available |-> <<>>, locked |-> m1, guarded |-> TRUE] }

\* In the first environment there is one call more, out of fewer.
Crowded(e) == e.locked = m1 /\ m1 \in {e.available[i] : i \in DOMAIN e.available}
MCMaxCalls == [e \in MCEnvironments |-> IF Crowded(e) THEN 3 ELSE 2]

Layer(width, row, format, hint) ==
    [width |-> width, height |-> 1, row |-> row, format |-> format, hint |-> hint, data |-> TRUE]

Plain8 == Layer(2, 8, "RGBA8", None)
Padded8 == Layer(2, 16, "RGBA8", None)         \* rows like those of RGBA16
Named8 == Layer(2, 16, "RGBA8", "RGBA8")
Plain16 == Layer(2, 16, "RGBA16", None)
Odd16 == Layer(2, 20, "RGBA16", None)
Narrow16 == Layer(1, 8, "RGBA16", None)
Empty == [Plain8 EXCEPT !.data = FALSE]

\* The slider values of a table by index: within the schema, out of it, not finite.
Table(quality, mode, position, range) ==
    (QualityIndex :> quality) @@ (SliceModeIndex :> mode)
      @@ (PositionIndex :> position) @@ (RangeIndex :> range)
Usual == Table(4, Near, 6, 4)
Extreme == Table(9, 7, 24, -2)
Broken == Table(0, Far, NaN, NaN)

Sdk(kind, in, out, checkout, table, source, output) ==
    [kind |-> kind, in |-> in, out |-> out, checkout |-> checkout, table |-> table,
     source |-> source, output |-> output]

Setup(kind, in, out) == Sdk(kind, in, out, FALSE, NoTable, NoLayer, NoLayer)

AllSdkCalls ==
    { Setup("global_setup", 0, 0), Setup("params_setup", 0, 0), Setup("params_setup", NoData, 0),
      Setup("about", 0, 0), Setup("sequence", 0, 0),
      Sdk("changed", 9, 9, FALSE, Usual, Plain8, NoLayer),
      Sdk("changed", 0, NoData, FALSE, Extreme, Plain8, NoLayer),
      Sdk("changed", 1, 0, FALSE, Usual, Plain8, NoLayer),
      Sdk("render", 9, 0, FALSE, Usual, Plain8, Plain8),
      Sdk("render", 2, 6, FALSE, Extreme, Named8, Named8),
      Sdk("render", 1, 0, TRUE, Broken, Padded8, Padded8),
      Sdk("render", 0, 0, FALSE, Usual, Plain16, Plain16),
      Sdk("render", 9, 0, FALSE, Usual, Plain16, Plain8),
      Sdk("render", 9, 0, FALSE, Usual, Plain16, Narrow16),
      Sdk("render", 9, 0, FALSE, Usual, Odd16, Odd16),
      Sdk("render", 9, 0, FALSE, Usual, Empty, Plain8) }

Bridge(source, output, format) ==
    [kind |-> "host_buffer", source |-> source, output |-> output, format |-> format]

AllLegacyCalls ==
    { [kind |-> "stub", id |-> 0], [kind |-> "stub", id |-> 1], [kind |-> "stub", id |-> 3],
      [kind |-> "stub", id |-> 7], [kind |-> "set_freeze"],
      [kind |-> "set_model", model |-> m1], [kind |-> "set_model", model |-> m2],
      [kind |-> "set_params", quality |-> 7, low |-> 16, high |-> 4],
      Bridge(Plain8, Plain8, "RGBA8"), Bridge(Plain8, Plain8, "RGBA16"),
      Bridge(Plain16, Plain8, "RGBA16"),
      [kind |-> "gray", source |-> Plain8, output |-> Plain8, enough |-> TRUE],
      [kind |-> "gray", source |-> Plain8, output |-> Plain8, enough |-> FALSE] }

MCSdkCalls ==
    [e \in MCEnvironments |->
      IF Crowded(e)
        THEN { c \in AllSdkCalls : \/ c.kind = "changed" /\ c.in = 9
                                   \/ c.kind = "render" /\ c.output \in {Plain16, Named8} }
        ELSE AllSdkCalls]
MCLegacyCalls ==
    [e \in MCEnvironments |->
      IF Crowded(e) THEN {c \in AllLegacyCalls : c.kind = "set_params"} ELSE AllLegacyCalls]
=============================================================================
