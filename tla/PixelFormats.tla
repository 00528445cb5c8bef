---------------------------- MODULE PixelFormats ----------------------------
(***************************************************************************)
(* How the effect finds out what the pixels of the host's layers are       *)
(* (AeHostAdapter.cpp) and what it checks before it reads or writes them   *)
(* (core/PixelConversion.h).  The host does not say how deep a layer is:   *)
(* the header may name the format, else the bytes of a row are all there   *)
(* is to tell it from.                                                     *)
(*                                                                         *)
(* A layer is a record with the width, the height, the bytes of a row, the *)
(* format its pixels have, the format its header names (None when it names *)
(* none) and whether there is data.                                        *)
(***************************************************************************)
EXTENDS Integers

CONSTANTS None, NoLayer

BytesPerPixel == [RGBA8 |-> 4, RGBA16 |-> 8, RGBA32F |-> 16]
Formats == DOMAIN BytesPerPixel

Fits(format, width, row) == width * BytesPerPixel[format] <= row

\* The layers a host can hand over: whatever they say of their format, a row
\* holds the pixels of its width.
Layers ==
    { l \in [width : Int, height : Int, row : Int, format : Formats,
             hint : Formats \union {None}, data : BOOLEAN] : Fits(l.format, l.width, l.row) }

\* TryReadLayerWorld.
IsValidLayer(l) == l # NoLayer /\ l.width > 0 /\ l.height > 0 /\ l.row > 0 /\ l.data

SameSize(l, k) == l.width = k.width /\ l.height = k.height

\* BuildHostRenderPixelFormatCandidates: the formats whose rows fit, or all
\* when none does.
Candidates(width, row) ==
    LET fitting == {f \in Formats : width > 0 /\ Fits(f, width, row)}
    IN  IF fitting = {} THEN Formats ELSE fitting

\* The candidates stand in the order of their size.
FirstCandidate(candidates) ==
    CHOOSE f \in candidates : \A g \in candidates : BytesPerPixel[f] <= BytesPerPixel[g]

\* InferHostRenderPixelFormatFromStride: a row without padding tells it.
StrideHint(width, row) ==
    IF \E f \in Formats : row = width * BytesPerPixel[f]
      THEN CHOOSE f \in Formats : row = width * BytesPerPixel[f]
      ELSE None

\* As SelectBestPixelFormatHint, with the rows before the header (for a mutant).
RowsFirst(world, stride, inData) ==
    IF stride # None THEN stride ELSE IF world # None THEN world ELSE inData

\* SelectBestPixelFormatHint: the layer's header, then its rows, then in_data.
SelectBestPixelFormatHint(world, stride, inData) ==
    IF world # None THEN world ELSE IF stride # None THEN stride ELSE inData

HintOf(l, inData) == SelectBestPixelFormatHint(l.hint, StrideHint(l.width, l.row), inData)

\* SelectHostRenderPixelFormat: None when the two layers say different things.
SelectHostRenderPixelFormat(candidates, source, output) ==
    IF source # None /\ output # None /\ source # output THEN None
    ELSE IF source \in candidates THEN source
    ELSE IF output \in candidates THEN output
    ELSE FirstCandidate(candidates)

\* The format TryExtractPfCmdRenderPayload wires both buffers with.
SelectedFormat(source, output, inData) ==
    LET row == IF source.row < output.row THEN source.row ELSE output.row
    IN  SelectHostRenderPixelFormat(Candidates(output.width, row),
                                    HintOf(source, inData), HintOf(output, inData))

\* As ValidateHostView, without the check of the row (for a mutant).
TrustTheRow(l, format) == IsValidLayer(l)

\* ValidateHostView: what every conversion checks before the first pixel.
ValidateHostView(l, format) == IsValidLayer(l) /\ Fits(format, l.width, l.row)
=============================================================================
