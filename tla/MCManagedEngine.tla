-------------------------- MODULE MCManagedEngine --------------------------
(***************************************************************************)
(* Two models: one with an auxiliary file, one of a single file.           *)
(***************************************************************************)
EXTENDS ManagedEngine, TLC

CONSTANTS depth, plain, depthOnnx, depthData, plainOnnx

MCModels == {depth, plain}
MCFiles == {depthOnnx, depthData, plainOnnx}
MCMainFile == depth :> depthOnnx @@ plain :> plainOnnx
MCAssetsOf == depth :> {depthOnnx, depthData} @@ plain :> {plainOnnx}

MCOptions == [remote : BOOLEAN, fallback : BOOLEAN, download : BOOLEAN, ort : BOOLEAN]
=============================================================================
