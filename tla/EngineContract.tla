--------------------------- MODULE EngineContract ---------------------------
(***************************************************************************)
(* What plugin/core expects of inference::IInferenceEngine (plugin/        *)
(* inference/InferenceEngine.h): one model is selected at a time, and a    *)
(* run that succeeds was made with the model selected at that moment.      *)
(* Every thread that renders shares the one engine.                        *)
(***************************************************************************)
CONSTANTS Models,  \* model ids
          NoModel  \* no model: nothing selected, or no depth produced

VARIABLES selected, \* the model id the engine reports as active
          produced  \* the model that made the depth of the call that returned last

vars == <<selected, produced>>

Init == selected = NoModel /\ produced = NoModel

Select(m) == selected' = m /\ produced' = NoModel

\* An unknown or an empty id changes nothing.
Reject == UNCHANGED selected /\ produced' = NoModel

RunSucceeds ==
    /\ selected # NoModel
    /\ produced' = selected
    /\ UNCHANGED selected

RunFails == UNCHANGED selected /\ produced' = NoModel

Next ==
    \/ \E m \in Models : Select(m)
    \/ Reject
    \/ RunSucceeds
    \/ RunFails

Spec == Init /\ [][Next]_vars
=============================================================================
