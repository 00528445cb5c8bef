---------------------------- MODULE ManagedEngine ----------------------------
(***************************************************************************)
(* plugin/inference/ManagedInferenceEngine.cpp: the engine the pipeline    *)
(* uses.  It owns one backend, ONNX Runtime in the process or a remote     *)
(* service, or none; a model whose backend refuses it is selected all the  *)
(* same and every later SelectModel of it tries again.  Each operation     *)
(* holds mutex_ from start to end and is one action.                       *)
(*                                                                         *)
(* Outside the engine: the service may come and go, and downloads the      *)
(* engine has queued write the files of the models.                        *)
(***************************************************************************)
EXTENDS Integers, FiniteSets

CONSTANTS
    Models,   \* ids in the catalog
    NoModel,
    Files,    \* asset files under the model root
    MainFile, \* [Models -> Files], the .onnx file
    AssetsOf, \* [Models -> SUBSET Files], all files of a model
    Unusable, \* models whose inputs or outputs ResolveSessionIo refuses
    Options   \* RuntimeOptions, and what the machine offers

ASSUME EngineAssumption ==
    /\ NoModel \notin Models
    /\ MainFile \in [Models -> Files]
    /\ AssetsOf \in [Models -> SUBSET Files]
    /\ \A m \in Models : MainFile[m] \in AssetsOf[m]
    /\ Unusable \subseteq Models
    \* remote: the preferred backend is the remote one.  fallback: a remote
    \* option is set.  download: missing models are fetched.  ort: ONNX
    \* Runtime is built in and loads.
    /\ Options \subseteq [remote : BOOLEAN, fallback : BOOLEAN, download : BOOLEAN,
                          ort : BOOLEAN]

VARIABLES
    options,  \* options_, fixed by the constructor
    engine,   \* the members of the engine and the model its backend has loaded
    cooling,  \* less than 750 ms since last_backend_recovery_attempt_
    produced, \* the model that made the depth of the last call
    service,  \* a remote backend can be created
    files,    \* [Files -> "absent", "partial" or "full"]
    fetching  \* files a download worker is busy with

outside == <<service, files, fetching>>
vars == <<options, engine, cooling, produced, service, files, fetching>>

-----------------------------------------------------------------------------
\* AreModelAssetsPresent: a file being written is present.
Present(m) == \A f \in AssetsOf[m] : files[f] # "absent"

\* The files MaybeQueueModelDownloadLocked asks for: a worker that is busy
\* with a file makes the request a skipped one.
Missing(m) == { f \in AssetsOf[m] : files[f] = "absent" /\ f \notin fetching }

Complete(m) == \A f \in AssetsOf[m] : files[f] = "full"

\* IOnnxRuntimeBackend::SelectModel.  The remote one takes every model.
Loads(kind, m) == kind = "remote" \/ (kind = "ort" /\ Complete(m) /\ m \notin Unusable)

\* ONNX Runtime keeps its session when it refuses a model before it creates
\* one or by its inputs, and loses it to an exception.
LoadedAfter(e, m) ==
    IF Loads(e.kind, m) THEN m
    ELSE IF files[MainFile[m]] = "absent" \/ Complete(m) THEN e.loaded ELSE NoModel

\* The backend has taken model m.
Running(e, m) ==
    [e EXCEPT !.loaded = LoadedAfter(e, m), !.fallback = FALSE, !.lastFallback = FALSE,
              !.reason = FALSE, !.reported = e.kind]

\* The backend has refused it.
RefusedButRunning(e, m) ==
    [e EXCEPT !.loaded = LoadedAfter(e, m), !.lastFallback = TRUE, !.reason = TRUE]
Refused(e, m) ==
    [e EXCEPT !.loaded = LoadedAfter(e, m), !.fallback = TRUE, !.lastFallback = TRUE,
              !.reason = TRUE]

-----------------------------------------------------------------------------
\* ConfigureBackend: which backend it can create.
Creatable ==
    IF options.remote THEN IF service THEN "remote" ELSE "none"
    ELSE IF options.ort THEN "ort"
    ELSE IF options.fallback /\ service THEN "remote"
    ELSE "none"

\* activate_backend or mark_backend_unavailable: what is reported as active,
\* and whether fallback_reason_ says anything.  It also notes the remote
\* backend that stands in for ONNX Runtime.
Reported ==
    IF Creatable # "none" THEN Creatable ELSE IF options.remote THEN "remote" ELSE "cpu"

NeverNoted == FALSE
Noted == Creatable = "none" \/ (Creatable = "remote" /\ ~options.remote)

Configured(e) ==
    [e EXCEPT !.kind = Creatable, !.loaded = NoModel,
              !.fallback = (Creatable = "none"), !.lastFallback = (Creatable = "none"),
              !.reason = Noted, !.reported = Reported]

\* TryRecoverRequestedBackendLocked: when it goes on, and what it leaves.
MayRecoverAlways(e) == (options.remote \/ options.fallback) /\ ~cooling
MayRecoverMissingOnly(e) ==
    /\ options.remote \/ options.fallback
    /\ e.kind # "none" /\ e.fallback
    /\ ~cooling
MayRecover(e) ==
    /\ options.remote \/ options.fallback
    /\ e.kind = "none" \/ e.fallback
    /\ ~cooling

Recovered(e) ==
    LET c == Configured(e) IN
    IF ~MayRecover(e) THEN e
    ELSE IF c.kind = "none" THEN c
    ELSE IF Loads(c.kind, c.active) THEN [Running(c, c.active) EXCEPT !.exists = TRUE]
    ELSE Refused(c, c.active)

\* TryPromoteActiveModelToOnnxLocked.
NotPromoted(e) == e
Promoted(e) ==
    IF ~(e.kind # "none" /\ e.exists /\ e.fallback) THEN e
    ELSE IF Loads(e.kind, e.active) THEN Running(e, e.active)
    ELSE [e EXCEPT !.loaded = LoadedAfter(e, e.active), !.reason = TRUE]

\* model_file_exists_ as both ways of selecting compute it, and the reason
\* MaybeQueueModelDownloadLocked adds when it has queued or failed to queue.
WithFiles(e) ==
    LET exists == options.remote \/ Present(e.active) IN
    [e EXCEPT !.exists = exists,
              !.reason = @ \/ (~exists /\ options.download /\ Missing(e.active) # {})]

\* The downloads that start: a worker thread may fail to.
QueueDownloads(m) ==
    IF ~options.remote /\ ~Present(m) /\ options.download
      THEN \E started \in SUBSET Missing(m) : fetching' = fetching \cup started
      ELSE UNCHANGED fetching

\* SelectModelLocked with an id of the catalog.
Tried(e, m) ==
    IF e.kind = "none"
      THEN [e EXCEPT !.fallback = TRUE, !.lastFallback = TRUE, !.reason = TRUE]
    ELSE IF Loads(e.kind, m) THEN Running(e, m)
    ELSE Refused(e, m)

Selected(e, m) == Promoted(WithFiles([Tried(e, m) EXCEPT !.active = m]))

\* SelectModel of the model that is active.
SelectedAgain(e) == Promoted(Recovered(WithFiles(e)))

-----------------------------------------------------------------------------
\* The constructor, before ConfigureBackend.
Blank == [active |-> NoModel, exists |-> FALSE, kind |-> "none", loaded |-> NoModel,
          reported |-> "cpu", fallback |-> TRUE, lastFallback |-> TRUE, reason |-> FALSE]

Init ==
    /\ options \in Options
    /\ service \in BOOLEAN
    /\ files \in [Files -> {"absent", "partial", "full"}]
    /\ fetching = {}
    /\ engine = Configured(Blank)
    /\ cooling = FALSE
    /\ produced = NoModel

Initialize(m) ==
    /\ engine' = Selected(engine, m)
    /\ produced' = NoModel
    /\ QueueDownloads(m)
    /\ UNCHANGED <<options, cooling, service, files>>

SelectOther(m) ==
    /\ m # engine.active
    /\ engine' = Selected(engine, m)
    /\ produced' = NoModel
    /\ QueueDownloads(m)
    /\ UNCHANGED <<options, cooling, service, files>>

SelectAgain(m) ==
    /\ m = engine.active
    /\ engine' = SelectedAgain(engine)
    /\ cooling' = (cooling \/ MayRecover(WithFiles(engine)))
    /\ produced' = NoModel
    /\ QueueDownloads(m)
    /\ UNCHANGED <<options, service, files>>

SelectModel(m) == SelectOther(m) \/ SelectAgain(m)

\* An id that is empty or that the catalog does not have.
SelectNothing == produced' = NoModel /\ UNCHANGED <<options, engine, cooling, outside>>

CanRun == engine.active # NoModel /\ engine.kind # "none" /\ ~engine.fallback

RunBackend ==
    /\ CanRun
    /\ \/ /\ produced' = engine.loaded
          /\ engine' = [engine EXCEPT !.lastFallback = FALSE, !.reason = FALSE]
       \/ /\ produced' = NoModel
          /\ engine' = [engine EXCEPT !.lastFallback = TRUE, !.reason = TRUE]
    /\ UNCHANGED <<options, cooling, outside>>

\* Without a backend that has the model Run fails; without a model it fails
\* before it touches anything.
RunUnavailable ==
    /\ ~CanRun
    /\ produced' = NoModel
    /\ engine' = [engine EXCEPT !.lastFallback = @ \/ engine.active # NoModel]
    /\ UNCHANGED <<options, cooling, outside>>

Run == RunBackend \/ RunUnavailable

-----------------------------------------------------------------------------
(* Outside the engine.                                                     *)

TimePasses == cooling /\ cooling' = FALSE /\ UNCHANGED <<options, engine, produced, outside>>

ServiceChanges ==
    /\ service' = ~service
    /\ UNCHANGED <<options, engine, cooling, produced, files, fetching>>

\* A worker writes the file, has written it, or removes what it wrote.
Fetch(f) ==
    /\ f \in fetching
    /\ \/ files[f] = "absent" /\ files' = [files EXCEPT ![f] = "partial"] /\ UNCHANGED fetching
       \/ files' = [files EXCEPT ![f] = "full"] /\ fetching' = fetching \ {f}
       \/ files' = [files EXCEPT ![f] = "absent"] /\ fetching' = fetching \ {f}
    /\ UNCHANGED <<options, engine, cooling, produced, service>>

Next ==
    \/ \E m \in Models : Initialize(m) \/ SelectModel(m)
    \/ SelectNothing
    \/ Run
    \/ TimePasses
    \/ ServiceChanges
    \/ \E f \in Files : Fetch(f)

Spec == Init /\ [][Next]_vars

\* The host renders again and again with the model it has selected.
FairSpec ==
    /\ Spec
    /\ \A m \in Models : WF_vars(SelectAgain(m))
    /\ WF_vars(TimePasses)

-----------------------------------------------------------------------------
Kinds == {"none", "ort", "remote"}

\* Types of the engine's members and of what is around it.
TypeOK ==
    /\ options \in Options
    /\ engine \in [active : Models \cup {NoModel}, exists : BOOLEAN, kind : Kinds,
                   loaded : Models \cup {NoModel}, reported : {"cpu", "ort", "remote"},
                   fallback : BOOLEAN, lastFallback : BOOLEAN, reason : BOOLEAN]
    /\ cooling \in BOOLEAN
    /\ produced \in Models \cup {NoModel}
    /\ service \in BOOLEAN
    /\ files \in [Files -> {"absent", "partial", "full"}]
    /\ fetching \subseteq Files

\* The engine is what the pipeline takes it for: the depth of a run that
\* succeeds is made with the model reported active, although selecting a
\* model succeeds when the backend still has another one loaded.
Contract == INSTANCE EngineContract WITH selected <- engine.active
ImplementsEngine == Contract!Spec

\* When no backend runs the model, or the last run has failed, there is a
\* reason to show the user, and without a backend the engine says so.
FailuresAreExplained ==
    /\ engine.fallback \/ engine.lastFallback => engine.reason
    /\ engine.kind = "none" => engine.fallback

\* Once a backend runs the model, nothing but another model takes it away:
\* not a render that selects it again, not a failed run, not a recovery.
RunningModelStays ==
    [][CanRun /\ engine'.active = engine.active =>
         engine'.loaded = engine.loaded /\ ~engine'.fallback]_vars

\* The service that stays up is found again by the host that keeps rendering
\* with one model, also after recoveries that came too early.
FindsTheService ==
    options.remote \/ (options.fallback /\ ~options.ort)
      => \A m \in Models :
           <>[](service /\ engine.active = m) => <>[]~engine.fallback

\* A model whose files have all arrived runs without a new choice of model.
RunsWhatHasArrived ==
    options.ort /\ ~options.remote
      => \A m \in Models \ Unusable :
           <>[](Complete(m) /\ engine.active = m) => <>[]~engine.fallback
=============================================================================
