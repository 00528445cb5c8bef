---------------------------- MODULE EffectEntry ----------------------------
(***************************************************************************)
(* The way of a call through the effect: EffectMain and the stubs of older *)
(* callers (plugin/ae/AePluginEntry.cpp), what they make of the host's     *)
(* payload (AeHostAdapter.cpp) and the command router behind them          *)
(* (AeCommandRouter.cpp).                                                  *)
(*                                                                         *)
(* The effect tells the host that its renders may run on several threads,  *)
(* so calls of several threads are in it at a time.  They meet in the      *)
(* singletons, which the first call that needs them creates, and in the    *)
(* router's current parameters.  The pipeline is a step that returns a     *)
(* frame, throws, or faults.                                               *)
(***************************************************************************)
EXTENDS EffectParams, PixelFormats

CONSTANTS
    HostThreads,    \* threads of the host that call EffectMain
    LegacyThreads,  \* threads that call the stubs
    Environments,   \* see env
    SdkCalls,       \* [Environments -> the payloads EffectMain is called with]
    LegacyCalls,    \* [Environments -> the arguments the stubs are called with]
    MaxCalls        \* [Environments -> bound on the calls]

Threads == HostThreads \union LegacyThreads
Free == "free"
Done == "done"

\* model_menu_ has no lock: the stubs that refresh it are called by one thread.
ASSUME EntryAssumption ==
    /\ HostThreads \intersect LegacyThreads = {}
    /\ \A s, t \in LegacyThreads : s = t
    /\ Free \notin Threads /\ Done \notin Threads
    /\ MaxCalls \in [Environments -> Nat]

\* A render of the host has layers of the host, or none.
ASSUME LayerAssumption ==
    /\ None \notin Formats
    /\ \A e \in Environments : \A c \in SdkCalls[e] :
         c.kind = "render" => {c.source, c.output} \subseteq Layers \union {NoLayer}

VARIABLES
    env,      \* the models, and whether the build is MSVC's (guarded)
    once,     \* g_init_flag: Free, Done or the thread that runs the creation
    built,    \* the engine that g_engine, g_pipeline and g_router have, 0 for none
    current,  \* current_params_
    menu,     \* model_menu_
    pc,       \* [Threads -> where the thread's call is]
    call,     \* [Threads -> its payload]
    local,    \* [Threads -> what the call has come to so far]
    made      \* calls so far

vars == <<env, once, built, current, menu, pc, call, local, made>>

-----------------------------------------------------------------------------
(* What a call leaves behind: the picture in the output layer, the answer  *)
(* of a stub, what a setup tells the host, and for the properties the      *)
(* values current_params_ has had since the call began (seen).             *)

Untouched == [what |-> "untouched"]
Source == [what |-> "source"]
PartOfSource == [what |-> "part"]
Rendered(params, format) == [what |-> "rendered", params |-> params, format |-> format]

NoSetup == [flags |-> FALSE, params |-> 0, registered |-> 0]

Fresh == [values |-> DefaultAeParams, request |-> FALSE, picture |-> Untouched,
          answer |-> "none", end |-> "running", setup |-> NoSetup, rerender |-> FALSE,
          seen |-> {current}]

OfSdk(t) == t \in HostThreads

NoCall == [kind |-> "none"]

Init ==
    /\ env \in Environments
    /\ once = Free
    /\ built = [engine |-> 0, pipeline |-> 0, router |-> 0]
    /\ current = DefaultAeParams
    /\ menu = <<>>
    /\ pc = [t \in Threads |-> "idle"]
    /\ call = [t \in Threads |-> NoCall]
    /\ local = [t \in Threads |-> Fresh]
    /\ made = 0

Begin(t) ==
    /\ pc[t] = "idle" /\ made < MaxCalls[env]
    /\ \E c \in (IF OfSdk(t) THEN SdkCalls[env] ELSE LegacyCalls[env]) :
         call' = [call EXCEPT ![t] = c]
    /\ local' = [local EXCEPT ![t] = Fresh]
    /\ pc' = [pc EXCEPT ![t] = "enter"]
    /\ made' = made + 1
    /\ UNCHANGED <<env, once, built, current, menu>>

\* Steps of thread t to the place, with the record of the call updated.
GoTo(t, place, record) ==
    /\ pc' = [pc EXCEPT ![t] = place]
    /\ local' = [local EXCEPT ![t] = record]

Return(t, record) == GoTo(t, "idle", [record EXCEPT !.end = "returned"])
Answer(t, ok) ==
    Return(t, [local[t] EXCEPT !.answer = IF OfSdk(t) THEN "none" ELSE IF ok THEN "ok" ELSE "fail"])

shared == <<env, once, built, current, menu, call, made>>

-----------------------------------------------------------------------------
(* The pass-through of the source.                                         *)

\* Rows and bytes up to the smaller of the two layers.
Copy(source, output) ==
    IF SameSize(source, output) /\ source.format = output.format THEN Source ELSE PartOfSource

\* TryCopyLayerWorldPassThrough and TryCopyRenderInputToOutput; a layer
\* without data, size or table leaves the output alone.
PassThrough(c, picture) ==
    IF c.table # NoTable /\ IsValidLayer(c.source) /\ IsValidLayer(c.output)
      THEN Copy(c.source, c.output) ELSE picture

RenderPassThrough(c, picture) == IF c.kind = "render" THEN PassThrough(c, picture) ELSE picture

\* As Handled, in no build a copy (for a mutant).
LeftAlone(c, picture) == picture

\* What becomes of the picture when an exception leaves EffectMainImpl: only
\* the handler of an MSVC build copies the source.
Handled(c, picture) == IF env.guarded THEN RenderPassThrough(c, picture) ELSE picture

Throw(t) ==
    GoTo(t, "idle",
         [local[t] EXCEPT !.end = "threw",
                          !.answer = IF OfSdk(t) THEN "none" ELSE "fail",
                          !.picture = IF OfSdk(t) THEN Handled(call[t], @) ELSE @])

-----------------------------------------------------------------------------
(* EffectMainImpl builds the dispatch.                                     *)

\* TryExtractPfCmdRenderPayload: both layers can be read, they have the same
\* size and the hints about their format agree.
HasHostBuffers(c) ==
    /\ c.table # NoTable
    /\ IsValidLayer(c.source) /\ IsValidLayer(c.output)
    /\ SameSize(c.source, c.output)
    /\ SelectedFormat(c.source, c.output, None) # None

FormatOf(c) == SelectedFormat(c.source, c.output, None)

\* BuildHostBufferRenderDispatch: the source becomes a frame.
IsConverted(c) == HasHostBuffers(c) /\ ValidateHostView(c.source, FormatOf(c))

WireRenderPayload(t) ==
    LET c == call[t]
    IN  \/ GoTo(t, "once",
                [local[t] EXCEPT !.values = TryExtractPfCmdParamValues(c),
                                 !.request = IsConverted(c),
                                 !.picture = IF IsConverted(c) THEN @ ELSE PassThrough(c, @)])
        \/ IsConverted(c) /\ Throw(t)  \* no memory for the frame

\* A change of no parameter the table shows is not passed on.  The host is
\* told to render again before the router has the values.
WireParamUpdatePayload(t) ==
    LET c == call[t]
    IN  IF AnyParamRead(c)
          THEN GoTo(t, "once", [local[t] EXCEPT !.values = TryExtractPfCmdParamValues(c),
                                                !.rerender = c.out # NoData])
          ELSE Return(t, local[t])

SchemaCount == 9  \* kAeSdkNumParams: the layer and eight parameters

\* As ParamsAnnounced, announced before the parameters are registered (for a mutant).
AnnouncedFirst(c, registered) ==
    IF c.out = NoData THEN 0 ELSE IF c.in = NoData THEN 1 ELSE SchemaCount

\* num_params is 1 until every parameter is registered.
ParamsAnnounced(c, registered) ==
    IF c.out = NoData THEN 0
    ELSE IF c.in # NoData /\ registered = SchemaCount - 1 THEN SchemaCount ELSE 1

\* RegisterParamsSetupScaffold stops at the first parameter the host refuses.
WireParamSetupPayload(t) ==
    LET c == call[t]
    IN  \E registered \in (IF c.in = NoData \/ c.out = NoData THEN {0} ELSE {0, 3, SchemaCount - 1}) :
          Return(t, [local[t] EXCEPT !.setup = [flags |-> c.out # NoData,
                                                params |-> ParamsAnnounced(c, registered),
                                                registered |-> registered]])

WireGlobalSetupPayload(t) ==
    Return(t, [local[t] EXCEPT !.setup.flags = call[t].out # NoData])

\* The setups are answered here, and so is what has no use for the router.
BuildSdkDispatch(t) ==
    /\ pc[t] = "enter" /\ OfSdk(t)
    /\ \/ call[t].kind = "render" /\ WireRenderPayload(t)
       \/ call[t].kind = "changed" /\ WireParamUpdatePayload(t)
       \/ call[t].kind = "params_setup" /\ WireParamSetupPayload(t)
       \/ call[t].kind = "global_setup" /\ WireGlobalSetupPayload(t)
       \/ call[t].kind = "about" /\ GoTo(t, "once", local[t])
       \/ call[t].kind = "sequence" /\ Return(t, local[t])
    /\ UNCHANGED shared

-----------------------------------------------------------------------------
(* The stubs look at their arguments first.                                *)

\* Ids 0 to 3; another one maps to kUnknown, which the router refuses.
StubCommands == [about |-> 0, global_setup |-> 1, params_setup |-> 2, render |-> 3]

LegacyEnter(t) ==
    LET c == call[t]
    IN  /\ pc[t] = "enter" /\ ~OfSdk(t)
        /\ \/ /\ c.kind \in {"stub", "set_model", "set_params", "host_buffer", "gray"}
              /\ c.kind = "gray" => c.enough  \* out_size holds the frame
              /\ GoTo(t, "once", local[t])
           \/ c.kind = "gray" /\ ~c.enough /\ Answer(t, FALSE)
           \/ c.kind = "set_freeze" /\ Answer(t, TRUE)
        /\ UNCHANGED shared

-----------------------------------------------------------------------------
(* EnsureInitialized.                                                      *)

\* As AfterCreation, kept taken when the creation throws (for a mutant).
NeverReleased(t, complete) == IF complete THEN Done ELSE t

\* As AfterCreation, done even when the creation throws (for a mutant).
DoneAnyway(t, complete) == Done

\* The flag of call_once after the creation: a throw leaves it unset.
AfterCreation(t, complete) == IF complete THEN Done ELSE Free

WaitOnce(t) ==
    /\ pc[t] = "once"
    /\ \/ once = Done /\ pc' = [pc EXCEPT ![t] = "router"] /\ UNCHANGED once
       \/ once = Free /\ pc' = [pc EXCEPT ![t] = "create"] /\ once' = t
    /\ UNCHANGED <<env, built, current, menu, call, local, made>>

\* The engine, the pipeline and the router in turn; one of them may throw, and
\* so may the report at the end.  What is there by then stays.
Create(t) ==
    /\ pc[t] = "create"
    /\ \E stages \in 0..4 :
         /\ LET new == built.engine + 1
            IN  built' = [engine |-> IF stages >= 1 THEN new ELSE built.engine,
                          pipeline |-> IF stages >= 2 THEN new ELSE built.pipeline,
                          router |-> IF stages >= 3 THEN new ELSE built.router]
         /\ once' = AfterCreation(t, stages = 4)
         \* A new router starts with the default parameters.
         /\ current' = IF stages >= 3 THEN DefaultAeParams ELSE current
         /\ IF stages = 4 THEN GoTo(t, "router", local[t]) ELSE Throw(t)
    /\ UNCHANGED <<env, menu, call, made>>

-----------------------------------------------------------------------------
(* The router: AeCommandRouter::Handle.                                    *)

Refreshes(t) ==
    /\ pc[t] = "router" /\ call[t].kind = "stub"
    /\ call[t].id \in {StubCommands.global_setup, StubCommands.params_setup}

\* As Stored, whatever the menu says (for a mutant).
StoredUnchecked(values) == TRUE

\* UpdateParams refuses a model that is not in the menu.
Stored(values) == InMenu(values.model, BuildModelMenu(env))

\* current_params_ = values, under the lock.
Store(t, record, values) ==
    /\ current' = values
    /\ pc' = [pc EXCEPT ![t] = "idle"]
    /\ local' = [u \in Threads |->
                   LET r == IF u = t THEN record ELSE local[u]
                   IN  [r EXCEPT !.seen = IF pc[u] = "idle" THEN @ ELSE @ \union {values}]]

UpdateParams(t) ==
    /\ \/ pc[t] = "router" /\ call[t].kind = "changed"
       \/ pc[t] = "update"
    /\ IF Stored(local[t].values)
         THEN Store(t, [local[t] EXCEPT !.end = "returned",
                                        !.answer = IF OfSdk(t) THEN "none" ELSE "ok"],
                    local[t].values)
         ELSE Answer(t, FALSE) /\ UNCHANGED current
    /\ UNCHANGED <<env, once, built, menu, call, made>>

\* The stubs take the current parameters, change some and send all of them back.
LegacyChange(t) ==
    LET c == call[t]
    IN  /\ pc[t] = "router" /\ c.kind \in {"set_model", "set_params"}
        /\ GoTo(t, "update",
                [local[t] EXCEPT !.values =
                   IF c.kind = "set_model"
                     THEN [current EXCEPT !.model = c.model]
                     ELSE LegacyBand([current EXCEPT !.quality = c.quality], c.low, c.high)])
        /\ UNCHANGED shared

\* RefreshModelMenu: the parameters are read under the lock and compared
\* without it.
RefreshModelMenu(t) ==
    /\ Refreshes(t)
    /\ menu' = BuildModelMenu(env)
    /\ IF menu' = <<>> \/ InMenu(current.model, menu')
         THEN Answer(t, menu' # <<>>)
         ELSE GoTo(t, "refreshed", [local[t] EXCEPT !.values = [current EXCEPT !.model = menu'[1]]])
    /\ UNCHANGED <<env, once, built, current, call, made>>

\* They are written back under the lock.
StoreRefreshed(t) ==
    /\ pc[t] = "refreshed"
    /\ Store(t, [local[t] EXCEPT !.end = "returned", !.answer = "ok"], local[t].values)
    /\ UNCHANGED <<env, once, built, menu, call, made>>

\* kAbout, a render without a request, and kUnknown.
HandleAtOnce(t) ==
    /\ pc[t] = "router"
    /\ \/ call[t].kind = "about" /\ Answer(t, TRUE)
       \/ call[t].kind = "stub" /\ ~Refreshes(t)
          /\ Answer(t, call[t].id \in {StubCommands.about, StubCommands.render})
       \/ call[t].kind = "render" /\ ~local[t].request /\ GoTo(t, "commit", local[t])
    /\ UNCHANGED shared

\* The layers of ZSodaRenderGrayFrameStub are made for the call.
GrayLayer(l) == [l EXCEPT !.row = l.width * BytesPerPixel.RGBA32F, !.format = "RGBA32F"]
LegacySource(c) == IF c.kind = "gray" THEN GrayLayer(c.source) ELSE c.source
LegacyOutput(c) == IF c.kind = "gray" THEN GrayLayer(c.output) ELSE c.output
LegacyFormat(c) == IF c.kind = "gray" THEN "RGBA32F" ELSE c.format

\* As ParamsOf, current even when the payload has its own (for a mutant).
CurrentAlways(t) == current

\* The parameters of the request, or else a snapshot under the lock.
ParamsOf(t) ==
    IF call[t].kind = "render" /\ AnyParamRead(call[t]) THEN local[t].values ELSE current

TakeParams(t) ==
    /\ pc[t] = "router"
    /\ \/ call[t].kind = "render" /\ local[t].request
       \/ /\ call[t].kind \in {"host_buffer", "gray"}
          /\ ValidateHostView(LegacySource(call[t]), LegacyFormat(call[t]))
    /\ GoTo(t, "pipeline", [local[t] EXCEPT !.values = ParamsOf(t)])
    /\ UNCHANGED shared

\* BuildHostBufferRenderDispatch fails, or has no memory for the frame.
LegacyConversionFails(t) ==
    /\ pc[t] = "router" /\ call[t].kind \in {"host_buffer", "gray"}
    /\ \/ /\ ~ValidateHostView(LegacySource(call[t]), LegacyFormat(call[t]))
          /\ Answer(t, FALSE)
       \/ Throw(t)
    /\ UNCHANGED shared

\* pipeline_->Render; a fault reaches the handler of an MSVC build, which
\* leaves the output alone.
RunPipeline(t) ==
    /\ pc[t] = "pipeline"
    /\ \/ GoTo(t, "commit", local[t])
       \/ Throw(t)
       \/ env.guarded /\ OfSdk(t) /\ GoTo(t, "idle", [local[t] EXCEPT !.end = "faulted"])
    /\ UNCHANGED shared

-----------------------------------------------------------------------------
(* The frame goes to the host.                                             *)

\* CommitSdkRenderOutput.  Without a request there is no frame to write, and
\* EffectMainImpl prefers the source to what is in the output.
CommitSdkRenderOutput(t) ==
    LET c == call[t]
        written == local[t].request /\ ValidateHostView(c.output, FormatOf(c))
    IN  /\ pc[t] = "commit" /\ OfSdk(t)
        /\ Return(t, [local[t] EXCEPT !.picture =
                        IF written THEN Rendered(ToRenderParams(env, local[t].values), FormatOf(c))
                                   ELSE RenderPassThrough(c, @)])
        /\ UNCHANGED shared

\* The end of ExecuteHostBufferRenderBridge.  Source and output have one size.
ExecuteHostBufferRenderBridge(t) ==
    LET c == call[t]
        written == ValidateHostView(LegacyOutput(c), LegacyFormat(c))
    IN  /\ pc[t] = "commit" /\ ~OfSdk(t)
        /\ Return(t, [local[t] EXCEPT
                        !.answer = IF written THEN "ok" ELSE "fail",
                        !.picture = IF written
                                      THEN Rendered(ToRenderParams(env, local[t].values), LegacyFormat(c))
                                      ELSE @])
        /\ UNCHANGED shared

-----------------------------------------------------------------------------
CallStep(t) ==
    \/ BuildSdkDispatch(t) \/ LegacyEnter(t)
    \/ WaitOnce(t) \/ Create(t)
    \/ UpdateParams(t) \/ LegacyChange(t) \/ RefreshModelMenu(t) \/ StoreRefreshed(t)
    \/ HandleAtOnce(t) \/ TakeParams(t) \/ LegacyConversionFails(t) \/ RunPipeline(t)
    \/ CommitSdkRenderOutput(t) \/ ExecuteHostBufferRenderBridge(t)

Next == \E t \in Threads : Begin(t) \/ CallStep(t)

Spec == Init /\ [][Next]_vars

\* Every thread that is in a call goes on with it.
FairSpec == Spec /\ \A t \in Threads : WF_vars(CallStep(t))

-----------------------------------------------------------------------------
(* Properties.                                                             *)

Over(t, kind) == pc[t] = "idle" /\ call[t].kind = kind

\* When a render has both its layers, the host finds the rendering or the source
\* in the output, the whole of it when the layers are alike, and never what was
\* there before: whether the buffers could not be used, the router refused, the
\* frame could not be written or something threw.  An exception is caught with a
\* copy of the source in MSVC's builds only; a fault leaves the output alone.
RenderLeavesAPicture ==
    \A t \in HostThreads :
      LET c == call[t]
      IN  ( /\ Over(t, "render") /\ PassThrough(c, Untouched) # Untouched
            /\ local[t].end = "returned" \/ (local[t].end = "threw" /\ env.guarded) )
          => \/ local[t].picture.what \in {"rendered", "source"}
             \/ local[t].picture.what = "part" /\ Copy(c.source, c.output) = PartOfSource

\* A rendering is made with the parameters the host's payload shows, when it
\* shows one, whatever other threads store; else with one whole value that the
\* router has had since the call began.
RenderUsesItsParams ==
    \A t \in Threads :
      (pc[t] = "idle" /\ local[t].picture.what = "rendered")
        => \E values \in (IF OfSdk(t) /\ AnyParamRead(call[t])
                            THEN {TryExtractPfCmdParamValues(call[t])} ELSE local[t].seen) :
             local[t].picture.params = ToRenderParams(env, values)

\* The rows of a layer tell its format, or its header does.
TellsItsFormat(l) ==
    /\ l.row = l.width * BytesPerPixel[l.format] \/ l.hint # None
    /\ l.hint \in {None, l.format}

\* Layers that tell their format are read and written as what they are, also
\* when padding makes the rows of one look like those of a deeper format.
PictureIsReadRight ==
    \A t \in HostThreads :
      ( /\ Over(t, "render") /\ local[t].picture.what = "rendered"
        /\ call[t].source.format = call[t].output.format
        /\ TellsItsFormat(call[t].source) /\ TellsItsFormat(call[t].output) )
      => local[t].picture.format = call[t].source.format

\* No rendering reads or writes past a row of its layers, whatever format was
\* guessed or a stub's caller said, and a stub that answers 0 has written.
StaysInTheRow ==
    \A t \in Threads :
      LET c == call[t]
          f == local[t].picture.format
      IN  /\ (pc[t] = "idle" /\ local[t].picture.what = "rendered" /\ c.kind # "gray")
               => Fits(f, c.source.width, c.source.row) /\ Fits(f, c.output.width, c.output.row)
          /\ (pc[t] = "idle" /\ c.kind \in {"host_buffer", "gray"})
               => (local[t].answer = "ok" <=> local[t].picture.what = "rendered")

\* A call that has passed EnsureInitialized finds a router and a pipeline of one
\* and the same engine, also when an earlier creation threw half way.
InitialisedTogether ==
    \A t \in Threads :
      pc[t] \in {"router", "update", "refreshed", "pipeline", "commit"}
        => built.engine > 0 /\ built.pipeline = built.engine /\ built.router = built.engine

\* Once a refresh has filled the menu the current model is in it: neither an
\* update that another thread sends meanwhile nor a stub's older copy of the
\* parameters brings a model back that the menu does not have.
ModelStaysOnMenu ==
    (menu # <<>> /\ \A t \in Threads : pc[t] # "refreshed")
      => InMenu(current.model, menu)

\* The host is told of all the parameters only when all are registered, and a
\* setup with a place for the answer is answered whatever becomes of the engine.
SetupIsAnswered ==
    \A t \in HostThreads :
      (pc[t] = "idle" /\ call[t].kind \in {"global_setup", "params_setup"} /\ call[t].out # NoData)
        => /\ local[t].setup.flags
           /\ local[t].setup.params = SchemaCount <=> local[t].setup.registered = SchemaCount - 1

\* Every call comes back to the host, also one that waits for a creation that
\* throws.
CallsReturn == \A t \in Threads : pc[t] # "idle" ~> pc[t] = "idle"
=============================================================================
