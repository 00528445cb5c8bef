--------------------------- MODULE RenderPipeline ---------------------------
(***************************************************************************)
(* plugin/core/RenderPipeline.cpp: Render as several host threads call it  *)
(* on one pipeline.  The threads share the inference engine, the depth     *)
(* cache, the buffer pool and, per RenderPipelineState, the frozen output  *)
(* and the temporal and guided state.  Every step below is what one thread *)
(* does between two of the locks Render takes and gives back: nothing      *)
(* holds from one step to the next but the locals of the call.             *)
(*                                                                         *)
(* A depth map is what it was made from: the set of its sources, each the  *)
(* model, the frame, the settings and the state it was made with.          *)
(***************************************************************************)
EXTENDS Integers, FiniteSets

CONSTANTS
    Threads,      \* host threads
    States,       \* RenderPipelineState objects
    SharedState,  \* shared_state_, used when the host passes no state
    Models,       \* model ids
    SequenceModels, \* those IsTemporalSequenceModelId recognises
    NoModel,
    Nothing,      \* a request, a hash or a size that has not been set
    Frames,       \* source frames; each has its own frame_hash
    EmptyFrame,   \* a source without pixels
    SizeOf,       \* [Frames -> Sizes]
    Sizes,        \* width and height
    TinySizes,    \* sizes the downscaled fallback cannot halve
    Unhashed,     \* frames the host gives the frame_hash 0
    Requests,     \* RenderParams with the source and the state of a call
    Attempts,     \* length of BuildAdaptiveTileSizes
    Tiles,        \* tiles of one attempt
    Buffers, NoBuffer, max_buffers_,
    MaxLimit,     \* bound on the limits of the cache
    MaxRenders,   \* bound on the calls of Render
    MaxPurges     \* bound on the calls of PurgeCache and SetCacheLimit

ASSUME PipelineAssumption ==
    /\ SharedState \in States
    /\ SequenceModels \subseteq Models
    /\ SizeOf \in [Frames -> Sizes]
    /\ TinySizes \subseteq Sizes
    /\ Attempts \in Nat \ {0}
    /\ Tiles \in Nat \ {0}
    /\ MaxRenders \in Nat
    /\ MaxPurges \in Nat

\* temporal_alpha in ten-thousandths.
AlphaOne == 10000
Alphas == 0..AlphaOne

\* What of RenderParams and its source decides about a call.
ASSUME RequestAssumption ==
    \A r \in Requests :
      /\ r.frame \in Frames \cup {EmptyFrame}
      /\ r.state \in States
      /\ r.model \in Models
      /\ r.temporal \in Alphas
      /\ r.freeze \in BOOLEAN
      /\ r.cache \in BOOLEAN

VARIABLES
    selected, produced,                    \* the engine
    entries_, lru_, max_entries_,          \* cache_
    free_list_, desc, content, holder,     \* pool_
    frozen,   \* [States -> frozen_has_output_, frozen_state_hash_, frozen_output_]
    post,     \* [States -> the fields under postprocess_mutex_]
    call,     \* [Threads -> the locals of the thread's last call of Render]
    purging,  \* PurgeCache is between its two locks
    renders, purges \* calls so far

engineVars == <<selected, produced>>
cacheVars  == <<entries_, lru_, max_entries_>>
poolVars   == <<free_list_, desc, content, holder>>
stateVars  == <<frozen, post>>
adminVars  == <<purging, purges>>
vars == <<engineVars, cacheVars, poolVars, stateVars, call, adminVars, renders>>

-----------------------------------------------------------------------------
(* RenderParams.  temporal is temporal_alpha, mapping is mapping_mode with  *)
(* what else shapes the post-processing, token is extract_token.  quality  *)
(* is how the engine is run: the quality, preserve_aspect_ratio, the       *)
(* tiles, their overlap and vram_budget_mb.  What BuildOutput makes of a   *)
(* finished depth is left out.                                             *)

\* to_permille: the alpha rounded to thousandths.
Permille(temporal) == (temporal + 5) \div 10

\* The settings of r that the post-processing has.
Settings(r) == [mapping |-> r.mapping, temporal |-> Permille(r.temporal), token |-> r.token]

\* All settings of r, as the key and the frozen hash have them.
Look(r) == [settings |-> Settings(r), quality |-> r.quality]

AlwaysStateless(r) == FALSE
IsStatefulPostProcess(r) == r.temporal < 9990 \/ r.mapping = "guided"

FrameHash(r) == IF r.frame \in Unhashed THEN Nothing ELSE r.frame

ShouldUseCache(r) ==
    /\ r.cache
    /\ ~r.freeze
    /\ FrameHash(r) # Nothing
    /\ ~IsStatefulPostProcess(r)

BuildCacheKeyNoQuality(r) ==
    [size |-> SizeOf[r.frame], model |-> r.model,
     look |-> [settings |-> Settings(r), quality |-> 0], frame |-> FrameHash(r)]
BuildCacheKey(r) ==
    [size |-> SizeOf[r.frame], model |-> r.model, look |-> Look(r), frame |-> FrameHash(r)]

CacheKeys == { BuildCacheKey(r) : r \in Requests }

\* The frozen output is asked for without a frame_hash.
FrozenHashNoQuality(r) ==
    [size |-> SizeOf[r.frame], model |-> r.model,
     look |-> [settings |-> Settings(r), quality |-> 0]]
BuildFrozenStateHash(r) ==
    [size |-> SizeOf[r.frame], model |-> r.model, look |-> Look(r)]

\* It has nothing of how the engine was run: a change of the quality keeps the state.
BuildPostprocessStateHash(r) == [settings |-> Settings(r), freeze |-> r.freeze]

Sources == [model : Models, frame : Frames, look : { Look(r) : r \in Requests },
            state : States]
Depths == SUBSET Sources

\* What the engine makes of the source of request r.
DepthBy(m, r) == {[model |-> m, frame |-> r.frame, look |-> Look(r), state |-> r.state]}

NoFrame == {}

-----------------------------------------------------------------------------
Engine == INSTANCE EngineContract

Cache == INSTANCE DepthCache WITH Keys <- CacheKeys, Values <- Depths

Pool == INSTANCE BufferPool WITH Users <- Threads, Descs <- Sizes,
                                 Contents <- Depths, Zero <- NoFrame

ASSUME PipelinePoolAssumption == Pool!PoolAssumption

\* Nothing captured: frozen_has_output_ is false.
NothingFrozen == [has |-> FALSE, hash |-> Nothing, output |-> NoFrame]

\* RenderPipelineState as constructed.
FreshPost ==
    [initialized |-> FALSE, model |-> NoModel, hash |-> Nothing, size |-> Nothing,
     hasHistory |-> FALSE, history |-> NoFrame, guided |-> NoFrame]

Idle == [pc |-> "idle", req |-> Nothing, attempt |-> 0, tile |-> 0, tiles |-> NoFrame,
         status |-> "none", output |-> NoFrame]

Init ==
    /\ Engine!Init
    /\ Cache!Init
    /\ Pool!Init
    /\ frozen = [s \in States |-> NothingFrozen]
    /\ post = [s \in States |-> FreshPost]
    /\ call = [t \in Threads |-> Idle]
    /\ purging = FALSE
    /\ renders = 0
    /\ purges = 0

-----------------------------------------------------------------------------
At(t, pc) == call[t].pc = pc
Req(t) == call[t].req
Depth(t) == content[holder[t]]

Goto(t, pc) == call' = [call EXCEPT ![t].pc = pc]

\* Render returns.  Outputs carry what the frame was made from.
Return(t, status, output) ==
    call' = [call EXCEPT ![t] = [Idle EXCEPT !.req = Req(t), !.status = status,
                                             !.output = output]]

ReturnSafe(t) == Return(t, "safe", NoFrame)

ClearFrozenOutput(s) == frozen' = [frozen EXCEPT ![s] = NothingFrozen]

\* The host calls Render: the checks before the engine is used, and the
\* frozen output dropped when the request does not freeze.
Render(t, r) ==
    /\ At(t, "idle")
    /\ renders < MaxRenders
    /\ renders' = renders + 1
    /\ \/ /\ r.frame = EmptyFrame
          /\ call' = [call EXCEPT ![t] = [Idle EXCEPT !.req = r, !.status = "safe"]]
          /\ UNCHANGED frozen
       \/ /\ r.frame # EmptyFrame
          /\ call' = [call EXCEPT ![t] = [Idle EXCEPT !.req = r, !.pc = "select"]]
          /\ IF r.freeze THEN UNCHANGED frozen ELSE ClearFrozenOutput(r.state)
    /\ UNCHANGED <<engineVars, cacheVars, poolVars, post, adminVars>>

SelectModel(t) ==
    /\ At(t, "select")
    /\ \/ Engine!Select(Req(t).model) /\ Goto(t, "lookup")
       \/ Engine!Reject /\ ReturnSafe(t)
    /\ UNCHANGED <<cacheVars, poolVars, stateVars, adminVars, renders>>

\* Render asks the cache or, when it freezes, the frozen output of its state.
LookupCache(t) ==
    LET key == BuildCacheKey(Req(t)) IN
    /\ At(t, "lookup")
    /\ ShouldUseCache(Req(t))
    /\ \/ Cache!FindHit(key) /\ Return(t, "hit", entries_[key])
       \/ Cache!FindMiss(key) /\ Goto(t, "acquire")
    /\ UNCHANGED <<engineVars, poolVars, stateVars, adminVars, renders>>

LookupFrozen(t) ==
    LET f == frozen[Req(t).state] IN
    /\ At(t, "lookup")
    /\ ~ShouldUseCache(Req(t))
    /\ IF /\ Req(t).freeze
          /\ f.has
          /\ f.hash = BuildFrozenStateHash(Req(t))
         THEN Return(t, "hit", f.output)
         ELSE Goto(t, "acquire")
    /\ UNCHANGED <<engineVars, cacheVars, poolVars, stateVars, adminVars, renders>>

AcquireDepth(t) ==
    /\ At(t, "acquire")
    /\ Pool!Acquire(t, SizeOf[Req(t).frame])
    /\ Goto(t, "direct")
    /\ UNCHANGED <<engineVars, cacheVars, stateVars, adminVars, renders>>

Deliver(t, status) == call' = [call EXCEPT ![t].pc = "post", ![t].status = status]

\* A failing run leaves the depth buffer as it was.
RunInference(t) ==
    /\ At(t, "direct")
    /\ \/ /\ Engine!RunSucceeds
          /\ Pool!Write(t, DepthBy(selected, Req(t)))
          /\ Deliver(t, "inference")
       \/ /\ Engine!RunFails
          /\ Goto(t, IF Req(t).model \in SequenceModels THEN "downscaled" ELSE "tiled")
          /\ UNCHANGED poolVars
    /\ UNCHANGED <<cacheVars, stateVars, adminVars, renders>>

\* The index of the attempt after attempt n, and whether there is one.
SameAttempt(n) == n
NextAttempt(n) == n + 1

IsAttempt(n) == n < Attempts

\* One tile of RunTiledInference.  The depth of the tiles is composed after
\* the last one; a tile that fails ends the attempt and the next attempt
\* starts over with smaller tiles.
RunTile(t) ==
    LET c     == call[t]
        tiles == c.tiles \cup DepthBy(selected, c.req)
    IN
    /\ At(t, "tiled")
    /\ \/ /\ Engine!RunSucceeds
          /\ c.tile + 1 < Tiles
          /\ call' = [call EXCEPT ![t].tile = c.tile + 1, ![t].tiles = tiles]
          /\ UNCHANGED poolVars
       \/ /\ Engine!RunSucceeds
          /\ c.tile + 1 = Tiles
          /\ Pool!Write(t, tiles)
          /\ call' = [call EXCEPT ![t].pc = "post", ![t].status = "tiled",
                                  ![t].tile = 0, ![t].tiles = NoFrame]
       \/ /\ Engine!RunFails
          /\ call' = [call EXCEPT ![t].pc = IF IsAttempt(NextAttempt(c.attempt))
                                              THEN "tiled" ELSE "downscaled",
                                  ![t].attempt = NextAttempt(c.attempt),
                                  ![t].tile = 0, ![t].tiles = NoFrame]
          /\ UNCHANGED poolVars
    /\ UNCHANGED <<cacheVars, stateVars, adminVars, renders>>

\* The last fallback.  Render gives up when it fails or cannot be tried.
RunDownscaledInference(t) ==
    /\ At(t, "downscaled")
    /\ \/ /\ SizeOf[Req(t).frame] \notin TinySizes
          /\ Engine!RunSucceeds
          /\ Pool!Write(t, DepthBy(selected, Req(t)))
          /\ Deliver(t, "downscaled")
       \/ /\ SizeOf[Req(t).frame] \notin TinySizes
          /\ Engine!RunFails
          /\ Goto(t, "unwind")
          /\ UNCHANGED poolVars
       \/ /\ SizeOf[Req(t).frame] \in TinySizes
          /\ Goto(t, "unwind")
          /\ UNCHANGED <<poolVars, engineVars>>
    /\ UNCHANGED <<cacheVars, stateVars, adminVars, renders>>

-----------------------------------------------------------------------------
(* ApplyPostProcess, under postprocess_mutex_.                             *)

NeverMismatched(p, r) == ~p.initialized

\* The state was made with another model, other settings of the
\* post-processing or another size.
StateMismatch(p, r) ==
    \/ ~p.initialized
    \/ p.model # r.model
    \/ p.hash # BuildPostprocessStateHash(r)
    \/ p.size # SizeOf[r.frame]

ResetState(p, r) ==
    IF StateMismatch(p, r)
      THEN [initialized |-> TRUE, model |-> r.model, hash |-> BuildPostprocessStateHash(r),
            size |-> SizeOf[r.frame], hasHistory |-> FALSE, history |-> NoFrame,
            guided |-> NoFrame]
      ELSE p

\* ApplyDepthMapping: only the guided mode reads and updates the state.
MapDepth(p, r, depth) ==
    IF r.mapping = "guided"
      THEN [state |-> [p EXCEPT !.guided = @ \cup depth], depth |-> p.guided \cup depth]
      ELSE [state |-> p, depth |-> depth]

\* ApplyTemporalSmoothing: the history is mixed in unless there is none, the
\* scene has cut or temporal_alpha is one; the result becomes the history.
Smooth(p, r, depth, cut) ==
    LET mixed == IF p.hasHistory /\ ~cut /\ r.temporal < AlphaOne
                   THEN depth \cup p.history ELSE depth
    IN  [state |-> [p EXCEPT !.hasHistory = TRUE, !.history = mixed], depth |-> mixed]

ApplyPostProcess(t) ==
    /\ At(t, "post")
    /\ \E cut \in BOOLEAN :
         LET r      == Req(t)
             mapped == MapDepth(ResetState(post[r.state], r), r, Depth(t))
             smooth == Smooth(mapped.state, r, mapped.depth, cut)
         IN  /\ post' = [post EXCEPT ![r.state] = smooth.state]
             /\ Pool!Write(t, smooth.depth)
    /\ Goto(t, "publish")
    /\ UNCHANGED <<engineVars, cacheVars, frozen, adminVars, renders>>

\* An exception in the middle of it leaves the state reset, or reset and
\* with the guided state updated.
PostProcessThrows(t) ==
    /\ At(t, "post")
    /\ LET r     == Req(t)
           reset == ResetState(post[r.state], r)
       IN  \E p \in {reset, MapDepth(reset, r, Depth(t)).state} :
             post' = [post EXCEPT ![r.state] = p]
    /\ Goto(t, "unwind")
    /\ UNCHANGED <<engineVars, cacheVars, poolVars, frozen, adminVars, renders>>

-----------------------------------------------------------------------------
(* The end of finalize_output, and the ways out.                           *)

InsertIntoCache(t) ==
    /\ At(t, "publish")
    /\ ShouldUseCache(Req(t))
    /\ Cache!Insert(BuildCacheKey(Req(t)), Depth(t))
    /\ Goto(t, "release")
    /\ UNCHANGED <<engineVars, poolVars, stateVars, adminVars, renders>>

StoreFrozenOutput(t) ==
    /\ At(t, "publish")
    /\ ~ShouldUseCache(Req(t))
    /\ IF Req(t).freeze
         THEN frozen' = [frozen EXCEPT ![Req(t).state] =
                           [has |-> TRUE, hash |-> BuildFrozenStateHash(Req(t)),
                            output |-> Depth(t)]]
         ELSE UNCHANGED frozen
    /\ Goto(t, "release")
    /\ UNCHANGED <<engineVars, cacheVars, poolVars, post, adminVars, renders>>

\* The destructor of PooledFrame runs on every way out of Render.
ReturnOutput(t) ==
    /\ At(t, "release")
    /\ Return(t, call[t].status, Depth(t))
    /\ Pool!Release(t)
    /\ UNCHANGED <<engineVars, cacheVars, stateVars, adminVars, renders>>

UnwindWithoutRelease(t) ==
    /\ At(t, "unwind")
    /\ ReturnSafe(t)
    /\ UNCHANGED <<poolVars, engineVars, cacheVars, stateVars, adminVars, renders>>

Unwind(t) ==
    /\ At(t, "unwind")
    /\ ReturnSafe(t)
    /\ IF holder[t] = NoBuffer THEN UNCHANGED poolVars ELSE Pool!Release(t)
    /\ UNCHANGED <<engineVars, cacheVars, stateVars, adminVars, renders>>

\* Any call on the way may throw; the handlers around Render catch it.
Throw(t) ==
    /\ call[t].pc \notin {"idle", "unwind"}
    /\ Goto(t, "unwind")
    /\ UNCHANGED <<engineVars, cacheVars, poolVars, stateVars, adminVars, renders>>

-----------------------------------------------------------------------------
(* Calls of the host beside Render.                                        *)

\* PurgeCache takes the lock of the cache and then that of the shared state.
PurgeCache ==
    /\ ~purging
    /\ purges < MaxPurges
    /\ purges' = purges + 1
    /\ purging' = TRUE
    /\ Cache!Clear
    /\ UNCHANGED <<engineVars, poolVars, stateVars, call, renders>>

PurgeFrozen ==
    /\ purging
    /\ purging' = FALSE
    /\ ClearFrozenOutput(SharedState)
    /\ UNCHANGED <<engineVars, cacheVars, poolVars, post, call, purges, renders>>

SetCacheLimit(n) ==
    /\ purges < MaxPurges
    /\ purges' = purges + 1
    /\ Cache!SetLimit(n)
    /\ UNCHANGED <<engineVars, poolVars, stateVars, call, purging, renders>>

-----------------------------------------------------------------------------
\* What a thread does inside a call of Render.
Step(t) ==
    \/ SelectModel(t)
    \/ LookupCache(t)
    \/ LookupFrozen(t)
    \/ AcquireDepth(t)
    \/ RunInference(t)
    \/ RunTile(t)
    \/ RunDownscaledInference(t)
    \/ ApplyPostProcess(t)
    \/ PostProcessThrows(t)
    \/ InsertIntoCache(t)
    \/ StoreFrozenOutput(t)
    \/ ReturnOutput(t)
    \/ Unwind(t)
    \/ Throw(t)

Next ==
    \/ \E t \in Threads, r \in Requests : Render(t, r)
    \/ \E t \in Threads : Step(t)
    \/ PurgeCache
    \/ PurgeFrozen
    \/ \E n \in 0..MaxLimit : SetCacheLimit(n)

Spec == Init /\ [][Next]_vars

\* The scheduler runs every thread that is inside Render.
FairSpec == Spec /\ \A t \in Threads : WF_vars(Step(t))

-----------------------------------------------------------------------------
(* Properties.                                                             *)

\* Where a call can be while the engine runs, and after it has.
Running   == {"direct", "tiled", "downscaled"}
Finishing == {"post", "publish", "release"}
Places == {"idle", "select", "lookup", "acquire", "unwind"} \cup Running \cup Finishing

Calls == [pc : Places, req : Requests \cup {Nothing}, attempt : Nat, tile : Nat,
          tiles : Depths,
          status : {"none", "safe", "hit", "inference", "tiled", "downscaled"},
          output : Depths]

FrozenOutputs == [has : BOOLEAN, hash : { BuildFrozenStateHash(r) : r \in Requests } \cup {Nothing},
                  output : Depths]

PostStates == [initialized : BOOLEAN, model : Models \cup {NoModel},
               hash : { BuildPostprocessStateHash(r) : r \in Requests } \cup {Nothing},
               size : Sizes \cup {Nothing}, hasHistory : BOOLEAN,
               history : Depths, guided : Depths]

\* Types of the variables; the cache and the pool have those of their modules.
TypeOK ==
    /\ selected \in Models \cup {NoModel}
    /\ produced \in Models \cup {NoModel}
    /\ \A k \in DOMAIN entries_ : entries_[k] \in Depths
    /\ Pool!TypeOK
    /\ frozen \in [States -> FrozenOutputs]
    /\ post \in [States -> PostStates]
    /\ call \in [Threads -> Calls]
    /\ purging \in BOOLEAN
    /\ renders \in Nat /\ purges \in Nat

\* A render of r mixes what was rendered before into its depth: an alpha below
\* one is smoothed, also where IsStatefulPostProcess says it is not.
Mixes(r) == r.temporal < AlphaOne \/ r.mapping = "guided"

\* Renders with these settings mix, as far as the hashes tell.
MixingSettings(settings) == settings.temporal < 1000 \/ settings.mapping = "guided"

\* What the cache stores under a key was made by one model from the frame of
\* the key with all settings of the key, and from no other frame: no history
\* or guided state of an earlier render has come into it.
CachedDepthIsOfItsKey ==
    \A k \in DOMAIN entries_ :
      /\ entries_[k] # NoFrame
      /\ \A d \in entries_[k] :
           d.model = k.model /\ d.frame = k.frame /\ d.look = k.look

\* The frozen output of a state was made with the model, the settings of the
\* post-processing and the size its hash stands for, whatever renders cleared
\* and stored it; a source of it was run as the hash says, and all of them were
\* unless the settings mix, for which the state remembers other qualities too.
FrozenOutputIsOfItsHash ==
    \A s \in States : frozen[s].has => LET f == frozen[s] IN
      /\ \E d \in f.output : d.look = f.hash.look
      /\ \A d \in f.output :
           /\ d.model = f.hash.model
           /\ d.look.settings = f.hash.look.settings
           /\ ~MixingSettings(f.hash.look.settings) => d.look = f.hash.look
           /\ SizeOf[d.frame] = f.hash.size
           /\ d.state = s

\* The temporal history and the guided state of a RenderPipelineState come
\* from frames rendered with that state, one model, one size and one set of
\* settings of the post-processing: those of the render that last went through
\* it.  The qualities they were rendered with may be several.
HistoryIsOfItsHash ==
    \A s \in States :
      \A d \in post[s].history \cup post[s].guided :
        /\ d.state = s
        /\ d.model = post[s].model
        /\ d.look.settings = post[s].hash.settings
        /\ SizeOf[d.frame] = post[s].size

\* A finished render has its own frame in its output, or any frame of its state
\* if it froze, with all settings of the request.  What else is in the output
\* is of its model, size and post-processing, and of other states only as a
\* cached frame; a render that does not mix has nothing else in it.
OutputIsOfRequest ==
    \A t \in Threads : LET c == call[t] IN
      c.status \notin {"none", "safe"} /\ c.pc = "idle" =>
        /\ \E d \in c.output :
             d.look = Look(c.req) /\ (d.frame = c.req.frame \/ c.req.freeze)
        /\ \A d \in c.output :
             /\ d.model = c.req.model
             /\ d.look.settings = Settings(c.req)
             /\ SizeOf[d.frame] = SizeOf[c.req.frame]
             /\ d.frame # c.req.frame => d.state = c.req.state
             /\ ~Mixes(c.req) =>
                  d.look = Look(c.req) /\ (d.frame = c.req.frame \/ c.req.freeze)

\* No two renders hold one buffer, and none holds a buffer that the pool could
\* hand out.
OneOwner == Pool!OneOwner

\* A render starts on a cleared buffer, whatever the render before wrote into it.
AcquiredIsClear == Pool!AcquiredIsClear

\* Every buffer handed out is back when its render has returned, also after an
\* exception, and the pool keeps no more of them than it may.
BuffersComeBack ==
    /\ Pool!ListWithinMax
    /\ \A t \in Threads : At(t, "idle") => holder[t] = NoBuffer
    /\ \A t \in Threads : holder[t] # NoBuffer => desc[holder[t]] = SizeOf[Req(t).frame]

\* A render that has been called returns.
EveryRenderReturns == \A t \in Threads : ~At(t, "idle") ~> At(t, "idle")
=============================================================================
