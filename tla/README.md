# Z-Soda in TLA+

Z-Soda is an After Effects plugin that renders a depth map of a layer. The host
calls it on several threads; it runs a depth model through ONNX Runtime in the
process or through a service beside it, and caches, smooths and freezes what it
has computed. This directory models the parts of it that keep state, checks
them with TLC on small instances and proves what can be proved for all of them
with TLAPS.

Run everything from this directory: `tlc -config MCDepthCache.cfg MCDepthCache`
checks a run, `tlapm DepthCacheProofs.tla` checks proofs.

## The system

| component | state | operations | what is hard about it |
| --- | --- | --- | --- |
| effect entry, host adapter (`ae/AePluginEntry.cpp`, `ae/AeHostAdapter.cpp`) | `g_init_flag`, engine, pipeline and router | `EffectMain` dispatches selectors, builds a request, renders, passes the source through on failure; stubs for older callers | creation that throws half way, a failure at any point of a render, formats guessed from row sizes |
| command router, parameters (`ae/AeCommandRouter.cpp`, `ae/AeParams.cpp`) | `current_params_`, `model_menu_` | update, snapshot, refresh of the menu, render | a read and a write under two locks, a locked model that the menu may not have |
| render pipeline (`core/RenderPipeline.cpp`) | cache, pool, `RenderPipelineState` | `Render`, `PurgeCache`, `SetCacheLimit` | several threads between several locks, four fallbacks, exceptions, state that outlives a render |
| depth cache (`core/Cache.cpp`) | map, recency list, limit | `Find`, `Insert`, `Clear`, `SetLimit` | two structures that must agree |
| buffer pool (`core/BufferPool.cpp`) | list of free buffers | `Acquire`, `Release` | buffers handed out twice or dirty |
| tiler (`core/Tiler.cpp`) | none | `BuildTiles`, `ComposeTiles` | boundaries, zero steps |
| depth operations, pixel conversion | guided state | mapping, smoothing, conversion | arithmetic |
| managed engine (`inference/ManagedInferenceEngine.cpp`) | backend, active model, reasons | `Initialize`, `SelectModel`, `Run`, recovery, promotion, queueing of downloads | a model selected while another is loaded, a service that goes and comes, retries |
| ONNX Runtime backend | session, temporal history | `SelectModel`, `Run` | partial updates on failure, duplicates in the history |
| remote backend, Python service autostart, the service | endpoint, port of the service | `Initialize`, `Run`, start of the process | timeouts, orphans, stale port files |
| model downloader | set of files in flight | `RequestModelDownloadAsync`, worker | check before the lock, partial files |
| embedded payload | directories in the file system | extraction | several processes, crashes |
| ONNX Runtime loader, catalog, options, paths | configuration | resolution at start | order of candidates |
| diagnostics, loader probe, build and test tools | none | logging, packaging | not modelled |

A render goes from the host adapter to the router, from there to the pipeline,
which selects the model on the engine, looks into its cache or its frozen
output, takes a buffer from the pool, runs the engine directly, in tiles or on
a smaller source, applies the post-processing with the state of the layer, and
stores and returns the result. The threads share the engine, the cache, the
pool and the states; each has its own mutex and no lock spans two of them.

`PROJECT.json` lists the components, the hazards with their lines, and the line
of the source each definition stands for.

## Modules

**DepthCache** models `core/Cache.cpp`: `entries_`, `lru_` and `max_entries_`,
with `Find` (hit and miss), `Insert`, `Clear` and `SetLimit`; `Touch` and
`TrimIfNeeded` are operators because every caller holds the lock from start to
end. **RecencyCache** is its abstract specification: a partial function and the
order in which keys were last used, and a rule that only the keys used least
recently may go, and only as many as it takes. DepthCache implements it.

**BufferPool** models `core/BufferPool.cpp`: the list, what each buffer's
descriptor and contents are and who holds it. `Write` is what the holder does.

**Tiler** models `BuildTiles` and `BuildTileAxisStarts` as they loop: one step
per start on one axis, then the other. The tiles are the product of the two.

**EngineContract** is what the pipeline takes an engine for: a model is
selected, and a run that succeeds yields a depth of it. **ManagedEngine** models
`ManagedInferenceEngine` with its backends reduced to their outcomes and shows
that it implements the contract. Its `engine` record has `active`
(`active_model_id_`), `exists` (`model_file_exists_`), `kind` and `loaded` (the
backend and the model its session has), `reported` (`active_backend_`),
`fallback` (`using_fallback_engine_`), `lastFallback`
(`last_run_used_fallback_`) and `reason` (whether `fallback_reason_` says
anything). The service and the files are outside of it and change at will.

**RenderPipeline** composes DepthCache, BufferPool and EngineContract by
INSTANCE with the states of the layers. A step is what one thread does between
two locks. A depth map is the set of its sources: for each, the model, the
frame, the settings and the state it was made with. Smoothing and guided
mapping join sets, so a depth that has something in it that it should not have
can be told from one that has not; the numbers in it are left out.
`RenderParams` is reduced to model, frame, mapping, temporal alpha, a token,
freeze, the cache switch and `quality`, which stands for how the engine is run:
the quality, `preserve_aspect_ratio`, tile size, overlap and memory budget. `Settings`
is what `BuildPostprocessStateHash` has, `Look` what the key and the frozen hash have,
which is that and `quality`. The alpha is in ten-thousandths, because the key rounds it
to thousandths and `IsStatefulPostProcess` compares it with 0.999. A depth has the
quality its render asked for, also when a fallback made it with less.

**TemporalHistory** models the ring of frames that `OnnxRuntimeBackend` keeps for
models with several input frames: `BuildTemporalInput`, `ResetTemporalHistory`
and what `SelectModel` does to them. `ring`, `valid`, `head`, `size`, `named`,
`hits` and `since` are the members of the history; one step is one call, because the
engine holds its mutex over `Run` and `SelectModel`. **SlidingWindow** is what it promises: a list of the last frames
of a scene, cut off by the frames that start another, of which a model sees the
window around its reference place. TemporalHistory implements it.

**PayloadExtraction** models `EnsureEmbeddedPayloadAvailable` and
`ExtractPayloadEntries`: several processes on the directories below the cache
roots, one step for each operation of the file system, with a failure or the
death of the process at any of them. `disk` is what the directories hold, `pc`,
`root` and `next` are the locals of a process. On systems other than Windows the
legacy root is the relative path `payload_id`, and there is no secondary root;
the constants cover both. That a process dies in the middle of a file makes no
difference to it missing, because the next extraction writes it anew.

**ServiceAutostart** models `inference/PythonServiceAutostart.cpp` and the part of
`RemoteInferenceBackend.cpp` that decides when it is called: plugin processes
(`Hosts`) that start services, learn their ports from files with counted names in
the one temporary directory, and ask `/status`. `attempt` has the locals of
`StartDetachedPythonService`, `counter` and `cached` are the globals of a process,
`portFile` is the directory. A service is `starting` until it has bound its port,
`loading` until its model is there, then `serving`; it may die at any time.
`Deadline` is how many passes of the waiting loops fit into the 15 seconds. `adopted`
remembers for the properties which services a process got to use.

**RemoteBackend** extends it with `Create`, `Initialize`, `SelectModel` and `Run` of
the remote backend. A run takes what it needs under the lock and works on without
it: as one binary request, or with image, request and reply in temporary files and a
JSON request or a command. A reply is the frame and the model it was made from and
what is wrong with it (`Flaws`), so that a reply to another request, a cut one or one
with values that are not finite can be told apart. `temp` is the set of files.

**EffectParams** and **PixelFormats** are operators without state: clamping, slices,
quality classes, the locked model and the menu of `ae/AeParams.cpp`; the guess of a
layer's format from its header or the bytes of its rows, and `ValidateHostView`. The
unit interval of the sliders is 0..`Full`, with `NaN` beside it.

**EffectEntry** extends both with the calls. `pc`, `call` and `local` are where a
thread's call is, its payload and what it has come to; `once` and `built` are
`g_init_flag` and which creation each singleton comes from; `current` and `menu` are the
router's. One action is what a thread does under one lock or without any. A layer is its
width, its row size, its real format and what the header says of it; a picture is what
the host finds in the output: untouched, the source, a part of it, or a rendering with
its parameters and the format it was written in. The pipeline is a step that returns,
throws or, in an MSVC build, faults and is caught. Layers, tables of slider values and
calls are the constants `SdkCalls` and `LegacyCalls`.

`MC*` modules hold the instances, `*Proofs` the theorems. RenderPipelineProofs has those
of the pool too, RemoteBackendProofs those of the autostart.

## Runs

| run | what it shows | bounds | states |
| --- | --- | --- | --- |
| depth_cache | map and list agree, the limit holds, evictions are by recency | 4 keys, limits 0 to 3: one more key than fits at any limit | 315 |
| tiler | covers the frame, stays inside, overlaps, ends | extents, tile sizes and overlaps around zero, equal to and above each other | 3 180 |
| render_cache | no history in the cache; histories of one model, size and post-processing; buffers have one owner, are cleared and come back | 2 threads, 3 renders, cached, temporal and guided, 2 qualities, one purge or limit | 2.4 M |
| render_freeze | frozen outputs under clears, purges and other states | 2 threads, 2 states, 6 requests, smoothing over 2 qualities, 3 renders | 3.0 M |
| render_models | a render has its own source and mixes in only its state, size, model and post-processing; sources without hash, without pixels, too small; every render returns | 1 thread, 2 models, 2 sizes, 2 states, 2 qualities, 3 renders, 2 attempts of 2 tiles | 609 k |
| render_near_one | *violation*: an alpha just below one is smoothed and cached | 1 thread, alphas 0.9992, 0.9996 and 1, 3 renders | |
| managed_engine | contract, reasons, a running model stays; the service is found again, arrived models run | 2 models of 2 and 1 files, one unusable, all options, every starting state of the files | 22 k |
| temporal_history | windows are of one scene, in order, around the frame asked for; refinement | windows of 4 and 2 frames, 6 frames: two with one hash, one without, one of another size; any frame may count as a cut | 31 k |
| payload | a marker stands for all files, directories are whole in the end, calls return | 2 processes, 3 files, 3 roots, failures and deaths anywhere | 244 k |
| payload_raced | *violation*: a payload reported extracted is removed by another process | as above | |
| remote | a service is given up only while silent, one service in use, no port files left; a run is answered from its own frame by its model or leaves the buffer alone; temporary files go | 2 processes, 2 services, 2 starts and 1 death of a process, 2 passes of the deadline, 2 models; endpoint, autostart with and without port, command, nothing | 693 k |
| host | a render leaves a picture, made with its parameters and in the layer's format, inside its rows; singletons belong together; the model stays on the menu; setups are answered; calls return | 2 threads of the host, 1 of older callers; the default model locked and listed, listed, neither, no model at all; 2 calls, or 3 of fewer kinds | 143 k |

Three renders are what the properties of the pipeline need: one that leaves
something behind, one that interferes, one that would show it; two threads are
enough for every pair of steps to be interleaved, and one is enough for what
only depends on the order of renders. The renders stop at
MaxRenders, which is why deadlock is not checked there: an idle host is no
deadlock. `render_models` has one thread on purpose. The engine has one active
model, and two threads that select different models race between `SelectModel`
and `Run`; the effect locks its model to a single id (`ae/AeParams.cpp:279`), so
the runs with two threads have one model. A host of the pipeline that used two
would need a lock around both calls.

In `remote` a configuration that starts services has runs only for one process and
with a fixed port: what a run does with a service does not depend on how it was found,
and runs of two processes meet in the temporary directory with an endpoint and with a
command. Two starts of a process are what it takes to meet a port that it remembers
and a file name that was used before. In `host` two calls suffice for each pair of kinds
to interleave over the creation of the singletons; the third, out of fewer kinds, is for
two changes around a render. The calls have an end in both, and processes
and services die, so deadlock is not checked there.

The runs do not check type invariants again: `TypeOK` of the modules that have one, and
`AutoTypes` and `RunTypes` of RemoteBackendProofs, are proved for all instances.
BufferPool has no run of its own for the same reason; what it promises is checked inside the pipeline, by render_cache.

Fairness. `Tiler!FairSpec` has weak fairness of the loop. In
`RenderPipeline!FairSpec` every thread inside `Render` is scheduled; nothing is
assumed of which outcome the engine has. `ManagedEngine!FairSpec` says the host
keeps rendering with the model it has selected, and that time passes; it assumes
nothing of the service or the downloads, whose staying up or completion is a
premise of the properties. `PayloadExtraction!FairSpec` says a call goes on while
its process lives and that `remove_all` ends, whatever others write meanwhile;
processes may die at any time.
`EffectEntry!FairSpec` has every thread that is in a call go on with it. Weak fairness
is enough for one that waits for another's creation of the singletons: the one that
creates goes on, a creation that fails ends its call, and the calls are bounded.
ServiceAutostart and RemoteBackend state no liveness: their loops count to the
deadline.

### What the runs found

`IsStatefulPostProcess` calls a render stateless from `temporal_alpha` 0.999 on
(`core/RenderPipeline.cpp:1215`), `ApplyTemporalSmoothing` mixes the history in
below 1 (`:1588`). With an alpha from 0.999 to below one a smoothed depth gets into the
cache; the key has the alpha in permille, so from 0.9995 on it is even under the key of
an alpha of one. `tests/test_render_pipeline.cpp:786` states that a render with smoothing
is not cached. The other runs take alphas of one or less than 0.999.

While modelling the states of the layers: `BuildPostprocessStateHash`
(`core/RenderPipeline.cpp:1230`) has no quality, `preserve_aspect_ratio`, tile size,
overlap or memory budget, which the cache key (`:1256`, `:1279`) and the frozen hash
(`:1471`, `:1496`) have and the depth comes from. A change of one of them with smoothing or
guided mapping on does not reset the history, and the output mixes depths that were run in
two ways; with freezing it is kept under the hash of the new one. Nothing in the
repository promises otherwise, so no run reports it: `HistoryIsOfItsHash` speaks of the
settings the hash has, `OutputIsOfRequest` and `FrozenOutputIsOfItsHash` allow other
qualities beside the own one where the settings mix, and nowhere else. The runs have
such changes.

`ExtractPayloadEntries` clears the directory before it writes
(`inference/EmbeddedPayload.cpp:306`) and nothing excludes a second process that
has found no marker. It removes the files after the first has been told that
they are extracted, which `tests/test_embedded_payload.cpp:184` and `:189` take
to mean that they are there. `SettlesWhole` shows that the directory is whole
again once both are done, unless one fails or dies.

While modelling TemporalHistory: only models whose id starts with
`video-depth-anything` are kept from being tiled. The tiles of another model with
several input frames share one `frame_hash` (`core/RenderPipeline.cpp:1346`), and
the history takes all but the first for duplicates. Nothing in the repository
promises anything for such models, so no run states it; `ShowsRequest` has
hashes that identify frames as its premise.

While modelling ServiceAutostart and RemoteBackend: the counter in the names of port
files starts anew in each process, so the file of one attempt can be overwritten by a
service of another process or of one given up before; `GivesUpOnlyOnSilence` and
`SuccessLeavesNoFile` have as their premise that nobody shared the name. A service that
is given up at the deadline is not ended and lives on beside the next. The length that a
reply announces is not compared with what arrives; the count of the values is, which is
why `RunIsAnswered` holds for cut replies. A NaN in a binary reply passes
`WriteNormalizedDepthToOutput`, an infinite value does not. With the engine on top, a run
that fails on a dead service leaves `using_fallback_engine_` false, so the recovery
in ManagedEngine does not replace the backend until a model is loaded anew.

While modelling EffectEntry: when a parameter cannot be registered the setup announces
one parameter, although the comment at `ae/AeHostAdapter.cpp:842` speaks of the full
schema count; `SetupIsAnswered` states what the code does, which tells the host of no
parameter it does not have. Rows of an 8-bit layer that are padded to twice their bytes
look like those of a 16-bit one when the header says nothing; `PictureIsReadRight` has
layers that tell their format as its premise. A change of a parameter carries the default
model; when that is not the locked one `UpdateParams` refuses it, after the host has been
told to render again. The stubs of older callers read the parameters, change some and
send all of them back, and lose what another thread stored in between; `ModelStaysOnMenu`
shows that they do not bring back a model the menu does not have.

## Proofs

TLAPS proves, for all values of the constants that satisfy the modules' named
assumptions:

* `DepthCacheProofs`: types, map and list agree, the limit holds, and the cache
  implements `RecencyCache`. The inductive invariant adds to the types that the
  list has no key twice and the same keys as the map, and that there are at most
  as many as the limit. The refinement needs what `Touch` and `TrimIfNeeded` do
  to the order of a list without duplicates, which the lemmas on removing a place
  and appending say.
* `RenderPipelineProofs`, first of the pool: types, one owner, the list within its
  maximum, cleared buffers (`PoolInvariant`: the list has no duplicates, holders are
  distinct and none of them is in the list). Then of the pipeline, that it uses what
  it is composed of only as it may: every behaviour of it is one of the pool, of the
  cache and of the engine's contract (`PipelineUsesPool`, `PipelineUsesCache`,
  `PipelineUsesEngine`), so what is proved of those holds inside the pipeline
  (`RendersShareNoBuffer`, `RendersStartClear`). `PlaceInv` says what a call has at
  each place of `Render`: the buffer, the model, the tiles and attempts its request
  lets it have; from it follows that every way out gives the buffer back
  (`RendersReturnBuffers`). `MadeInv` adds what the depths are made of: those in
  work and in the histories have one model, size and post-processing, that of their
  request or state (`HistoriesFitTheirHash`), and a finished depth has the source of its
  request in it, alone unless the request smooths or is guided. The property of the
  histories is not inductive alone: a history takes its depth from a call in the middle
  of its work, which took its from the engine, the cache or a tile. With it
  `FrozenOutputIsOfItsHash` (`FrozenOutputsFitTheirHash`) is inductive, and then
  `CachedDepthIsOfItsKey` and `OutputIsOfRequest` together
  (`CacheKeepsWhatItsKeysSay`, `RendersShowTheirRequest`).
* `TilerProofs`: types, coverage, tiles inside and apart, overlap. The invariant
  says that what is before the last start of an axis is covered, and that starts
  grow by the step.
* `ManagedEngineProofs`: types, failures explained, the contract implemented, a
  running model stays. The invariant is that a backend that is said to run has
  the active model loaded; the contract's step for a run is exactly that.

* `TemporalHistoryProofs`: types, windows are of one scene and size
  (`WindowIsReal`), the frame asked for is shown (`ShowsRequest`) and every step
  is one of `SlidingWindow`, for windows of every length. The invariant says that
  the slots counted back from the head hold real frames of the size of the ring
  and that the hash named last is that of the newest; the refinement needs
  arithmetic of indices modulo the length.
* `PayloadExtractionProofs`: types, and that a marker and a result stand for
  every file of the payload as long as no two processes are at work at once. The
  invariant adds that no root that the process at work has passed over has a
  marker, that the entries before `next` have been written and that every
  process that was told so has a marker in its root. Without the premise it is
  false, as payload_raced shows. `CleanInv` is the invariant for many processes
  as long as none has failed or died (`RacesSettleWhole`): nobody has touched the other
  roots, and either somebody is still to write every file, or has written all so far
  with nobody removing since, or every file is there.
* `EffectEntryProofs`: calls that have passed `EnsureInitialized` find singletons of one
  creation (`InitialisedTogether`), and a filled menu has the current model
  (`ModelStaysOnMenu`), for any threads, calls and environments. `OnceInv` says that the
  flag names the one thread inside the creation, and that the singletons belong together
  once it is set. `MenuInv` says that a filled menu is the one `BuildModelMenu` makes,
  that it is there only after the creation, and that a refresh on its way from the read
  to the write holds a model of it, which an update of another thread in between could
  break. `DrawInv` follows the record of each call: one that goes on has drawn nothing and
  has seen the current parameters, one with a request has a source that fits the format
  it was wired with, a bridge past the router has checked its source, and parameters other
  than the default exist only behind the creation. From it follow that no rendering
  leaves the rows of its layers (`StaysInTheRow`) and that it has the parameters of its own
  payload or one value the router had (`RenderUsesItsParams`), for any layers and calls.
  `EndInv` says what a call that is over has left: a picture when it had both layers
  (`RenderLeavesAPicture`), an answer with the parameters it could register
  (`SetupIsAnswered`), and a format that is the layer's own when the header or the
  length of the rows tells it (`PictureIsReadRight`).
* `RemoteBackendProofs`, of the autostart: a start gives up only on a silent service
  (`GivesUpOnlyOnSilence`), a process has one service in use (`OneServiceInUse`), a
  success leaves no file (`SuccessLeavesNoFile`), for any number of processes,
  services, names and passes. Each needs facts about several actors: `MachineInv` has
  that no two services are bound to one port and that a file says a port only if a
  service of that name has told it; `OwnInv` that no two processes wait for one
  service; `WaitInv` what the file and the port of an attempt say of its own service
  as long as nobody shares the name; `UseInv` that the services in use are dead or
  listen at the one port the process would try first. Of the runs: `RunInv` says that
  the files of a run hold its frame and its model, whatever a process that died has left under
  the name, and that a reply is of them (`RunIsAnswered`); `FilesInv`
  that without crashes the files of a process are those of its run (`TempFilesGo`).

The argument is the same in each: the invariant holds at first, every action
preserves it, and it implies the property.

What the theorems assume. Each module names the assumptions on its constants; TLC
evaluates them in the runs. Two say something of the callers: `RequestAssumption` has
a request be of a source, a state and a model there are, and `LayerAssumption` has the
layers of a host hold the pixels of their width in their rows: the plugin, which
guesses the format, could not tell if they did not. Two more are hypotheses, because the code does not keep
what they rule out. `OneModelInUse`: all requests have one model, or one thread renders. Two
threads with different models race between `SelectModel` and `Run`
(`core/RenderPipeline.cpp:1021`); the shipped effect locks its model to one id
(`ae/AeParams.cpp:279`). `MixingIsStateful`: a request that smooths or is guided counts
as stateful, so no alpha is from 0.999 to below one unless the mapping is guided.
Without it the last three theorems of the pipeline are false: a smoothed depth is cached
or frozen where the hashes say that nothing is smoothed, as render_near_one shows of the
cache. The effect's own alpha is one (`ae/AeParams.cpp:129`) unless the environment says
another (`:228`).

A proof that failed found a form in the model that meant less than it should: a CASE
whose guards overlap may be any of its arms, of which TLC takes the first. The choices of
pixel formats and the parameters announced, where the code looks at one condition after
the other, are IF chains now. Another found what a picture that is read right takes of
its layer; that is `LayerAssumption`.

Only model-checked: all liveness properties (`EveryRenderReturns` and the like: the
prover has neither fairness nor ENABLED), and what would take induction over data.
Every other property of a passing run is a theorem for all values of the constants, four
of the pipeline under the hypotheses above.
No module declares a RECURSIVE operator: loops that matter are actions or sets of
their rounds.

## What is left out, and the plan

Left out for good: the arithmetic of depth operations, pixels and tensors; rounding of
floats; the output mode, colours and slices, which `BuildOutput` applies to a finished
depth and the key and the frozen hash have; log lines and texts; exhaustion of memory
inside a component's operation; a
pipeline without an engine, which returns a safe output at once.

Of the effect: four of its eight parameters, which are stored and read like the others;
tables with missing entries; `ApplyEnvironmentOverrides`; the build that only probes the
loader; `PluginDataEntryFunction2`, which registers the effect and keeps nothing; the
hashes of frames. `model_menu_` is written without a lock, so `EntryAssumption` allows one
thread of older callers. A fault leaves the output as it was, which is why
`RenderLeavesAPicture` speaks of calls that return, or throw in a build that catches.
The hint that `in_data` gives of the format (`ae/AeHostAdapter.cpp:1434`) is not modelled;
the layer's rows and header decide.

Of the payload: an error of the look at a marker that is there
(`inference/EmbeddedPayload.cpp:455`), which counts as no marker: the files are written anew.

Of the remote backend: the texts of JSON and HTTP, of which the models keep what parsing
tells apart; the encoding of images; a temporary directory that cannot be found.

Not modelled: the ONNX Runtime loader, the model catalog, options and paths. They read a
configuration once and keep no state that several actors change; what they come to is a
constant of ManagedEngine or ServiceAutostart. Diagnostics, the lock for old
toolchains and the build and test tools have no state the others read.

Left of the plan, in this order:

1. `ModelDownload`: the look at the file before the lock, workers, and files cut
   short by a crash, under ManagedEngine.
2. `TileRetry`, `OrtLoader`, `ModelCatalog`: sizes of the retries, candidates for the
   library and overrides of the manifest, as pure operators against what they are to
   find.
