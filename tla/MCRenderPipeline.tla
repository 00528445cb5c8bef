-------------------------- MODULE MCRenderPipeline --------------------------
(***************************************************************************)
(* Instances of RenderPipeline for TLC.  Each set of requests brings out   *)
(* one part of the shared state; the .cfg files say which one is used.     *)
(***************************************************************************)
EXTENDS RenderPipeline, TLC

CONSTANTS a, b, empty, small, tiny, shared, own, m, video

Request(frame, state) ==
    [frame |-> frame, model |-> m, mapping |-> "raw", temporal |-> AlphaOne,
     token |-> 0, quality |-> 1, freeze |-> FALSE, cache |-> TRUE, state |-> state]

\* A request that smooths.
Smoothing(frame, state) == [Request(frame, state) EXCEPT !.temporal = 5000]

OneSize == [f \in Frames |-> small]
TinyB == [f \in Frames |-> IF f = b THEN tiny ELSE small]

\* Threads and buffers are alike.
Symmetry == Permutations(Threads) \cup Permutations(Buffers)

\* Cached renders of two frames and two qualities beside temporal and guided ones.
CacheRequests ==
    { Request(a, shared), Request(b, shared),
      [Request(a, shared) EXCEPT !.quality = 2],
      Smoothing(a, shared),
      [Smoothing(b, shared) EXCEPT !.quality = 2],
      [Request(b, shared) EXCEPT !.mapping = "guided"] }

\* Frozen renders of two frames, with two tokens and in two states, and with
\* smoothing over two qualities, beside one that does not freeze.
FreezeRequests ==
    { [Request(b, shared) EXCEPT !.freeze = TRUE],
      [Request(b, shared) EXCEPT !.freeze = TRUE, !.token = 1],
      [Request(b, own) EXCEPT !.freeze = TRUE],
      [Smoothing(a, shared) EXCEPT !.freeze = TRUE],
      [Smoothing(b, shared) EXCEPT !.freeze = TRUE, !.quality = 2],
      [Request(a, shared) EXCEPT !.cache = FALSE] }

\* Two models, one of them a sequence model, a frame without a hash, a source
\* without pixels and one that is too small to downscale; smoothing and guided
\* mapping over two sizes, settings, qualities and states.
ModelRequests ==
    { Request(a, shared), Request(b, shared),
      Request(empty, shared),
      [Request(a, shared) EXCEPT !.model = video],
      [Smoothing(a, shared) EXCEPT !.model = video],
      Smoothing(a, shared), Smoothing(b, shared), Smoothing(a, own),
      [Smoothing(a, shared) EXCEPT !.quality = 2],
      [Smoothing(a, shared) EXCEPT !.mapping = "guided"],
      [Request(a, shared) EXCEPT !.mapping = "guided", !.quality = 2] }

\* Alphas just under one, of which the key has the first as one, beside one.
NearOneRequests ==
    { [Request(f, shared) EXCEPT !.temporal = alpha] :
        f \in {a, b}, alpha \in {AlphaOne, 9996, 9992} }
=============================================================================
