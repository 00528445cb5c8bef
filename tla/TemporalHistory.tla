-------------------------- MODULE TemporalHistory ---------------------------
(***************************************************************************)
(* plugin/inference/OnnxRuntimeBackend.cpp: the frames the backend keeps   *)
(* for a model whose input has several of them.  BuildTemporalInput puts   *)
(* the frame of a request into a ring, unless its hash says it is there,   *)
(* and copies a window around the reference place out of it.  The engine   *)
(* holds its mutex over Run and SelectModel, so each is one action.        *)
(*                                                                         *)
(* A frame stands for its prepared values; whether it differs enough from  *)
(* the last one is left open, because the threshold moves with the mean.   *)
(***************************************************************************)
EXTENDS Integers, Sequences

CONSTANTS Frames,       \* prepared inputs of requests
          Blank,        \* the zeros the ring starts with
          HashOf,       \* [Frames -> Nat]: frame_hash of the request, 0 for none
          SizeOf,       \* [Frames -> Nat \ {0}]: frame_plane_size
          Models,       \* records: frames, the input frames, and ref, the
                        \* reference_slot of the strategy
          MinHistory,   \* ZSODA_DA3_MULTIVIEW_SCENE_CUT_MIN_HISTORY
          RequiredHits, \* ZSODA_DA3_MULTIVIEW_SCENE_CUT_CONSEC
          Cooldown      \* ZSODA_DA3_MULTIVIEW_SCENE_CUT_COOLDOWN

ASSUME HistoryAssumption ==
    /\ Blank \notin Frames
    /\ HashOf \in [Frames -> Nat]
    /\ SizeOf \in [Frames -> Nat \ {0}]
    /\ Models \subseteq [frames : Nat \ {0}, ref : Nat]
    /\ \A m \in Models : m.ref < m.frames
    /\ RequiredHits \in Nat \ {0}
    /\ MinHistory \in Nat
    /\ Cooldown \in Nat

VARIABLES
    model,   \* active_model_profile_ and model_input_frame_count_
    session, \* session_ is there
    ring,    \* temporal_history_
    valid,   \* temporal_history_valid_frames_
    head,    \* temporal_history_head_index_
    size,    \* temporal_history_frame_plane_size_, 0 when there is no ring
    named,   \* temporal_history_last_frame_hash_
    hits,    \* temporal_scene_cut_pending_hits_
    since,   \* temporal_frames_since_scene_reset_, up to Cooldown
    window,  \* the last out_temporal_input
    asked,   \* the frame of the last request
    asks     \* the requests since the ring was made, to state properties

history == <<ring, valid, head, size, named, hits, since>>
vars == <<model, session, ring, valid, head, size, named, hits, since, window,
          asked, asks>>

capacity == model.frames
NoRing == <<>>

Wrapped(i) == i % capacity
Latest == Wrapped(head + (valid - 1))
BlankRing == [i \in 0..(capacity - 1) |-> Blank]

\* Two requests for one picture carry one hash; 0 says nothing.
Duplicate(f) ==
    HashOf[f] # 0 /\ named # 0 /\ HashOf[f] = named /\ valid > 0

\* A value of the environment out of its range is replaced by the default.
NeededForCut == IF MinHistory \in 1..capacity THEN MinHistory ELSE capacity
Warm == valid >= NeededForCut

Resets == ring' = NoRing /\ valid' = 0 /\ head' = 0 /\ size' = 0
          /\ named' = 0 /\ hits' = 0 /\ since' = 0
          /\ asks' = {} /\ UNCHANGED <<window, asked>>

-----------------------------------------------------------------------------
Init ==
    /\ model \in Models
    /\ session \in BOOLEAN
    /\ ring = NoRing /\ valid = 0 /\ head = 0 /\ size = 0
    /\ named = 0 /\ hits = 0 /\ since = 0
    /\ window = <<>> /\ asked = Blank /\ asks = {}

\* SelectModel: the new session takes the place of the old one.
SelectModel(m) ==
    /\ model' = m
    /\ session' = TRUE
    /\ Resets

\* SelectModel fails: before a session is made, or because none can be made.
SelectModelFails(lost) ==
    /\ session' = (session /\ ~lost)
    /\ UNCHANGED <<model, history, window, asked, asks>>

\* The end of BuildTemporalInput: place t of the window is t - ref frames
\* after the last one, as far as there are frames.
ClampedAbove(i, last) == IF i > last THEN last ELSE i
Clamped(i, last) == IF i < 0 THEN 0 ELSE IF i > last THEN last ELSE i

CopiesWindow(f) ==
    /\ window' = [t \in 0..(capacity - 1) |->
                   ring'[Wrapped(head' + Clamped((valid' - 1) + (t - model.ref),
                                                 valid' - 1))]]
    /\ asked' = f
    /\ UNCHANGED <<model, session>>

NamesOnce(f) == named' = IF named = 0 THEN HashOf[f] ELSE named
Names(f) == named' = IF HashOf[f] # 0 THEN HashOf[f] ELSE named

Older(n) == IF n < Cooldown THEN n + 1 ELSE n

\* The ring is made for frames of this size with this one in it.
Starts(f) ==
    /\ size # SizeOf[f]
    /\ ring' = [BlankRing EXCEPT ![0] = f]
    /\ valid' = 1 /\ head' = 0 /\ size' = SizeOf[f]
    /\ named' = HashOf[f]
    /\ hits' = 0 /\ since' = Older(0)
    /\ asks' = {f}

\* The frame is taken to be in the ring already.
Reuses(f) ==
    /\ size = SizeOf[f]
    /\ Duplicate(f)
    /\ asks' = asks \cup {f}
    /\ Names(f)
    /\ UNCHANGED <<ring, valid, head, size, hits, since>>

\* What the test for a cut makes of the hits.
HitsAfter(differs) == IF Warm /\ differs /\ since >= Cooldown THEN hits + 1 ELSE 0

\* No cut: the frame follows the others, in place of the oldest when the
\* ring is full.
WriteLatest == IF valid < capacity THEN Wrapped(head + valid) ELSE Latest
WriteSlot == IF valid < capacity THEN Wrapped(head + valid) ELSE head

Follows(f, differs) ==
    /\ size = SizeOf[f] /\ ~Duplicate(f)
    /\ HitsAfter(differs) < RequiredHits
    /\ ring' = [ring EXCEPT ![WriteSlot] = f]
    /\ IF valid < capacity
         THEN valid' = valid + 1 /\ UNCHANGED head
         ELSE head' = Wrapped(head + 1) /\ UNCHANGED valid
    /\ hits' = HitsAfter(differs) /\ since' = Older(since)
    /\ asks' = asks \cup {f}
    /\ Names(f)
    /\ UNCHANGED size

\* The hits are enough: the ring is emptied and the frame is its first.
Cuts(f, differs) ==
    /\ size = SizeOf[f] /\ ~Duplicate(f)
    /\ HitsAfter(differs) >= RequiredHits
    /\ ring' = [BlankRing EXCEPT ![0] = f]
    /\ valid' = 1 /\ head' = 0
    /\ hits' = 0 /\ since' = Older(0)
    /\ asks' = asks \cup {f}
    /\ Names(f)
    /\ UNCHANGED size

\* Run of a model with several input frames.  The session runs after that
\* and may fail; the history stays as it is then.
Run(f) ==
    /\ session
    /\ capacity > 1
    /\ \/ Starts(f)
       \/ Reuses(f)
       \/ \E differs \in BOOLEAN : Follows(f, differs) \/ Cuts(f, differs)
    /\ CopiesWindow(f)

Next ==
    \/ \E m \in Models : SelectModel(m)
    \/ \E lost \in BOOLEAN : SelectModelFails(lost)
    \/ \E f \in Frames : Run(f)

Spec == Init /\ [][Next]_vars

-----------------------------------------------------------------------------
\* The types of the variables.
TypeOK ==
    /\ model \in Models
    /\ session \in BOOLEAN
    /\ valid \in 0..capacity
    /\ head \in 0..(capacity - 1)
    /\ size \in Nat
    /\ IF size = 0 THEN ring = NoRing
                   ELSE ring \in [0..(capacity - 1) -> Frames \cup {Blank}]
    /\ named \in Nat
    /\ hits \in 0..(RequiredHits - 1)
    /\ since \in 0..Cooldown
    /\ asked \in Frames \cup {Blank}
    /\ asks \in SUBSET Frames

\* As long as there is a ring, the window given to the model has nothing in
\* it but frames of requests, all of one size: no slot of the ring that was
\* not written, and nothing of the model or the size before.
WindowIsReal ==
    size # 0 => \A t \in 0..(capacity - 1) :
                  window[t] \in asks /\ SizeOf[window[t]] = size

\* Where hashes identify frames, the frame asked for is at the reference
\* place of the window, whatever was left out as a duplicate before.
Identified(S) ==
    \A f \in S : HashOf[f] # 0 /\ \A g \in S : HashOf[f] = HashOf[g] => f = g

ShowsRequest == size # 0 /\ Identified(asks) => window[model.ref] = asked

\* The ring shows what a list of the last frames of the scene would, in the
\* order of the requests: BuildTemporalInput implements SlidingWindow.
Scene == [i \in 1..valid |-> ring[Wrapped(head + (i - 1))]]

Abstract == INSTANCE SlidingWindow WITH scene <- Scene

ImplementsSlidingWindow == Abstract!Spec
=============================================================================
