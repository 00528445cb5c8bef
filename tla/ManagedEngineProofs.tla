------------------------- MODULE ManagedEngineProofs -------------------------
(***************************************************************************)
(* Proofs about ManagedEngine, for every catalog, every set of files and   *)
(* all runtime options.                                                    *)
(***************************************************************************)
EXTENDS ManagedEngine, TLAPS

EngineType == [active : Models \cup {NoModel}, exists : BOOLEAN, kind : Kinds,
               loaded : Models \cup {NoModel}, reported : {"cpu", "ort", "remote"},
               fallback : BOOLEAN, lastFallback : BOOLEAN, reason : BOOLEAN]

\* The reasons are there, and a backend said to run the active model has it.
Explained(e) ==
    /\ e.fallback \/ e.lastFallback => e.reason
    /\ e.kind = "none" => e.fallback

HasActive(e) == ~e.fallback /\ e.active # NoModel => e.loaded = e.active

\* What ONNX Runtime has loaded it could load again.
StillLoadable(e) ==
    e.kind = "ort" /\ e.loaded # NoModel => Complete(e.loaded) /\ e.loaded \notin Unusable

Sound(e) == e \in EngineType /\ Explained(e) /\ HasActive(e) /\ StillLoadable(e)

\* A file that has arrived is no longer fetched, so it stays.
ArrivedStays == \A f \in fetching : files[f] # "full"

EngineInv == TypeOK /\ Sound(engine) /\ ArrivedStays

-----------------------------------------------------------------------------
(* What each part of an operation leaves.                                  *)

LEMMA LoadedAfterType ==
  ASSUME NEW e \in EngineType, NEW m \in Models
  PROVE  LoadedAfter(e, m) \in Models \cup {NoModel}
BY DEF LoadedAfter, EngineType

LEMMA RunningFields ==
  ASSUME NEW e \in EngineType, NEW m \in Models, Loads(e.kind, m)
  PROVE  /\ Running(e, m) \in EngineType
         /\ Running(e, m).loaded = m /\ Running(e, m).fallback = FALSE
         /\ Running(e, m).lastFallback = FALSE /\ Running(e, m).kind = e.kind
         /\ Running(e, m).active = e.active /\ Running(e, m).exists = e.exists
         /\ e.kind # "none"
         /\ e.kind = "ort" => Complete(m) /\ m \notin Unusable
<1>1. e.kind \in {"ort", "remote"}
  BY DEF Loads
<1>2. LoadedAfter(e, m) = m
  BY DEF LoadedAfter
<1>3. Running(e, m) = [e EXCEPT !.loaded = m, !.fallback = FALSE, !.lastFallback = FALSE,
                                !.reason = FALSE, !.reported = e.kind]
  BY <1>2 DEF Running
<1>4. e.kind = "ort" => Complete(m) /\ m \notin Unusable
  BY DEF Loads
<1>5. Running(e, m) \in EngineType
  BY <1>1, <1>3 DEF EngineType
<1>6. /\ Running(e, m).loaded = m /\ Running(e, m).fallback = FALSE
      /\ Running(e, m).lastFallback = FALSE /\ Running(e, m).kind = e.kind
      /\ Running(e, m).active = e.active /\ Running(e, m).exists = e.exists
  BY <1>3 DEF EngineType
<1> QED BY <1>1, <1>4, <1>5, <1>6

LEMMA RefusedFields ==
  ASSUME NEW e \in EngineType, NEW m \in Models, StillLoadable(e)
  PROVE  /\ Refused(e, m) \in EngineType
         /\ Refused(e, m).fallback = TRUE /\ Refused(e, m).reason = TRUE
         /\ Refused(e, m).kind = e.kind /\ Refused(e, m).active = e.active
         /\ StillLoadable(Refused(e, m))
<1>1. LoadedAfter(e, m) \in Models \cup {NoModel}
  BY LoadedAfterType
<1>2. Refused(e, m) = [e EXCEPT !.loaded = LoadedAfter(e, m), !.fallback = TRUE,
                                !.lastFallback = TRUE, !.reason = TRUE]
  BY DEF Refused
<1>3. e.kind = "ort" /\ LoadedAfter(e, m) # NoModel =>
        Complete(LoadedAfter(e, m)) /\ LoadedAfter(e, m) \notin Unusable
  BY DEF LoadedAfter, Loads, StillLoadable
<1>4. /\ Refused(e, m) \in EngineType
      /\ Refused(e, m).fallback = TRUE /\ Refused(e, m).reason = TRUE
      /\ Refused(e, m).kind = e.kind /\ Refused(e, m).active = e.active
      /\ Refused(e, m).loaded = LoadedAfter(e, m)
  BY <1>1, <1>2 DEF EngineType
<1> QED BY <1>3, <1>4 DEF StillLoadable

\* A backend that refuses the active model leaves the engine sound.
LEMMA RefusedIsSound ==
  ASSUME NEW e \in EngineType, NEW m \in Models, StillLoadable(e)
  PROVE  Sound(Refused(e, m))
BY RefusedFields DEF Sound, Explained, HasActive

LEMMA RunningIsSound ==
  ASSUME NEW e \in EngineType, NEW m \in Models, Loads(e.kind, m), e.active = m
  PROVE  Sound(Running(e, m)) /\ ~Running(e, m).fallback
<1>1. PICK r : r = Running(e, m)
  OBVIOUS
<1>2. /\ r \in EngineType /\ r.loaded = m /\ r.active = m /\ r.kind # "none"
      /\ ~r.fallback /\ ~r.lastFallback
      /\ r.kind = "ort" => Complete(m) /\ m \notin Unusable
  BY <1>1, RunningFields
<1>3. Explained(r) /\ HasActive(r)
  BY <1>2 DEF Explained, HasActive
<1>4. StillLoadable(r)
  BY <1>2 DEF StillLoadable
<1> QED BY <1>1, <1>2, <1>3, <1>4 DEF Sound

LEMMA ConfiguredFields ==
  ASSUME NEW e \in EngineType
  PROVE  /\ Configured(e) \in EngineType
         /\ Configured(e).active = e.active /\ Configured(e).loaded = NoModel
         /\ Explained(Configured(e)) /\ StillLoadable(Configured(e))
         /\ Configured(e).kind = "none" => Configured(e).fallback
<1>1. Creatable \in Kinds
  BY DEF Creatable, Kinds
<1>2. /\ (Creatable = "none") \in BOOLEAN /\ Noted \in BOOLEAN
      /\ Reported \in {"cpu", "ort", "remote"} /\ (Creatable = "none" => Noted)
  BY <1>1 DEF Kinds, Noted, Reported
<1>3. Configured(e) \in EngineType
  BY <1>1, <1>2 DEF Configured, EngineType
<1>4. /\ Configured(e).active = e.active /\ Configured(e).loaded = NoModel
      /\ Configured(e).kind = Creatable
      /\ Configured(e).fallback = (Creatable = "none")
      /\ Configured(e).lastFallback = (Creatable = "none")
      /\ Configured(e).reason = Noted
  BY DEF Configured, EngineType
<1> QED BY <1>2, <1>3, <1>4 DEF Explained, StillLoadable

LEMMA RecoveredIsSound ==
  ASSUME TypeOK, NEW e, Sound(e), e.active \in Models
  PROVE  Sound(Recovered(e)) /\ Recovered(e).active = e.active
<1>1. PICK c : c = Configured(e)
  OBVIOUS
<1>2. /\ c \in EngineType /\ c.active = e.active /\ c.loaded = NoModel
      /\ Explained(c) /\ StillLoadable(c) /\ (c.kind = "none" => c.fallback)
  BY <1>1, ConfiguredFields DEF Sound
<1>3. CASE ~MayRecover(e)
  BY <1>3 DEF Recovered
<1>4. CASE MayRecover(e) /\ c.kind = "none"
  <2>1. Recovered(e) = c
    BY <1>1, <1>4 DEF Recovered
  <2> QED BY <1>2, <1>4, <2>1 DEF Sound, HasActive
<1>5. CASE MayRecover(e) /\ c.kind # "none" /\ Loads(c.kind, c.active)
  <2>1. PICK r : r = Running(c, c.active)
    OBVIOUS
  <2>2. Recovered(e) = [r EXCEPT !.exists = TRUE]
    BY <1>1, <1>5, <2>1 DEF Recovered
  <2>3. Sound(r) /\ r.active = c.active
    BY <1>2, <1>5, <2>1, RunningIsSound, RunningFields
  <2> QED BY <1>2, <2>2, <2>3 DEF Sound, Explained, HasActive, StillLoadable, EngineType
<1>6. CASE MayRecover(e) /\ c.kind # "none" /\ ~Loads(c.kind, c.active)
  <2>1. Recovered(e) = Refused(c, c.active)
    BY <1>1, <1>6 DEF Recovered
  <2>2. Sound(Refused(c, c.active))
    BY <1>2, RefusedIsSound
  <2>3. Refused(c, c.active).active = c.active
    BY <1>2, RefusedFields
  <2> QED BY <1>2, <2>1, <2>2, <2>3
<1> QED BY <1>3, <1>4, <1>5, <1>6

LEMMA PromotedIsSound ==
  ASSUME TypeOK, NEW e, Sound(e), e.active \in Models
  PROVE  Sound(Promoted(e)) /\ Promoted(e).active = e.active
<1>1. e \in EngineType /\ StillLoadable(e)
  BY DEF Sound
<1>2. CASE ~(e.kind # "none" /\ e.exists /\ e.fallback)
  <2>1. Promoted(e) = e
    BY <1>2 DEF Promoted
  <2> QED BY <2>1
<1>3. CASE e.kind # "none" /\ e.exists /\ e.fallback /\ Loads(e.kind, e.active)
  <2>1. Promoted(e) = Running(e, e.active)
    BY <1>3 DEF Promoted
  <2>2. Sound(Running(e, e.active))
    BY <1>1, <1>3, RunningIsSound
  <2>3. Running(e, e.active).active = e.active
    BY <1>1, <1>3, RunningFields
  <2> QED BY <2>1, <2>2, <2>3
<1>4. CASE e.kind # "none" /\ e.exists /\ e.fallback /\ ~Loads(e.kind, e.active)
  <2>1. PICK l \in Models \cup {NoModel} : l = LoadedAfter(e, e.active)
    BY <1>1, LoadedAfterType
  <2>2. Promoted(e) = [e EXCEPT !.loaded = l, !.reason = TRUE]
    BY <1>4, <2>1 DEF Promoted
  <2>3. e.kind = "ort" /\ l # NoModel => Complete(l) /\ l \notin Unusable
    BY <1>1, <2>1 DEF LoadedAfter, Loads, StillLoadable
  <2>4. /\ Promoted(e) \in EngineType /\ Promoted(e).active = e.active
        /\ Promoted(e).kind = e.kind /\ Promoted(e).loaded = l
        /\ Promoted(e).fallback /\ Promoted(e).reason
    BY <1>1, <1>4, <2>2 DEF EngineType
  <2> QED BY <2>3, <2>4 DEF Sound, Explained, HasActive, StillLoadable
<1> QED BY <1>2, <1>3, <1>4

LEMMA WithFilesIsSound ==
  ASSUME NEW e, Sound(e)
  PROVE  /\ Sound(WithFiles(e)) /\ WithFiles(e).active = e.active
         /\ WithFiles(e).kind = e.kind /\ WithFiles(e).fallback = e.fallback
         /\ WithFiles(e).loaded = e.loaded
<1>1. PICK x \in BOOLEAN : x = (options.remote \/ Present(e.active))
  OBVIOUS
<1>2. PICK y \in BOOLEAN : y = (e.reason \/ (~x /\ options.download /\ Missing(e.active) # {}))
  OBVIOUS
<1>3. e \in EngineType /\ (e.reason => y)
  BY <1>2 DEF Sound
<1>4. WithFiles(e) = [e EXCEPT !.exists = x, !.reason = y]
  BY <1>1, <1>2, <1>3 DEF WithFiles, EngineType
<1> QED BY <1>3, <1>4 DEF Sound, Explained, HasActive, StillLoadable, EngineType

LEMMA SelectedIsSound ==
  ASSUME TypeOK, NEW e, Sound(e), NEW m \in Models
  PROVE  Sound(Selected(e, m)) /\ Selected(e, m).active = m
<1>1. PICK t : t = [Tried(e, m) EXCEPT !.active = m]
  OBVIOUS
<1>2. e \in EngineType /\ StillLoadable(e)
  BY DEF Sound
<1>3. Sound(t) /\ t.active = m
  <2>1. CASE e.kind = "none"
    <3>1. t = [e EXCEPT !.fallback = TRUE, !.lastFallback = TRUE, !.reason = TRUE, !.active = m]
      BY <1>1, <2>1 DEF Tried
    <3>2. /\ t \in EngineType /\ t.fallback /\ t.reason /\ t.active = m
          /\ t.kind = e.kind /\ t.loaded = e.loaded
      BY <1>2, <3>1 DEF EngineType
    <3> QED BY <1>2, <2>1, <3>2 DEF Sound, Explained, HasActive, StillLoadable
  <2>2. CASE e.kind # "none" /\ Loads(e.kind, m)
    <3>1. PICK r : r = Running(e, m)
      OBVIOUS
    <3>2. t = [r EXCEPT !.active = m]
      BY <1>1, <2>2, <3>1 DEF Tried
    <3>3. /\ r \in EngineType /\ r.loaded = m /\ r.fallback = FALSE /\ r.lastFallback = FALSE
          /\ r.kind = e.kind /\ e.kind # "none"
          /\ e.kind = "ort" => Complete(m) /\ m \notin Unusable
      BY <1>2, <2>2, <3>1, RunningFields
    <3>4. /\ t \in EngineType /\ t.loaded = m /\ t.fallback = FALSE /\ t.lastFallback = FALSE
          /\ t.kind = e.kind /\ t.active = m
      BY <3>2, <3>3 DEF EngineType
    <3> QED BY <3>3, <3>4 DEF Sound, Explained, HasActive, StillLoadable
  <2>3. CASE e.kind # "none" /\ ~Loads(e.kind, m)
    <3>1. PICK r : r = Refused(e, m)
      OBVIOUS
    <3>2. t = [r EXCEPT !.active = m]
      BY <1>1, <2>3, <3>1 DEF Tried
    <3>3. /\ r \in EngineType /\ r.fallback = TRUE /\ r.reason = TRUE
          /\ StillLoadable(r)
      BY <1>2, <3>1, RefusedFields
    <3>4. /\ t \in EngineType /\ t.fallback = TRUE /\ t.reason = TRUE
          /\ t.kind = r.kind /\ t.active = m /\ t.loaded = r.loaded
      BY <3>2, <3>3 DEF EngineType
    <3> QED BY <3>3, <3>4 DEF Sound, Explained, HasActive, StillLoadable
  <2> QED BY <2>1, <2>2, <2>3
<1>4. Sound(WithFiles(t)) /\ WithFiles(t).active = m
  BY <1>3, WithFilesIsSound
<1>5. Selected(e, m) = Promoted(WithFiles(t))
  BY <1>1 DEF Selected
<1> QED BY <1>4, <1>5, PromotedIsSound

LEMMA SelectedAgainIsSound ==
  ASSUME TypeOK, NEW e, Sound(e), e.active \in Models
  PROVE  Sound(SelectedAgain(e)) /\ SelectedAgain(e).active = e.active
<1>1. Sound(WithFiles(e)) /\ WithFiles(e).active = e.active
  BY WithFilesIsSound
<1>2. Sound(Recovered(WithFiles(e))) /\ Recovered(WithFiles(e)).active = e.active
  BY <1>1, RecoveredIsSound
<1> QED BY <1>2, PromotedIsSound DEF SelectedAgain

-----------------------------------------------------------------------------
(* The steps.                                                              *)

\* What is loaded stays loadable while the files of models only arrive.
LEMMA SoundAfterFetch ==
  ASSUME TypeOK, ArrivedStays, Sound(engine), NEW f \in Files, Fetch(f)
  PROVE  Sound(engine)' /\ ArrivedStays' /\ TypeOK'
<1>1. /\ f \in fetching /\ files[f] # "full"
      /\ UNCHANGED <<options, engine, cooling, produced, service>>
  BY DEF Fetch, ArrivedStays
<1>2. /\ files' \in [Files -> {"absent", "partial", "full"}]
      /\ fetching' \subseteq fetching
      /\ \A g \in Files : files[g] = "full" => files'[g] = "full"
      /\ \A g \in fetching' : files'[g] # "full"
  BY <1>1 DEF Fetch, TypeOK, ArrivedStays
<1>3. TypeOK'
  BY <1>1, <1>2 DEF TypeOK
<1>4. ArrivedStays'
  BY <1>2 DEF ArrivedStays
<1>5. \A m \in Models : Complete(m) => Complete(m)'
  BY <1>2, EngineAssumption DEF Complete
<1>6. engine' = engine /\ engine.loaded \in Models \cup {NoModel}
  BY <1>1 DEF Sound, EngineType
<1>7. StillLoadable(engine)'
  BY <1>5, <1>6 DEF Sound, StillLoadable
<1>8. Sound(engine)'
  BY <1>6, <1>7 DEF Sound, Explained, HasActive
<1> QED BY <1>3, <1>4, <1>8

\* An operation of the engine leaves the files alone and queues only what is
\* not there.
LEMMA QueueKeepsArrived ==
  ASSUME TypeOK, ArrivedStays, NEW m \in Models, QueueDownloads(m), UNCHANGED files
  PROVE  ArrivedStays' /\ fetching' \subseteq Files
<1>1. AssetsOf[m] \subseteq Files
  BY EngineAssumption
<1>2. CASE UNCHANGED fetching
  BY <1>2 DEF ArrivedStays, TypeOK
<1>3. CASE \E started \in SUBSET Missing(m) : fetching' = fetching \cup started
  BY <1>1, <1>3 DEF Missing, ArrivedStays, TypeOK
<1> QED BY <1>2, <1>3 DEF QueueDownloads

LEMMA SoundOfSameFiles ==
  ASSUME UNCHANGED files, NEW e, Sound(e)
  PROVE  e \in EngineType /\ (engine' = e => Sound(engine)')
<1>1. \A m \in Models : Complete(m)' = Complete(m)
  BY DEF Complete
<1>2. e \in EngineType /\ e.loaded \in Models \cup {NoModel}
  BY DEF Sound, EngineType
<1>3. ASSUME engine' = e PROVE Sound(engine)'
  <2>1. StillLoadable(engine)'
    BY <1>1, <1>2, <1>3 DEF Sound, StillLoadable
  <2> QED BY <1>2, <1>3, <2>1 DEF Sound, Explained, HasActive
<1> QED BY <1>2, <1>3

LEMMA InitEstablishesEngineInv == Init => EngineInv
<1> SUFFICES ASSUME Init PROVE EngineInv
  OBVIOUS
<1>1. Blank \in EngineType /\ Blank.active = NoModel
  BY DEF Blank, EngineType, Kinds
<1>2. PICK c : c = Configured(Blank)
  OBVIOUS
<1>3. /\ c \in EngineType /\ c.active = NoModel
      /\ Explained(c) /\ StillLoadable(c)
  BY <1>1, <1>2, ConfiguredFields
<1>4. HasActive(c)
  BY <1>3 DEF HasActive
<1>5. engine = c
  BY <1>2 DEF Init
<1>6. Sound(engine)
  BY <1>3, <1>4, <1>5 DEF Sound
<1>7. TypeOK
  BY <1>3, <1>5 DEF Init, TypeOK, EngineType
<1> QED BY <1>6, <1>7 DEF Init, EngineInv, ArrivedStays

LEMMA RunIsSound ==
  ASSUME EngineInv, Run
  PROVE  /\ Sound(engine') /\ produced' \in Models \cup {NoModel}
         /\ engine'.active = engine.active
         /\ \/ produced' = NoModel
            \/ engine.active # NoModel /\ produced' = engine.active
         /\ CanRun => ~engine'.fallback /\ engine'.loaded = engine.loaded
<1>1. Sound(engine) /\ engine \in EngineType
  BY DEF EngineInv, Sound
<1>2. CASE RunBackend
  <2>1. engine.active # NoModel /\ engine.kind # "none" /\ ~engine.fallback
    BY <1>2 DEF RunBackend, CanRun
  <2>2. engine.loaded = engine.active
    BY <1>1, <2>1 DEF Sound, HasActive
  <2>3. CASE /\ produced' = engine.loaded
             /\ engine' = [engine EXCEPT !.lastFallback = FALSE, !.reason = FALSE]
    <3>1. /\ engine' \in EngineType /\ engine'.active = engine.active
          /\ engine'.kind = engine.kind /\ engine'.loaded = engine.loaded
          /\ engine'.fallback = engine.fallback /\ engine'.lastFallback = FALSE
      BY <1>1, <2>3 DEF EngineType
    <3>2. Sound(engine')
      BY <1>1, <2>1, <3>1 DEF Sound, Explained, HasActive, StillLoadable
    <3> QED BY <1>1, <2>1, <2>2, <2>3, <3>1, <3>2 DEF EngineType
  <2>4. CASE /\ produced' = NoModel
             /\ engine' = [engine EXCEPT !.lastFallback = TRUE, !.reason = TRUE]
    <3>1. /\ engine' \in EngineType /\ engine'.active = engine.active
          /\ engine'.kind = engine.kind /\ engine'.loaded = engine.loaded
          /\ engine'.fallback = engine.fallback /\ engine'.reason = TRUE
      BY <1>1, <2>4 DEF EngineType
    <3>2. Sound(engine')
      BY <1>1, <3>1 DEF Sound, Explained, HasActive, StillLoadable
    <3> QED BY <2>1, <2>4, <3>1, <3>2
  <2> QED BY <1>2, <2>3, <2>4 DEF RunBackend
<1>3. CASE RunUnavailable
  <2>1. PICK b \in BOOLEAN : b = (engine.lastFallback \/ engine.active # NoModel)
    OBVIOUS
  <2>2. ~CanRun /\ produced' = NoModel /\ engine' = [engine EXCEPT !.lastFallback = b]
    BY <1>1, <1>3, <2>1 DEF RunUnavailable, EngineType
  <2>3. /\ engine' \in EngineType /\ engine'.active = engine.active
        /\ engine'.kind = engine.kind /\ engine'.loaded = engine.loaded
        /\ engine'.fallback = engine.fallback /\ engine'.reason = engine.reason
        /\ engine'.lastFallback = b
    BY <1>1, <2>2 DEF EngineType
  <2>4. b => engine.reason
    BY <1>1, <2>1, <2>2 DEF CanRun, Sound, Explained
  <2>5. Sound(engine')
    BY <1>1, <2>3, <2>4 DEF Sound, Explained, HasActive, StillLoadable
  <2> QED BY <2>2, <2>3, <2>5
<1> QED BY <1>2, <1>3 DEF Run

LEMMA NextPreservesEngineInv == EngineInv /\ [Next]_vars => EngineInv'
<1> SUFFICES ASSUME EngineInv, [Next]_vars PROVE EngineInv'
  OBVIOUS
<1>1. TypeOK /\ Sound(engine) /\ ArrivedStays
  BY DEF EngineInv
<1>2. engine.active \in Models \cup {NoModel}
  BY <1>1 DEF Sound, EngineType
<1>3. ASSUME NEW e, Sound(e), engine' = e, NEW m \in Models, QueueDownloads(m),
             produced' = NoModel, cooling' \in BOOLEAN, UNCHANGED <<options, service, files>>
      PROVE  EngineInv'
  <2>1. e \in EngineType /\ Sound(engine)'
    BY <1>3, SoundOfSameFiles
  <2>2. ArrivedStays' /\ fetching' \subseteq Files
    BY <1>1, <1>3, QueueKeepsArrived
  <2>3. TypeOK'
    BY <1>1, <1>3, <2>1, <2>2 DEF TypeOK, EngineType
  <2> QED BY <2>1, <2>2, <2>3 DEF EngineInv
<1>4. ASSUME NEW m \in Models, Initialize(m) PROVE EngineInv'
  <2>1. Sound(Selected(engine, m))
    BY <1>1, SelectedIsSound
  <2>2. cooling' \in BOOLEAN
    BY <1>1, <1>4 DEF Initialize, TypeOK
  <2> QED BY <1>3, <1>4, <2>1, <2>2 DEF Initialize
<1>5. ASSUME NEW m \in Models, SelectOther(m) PROVE EngineInv'
  <2>1. Sound(Selected(engine, m))
    BY <1>1, SelectedIsSound
  <2>2. cooling' \in BOOLEAN
    BY <1>1, <1>5 DEF SelectOther, TypeOK
  <2> QED BY <1>3, <1>5, <2>1, <2>2 DEF SelectOther
<1>6. ASSUME NEW m \in Models, SelectAgain(m) PROVE EngineInv'
  <2>1. engine.active \in Models
    BY <1>6 DEF SelectAgain
  <2>2. Sound(SelectedAgain(engine))
    BY <1>1, <2>1, SelectedAgainIsSound
  <2>3. cooling' \in BOOLEAN
    BY <1>6 DEF SelectAgain
  <2> QED BY <1>3, <1>6, <2>2, <2>3 DEF SelectAgain
<1>7. CASE SelectNothing \/ UNCHANGED vars \/ TimePasses \/ ServiceChanges
  <2>1. /\ UNCHANGED <<options, engine, files, fetching>>
        /\ cooling' \in BOOLEAN /\ service' \in BOOLEAN /\ produced' \in Models \cup {NoModel}
    BY <1>1, <1>7 DEF SelectNothing, TimePasses, ServiceChanges, vars, outside, TypeOK
  <2>2. Sound(engine)'
    BY <1>1, <2>1, SoundOfSameFiles
  <2> QED BY <1>1, <2>1, <2>2 DEF EngineInv, TypeOK, ArrivedStays
<1>8. CASE Run
  <2>1. Sound(engine') /\ produced' \in Models \cup {NoModel}
    BY <1>8, RunIsSound
  <2>2. UNCHANGED <<options, cooling, service, files, fetching>>
    BY <1>8 DEF Run, RunBackend, RunUnavailable, outside
  <2>3. engine' \in EngineType
    BY <2>1 DEF Sound
  <2>4. \A m \in Models : Complete(m)' = Complete(m)
    BY <2>2 DEF Complete
  <2>5. Sound(engine)'
    <3>1. engine'.loaded \in Models \cup {NoModel}
      BY <2>3 DEF EngineType
    <3>2. StillLoadable(engine)'
      BY <2>1, <2>4, <3>1 DEF Sound, StillLoadable
    <3> QED BY <2>1, <3>2 DEF Sound, Explained, HasActive
  <2>6. TypeOK' /\ ArrivedStays'
    BY <1>1, <2>1, <2>2, <2>3 DEF TypeOK, EngineType, ArrivedStays
  <2> QED BY <2>5, <2>6 DEF EngineInv
<1>9. ASSUME NEW f \in Files, Fetch(f) PROVE EngineInv'
  BY <1>1, <1>9, SoundAfterFetch DEF EngineInv
<1> QED BY <1>4, <1>5, <1>6, <1>7, <1>8, <1>9 DEF Next, SelectModel

\* The members of the engine agree with each other and with the files in
\* every reachable state.
THEOREM EngineInvariant == Spec => []EngineInv
  BY InitEstablishesEngineInv, NextPreservesEngineInv, PTL DEF Spec

\* The members of the engine keep their types.
THEOREM EngineTypes == Spec => []TypeOK
<1>1. EngineInv => TypeOK
  BY DEF EngineInv
<1> QED BY <1>1, EngineInvariant, PTL

\* When Run cannot use a backend there is a fallback_reason_ to return.
THEOREM EngineExplainsFailures == Spec => []FailuresAreExplained
<1>1. EngineInv => FailuresAreExplained
  BY DEF EngineInv, Sound, Explained, FailuresAreExplained
<1> QED BY <1>1, EngineInvariant, PTL

\* Every operation of the engine is one that plugin/core expects: the depth
\* of a run is made with the model the engine reports as active.
THEOREM EngineImplementsContract == Spec => ImplementsEngine
<1>1. Init => Contract!Init
  BY DEF Init, Configured, Blank, Contract!Init
<1>2. EngineInv /\ [Next]_vars => [Contract!Next]_(Contract!vars)
  <2> SUFFICES ASSUME EngineInv, [Next]_vars PROVE [Contract!Next]_(Contract!vars)
    OBVIOUS
  <2>1. TypeOK /\ Sound(engine)
    BY DEF EngineInv
  <2>2. ASSUME NEW m \in Models, Initialize(m) \/ SelectOther(m) PROVE Contract!Next
    <3>1. engine' = Selected(engine, m) /\ produced' = NoModel
      BY <2>2 DEF Initialize, SelectOther
    <3>2. engine'.active = m
      BY <2>1, <3>1, SelectedIsSound
    <3> QED BY <3>1, <3>2 DEF Contract!Next, Contract!Select
  <2>3. ASSUME NEW m \in Models, SelectAgain(m) PROVE Contract!Next
    <3>1. engine' = SelectedAgain(engine) /\ produced' = NoModel /\ engine.active = m
      BY <2>3 DEF SelectAgain
    <3>2. engine'.active = m
      BY <2>1, <3>1, SelectedAgainIsSound
    <3> QED BY <3>1, <3>2 DEF Contract!Next, Contract!Select
  <2>4. CASE SelectNothing
    BY <2>4 DEF SelectNothing, Contract!Next, Contract!Reject
  <2>5. CASE Run
    <3>1. /\ engine'.active = engine.active
          /\ \/ produced' = NoModel
             \/ engine.active # NoModel /\ produced' = engine.active
      BY <2>5, RunIsSound
    <3> QED BY <3>1 DEF Contract!Next, Contract!RunSucceeds, Contract!RunFails
  <2>6. CASE UNCHANGED vars \/ TimePasses \/ ServiceChanges \/ \E f \in Files : Fetch(f)
    BY <2>6 DEF vars, TimePasses, ServiceChanges, Fetch, Contract!vars
  <2> QED BY <2>2, <2>3, <2>4, <2>5, <2>6 DEF Next, SelectModel
<1> QED BY <1>1, <1>2, EngineInvariant, PTL DEF Spec, ImplementsEngine, Contract!Spec

\* A model that runs is not reloaded, dropped or replaced by a recovery as
\* long as it stays selected.
THEOREM EngineKeepsRunningModel == Spec => RunningModelStays
<1>1. EngineInv /\ [Next]_vars =>
        [CanRun /\ engine'.active = engine.active =>
           engine'.loaded = engine.loaded /\ ~engine'.fallback]_vars
  <2> SUFFICES ASSUME EngineInv, Next, CanRun, engine'.active = engine.active
               PROVE  engine'.loaded = engine.loaded /\ ~engine'.fallback
    OBVIOUS
  <2>1. /\ TypeOK /\ Sound(engine) /\ engine \in EngineType
        /\ engine.active # NoModel /\ engine.kind # "none" /\ ~engine.fallback
        /\ engine.loaded = engine.active /\ engine.active \in Models
    BY DEF EngineInv, Sound, HasActive, CanRun, EngineType
  <2>2. Loads(engine.kind, engine.active)
    BY <2>1 DEF Sound, StillLoadable, Loads, EngineType, Kinds
  <2>3. ASSUME NEW e, Sound(e), ~e.fallback PROVE Promoted(e) = e
    BY <2>3 DEF Promoted
  <2>4. ASSUME NEW m \in Models, Initialize(m) \/ SelectOther(m)
        PROVE  engine'.loaded = engine.loaded /\ ~engine'.fallback
    <3>1. engine' = Selected(engine, m)
      BY <2>4 DEF Initialize, SelectOther
    <3>2. m = engine.active
      BY <2>1, <3>1, SelectedIsSound
    <3>3. PICK r : r = Running(engine, m)
      OBVIOUS
    <3>4. /\ r \in EngineType /\ r.loaded = m /\ r.fallback = FALSE /\ r.active = m
          /\ Sound(r)
      <4>1. r \in EngineType /\ r.loaded = m /\ r.fallback = FALSE /\ r.active = m
        BY <2>1, <2>2, <3>2, <3>3, RunningFields
      <4>2. Sound(r)
        BY <2>1, <2>2, <3>2, <3>3, RunningIsSound
      <4> QED BY <4>1, <4>2
    <3>5. [Tried(engine, m) EXCEPT !.active = m] = r
      BY <2>1, <2>2, <3>2, <3>3, <3>4 DEF Tried, EngineType
    <3>6. Sound(WithFiles(r)) /\ WithFiles(r).fallback = FALSE /\ WithFiles(r).loaded = m
      BY <3>4, WithFilesIsSound
    <3>7. engine' = WithFiles(r)
      BY <2>3, <3>1, <3>5, <3>6 DEF Selected
    <3> QED BY <2>1, <3>2, <3>6, <3>7
  <2>5. ASSUME NEW m \in Models, SelectAgain(m)
        PROVE  engine'.loaded = engine.loaded /\ ~engine'.fallback
    <3>1. PICK w : w = WithFiles(engine)
      OBVIOUS
    <3>2. Sound(w) /\ w.kind # "none" /\ ~w.fallback /\ w.loaded = engine.loaded
      BY <2>1, <3>1, WithFilesIsSound
    <3>3. Recovered(w) = w
      BY <3>2 DEF Recovered, MayRecover
    <3>4. engine' = w
      BY <2>3, <2>5, <3>1, <3>2, <3>3 DEF SelectAgain, SelectedAgain
    <3> QED BY <3>2, <3>4
  <2>6. CASE Run
    BY <2>6, RunIsSound
  <2>7. CASE SelectNothing \/ TimePasses \/ ServiceChanges \/ \E f \in Files : Fetch(f)
    BY <2>1, <2>7 DEF SelectNothing, TimePasses, ServiceChanges, Fetch
  <2> QED BY <2>4, <2>5, <2>6, <2>7 DEF Next, SelectModel
<1> QED BY <1>1, EngineInvariant, PTL DEF Spec, RunningModelStays
=============================================================================
