---------------------- MODULE PayloadExtractionProofs -----------------------
(***************************************************************************)
(* Proofs about PayloadExtraction: as long as no two processes are at work *)
(* at once, a marker stands for a whole directory, for every payload and   *)
(* any number of processes, wherever they died; and so it does when        *)
(* several were at work and all are done, if none failed or died.          *)
(***************************************************************************)
EXTENDS PayloadExtraction, TLAPS

Extracting == {"clear", "write", "undo", "refused"}

\* The roots that p has looked at, or writes to, have no marker.
NoMarkerWhereLooked(p) ==
    /\ pc[p] \in Extracting => /\ root[p] = Primary \/ (root[p] = Secondary /\ HasSecondary)
                               /\ Marker \notin disk[root[p]]
                               /\ HasSecondary => Marker \notin disk[Secondary]
    /\ pc[p] = "look" /\ root[p] # Primary => Marker \notin disk[Primary]
    /\ pc[p] = "look" /\ root[p] = Legacy /\ HasSecondary => Marker \notin disk[Secondary]

\* What p has written is there.
WrittenIsThere(p) ==
    pc[p] = "write" => \A i \in 1..(next[p] - 1) : Entries[i] \in disk[root[p]]

\* What p was told is extracted has its marker.
ExtractedHasMarker(p) == pc[p] = "extracted" => Marker \in disk[root[p]]

Sound(p) == NoMarkerWhereLooked(p) /\ WrittenIsThere(p) /\ ExtractedHasMarker(p)

OneAtWork == \A p, q \in Procs : pc[p] \in AtWork /\ pc[q] \in AtWork => p = q

AloneInv == OneAtWork /\ MarkersHold /\ \A p \in Procs : Sound(p)

IInv == alone => AloneInv

\* The types of the variables, for any number of processes.
THEOREM Types == Spec => []TypeOK
<1>1. Init => TypeOK
  BY PayloadAssumption DEF Init, TypeOK, Roots, Whole, Labels
<1>2. TypeOK /\ [Next]_vars => TypeOK'
  <2> SUFFICES ASSUME TypeOK, [Next]_vars PROVE TypeOK'  OBVIOUS
  <2>0. Len(Entries) \in Nat /\ \A i \in 1..Len(Entries) : Entries[i] \in Files
    BY PayloadAssumption
  <2> USE DEF TypeOK, Goto, Labels
  <2>1. ASSUME NEW p \in Procs, Start(p) PROVE TypeOK'
    BY <2>0, <2>1 DEF Start, Roots
  <2>2. ASSUME NEW p \in Procs, LookFinds(p) \/ LookMisses(p) PROVE TypeOK'
    BY <2>2 DEF LookFinds, LookMisses, After, Roots
  <2>3. ASSUME NEW p \in Procs, RemoveOne(p) PROVE TypeOK'
    BY <2>3 DEF RemoveOne
  <2>4. ASSUME NEW p \in Procs, Cleared(p) PROVE TypeOK'
    BY <2>0, <2>4 DEF Cleared
  <2>5. ASSUME NEW p \in Procs, WriteEntry(p) PROVE TypeOK'
    BY <2>0, <2>5 DEF WriteEntry, Whole
  <2>6. ASSUME NEW p \in Procs, WriteMarker(p) PROVE TypeOK'
    BY <2>6 DEF WriteMarker, Whole
  <2>7. ASSUME NEW p \in Procs, Fail(p) \/ FailBefore(p) \/ Die(p) PROVE TypeOK'
    BY <2>7 DEF Fail, FailBefore, Die
  <2>8. ASSUME NEW p \in Procs, Retry(p) PROVE TypeOK'
    BY <2>8 DEF Retry, Roots
  <2>9. CASE UNCHANGED vars
    BY <2>9 DEF vars
  <2> QED  BY <2>1, <2>2, <2>3, <2>4, <2>5, <2>6, <2>7, <2>8, <2>9 DEF Next, Step
<1> QED  BY <1>1, <1>2, PTL DEF Spec

\* What a step of p has to show when no other process is at work.
LEMMA OthersStaySound ==
    ASSUME AloneInv, NEW p \in Procs,
           \A q \in Procs : q # p => /\ pc'[q] = pc[q] /\ root'[q] = root[q]
                                      /\ next'[q] = next[q] /\ pc[q] \notin AtWork,
           \A q \in Procs : root[q] \in Roots,
           \A r \in Roots : Marker \in disk[r] => Marker \in disk'[r],
           MarkersHold', Sound(p)'
    PROVE  AloneInv'
<1>1. OneAtWork'
  BY DEF OneAtWork
<1>2. ASSUME NEW q \in Procs, q # p PROVE Sound(q)'
  <2>1. pc'[q] = pc[q] /\ root'[q] = root[q] /\ pc[q] \notin AtWork
    BY <1>2
  <2>2. pc[q] = "extracted" => Marker \in disk[root[q]]
    BY DEF AloneInv, Sound, ExtractedHasMarker
  <2>3. NoMarkerWhereLooked(q)' /\ WrittenIsThere(q)'
    BY <2>1 DEF NoMarkerWhereLooked, WrittenIsThere, AtWork, Extracting
  <2>4. ExtractedHasMarker(q)'
    BY <2>1, <2>2 DEF ExtractedHasMarker
  <2> QED  BY <2>3, <2>4 DEF Sound
<1> QED  BY <1>1, <1>2 DEF AloneInv

\* The steps of a process that is alone preserve the invariant.
LEMMA StepKeepsInvariant ==
    ASSUME TypeOK, TypeOK', AloneInv, alone',
           NEW p \in Procs, Start(p) \/ Step(p)
    PROVE  AloneInv'
<1>0. /\ root[p] \in Roots /\ disk \in [Roots -> SUBSET Whole]
      /\ pc[p] \in Labels /\ next[p] \in Nat /\ Len(Entries) \in Nat
      /\ pc \in [Procs -> Labels] /\ root \in [Procs -> Roots]
      /\ next \in [Procs -> 1..(Len(Entries) + 1)]
      /\ Primary \in Roots /\ Secondary \in Roots /\ Legacy \in Roots
  BY PayloadAssumption DEF TypeOK, Roots
<1>1. \A r \in Roots : Marker \in disk[r] => Files \subseteq disk[r]
  BY DEF AloneInv, MarkersHold
<1>2. NoMarkerWhereLooked(p) /\ WrittenIsThere(p)
  BY DEF AloneInv, Sound
<1> USE DEF Extracting, Goto
<1>3. \A q \in Procs : q # p => pc[q] \notin AtWork
  <2>1. CASE Start(p)
    BY <2>1 DEF Start
  <2>2. CASE Step(p)
    <3>1. pc[p] \in AtWork
      BY <2>2 DEF Step, AtWork, LookFinds, LookMisses, RemoveOne, Cleared, WriteEntry,
                  WriteMarker, Fail, FailBefore, Retry
    <3> QED  BY <3>1 DEF AloneInv, OneAtWork
  <2> QED  BY <2>1, <2>2
<1>4. \A q \in Procs : q # p => pc'[q] = pc[q] /\ root'[q] = root[q] /\ next'[q] = next[q]
  <2>1. CASE Start(p)
    BY <1>0, <2>1 DEF Start
  <2>2. CASE Step(p)
    BY <1>0, <2>2 DEF Step, LookFinds, LookMisses, RemoveOne, Cleared, WriteEntry,
                      WriteMarker, Fail, FailBefore, Retry
  <2> QED  BY <2>1, <2>2
<1>5. SUFFICES /\ \A r \in Roots : Marker \in disk[r] => Marker \in disk'[r]
               /\ MarkersHold' /\ Sound(p)'
  BY <1>0, <1>3, <1>4, OthersStaySound
<1> USE DEF Sound
<1>6. CASE Start(p)
  <2>1. /\ pc'[p] = "look" /\ root'[p] = Primary /\ disk' = disk
    BY <1>0, <1>6 DEF Start
  <2> QED  BY <1>0, <1>1, <2>1, PayloadAssumption DEF NoMarkerWhereLooked, WrittenIsThere,
                                   ExtractedHasMarker, MarkersHold
<1>7. CASE LookFinds(p)
  <2>1. /\ pc'[p] = "extracted" /\ root' = root /\ disk' = disk
        /\ Marker \in disk[root[p]]
    BY <1>0, <1>7 DEF LookFinds
  <2> QED  BY <1>0, <1>1, <2>1 DEF NoMarkerWhereLooked, WrittenIsThere, ExtractedHasMarker, MarkersHold
<1>8. CASE LookMisses(p)
  <2>1. /\ disk' = disk /\ Marker \notin disk[root[p]] /\ pc[p] = "look"
        /\ root[p] # Primary => Marker \notin disk[Primary]
        /\ root[p] = Legacy /\ HasSecondary => Marker \notin disk[Secondary]
    BY <1>2, <1>8 DEF LookMisses, NoMarkerWhereLooked
  <2>2. \/ /\ pc'[p] = "clear" /\ root[p] = Legacy /\ root'[p] = Primary
        \/ /\ pc'[p] = "look" /\ root[p] # Legacy /\ root'[p] = After(root[p])
    BY <1>0, <1>8 DEF LookMisses
  <2>3. NoMarkerWhereLooked(p)'
    BY <1>0, <2>1, <2>2, PayloadAssumption DEF NoMarkerWhereLooked, After, Roots
  <2> QED  BY <1>0, <1>1, <2>1, <2>2, <2>3 DEF WrittenIsThere, ExtractedHasMarker, MarkersHold
<1>9. CASE RemoveOne(p)
  <2>1. /\ pc' = pc /\ root' = root /\ next' = next /\ pc[p] \in {"clear", "undo"}
        /\ disk'[root[p]] \subseteq disk[root[p]]
        /\ \A r \in Roots : r # root[p] => disk'[r] = disk[r]
    BY <1>0, <1>9 DEF RemoveOne
  <2>2. Marker \notin disk[root[p]] /\ (HasSecondary => Marker \notin disk[Secondary])
        /\ (root[p] = Primary \/ (root[p] = Secondary /\ HasSecondary))
    BY <1>2, <2>1 DEF NoMarkerWhereLooked
  <2>3. NoMarkerWhereLooked(p)'
    BY <1>0, <2>1, <2>2 DEF NoMarkerWhereLooked
  <2>4. MarkersHold' /\ \A r \in Roots : Marker \in disk[r] => Marker \in disk'[r]
    BY <1>1, <2>1, <2>2 DEF MarkersHold
  <2> QED  BY <1>0, <2>1, <2>3, <2>4 DEF WrittenIsThere, ExtractedHasMarker
<1>10. CASE Cleared(p)
  <2>1. /\ pc'[p] = "write" /\ root' = root /\ disk' = disk /\ next'[p] = 1 /\ pc[p] = "clear"
    BY <1>0, <1>10 DEF Cleared
  <2>2. NoMarkerWhereLooked(p)' /\ WrittenIsThere(p)' /\ ExtractedHasMarker(p)'
    BY <1>0, <1>2, <2>1 DEF NoMarkerWhereLooked, WrittenIsThere, ExtractedHasMarker
  <2> QED  BY <1>0, <1>1, <2>1, <2>2 DEF MarkersHold
<1>11. CASE WriteEntry(p)
  <2>1. /\ pc' = pc /\ pc[p] = "write" /\ root' = root /\ next'[p] = next[p] + 1
        /\ next[p] <= Len(Entries)
        /\ disk'[root[p]] = disk[root[p]] \cup {Entries[next[p]]}
        /\ \A r \in Roots : r # root[p] => disk'[r] = disk[r]
    BY <1>0, <1>11 DEF WriteEntry
  <2>2. Marker \notin disk[root[p]] /\ (HasSecondary => Marker \notin disk[Secondary])
        /\ (root[p] = Primary \/ (root[p] = Secondary /\ HasSecondary))
    BY <1>2, <2>1 DEF NoMarkerWhereLooked
  <2>3. Entries[next[p]] # Marker
    <3>1. next[p] \in 1..Len(Entries)  BY <1>0, <2>1
    <3> QED  BY <3>1, PayloadAssumption, MarkerAssumption
  <2>4. NoMarkerWhereLooked(p)'
    BY <1>0, <2>1, <2>2, <2>3 DEF NoMarkerWhereLooked
  <2>5. MarkersHold' /\ \A r \in Roots : Marker \in disk[r] => Marker \in disk'[r]
    BY <1>1, <2>1, <2>2, <2>3 DEF MarkersHold
  <2>6. \A i \in 1..(next[p] - 1) : Entries[i] \in disk[root[p]]
    BY <1>2, <2>1 DEF WrittenIsThere
  <2>7. \A i \in 1..(next'[p] - 1) : Entries[i] \in disk'[root'[p]]
    <3> TAKE i \in 1..(next'[p] - 1)
    <3>1. i \in 1..(next[p] - 1) \/ i = next[p]  BY <1>0, <2>1
    <3> QED  BY <2>1, <2>6, <3>1
  <2> QED  BY <2>1, <2>4, <2>5, <2>7 DEF WrittenIsThere, ExtractedHasMarker
<1>12. CASE WriteMarker(p)
  <2>1. /\ pc[p] = "write" /\ pc'[p] = "extracted" /\ root' = root
        /\ next[p] > Len(Entries)
        /\ disk'[root[p]] = disk[root[p]] \cup {Marker}
        /\ \A r \in Roots : r # root[p] => disk'[r] = disk[r]
    BY <1>0, <1>12 DEF WriteMarker
  <2>2. Files \subseteq disk[root[p]]
    <3> SUFFICES ASSUME NEW f \in Files PROVE f \in disk[root[p]]  OBVIOUS
    <3>1. PICK i \in 1..Len(Entries) : Entries[i] = f  BY PayloadAssumption
    <3>2. i \in 1..(next[p] - 1)  BY <1>0, <2>1
    <3> QED  BY <1>2, <2>1, <3>1, <3>2 DEF WrittenIsThere
  <2>3. MarkersHold' /\ \A r \in Roots : Marker \in disk[r] => Marker \in disk'[r]
    BY <1>1, <2>1, <2>2 DEF MarkersHold
  <2> QED  BY <1>0, <2>1, <2>3 DEF NoMarkerWhereLooked, WrittenIsThere, ExtractedHasMarker
<1>13. CASE Fail(p) \/ FailBefore(p)
  <2>1. /\ pc[p] \in {"write", "clear"} /\ pc'[p] \in {"undo", "refused"}
        /\ root' = root /\ disk' = disk
    BY <1>0, <1>13 DEF Fail, FailBefore
  <2>2. NoMarkerWhereLooked(p)' /\ WrittenIsThere(p)' /\ ExtractedHasMarker(p)'
    BY <1>0, <1>2, <2>1 DEF NoMarkerWhereLooked, WrittenIsThere, ExtractedHasMarker
  <2> QED  BY <1>0, <1>1, <2>1, <2>2 DEF MarkersHold
<1>14. CASE Retry(p)
  <2>1. /\ pc[p] \in {"undo", "refused"} /\ disk' = disk
        /\ \/ /\ pc'[p] = "clear" /\ root'[p] = Secondary /\ HasSecondary
           \/ pc'[p] = "failed"
    BY <1>0, <1>14 DEF Retry
  <2>2. HasSecondary => Marker \notin disk[Secondary]
    BY <1>2, <2>1 DEF NoMarkerWhereLooked
  <2>3. NoMarkerWhereLooked(p)' /\ WrittenIsThere(p)' /\ ExtractedHasMarker(p)'
    BY <1>0, <2>1, <2>2 DEF NoMarkerWhereLooked, WrittenIsThere, ExtractedHasMarker
  <2> QED  BY <1>0, <1>1, <2>1, <2>3 DEF MarkersHold
<1> QED  BY <1>6, <1>7, <1>8, <1>9, <1>10, <1>11, <1>12, <1>13, <1>14 DEF Step

\* A process that dies leaves the directories as they are.
LEMMA DeathKeepsInvariant ==
    ASSUME TypeOK, AloneInv, NEW p \in Procs, Die(p)
    PROVE  AloneInv'
<1>1. /\ pc'[p] = "idle" /\ disk' = disk /\ root' = root /\ next' = next
      /\ \A q \in Procs : q # p => pc'[q] = pc[q]
  BY DEF Die, Goto, TypeOK
<1>2. OneAtWork'
  BY <1>1 DEF AloneInv, OneAtWork, AtWork
<1>3. MarkersHold'
  BY <1>1 DEF AloneInv, MarkersHold
<1>4. ASSUME NEW q \in Procs PROVE Sound(q)'
  <2>1. Sound(q)
    BY DEF AloneInv
  <2>2. CASE q = p
    BY <1>1, <2>2 DEF Sound, NoMarkerWhereLooked, WrittenIsThere, ExtractedHasMarker, Extracting
  <2>3. CASE q # p
    <3>1. pc'[q] = pc[q]  BY <1>1, <2>3
    <3> QED  BY <1>1, <2>1, <3>1 DEF Sound, NoMarkerWhereLooked, WrittenIsThere, ExtractedHasMarker
  <2> QED  BY <2>2, <2>3
<1> QED  BY <1>2, <1>3, <1>4 DEF AloneInv

\* As long as processes are at work one at a time, the invariant holds.
THEOREM Invariance == Spec => []IInv
<1>1. Init => IInv
  <2> SUFFICES ASSUME Init PROVE AloneInv  BY DEF IInv
  <2>1. pc = [p \in Procs |-> "idle"]
    BY DEF Init
  <2>2. MarkersHold
    BY DEF Init, MarkersHold, Roots, Whole
  <2>3. OneAtWork
    BY <2>1 DEF OneAtWork, AtWork
  <2>4. ASSUME NEW p \in Procs PROVE Sound(p)
    BY <2>1 DEF Sound, NoMarkerWhereLooked, WrittenIsThere, ExtractedHasMarker, Extracting
  <2> QED  BY <2>2, <2>3, <2>4 DEF AloneInv
<1>2. IInv /\ TypeOK /\ TypeOK' /\ [Next]_vars => IInv'
  <2> SUFFICES ASSUME IInv, TypeOK, TypeOK', [Next]_vars, alone' PROVE AloneInv'
    BY DEF IInv
  <2>1. alone
    BY DEF Next, Start, Step, LookFinds, LookMisses, RemoveOne, Cleared, WriteEntry,
           WriteMarker, Fail, FailBefore, Retry, Die, vars
  <2>2. AloneInv
    BY <2>1 DEF IInv
  <2>3. ASSUME NEW p \in Procs, Start(p) \/ Step(p) PROVE AloneInv'
    BY <2>2, <2>3, StepKeepsInvariant
  <2>4. ASSUME NEW p \in Procs, Die(p) PROVE AloneInv'
    BY <2>2, <2>4, DeathKeepsInvariant
  <2>5. CASE UNCHANGED vars
    BY <2>2, <2>5 DEF vars, AloneInv, OneAtWork, MarkersHold, Sound, NoMarkerWhereLooked,
                      WrittenIsThere, ExtractedHasMarker
  <2> QED  BY <2>3, <2>4, <2>5 DEF Next
<1> QED  BY <1>1, <1>2, Types, PTL DEF Spec

\* As long as no two processes are at work at once, a marker stands for every
\* file, and so does what a process is told.
THEOREM ReadyIsWhole == Spec => []ReadyMeansWhole
<1>1. IInv /\ TypeOK => ReadyMeansWhole
  <2> SUFFICES ASSUME IInv, TypeOK, alone PROVE MarkersHold /\ ExtractedIsWhole
    BY DEF ReadyMeansWhole
  <2>1. ASSUME NEW p \in Procs, pc[p] = "extracted" PROVE Files \subseteq disk[root[p]]
    <3>1. Marker \in disk[root[p]]
      BY <2>1 DEF IInv, AloneInv, Sound, ExtractedHasMarker
    <3> QED  BY <3>1 DEF IInv, AloneInv, MarkersHold, TypeOK
  <2> QED  BY <2>1 DEF IInv, AloneInv, ExtractedIsWhole
<1> QED  BY <1>1, Types, Invariance, PTL

-----------------------------------------------------------------------------
(* Several processes at work at once, none of which fails or dies.         *)

\* Only the primary root is touched: the others are as they were found.
OthersUntouched ==
    /\ disk[Secondary] = {} /\ disk[Legacy] \in {{}, Whole}
    /\ \A p \in Procs : /\ pc[p] \notin {"undo", "refused", "failed"}
                        /\ pc[p] \in {"clear", "write"} => root[p] = Primary
                        /\ pc[p] = "extracted" /\ root[p] # Primary
                             => root[p] = Legacy /\ disk[Legacy] = Whole

\* Nobody has found or made anything in the primary root.
Pristine ==
    /\ disk[Primary] = {}
    /\ \A p \in Procs : pc[p] \notin {"clear", "write"}
                        /\ ~(pc[p] = "extracted" /\ root[p] = Primary)

\* Somebody is still to write every file, or has written all so far with nobody
\* removing since, or every file is there.
SomebodyCompletes ==
    \/ \E p \in Procs : pc[p] = "clear"
    \/ \E p \in Procs : pc[p] = "write" /\ WrittenIsThere(p)
    \/ Files \subseteq disk[Primary]
    \/ Pristine

CleanInv == clean => OthersUntouched /\ SomebodyCompletes

\* The steps that nobody fails at preserve the invariant: the last process that
\* stops removing writes every file after that.
LEMMA CleanStepKeepsInvariant ==
    ASSUME TypeOK, OthersUntouched, SomebodyCompletes,
           NEW p \in Procs,
           \/ Start(p) \/ LookFinds(p) \/ LookMisses(p) \/ RemoveOne(p) \/ Cleared(p)
           \/ WriteEntry(p) \/ WriteMarker(p) \/ (Die(p) /\ pc[p] = "extracted")
    PROVE  OthersUntouched' /\ SomebodyCompletes'
<1>0. /\ disk \in [Roots -> SUBSET Whole] /\ root[p] \in Roots
      /\ pc \in [Procs -> Labels] /\ root \in [Procs -> Roots]
      /\ next \in [Procs -> 1..(Len(Entries) + 1)] /\ next[p] \in Nat /\ Len(Entries) \in Nat
      /\ Primary \in Roots /\ Secondary \in Roots /\ Legacy \in Roots
      /\ Primary # Secondary /\ Legacy # Primary /\ Legacy # Secondary
  BY PayloadAssumption DEF TypeOK, Roots
<1> USE DEF Goto
<1>1. CASE Start(p) \/ LookFinds(p) \/ (LookMisses(p) /\ root[p] # Legacy) \/ (Die(p) /\ pc[p] = "extracted")
  <2>1. /\ disk' = disk /\ pc[p] \notin {"clear", "write"}
        /\ pc'[p] \in {"look", "idle", "extracted"}
        /\ pc'[p] = "extracted" => Marker \in disk[root[p]] /\ root'[p] = root[p]
        /\ \A q \in Procs : q # p => /\ pc'[q] = pc[q] /\ root'[q] = root[q] /\ next'[q] = next[q]
    BY <1>0, <1>1 DEF Start, LookFinds, LookMisses, Die
  <2>2. OthersUntouched'
    <3>1. pc'[p] = "extracted" /\ root[p] # Primary => root[p] = Legacy /\ disk[Legacy] = Whole
      BY <1>0, <2>1 DEF OthersUntouched, Roots
    <3> QED BY <2>1, <3>1 DEF OthersUntouched
  <2>3. CASE \E q \in Procs : pc[q] = "clear"
    BY <2>1, <2>2, <2>3 DEF SomebodyCompletes
  <2>4. CASE \E q \in Procs : pc[q] = "write" /\ WrittenIsThere(q)
    <3>1. PICK q \in Procs : pc[q] = "write" /\ WrittenIsThere(q)
      BY <2>4
    <3>2. pc'[q] = "write" /\ WrittenIsThere(q)'
      BY <2>1, <3>1 DEF WrittenIsThere
    <3> QED BY <2>2, <3>2 DEF SomebodyCompletes
  <2>5. CASE Files \subseteq disk[Primary]
    BY <2>1, <2>2, <2>5 DEF SomebodyCompletes
  <2>6. CASE Pristine
    BY <2>1, <2>2, <2>6 DEF SomebodyCompletes, Pristine
  <2> QED BY <2>2, <2>3, <2>4, <2>5, <2>6 DEF SomebodyCompletes
<1>2. CASE LookMisses(p) /\ root[p] = Legacy
  <2>1. /\ disk' = disk /\ pc'[p] = "clear" /\ root'[p] = Primary
        /\ \A q \in Procs : q # p => pc'[q] = pc[q] /\ root'[q] = root[q]
    BY <1>0, <1>2 DEF LookMisses
  <2> QED BY <2>1 DEF OthersUntouched, SomebodyCompletes
<1>3. CASE RemoveOne(p)
  <2>1. pc[p] = "clear" /\ root[p] = Primary
    BY <1>3 DEF RemoveOne, OthersUntouched
  <2>2. /\ pc' = pc /\ root' = root
        /\ disk'[Secondary] = disk[Secondary] /\ disk'[Legacy] = disk[Legacy]
    BY <1>0, <1>3, <2>1 DEF RemoveOne
  <2> QED BY <2>1, <2>2 DEF OthersUntouched, SomebodyCompletes
<1>4. CASE Cleared(p)
  <2>1. /\ pc[p] = "clear" /\ pc'[p] = "write" /\ next'[p] = 1 /\ disk' = disk /\ root' = root
        /\ \A q \in Procs : q # p => pc'[q] = pc[q]
    BY <1>0, <1>4 DEF Cleared
  <2>2. OthersUntouched'
    BY <2>1 DEF OthersUntouched
  <2>3. WrittenIsThere(p)'
    BY <2>1 DEF WrittenIsThere
  <2> QED BY <2>1, <2>2, <2>3 DEF SomebodyCompletes
<1>5. CASE WriteEntry(p)
  <2>1. pc[p] = "write" /\ root[p] = Primary
    BY <1>5 DEF WriteEntry, OthersUntouched
  <2>2. /\ pc' = pc /\ root' = root /\ next'[p] = next[p] + 1 /\ next[p] <= Len(Entries)
        /\ \A q \in Procs : q # p => next'[q] = next[q]
        /\ disk'[Primary] = disk[Primary] \cup {Entries[next[p]]}
        /\ disk'[Secondary] = disk[Secondary] /\ disk'[Legacy] = disk[Legacy]
    BY <1>0, <1>5, <2>1 DEF WriteEntry
  <2>3. OthersUntouched'
    BY <2>2 DEF OthersUntouched
  <2>4. ASSUME NEW q \in Procs, pc[q] = "write", WrittenIsThere(q)
        PROVE  pc'[q] = "write" /\ WrittenIsThere(q)'
    <3>1. root[q] = Primary /\ \A i \in 1..(next[q] - 1) : Entries[i] \in disk[Primary]
      BY <2>4 DEF OthersUntouched, WrittenIsThere
    <3>2. CASE q = p
      <4>1. ASSUME NEW i \in 1..(next'[p] - 1) PROVE Entries[i] \in disk'[Primary]
        <5>1. i \in 1..(next[p] - 1) \/ i = next[p]
          BY <1>0, <2>2
        <5> QED BY <2>2, <3>1, <3>2, <5>1
      <4> QED BY <2>1, <2>2, <3>2, <4>1 DEF WrittenIsThere
    <3>3. CASE q # p
      BY <2>2, <2>4, <3>1, <3>3 DEF WrittenIsThere
    <3> QED BY <3>2, <3>3
  <2>5. CASE \E q \in Procs : pc[q] = "write" /\ WrittenIsThere(q)
    BY <2>3, <2>4, <2>5 DEF SomebodyCompletes
  <2>6. CASE (\E q \in Procs : pc[q] = "clear") \/ Files \subseteq disk[Primary]
    BY <2>2, <2>3, <2>6 DEF SomebodyCompletes
  <2>7. ~Pristine
    BY <2>1 DEF Pristine
  <2> QED BY <2>5, <2>6, <2>7 DEF SomebodyCompletes
<1>6. CASE WriteMarker(p)
  <2>1. pc[p] = "write" /\ root[p] = Primary
    BY <1>6 DEF WriteMarker, OthersUntouched
  <2>2. /\ pc'[p] = "extracted" /\ root' = root /\ next' = next /\ next[p] > Len(Entries)
        /\ \A q \in Procs : q # p => pc'[q] = pc[q]
        /\ disk'[Primary] = disk[Primary] \cup {Marker}
        /\ disk'[Secondary] = disk[Secondary] /\ disk'[Legacy] = disk[Legacy]
    BY <1>0, <1>6, <2>1 DEF WriteMarker
  <2>3. OthersUntouched'
    BY <2>1, <2>2 DEF OthersUntouched
  <2>4. CASE \E q \in Procs : q # p /\ pc[q] = "write" /\ WrittenIsThere(q)
    <3>1. PICK q \in Procs : q # p /\ pc[q] = "write" /\ WrittenIsThere(q)
      BY <2>4
    <3>2. root[q] = Primary
      BY <3>1 DEF OthersUntouched
    <3>3. pc'[q] = "write" /\ WrittenIsThere(q)'
      BY <2>2, <3>1, <3>2 DEF WrittenIsThere
    <3> QED BY <2>3, <3>3 DEF SomebodyCompletes
  <2>5. CASE WrittenIsThere(p)
    <3>1. ASSUME NEW f \in Files PROVE f \in disk[Primary]
      <4>1. PICK i \in 1..Len(Entries) : Entries[i] = f
        BY PayloadAssumption
      <4>2. i \in 1..(next[p] - 1)
        BY <1>0, <2>2
      <4> QED BY <2>1, <2>5, <4>1, <4>2 DEF WrittenIsThere
    <3> QED BY <2>2, <2>3, <3>1 DEF SomebodyCompletes
  <2>6. CASE \E q \in Procs : pc[q] = "clear"
    BY <2>1, <2>2, <2>3, <2>6 DEF SomebodyCompletes
  <2>7. CASE Files \subseteq disk[Primary]
    BY <2>2, <2>3, <2>7 DEF SomebodyCompletes
  <2>8. ~Pristine
    BY <2>1 DEF Pristine
  <2> QED BY <2>4, <2>5, <2>6, <2>7, <2>8 DEF SomebodyCompletes
<1> QED BY <1>1, <1>2, <1>3, <1>4, <1>5, <1>6

\* The invariant of clean runs is inductive.
LEMMA CleanInvariance == Spec => []CleanInv
<1>1. Init => CleanInv
  <2> SUFFICES ASSUME Init PROVE OthersUntouched /\ Pristine
    BY DEF CleanInv, SomebodyCompletes
  <2> QED BY PayloadAssumption DEF Init, OthersUntouched, Pristine, Roots
<1>2. CleanInv /\ TypeOK /\ [Next]_vars => CleanInv'
  <2> SUFFICES ASSUME CleanInv, TypeOK, [Next]_vars, clean' PROVE OthersUntouched' /\ SomebodyCompletes'
    BY DEF CleanInv
  <2>1. clean
    BY DEF Next, Start, Step, LookFinds, LookMisses, RemoveOne, Cleared, WriteEntry,
           WriteMarker, Fail, FailBefore, Retry, Die, vars
  <2>2. OthersUntouched /\ SomebodyCompletes
    BY <2>1 DEF CleanInv
  <2>3. CASE UNCHANGED vars
    BY <2>2, <2>3 DEF vars, OthersUntouched, SomebodyCompletes, Pristine, WrittenIsThere
  <2>4. ASSUME NEW p \in Procs, Start(p) \/ Step(p) \/ Die(p)
        PROVE  OthersUntouched' /\ SomebodyCompletes'
    <3>1. ~Fail(p) /\ ~FailBefore(p)
      BY DEF Fail, FailBefore
    <3>2. ~Retry(p)
      BY <2>2 DEF Retry, OthersUntouched
    <3>3. Die(p) => pc[p] = "extracted"
      BY <2>2 DEF Die, OthersUntouched
    <3> QED BY <2>2, <2>4, <3>1, <3>2, <3>3, CleanStepKeepsInvariant DEF Step
  <2> QED BY <2>3, <2>4 DEF Next
<1> QED BY <1>1, <1>2, Types, PTL DEF Spec

\* However several processes remove and write at once, markers and results stand
\* for every file when all are done, if none of them failed or died.
THEOREM RacesSettleWhole == Spec => []SettlesWhole
<1>1. CleanInv /\ TypeOK => SettlesWhole
  <2> SUFFICES ASSUME CleanInv, TypeOK, clean, Settled PROVE MarkersHold /\ ExtractedIsWhole
    BY DEF SettlesWhole
  <2>1. OthersUntouched /\ (Files \subseteq disk[Primary] \/ Pristine)
    BY DEF CleanInv, SomebodyCompletes, Settled, AtWork
  <2>2. MarkersHold
    BY <2>1 DEF MarkersHold, OthersUntouched, Pristine, Roots, Whole
  <2>3. ExtractedIsWhole
    BY <2>1 DEF ExtractedIsWhole, OthersUntouched, Pristine, Whole
  <2> QED BY <2>2, <2>3
<1> QED BY <1>1, CleanInvariance, Types, PTL
=============================================================================
