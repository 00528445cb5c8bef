------------------------- MODULE PayloadExtraction --------------------------
(***************************************************************************)
(* plugin/inference/EmbeddedPayload.cpp: the runtime files appended to the *)
(* module are extracted into a cache directory the first time a process    *)
(* loads it, and found there by later ones.  The directory belongs to all  *)
(* processes that load the module, and nothing locks it: a step is one     *)
(* operation of the file system.  A process can die at any of them, and    *)
(* every operation that is checked for an error can have one.              *)
(***************************************************************************)
EXTENDS Integers, Sequences

CONSTANTS Procs,       \* processes that load the module
          Files,       \* paths the payload has
          Entries,     \* the entries of the payload in their order
          Primary,     \* ResolvePayloadCacheRoot() / payload_id
          Secondary,   \* ResolveSecondaryWindowsPayloadCacheRoot() / payload_id
          Legacy,      \* ResolveLegacyPayloadCacheRoot() / payload_id
          HasSecondary \* there is one and it is not the primary

ASSUME PayloadAssumption ==
    /\ Entries \in Seq(Files)
    /\ \A f \in Files : \E i \in 1..Len(Entries) : Entries[i] = f
    /\ HasSecondary \in BOOLEAN
    /\ Primary # Secondary /\ Legacy # Primary /\ Legacy # Secondary

Marker == "ready"
ASSUME MarkerAssumption == Marker \notin Files

Roots == {Primary, Secondary, Legacy}

VARIABLES disk,   \* [Roots -> what is there: a set of files and the marker]
          pc,     \* where each process is
          root,   \* the root it looks at or extracts to, or its asset_root
          next,   \* the entry it writes next
          clean,  \* nothing has failed and nobody has died
          alone   \* no two processes have been at work at once

vars == <<disk, pc, root, next, clean, alone>>

Whole == Files \cup {Marker}

Init ==
    /\ disk \in { [r \in Roots |-> IF r = Legacy THEN l ELSE {}] : l \in {{}, Whole} }
    /\ pc = [p \in Procs |-> "idle"]
    /\ root = [p \in Procs |-> Primary]
    /\ next = [p \in Procs |-> 1]
    /\ clean = TRUE
    /\ alone = TRUE

\* clean and alone are there to state properties.
AtWork == {"look", "clear", "write", "undo", "refused"}

Goto(p, label) == pc' = [pc EXCEPT ![p] = label]

-----------------------------------------------------------------------------
\* EnsureEmbeddedPayloadAvailable: the footer says there is a payload.
Start(p) ==
    /\ pc[p] = "idle"
    /\ Goto(p, "look")
    /\ root' = [root EXCEPT ![p] = Primary]
    /\ next' = [next EXCEPT ![p] = 1]
    /\ alone' = (alone /\ \A q \in Procs : pc[q] \notin AtWork)
    /\ UNCHANGED <<disk, clean>>

\* The roots are looked at for a marker in this order.
After(r) == IF r = Primary /\ HasSecondary THEN Secondary ELSE Legacy

LookFindsAny(p) ==
    /\ pc[p] = "look"
    /\ disk[root[p]] # {}
    /\ Goto(p, "extracted")
    /\ UNCHANGED <<disk, root, next, clean, alone>>

LookFinds(p) ==
    /\ pc[p] = "look"
    /\ Marker \in disk[root[p]]
    /\ Goto(p, "extracted")
    /\ UNCHANGED <<disk, root, next, clean, alone>>

LookMisses(p) ==
    /\ pc[p] = "look"
    /\ Marker \notin disk[root[p]]
    /\ IF root[p] = Legacy
         THEN /\ Goto(p, "clear")
              /\ root' = [root EXCEPT ![p] = Primary]
         ELSE /\ root' = [root EXCEPT ![p] = After(root[p])]
              /\ UNCHANGED pc
    /\ UNCHANGED <<disk, next, clean, alone>>

\* ExtractPayloadEntries begins with remove_all, whose error is dropped: what
\* cannot be removed stays.
RemoveOne(p) ==
    /\ pc[p] \in {"clear", "undo"}
    /\ \E e \in disk[root[p]] : disk' = [disk EXCEPT ![root[p]] = @ \ {e}]
    /\ UNCHANGED <<pc, root, next, clean, alone>>

Cleared(p) ==
    /\ pc[p] = "clear"
    /\ Goto(p, "write")
    /\ next' = [next EXCEPT ![p] = 1]
    /\ UNCHANGED <<disk, root, clean, alone>>

\* One entry: its directory, the file and its bytes.
WriteEntry(p) ==
    /\ pc[p] = "write"
    /\ next[p] <= Len(Entries)
    /\ disk' = [disk EXCEPT ![root[p]] = @ \cup {Entries[next[p]]}]
    /\ next' = [next EXCEPT ![p] = @ + 1]
    /\ UNCHANGED <<pc, root, clean, alone>>

\* The marker comes after the last entry.
WriteMarkerEarly(p) ==
    /\ pc[p] = "write"
    /\ next[p] >= Len(Entries)
    /\ disk' = [disk EXCEPT ![root[p]] = @ \cup {Marker}]
    /\ Goto(p, "extracted")
    /\ UNCHANGED <<root, next, clean, alone>>

WriteMarker(p) ==
    /\ pc[p] = "write"
    /\ next[p] > Len(Entries)
    /\ disk' = [disk EXCEPT ![root[p]] = @ \cup {Marker}]
    /\ Goto(p, "extracted")
    /\ UNCHANGED <<root, next, clean, alone>>

\* An error while the directory is made, an entry is read or written, or the
\* marker is: what was written is removed.
Fail(p) ==
    /\ pc[p] = "write"
    /\ Goto(p, "undo")
    /\ clean' = FALSE
    /\ UNCHANGED <<disk, root, next, alone>>

\* An error before anything is written: the module cannot be read again or
\* the root cannot be made.
FailBefore(p) ==
    /\ pc[p] = "clear"
    /\ Goto(p, "refused")
    /\ clean' = FALSE
    /\ UNCHANGED <<disk, root, next, alone>>

\* A failed extraction is tried again in the secondary root, once.
RetrySame(p) ==
    /\ pc[p] \in {"undo", "refused"}
    /\ IF HasSecondary THEN Goto(p, "clear") ELSE Goto(p, "failed")
    /\ UNCHANGED <<disk, root, next, clean, alone>>

Retry(p) ==
    /\ pc[p] \in {"undo", "refused"}
    /\ IF root[p] = Primary /\ HasSecondary
         THEN /\ Goto(p, "clear")
              /\ root' = [root EXCEPT ![p] = Secondary]
         ELSE /\ Goto(p, "failed")
              /\ UNCHANGED root
    /\ UNCHANGED <<disk, next, clean, alone>>

\* The process ends or is killed, and another one may take its place.
Die(p) ==
    /\ pc[p] # "idle"
    /\ Goto(p, "idle")
    /\ clean' = (clean /\ pc[p] \in {"extracted", "failed"})
    /\ UNCHANGED <<disk, root, next, alone>>

Step(p) ==
    \/ LookFinds(p)
    \/ LookMisses(p)
    \/ RemoveOne(p)
    \/ Cleared(p)
    \/ WriteEntry(p)
    \/ WriteMarker(p)
    \/ Fail(p)
    \/ FailBefore(p)
    \/ Retry(p)

Next == \E p \in Procs : Start(p) \/ Step(p) \/ Die(p)

Spec == Init /\ [][Next]_vars

\* A call runs until it returns, as long as its process lives.  remove_all
\* goes over a directory once, whatever others add to it meanwhile.
FairSpec ==
    /\ Spec
    /\ \A p \in Procs : WF_vars(Step(p)) /\ WF_vars(Cleared(p)) /\ WF_vars(Retry(p))

-----------------------------------------------------------------------------
Labels == {"idle", "look", "clear", "write", "undo", "refused",
           "extracted", "failed"}

\* The types of the variables.
TypeOK ==
    /\ disk \in [Roots -> SUBSET Whole]
    /\ pc \in [Procs -> Labels]
    /\ root \in [Procs -> Roots]
    /\ next \in [Procs -> 1..(Len(Entries) + 1)]
    /\ clean \in BOOLEAN
    /\ alone \in BOOLEAN

\* What the code relies on when it looks for a marker, and what its caller
\* relies on when it is told that the payload is extracted.
MarkersHold == \A r \in Roots : Marker \in disk[r] => Files \subseteq disk[r]
ExtractedIsWhole == \A p \in Procs : pc[p] = "extracted" => Files \subseteq disk[root[p]]

\* As long as no two processes are at work at once, a marker and a result
\* say that every file is there, wherever processes died or failed.
ReadyMeansWhole == alone => MarkersHold /\ ExtractedIsWhole

\* However several processes remove and write at once, the directory is
\* whole when all are done, if none of them failed or died.
Settled == \A p \in Procs : pc[p] \notin AtWork

SettlesWhole == clean /\ Settled => MarkersHold /\ ExtractedIsWhole

\* A call returns unless its process dies.
EveryCallReturns ==
    \A p \in Procs : pc[p] = "look" ~> pc[p] \in {"extracted", "failed", "idle"}
=============================================================================
