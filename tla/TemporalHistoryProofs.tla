----------------------- MODULE TemporalHistoryProofs ------------------------
(***************************************************************************)
(* Proofs about TemporalHistory: the ring of any number of frames shows    *)
(* what a list of the last frames would, for any hashes, sizes and models. *)
(***************************************************************************)
EXTENDS TemporalHistory, SequenceTheorems, TLAPS

-----------------------------------------------------------------------------
(* Places of a ring of n slots. *)

\* A place in the first round of a ring is itself.
LEMMA RoundOne ==
    ASSUME NEW n \in Nat \ {0}, NEW x \in 0..(n - 1)
    PROVE  x % n = x
  OBVIOUS

\* A place in the second round is as far into the first.
LEMMA RoundTwo ==
    ASSUME NEW n \in Nat \ {0}, NEW x \in n..(2 * n - 1)
    PROVE  x % n = x - n
  OBVIOUS

\* Counting from slot h, every count below n reaches a slot of its own.
LEMMA SlotsDiffer ==
    ASSUME NEW n \in Nat \ {0}, NEW h \in 0..(n - 1)
    PROVE  /\ \A i \in 0..(n - 1) : (h + i) % n \in 0..(n - 1)
           /\ \A i, j \in 0..(n - 1) : (h + i) % n = (h + j) % n => i = j
<1> DEFINE At(i) == IF h + i < n THEN h + i ELSE h + i - n
<1>1. \A i \in 0..(n - 1) : (h + i) % n = At(i)
  <2> TAKE i \in 0..(n - 1)
  <2>1. CASE h + i < n
    <3>1. h + i \in 0..(n - 1)  BY <2>1
    <3> QED  BY <3>1, <2>1, RoundOne
  <2>2. CASE h + i >= n
    <3>1. h + i \in n..(2 * n - 1)  BY <2>2
    <3> QED  BY <3>1, <2>2, RoundTwo
  <2> QED  BY <2>1, <2>2
<1>2. \A i \in 0..(n - 1) : At(i) \in 0..(n - 1)  OBVIOUS
<1>3. \A i, j \in 0..(n - 1) : At(i) = At(j) => i = j  OBVIOUS
<1> HIDE DEF At
<1> QED  BY <1>1, <1>2, <1>3

\* Counting from the slot after h is counting one more from h; the last
\* count reaches h.
LEMMA NextSlot ==
    ASSUME NEW n \in Nat \ {0}, NEW h \in 0..(n - 1)
    PROVE  /\ (h + 1) % n \in 0..(n - 1)
           /\ \A i \in 0..(n - 2) : (((h + 1) % n) + i) % n = (h + (i + 1)) % n
           /\ (((h + 1) % n) + (n - 1)) % n = h
           /\ (h + 0) % n = h
<1>1. CASE h + 1 < n
  <2>1. (h + 1) % n = h + 1
    <3>1. h + 1 \in 0..(n - 1)  BY <1>1
    <3> QED  BY <3>1, RoundOne
  <2>2. (h + 1 + (n - 1)) % n = h
    <3>1. h + 1 + (n - 1) \in n..(2 * n - 1)  BY <1>1
    <3> QED  BY <3>1, RoundTwo
  <2>3. h % n = h  BY RoundOne
  <2>4. \A i \in 0..(n - 2) : h + 1 + i = h + (i + 1)  OBVIOUS
  <2> QED  BY <1>1, <2>1, <2>2, <2>3, <2>4
<1>2. CASE h + 1 = n
  <2>1. (h + 1) % n = 0
    <3>1. h + 1 \in n..(2 * n - 1)  BY <1>2
    <3> QED  BY <3>1, <1>2, RoundTwo
  <2>2. (0 + (n - 1)) % n = h
    <3>1. 0 + (n - 1) \in 0..(n - 1)  OBVIOUS
    <3> QED  BY <3>1, <1>2, RoundOne
  <2>3. h % n = h  BY RoundOne
  <2>4. \A i \in 0..(n - 2) : (0 + i) % n = i
    <3> TAKE i \in 0..(n - 2)
    <3>1. 0 + i \in 0..(n - 1)  OBVIOUS
    <3> QED  BY <3>1, RoundOne
  <2>5. \A i \in 0..(n - 2) : (h + (i + 1)) % n = i
    <3> TAKE i \in 0..(n - 2)
    <3>1. h + (i + 1) \in n..(2 * n - 1)  BY <1>2
    <3> QED  BY <3>1, <1>2, RoundTwo
  <2>6. 0 \in 0..(n - 1)  OBVIOUS
  <2> QED  BY <2>1, <2>2, <2>3, <2>4, <2>5, <2>6
<1> QED  BY <1>1, <1>2

-----------------------------------------------------------------------------
(* The invariant. *)

\* The slots in use hold requests of this size; without a ring there is
\* nothing.
RingIsReal ==
    /\ size = 0 => valid = 0 /\ head = 0 /\ named = 0
    /\ size # 0 => /\ valid > 0
                   /\ \A i \in 0..(valid - 1) :
                        /\ ring[Wrapped(head + i)] \in asks
                        /\ SizeOf[ring[Wrapped(head + i)]] = size

\* Where hashes identify frames, the hash named last is that of the frame
\* that came last.
NamedIsLatest ==
    size # 0 /\ Identified(asks) => named = HashOf[ring[Latest]]

IInv == TypeOK /\ RingIsReal /\ NamedIsLatest /\ WindowIsReal /\ ShowsRequest

\* What every request leaves in the ring, seen from its head: the frame at
\* the last place is f, or what was there when f was taken for a duplicate.
LEMMA CapacityFacts ==
    ASSUME TypeOK
    PROVE  /\ capacity \in Nat \ {0}
           /\ model.ref \in 0..(capacity - 1)
           /\ model = [frames |-> capacity, ref |-> model.ref]
  BY HistoryAssumption DEF TypeOK, capacity

\* A frame that starts a ring is alone in it.
LEMMA FirstOfRing ==
    ASSUME NEW n \in Nat \ {0}, NEW f, NEW r,
           r = [[i \in 0..(n - 1) |-> Blank] EXCEPT ![0] = f]
    PROVE  /\ r[(0 + 0) % n] = f
           /\ f \in Frames => r \in [0..(n - 1) -> Frames \cup {Blank}]
<1>1. 0 \in 0..(n - 1)  OBVIOUS
<1>2. (0 + 0) % n = 0  BY <1>1, NextSlot
<1> QED  BY <1>1, <1>2

\* A frame that follows the others is behind them, and they keep their
\* order; the oldest leaves a full ring.
LEMMA FollowsRing ==
    ASSUME TypeOK, size # 0, valid > 0,
           NEW f \in Frames, NEW differs \in BOOLEAN,
           Follows(f, differs), model' = model
    PROVE  /\ valid' \in 1..capacity /\ head' \in 0..(capacity - 1)
           /\ ring' \in [0..(capacity - 1) -> Frames \cup {Blank}]
           /\ ring'[(head' + (valid' - 1)) % capacity] = f
           /\ valid < capacity =>
                /\ valid' = valid + 1
                /\ \A i \in 0..(valid' - 2) :
                     ring'[(head' + i) % capacity] = ring[(head + i) % capacity]
           /\ valid = capacity =>
                /\ valid' = valid
                /\ \A i \in 0..(valid' - 2) :
                     ring'[(head' + i) % capacity] = ring[(head + (i + 1)) % capacity]
<1> DEFINE n == capacity
<1>0. /\ n \in Nat \ {0} /\ head \in 0..(n - 1) /\ valid \in 1..n
      /\ ring \in [0..(n - 1) -> Frames \cup {Blank}]
  BY CapacityFacts DEF TypeOK
<1>1. CASE valid < capacity
  <2>1. /\ ring' = [ring EXCEPT ![(head + valid) % n] = f]
        /\ valid' = valid + 1 /\ head' = head
    BY <1>1 DEF Follows, WriteSlot, Wrapped
  <2>2. valid \in 0..(n - 1) /\ \A i \in 0..(valid - 1) : i \in 0..(n - 1) /\ i # valid
    BY <1>0, <1>1
  <2>3. /\ (head + valid) % n \in 0..(n - 1)
        /\ \A i \in 0..(valid - 1) : /\ (head + i) % n \in 0..(n - 1)
                                     /\ (head + i) % n # (head + valid) % n
    BY <1>0, <2>2, SlotsDiffer
  <2>4. ring'[(head + valid) % n] = f
    BY <1>0, <2>1, <2>3
  <2>5. \A i \in 0..(valid - 1) : ring'[(head + i) % n] = ring[(head + i) % n]
    BY <1>0, <2>1, <2>3
  <2>6. ring' \in [0..(n - 1) -> Frames \cup {Blank}]
    BY <1>0, <2>1
  <2>7. valid' - 1 = valid /\ valid' - 2 = valid - 1 /\ valid' \in 1..n
    BY <1>0, <1>1, <2>1
  <2> QED  BY <1>0, <1>1, <2>1, <2>4, <2>5, <2>6, <2>7
<1>2. CASE valid = capacity
  <2>1. /\ ring' = [ring EXCEPT ![head] = f]
        /\ valid' = valid /\ head' = (head + 1) % n
    <3>1. ~(valid < capacity)  BY <1>0, <1>2
    <3> QED  BY <3>1, <1>2 DEF Follows, WriteSlot, Wrapped
  <2>2. /\ head' \in 0..(n - 1)
        /\ (head' + (n - 1)) % n = head
        /\ \A i \in 0..(n - 2) : (head' + i) % n = (head + (i + 1)) % n
        /\ (head + 0) % n = head
    BY <1>0, <2>1, NextSlot
  <2>3. \A i \in 0..(n - 2) : i + 1 \in 0..(n - 1) /\ i + 1 # 0
    BY <1>0
  <2>4. 0 \in 0..(n - 1)  BY <1>0
  <2>5. \A j \in 0..(n - 1) : j # 0 => (head + j) % n \in 0..(n - 1) /\ (head + j) % n # head
    <3>1. /\ \A i \in 0..(n - 1) : (head + i) % n \in 0..(n - 1)
          /\ \A i, j \in 0..(n - 1) : (head + i) % n = (head + j) % n => i = j
      BY <1>0, SlotsDiffer
    <3> TAKE j \in 0..(n - 1)
    <3>2. (head + j) % n = (head + 0) % n => j = 0
      BY <2>4, <3>1
    <3> QED  BY <2>2, <3>1, <3>2
  <2>6. \A i \in 0..(n - 2) : /\ (head + (i + 1)) % n \in 0..(n - 1)
                              /\ (head + (i + 1)) % n # head
    BY <2>3, <2>5
  <2>7. \A i \in 0..(n - 2) : ring'[(head' + i) % n] = ring[(head + (i + 1)) % n]
    BY <1>0, <2>1, <2>2, <2>6
  <2>8. ring'[head] = f
    BY <1>0, <2>1
  <2>9. ring' \in [0..(n - 1) -> Frames \cup {Blank}]
    BY <1>0, <2>1
  <2> QED  BY <1>0, <1>2, <2>1, <2>2, <2>7, <2>8, <2>9
<1> QED  BY <1>0, <1>1, <1>2

\* A request leaves the ring real, and where hashes identify frames its
\* frame is at the last place.
LEMMA RingAfterRun ==
    ASSUME TypeOK, RingIsReal, NamedIsLatest,
           NEW f \in Frames, Run(f)
    PROVE  /\ TypeOK' /\ RingIsReal' /\ NamedIsLatest'
           /\ size' = SizeOf[f] /\ size' # 0 /\ f \in asks'
           /\ Identified(asks') => ring'[Wrapped(head + (valid - 1))'] = f
<1> DEFINE n == capacity
<1>0. /\ n \in Nat \ {0} /\ n > 1 /\ model' = model /\ session' = session
      /\ n' = n /\ HashOf[f] \in Nat /\ SizeOf[f] \in Nat \ {0} /\ asked' = f
  BY CapacityFacts, HistoryAssumption DEF Run, CopiesWindow, capacity
<1>1. \A x : Wrapped(x) = x % n /\ Wrapped(x)' = x' % n
  BY <1>0 DEF Wrapped
<1>2. CASE Starts(f) \/ \E differs \in BOOLEAN : Cuts(f, differs)
  <2>1. /\ ring' = [BlankRing EXCEPT ![0] = f]
        /\ valid' = 1 /\ head' = 0 /\ size' = SizeOf[f]
        /\ hits' = 0 /\ since' = Older(0) /\ f \in asks' /\ asks' \in SUBSET Frames
        /\ HashOf[f] # 0 => named' = HashOf[f]
        /\ named' \in Nat
    BY <1>0, <1>2 DEF Starts, Cuts, Names, TypeOK
  <2>2. /\ ring'[(0 + 0) % n] = f
        /\ ring' \in [0..(n - 1) -> Frames \cup {Blank}]
    BY <1>0, <2>1, FirstOfRing DEF BlankRing
  <2>3. since' \in 0..Cooldown
    BY <2>1, HistoryAssumption DEF Older
  <2>4. TypeOK'
    BY <1>0, <2>1, <2>2, <2>3, HistoryAssumption DEF TypeOK
  <2>5. RingIsReal'
    BY <1>0, <1>1, <2>1, <2>2 DEF RingIsReal, Wrapped
  <2>6. ring'[Wrapped(head + (valid - 1))'] = f
    BY <1>0, <2>1, <2>2 DEF Wrapped
  <2>7. NamedIsLatest'
    BY <1>0, <2>1, <2>6 DEF NamedIsLatest, Latest, Identified
  <2> QED  BY <1>0, <2>1, <2>4, <2>5, <2>6, <2>7
<1>3. CASE Reuses(f)
  <2>1. /\ ring' = ring /\ valid' = valid /\ head' = head /\ size' = size
        /\ size = SizeOf[f] /\ hits' = hits /\ since' = since
        /\ asks' = asks \cup {f} /\ named = HashOf[f] /\ named' = named
    BY <1>3 DEF Reuses, Duplicate, Names
  <2>2. TypeOK'
    BY <1>0, <2>1 DEF TypeOK
  <2>3. RingIsReal'
    BY <1>0, <1>1, <2>1 DEF RingIsReal
  <2>4. valid > 0 /\ ring[Latest] \in asks
    BY <1>0, <2>1 DEF RingIsReal, Latest, TypeOK
  <2>5. Identified(asks') => ring[Latest] = f /\ Identified(asks)
    <3>1. Identified(asks') => Identified(asks)
      BY <2>1 DEF Identified
    <3>2. Identified(asks) => HashOf[ring[Latest]] = HashOf[f]
      BY <1>0, <2>1 DEF NamedIsLatest
    <3>3. Identified(asks') /\ HashOf[ring[Latest]] = HashOf[f] => ring[Latest] = f
      BY <2>1, <2>4 DEF Identified
    <3> QED  BY <3>1, <3>2, <3>3
  <2>6. ring'[Wrapped(head + (valid - 1))'] = ring[Latest] /\ Latest' = Wrapped(head + (valid - 1))'
    BY <1>0, <1>1, <2>1 DEF Latest
  <2>7. NamedIsLatest'
    BY <1>0, <2>1, <2>5, <2>6 DEF NamedIsLatest
  <2> QED  BY <1>0, <2>1, <2>2, <2>3, <2>5, <2>6, <2>7
<1>4. ASSUME NEW differs \in BOOLEAN, Follows(f, differs)
      PROVE  /\ TypeOK' /\ RingIsReal' /\ NamedIsLatest'
             /\ size' = SizeOf[f] /\ size' # 0 /\ f \in asks'
             /\ Identified(asks') => ring'[Wrapped(head + (valid - 1))'] = f
  <2>1. /\ size' = size /\ size = SizeOf[f] /\ asks' = asks \cup {f}
        /\ hits' = HitsAfter(differs) /\ hits' < RequiredHits
        /\ since' = Older(since)
        /\ HashOf[f] # 0 => named' = HashOf[f]
        /\ named' \in Nat
    BY <1>0, <1>4 DEF Follows, Names, TypeOK
  <2>2. valid > 0 /\ valid \in 0..n
    BY <1>0, <2>1 DEF RingIsReal, TypeOK
  <2>3. /\ valid' \in 1..n /\ head' \in 0..(n - 1)
        /\ ring' \in [0..(n - 1) -> Frames \cup {Blank}]
        /\ ring'[(head' + (valid' - 1)) % n] = f
    BY <1>0, <1>4, <2>1, <2>2, FollowsRing
  <2>4. hits' \in 0..(RequiredHits - 1) /\ since' \in 0..Cooldown
    BY <2>1, HistoryAssumption DEF HitsAfter, Older, TypeOK
  <2>5. TypeOK'
    BY <1>0, <2>1, <2>3, <2>4 DEF TypeOK
  <2>6. ASSUME NEW i \in 0..(valid' - 1)
        PROVE  ring'[(head' + i) % n] \in asks' /\ SizeOf[ring'[(head' + i) % n]] = size
    <3>1. \A j \in 0..(valid - 1) : /\ ring[(head + j) % n] \in asks
                                    /\ SizeOf[ring[(head + j) % n]] = size
      BY <1>0, <1>1, <2>1 DEF RingIsReal
    <3>2. CASE i = valid' - 1
      BY <2>1, <2>3, <3>2
    <3>3. CASE i # valid' - 1 /\ valid < n
      <4>1. /\ valid' = valid + 1
            /\ \A j \in 0..(valid' - 2) : ring'[(head' + j) % n] = ring[(head + j) % n]
        BY <1>0, <1>4, <2>1, <2>2, <3>3, FollowsRing
      <4>2. i \in 0..(valid' - 2) /\ i \in 0..(valid - 1)
        BY <2>2, <2>6, <3>3, <4>1
      <4> QED  BY <2>1, <3>1, <4>1, <4>2
    <3>4. CASE i # valid' - 1 /\ valid = n
      <4>1. /\ valid' = valid
            /\ \A j \in 0..(valid' - 2) :
                 ring'[(head' + j) % n] = ring[(head + (j + 1)) % n]
        BY <1>0, <1>4, <2>1, <2>2, <3>4, FollowsRing
      <4>2. i \in 0..(valid' - 2) /\ i + 1 \in 0..(valid - 1)
        BY <2>2, <2>6, <3>4, <4>1
      <4> QED  BY <2>1, <3>1, <4>1, <4>2
    <3> QED  BY <1>0, <2>2, <3>2, <3>3, <3>4
  <2>7. RingIsReal'
    <3>1. \A i \in 0..(valid' - 1) : /\ ring'[(head' + i) % n] \in asks'
                                     /\ SizeOf[ring'[(head' + i) % n]] = size'
      BY <2>1, <2>6
    <3>2. size' # 0 /\ valid' > 0
      BY <1>0, <2>1, <2>3
    <3> QED  BY <1>0, <3>1, <3>2 DEF RingIsReal, Wrapped
  <2>8. ring'[Wrapped(head + (valid - 1))'] = f /\ Latest' = Wrapped(head + (valid - 1))'
    BY <1>0, <1>1, <2>3 DEF Latest, Wrapped
  <2>9. NamedIsLatest'
    BY <1>0, <2>1, <2>8 DEF NamedIsLatest, Identified
  <2> QED  BY <1>0, <2>1, <2>5, <2>7, <2>8, <2>9
<1> QED  BY <1>2, <1>3, <1>4 DEF Run

\* The window's places are within the slots in use, the reference place is
\* the last of them.
LEMMA PlaceInUse ==
    ASSUME NEW n \in Nat \ {0}, NEW v \in 1..n, NEW r \in 0..(n - 1)
    PROVE  /\ \A t \in 0..(n - 1) : Clamped((v - 1) + (t - r), v - 1) \in 0..(v - 1)
           /\ Clamped((v - 1) + (r - r), v - 1) = v - 1
  BY DEF Clamped

\* The window of a request is taken from the slots in use, the one at the
\* reference place from the last of them.
LEMMA WindowAfterRun ==
    ASSUME TypeOK, NEW f \in Frames, Run(f), valid' \in 1..capacity
    PROVE  /\ \A t \in 0..(capacity - 1) :
                \E i \in 0..(valid' - 1) : window'[t] = ring'[(head' + i) % capacity]
           /\ window'[model.ref] = ring'[(head' + (valid' - 1)) % capacity]
<1> DEFINE n == capacity
           At(t) == Clamped((valid' - 1) + (t - model.ref), valid' - 1)
<1>0. n \in Nat \ {0} /\ model.ref \in 0..(n - 1) /\ n' = n /\ model' = model
  BY CapacityFacts DEF Run, CopiesWindow, capacity
<1>1. \A t \in 0..(n - 1) : At(t) \in 0..(valid' - 1)
  BY <1>0, PlaceInUse
<1>2. At(model.ref) = valid' - 1
  BY <1>0, PlaceInUse
<1>3. window' = [t \in 0..(n - 1) |-> ring'[(head' + At(t)) % n]]
  BY <1>0 DEF Run, CopiesWindow, Wrapped
<1> HIDE DEF At
<1>4. \A t \in 0..(n - 1) : window'[t] = ring'[(head' + At(t)) % n]
  BY <1>3
<1> QED  BY <1>0, <1>1, <1>2, <1>4

\* A request preserves the invariant.
LEMMA RunStep ==
    ASSUME IInv, NEW f \in Frames, Run(f)
    PROVE  IInv'
<1> DEFINE n == capacity
<1>1. /\ TypeOK' /\ RingIsReal' /\ NamedIsLatest'
      /\ size' = SizeOf[f] /\ size' # 0 /\ f \in asks'
      /\ Identified(asks') => ring'[Wrapped(head + (valid - 1))'] = f
  BY RingAfterRun DEF IInv
<1>2. n \in Nat \ {0} /\ n' = n /\ model' = model
  BY CapacityFacts DEF IInv, Run, CopiesWindow, capacity
<1>3. valid' \in 1..n
  <2>1. valid' \in 0..n  BY <1>1, <1>2 DEF TypeOK
  <2>2. valid' > 0  BY <1>1 DEF RingIsReal
  <2> QED  BY <1>2, <2>1, <2>2
<1>4. /\ \A t \in 0..(n - 1) :
           \E i \in 0..(valid' - 1) : window'[t] = ring'[(head' + i) % n]
      /\ window'[model.ref] = ring'[(head' + (valid' - 1)) % n]
  BY <1>3, WindowAfterRun DEF IInv
<1>5. \A i \in 0..(valid' - 1) : /\ ring'[(head' + i) % n] \in asks'
                                 /\ SizeOf[ring'[(head' + i) % n]] = size'
  BY <1>1, <1>2 DEF RingIsReal, Wrapped
<1>6. \A t \in 0..(n - 1) : window'[t] \in asks' /\ SizeOf[window'[t]] = size'
  BY <1>4, <1>5
<1>7. WindowIsReal'
  BY <1>2, <1>6 DEF WindowIsReal
<1>8. ring'[Wrapped(head + (valid - 1))'] = ring'[(head' + (valid' - 1)) % n]
  BY <1>2 DEF Wrapped
<1>9. asked' = f  BY DEF Run, CopiesWindow
<1>10. ShowsRequest'
  BY <1>1, <1>2, <1>4, <1>8, <1>9 DEF ShowsRequest
<1> QED  BY <1>1, <1>7, <1>10 DEF IInv

\* The invariant holds at first and after every step.
THEOREM Invariance == Spec => []IInv
<1>1. Init => IInv
  <2> SUFFICES ASSUME Init PROVE IInv  OBVIOUS
  <2>1. capacity \in Nat \ {0}
    BY HistoryAssumption DEF Init, capacity
  <2>2. TypeOK
    BY <2>1, HistoryAssumption DEF Init, TypeOK, NoRing
  <2> QED  BY <2>2 DEF Init, IInv, RingIsReal, NamedIsLatest, WindowIsReal,
                ShowsRequest
<1>2. IInv /\ [Next]_vars => IInv'
  <2> SUFFICES ASSUME IInv, [Next]_vars PROVE IInv'  OBVIOUS
  <2>1. ASSUME NEW m \in Models, SelectModel(m) PROVE IInv'
    <3>1. capacity' \in Nat \ {0}
      BY <2>1, HistoryAssumption DEF SelectModel, capacity
    <3>2. TypeOK'
      <4>1. session' \in BOOLEAN /\ model' \in Models /\ asks' = {} /\ asked' = asked
        BY <2>1 DEF SelectModel, Resets
      <4>2. /\ valid' = 0 /\ head' = 0 /\ size' = 0 /\ ring' = NoRing
            /\ named' = 0 /\ hits' = 0 /\ since' = 0
        BY <2>1 DEF SelectModel, Resets
      <4>3. valid' \in 0..capacity' /\ head' \in 0..(capacity' - 1)
        <5>1. \A k \in Nat \ {0} : 0 \in 0..k /\ 0 \in 0..(k - 1)  OBVIOUS
        <5> QED  BY <3>1, <4>2, <5>1
      <4>4. hits' \in 0..(RequiredHits - 1) /\ since' \in 0..Cooldown
        BY <4>2, HistoryAssumption
      <4>5. asked' \in Frames \cup {Blank}  BY <4>1 DEF IInv, TypeOK
      <4> QED  BY <4>1, <4>2, <4>3, <4>4, <4>5 DEF TypeOK
    <3> QED  BY <2>1, <3>2 DEF SelectModel, Resets, IInv, RingIsReal, NamedIsLatest, WindowIsReal,
                ShowsRequest
  <2>2. ASSUME NEW lost \in BOOLEAN, SelectModelFails(lost) PROVE IInv'
    <3>1. session' \in BOOLEAN /\ UNCHANGED <<model, history, window, asked, asks>>
      BY <2>2 DEF SelectModelFails
    <3> QED  BY <3>1 DEF IInv, TypeOK, RingIsReal, NamedIsLatest, WindowIsReal,
                ShowsRequest,
                         history, capacity, Wrapped, Latest
  <2>3. ASSUME NEW f \in Frames, Run(f) PROVE IInv'
    BY <2>3, RunStep
  <2>4. CASE UNCHANGED vars
    BY <2>4 DEF IInv, TypeOK, RingIsReal, NamedIsLatest, WindowIsReal,
                ShowsRequest,
                vars, capacity, Wrapped, Latest
  <2> QED  BY <2>1, <2>2, <2>3, <2>4 DEF Next
<1> QED  BY <1>1, <1>2, PTL DEF Spec

\* The types, and windows of frames of one size, in every behaviour.
THEOREM Windows == Spec => [](TypeOK /\ WindowIsReal)
  BY Invariance, PTL DEF IInv

\* A request shows its frame at the reference place.
THEOREM RequestShown == Spec => []ShowsRequest
  BY Invariance, PTL DEF IInv

-----------------------------------------------------------------------------
(* The refinement. *)

\* The scene is a list of frames with one for every slot in use.
LEMMA SceneIsList ==
    ASSUME IInv
    PROVE  /\ valid \in Nat /\ Scene \in Seq(Frames) /\ Len(Scene) = valid
           /\ DOMAIN Scene = 1..valid
           /\ \A i \in 1..valid : Scene[i] = ring[(head + (i - 1)) % capacity]
<1>1. valid \in Nat  BY CapacityFacts DEF IInv, TypeOK
<1>2. \A i \in 1..valid : ring[Wrapped(head + (i - 1))] \in Frames
  <2> TAKE i \in 1..valid
  <2>1. i - 1 \in 0..(valid - 1) /\ size # 0
    BY <1>1 DEF IInv, RingIsReal
  <2> QED  BY <2>1 DEF IInv, RingIsReal, TypeOK
<1>3. Scene \in [1..valid -> Frames]  BY <1>2 DEF Scene
<1> QED  BY <1>1, <1>3 DEF Scene, Wrapped

\* A list with one more element, as a function.
LEMMA AppendAsFunction ==
    ASSUME NEW S, NEW list \in Seq(S), NEW e \in S, NEW n \in Nat, Len(list) = n
    PROVE  Append(list, e) = [i \in 1..(n + 1) |-> IF i = n + 1 THEN e ELSE list[i]]
<1>1. /\ Append(list, e) \in Seq(S) /\ Len(Append(list, e)) = n + 1
      /\ \A i \in 1..n : Append(list, e)[i] = list[i]
      /\ Append(list, e)[n + 1] = e
  BY AppendProperties
<1>2. Append(list, e) = [i \in 1..(n + 1) |-> Append(list, e)[i]]
  BY <1>1, LenProperties
<1>3. \A i \in 1..(n + 1) : Append(list, e)[i] = IF i = n + 1 THEN e ELSE list[i]
  BY <1>1
<1> QED  BY <1>2, <1>3

\* The list after a frame that follows the others.
LEMMA SceneSlides ==
    ASSUME IInv, IInv', NEW f \in Frames, NEW differs \in BOOLEAN,
           Follows(f, differs), model' = model
    PROVE  Scene' = Abstract!Slide(Scene, f, capacity)
<1> DEFINE n == capacity
<1>0. /\ n \in Nat \ {0} /\ n' = n /\ size # 0
      /\ valid \in 1..n /\ f \in Frames /\ TypeOK
  <2>1. size # 0 /\ TypeOK  BY HistoryAssumption DEF Follows, IInv
  <2>2. n \in Nat \ {0} /\ n' = n  BY <2>1, CapacityFacts DEF capacity
  <2>3. valid > 0  BY <2>1 DEF IInv, RingIsReal
  <2>4. valid \in 0..n  BY <2>1 DEF TypeOK
  <2> QED  BY <2>1, <2>2, <2>3, <2>4
<1>1. /\ Scene \in Seq(Frames) /\ Len(Scene) = valid
      /\ \A i \in 1..valid : Scene[i] = ring[(head + (i - 1)) % n]
  BY SceneIsList
<1>2. Scene' = [i \in 1..valid' |-> ring'[(head' + (i - 1)) % n]]
  BY <1>0 DEF Scene, Wrapped
<1>3. valid' \in 1..n /\ ring'[(head' + (valid' - 1)) % n] = f
  BY <1>0, FollowsRing
<1>4. CASE valid < n
  <2>1. /\ valid' = valid + 1
        /\ \A i \in 0..(valid' - 2) : ring'[(head' + i) % n] = ring[(head + i) % n]
    BY <1>0, <1>4, FollowsRing
  <2>2. ASSUME NEW i \in 1..valid
        PROVE  ring'[(head' + (i - 1)) % n] = Scene[i]
    <3>1. i - 1 \in 0..(valid' - 2)  BY <1>0, <2>1
    <3> QED  BY <1>1, <2>1, <3>1
  <2>3. ring'[(head' + ((valid + 1) - 1)) % n] = f
    BY <1>3, <2>1
  <2>4. Append(Scene, f) = [i \in 1..(valid + 1) |-> IF i = valid + 1 THEN f ELSE Scene[i]]
    BY <1>0, <1>1, AppendAsFunction
  <2>5. \A i \in 1..(valid + 1) :
          ring'[(head' + (i - 1)) % n] = IF i = valid + 1 THEN f ELSE Scene[i]
    <3> TAKE i \in 1..(valid + 1)
    <3>1. CASE i = valid + 1  BY <2>3, <3>1
    <3>2. CASE i # valid + 1
      <4>1. i \in 1..valid  BY <1>0, <3>2
      <4> QED  BY <2>2, <3>2, <4>1
    <3> QED  BY <3>1, <3>2
  <2>6. Scene' = Append(Scene, f)
    BY <1>2, <2>1, <2>4, <2>5
  <2> QED  BY <1>1, <1>4, <2>6 DEF Abstract!Slide
<1>5. CASE valid = n
  <2>1. /\ valid' = valid
        /\ \A i \in 0..(valid' - 2) : ring'[(head' + i) % n] = ring[(head + (i + 1)) % n]
    BY <1>0, <1>5, FollowsRing
  <2>2. ASSUME NEW i \in 1..(valid - 1)
        PROVE  ring'[(head' + (i - 1)) % n] = Scene[i + 1]
    <3>1. i - 1 \in 0..(valid' - 2) /\ i + 1 \in 1..valid  BY <1>0, <2>1
    <3>2. ring'[(head' + (i - 1)) % n] = ring[(head + ((i - 1) + 1)) % n]
      BY <2>1, <3>1
    <3>3. Scene[i + 1] = ring[(head + ((i + 1) - 1)) % n]
      BY <1>1, <3>1
    <3>4. (i - 1) + 1 = (i + 1) - 1  OBVIOUS
    <3> QED  BY <3>2, <3>3, <3>4
  <2>3. Scene # <<>>  BY <1>0, <1>1
  <2>4. /\ Tail(Scene) \in Seq(Frames) /\ Len(Tail(Scene)) = valid - 1
        /\ \A i \in 1..(valid - 1) : Tail(Scene)[i] = Scene[i + 1]
    BY <1>0, <1>1, <2>3
  <2>5. Append(Tail(Scene), f)
          = [i \in 1..valid |-> IF i = valid THEN f ELSE Tail(Scene)[i]]
    <3>2. Append(Tail(Scene), f)
            = [i \in 1..((valid - 1) + 1) |->
                 IF i = (valid - 1) + 1 THEN f ELSE Tail(Scene)[i]]
      <4>1. PICK k \in Nat : k = valid - 1  BY <1>0
      <4>2. PICK rest : rest = Tail(Scene)  OBVIOUS
      <4>3. rest \in Seq(Frames) /\ Len(rest) = k  BY <2>4, <4>1, <4>2
      <4>4. Append(rest, f) = [i \in 1..(k + 1) |-> IF i = k + 1 THEN f ELSE rest[i]]
        BY <4>3, AppendAsFunction
      <4> QED  BY <4>1, <4>2, <4>4
    <3>3. (valid - 1) + 1 = valid  BY <1>0
    <3> QED  BY <3>2, <3>3
  <2>6. \A i \in 1..valid :
          ring'[(head' + (i - 1)) % n] = IF i = valid THEN f ELSE Tail(Scene)[i]
    <3> TAKE i \in 1..valid
    <3>1. CASE i = valid  BY <1>3, <2>1, <3>1
    <3>2. CASE i # valid
      <4>1. i \in 1..(valid - 1)  BY <1>0, <3>2
      <4> QED  BY <2>2, <2>4, <3>2, <4>1
    <3> QED  BY <3>1, <3>2
  <2>7. Scene' = Append(Tail(Scene), f)
    BY <1>2, <2>1, <2>5, <2>6
  <2>8. ~(Len(Scene) < n)  BY <1>0, <1>1, <1>5
  <2> QED  BY <2>7, <2>8 DEF Abstract!Slide
<1> QED  BY <1>0, <1>4, <1>5

\* The nearest place of a list is the one the ring is asked for.
LEMMA NearestPlace ==
    ASSUME NEW v \in Nat \ {0}, NEW x \in Int
    PROVE  /\ Abstract!Nearest(x, v) \in 1..v
           /\ Clamped(x - 1, v - 1) = Abstract!Nearest(x, v) - 1
<1>1. CASE x < 1  BY <1>1 DEF Clamped, Abstract!Nearest
<1>2. CASE x \in 1..v  BY <1>2 DEF Clamped, Abstract!Nearest
<1>3. CASE x > v  BY <1>3 DEF Clamped, Abstract!Nearest
<1> QED  BY <1>1, <1>2, <1>3

\* The window of a request is the abstract view of the list.
LEMMA WindowIsView ==
    ASSUME IInv, IInv', NEW f \in Frames, Run(f)
    PROVE  window' = Abstract!View(Scene', model)
<1> DEFINE n == capacity
<1>0. /\ n \in Nat \ {0} /\ n' = n /\ model' = model
      /\ model.ref \in 0..(n - 1) /\ size' # 0
  <2>1. model' = model /\ n' = n  BY DEF Run, CopiesWindow, capacity
  <2>2. n \in Nat \ {0} /\ model.ref \in 0..(n - 1)  BY CapacityFacts DEF IInv
  <2>3. size' # 0  BY RingAfterRun DEF IInv
  <2> QED  BY <2>1, <2>2, <2>3
<1>1. /\ valid' \in Nat /\ Len(Scene') = valid'
      /\ \A i \in 1..valid' : Scene'[i] = ring'[(head' + (i - 1)) % n]
  <2>1. valid' \in Nat  BY <1>0 DEF IInv, TypeOK
  <2>2. Scene' = [i \in 1..valid' |-> ring'[(head' + (i - 1)) % n]]
    BY <1>0 DEF Scene, Wrapped
  <2>3. Len(Scene') = valid'  BY <2>1, <2>2
  <2> QED  BY <2>1, <2>2, <2>3
<1>2. valid' > 0  BY <1>0 DEF IInv, RingIsReal
<1>3. \A x \in Int : /\ Abstract!Nearest(x, valid') \in 1..valid'
                     /\ Clamped(x - 1, valid' - 1) = Abstract!Nearest(x, valid') - 1
  <2>1. valid' \in Nat \ {0}  BY <1>1, <1>2
  <2> TAKE x \in Int
  <2>2. Abstract!Nearest(x, valid') \in 1..valid'
    BY <2>1, NearestPlace
  <2>3. Clamped(x - 1, valid' - 1) = Abstract!Nearest(x, valid') - 1
    BY <2>1, NearestPlace
  <2> QED  BY <2>2, <2>3
<1>4. ASSUME NEW t \in 0..(n - 1)
      PROVE  ring'[(head' + Clamped((valid' - 1) + (t - model.ref), valid' - 1)) % n]
               = Scene'[Abstract!Nearest(valid' + (t - model.ref), valid')]
  <2> DEFINE x == valid' + (t - model.ref)
  <2>1. x \in Int /\ (valid' - 1) + (t - model.ref) = x - 1
    BY <1>0, <1>1
  <2> HIDE DEF x
  <2>2. Clamped(x - 1, valid' - 1) = Abstract!Nearest(x, valid') - 1
    BY <1>3, <2>1
  <2>3. Scene'[Abstract!Nearest(x, valid')]
          = ring'[(head' + (Abstract!Nearest(x, valid') - 1)) % n]
    BY <1>1, <1>3, <2>1
  <2>4. ring'[(head' + Clamped(x - 1, valid' - 1)) % n]
          = Scene'[Abstract!Nearest(x, valid')]
    BY <2>2, <2>3
  <2> QED  BY <2>1, <2>4 DEF x
<1>5. window' = [t \in 0..(n - 1) |->
                   ring'[(head' + Clamped((valid' - 1) + (t - model.ref), valid' - 1)) % n]]
  BY <1>0 DEF Run, CopiesWindow, Wrapped
<1>6. window' = [t \in 0..(n - 1) |->
                   Scene'[Abstract!Nearest(valid' + (t - model.ref), valid')]]
  BY <1>4, <1>5
<1>7. Abstract!View(Scene', model)
        = [t \in 0..(model.frames - 1) |->
             Scene'[Abstract!Nearest(Len(Scene') + (t - model.ref), Len(Scene'))]]
  BY DEF Abstract!View
<1> QED  BY <1>1, <1>6, <1>7 DEF capacity

\* Every step of the ring is a step of the sliding window.
LEMMA StepMaps ==
    ASSUME IInv, IInv', [Next]_vars
    PROVE  [Abstract!Next]_<<model, Scene, named, window>>
<1>1. ASSUME NEW m \in Models, SelectModel(m)
      PROVE  Abstract!Select(m)
  <2>1. model' = m /\ valid' = 0 /\ named' = 0 /\ window' = window
    BY <1>1 DEF SelectModel, Resets
  <2>2. Scene' = <<>>
    BY <2>1 DEF Scene
  <2> QED  BY <2>1, <2>2 DEF Abstract!Select
<1>2. ASSUME NEW lost \in BOOLEAN, SelectModelFails(lost)
      PROVE  UNCHANGED <<model, Scene, named, window>>
  BY <1>2 DEF SelectModelFails, history, Scene, Wrapped, capacity
<1>3. ASSUME NEW f \in Frames, Run(f)
      PROVE  Abstract!Show(f)
  <2>1. model' = model /\ capacity' = capacity /\ capacity \in Nat \ {0}
    BY <1>3, CapacityFacts DEF Run, CopiesWindow, capacity, IInv
  <2>2. window' = Abstract!View(Scene', model)
    BY <1>3, WindowIsView
  <2>3. named' \in {named, HashOf[f]}
    BY <1>3 DEF Run, Starts, Reuses, Follows, Cuts, Names
  <2>4. CASE Starts(f) \/ \E differs \in BOOLEAN : Cuts(f, differs)
    <3>1. valid' = 1 /\ head' = 0 /\ ring' = [BlankRing EXCEPT ![0] = f]
      BY <2>4 DEF Starts, Cuts
    <3>2. ring'[(0 + 0) % capacity] = f
      BY <2>1, <3>1, FirstOfRing DEF BlankRing
    <3>3. Scene' = [i \in 1..1 |-> ring'[(0 + (i - 1)) % capacity]]
      BY <2>1, <3>1 DEF Scene, Wrapped
    <3>4. Scene' = <<f>>
      BY <3>2, <3>3
    <3> QED  BY <2>1, <2>2, <2>3, <3>4 DEF Abstract!Show
  <2>5. CASE Reuses(f)
    <3>1. /\ Scene' = Scene /\ HashOf[f] # 0 /\ HashOf[f] = named /\ valid > 0
      BY <2>1, <2>5 DEF Reuses, Duplicate, Scene, Wrapped
    <3>2. Scene # <<>>
      BY <3>1, SceneIsList
    <3> QED  BY <2>1, <2>2, <2>3, <3>1, <3>2 DEF Abstract!Show
  <2>6. ASSUME NEW differs \in BOOLEAN, Follows(f, differs) PROVE Abstract!Show(f)
    <3>1. Scene' = Abstract!Slide(Scene, f, model.frames)
      BY <2>1, <2>6, SceneSlides DEF capacity
    <3> QED  BY <2>1, <2>2, <2>3, <3>1 DEF Abstract!Show
  <2> QED  BY <1>3, <2>4, <2>5, <2>6 DEF Run
<1>4. CASE UNCHANGED vars
  BY <1>4 DEF vars, Scene, Wrapped, capacity
<1> QED  BY <1>1, <1>2, <1>3, <1>4 DEF Next, Abstract!Next

\* The ring implements the sliding window.
THEOREM Refinement == Spec => ImplementsSlidingWindow
<1>1. Init => Abstract!Init
  <2> SUFFICES ASSUME Init PROVE Abstract!Init  OBVIOUS
  <2>1. Scene = <<>>  BY DEF Init, Scene
  <2> QED  BY <2>1 DEF Init, Abstract!Init
<1>2. IInv /\ IInv' /\ [Next]_vars => [Abstract!Next]_(Abstract!vars)
  BY StepMaps DEF Abstract!vars
<1> QED  BY <1>1, <1>2, Invariance, PTL DEF Spec, ImplementsSlidingWindow, Abstract!Spec
=============================================================================
