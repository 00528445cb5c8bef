----------------------------- MODULE TilerProofs -----------------------------
(***************************************************************************)
(* Proofs about Tiler, for every frame, tile size and overlap.             *)
(***************************************************************************)
EXTENDS Tiler, SequenceTheorems, TLAPS

(***************************************************************************)
(* The starts of an axis while the loop builds them.                       *)
(***************************************************************************)

\* s is a row of starts of tiles of size tile: inside extent, increasing, no
\* further apart than step, and without a gap up to the end of the last tile.
Laid(s, tile, step, extent) ==
  /\ s \in Seq(Nat)
  /\ Len(s) >= 1
  /\ \A i \in 1..Len(s) : s[i] + tile <= extent
  /\ \A i, j \in 1..Len(s) : i < j => s[i] < s[j]
  /\ \A i \in 1..(Len(s) - 1) : s[i + 1] - s[i] <= step
  /\ \A x \in 0..(s[Len(s)] + tile - 1) :
       \E i \in 1..Len(s) : x \in s[i]..(s[i] + tile - 1)

LEMMA LaidFirst ==
  ASSUME NEW tile \in Nat \ {0}, NEW step \in Nat, NEW extent \in Nat, tile <= extent
  PROVE  Laid(<<0>>, tile, step, extent) /\ Last(<<0>>) = 0
<1>1. <<0>> \in Seq(Nat) /\ Len(<<0>>) = 1 /\ <<0>>[1] = 0
  OBVIOUS
<1> DEFINE s == <<0>>
<1>2. s \in Seq(Nat) /\ Len(s) = 1 /\ s[1] = 0
  BY <1>1
<1> HIDE DEF s
<1> QED BY <1>2 DEF Laid, Last, s

\* A start at most one step after the last one keeps the row laid.
LEMMA LaidAppend ==
  ASSUME NEW tile \in Nat \ {0}, NEW step \in Nat, NEW extent \in Nat, step <= tile,
         NEW s, Laid(s, tile, step, extent), NEW p \in Nat,
         Last(s) < p, p <= Last(s) + step, p + tile <= extent
  PROVE  Laid(Append(s, p), tile, step, extent) /\ Last(Append(s, p)) = p
<1>1. PICK n \in Nat : n = Len(s)
  BY LenProperties DEF Laid
<1>2. PICK q : q = Append(s, p)
  OBVIOUS
<1>3. /\ q \in Seq(Nat) /\ Len(q) = n + 1 /\ q[n + 1] = p
      /\ \A i \in 1..n : q[i] = s[i]
  BY <1>1, <1>2, AppendProperties DEF Laid
<1>4. /\ n >= 1
      /\ \A i \in 1..n : s[i] \in Nat /\ s[i] + tile <= extent
      /\ \A i, j \in 1..n : i < j => s[i] < s[j]
      /\ \A i \in 1..(n - 1) : s[i + 1] - s[i] <= step
      /\ \A x \in 0..(s[n] + tile - 1) : \E i \in 1..n : x \in s[i]..(s[i] + tile - 1)
  BY <1>1, ElementOfSeq DEF Laid
<1>5. s[n] \in Nat /\ s[n] < p /\ p <= s[n] + step
  BY <1>1, <1>4 DEF Last
<1>6. ASSUME NEW i \in 1..n
      PROVE  s[i] <= s[n]
  <2>1. n \in 1..n
    BY <1>4
  <2>2. CASE i = n
    BY <1>5, <2>2
  <2>3. CASE i < n
    BY <1>4, <2>1, <2>3
  <2> QED BY <2>2, <2>3
<1>7. \A i \in 1..(n + 1) : i \in 1..n \/ i = n + 1
  OBVIOUS
<1>8. \A i \in 1..(n + 1) : q[i] + tile <= extent
  BY <1>3, <1>4, <1>7
<1>9. ASSUME NEW i \in 1..(n + 1), NEW j \in 1..(n + 1), i < j
      PROVE  q[i] < q[j]
  <2>1. i \in 1..n
    BY <1>9
  <2>2. CASE j \in 1..n
    BY <1>3, <1>4, <1>9, <2>1, <2>2
  <2>3. CASE j = n + 1
    <3>1. q[i] = s[i] /\ q[j] = p /\ s[i] \in Nat /\ s[i] <= s[n]
      BY <1>3, <1>4, <1>6, <2>1, <2>3
    <3> QED BY <1>5, <3>1
  <2> QED BY <1>7, <2>2, <2>3
<1>10. ASSUME NEW i \in 1..n
       PROVE  q[i + 1] - q[i] <= step
  <2>1. CASE i = n
    BY <1>3, <1>5, <2>1
  <2>2. CASE i # n
    <3>1. i \in 1..(n - 1) /\ i + 1 \in 1..n
      BY <2>2
    <3> QED BY <1>3, <1>4, <3>1
  <2> QED BY <2>1, <2>2
<1>11. ASSUME NEW x \in 0..(p + tile - 1)
       PROVE  \E i \in 1..(n + 1) : x \in q[i]..(q[i] + tile - 1)
  <2>1. CASE x \in 0..(s[n] + tile - 1)
    <3>1. PICK i \in 1..n : x \in s[i]..(s[i] + tile - 1)
      BY <1>4, <2>1
    <3>2. i \in 1..(n + 1) /\ q[i] = s[i]
      BY <1>3
    <3> QED BY <3>1, <3>2
  <2>2. CASE ~(x \in 0..(s[n] + tile - 1))
    <3>1. x \in p..(p + tile - 1)
      BY <1>5, <2>2
    <3>2. n + 1 \in 1..(n + 1) /\ q[n + 1] = p
      BY <1>3
    <3> QED BY <3>1, <3>2
  <2> QED BY <2>1, <2>2
<1>12. Laid(q, tile, step, extent)
  <2>1. Len(q) >= 1 /\ Len(q) - 1 = n
    BY <1>3
  <2> QED BY <1>3, <1>8, <1>9, <1>10, <1>11, <2>1 DEF Laid
<1> QED BY <1>2, <1>3, <1>12 DEF Last

(***************************************************************************)
(* The inductive invariant: a row that has been begun is laid, the loop    *)
(* variable is one step past the last start, and an axis that has been     *)
(* left reaches the edge.                                                  *)
(***************************************************************************)
LastStart(a) == Last(starts[a])

RowLaid(a) == Laid(starts[a], ClampedTile(a), Step(a), Extent(a))

BegunRowsAreLaid ==
    \A a \in {"x", "y"} : starts[a] # <<>> => HasTiles /\ RowLaid(a)

InTheLoop ==
    pc = "loop" =>
      /\ starts[axis] # <<>>
      /\ pos = LastStart(axis) + Step(axis)
      /\ LastStart(axis) + ClampedTile(axis) < Extent(axis)

Left(a) == (a = "x" /\ axis = "y") \/ pc = "done"

LeftRowsReachTheEdge ==
    \A a \in {"x", "y"} :
      Left(a) /\ HasTiles =>
        starts[a] # <<>> /\ LastStart(a) + ClampedTile(a) = Extent(a)

TilerInv == TypeOK /\ BegunRowsAreLaid /\ InTheLoop /\ LeftRowsReachTheEdge

\* On a frame that gets tiles both numbers are positive and a step never
\* jumps over a tile.
LEMMA TileAndStep ==
  ASSUME TypeOK, HasTiles, NEW a \in {"x", "y"}
  PROVE  /\ Extent(a) \in Nat \ {0}
         /\ ClampedTile(a) \in Nat \ {0} /\ ClampedTile(a) <= Extent(a)
         /\ Step(a) \in Nat \ {0} /\ Step(a) <= ClampedTile(a)
         /\ ClampedTile(a) - Step(a) = AtMost(AtLeast(0, overlap), ClampedTile(a) - 1)
<1>1. width \in Int /\ height \in Int /\ tile_size \in Int /\ overlap \in Int
  BY TilerAssumption DEF TypeOK
<1>2. PICK e \in Int : e = Extent(a) /\ e > 0
  BY <1>1 DEF Extent, HasTiles
<1>3. PICK c \in Int : c = ClampedTile(a) /\ c >= 1 /\ c <= e
  BY <1>1, <1>2 DEF ClampedTile, AtLeast, AtMost, HasTiles
<1>4. PICK o \in Nat : o = AtLeast(0, overlap)
  BY <1>1 DEF AtLeast
<1>5. Step(a) = AtLeast(1, c - o)
  BY <1>3, <1>4 DEF Step
<1>6. Step(a) = IF c - o >= 1 THEN c - o ELSE 1
  BY <1>3, <1>4, <1>5 DEF AtLeast
<1> QED BY <1>2, <1>3, <1>4, <1>6 DEF AtMost

\* The arguments never change, nor what is computed from them.
LEMMA SameArguments ==
  ASSUME UNCHANGED arguments
  PROVE  /\ HasTiles' = HasTiles
         /\ \A a \in {"x", "y"} : /\ Extent(a)' = Extent(a)
                                  /\ ClampedTile(a)' = ClampedTile(a)
                                  /\ Step(a)' = Step(a)
<1>1. width' = width /\ height' = height /\ tile_size' = tile_size /\ overlap' = overlap
  BY DEF arguments
<1> QED BY <1>1 DEF HasTiles, Extent, ClampedTile, Step

\* A laid row put on the current axis leaves every begun row laid.
LEMMA RowIsPut ==
  ASSUME TypeOK, BegunRowsAreLaid, UNCHANGED arguments, HasTiles, NEW s,
         Laid(s, ClampedTile(axis), Step(axis), Extent(axis)),
         starts' = [starts EXCEPT ![axis] = s]
  PROVE  /\ starts' \in [{"x", "y"} -> Seq(Nat)]
         /\ starts'[axis] = s /\ s # <<>>
         /\ \A a \in {"x", "y"} : a # axis => starts'[a] = starts[a]
         /\ BegunRowsAreLaid'
<1>1. s \in Seq(Nat) /\ Len(s) >= 1
  BY DEF Laid
<1>2. s # <<>>
  BY <1>1
<1>3. starts \in [{"x", "y"} -> Seq(Nat)] /\ axis \in {"x", "y"}
  BY DEF TypeOK
<1>4. /\ starts' \in [{"x", "y"} -> Seq(Nat)]
      /\ starts'[axis] = s
      /\ \A a \in {"x", "y"} : a # axis => starts'[a] = starts[a]
  BY <1>1, <1>3
<1>5. ASSUME NEW a \in {"x", "y"}, starts'[a] # <<>>
      PROVE  (HasTiles /\ RowLaid(a))'
  <2>1. Laid(starts'[a], ClampedTile(a), Step(a), Extent(a))
    BY <1>4, <1>5 DEF BegunRowsAreLaid, RowLaid
  <2> QED BY <2>1, SameArguments DEF RowLaid
<1> QED BY <1>2, <1>4, <1>5 DEF BegunRowsAreLaid

\* The axis is left with a row that reaches the edge.
LEMMA AxisIsLeft ==
  ASSUME TypeOK, LeftRowsReachTheEdge, UNCHANGED arguments, HasTiles, NEW s, s # <<>>,
         Last(s) + ClampedTile(axis) = Extent(axis),
         starts'[axis] = s, \A a \in {"x", "y"} : a # axis => starts'[a] = starts[a],
         pc # "done", NextAxis
  PROVE  /\ axis' \in {"x", "y"} /\ pc' \in {"enter", "loop", "done"}
         /\ InTheLoop' /\ LeftRowsReachTheEdge'
<1>1. axis' = "y" /\ pc' = IF axis = "x" THEN "enter" ELSE "done"
  BY DEF NextAxis
<1>2. axis \in {"x", "y"}
  BY DEF TypeOK
<1>3. ASSUME NEW a \in {"x", "y"}, Left(a)'
      PROVE  (starts[a] # <<>> /\ LastStart(a) + ClampedTile(a) = Extent(a))'
  <2>1. CASE a = axis
    BY <2>1, SameArguments, <1>3 DEF LastStart
  <2>2. CASE a # axis
    <3>1. Left(a)
      BY <1>1, <1>2, <1>3, <2>2 DEF Left
    <3>2. starts[a] # <<>> /\ LastStart(a) + ClampedTile(a) = Extent(a)
      BY <3>1 DEF LeftRowsReachTheEdge
    <3> QED BY <2>2, <3>2, SameArguments DEF LastStart
  <2> QED BY <2>1, <2>2
<1>4. LeftRowsReachTheEdge'
  BY <1>3 DEF LeftRowsReachTheEdge
<1>5. InTheLoop'
  BY <1>1 DEF InTheLoop
<1> QED BY <1>1, <1>4, <1>5

\* The loop goes on: the row ends before the edge, the other is as it was.
LEMMA LoopGoesOn ==
  ASSUME TypeOK, LeftRowsReachTheEdge, UNCHANGED arguments, HasTiles, NEW s, s # <<>>,
         Last(s) + ClampedTile(axis) < Extent(axis), Last(s) \in Nat,
         starts'[axis] = s, \A a \in {"x", "y"} : a # axis => starts'[a] = starts[a],
         pc # "done", axis' = axis, pc' = "loop", pos' = Last(s) + Step(axis)
  PROVE  pos' \in Nat /\ InTheLoop' /\ LeftRowsReachTheEdge'
<1>1. axis \in {"x", "y"}
  BY DEF TypeOK
<1>2. pos' \in Nat
  <2>1. Step(axis) \in Nat
    BY <1>1, TileAndStep
  <2>2. \A l, d \in Nat : l + d \in Nat
    OBVIOUS
  <2> QED BY <2>1, <2>2
<1>3. InTheLoop'
  BY <1>1, SameArguments DEF InTheLoop, LastStart
<1>4. ASSUME NEW a \in {"x", "y"}, Left(a)'
      PROVE  (starts[a] # <<>> /\ LastStart(a) + ClampedTile(a) = Extent(a))'
  <2>1. Left(a) /\ a # axis
    BY <1>4 DEF Left
  <2>2. starts[a] # <<>> /\ LastStart(a) + ClampedTile(a) = Extent(a)
    BY <2>1 DEF LeftRowsReachTheEdge
  <2> QED BY <2>1, <2>2, SameArguments DEF LastStart
<1> QED BY <1>2, <1>3, <1>4 DEF LeftRowsReachTheEdge

LEMMA TilerInvStep == TilerInv /\ [Next]_vars => TilerInv'
<1> SUFFICES ASSUME TilerInv, [Next]_vars PROVE TilerInv'
  OBVIOUS
<1>1. TypeOK /\ BegunRowsAreLaid /\ InTheLoop /\ LeftRowsReachTheEdge
  BY DEF TilerInv
<1>2. axis \in {"x", "y"} /\ pos \in Nat /\ starts \in [{"x", "y"} -> Seq(Nat)]
  BY <1>1 DEF TypeOK
<1>3. UNCHANGED arguments =>
        width' \in Extents /\ height' \in Extents /\ tile_size' \in TileSizes /\ overlap' \in Overlaps
  BY <1>1 DEF TypeOK, arguments
<1>4. CASE NoTiles
  <2>1. UNCHANGED <<arguments, starts, pos, axis>> /\ pc = "enter" /\ pc' = "done"
    BY <1>4 DEF NoTiles
  <2>2. ~HasTiles
    BY <1>1, <1>4, TilerAssumption DEF NoTiles, HasTiles, TypeOK
  <2>3. TypeOK'
    BY <1>1, <1>3, <2>1 DEF TypeOK
  <2>4. BegunRowsAreLaid' /\ InTheLoop' /\ LeftRowsReachTheEdge'
    BY <1>1, <2>1, <2>2, SameArguments
      DEF BegunRowsAreLaid, RowLaid, InTheLoop, LeftRowsReachTheEdge
  <2> QED BY <2>3, <2>4 DEF TilerInv
<1>5. CASE FirstTile
  <2>1. /\ UNCHANGED arguments /\ pc = "enter" /\ HasTiles
        /\ starts' = [starts EXCEPT ![axis] = <<0>>]
    BY <1>5 DEF FirstTile, HasTiles
  <2>2. PICK e \in Nat : e = Extent(axis)
    BY <1>1, <1>2, <2>1, TileAndStep
  <2>3. PICK c \in Nat \ {0} : c = ClampedTile(axis) /\ c <= e
    BY <1>1, <1>2, <2>1, <2>2, TileAndStep
  <2>4. PICK d \in Nat : d = Step(axis)
    BY <1>1, <1>2, <2>1, TileAndStep
  <2>5. Laid(<<0>>, ClampedTile(axis), Step(axis), Extent(axis)) /\ Last(<<0>>) = 0
    <3>1. Laid(<<0>>, c, d, e) /\ Last(<<0>>) = 0
      BY <2>3, LaidFirst
    <3> QED BY <2>2, <2>3, <2>4, <3>1
  <2>6. /\ starts' \in [{"x", "y"} -> Seq(Nat)] /\ starts'[axis] = <<0>> /\ <<0>> # <<>>
        /\ \A a \in {"x", "y"} : a # axis => starts'[a] = starts[a]
        /\ BegunRowsAreLaid'
    BY <1>1, <2>1, <2>5, RowIsPut
  <2>7. CASE Extent(axis) <= ClampedTile(axis)
    <3>1. NextAxis /\ UNCHANGED pos
      BY <1>5, <2>7 DEF FirstTile
    <3>2. Last(<<0>>) + ClampedTile(axis) = Extent(axis)
      BY <2>2, <2>3, <2>5, <2>7
    <3>3. axis' \in {"x", "y"} /\ pc' \in {"enter", "loop", "done"} /\ InTheLoop' /\ LeftRowsReachTheEdge'
      BY <1>1, <2>1, <2>6, <3>1, <3>2, AxisIsLeft
    <3>4. TypeOK'
      BY <1>2, <1>3, <2>1, <2>6, <3>1, <3>3 DEF TypeOK
    <3> QED BY <2>6, <3>3, <3>4 DEF TilerInv
  <2>8. CASE ~(Extent(axis) <= ClampedTile(axis))
    <3>1. pos' = Step(axis) /\ pc' = "loop" /\ axis' = axis
      BY <1>5, <2>8 DEF FirstTile
    <3>2. Last(<<0>>) + ClampedTile(axis) < Extent(axis) /\ Last(<<0>>) \in Nat
      BY <2>2, <2>3, <2>5, <2>8
    <3>3. pos' = Last(<<0>>) + Step(axis)
      BY <2>4, <2>5, <3>1
    <3>4. pos' \in Nat /\ InTheLoop' /\ LeftRowsReachTheEdge'
      BY <1>1, <2>1, <2>6, <3>1, <3>2, <3>3, LoopGoesOn
    <3>5. TypeOK'
      BY <1>2, <1>3, <2>1, <2>6, <3>1, <3>4 DEF TypeOK
    <3> QED BY <2>6, <3>4, <3>5 DEF TilerInv
  <2> QED BY <2>7, <2>8
<1>6. ASSUME pc = "loop"
      PROVE  /\ HasTiles /\ RowLaid(axis) /\ starts[axis] # <<>>
             /\ pos = LastStart(axis) + Step(axis)
             /\ LastStart(axis) \in Nat /\ Extent(axis) \in Nat
             /\ ClampedTile(axis) \in Nat \ {0} /\ Step(axis) \in Nat \ {0}
             /\ Step(axis) <= ClampedTile(axis)
             /\ LastStart(axis) + ClampedTile(axis) < Extent(axis)
  <2>1. /\ starts[axis] # <<>> /\ pos = LastStart(axis) + Step(axis)
        /\ LastStart(axis) + ClampedTile(axis) < Extent(axis)
    BY <1>1, <1>6 DEF InTheLoop
  <2>2. HasTiles /\ RowLaid(axis)
    BY <1>1, <1>2, <2>1 DEF BegunRowsAreLaid
  <2>3. LastStart(axis) \in Nat
    BY <2>2, ElementOfSeq, LenProperties DEF RowLaid, Laid, LastStart, Last
  <2> QED BY <1>1, <1>2, <2>1, <2>2, <2>3, TileAndStep
<1>7. CASE NextTile
  <2>1. /\ UNCHANGED <<arguments, axis, pc>> /\ pc = "loop"
        /\ starts' = [starts EXCEPT ![axis] = Append(starts[axis], pos)]
        /\ pos' = pos + Step(axis)
        /\ pos + ClampedTile(axis) < Extent(axis)
    BY <1>7 DEF NextTile, FitsBeforeEdge
  <2> DEFINE s == Append(starts[axis], pos)
  <2>2. Laid(s, ClampedTile(axis), Step(axis), Extent(axis)) /\ Last(s) = pos
    <3>1. Last(starts[axis]) < pos /\ pos <= Last(starts[axis]) + Step(axis)
      BY <1>6, <2>1 DEF LastStart
    <3>2. pos + ClampedTile(axis) <= Extent(axis)
      BY <1>2, <1>6, <2>1
    <3>3. /\ ClampedTile(axis) \in Nat \ {0} /\ Step(axis) \in Nat /\ Extent(axis) \in Nat
          /\ Step(axis) <= ClampedTile(axis)
          /\ Laid(starts[axis], ClampedTile(axis), Step(axis), Extent(axis))
      BY <1>6, <2>1 DEF RowLaid
    <3> QED BY ONLY <1>2, <3>1, <3>2, <3>3, LaidAppend
  <2>3. /\ starts' \in [{"x", "y"} -> Seq(Nat)] /\ starts'[axis] = s /\ s # <<>>
        /\ \A a \in {"x", "y"} : a # axis => starts'[a] = starts[a]
        /\ BegunRowsAreLaid'
    BY <1>1, <1>6, <2>1, <2>2, RowIsPut
  <2>4. Last(s) + ClampedTile(axis) < Extent(axis) /\ Last(s) \in Nat /\ pos' = Last(s) + Step(axis)
    BY <1>2, <2>1, <2>2
  <2> HIDE DEF s
  <2>5. pos' \in Nat /\ InTheLoop' /\ LeftRowsReachTheEdge'
    BY <1>1, <1>6, <2>1, <2>3, <2>4, LoopGoesOn
  <2>6. TypeOK'
    BY <1>1, <1>2, <1>3, <2>1, <2>3, <2>5 DEF TypeOK
  <2> QED BY <2>3, <2>5, <2>6 DEF TilerInv
<1>8. CASE TailTile
  <2>1. /\ UNCHANGED <<arguments, pos>> /\ pc = "loop" /\ NextAxis
        /\ ~(pos + ClampedTile(axis) < Extent(axis))
    BY <1>8 DEF TailTile, FitsBeforeEdge
  <2>2. PICK p \in Nat : /\ p = TailStart(axis) /\ p + ClampedTile(axis) = Extent(axis)
                         /\ Last(starts[axis]) < p /\ p <= Last(starts[axis]) + Step(axis)
    <3>1. PICK e \in Nat : e = Extent(axis)
      BY <1>6, <2>1
    <3>2. PICK c \in Nat : c = ClampedTile(axis)
      BY <1>6, <2>1
    <3>3. PICK l \in Nat : l = LastStart(axis)
      BY <1>6, <2>1
    <3>4. PICK d \in Nat : d = Step(axis)
      BY <1>6, <2>1
    <3>5. pos = l + d /\ l + c < e /\ ~(pos + c < e)
      BY <1>6, <2>1, <3>1, <3>2, <3>3, <3>4
    <3>6. e - c \in Nat /\ (e - c) + c = e /\ l < e - c /\ e - c <= l + d
      BY ONLY <3>5, e \in Nat, c \in Nat, l \in Nat, d \in Nat
    <3>7. TailStart(axis) = e - c /\ Last(starts[axis]) = l
      BY <3>1, <3>2, <3>3 DEF TailStart, LastStart
    <3> QED BY <3>1, <3>2, <3>4, <3>6, <3>7
  <2> DEFINE s == Append(starts[axis], p)
  <2>3. starts' = [starts EXCEPT ![axis] = s]
    <3>1. Last(starts[axis]) # TailStart(axis)
      BY <1>6, <2>1, <2>2 DEF LastStart
    <3> QED BY <1>8, <2>2, <3>1 DEF TailTile
  <2>4. Laid(s, ClampedTile(axis), Step(axis), Extent(axis)) /\ Last(s) = p
    BY <1>6, <2>1, <2>2, LaidAppend DEF RowLaid
  <2>5. /\ starts' \in [{"x", "y"} -> Seq(Nat)] /\ starts'[axis] = s /\ s # <<>>
        /\ \A a \in {"x", "y"} : a # axis => starts'[a] = starts[a]
        /\ BegunRowsAreLaid'
    BY <1>1, <1>6, <2>1, <2>3, <2>4, RowIsPut
  <2>6. Last(s) + ClampedTile(axis) = Extent(axis)
    BY <2>2, <2>4
  <2> HIDE DEF s
  <2>7. axis' \in {"x", "y"} /\ pc' \in {"enter", "loop", "done"} /\ InTheLoop' /\ LeftRowsReachTheEdge'
    BY <1>1, <1>6, <2>1, <2>5, <2>6, AxisIsLeft
  <2>8. TypeOK'
    BY <1>2, <1>3, <2>1, <2>5, <2>7 DEF TypeOK
  <2> QED BY <2>5, <2>7, <2>8 DEF TilerInv
<1>9. CASE UNCHANGED vars
  <2>1. UNCHANGED <<arguments, starts, pos, axis, pc>>
    BY <1>9 DEF vars, arguments
  <2>2. TypeOK'
    BY <1>1, <1>3, <2>1 DEF TypeOK
  <2>3. BegunRowsAreLaid' /\ InTheLoop' /\ LeftRowsReachTheEdge'
    BY <1>1, <1>2, <2>1, SameArguments
      DEF BegunRowsAreLaid, RowLaid, InTheLoop, LeftRowsReachTheEdge, Left, LastStart
  <2> QED BY <2>2, <2>3 DEF TilerInv
<1> QED BY <1>4, <1>5, <1>7, <1>8, <1>9 DEF Next, BuildTiles

\* The state of BuildTiles and of its loop, in every reachable state.
THEOREM TilerInvariant == Spec => []TilerInv
<1>1. Init => TilerInv
  <2> SUFFICES ASSUME Init PROVE TilerInv
    OBVIOUS
  <2>1. TypeOK
    BY DEF Init, TypeOK
  <2>2. \A a \in {"x", "y"} : starts[a] = <<>> /\ ~Left(a)
    BY DEF Init, Left
  <2> QED BY <2>1, <2>2 DEF Init, TilerInv, BegunRowsAreLaid, InTheLoop, LeftRowsReachTheEdge
<1> QED BY <1>1, TilerInvStep, PTL DEF Spec

\* The starts of the tiles are non-negative and the loop keeps its types.
THEOREM TilerTypes == Spec => []TypeOK
<1>1. TilerInv => TypeOK
  BY DEF TilerInv
<1> QED BY <1>1, TilerInvariant, PTL

\* The pixels before the end of the last tile are those of the extent.
LEMMA LastPixel ==
  ASSUME NEW p \in Int, NEW c \in Int, NEW e \in Int, p + c = e, NEW z \in 0..(e - 1)
  PROVE  z \in 0..(p + c - 1)
OBVIOUS

\* Every pixel of every frame lies in a tile, for any tile size and overlap.
THEOREM TilesCoverTheFrame == Spec => []EveryPixelIsCovered
<1>1. TilerInv => EveryPixelIsCovered
  <2> SUFFICES ASSUME TilerInv, pc = "done", HasTiles,
                      NEW x \in 0..(width - 1), NEW y \in 0..(height - 1)
               PROVE  \E i \in DOMAIN starts["x"], j \in DOMAIN starts["y"] :
                        x \in Reached("x", starts["x"][i]) /\ y \in Reached("y", starts["y"][j])
    BY DEF EveryPixelIsCovered
  <2>1. ASSUME NEW a \in {"x", "y"}, NEW z \in 0..(Extent(a) - 1)
        PROVE  \E i \in DOMAIN starts[a] : z \in Reached(a, starts[a][i])
    <3>1. starts[a] # <<>> /\ LastStart(a) + ClampedTile(a) = Extent(a)
      BY DEF TilerInv, LeftRowsReachTheEdge, Left
    <3>2. RowLaid(a)
      BY <3>1 DEF TilerInv, BegunRowsAreLaid
    <3>3. z \in 0..(starts[a][Len(starts[a])] + ClampedTile(a) - 1)
      <4>1. starts[a][Len(starts[a])] + ClampedTile(a) = Extent(a)
        BY <3>1 DEF LastStart, Last
      <4>2. starts[a] \in Seq(Nat) /\ Len(starts[a]) \in 1..Len(starts[a])
        BY <3>2, LenProperties DEF RowLaid, Laid
      <4>3. starts[a][Len(starts[a])] \in Int /\ ClampedTile(a) \in Int /\ Extent(a) \in Int
        <5>1. \A s \in Seq(Nat) : \A n \in 1..Len(s) : s[n] \in Nat
          BY ElementOfSeq
        <5>2. starts[a][Len(starts[a])] \in Nat
          BY <4>2, <5>1
        <5>3. ClampedTile(a) \in Nat /\ Extent(a) \in Nat
          BY TileAndStep DEF TilerInv
        <5> QED BY <5>2, <5>3
      <4>4. z \in 0..(starts[a][Len(starts[a])] + ClampedTile(a) - 1)
        BY <4>1, <4>3, LastPixel
      <4> QED BY <4>4
    <3>4. PICK i \in 1..Len(starts[a]) : z \in starts[a][i]..(starts[a][i] + ClampedTile(a) - 1)
      BY <3>2, <3>3 DEF RowLaid, Laid
    <3>5. i \in DOMAIN starts[a]
      BY <3>2, LenProperties DEF RowLaid, Laid
    <3> QED BY <3>4, <3>5 DEF Reached
  <2>2. x \in 0..(Extent("x") - 1) /\ y \in 0..(Extent("y") - 1)
    BY DEF Extent
  <2> QED BY <2>1, <2>2
<1> QED BY <1>1, TilerInvariant, PTL

\* No tile leaves the frame and no tile is laid twice.
THEOREM TilesStayInside == Spec => []TilesAreApartAndInside
<1>1. TilerInv => TilesAreApartAndInside
  <2> SUFFICES ASSUME TilerInv, NEW a \in {"x", "y"}, starts[a] # <<>>
               PROVE  /\ \A i \in DOMAIN starts[a] : Reached(a, starts[a][i]) \subseteq 0..(Extent(a) - 1)
                      /\ \A i, j \in DOMAIN starts[a] : i < j => starts[a][i] < starts[a][j]
    <3>1. \A a \in {"x", "y"} : starts[a] = <<>> => DOMAIN starts[a] = {}
      OBVIOUS
    <3> QED BY <3>1 DEF TilesAreApartAndInside
  <2>1. RowLaid(a) /\ HasTiles
    BY DEF TilerInv, BegunRowsAreLaid
  <2>2. DOMAIN starts[a] = 1..Len(starts[a])
    BY <2>1, LenProperties DEF RowLaid, Laid
  <2>3. ASSUME NEW i \in DOMAIN starts[a]
        PROVE  Reached(a, starts[a][i]) \subseteq 0..(Extent(a) - 1)
    <3>1. starts[a][i] \in Nat /\ starts[a][i] + ClampedTile(a) <= Extent(a)
      BY <2>1, <2>2, ElementOfSeq DEF RowLaid, Laid
    <3>2. Extent(a) \in Nat /\ ClampedTile(a) \in Nat
      BY <2>1, TileAndStep DEF TilerInv
    <3> QED BY <3>1, <3>2 DEF Reached
  <2> QED BY <2>1, <2>2, <2>3 DEF RowLaid, Laid
<1> QED BY <1>1, TilerInvariant, PTL

\* Tiles of length c that start at p and at q, at most d later.
LEMMA SharedPixels ==
  ASSUME NEW c \in Nat, NEW d \in Nat, NEW p \in Nat, NEW q \in Nat, NEW o \in Int,
         c - d = o, q - p <= d
  PROVE  p + c - q >= o
OBVIOUS

\* Neighbouring tiles share the overlap asked for, or all but one pixel.
THEOREM TilesOverlap == Spec => []NeighboursOverlap
<1>1. TilerInv => NeighboursOverlap
  <2> SUFFICES ASSUME TilerInv, NEW a \in {"x", "y"}, NEW i \in 1..(Len(starts[a]) - 1)
               PROVE  starts[a][i] + ClampedTile(a) - starts[a][i + 1]
                        >= AtMost(AtLeast(0, overlap), ClampedTile(a) - 1)
    BY DEF NeighboursOverlap
  <2>1. starts[a] \in Seq(Nat) /\ starts[a] # <<>>
    BY DEF TilerInv, TypeOK
  <2>2. RowLaid(a) /\ HasTiles
    BY <2>1 DEF TilerInv, BegunRowsAreLaid
  <2>3. /\ ClampedTile(a) \in Nat /\ Step(a) \in Nat
        /\ ClampedTile(a) - Step(a) = AtMost(AtLeast(0, overlap), ClampedTile(a) - 1)
    BY <2>2, TileAndStep DEF TilerInv
  <2>4. starts[a][i + 1] - starts[a][i] <= Step(a)
    BY <2>2 DEF RowLaid, Laid
  <2>5. i \in 1..Len(starts[a]) /\ i + 1 \in 1..Len(starts[a])
    BY <2>1, LenProperties
  <2>6. starts[a][i] \in Nat /\ starts[a][i + 1] \in Nat
    BY <2>1, <2>5, ElementOfSeq
  <2>7. ClampedTile(a) - Step(a) \in Int
    BY <2>3
  <2> QED BY <2>3, <2>4, <2>6, <2>7, SharedPixels
<1> QED BY <1>1, TilerInvariant, PTL
=============================================================================
