------------------------ MODULE RenderPipelineProofs ------------------------
(***************************************************************************)
(* Proofs about RenderPipeline and the buffer pool in it, for any number   *)
(* of threads, buffers, requests, frames, models and states.               *)
(***************************************************************************)
EXTENDS RenderPipeline, SequenceTheorems, WellFoundedInduction, TLAPS

-----------------------------------------------------------------------------
(* Lists, as the pool has them.                                            *)

\* Taking the element at place i out of a list.
LEMMA WithoutPlace ==
  ASSUME NEW S, NEW list \in Seq(S), NEW i \in 1..Len(list)
  PROVE  /\ Pool!RemoveAt(list, i) \in Seq(S)
         /\ Len(Pool!RemoveAt(list, i)) = Len(list) - 1
         /\ \A j \in 1..(Len(list) - 1) :
              Pool!RemoveAt(list, i)[j] = IF j < i THEN list[j] ELSE list[j + 1]
<1> DEFINE front == SubSeq(list, 1, i - 1)
           back  == SubSeq(list, i + 1, Len(list))
<1>1. Len(list) \in Nat /\ \A j \in 1..Len(list) : list[j] \in S
  BY LenProperties, ElementOfSeq
<1>2. /\ front \in Seq(S)
      /\ Len(front) = IF 1 <= i - 1 THEN (i - 1) - 1 + 1 ELSE 0
      /\ \A j \in 1..((i - 1) - 1 + 1) : front[j] = list[1 + j - 1]
  <2>1. 1 \in Int /\ i - 1 \in Int /\ \A j \in 1..(i - 1) : list[j] \in S
    BY <1>1
  <2> QED BY ONLY <2>1, SubSeqProperties
<1>3. /\ back \in Seq(S)
      /\ Len(back) = IF i + 1 <= Len(list) THEN Len(list) - (i + 1) + 1 ELSE 0
      /\ \A j \in 1..(Len(list) - (i + 1) + 1) : back[j] = list[i + 1 + j - 1]
  <2>1. i + 1 \in Int /\ Len(list) \in Int /\ \A j \in (i + 1)..Len(list) : list[j] \in S
    BY <1>1
  <2> QED BY ONLY <2>1, SubSeqProperties
<1> HIDE DEF front, back
<1>4. Len(front) = i - 1 /\ Len(back) = Len(list) - i
  <2>1. i \in Nat /\ 1 <= i /\ i <= Len(list) /\ Len(list) \in Nat
    BY <1>1
  <2>2. Len(front) = IF 1 <= i - 1 THEN (i - 1) - 1 + 1 ELSE 0
    BY <1>2
  <2>3. Len(back) = IF i + 1 <= Len(list) THEN Len(list) - (i + 1) + 1 ELSE 0
    BY <1>3
  <2> QED BY <2>1, <2>2, <2>3
<1>5. front \o back \in Seq(S) /\ Len(front \o back) = Len(list) - 1
  <2>1. front \o back \in Seq(S) /\ Len(front \o back) = Len(front) + Len(back)
    BY <1>2, <1>3, ConcatProperties
  <2> QED BY <2>1, <1>1, <1>4
<1>6. ASSUME NEW j \in 1..(Len(list) - 1)
      PROVE  (front \o back)[j] = IF j < i THEN list[j] ELSE list[j + 1]
  <2>1. \A k \in 1..(Len(front) + Len(back)) :
          (front \o back)[k] = IF k <= Len(front) THEN front[k] ELSE back[k - Len(front)]
    BY <1>2, <1>3, ConcatProperties
  <2>2. (front \o back)[j] = IF j <= i - 1 THEN front[j] ELSE back[j - (i - 1)]
    BY <2>1, <1>1, <1>4
  <2>3. CASE j < i
    <3>1. j \in 1..((i - 1) - 1 + 1) /\ 1 + j - 1 = j /\ j <= i - 1
      BY <2>3, <1>1
    <3> QED BY <2>2, <2>3, <3>1, <1>2
  <2>4. CASE ~(j < i)
    <3>1. /\ j - (i - 1) \in 1..(Len(list) - (i + 1) + 1)
          /\ i + 1 + (j - (i - 1)) - 1 = j + 1
          /\ ~(j <= i - 1)
      BY <2>4, <1>1
    <3> QED BY <2>2, <2>4, <3>1, <1>3
  <2> QED BY <2>3, <2>4
<1> QED BY <1>5, <1>6 DEF Pool!RemoveAt, front, back

\* A list without repetition loses exactly the element taken out.
LEMMA WithoutPlaceOnce ==
  ASSUME NEW S, NEW list \in Seq(S), Pool!IsInjective(list), NEW i \in 1..Len(list)
  PROVE  /\ Pool!IsInjective(Pool!RemoveAt(list, i))
         /\ Pool!ToSet(Pool!RemoveAt(list, i)) = Pool!ToSet(list) \ {list[i]}
<1> DEFINE rest == Pool!RemoveAt(list, i)
<1>1. PICK n \in Nat : n = Len(list) /\ DOMAIN list = 1..n /\ i \in 1..n
  BY LenProperties
<1>2. /\ rest \in Seq(S) /\ Len(rest) = n - 1
      /\ \A j \in 1..(n - 1) : rest[j] = IF j < i THEN list[j] ELSE list[j + 1]
  BY <1>1, WithoutPlace
<1> HIDE DEF rest
<1>3. DOMAIN rest = 1..(n - 1)
  BY <1>1, <1>2, LenProperties
<1>4. ASSUME NEW j \in 1..(n - 1)
      PROVE  \E k \in (1..n) \ {i} : k = (IF j < i THEN j ELSE j + 1) /\ rest[j] = list[k]
  <2>1. CASE j < i
    BY <1>1, <1>2, <2>1
  <2>2. CASE ~(j < i)
    <3>1. j + 1 \in (1..n) \ {i}
      BY <1>1, <2>2
    <3> QED BY <1>2, <2>2, <3>1
  <2> QED BY <2>1, <2>2
<1>5. \A a, b \in 1..n : list[a] = list[b] => a = b
  BY <1>1 DEF Pool!IsInjective
<1>6. ASSUME NEW a \in 1..(n - 1), NEW b \in 1..(n - 1), rest[a] = rest[b]
      PROVE  a = b
  <2>1. PICK k \in 1..n : k = (IF a < i THEN a ELSE a + 1) /\ rest[a] = list[k]
    BY <1>4
  <2>2. PICK l \in 1..n : l = (IF b < i THEN b ELSE b + 1) /\ rest[b] = list[l]
    BY <1>4
  <2>3. k = l
    BY <1>5, <1>6, <2>1, <2>2
  <2> QED BY <1>1, <2>1, <2>2, <2>3
<1>7. Pool!IsInjective(rest)
  BY <1>3, <1>6 DEF Pool!IsInjective
<1>8. ASSUME NEW x
      PROVE  x \in Pool!ToSet(rest) <=> x \in Pool!ToSet(list) \ {list[i]}
  <2>1. ASSUME x \in Pool!ToSet(rest) PROVE x \in Pool!ToSet(list) \ {list[i]}
    <3>1. PICK j \in 1..(n - 1) : x = rest[j]
      BY <2>1, <1>3 DEF Pool!ToSet
    <3>2. PICK k \in (1..n) \ {i} : x = list[k]
      BY <1>4, <3>1
    <3> QED BY <1>1, <1>5, <3>2 DEF Pool!ToSet
  <2>2. ASSUME x \in Pool!ToSet(list) \ {list[i]} PROVE x \in Pool!ToSet(rest)
    <3>1. PICK k \in 1..n : x = list[k] /\ k # i
      BY <2>2, <1>1 DEF Pool!ToSet
    <3>2. CASE k < i
      <4>1. k \in 1..(n - 1) /\ rest[k] = x
        BY <1>1, <1>2, <3>1, <3>2
      <4> QED BY <1>3, <4>1 DEF Pool!ToSet
    <3>3. CASE ~(k < i)
      <4>1. k - 1 \in 1..(n - 1) /\ ~(k - 1 < i) /\ (k - 1) + 1 = k
        BY <1>1, <3>1, <3>3
      <4>2. rest[k - 1] = x
        BY <1>2, <3>1, <4>1
      <4> QED BY <1>3, <4>1, <4>2 DEF Pool!ToSet
    <3> QED BY <3>2, <3>3
  <2> QED BY <2>1, <2>2
<1> QED BY <1>7, <1>8 DEF rest

\* A list stays without repetition when it gets an element it does not have.
LEMMA AppendOnce ==
  ASSUME NEW S, NEW list \in Seq(S), Pool!IsInjective(list), NEW e \in S, e \notin Pool!ToSet(list)
  PROVE  /\ Append(list, e) \in Seq(S) /\ Len(Append(list, e)) = Len(list) + 1
         /\ Pool!IsInjective(Append(list, e))
         /\ Pool!ToSet(Append(list, e)) = Pool!ToSet(list) \cup {e}
<1>1. PICK n \in Nat : n = Len(list) /\ DOMAIN list = 1..n
  BY LenProperties
<1>2. PICK longer : longer = Append(list, e)
  OBVIOUS
<1>3. /\ longer \in Seq(S) /\ Len(longer) = n + 1 /\ longer[n + 1] = e
      /\ \A i \in 1..n : longer[i] = list[i]
  BY <1>1, <1>2, AppendProperties
<1>4. DOMAIN longer = 1..(n + 1) /\ 1..(n + 1) = (1..n) \cup {n + 1}
  BY <1>1, <1>3, LenProperties
<1>5. \A i \in 1..n : list[i] \in Pool!ToSet(list)
  BY <1>1 DEF Pool!ToSet
<1>6. \A a, b \in 1..n : list[a] = list[b] => a = b
  BY <1>1 DEF Pool!IsInjective
<1>7. Pool!IsInjective(longer)
  BY <1>3, <1>4, <1>5, <1>6 DEF Pool!IsInjective
<1>8. Pool!ToSet(longer) = Pool!ToSet(list) \cup {e}
  BY <1>1, <1>3, <1>4 DEF Pool!ToSet
<1> QED BY <1>1, <1>2, <1>3, <1>7, <1>8

\* A set of naturals that is not empty has a least element.
LEMMA LeastOf ==
  ASSUME NEW T, T \subseteq Nat, T # {}
  PROVE  \E x \in T : \A y \in T : x <= y
<1>1. IsWellFoundedOn({ss \in Nat \X Nat : ss[1] < ss[2]}, Nat)
  BY NatLessThanWellFounded DEF OpToRel
<1>2. PICK x \in T : \A y \in T : ~(<<y, x>> \in {ss \in Nat \X Nat : ss[1] < ss[2]})
  BY <1>1, WFMin
<1>3. ASSUME NEW y \in T PROVE x <= y
  <2>1. x \in Nat /\ y \in Nat /\ <<y, x>> \in Nat \X Nat
    OBVIOUS
  <2>2. ~(<<y, x>>[1] < <<y, x>>[2])
    BY <1>2, <2>1
  <2> QED BY <2>1, <2>2
<1> QED BY <1>3

-----------------------------------------------------------------------------
(* The pool.                                                               *)

PoolInv == Pool!TypeOK /\ Pool!OneOwner /\ Pool!ListWithinMax

\* When a buffer fits, Acquire takes a place of the list.
LEMMA FittingPlace ==
  ASSUME Pool!TypeOK, NEW d \in Sizes, Pool!Fitting(d) # {}
  PROVE  /\ Pool!FirstFitting(d) \in 1..Len(free_list_)
         /\ free_list_[Pool!FirstFitting(d)] \in Buffers
<1>1. free_list_ \in Seq(Buffers)
  BY DEF Pool!TypeOK
<1>2. Len(free_list_) \in Nat /\ DOMAIN free_list_ = 1..Len(free_list_)
  BY <1>1, LenProperties
<1>3. Pool!Fitting(d) \subseteq 1..Len(free_list_) /\ Pool!Fitting(d) \subseteq Nat
  BY <1>2 DEF Pool!Fitting
<1>4. \E i \in Pool!Fitting(d) : \A j \in Pool!Fitting(d) : i <= j
  BY <1>3, LeastOf
<1>5. Pool!FirstFitting(d) \in Pool!Fitting(d)
  BY <1>4 DEF Pool!FirstFitting
<1> QED BY <1>1, <1>3, <1>5, ElementOfSeq

\* A thread without a buffer takes b, which nobody holds.
LEMMA OneMoreHolder ==
  ASSUME Pool!TypeOK, Pool!OneOwner, NEW u \in Threads, NEW b \in Buffers, b \notin Pool!Held,
         holder[u] = NoBuffer, holder' = [holder EXCEPT ![u] = b]
  PROVE  /\ holder' \in [Threads -> Buffers \cup {NoBuffer}]
         /\ Pool!Held' = Pool!Held \cup {b}
         /\ \A v, w \in Threads : holder'[v] = holder'[w] /\ v # w => holder'[v] = NoBuffer
<1>1. holder \in [Threads -> Buffers \cup {NoBuffer}] /\ b # NoBuffer
  BY PipelinePoolAssumption DEF Pool!PoolAssumption, Pool!TypeOK
<1>2. \A v \in Threads : holder'[v] = IF v = u THEN b ELSE holder[v]
  BY <1>1
<1>3. \A v \in Threads : holder[v] # b
  BY <1>1 DEF Pool!Held
<1>4. \A v, w \in Threads : holder[v] = holder[w] /\ v # w => holder[v] = NoBuffer
  BY DEF Pool!OneOwner
<1>5. Pool!Held' = Pool!Held \cup {b}
  <2>1. ASSUME NEW x PROVE x \in Pool!Held' <=> x \in Pool!Held \cup {b}
    <3>1. x \in Pool!Held' <=> x # NoBuffer /\ \E v \in Threads : x = holder'[v]
      BY DEF Pool!Held
    <3>2. x \in Pool!Held <=> x # NoBuffer /\ \E v \in Threads : x = holder[v]
      BY DEF Pool!Held
    <3>3. CASE x = b
      BY <1>1, <1>2, <3>1, <3>3
    <3>4. CASE x # b
      BY <1>1, <1>2, <3>1, <3>2, <3>4
    <3> QED BY <3>3, <3>4
  <2> QED BY <2>1
<1>6. holder' \in [Threads -> Buffers \cup {NoBuffer}]
  BY <1>1
<1> QED BY <1>2, <1>3, <1>4, <1>5, <1>6

\* A thread gives its buffer back.
LEMMA OneHolderLess ==
  ASSUME Pool!TypeOK, Pool!OneOwner, NEW u \in Threads, holder[u] # NoBuffer,
         holder' = [holder EXCEPT ![u] = NoBuffer]
  PROVE  /\ holder' \in [Threads -> Buffers \cup {NoBuffer}]
         /\ holder[u] \in Buffers /\ holder[u] \in Pool!Held
         /\ Pool!Held' = Pool!Held \ {holder[u]}
         /\ \A v, w \in Threads : holder'[v] = holder'[w] /\ v # w => holder'[v] = NoBuffer
<1>1. holder \in [Threads -> Buffers \cup {NoBuffer}]
  BY DEF Pool!TypeOK
<1>2. \A v \in Threads : holder'[v] = IF v = u THEN NoBuffer ELSE holder[v]
  BY <1>1
<1>3. \A v, w \in Threads : holder[v] = holder[w] /\ v # w => holder[v] = NoBuffer
  BY DEF Pool!OneOwner
<1>4. Pool!Held' = Pool!Held \ {holder[u]}
  <2>1. ASSUME NEW x PROVE x \in Pool!Held' <=> x \in Pool!Held \ {holder[u]}
    <3>1. x \in Pool!Held' <=> x # NoBuffer /\ \E v \in Threads : x = holder'[v]
      BY DEF Pool!Held
    <3>2. x \in Pool!Held <=> x # NoBuffer /\ \E v \in Threads : x = holder[v]
      BY DEF Pool!Held
    <3>3. CASE x = holder[u]
      BY <1>2, <1>3, <3>1, <3>3
    <3>4. CASE x # holder[u]
      BY <1>2, <3>1, <3>2, <3>4
    <3> QED BY <3>3, <3>4
  <2> QED BY <2>1
<1>5. holder' \in [Threads -> Buffers \cup {NoBuffer}]
  BY <1>1
<1>6. holder[u] \in Pool!Held
  BY DEF Pool!Held
<1>7. holder[u] \in Buffers
  BY <1>1
<1> QED BY <1>2, <1>3, <1>4, <1>5, <1>6, <1>7

LEMMA InitEstablishesPoolInv ==
  ASSUME Pool!Init
  PROVE  PoolInv
<1>1. free_list_ = <<>> /\ free_list_ \in Seq(Buffers) /\ Len(free_list_) = 0
  BY EmptySeq DEF Pool!Init
<1>2. Pool!TypeOK
  BY <1>1, PipelinePoolAssumption DEF Pool!PoolAssumption, Pool!Init, Pool!TypeOK
<1>3. Pool!ToSet(free_list_) = {} /\ Pool!IsInjective(free_list_)
  BY <1>1 DEF Pool!ToSet, Pool!IsInjective
<1>4. Pool!OneOwner
  BY <1>3 DEF Pool!Init, Pool!OneOwner
<1>5. Pool!ListWithinMax
  BY <1>1, PipelinePoolAssumption DEF Pool!PoolAssumption, Pool!ListWithinMax
<1> QED BY <1>2, <1>4, <1>5 DEF PoolInv

LEMMA ReuseStep ==
  ASSUME PoolInv, NEW u \in Threads, NEW d \in Sizes, holder[u] = NoBuffer, Pool!Reuse(u, d)
  PROVE  PoolInv'
<1> DEFINE i == Pool!FirstFitting(d)
           b == free_list_[i]
<1>1. Pool!TypeOK /\ Pool!OneOwner /\ Pool!ListWithinMax
  BY DEF PoolInv
<1>2. /\ Pool!Fitting(d) # {}
      /\ holder' = [holder EXCEPT ![u] = b]
      /\ free_list_' = Pool!RemoveAt(free_list_, i)
      /\ content' = [content EXCEPT ![b] = NoFrame]
      /\ UNCHANGED desc
  BY DEF Pool!Reuse
<1>3. i \in 1..Len(free_list_) /\ b \in Buffers
  BY <1>1, <1>2, FittingPlace
<1> HIDE DEF i
<1>4. free_list_ \in Seq(Buffers) /\ Pool!IsInjective(free_list_)
  BY <1>1 DEF Pool!TypeOK, Pool!OneOwner
<1>5. /\ free_list_' \in Seq(Buffers) /\ Len(free_list_') = Len(free_list_) - 1
      /\ Pool!IsInjective(free_list_')
      /\ Pool!ToSet(free_list_') = Pool!ToSet(free_list_) \ {b}
  BY <1>2, <1>3, <1>4, WithoutPlace, WithoutPlaceOnce
<1>6. b \in Pool!ToSet(free_list_)
  BY <1>3, <1>4, LenProperties DEF Pool!ToSet
<1>7. Pool!Held \cap Pool!ToSet(free_list_) = {}
  BY <1>1 DEF Pool!OneOwner
<1> HIDE DEF b
<1>8. b \notin Pool!Held
  BY <1>6, <1>7
<1>9. /\ holder' \in [Threads -> Buffers \cup {NoBuffer}]
      /\ Pool!Held' = Pool!Held \cup {b}
      /\ \A v, w \in Threads : holder'[v] = holder'[w] /\ v # w => holder'[v] = NoBuffer
  BY <1>1, <1>2, <1>3, <1>8, OneMoreHolder
<1>10. Pool!TypeOK'
  BY <1>1, <1>2, <1>5, <1>9, PipelinePoolAssumption DEF Pool!PoolAssumption, Pool!TypeOK
<1>11. Pool!Held' \cap Pool!ToSet(free_list_') = {}
  BY <1>5, <1>7, <1>9
<1>12. Pool!OneOwner'
  BY <1>5, <1>9, <1>11 DEF Pool!OneOwner
<1>13. Pool!ListWithinMax'
  BY <1>1, <1>4, <1>5, LenProperties, PipelinePoolAssumption DEF Pool!PoolAssumption, Pool!ListWithinMax
<1> QED BY <1>10, <1>12, <1>13 DEF PoolInv

LEMMA AllocateStep ==
  ASSUME PoolInv, NEW u \in Threads, NEW d \in Sizes, holder[u] = NoBuffer, Pool!Allocate(u, d)
  PROVE  PoolInv'
<1>1. Pool!TypeOK /\ Pool!OneOwner /\ Pool!ListWithinMax
  BY DEF PoolInv
<1>2. PICK b \in Pool!Unallocated : /\ holder' = [holder EXCEPT ![u] = b]
                               /\ desc' = [desc EXCEPT ![b] = d]
                               /\ content' = [content EXCEPT ![b] = NoFrame]
  BY DEF Pool!Allocate
<1>3. UNCHANGED free_list_ /\ b \in Buffers /\ b \notin Pool!Held /\ b \notin Pool!ToSet(free_list_)
  BY <1>2 DEF Pool!Allocate, Pool!Unallocated
<1>4. /\ holder' \in [Threads -> Buffers \cup {NoBuffer}]
      /\ Pool!Held' = Pool!Held \cup {b}
      /\ \A v, w \in Threads : holder'[v] = holder'[w] /\ v # w => holder'[v] = NoBuffer
  BY <1>1, <1>2, <1>3, OneMoreHolder
<1>5. Pool!TypeOK'
  BY <1>1, <1>2, <1>3, <1>4, PipelinePoolAssumption DEF Pool!PoolAssumption, Pool!TypeOK
<1>6. Pool!OneOwner'
  BY <1>1, <1>3, <1>4 DEF Pool!OneOwner
<1>7. Pool!ListWithinMax'
  BY <1>1, <1>3 DEF Pool!ListWithinMax
<1> QED BY <1>5, <1>6, <1>7 DEF PoolInv

LEMMA ReleaseStep ==
  ASSUME PoolInv, NEW u \in Threads, Pool!Release(u)
  PROVE  PoolInv'
<1>1. Pool!TypeOK /\ Pool!OneOwner /\ Pool!ListWithinMax
  BY DEF PoolInv
<1>2. /\ holder[u] # NoBuffer /\ holder' = [holder EXCEPT ![u] = NoBuffer]
      /\ UNCHANGED <<content, desc>>
  BY DEF Pool!Release
<1>3. /\ holder' \in [Threads -> Buffers \cup {NoBuffer}]
      /\ holder[u] \in Buffers /\ holder[u] \in Pool!Held
      /\ Pool!Held' = Pool!Held \ {holder[u]}
      /\ \A v, w \in Threads : holder'[v] = holder'[w] /\ v # w => holder'[v] = NoBuffer
  BY <1>1, <1>2, OneHolderLess
<1>4. /\ free_list_ \in Seq(Buffers) /\ Pool!IsInjective(free_list_)
      /\ Pool!Held \cap Pool!ToSet(free_list_) = {} /\ Len(free_list_) \in Nat
  BY <1>1, LenProperties DEF Pool!TypeOK, Pool!OneOwner
<1>5. /\ free_list_' \in Seq(Buffers) /\ Pool!IsInjective(free_list_')
      /\ Pool!ToSet(free_list_') \subseteq Pool!ToSet(free_list_) \cup {holder[u]}
      /\ Len(free_list_') <= max_buffers_
  <2>1. CASE Len(free_list_) >= max_buffers_
    <3>1. UNCHANGED free_list_
      BY <2>1 DEF Pool!Release
    <3> QED BY <1>1, <1>4, <3>1 DEF Pool!ListWithinMax
  <2>2. CASE ~(Len(free_list_) >= max_buffers_)
    <3>1. free_list_' = Append(free_list_, holder[u]) /\ holder[u] \notin Pool!ToSet(free_list_)
      BY <1>3, <1>4, <2>2 DEF Pool!Release
    <3>2. Len(free_list_) + 1 <= max_buffers_
      BY <1>4, <2>2, PipelinePoolAssumption DEF Pool!PoolAssumption
    <3>3. /\ Append(free_list_, holder[u]) \in Seq(Buffers)
          /\ Len(Append(free_list_, holder[u])) = Len(free_list_) + 1
          /\ Pool!IsInjective(Append(free_list_, holder[u]))
          /\ Pool!ToSet(Append(free_list_, holder[u])) = Pool!ToSet(free_list_) \cup {holder[u]}
      BY <1>3, <1>4, <3>1, AppendOnce
    <3> QED BY <3>1, <3>2, <3>3
  <2> QED BY <2>1, <2>2
<1>6. Pool!TypeOK'
  BY <1>1, <1>2, <1>3, <1>5 DEF Pool!TypeOK
<1>7. Pool!Held' \cap Pool!ToSet(free_list_') = {}
  BY <1>3, <1>4, <1>5
<1>8. Pool!OneOwner' /\ Pool!ListWithinMax'
  BY <1>3, <1>5, <1>7 DEF Pool!OneOwner, Pool!ListWithinMax
<1> QED BY <1>6, <1>8 DEF PoolInv

LEMMA NextPreservesPoolInv ==
  ASSUME PoolInv, [Pool!Next]_(Pool!vars)
  PROVE  PoolInv'
<1>1. ASSUME NEW u \in Threads, NEW d \in Sizes, Pool!Acquire(u, d) PROVE PoolInv'
  BY <1>1, ReuseStep, AllocateStep DEF Pool!Acquire
<1>2. ASSUME NEW u \in Threads, NEW c \in Depths, Pool!Write(u, c) PROVE PoolInv'
  <2>1. Pool!TypeOK'
    BY <1>2 DEF PoolInv, Pool!TypeOK, Pool!Write
  <2>2. Pool!OneOwner' /\ Pool!ListWithinMax'
    BY <1>2 DEF PoolInv, Pool!OneOwner, Pool!ListWithinMax, Pool!Held, Pool!Write
  <2> QED BY <2>1, <2>2 DEF PoolInv
<1>3. ASSUME NEW u \in Threads, Pool!Release(u) PROVE PoolInv'
  BY <1>3, ReleaseStep
<1>4. CASE UNCHANGED Pool!vars
  BY <1>4 DEF PoolInv, Pool!TypeOK, Pool!OneOwner, Pool!ListWithinMax, Pool!Held, Pool!vars
<1> QED BY <1>1, <1>2, <1>3, <1>4 DEF Pool!Next

\* The pool's types, its limit and the exclusive ownership of its buffers hold
\* together in every reachable state.
THEOREM PoolInvariant == Pool!Spec => []PoolInv
<1>1. Pool!Init => PoolInv
  BY InitEstablishesPoolInv
<1>2. PoolInv /\ [Pool!Next]_(Pool!vars) => PoolInv'
  BY NextPreservesPoolInv
<1> QED BY <1>1, <1>2, PTL DEF Pool!Spec

\* The list, the buffers and the handles of the threads keep their types.
THEOREM PoolTypes == Pool!Spec => []Pool!TypeOK
<1>1. PoolInv => Pool!TypeOK
  BY DEF PoolInv
<1> QED BY <1>1, PoolInvariant, PTL

\* Acquire and Release never give one buffer to two owners, however many
\* threads render.
THEOREM PoolGivesEachBufferOnce == Pool!Spec => []Pool!OneOwner
<1>1. PoolInv => Pool!OneOwner
  BY DEF PoolInv
<1> QED BY <1>1, PoolInvariant, PTL

\* Release keeps the list within max_buffers_.
THEOREM PoolKeepsWithinMax == Pool!Spec => []Pool!ListWithinMax
<1>1. PoolInv => Pool!ListWithinMax
  BY DEF PoolInv
<1> QED BY <1>1, PoolInvariant, PTL

\* Acquire hands out cleared buffers only.
THEOREM PoolClearsBuffers == Pool!Spec => Pool!AcquiredIsClear
<1>1. PoolInv /\ [Pool!Next]_(Pool!vars) =>
        [\A u \in Threads :
           holder[u] = NoBuffer /\ holder'[u] # NoBuffer => content'[holder'[u]] = NoFrame]_(Pool!vars)
  <2> SUFFICES ASSUME PoolInv, Pool!Next, NEW u \in Threads, holder[u] = NoBuffer, holder'[u] # NoBuffer
               PROVE  content'[holder'[u]] = NoFrame
    OBVIOUS
  <2>1. Pool!TypeOK
    BY DEF PoolInv
  <2>2. ASSUME NEW v \in Threads, NEW b \in Buffers, holder' = [holder EXCEPT ![v] = b],
               content' = [content EXCEPT ![b] = NoFrame]
        PROVE  content'[holder'[u]] = NoFrame
    BY <2>1, <2>2 DEF Pool!TypeOK
  <2>3. ASSUME NEW v \in Threads, NEW d \in Sizes, Pool!Reuse(v, d)
        PROVE  content'[holder'[u]] = NoFrame
    <3>1. free_list_[Pool!FirstFitting(d)] \in Buffers
      BY <2>1, <2>3, FittingPlace DEF Pool!Reuse
    <3> QED BY <2>2, <2>3, <3>1 DEF Pool!Reuse
  <2>4. ASSUME NEW v \in Threads, NEW d \in Sizes, Pool!Allocate(v, d)
        PROVE  content'[holder'[u]] = NoFrame
    BY <2>2, <2>4 DEF Pool!Allocate, Pool!Unallocated
  <2>5. ASSUME NEW v \in Threads, NEW c \in Depths, Pool!Write(v, c) PROVE FALSE
    BY <2>5 DEF Pool!Write
  <2>6. ASSUME NEW v \in Threads, Pool!Release(v) PROVE FALSE
    BY <2>1, <2>6 DEF Pool!Release, Pool!TypeOK
  <2> QED BY <2>3, <2>4, <2>5, <2>6 DEF Pool!Next, Pool!Acquire
<1> QED BY <1>1, PoolInvariant, PTL DEF Pool!Spec, Pool!AcquiredIsClear

-----------------------------------------------------------------------------
(* What the operators of the pipeline change.                              *)

\* What a step of thread t may do to the pool.
PoolStep(t) ==
    \/ \E d \in Sizes : Pool!Acquire(t, d)
    \/ \E c \in Depths : Pool!Write(t, c)
    \/ Pool!Release(t)
    \/ UNCHANGED poolVars

\* A step of t leaves the locals of the other threads alone.
CallStep(t) ==
    /\ call' \in [Threads -> Calls]
    /\ \A u \in Threads \ {t} : call'[u] = call[u]

\* A step of t keeps the invariant of the pool, and whoever else holds a
\* buffer keeps it with its size and what is in it.
LEMMA PoolStepKeeps ==
  ASSUME PoolInv, NEW t \in Threads, PoolStep(t)
  PROVE  /\ PoolInv'
         /\ [Pool!Next]_(Pool!vars)
         /\ \A u \in Threads \ {t} :
              /\ holder'[u] = holder[u]
              /\ holder[u] # NoBuffer => /\ content'[holder[u]] = content[holder[u]]
                                         /\ desc'[holder[u]] = desc[holder[u]]
<1>1. [Pool!Next]_(Pool!vars)
  BY DEF PoolStep, Pool!Next, Pool!vars, poolVars
<1>2. PoolInv'
  BY <1>1, NextPreservesPoolInv
<1>3. Pool!TypeOK /\ Pool!OneOwner
  BY DEF PoolInv
<1>4. /\ holder \in [Threads -> Buffers \cup {NoBuffer}]
      /\ content \in [Buffers -> Depths] /\ desc \in [Buffers -> Sizes]
  BY <1>3 DEF Pool!TypeOK
<1>5. ASSUME NEW u \in Threads \ {t}
      PROVE  /\ holder'[u] = holder[u]
             /\ holder[u] # NoBuffer => /\ content'[holder[u]] = content[holder[u]]
                                        /\ desc'[holder[u]] = desc[holder[u]]
  <2>1. holder[u] # NoBuffer => holder[u] \in Pool!Held /\ holder[u] # holder[t]
    BY <1>3 DEF Pool!Held, Pool!OneOwner
  <2>2. ASSUME NEW d \in Sizes, holder[t] = NoBuffer, Pool!Reuse(t, d)
        PROVE  /\ holder'[u] = holder[u]
               /\ holder[u] # NoBuffer => /\ content'[holder[u]] = content[holder[u]]
                                          /\ desc'[holder[u]] = desc[holder[u]]
    <3> DEFINE b == free_list_[Pool!FirstFitting(d)]
    <3>1. Pool!FirstFitting(d) \in 1..Len(free_list_)
      BY <1>3, <2>2, FittingPlace DEF Pool!Reuse
    <3>2. b \in Pool!ToSet(free_list_)
      BY <1>3, <3>1, LenProperties DEF Pool!ToSet, Pool!TypeOK
    <3>3. b \notin Pool!Held
      BY <1>3, <3>2 DEF Pool!OneOwner
    <3> QED BY <1>4, <2>1, <2>2, <3>3 DEF Pool!Reuse
  <2>3. ASSUME NEW d \in Sizes, holder[t] = NoBuffer, Pool!Allocate(t, d)
        PROVE  /\ holder'[u] = holder[u]
               /\ holder[u] # NoBuffer => /\ content'[holder[u]] = content[holder[u]]
                                          /\ desc'[holder[u]] = desc[holder[u]]
    <3>1. PICK b \in Pool!Unallocated : /\ holder' = [holder EXCEPT ![t] = b]
                                        /\ desc' = [desc EXCEPT ![b] = d]
                                        /\ content' = [content EXCEPT ![b] = NoFrame]
      BY <2>3 DEF Pool!Allocate
    <3>2. b \notin Pool!Held
      BY <3>1 DEF Pool!Unallocated
    <3> QED BY <1>4, <2>1, <3>1, <3>2
  <2>4. ASSUME NEW c \in Depths, Pool!Write(t, c)
        PROVE  /\ holder'[u] = holder[u]
               /\ holder[u] # NoBuffer => /\ content'[holder[u]] = content[holder[u]]
                                          /\ desc'[holder[u]] = desc[holder[u]]
    BY <1>4, <2>1, <2>4 DEF Pool!Write
  <2>5. CASE Pool!Release(t)
    BY <1>4, <2>5 DEF Pool!Release
  <2>6. CASE UNCHANGED poolVars
    BY <2>6 DEF poolVars
  <2> QED BY <2>2, <2>3, <2>4, <2>5, <2>6 DEF PoolStep, Pool!Acquire
<1> QED BY <1>1, <1>2, <1>5

\* After Insert the cache has the new value under its key, and under other
\* keys what it had or nothing.
LEMMA InsertChanges ==
  ASSUME NEW k, NEW v, Cache!Insert(k, v)
  PROVE  \A x \in DOMAIN entries_' :
           IF x = k THEN entries_'[x] = v
                    ELSE x \in DOMAIN entries_ /\ entries_'[x] = entries_[x]
BY DEF Cache!Insert, Cache!TrimIfNeeded, Cache!Restrict

\* A new limit only takes entries away.
LEMMA LimitChanges ==
  ASSUME NEW n, Cache!SetLimit(n)
  PROVE  \A x \in DOMAIN entries_' : x \in DOMAIN entries_ /\ entries_'[x] = entries_[x]
BY DEF Cache!SetLimit, Cache!TrimIfNeeded, Cache!Restrict

\* A request with a source has a size, and the engine makes depths of it.
LEMMA RequestFacts ==
  ASSUME NEW r \in Requests, r.frame # EmptyFrame
  PROVE  /\ r.frame \in Frames /\ SizeOf[r.frame] \in Sizes
         /\ r.model \in Models /\ r.state \in States
         /\ BuildCacheKey(r) \in CacheKeys
         /\ \A m \in Models : DepthBy(m, r) \in Depths
<1>1. r.frame \in Frames /\ r.model \in Models /\ r.state \in States
  BY RequestAssumption
<1>2. SizeOf[r.frame] \in Sizes
  BY <1>1, PipelineAssumption
<1>3. ASSUME NEW m \in Models PROVE DepthBy(m, r) \in Depths
  BY <1>1 DEF DepthBy, Depths, Sources
<1>4. BuildCacheKey(r) \in CacheKeys
  BY DEF CacheKeys
<1> QED BY <1>1, <1>2, <1>3, <1>4

\* The locals of a thread that goes on to the next place.
LEMMA GotoStep ==
  ASSUME call \in [Threads -> Calls], NEW t \in Threads, NEW p \in Places, Goto(t, p)
  PROVE  /\ CallStep(t)
         /\ call'[t].pc = p /\ call'[t].req = call[t].req
         /\ call'[t].tiles = call[t].tiles
         /\ call'[t].status = call[t].status /\ call'[t].output = call[t].output
<1> DEFINE c == [call[t] EXCEPT !.pc = p]
<1>1. call[t] \in Calls
  OBVIOUS
<1>2. /\ c \in Calls
      /\ c.pc = p /\ c.req = call[t].req /\ c.tiles = call[t].tiles
      /\ c.status = call[t].status /\ c.output = call[t].output
  BY <1>1 DEF Calls
<1>3. call' = [call EXCEPT ![t] = c]
  BY DEF Goto
<1> HIDE DEF c
<1> QED BY <1>2, <1>3 DEF CallStep

\* The locals of a thread whose call returns.
LEMMA ReturnStep ==
  ASSUME call \in [Threads -> Calls], NEW t \in Threads,
         NEW status \in {"none", "safe", "hit", "inference", "tiled", "downscaled"},
         NEW output \in Depths, Return(t, status, output)
  PROVE  /\ CallStep(t)
         /\ call'[t].pc = "idle" /\ call'[t].req = call[t].req
         /\ call'[t].status = status /\ call'[t].output = output
<1> DEFINE c == [Idle EXCEPT !.req = Req(t), !.status = status, !.output = output]
<1>1. call[t].req \in Requests \cup {Nothing}
  BY DEF Calls
<1>2. NoFrame \in Depths
  BY DEF NoFrame, Depths
<1>3. /\ c \in Calls
      /\ c.pc = "idle" /\ c.req = call[t].req /\ c.status = status /\ c.output = output
  BY <1>1, <1>2 DEF Calls, Idle, Req, Places
<1>4. call' = [call EXCEPT ![t] = c]
  BY DEF Return
<1> HIDE DEF c
<1> QED BY <1>3, <1>4 DEF CallStep

\* The locals of a thread whose run of the engine has made a depth.
LEMMA DeliverStep ==
  ASSUME call \in [Threads -> Calls], NEW t \in Threads,
         NEW status \in {"inference", "downscaled"}, Deliver(t, status)
  PROVE  /\ CallStep(t)
         /\ call'[t].pc = "post" /\ call'[t].req = call[t].req
<1> DEFINE c == [call[t] EXCEPT !.pc = "post", !.status = status]
<1>1. call[t] \in Calls
  OBVIOUS
<1>2. c \in Calls /\ c.pc = "post" /\ c.req = call[t].req
  BY <1>1 DEF Calls, Places, Finishing
<1>3. call' = [call EXCEPT ![t] = c]
  BY DEF Deliver
<1> HIDE DEF c
<1> QED BY <1>2, <1>3 DEF CallStep

-----------------------------------------------------------------------------
(* Where the calls are, and what they hold.                                *)

\* A call has a request once it is made, and from Acquire to the end a buffer
\* of the size of its source.
PlaceOK(t) ==
    /\ ~At(t, "idle") => Req(t) \in Requests /\ Req(t).frame # EmptyFrame
    /\ call[t].pc \in Running \cup Finishing => holder[t] # NoBuffer
    /\ call[t].pc \in {"idle", "select", "lookup", "acquire"} => holder[t] = NoBuffer
    /\ holder[t] # NoBuffer => desc[holder[t]] = SizeOf[Req(t).frame]

PlaceInv ==
    /\ TypeOK
    /\ Pool!OneOwner
    /\ Pool!ListWithinMax
    /\ \A t \in Threads : PlaceOK(t)

\* The types of what only some of the actions change.
SharedTypes ==
    /\ selected \in Models \cup {NoModel}
    /\ produced \in Models \cup {NoModel}
    /\ \A k \in DOMAIN entries_ : entries_[k] \in Depths
    /\ frozen \in [States -> FrozenOutputs]
    /\ post \in [States -> PostStates]
    /\ purging \in BOOLEAN
    /\ renders \in Nat /\ purges \in Nat

\* What every step of a thread does: it keeps the invariant, changes no other
\* call, and does to the pool what a step may.
KeepsPlaces(t) == PlaceInv' /\ PoolStep(t) /\ CallStep(t)

\* A step of t leaves the other calls where they are.
LEMMA ThreadStep ==
  ASSUME PlaceInv, NEW t \in Threads, PoolStep(t), CallStep(t), SharedTypes', PlaceOK(t)'
  PROVE  KeepsPlaces(t)
<1>1. PoolInv /\ \A u \in Threads : PlaceOK(u)
  BY DEF PlaceInv, PoolInv, TypeOK
<1>2. /\ PoolInv'
      /\ \A u \in Threads \ {t} :
           /\ holder'[u] = holder[u]
           /\ holder[u] # NoBuffer => desc'[holder[u]] = desc[holder[u]]
  BY <1>1, PoolStepKeeps
<1>3. ASSUME NEW u \in Threads, u # t PROVE PlaceOK(u)'
  BY <1>1, <1>2, <1>3 DEF CallStep, PlaceOK, At, Req
<1>4. TypeOK'
  BY <1>2 DEF TypeOK, SharedTypes, PoolInv, CallStep
<1> QED BY <1>2, <1>3, <1>4 DEF KeepsPlaces, PlaceInv, PoolInv

LEMMA InitEstablishesPlaceInv == Init => PlaceInv
<1> SUFFICES ASSUME Init PROVE PlaceInv
  OBVIOUS
<1>1. PoolInv
  BY InitEstablishesPoolInv DEF Init
<1>2. NoFrame \in Depths
  BY DEF NoFrame, Depths
<1>3. SharedTypes
  BY <1>2, PipelineAssumption
     DEF Init, SharedTypes, Engine!Init, Cache!Init, Cache!NoEntries, FrozenOutputs, PostStates,
         NothingFrozen, FreshPost
<1>4. call \in [Threads -> Calls]
  BY <1>2 DEF Init, Calls, Idle, Places
<1>5. ASSUME NEW t \in Threads PROVE PlaceOK(t)
  <2>1. call[t].pc = "idle" /\ holder[t] = NoBuffer
    BY DEF Init, Idle, Pool!Init
  <2> QED BY <2>1 DEF PlaceOK, At, Running, Finishing
<1> QED BY <1>1, <1>3, <1>4, <1>5 DEF PlaceInv, TypeOK, SharedTypes, PoolInv

\* What the invariant says of a thread that is at work.
LEMMA AtWork ==
  ASSUME PlaceInv, NEW t \in Threads, ~At(t, "idle")
  PROVE  /\ Req(t) \in Requests /\ Req(t).frame # EmptyFrame
         /\ call \in [Threads -> Calls] /\ call[t] \in Calls
         /\ SharedTypes
         /\ holder[t] # NoBuffer => Depth(t) \in Depths
<1>1. PlaceOK(t) /\ TypeOK /\ Pool!TypeOK
  BY DEF PlaceInv, TypeOK
<1>2. holder[t] # NoBuffer => Depth(t) \in Depths
  BY <1>1 DEF Pool!TypeOK, Depth
<1> QED BY <1>1, <1>2 DEF PlaceOK, TypeOK, SharedTypes

LEMMA SelectModelStep ==
  ASSUME PlaceInv, NEW t \in Threads, SelectModel(t)
  PROVE  KeepsPlaces(t)
<1>1. ~At(t, "idle") /\ At(t, "select")
  BY DEF SelectModel, At
<1>2. /\ Req(t) \in Requests /\ Req(t).frame # EmptyFrame
      /\ call \in [Threads -> Calls] /\ SharedTypes
  BY <1>1, AtWork
<1>3. Req(t).model \in Models
  BY <1>2, RequestFacts
<1>4. PoolStep(t) /\ UNCHANGED holder
  BY DEF SelectModel, PoolStep, poolVars
<1>5. holder[t] = NoBuffer
  BY <1>1 DEF PlaceInv, PlaceOK, At
<1>6. SharedTypes'
  BY <1>2, <1>3
     DEF SelectModel, SharedTypes, Engine!Select, Engine!Reject, cacheVars, stateVars, adminVars
<1>7. CASE Goto(t, "lookup")
  <2>1. CallStep(t) /\ call'[t].pc = "lookup" /\ call'[t].req = call[t].req
    BY <1>2, <1>7, GotoStep DEF Places
  <2>2. PlaceOK(t)'
    BY <1>2, <1>4, <1>5, <2>1 DEF PlaceOK, At, Req, Running, Finishing
  <2> QED BY <1>4, <1>6, <2>1, <2>2, ThreadStep
<1>8. CASE ReturnSafe(t)
  <2>1. CallStep(t) /\ call'[t].pc = "idle"
    BY <1>2, <1>8, ReturnStep DEF ReturnSafe, NoFrame, Depths
  <2>2. PlaceOK(t)'
    BY <1>4, <1>5, <2>1 DEF PlaceOK, At, Running, Finishing
  <2> QED BY <1>4, <1>6, <2>1, <2>2, ThreadStep
<1> QED BY <1>7, <1>8 DEF SelectModel

LEMMA LookupCacheStep ==
  ASSUME PlaceInv, NEW t \in Threads, LookupCache(t)
  PROVE  KeepsPlaces(t)
<1>1. ~At(t, "idle") /\ At(t, "lookup")
  BY DEF LookupCache, At
<1>2. /\ Req(t) \in Requests /\ Req(t).frame # EmptyFrame
      /\ call \in [Threads -> Calls] /\ SharedTypes
  BY <1>1, AtWork
<1>3. PoolStep(t) /\ UNCHANGED holder
  BY DEF LookupCache, PoolStep, poolVars
<1>4. holder[t] = NoBuffer
  BY <1>1 DEF PlaceInv, PlaceOK, At
<1>5. SharedTypes'
  BY <1>2 DEF LookupCache, SharedTypes, Cache!FindHit, Cache!FindMiss, Cache!vars,
              engineVars, stateVars, adminVars
<1>6. CASE /\ Cache!FindHit(BuildCacheKey(Req(t)))
           /\ Return(t, "hit", entries_[BuildCacheKey(Req(t))])
  <2>1. entries_[BuildCacheKey(Req(t))] \in Depths
    BY <1>2, <1>6 DEF SharedTypes, Cache!FindHit
  <2>2. CallStep(t) /\ call'[t].pc = "idle"
    BY <1>2, <1>6, <2>1, ReturnStep
  <2>3. PlaceOK(t)'
    BY <1>3, <1>4, <2>2 DEF PlaceOK, At, Running, Finishing
  <2> QED BY <1>3, <1>5, <2>2, <2>3, ThreadStep
<1>7. CASE Goto(t, "acquire")
  <2>1. CallStep(t) /\ call'[t].pc = "acquire" /\ call'[t].req = call[t].req
    BY <1>2, <1>7, GotoStep DEF Places
  <2>2. PlaceOK(t)'
    BY <1>2, <1>3, <1>4, <2>1 DEF PlaceOK, At, Req, Running, Finishing
  <2> QED BY <1>3, <1>5, <2>1, <2>2, ThreadStep
<1> QED BY <1>6, <1>7 DEF LookupCache

LEMMA LookupFrozenStep ==
  ASSUME PlaceInv, NEW t \in Threads, LookupFrozen(t)
  PROVE  KeepsPlaces(t)
<1>1. ~At(t, "idle") /\ At(t, "lookup")
  BY DEF LookupFrozen, At
<1>2. /\ Req(t) \in Requests /\ Req(t).frame # EmptyFrame
      /\ call \in [Threads -> Calls] /\ SharedTypes
  BY <1>1, AtWork
<1>3. PoolStep(t) /\ UNCHANGED holder
  BY DEF LookupFrozen, PoolStep, poolVars
<1>4. holder[t] = NoBuffer
  BY <1>1 DEF PlaceInv, PlaceOK, At
<1>5. SharedTypes'
  BY <1>2 DEF LookupFrozen, SharedTypes, engineVars, cacheVars, stateVars, adminVars
<1>6. CASE Return(t, "hit", frozen[Req(t).state].output)
  <2>1. frozen[Req(t).state].output \in Depths
    BY <1>2, RequestFacts DEF SharedTypes, FrozenOutputs
  <2>2. CallStep(t) /\ call'[t].pc = "idle"
    BY <1>2, <1>6, <2>1, ReturnStep
  <2>3. PlaceOK(t)'
    BY <1>3, <1>4, <2>2 DEF PlaceOK, At, Running, Finishing
  <2> QED BY <1>3, <1>5, <2>2, <2>3, ThreadStep
<1>7. CASE Goto(t, "acquire")
  <2>1. CallStep(t) /\ call'[t].pc = "acquire" /\ call'[t].req = call[t].req
    BY <1>2, <1>7, GotoStep DEF Places
  <2>2. PlaceOK(t)'
    BY <1>2, <1>3, <1>4, <2>1 DEF PlaceOK, At, Req, Running, Finishing
  <2> QED BY <1>3, <1>5, <2>1, <2>2, ThreadStep
<1> QED BY <1>6, <1>7 DEF LookupFrozen

\* What a thread gets from Acquire.
LEMMA AcquiredBuffer ==
  ASSUME PoolInv, NEW t \in Threads, NEW d \in Sizes, Pool!Acquire(t, d)
  PROVE  /\ holder'[t] \in Buffers /\ holder'[t] # NoBuffer
         /\ desc'[holder'[t]] = d
<1>1. /\ holder \in [Threads -> Buffers \cup {NoBuffer}]
      /\ desc \in [Buffers -> Sizes] /\ NoBuffer \notin Buffers
  BY PipelinePoolAssumption DEF PoolInv, Pool!TypeOK, Pool!PoolAssumption
<1>2. CASE Pool!Reuse(t, d)
  <2>1. Pool!FirstFitting(d) \in Pool!Fitting(d)
    <3>1. free_list_ \in Seq(Buffers)
      BY DEF PoolInv, Pool!TypeOK
    <3>2. Pool!Fitting(d) \subseteq Nat
      BY <3>1, LenProperties DEF Pool!Fitting
    <3>3. \E i \in Pool!Fitting(d) : \A j \in Pool!Fitting(d) : i <= j
      BY <1>2, <3>2, LeastOf DEF Pool!Reuse
    <3> QED BY <3>3 DEF Pool!FirstFitting
  <2>2. free_list_[Pool!FirstFitting(d)] \in Buffers
    BY <1>2, FittingPlace DEF PoolInv, Pool!Reuse
  <2>3. desc[free_list_[Pool!FirstFitting(d)]] = d
    BY <2>1 DEF Pool!Fitting
  <2> QED BY <1>1, <1>2, <2>2, <2>3 DEF Pool!Reuse
<1>3. CASE Pool!Allocate(t, d)
  BY <1>1, <1>3 DEF Pool!Allocate, Pool!Unallocated
<1> QED BY <1>2, <1>3 DEF Pool!Acquire

LEMMA AcquireDepthStep ==
  ASSUME PlaceInv, NEW t \in Threads, AcquireDepth(t)
  PROVE  KeepsPlaces(t)
<1>1. ~At(t, "idle")
  BY DEF AcquireDepth, At
<1>2. /\ Req(t) \in Requests /\ Req(t).frame # EmptyFrame
      /\ call \in [Threads -> Calls] /\ SharedTypes
  BY <1>1, AtWork
<1>3. SizeOf[Req(t).frame] \in Sizes
  BY <1>2, RequestFacts
<1>4. PoolInv
  BY DEF PlaceInv, TypeOK, PoolInv
<1>5. PoolStep(t) /\ holder'[t] # NoBuffer /\ desc'[holder'[t]] = SizeOf[Req(t).frame]
  BY <1>3, <1>4, AcquiredBuffer DEF AcquireDepth, PoolStep
<1>6. SharedTypes'
  BY <1>2 DEF AcquireDepth, SharedTypes, engineVars, cacheVars, stateVars, adminVars
<1>7. CallStep(t) /\ call'[t].pc = "direct" /\ call'[t].req = call[t].req
  BY <1>2, GotoStep DEF AcquireDepth, Places, Running
<1>8. PlaceOK(t)'
  BY <1>2, <1>5, <1>7 DEF PlaceOK, At, Req
<1> QED BY <1>5, <1>6, <1>7, <1>8, ThreadStep

\* A depth in place of what the thread's buffer held, or no change.
LEMMA WriteOrNot ==
  ASSUME NEW t \in Threads, NEW c \in Depths, Pool!Write(t, c) \/ UNCHANGED poolVars
  PROVE  PoolStep(t) /\ UNCHANGED <<holder, desc>>
BY DEF PoolStep, Pool!Write, poolVars

LEMMA RunInferenceStep ==
  ASSUME PlaceInv, NEW t \in Threads, RunInference(t)
  PROVE  KeepsPlaces(t)
<1>1. ~At(t, "idle") /\ call[t].pc \in Running
  BY DEF RunInference, At, Running
<1>2. /\ Req(t) \in Requests /\ Req(t).frame # EmptyFrame
      /\ call \in [Threads -> Calls] /\ SharedTypes
  BY <1>1, AtWork
<1>3. holder[t] # NoBuffer /\ desc[holder[t]] = SizeOf[Req(t).frame]
  BY <1>1 DEF PlaceInv, PlaceOK
<1>4. SharedTypes'
  BY <1>2 DEF RunInference, SharedTypes, Engine!RunSucceeds, Engine!RunFails,
              cacheVars, stateVars, adminVars
<1>5. CASE /\ Engine!RunSucceeds
           /\ Pool!Write(t, DepthBy(selected, Req(t)))
           /\ Deliver(t, "inference")
  <2>1. DepthBy(selected, Req(t)) \in Depths
    BY <1>2, <1>5, RequestFacts DEF SharedTypes, Engine!RunSucceeds
  <2>2. PoolStep(t) /\ UNCHANGED <<holder, desc>>
    BY <1>5, <2>1, WriteOrNot
  <2>3. CallStep(t) /\ call'[t].pc = "post" /\ call'[t].req = call[t].req
    BY <1>2, <1>5, DeliverStep
  <2>4. PlaceOK(t)'
    BY <1>2, <1>3, <2>2, <2>3 DEF PlaceOK, At, Req
  <2> QED BY <1>4, <2>2, <2>3, <2>4, ThreadStep
<1>6. CASE /\ Goto(t, IF Req(t).model \in SequenceModels THEN "downscaled" ELSE "tiled")
           /\ UNCHANGED poolVars
  <2>1. PICK p \in Running : Goto(t, p) /\ p \in {"downscaled", "tiled"}
    BY <1>6 DEF Running
  <2>2. CallStep(t) /\ call'[t].pc = p /\ call'[t].req = call[t].req
    BY <1>2, <2>1, GotoStep DEF Places
  <2>3. PoolStep(t) /\ UNCHANGED <<holder, desc>>
    BY <1>6 DEF PoolStep, poolVars
  <2>4. PlaceOK(t)'
    BY <1>2, <1>3, <2>1, <2>2, <2>3 DEF PlaceOK, At, Req
  <2> QED BY <1>4, <2>2, <2>3, <2>4, ThreadStep
<1> QED BY <1>5, <1>6 DEF RunInference

\* The locals of a thread after a tile: the next tile, the composed depth, or
\* the next attempt.
LEMMA TileStep ==
  ASSUME PlaceInv, NEW t \in Threads, RunTile(t)
  PROVE  /\ CallStep(t)
         /\ call'[t].pc \in {"tiled", "downscaled", "post"}
         /\ call'[t].req = call[t].req
         /\ call'[t].tiles \in {NoFrame, call[t].tiles \cup DepthBy(selected, Req(t))}
         /\ Engine!RunSucceeds => call[t].tiles \cup DepthBy(selected, Req(t)) \in Depths
<1> DEFINE c == call[t]
           tiles == c.tiles \cup DepthBy(selected, c.req)
<1>1. ~At(t, "idle")
  BY DEF RunTile, At
<1>2. /\ Req(t) \in Requests /\ Req(t).frame # EmptyFrame
      /\ call \in [Threads -> Calls] /\ c \in Calls /\ SharedTypes
  BY <1>1, AtWork
<1>3. Engine!RunSucceeds => tiles \in Depths
  <2> SUFFICES ASSUME Engine!RunSucceeds PROVE tiles \in Depths
    OBVIOUS
  <2>1. DepthBy(selected, c.req) \in Depths
    BY <1>2, RequestFacts DEF SharedTypes, Engine!RunSucceeds, Req
  <2>2. c.tiles \in Depths
    BY <1>2 DEF Calls
  <2> QED BY <2>1, <2>2 DEF Depths
<1>4. c.tile \in Nat /\ c.attempt \in Nat /\ NoFrame \in Depths
  BY <1>2 DEF Calls, NoFrame, Depths
<1>5. CASE /\ Engine!RunSucceeds
           /\ call' = [call EXCEPT ![t].tile = c.tile + 1, ![t].tiles = tiles]
  <2> DEFINE d == [c EXCEPT !.tile = c.tile + 1, !.tiles = tiles]
  <2> HIDE DEF tiles
  <2>1. d \in Calls /\ d.pc = c.pc /\ d.req = c.req /\ d.tiles = tiles
    <3>1. tiles \in Depths /\ c.tile + 1 \in Nat
      BY <1>3, <1>4, <1>5
    <3> HIDE DEF c
    <3> QED BY <1>2, <3>1 DEF Calls
  <2>2. call' = [call EXCEPT ![t] = d]
    BY <1>5
  <2> HIDE DEF d
  <2>3. c.pc = "tiled"
    BY DEF RunTile, At
  <2>4. CallStep(t) /\ call'[t].pc = "tiled" /\ call'[t].req = c.req /\ call'[t].tiles = tiles
    BY <1>2, <2>1, <2>2, <2>3 DEF CallStep
  <2> QED BY <1>3, <2>4 DEF tiles, Req
<1>6. CASE /\ Engine!RunSucceeds
           /\ call' = [call EXCEPT ![t].pc = "post", ![t].status = "tiled",
                                   ![t].tile = 0, ![t].tiles = NoFrame]
  <2> DEFINE d == [c EXCEPT !.pc = "post", !.status = "tiled", !.tile = 0, !.tiles = NoFrame]
  <2>1. d \in Calls /\ d.pc = "post" /\ d.req = c.req /\ d.tiles = NoFrame
    BY <1>2, <1>4 DEF Calls, Places, Finishing
  <2>2. call' = [call EXCEPT ![t] = d]
    BY <1>6
  <2> HIDE DEF d
  <2>3. CallStep(t) /\ call'[t].pc = "post" /\ call'[t].req = c.req /\ call'[t].tiles = NoFrame
    BY <1>2, <2>1, <2>2 DEF CallStep
  <2> QED BY <1>3, <2>3 DEF Req
<1>7. CASE /\ Engine!RunFails
           /\ call' = [call EXCEPT ![t].pc = IF IsAttempt(NextAttempt(c.attempt))
                                               THEN "tiled" ELSE "downscaled",
                                   ![t].attempt = NextAttempt(c.attempt),
                                   ![t].tile = 0, ![t].tiles = NoFrame]
  <2>1. PICK p \in {"tiled", "downscaled"} :
          call' = [call EXCEPT ![t].pc = p, ![t].attempt = NextAttempt(c.attempt),
                               ![t].tile = 0, ![t].tiles = NoFrame]
    BY <1>7
  <2> DEFINE d == [c EXCEPT !.pc = p, !.attempt = NextAttempt(c.attempt),
                            !.tile = 0, !.tiles = NoFrame]
  <2>2. d \in Calls /\ d.pc = p /\ d.req = c.req /\ d.tiles = NoFrame
    <3>1. NextAttempt(c.attempt) \in Nat /\ 0 \in Nat /\ p \in Places
      BY <1>4 DEF NextAttempt, Places, Running
    <3> HIDE DEF c
    <3> QED BY <1>2, <1>4, <3>1 DEF Calls
  <2>3. call' = [call EXCEPT ![t] = d]
    BY <2>1
  <2> HIDE DEF d
  <2>4. CallStep(t) /\ call'[t].pc = p /\ call'[t].req = c.req /\ call'[t].tiles = NoFrame
    BY <1>2, <2>2, <2>3 DEF CallStep
  <2> QED BY <1>3, <2>1, <2>4 DEF Req
<1> QED BY <1>5, <1>6, <1>7 DEF RunTile

LEMMA RunTilePlaces ==
  ASSUME PlaceInv, NEW t \in Threads, RunTile(t)
  PROVE  KeepsPlaces(t)
<1>1. ~At(t, "idle") /\ call[t].pc \in Running
  BY DEF RunTile, At, Running
<1>2. /\ Req(t) \in Requests /\ Req(t).frame # EmptyFrame
      /\ SharedTypes
  BY <1>1, AtWork
<1>3. holder[t] # NoBuffer /\ desc[holder[t]] = SizeOf[Req(t).frame]
  BY <1>1 DEF PlaceInv, PlaceOK
<1>4. SharedTypes'
  BY <1>2 DEF RunTile, SharedTypes, Engine!RunSucceeds, Engine!RunFails,
              cacheVars, stateVars, adminVars
<1>5. /\ CallStep(t)
      /\ call'[t].pc \in {"tiled", "downscaled", "post"} /\ call'[t].req = call[t].req
  BY TileStep
<1>6. PoolStep(t) /\ UNCHANGED <<holder, desc>>
  <2> DEFINE tiles == call[t].tiles \cup DepthBy(selected, Req(t))
  <2>1. \/ Engine!RunSucceeds /\ Pool!Write(t, tiles)
        \/ UNCHANGED poolVars
    BY DEF RunTile, Req
  <2>2. Engine!RunSucceeds => tiles \in Depths
    BY TileStep
  <2> HIDE DEF tiles
  <2> QED BY <2>1, <2>2, WriteOrNot DEF PoolStep, poolVars
<1>7. PlaceOK(t)'
  BY <1>2, <1>3, <1>5, <1>6 DEF PlaceOK, At, Req
<1> QED BY <1>4, <1>5, <1>6, <1>7, ThreadStep

LEMMA RunDownscaledInferenceStep ==
  ASSUME PlaceInv, NEW t \in Threads, RunDownscaledInference(t)
  PROVE  KeepsPlaces(t)
<1>1. ~At(t, "idle") /\ call[t].pc \in Running
  BY DEF RunDownscaledInference, At, Running
<1>2. /\ Req(t) \in Requests /\ Req(t).frame # EmptyFrame
      /\ call \in [Threads -> Calls] /\ SharedTypes
  BY <1>1, AtWork
<1>3. holder[t] # NoBuffer /\ desc[holder[t]] = SizeOf[Req(t).frame]
  BY <1>1 DEF PlaceInv, PlaceOK
<1>4. SharedTypes'
  BY <1>2 DEF RunDownscaledInference, SharedTypes, Engine!RunSucceeds, Engine!RunFails,
              engineVars, cacheVars, stateVars, adminVars
<1>5. CASE /\ Engine!RunSucceeds
           /\ Pool!Write(t, DepthBy(selected, Req(t)))
           /\ Deliver(t, "downscaled")
  <2>1. DepthBy(selected, Req(t)) \in Depths
    BY <1>2, <1>5, RequestFacts DEF SharedTypes, Engine!RunSucceeds
  <2>2. PoolStep(t) /\ UNCHANGED <<holder, desc>>
    BY <1>5, <2>1, WriteOrNot
  <2>3. CallStep(t) /\ call'[t].pc = "post" /\ call'[t].req = call[t].req
    BY <1>2, <1>5, DeliverStep
  <2>4. PlaceOK(t)'
    BY <1>2, <1>3, <2>2, <2>3 DEF PlaceOK, At, Req
  <2> QED BY <1>4, <2>2, <2>3, <2>4, ThreadStep
<1>6. CASE Goto(t, "unwind") /\ UNCHANGED poolVars
  <2>1. CallStep(t) /\ call'[t].pc = "unwind" /\ call'[t].req = call[t].req
    BY <1>2, <1>6, GotoStep DEF Places
  <2>2. PoolStep(t) /\ UNCHANGED <<holder, desc>>
    BY <1>6 DEF PoolStep, poolVars
  <2>3. PlaceOK(t)'
    BY <1>2, <1>3, <2>1, <2>2 DEF PlaceOK, At, Req, Running, Finishing
  <2> QED BY <1>4, <2>1, <2>2, <2>3, ThreadStep
<1> QED BY <1>5, <1>6 DEF RunDownscaledInference

\* Post-processing keeps the types of the state and of the depth.
LEMMA PostProcessTypes ==
  ASSUME NEW p \in PostStates, NEW r \in Requests, r.frame # EmptyFrame,
         NEW depth \in Depths, NEW cut \in BOOLEAN
  PROVE  /\ ResetState(p, r) \in PostStates
         /\ MapDepth(p, r, depth).state \in PostStates
         /\ MapDepth(p, r, depth).depth \in Depths
         /\ Smooth(p, r, depth, cut).state \in PostStates
         /\ Smooth(p, r, depth, cut).depth \in Depths
<1>1. /\ r.model \in Models /\ SizeOf[r.frame] \in Sizes
      /\ BuildPostprocessStateHash(r) \in { BuildPostprocessStateHash(q) : q \in Requests }
  BY RequestFacts
<1>2. NoFrame \in Depths /\ \A d, e \in Depths : d \cup e \in Depths
  BY DEF NoFrame, Depths
<1>3. p.history \in Depths /\ p.guided \in Depths
  BY DEF PostStates
<1>4. ResetState(p, r) \in PostStates
  <2> HIDE DEF BuildPostprocessStateHash
  <2> QED BY <1>1, <1>2 DEF ResetState, PostStates
<1>5. p.guided \cup depth \in Depths
  BY <1>2, <1>3
<1>6. MapDepth(p, r, depth).state \in PostStates /\ MapDepth(p, r, depth).depth \in Depths
  BY <1>5, <1>2, <1>3 DEF MapDepth, PostStates
<1>7. ASSUME NEW mixed \in Depths
      PROVE  [p EXCEPT !.hasHistory = TRUE, !.history = mixed] \in PostStates
  BY DEF PostStates
<1>8. depth \cup p.history \in Depths
  BY <1>2, <1>3
<1>9. Smooth(p, r, depth, cut).state \in PostStates /\ Smooth(p, r, depth, cut).depth \in Depths
  BY <1>7, <1>8 DEF Smooth
<1> QED BY <1>4, <1>6, <1>9

\* What post-processing makes of a state and a depth: the state and the depth
\* of the end, or the state an exception leaves.
Mapped(t) == MapDepth(ResetState(post[Req(t).state], Req(t)), Req(t), Depth(t))
Smoothed(t, cut) == Smooth(Mapped(t).state, Req(t), Mapped(t).depth, cut)

LEMMA ApplyPostProcessStep ==
  ASSUME PlaceInv, NEW t \in Threads, ApplyPostProcess(t)
  PROVE  KeepsPlaces(t)
<1>1. ~At(t, "idle") /\ call[t].pc \in Finishing
  BY DEF ApplyPostProcess, At, Finishing
<1>2. holder[t] # NoBuffer /\ desc[holder[t]] = SizeOf[Req(t).frame]
  BY <1>1 DEF PlaceInv, PlaceOK
<1>3. /\ Req(t) \in Requests /\ Req(t).frame # EmptyFrame
      /\ call \in [Threads -> Calls] /\ SharedTypes /\ Depth(t) \in Depths
  BY <1>1, <1>2, AtWork
<1>4. PICK cut \in BOOLEAN :
        /\ post' = [post EXCEPT ![Req(t).state] = Smoothed(t, cut).state]
        /\ Pool!Write(t, Smoothed(t, cut).depth)
  BY DEF ApplyPostProcess, Smoothed, Mapped
<1>5. post \in [States -> PostStates] /\ Req(t).state \in States
  BY <1>3, RequestFacts DEF SharedTypes
<1>6. Mapped(t).state \in PostStates /\ Mapped(t).depth \in Depths
  BY <1>3, <1>5, PostProcessTypes DEF Mapped
<1>7. Smoothed(t, cut).state \in PostStates /\ Smoothed(t, cut).depth \in Depths
  BY <1>3, <1>6, PostProcessTypes DEF Smoothed
<1>8. post' \in [States -> PostStates]
  BY <1>4, <1>5, <1>7
<1>9. SharedTypes'
  BY <1>3, <1>8 DEF ApplyPostProcess, SharedTypes, engineVars, cacheVars, adminVars
<1>10. PoolStep(t) /\ UNCHANGED <<holder, desc>>
  BY <1>4, <1>7, WriteOrNot
<1>11. CallStep(t) /\ call'[t].pc = "publish" /\ call'[t].req = call[t].req
  BY <1>3, GotoStep DEF ApplyPostProcess, Places, Finishing
<1>12. PlaceOK(t)'
  BY <1>2, <1>3, <1>10, <1>11 DEF PlaceOK, At, Req
<1> QED BY <1>9, <1>10, <1>11, <1>12, ThreadStep

\* A step that only goes on to the next place, with the buffer it has.
LEMMA OnlyGoes ==
  ASSUME PlaceInv, NEW t \in Threads, NEW p \in {"release", "unwind"}, Goto(t, p),
         p = "release" => holder[t] # NoBuffer, ~At(t, "idle"), UNCHANGED poolVars
  PROVE  PoolStep(t) /\ CallStep(t) /\ PlaceOK(t)'
<1>1. /\ Req(t) \in Requests /\ Req(t).frame # EmptyFrame
      /\ call \in [Threads -> Calls]
  BY AtWork
<1>2. CallStep(t) /\ call'[t].pc = p /\ call'[t].req = call[t].req
  BY <1>1, GotoStep DEF Places, Finishing
<1>3. PoolStep(t) /\ UNCHANGED <<holder, desc>>
  BY DEF PoolStep, poolVars
<1>4. holder[t] # NoBuffer => desc[holder[t]] = SizeOf[Req(t).frame]
  BY DEF PlaceInv, PlaceOK
<1>5. PlaceOK(t)'
  BY <1>1, <1>2, <1>3, <1>4 DEF PlaceOK, At, Req, Running, Finishing
<1> QED BY <1>2, <1>3, <1>5

LEMMA PostProcessThrowsStep ==
  ASSUME PlaceInv, NEW t \in Threads, PostProcessThrows(t)
  PROVE  KeepsPlaces(t)
<1>1. ~At(t, "idle") /\ call[t].pc \in Finishing
  BY DEF PostProcessThrows, At, Finishing
<1>2. holder[t] # NoBuffer
  BY <1>1 DEF PlaceInv, PlaceOK
<1>3. /\ Req(t) \in Requests /\ Req(t).frame # EmptyFrame
      /\ SharedTypes /\ Depth(t) \in Depths
  BY <1>1, <1>2, AtWork
<1>4. PICK p \in {ResetState(post[Req(t).state], Req(t)), Mapped(t).state} :
        post' = [post EXCEPT ![Req(t).state] = p]
  BY DEF PostProcessThrows, Mapped
<1>5. post \in [States -> PostStates] /\ Req(t).state \in States
  BY <1>3, RequestFacts DEF SharedTypes
<1>6. p \in PostStates
  BY <1>3, <1>4, <1>5, PostProcessTypes DEF Mapped
<1>7. post' \in [States -> PostStates]
  BY <1>4, <1>5, <1>6
<1>8. SharedTypes'
  BY <1>3, <1>7 DEF PostProcessThrows, SharedTypes, engineVars, cacheVars, adminVars
<1>9. PoolStep(t) /\ CallStep(t) /\ PlaceOK(t)'
  BY <1>1, OnlyGoes DEF PostProcessThrows
<1> QED BY <1>8, <1>9, ThreadStep

LEMMA InsertIntoCacheStep ==
  ASSUME PlaceInv, NEW t \in Threads, InsertIntoCache(t)
  PROVE  KeepsPlaces(t)
<1>1. ~At(t, "idle") /\ call[t].pc \in Finishing
  BY DEF InsertIntoCache, At, Finishing
<1>2. holder[t] # NoBuffer
  BY <1>1 DEF PlaceInv, PlaceOK
<1>3. SharedTypes /\ Depth(t) \in Depths
  BY <1>1, <1>2, AtWork
<1>4. \A k \in DOMAIN entries_' : entries_'[k] \in Depths
  BY <1>3, InsertChanges DEF InsertIntoCache, SharedTypes
<1>5. SharedTypes'
  BY <1>3, <1>4 DEF InsertIntoCache, SharedTypes, engineVars, stateVars, adminVars
<1>6. PoolStep(t) /\ CallStep(t) /\ PlaceOK(t)'
  BY <1>1, <1>2, OnlyGoes DEF InsertIntoCache
<1> QED BY <1>5, <1>6, ThreadStep

LEMMA StoreFrozenOutputStep ==
  ASSUME PlaceInv, NEW t \in Threads, StoreFrozenOutput(t)
  PROVE  KeepsPlaces(t)
<1>1. ~At(t, "idle") /\ call[t].pc \in Finishing
  BY DEF StoreFrozenOutput, At, Finishing
<1>2. holder[t] # NoBuffer
  BY <1>1 DEF PlaceInv, PlaceOK
<1>3. Req(t) \in Requests /\ SharedTypes /\ Depth(t) \in Depths
  BY <1>1, <1>2, AtWork
<1>4. [has |-> TRUE, hash |-> BuildFrozenStateHash(Req(t)), output |-> Depth(t)] \in FrozenOutputs
  BY <1>3 DEF FrozenOutputs
<1>5. frozen' \in [States -> FrozenOutputs]
  BY <1>3, <1>4 DEF StoreFrozenOutput, SharedTypes
<1>6. SharedTypes'
  BY <1>3, <1>5 DEF StoreFrozenOutput, SharedTypes, engineVars, cacheVars, adminVars
<1>7. PoolStep(t) /\ CallStep(t) /\ PlaceOK(t)'
  BY <1>1, <1>2, OnlyGoes DEF StoreFrozenOutput
<1> QED BY <1>6, <1>7, ThreadStep

LEMMA ReturnOutputStep ==
  ASSUME PlaceInv, NEW t \in Threads, ReturnOutput(t)
  PROVE  KeepsPlaces(t)
<1>1. ~At(t, "idle") /\ call[t].pc \in Finishing
  BY DEF ReturnOutput, At, Finishing
<1>2. holder[t] # NoBuffer /\ holder \in [Threads -> Buffers \cup {NoBuffer}]
  BY <1>1 DEF PlaceInv, PlaceOK, TypeOK, Pool!TypeOK
<1>3. call \in [Threads -> Calls] /\ SharedTypes /\ Depth(t) \in Depths
  BY <1>1, <1>2, AtWork
<1>4. SharedTypes'
  BY <1>3 DEF ReturnOutput, SharedTypes, engineVars, cacheVars, stateVars, adminVars
<1>5. PoolStep(t) /\ holder'[t] = NoBuffer
  BY <1>2 DEF ReturnOutput, PoolStep, Pool!Release
<1>6. CallStep(t) /\ call'[t].pc = "idle"
  <2>1. At(t, "release") /\ Return(t, call[t].status, Depth(t))
    BY DEF ReturnOutput
  <2>2. call[t].status \in {"none", "safe", "hit", "inference", "tiled", "downscaled"}
    BY <1>3 DEF Calls
  <2> QED BY <1>3, <2>1, <2>2, ReturnStep
<1>7. PlaceOK(t)'
  BY <1>5, <1>6 DEF PlaceOK, At, Running, Finishing
<1> QED BY <1>4, <1>5, <1>6, <1>7, ThreadStep

LEMMA UnwindStep ==
  ASSUME PlaceInv, NEW t \in Threads, Unwind(t)
  PROVE  KeepsPlaces(t)
<1>1. ~At(t, "idle")
  BY DEF Unwind, At
<1>2. /\ call \in [Threads -> Calls] /\ SharedTypes
      /\ holder \in [Threads -> Buffers \cup {NoBuffer}]
  BY <1>1, AtWork DEF PlaceInv, TypeOK, Pool!TypeOK
<1>3. SharedTypes'
  BY <1>2 DEF Unwind, SharedTypes, engineVars, cacheVars, stateVars, adminVars
<1>4. PoolStep(t) /\ holder'[t] = NoBuffer
  BY <1>2 DEF Unwind, PoolStep, Pool!Release, poolVars
<1>5. CallStep(t) /\ call'[t].pc = "idle"
  BY <1>2, ReturnStep DEF Unwind, ReturnSafe, NoFrame, Depths
<1>6. PlaceOK(t)'
  BY <1>4, <1>5 DEF PlaceOK, At, Running, Finishing
<1> QED BY <1>3, <1>4, <1>5, <1>6, ThreadStep

LEMMA ThrowStep ==
  ASSUME PlaceInv, NEW t \in Threads, Throw(t)
  PROVE  KeepsPlaces(t)
<1>1. ~At(t, "idle")
  BY DEF Throw, At
<1>2. SharedTypes
  BY <1>1, AtWork
<1>3. SharedTypes'
  BY <1>2 DEF Throw, SharedTypes, engineVars, cacheVars, stateVars, adminVars
<1>4. PoolStep(t) /\ CallStep(t) /\ PlaceOK(t)'
  BY <1>1, OnlyGoes DEF Throw
<1> QED BY <1>3, <1>4, ThreadStep

\* Dropping the frozen output of a state keeps the types.
LEMMA ClearTypes ==
  ASSUME frozen \in [States -> FrozenOutputs], NEW s \in States, ClearFrozenOutput(s)
  PROVE  frozen' \in [States -> FrozenOutputs]
<1>1. NothingFrozen \in FrozenOutputs
  BY DEF NothingFrozen, FrozenOutputs, NoFrame, Depths
<1> QED BY <1>1 DEF ClearFrozenOutput

LEMMA RenderStep ==
  ASSUME PlaceInv, NEW t \in Threads, NEW r \in Requests, Render(t, r)
  PROVE  KeepsPlaces(t)
<1>1. call \in [Threads -> Calls] /\ SharedTypes /\ holder[t] = NoBuffer
  BY DEF PlaceInv, TypeOK, SharedTypes, Render, PlaceOK, At
<1>2. NoFrame \in Depths
  BY DEF NoFrame, Depths
<1>3. frozen' \in [States -> FrozenOutputs]
  BY <1>1, RequestAssumption, ClearTypes DEF SharedTypes, Render
<1>4. SharedTypes'
  BY <1>1, <1>3 DEF Render, SharedTypes, engineVars, cacheVars, adminVars
<1>5. PoolStep(t) /\ UNCHANGED holder
  BY DEF Render, PoolStep, poolVars
<1>6. /\ CallStep(t) /\ call'[t].req = r
      /\ call'[t].pc = "idle" \/ (call'[t].pc = "select" /\ r.frame # EmptyFrame)
  <2>1. CASE call' = [call EXCEPT ![t] = [Idle EXCEPT !.req = r, !.status = "safe"]]
    <3> DEFINE c == [Idle EXCEPT !.req = r, !.status = "safe"]
    <3>1. c \in Calls /\ c.pc = "idle" /\ c.req = r
      BY <1>2 DEF Idle, Calls, Places
    <3> HIDE DEF c
    <3> QED BY <1>1, <2>1, <3>1 DEF CallStep, c
  <2>2. CASE /\ r.frame # EmptyFrame
             /\ call' = [call EXCEPT ![t] = [Idle EXCEPT !.req = r, !.pc = "select"]]
    <3> DEFINE c == [Idle EXCEPT !.req = r, !.pc = "select"]
    <3>1. c \in Calls /\ c.pc = "select" /\ c.req = r
      BY <1>2 DEF Idle, Calls, Places
    <3>2. call' = [call EXCEPT ![t] = c]
      BY <2>2
    <3> HIDE DEF c
    <3> QED BY <1>1, <2>2, <3>1, <3>2 DEF CallStep
  <2> QED BY <2>1, <2>2 DEF Render
<1>7. PlaceOK(t)'
  BY <1>1, <1>5, <1>6 DEF PlaceOK, At, Req, Running, Finishing
<1> QED BY <1>4, <1>5, <1>6, <1>7, ThreadStep

\* The calls beside Render change nothing of the threads.
LEMMA OtherCallsStep ==
  ASSUME PlaceInv, PurgeCache \/ PurgeFrozen \/ \E n \in 0..MaxLimit : SetCacheLimit(n)
  PROVE  PlaceInv' /\ UNCHANGED poolVars
<1>1. SharedTypes
  BY DEF PlaceInv, TypeOK, SharedTypes
<1>2. UNCHANGED <<call, free_list_, desc, content, holder>>
  BY DEF PurgeCache, PurgeFrozen, SetCacheLimit, poolVars
<1>3. ASSUME PurgeCache PROVE SharedTypes'
  BY <1>1, <1>3 DEF PurgeCache, SharedTypes, Cache!Clear, Cache!NoEntries, engineVars, stateVars
<1>4. ASSUME PurgeFrozen PROVE SharedTypes'
  <2>1. frozen' \in [States -> FrozenOutputs]
    BY <1>1, <1>4, PipelineAssumption, ClearTypes DEF PurgeFrozen, SharedTypes
  <2> QED BY <1>1, <1>4, <2>1 DEF PurgeFrozen, SharedTypes, engineVars, cacheVars
<1>5. ASSUME NEW n \in 0..MaxLimit, SetCacheLimit(n) PROVE SharedTypes'
  <2>1. \A k \in DOMAIN entries_' : entries_'[k] \in Depths
    BY <1>1, <1>5, LimitChanges DEF SetCacheLimit, SharedTypes
  <2> QED BY <1>1, <1>5, <2>1 DEF SetCacheLimit, SharedTypes, engineVars, stateVars
<1>6. SharedTypes'
  BY <1>3, <1>4, <1>5
<1>7. PoolInv' /\ call' \in [Threads -> Calls]
  BY <1>2 DEF PlaceInv, TypeOK, PoolInv, Pool!TypeOK, Pool!OneOwner, Pool!Held, Pool!ListWithinMax
<1>8. \A t \in Threads : PlaceOK(t)'
  BY <1>2 DEF PlaceInv, PlaceOK, At, Req
<1> QED BY <1>2, <1>6, <1>7, <1>8
     DEF PlaceInv, TypeOK, SharedTypes, PoolInv, poolVars

LEMMA StepKeepsPlaces ==
  ASSUME PlaceInv, NEW t \in Threads, Step(t)
  PROVE  KeepsPlaces(t)
BY SelectModelStep, LookupCacheStep, LookupFrozenStep, AcquireDepthStep,
   RunInferenceStep, RunTilePlaces, RunDownscaledInferenceStep, ApplyPostProcessStep,
   PostProcessThrowsStep, InsertIntoCacheStep, StoreFrozenOutputStep, ReturnOutputStep,
   UnwindStep, ThrowStep DEF Step

LEMMA NextKeepsPlaces ==
  ASSUME PlaceInv, [Next]_vars
  PROVE  PlaceInv' /\ [Pool!Next]_(Pool!vars)
<1>1. ASSUME NEW t \in Threads, KeepsPlaces(t)
      PROVE  PlaceInv' /\ [Pool!Next]_(Pool!vars)
  BY <1>1, PoolStepKeeps DEF KeepsPlaces, PlaceInv, TypeOK, PoolInv
<1>2. ASSUME NEW t \in Threads, NEW r \in Requests, Render(t, r) PROVE KeepsPlaces(t)
  BY <1>2, RenderStep
<1>3. ASSUME NEW t \in Threads, Step(t) PROVE KeepsPlaces(t)
  BY <1>3, StepKeepsPlaces
<1>4. CASE PurgeCache \/ PurgeFrozen \/ \E n \in 0..MaxLimit : SetCacheLimit(n)
  BY <1>4, OtherCallsStep DEF poolVars, Pool!vars
<1>5. CASE UNCHANGED vars
  BY <1>5 DEF PlaceInv, TypeOK, PlaceOK, At, Req, Pool!TypeOK, Pool!OneOwner, Pool!Held,
              Pool!ListWithinMax, Pool!vars, vars, engineVars, cacheVars, poolVars, stateVars, adminVars
<1> QED BY <1>1, <1>2, <1>3, <1>4, <1>5 DEF Next

\* Every call is where its request, its model and its buffer let it be.
THEOREM PlacesInvariant == Spec => []PlaceInv
<1>1. PlaceInv /\ [Next]_vars => PlaceInv'
  BY NextKeepsPlaces
<1> QED BY <1>1, InitEstablishesPlaceInv, PTL DEF Spec

\* The shared state and the locals of the calls keep their types.
THEOREM PipelineTypes == Spec => []TypeOK
<1>1. PlaceInv => TypeOK
  BY DEF PlaceInv
<1> QED BY <1>1, PlacesInvariant, PTL

\* Whatever threads render, purge and throw, no two of them hold one buffer
\* and none holds one that the pool could hand out.
THEOREM RendersShareNoBuffer == Spec => []OneOwner
<1>1. PlaceInv => OneOwner
  BY DEF PlaceInv, OneOwner
<1> QED BY <1>1, PlacesInvariant, PTL

\* Every way out of Render gives the buffer back, and while a render has one
\* it is of the size of its source.
THEOREM RendersReturnBuffers == Spec => []BuffersComeBack
<1>1. PlaceInv => BuffersComeBack
  BY DEF PlaceInv, BuffersComeBack, PlaceOK, At
<1> QED BY <1>1, PlacesInvariant, PTL

-----------------------------------------------------------------------------
(* The pipeline uses the components it is composed of as they are meant to *)
(* be used: what is proved of them holds in it.                            *)

\* Render acquires, writes and releases as the pool allows: every behaviour
\* of the pipeline is one of the pool.
THEOREM PipelineUsesPool == Spec => Pool!Spec
<1>1. Init => Pool!Init
  BY DEF Init
<1>2. PlaceInv /\ [Next]_vars => [Pool!Next]_(Pool!vars)
  BY NextKeepsPlaces
<1> QED BY <1>1, <1>2, PlacesInvariant, PTL DEF Spec, Pool!Spec

\* A render never sees in its buffer what the render before left there.
THEOREM RendersStartClear == Spec => AcquiredIsClear
BY PipelineUsesPool, PoolClearsBuffers, PTL DEF AcquiredIsClear

\* Every find, insert, clear and limit that reaches the cache is one of the
\* cache's operations, on its keys and with its values.
THEOREM PipelineUsesCache == Spec => Cache!Spec
<1>1. Init => Cache!Init
  BY DEF Init
<1>2. PlaceInv /\ [Next]_vars => [Cache!Next]_(Cache!vars)
  <2> SUFFICES ASSUME PlaceInv, Next, ~UNCHANGED cacheVars PROVE Cache!Next
    BY DEF vars, cacheVars, Cache!vars
  <2>1. ASSUME NEW t \in Threads, LookupCache(t) PROVE Cache!Next
    <3>1. BuildCacheKey(Req(t)) \in CacheKeys
      BY <2>1, AtWork, RequestFacts DEF LookupCache, At
    <3> QED BY <2>1, <3>1 DEF LookupCache, Cache!Next
  <2>2. ASSUME NEW t \in Threads, InsertIntoCache(t) PROVE Cache!Next
    <3>1. ~At(t, "idle") /\ call[t].pc \in Finishing
      BY <2>2 DEF InsertIntoCache, At, Finishing
    <3>2. holder[t] # NoBuffer
      BY <3>1 DEF PlaceInv, PlaceOK
    <3>3. BuildCacheKey(Req(t)) \in CacheKeys /\ Depth(t) \in Depths
      BY <3>1, <3>2, AtWork, RequestFacts
    <3> QED BY <2>2, <3>3 DEF InsertIntoCache, Cache!Next
  <2>3. ASSUME PurgeCache PROVE Cache!Next
    BY <2>3 DEF PurgeCache, Cache!Next
  <2>4. ASSUME NEW n \in 0..MaxLimit, SetCacheLimit(n) PROVE Cache!Next
    BY <2>4 DEF SetCacheLimit, Cache!Next
  <2>5. ASSUME NEW t \in Threads, Step(t), ~LookupCache(t), ~InsertIntoCache(t) PROVE FALSE
    BY <2>5 DEF Step, SelectModel, LookupFrozen, AcquireDepth, RunInference, RunTile,
                RunDownscaledInference, ApplyPostProcess, PostProcessThrows,
                StoreFrozenOutput, ReturnOutput, Unwind, Throw
  <2>6. ASSUME NEW t \in Threads, NEW r \in Requests, Render(t, r) PROVE FALSE
    BY <2>6 DEF Render
  <2>7. ASSUME PurgeFrozen PROVE FALSE
    BY <2>7 DEF PurgeFrozen
  <2> QED BY <2>1, <2>2, <2>3, <2>4, <2>5, <2>6, <2>7 DEF Next
<1> QED BY <1>1, <1>2, PlacesInvariant, PTL DEF Spec, Cache!Spec

\* The pipeline selects and runs as the contract of the engines has it.
THEOREM PipelineUsesEngine == Spec => Engine!Spec
<1>1. Init => Engine!Init
  BY DEF Init
<1>2. PlaceInv /\ [Next]_vars => [Engine!Next]_(Engine!vars)
  <2> SUFFICES ASSUME PlaceInv, Next, ~UNCHANGED engineVars PROVE Engine!Next
    BY DEF vars, engineVars, Engine!vars
  <2>1. ASSUME NEW t \in Threads, SelectModel(t) PROVE Engine!Next
    <3>1. Req(t).model \in Models
      BY <2>1, AtWork, RequestFacts DEF SelectModel, At
    <3> QED BY <2>1, <3>1 DEF SelectModel, Engine!Next
  <2>2. ASSUME NEW t \in Threads, RunInference(t) \/ RunTile(t) \/ RunDownscaledInference(t)
        PROVE  Engine!Next
    BY <2>2 DEF RunInference, RunTile, RunDownscaledInference, Engine!Next
  <2>3. ASSUME NEW t \in Threads, Step(t), ~SelectModel(t),
               ~(RunInference(t) \/ RunTile(t) \/ RunDownscaledInference(t))
        PROVE  FALSE
    BY <2>3 DEF Step, LookupCache, LookupFrozen, AcquireDepth, ApplyPostProcess,
                PostProcessThrows, InsertIntoCache, StoreFrozenOutput, ReturnOutput,
                Unwind, Throw
  <2>4. ASSUME NEW t \in Threads, NEW r \in Requests, Render(t, r) PROVE FALSE
    BY <2>4 DEF Render
  <2>5. ASSUME PurgeCache \/ PurgeFrozen \/ \E n \in 0..MaxLimit : SetCacheLimit(n) PROVE FALSE
    BY <2>5 DEF PurgeCache, PurgeFrozen, SetCacheLimit
  <2> QED BY <2>1, <2>2, <2>3, <2>4, <2>5 DEF Next
<1> QED BY <1>1, <1>2, PlacesInvariant, PTL DEF Spec, Engine!Spec

-----------------------------------------------------------------------------
(* What the depths are made of.                                            *)

\* All requests have one model, as those of the effect do, or one thread
\* renders: without either, a thread can run the model of another.
OneModelInUse ==
    \/ \A q, r \in Requests : q.model = r.model
    \/ \A t, u \in Threads : t = u

\* Of what a render of r may show: its model, its settings of the
\* post-processing, its size and its state.
OfSetting(r, depth) ==
    \A d \in depth : /\ d.model = r.model
                     /\ d.look.settings = Settings(r)
                     /\ SizeOf[d.frame] = SizeOf[r.frame]
                     /\ d.state = r.state

\* What the engine makes of the frame of r when it is run as r says.
OwnSource(r, d) == d.frame = r.frame /\ d.look = Look(r)

\* A finished depth has the source of r in it, and no other unless r mixes.
MadeFor(r, depth) ==
    /\ \E d \in depth : OwnSource(r, d)
    /\ OfSetting(r, depth)
    /\ ~Mixes(r) => \A d \in depth : OwnSource(r, d)

\* The engine has the model of a call that is about to run it, and what the
\* call has so far is of its own model and source.
MadeOK(t) ==
    /\ call[t].pc \in {"lookup", "acquire"} \cup Running => selected = Req(t).model
    /\ call[t].pc \in {"select", "lookup", "acquire", "direct", "tiled"} =>
         call[t].tiles \subseteq DepthBy(Req(t).model, Req(t))
    /\ At(t, "post") => Depth(t) = DepthBy(Req(t).model, Req(t))
    /\ call[t].pc \in {"publish", "release"} => MadeFor(Req(t), Depth(t))

MadeInv ==
    /\ HistoryIsOfItsHash
    /\ \A t \in Threads : MadeOK(t)

\* HistoryIsOfItsHash for one state.
HistoryFits(p, s) ==
    \A d \in p.history \cup p.guided :
      /\ d.state = s
      /\ d.model = p.model
      /\ d.look.settings = p.hash.settings
      /\ SizeOf[d.frame] = p.size

\* The state is set for request r, and what it remembers fits it.
SetFor(r, p) ==
    /\ p.model = r.model
    /\ p.hash = BuildPostprocessStateHash(r)
    /\ p.size = SizeOf[r.frame]
    /\ OfSetting(r, p.history)
    /\ OfSetting(r, p.guided)

LEMMA SetForFits ==
  ASSUME NEW r \in Requests, NEW p \in PostStates, SetFor(r, p)
  PROVE  HistoryFits(p, r.state)
<1>1. BuildPostprocessStateHash(r).settings = Settings(r)
  BY DEF BuildPostprocessStateHash
<1> QED BY <1>1 DEF SetFor, OfSetting, HistoryFits

\* ResetState leaves a state that is set for the request: it was, or it is
\* emptied.
LEMMA ResetSets ==
  ASSUME NEW r \in Requests, NEW p \in PostStates, HistoryFits(p, r.state)
  PROVE  SetFor(r, ResetState(p, r))
<1>1. BuildPostprocessStateHash(r).settings = Settings(r)
  BY DEF BuildPostprocessStateHash
<1>2. CASE StateMismatch(p, r)
  <2>1. /\ ResetState(p, r).model = r.model
        /\ ResetState(p, r).hash = BuildPostprocessStateHash(r)
        /\ ResetState(p, r).size = SizeOf[r.frame]
        /\ ResetState(p, r).history = {} /\ ResetState(p, r).guided = {}
    BY <1>2 DEF ResetState, NoFrame
  <2> QED BY <2>1 DEF SetFor, OfSetting
<1>3. CASE ~StateMismatch(p, r)
  <2>1. ResetState(p, r) = p
    BY <1>3 DEF ResetState
  <2>2. /\ p.model = r.model /\ p.hash = BuildPostprocessStateHash(r)
        /\ p.size = SizeOf[r.frame]
    BY <1>3 DEF StateMismatch
  <2> QED BY <1>1, <2>1, <2>2 DEF SetFor, OfSetting, HistoryFits
<1> QED BY <1>2, <1>3

\* Guided mapping mixes in only what fits the request; the other modes mix in
\* nothing.
LEMMA MapDepthFits ==
  ASSUME NEW r \in Requests, NEW p \in PostStates, SetFor(r, p),
         NEW depth, OfSetting(r, depth)
  PROVE  /\ SetFor(r, MapDepth(p, r, depth).state)
         /\ OfSetting(r, MapDepth(p, r, depth).depth)
         /\ depth \subseteq MapDepth(p, r, depth).depth
         /\ r.mapping # "guided" => MapDepth(p, r, depth).depth = depth
<1>1. OfSetting(r, p.guided \cup depth)
  BY DEF SetFor, OfSetting
<1>2. CASE r.mapping = "guided"
  <2> DEFINE q == [p EXCEPT !.guided = p.guided \cup depth]
  <2>1. /\ q.model = p.model /\ q.hash = p.hash /\ q.size = p.size
        /\ q.history = p.history /\ q.guided = p.guided \cup depth
    BY DEF PostStates
  <2>2. /\ MapDepth(p, r, depth).state = q
        /\ MapDepth(p, r, depth).depth = p.guided \cup depth
    BY <1>2 DEF MapDepth
  <2> HIDE DEF q
  <2> QED BY <1>1, <1>2, <2>1, <2>2 DEF SetFor
<1>3. CASE r.mapping # "guided"
  BY <1>3 DEF MapDepth
<1> QED BY <1>2, <1>3

\* Smoothing mixes in only what fits the request, and nothing when the alpha
\* is one.
LEMMA SmoothFits ==
  ASSUME NEW r \in Requests, NEW p \in PostStates, SetFor(r, p),
         NEW depth, OfSetting(r, depth), NEW cut \in BOOLEAN
  PROVE  /\ SetFor(r, Smooth(p, r, depth, cut).state)
         /\ OfSetting(r, Smooth(p, r, depth, cut).depth)
         /\ depth \subseteq Smooth(p, r, depth, cut).depth
         /\ ~(r.temporal < AlphaOne) => Smooth(p, r, depth, cut).depth = depth
<1> DEFINE mixed == IF p.hasHistory /\ ~cut /\ r.temporal < AlphaOne
                      THEN depth \cup p.history ELSE depth
           q == [p EXCEPT !.hasHistory = TRUE, !.history = mixed]
<1>1. /\ OfSetting(r, mixed) /\ depth \subseteq mixed
      /\ ~(r.temporal < AlphaOne) => mixed = depth
  BY DEF SetFor, OfSetting
<1>2. Smooth(p, r, depth, cut).state = q /\ Smooth(p, r, depth, cut).depth = mixed
  BY DEF Smooth
<1> HIDE DEF mixed
<1>3. /\ q.model = p.model /\ q.hash = p.hash /\ q.size = p.size
      /\ q.guided = p.guided /\ q.history = mixed
  BY DEF PostStates
<1> HIDE DEF q
<1> QED BY <1>1, <1>2, <1>3 DEF SetFor

\* What the engine makes of the source of r.
LEMMA EngineDepth ==
  ASSUME NEW r
  PROVE  /\ OfSetting(r, DepthBy(r.model, r))
         /\ \E d \in DepthBy(r.model, r) : OwnSource(r, d)
         /\ \A d \in DepthBy(r.model, r) : OwnSource(r, d)
BY DEF OfSetting, DepthBy, OwnSource, Look

\* A call in post-processing leaves a state set for its request, wherever it
\* ends, and a depth made for its request when it gets through.
LEMMA PostProcessMakes ==
  ASSUME PlaceInv, MadeInv, NEW t \in Threads, At(t, "post")
  PROVE  /\ HistoryFits(ResetState(post[Req(t).state], Req(t)), Req(t).state)
         /\ HistoryFits(Mapped(t).state, Req(t).state)
         /\ \A cut \in BOOLEAN : /\ HistoryFits(Smoothed(t, cut).state, Req(t).state)
                                 /\ MadeFor(Req(t), Smoothed(t, cut).depth)
<1> DEFINE r == Req(t)
           reset == ResetState(post[r.state], r)
<1>1. ~At(t, "idle") /\ call[t].pc \in Finishing
  BY DEF At, Finishing
<1>2. holder[t] # NoBuffer
  BY <1>1 DEF PlaceInv, PlaceOK
<1>3. /\ r \in Requests /\ r.frame # EmptyFrame /\ r.state \in States
      /\ post \in [States -> PostStates] /\ Depth(t) \in Depths
  BY <1>1, <1>2, AtWork, RequestFacts DEF SharedTypes
<1> HIDE DEF r
<1>4. Depth(t) = DepthBy(r.model, r)
  BY DEF MadeInv, MadeOK, r
<1>5. HistoryFits(post[r.state], r.state)
  BY <1>3 DEF MadeInv, HistoryIsOfItsHash, HistoryFits
<1>6. SetFor(r, reset) /\ reset \in PostStates
  BY <1>3, <1>5, ResetSets, PostProcessTypes
<1>7. Mapped(t) = MapDepth(reset, r, Depth(t))
  BY DEF Mapped, r
<1> HIDE DEF reset
<1>8. /\ SetFor(r, Mapped(t).state) /\ OfSetting(r, Mapped(t).depth)
      /\ Depth(t) \subseteq Mapped(t).depth
      /\ r.mapping # "guided" => Mapped(t).depth = Depth(t)
  BY <1>3, <1>4, <1>6, <1>7, MapDepthFits, EngineDepth
<1>9. Mapped(t).state \in PostStates /\ Mapped(t).depth \in Depths
  BY <1>3, <1>6, <1>7, PostProcessTypes
<1>10. ASSUME NEW cut \in BOOLEAN
       PROVE  HistoryFits(Smoothed(t, cut).state, r.state) /\ MadeFor(r, Smoothed(t, cut).depth)
  <2> DEFINE end == Smoothed(t, cut)
  <2>1. end = Smooth(Mapped(t).state, r, Mapped(t).depth, cut)
    BY DEF Smoothed, r
  <2> HIDE DEF end
  <2>2. /\ SetFor(r, end.state) /\ OfSetting(r, end.depth)
        /\ Mapped(t).depth \subseteq end.depth
        /\ ~(r.temporal < AlphaOne) => end.depth = Mapped(t).depth
    BY <1>3, <1>8, <1>9, <2>1, SmoothFits
  <2>3. end.state \in PostStates
    BY <1>3, <1>9, <2>1, PostProcessTypes
  <2>4. HistoryFits(end.state, r.state)
    BY <1>3, <2>2, <2>3, SetForFits
  <2>5. \E d \in end.depth : OwnSource(r, d)
    BY <1>4, <1>8, <2>2, EngineDepth
  <2>6. ~Mixes(r) => end.depth = DepthBy(r.model, r)
    BY <1>4, <1>8, <2>2 DEF Mixes
  <2>7. MadeFor(r, end.depth)
    BY <2>2, <2>5, <2>6, EngineDepth DEF MadeFor
  <2> QED BY <2>4, <2>7 DEF end
<1>11. HistoryFits(reset, r.state) /\ HistoryFits(Mapped(t).state, r.state)
  BY <1>3, <1>6, <1>8, <1>9, SetForFits
<1> QED BY <1>10, <1>11 DEF reset, r

LEMMA InitEstablishesMadeInv == Init => MadeInv
<1> SUFFICES ASSUME Init PROVE MadeInv
  OBVIOUS
<1>1. HistoryIsOfItsHash
  BY DEF Init, HistoryIsOfItsHash, FreshPost, NoFrame
<1>2. ASSUME NEW t \in Threads PROVE MadeOK(t)
  <2>1. call[t].pc = "idle"
    BY DEF Init, Idle
  <2> QED BY <2>1 DEF MadeOK, At, Running
<1> QED BY <1>1, <1>2 DEF MadeInv

\* Only post-processing changes the states, and what it leaves fits.
LEMMA StepKeepsHistory ==
  ASSUME PlaceInv, MadeInv, NEW t \in Threads, Step(t)
  PROVE  HistoryIsOfItsHash'
<1>1. HistoryIsOfItsHash /\ post \in [States -> PostStates]
  BY DEF MadeInv, PlaceInv, TypeOK
<1>2. ASSUME At(t, "post"), NEW p, HistoryFits(p, Req(t).state),
             post' = [post EXCEPT ![Req(t).state] = p]
      PROVE  HistoryIsOfItsHash'
  <2>1. ASSUME NEW s \in States PROVE HistoryFits(post'[s], s)
    <3>1. HistoryFits(post[s], s)
      BY <1>1 DEF HistoryIsOfItsHash, HistoryFits
    <3>2. post'[s] = IF s = Req(t).state THEN p ELSE post[s]
      BY <1>1, <1>2
    <3> QED BY <1>2, <3>1, <3>2
  <2> QED BY <2>1 DEF HistoryIsOfItsHash, HistoryFits
<1>3. CASE ApplyPostProcess(t)
  <2>1. PICK cut \in BOOLEAN : post' = [post EXCEPT ![Req(t).state] = Smoothed(t, cut).state]
    BY <1>3 DEF ApplyPostProcess, Smoothed, Mapped
  <2>2. At(t, "post")
    BY <1>3 DEF ApplyPostProcess
  <2> QED BY <1>2, <2>1, <2>2, PostProcessMakes
<1>4. CASE PostProcessThrows(t)
  <2>1. PICK p \in {ResetState(post[Req(t).state], Req(t)), Mapped(t).state} :
          post' = [post EXCEPT ![Req(t).state] = p]
    BY <1>4 DEF PostProcessThrows, Mapped
  <2>2. At(t, "post")
    BY <1>4 DEF PostProcessThrows
  <2> QED BY <1>2, <2>1, <2>2, PostProcessMakes
<1>5. CASE UNCHANGED post
  BY <1>1, <1>5 DEF HistoryIsOfItsHash
<1>6. ApplyPostProcess(t) \/ PostProcessThrows(t) \/ UNCHANGED post
  BY DEF Step, SelectModel, LookupCache, LookupFrozen, AcquireDepth, RunInference, RunTile,
         RunDownscaledInference, InsertIntoCache, StoreFrozenOutput, ReturnOutput, Unwind,
         Throw, stateVars
<1> QED BY <1>3, <1>4, <1>5, <1>6

\* SelectModel is the only step that changes the model of the engine.
LEMMA StepSelects ==
  ASSUME NEW t \in Threads, Step(t)
  PROVE  \/ UNCHANGED selected
         \/ At(t, "select") /\ selected' = Req(t).model
BY DEF Step, SelectModel, LookupCache, LookupFrozen, AcquireDepth, RunInference, RunTile,
       RunDownscaledInference, ApplyPostProcess, PostProcessThrows, InsertIntoCache,
       StoreFrozenOutput, ReturnOutput, Unwind, Throw, engineVars,
       Engine!Select, Engine!Reject, Engine!RunSucceeds, Engine!RunFails

\* The other threads still have the model they selected and the depth they
\* made.
LEMMA OthersMade ==
  ASSUME OneModelInUse, PlaceInv, NEW t \in Threads, PoolStep(t), CallStep(t),
         \/ UNCHANGED selected
         \/ ~At(t, "idle") /\ selected' = Req(t).model,
         NEW u \in Threads, u # t, MadeOK(u)
  PROVE  MadeOK(u)'
<1>1. PoolInv /\ PlaceOK(u)
  BY DEF PlaceInv, TypeOK, PoolInv
<1>2. /\ holder'[u] = holder[u]
      /\ holder[u] # NoBuffer => content'[holder[u]] = content[holder[u]]
  BY <1>1, PoolStepKeeps
<1>3. call'[u] = call[u]
  BY DEF CallStep
<1>4. call[u].pc \in {"lookup", "acquire"} \cup Running =>
        selected' = Req(u).model
  <2>1. ASSUME ~At(t, "idle"), ~At(u, "idle") PROVE Req(t).model = Req(u).model
    BY <2>1, AtWork DEF OneModelInUse
  <2>2. call[u].pc \in {"lookup", "acquire"} \cup Running =>
          ~At(u, "idle") /\ selected = Req(u).model
    BY DEF MadeOK, At, Running
  <2> QED BY <2>1, <2>2
<1>5. call[u].pc \in Finishing => UNCHANGED Depth(u)
  BY <1>1, <1>2 DEF PlaceOK, Depth
<1> QED BY <1>3, <1>4, <1>5 DEF MadeOK, At, Req, Finishing

\* A depth written into the buffer a thread holds is what the thread has.
LEMMA WrittenDepth ==
  ASSUME PlaceInv, NEW t \in Threads, NEW c, Pool!Write(t, c)
  PROVE  Depth(t)' = c
<1>1. holder[t] \in Buffers /\ content \in [Buffers -> Depths]
  BY PipelinePoolAssumption
     DEF PlaceInv, TypeOK, Pool!TypeOK, Pool!Write, Pool!PoolAssumption
<1> QED BY <1>1 DEF Pool!Write, Depth

\* A thread that is to finish with the next step has no more to show.
LEMMA OwnLeaves ==
  ASSUME NEW t \in Threads, call'[t].pc \in {"idle", "unwind"}
  PROVE  MadeOK(t)'
BY DEF MadeOK, At, Running

LEMMA OwnMade ==
  ASSUME PlaceInv, MadeInv, NEW t \in Threads, Step(t)
  PROVE  MadeOK(t)'
<1>1. call \in [Threads -> Calls] /\ MadeOK(t) /\ NoFrame \in Depths
  BY DEF PlaceInv, TypeOK, MadeInv, NoFrame, Depths
<1>2. ASSUME NEW p \in Places, Goto(t, p)
      PROVE  call'[t].pc = p /\ call'[t].req = call[t].req /\ call'[t].tiles = call[t].tiles
  BY <1>1, <1>2, GotoStep
<1>3. ASSUME SelectModel(t) PROVE MadeOK(t)'
  <2>1. CASE Engine!Select(Req(t).model) /\ Goto(t, "lookup")
    <3>1. /\ call'[t].pc = "lookup" /\ call'[t].req = call[t].req
          /\ call'[t].tiles = call[t].tiles
      BY <1>2, <2>1 DEF Places
    <3> QED BY <1>1, <1>3, <2>1, <3>1 DEF MadeOK, SelectModel, Engine!Select, At, Req
  <2>2. CASE ReturnSafe(t)
    BY <1>1, <2>2, ReturnStep, OwnLeaves DEF ReturnSafe
  <2> QED BY <1>3, <2>1, <2>2 DEF SelectModel
<1>4. ASSUME LookupCache(t) \/ LookupFrozen(t) PROVE MadeOK(t)'
  <2>1. CASE Goto(t, "acquire")
    <3>1. /\ call'[t].pc = "acquire" /\ call'[t].req = call[t].req
          /\ call'[t].tiles = call[t].tiles
      BY <1>2, <2>1 DEF Places
    <3>2. UNCHANGED selected
      BY <1>4 DEF LookupCache, LookupFrozen, engineVars
    <3> QED BY <1>1, <1>4, <3>1, <3>2 DEF MadeOK, LookupCache, LookupFrozen, At, Req
  <2>2. CASE ~Goto(t, "acquire")
    <3>1. PICK output : Return(t, "hit", output)
      BY <1>4, <2>2 DEF LookupCache, LookupFrozen
    <3>2. call'[t].pc = "idle"
      BY <1>1, <3>1 DEF Return, Idle
    <3> QED BY <3>2, OwnLeaves
  <2> QED BY <2>1, <2>2
<1>5. ASSUME AcquireDepth(t) PROVE MadeOK(t)'
  <2>1. /\ call'[t].pc = "direct" /\ call'[t].req = call[t].req
        /\ call'[t].tiles = call[t].tiles
    BY <1>2, <1>5 DEF AcquireDepth, Places, Running
  <2>2. UNCHANGED selected
    BY <1>5 DEF AcquireDepth, engineVars
  <2> QED BY <1>1, <1>5, <2>1, <2>2 DEF MadeOK, AcquireDepth, At, Req
<1>6. ASSUME RunInference(t) PROVE MadeOK(t)'
  <2>1. selected = Req(t).model /\ UNCHANGED selected
    BY <1>1, <1>6 DEF RunInference, MadeOK, At, Running, Engine!RunSucceeds, Engine!RunFails
  <2>2. CASE Pool!Write(t, DepthBy(selected, Req(t))) /\ Deliver(t, "inference")
    <3>1. Depth(t)' = DepthBy(selected, Req(t))
      BY <2>2, WrittenDepth
    <3>2. call'[t].pc = "post" /\ call'[t].req = call[t].req
      BY <1>1, <2>2, DeliverStep
    <3> QED BY <2>1, <3>1, <3>2 DEF MadeOK, At, Req, Running
  <2>3. CASE Goto(t, IF Req(t).model \in SequenceModels THEN "downscaled" ELSE "tiled")
    <3>1. PICK p \in {"downscaled", "tiled"} : Goto(t, p)
      BY <2>3
    <3>2. /\ call'[t].pc = p /\ call'[t].req = call[t].req
          /\ call'[t].tiles = call[t].tiles
      BY <1>2, <3>1 DEF Places, Running
    <3> QED BY <1>1, <1>6, <2>1, <3>1, <3>2 DEF MadeOK, RunInference, At, Req
  <2> QED BY <1>6, <2>2, <2>3 DEF RunInference
<1>7. ASSUME RunTile(t) PROVE MadeOK(t)'
  <2> DEFINE tiles == call[t].tiles \cup DepthBy(selected, Req(t))
  <2>1. /\ selected = Req(t).model /\ UNCHANGED selected
        /\ call[t].tiles \subseteq DepthBy(Req(t).model, Req(t))
    BY <1>1, <1>7 DEF RunTile, MadeOK, At, Running, Engine!RunSucceeds, Engine!RunFails
  <2>2. /\ call'[t].pc \in {"tiled", "downscaled", "post"} /\ call'[t].req = call[t].req
        /\ call'[t].tiles \in {NoFrame, tiles}
    BY <1>7, TileStep
  <2>3. tiles = DepthBy(Req(t).model, Req(t))
    BY <2>1
  <2>4. call'[t].pc = "post" => Pool!Write(t, tiles)
    <3>1. CASE Pool!Write(t, tiles)
      BY <3>1
    <3>2. CASE call' = [call EXCEPT ![t].tile = call[t].tile + 1, ![t].tiles = tiles]
      <4>1. call'[t].pc = call[t].pc
        BY <1>1, <3>2 DEF Calls
      <4> QED BY <1>7, <4>1 DEF RunTile, At
    <3>3. CASE call' = [call EXCEPT ![t].pc = IF IsAttempt(NextAttempt(call[t].attempt))
                                                THEN "tiled" ELSE "downscaled",
                                    ![t].attempt = NextAttempt(call[t].attempt),
                                    ![t].tile = 0, ![t].tiles = NoFrame]
      <4>1. call'[t].pc \in {"tiled", "downscaled"}
        BY <1>1, <3>3 DEF Calls
      <4> QED BY <4>1
    <3> QED BY <1>7, <3>1, <3>2, <3>3 DEF RunTile, Req
  <2>5. call'[t].pc = "post" => Depth(t)' = tiles
    BY <2>4, WrittenDepth
  <2> HIDE DEF tiles
  <2> QED BY <2>1, <2>2, <2>3, <2>5 DEF MadeOK, At, Req, NoFrame
<1>8. ASSUME RunDownscaledInference(t) PROVE MadeOK(t)'
  <2>1. selected = Req(t).model /\ UNCHANGED selected
    BY <1>1, <1>8 DEF RunDownscaledInference, MadeOK, At, Running, engineVars,
                      Engine!RunSucceeds, Engine!RunFails
  <2>2. CASE Pool!Write(t, DepthBy(selected, Req(t))) /\ Deliver(t, "downscaled")
    <3>1. Depth(t)' = DepthBy(selected, Req(t))
      BY <2>2, WrittenDepth
    <3>2. call'[t].pc = "post" /\ call'[t].req = call[t].req
      BY <1>1, <2>2, DeliverStep
    <3> QED BY <2>1, <3>1, <3>2 DEF MadeOK, At, Req, Running
  <2>3. CASE Goto(t, "unwind")
    BY <1>2, <2>3, OwnLeaves DEF Places
  <2> QED BY <1>8, <2>2, <2>3 DEF RunDownscaledInference
<1>9. ASSUME ApplyPostProcess(t) PROVE MadeOK(t)'
  <2>1. PICK cut \in BOOLEAN : Pool!Write(t, Smoothed(t, cut).depth)
    BY <1>9 DEF ApplyPostProcess, Smoothed, Mapped
  <2>2. MadeFor(Req(t), Smoothed(t, cut).depth)
    BY <1>9, PostProcessMakes DEF ApplyPostProcess
  <2>3. Depth(t)' = Smoothed(t, cut).depth
    BY <2>1, WrittenDepth
  <2>4. call'[t].pc = "publish" /\ call'[t].req = call[t].req
    BY <1>2, <1>9 DEF ApplyPostProcess, Places, Finishing
  <2> QED BY <2>2, <2>3, <2>4 DEF MadeOK, At, Req, Running
<1>10. ASSUME InsertIntoCache(t) \/ StoreFrozenOutput(t) PROVE MadeOK(t)'
  <2>1. call'[t].pc = "release" /\ call'[t].req = call[t].req
    BY <1>2, <1>10 DEF InsertIntoCache, StoreFrozenOutput, Places, Finishing
  <2>2. UNCHANGED Depth(t)
    BY <1>10 DEF InsertIntoCache, StoreFrozenOutput, poolVars, Depth
  <2>3. MadeFor(Req(t), Depth(t))
    BY <1>1, <1>10 DEF InsertIntoCache, StoreFrozenOutput, MadeOK, At
  <2> QED BY <2>1, <2>2, <2>3 DEF MadeOK, At, Req, Running
<1>11. ASSUME PostProcessThrows(t) \/ Throw(t) PROVE MadeOK(t)'
  BY <1>2, <1>11, OwnLeaves DEF PostProcessThrows, Throw, Places
<1>12. ASSUME ReturnOutput(t) \/ Unwind(t) PROVE MadeOK(t)'
  <2>1. call'[t].pc = "idle"
    BY <1>1, <1>12 DEF ReturnOutput, Unwind, ReturnSafe, Return, Idle
  <2> QED BY <2>1, OwnLeaves
<1> QED BY <1>3, <1>4, <1>5, <1>6, <1>7, <1>8, <1>9, <1>10, <1>11, <1>12 DEF Step

LEMMA StepKeepsMade ==
  ASSUME OneModelInUse, PlaceInv, MadeInv, NEW t \in Threads, Step(t)
  PROVE  MadeInv'
<1>1. PoolStep(t) /\ CallStep(t)
  BY StepKeepsPlaces DEF KeepsPlaces
<1>2. UNCHANGED selected \/ (~At(t, "idle") /\ selected' = Req(t).model)
  BY StepSelects DEF At
<1>3. ASSUME NEW u \in Threads, u # t PROVE MadeOK(u)'
  BY <1>1, <1>2, <1>3, OthersMade DEF MadeInv
<1> QED BY <1>3, OwnMade, StepKeepsHistory DEF MadeInv

LEMMA RenderKeepsMade ==
  ASSUME OneModelInUse, PlaceInv, MadeInv, NEW t \in Threads, NEW r \in Requests, Render(t, r)
  PROVE  MadeInv'
<1>1. PoolStep(t) /\ CallStep(t)
  BY RenderStep DEF KeepsPlaces
<1>2. UNCHANGED selected /\ UNCHANGED post
  BY DEF Render, engineVars
<1>3. ASSUME NEW u \in Threads, u # t PROVE MadeOK(u)'
  BY <1>1, <1>2, <1>3, OthersMade DEF MadeInv
<1>4. MadeOK(t)'
  <2>1. call \in [Threads -> Calls]
    BY DEF PlaceInv, TypeOK
  <2>2. call'[t].pc \in {"idle", "select"} /\ call'[t].tiles = NoFrame
    BY <2>1 DEF Render, Idle
  <2> QED BY <2>2 DEF MadeOK, At, Running, NoFrame
<1>5. HistoryIsOfItsHash'
  BY <1>2 DEF MadeInv, HistoryIsOfItsHash
<1> QED BY <1>3, <1>4, <1>5 DEF MadeInv

LEMMA NextKeepsMade ==
  ASSUME OneModelInUse, PlaceInv, MadeInv, [Next]_vars
  PROVE  MadeInv'
<1>1. ASSUME NEW t \in Threads, NEW r \in Requests, Render(t, r) PROVE MadeInv'
  BY <1>1, RenderKeepsMade
<1>2. ASSUME NEW t \in Threads, Step(t) PROVE MadeInv'
  BY <1>2, StepKeepsMade
<1>3. CASE \/ PurgeCache \/ PurgeFrozen \/ (\E n \in 0..MaxLimit : SetCacheLimit(n))
           \/ UNCHANGED vars
  <2>1. UNCHANGED <<selected, post, call, content, holder>>
    BY <1>3 DEF PurgeCache, PurgeFrozen, SetCacheLimit, engineVars, poolVars, stateVars, vars
  <2> QED BY <2>1 DEF MadeInv, HistoryIsOfItsHash, MadeOK, At, Req, Depth
<1> QED BY <1>1, <1>2, <1>3 DEF Next

\* What a call has at each place and what the states remember are of the
\* requests they should be of.
THEOREM MadeInvariant == ASSUME OneModelInUse PROVE Spec => [](PlaceInv /\ MadeInv)
<1>1. PlaceInv /\ MadeInv /\ [Next]_vars => MadeInv'
  BY NextKeepsMade
<1> QED BY <1>1, InitEstablishesMadeInv, PlacesInvariant, PTL DEF Spec

\* The smoothing history and the guided state of a layer never mix models,
\* sizes, layers or the settings their hash has, whatever renders, throws and
\* resets came before; how the engine was run is not among those settings.
THEOREM HistoriesFitTheirHash == ASSUME OneModelInUse PROVE Spec => []HistoryIsOfItsHash
<1>1. MadeInv => HistoryIsOfItsHash
  BY DEF MadeInv
<1> QED BY <1>1, MadeInvariant, PTL

-----------------------------------------------------------------------------
(* What is frozen, what the cache keeps and what a render shows.           *)

\* A request that mixes counts as stateful: no alpha is from 0.999 to below
\* one, unless the mapping is guided.  With such an alpha the theorems below
\* are false, as the run render_near_one shows.
MixingIsStateful == \A r \in Requests : Mixes(r) => IsStatefulPostProcess(r)

\* The settings tell whether the request mixes.
LEMMA SettingsTell ==
  ASSUME MixingIsStateful, NEW r \in Requests
  PROVE  MixingSettings(Settings(r)) <=> Mixes(r)
<1>1. PICK alpha \in Alphas : r.temporal = alpha
  BY RequestAssumption
<1>2. /\ Settings(r).mapping = r.mapping
      /\ Settings(r).temporal = Permille(alpha)
  BY <1>1 DEF Settings
<1>3. Mixes(r) <=> alpha < 10000 \/ r.mapping = "guided"
  BY <1>1 DEF Mixes, AlphaOne
<1>4. Mixes(r) => alpha < 9990 \/ r.mapping = "guided"
  BY <1>1 DEF MixingIsStateful, IsStatefulPostProcess
<1>5. alpha \in 0..10000 /\ (alpha < 10000 \/ alpha = 10000)
  BY DEF Alphas, AlphaOne
<1>6. /\ alpha < 9990 => Permille(alpha) < 1000
      /\ alpha = 10000 => ~(Permille(alpha) < 1000)
  BY <1>5 DEF Permille
<1> QED BY <1>2, <1>3, <1>4, <1>5, <1>6 DEF MixingSettings

\* FrozenOutputIsOfItsHash for one state.
FrozenFits(f, s) ==
    f.has =>
      /\ \E d \in f.output : d.look = f.hash.look
      /\ \A d \in f.output :
           /\ d.model = f.hash.model
           /\ d.look.settings = f.hash.look.settings
           /\ ~MixingSettings(f.hash.look.settings) => d.look = f.hash.look
           /\ SizeOf[d.frame] = f.hash.size
           /\ d.state = s

\* What is frozen is the depth of a call that has finished it.
LEMMA StepKeepsFrozen ==
  ASSUME MixingIsStateful, PlaceInv, MadeInv, FrozenOutputIsOfItsHash,
         NEW t \in Threads, Step(t)
  PROVE  FrozenOutputIsOfItsHash'
<1>1. frozen \in [States -> FrozenOutputs] /\ \A s \in States : FrozenFits(frozen[s], s)
  BY DEF PlaceInv, TypeOK, FrozenOutputIsOfItsHash, FrozenFits
<1>2. CASE StoreFrozenOutput(t) /\ Req(t).freeze
  <2> DEFINE r == Req(t)
             f == [has |-> TRUE, hash |-> BuildFrozenStateHash(r), output |-> Depth(t)]
  <2>1. r \in Requests /\ r.frame # EmptyFrame /\ r.state \in States
    BY <1>2, AtWork, RequestFacts DEF StoreFrozenOutput, At
  <2>2. MadeFor(r, Depth(t))
    BY <1>2 DEF StoreFrozenOutput, At, MadeInv, MadeOK
  <2>3. frozen' = [frozen EXCEPT ![r.state] = f]
    BY <1>2 DEF StoreFrozenOutput
  <2>4. /\ f.has /\ f.hash.model = r.model /\ f.hash.look = Look(r)
        /\ f.hash.look.settings = Settings(r)
        /\ f.hash.size = SizeOf[r.frame] /\ f.output = Depth(t)
    BY DEF BuildFrozenStateHash, Look
  <2> HIDE DEF r, f
  <2>5. MixingSettings(Settings(r)) <=> Mixes(r)
    BY <2>1, SettingsTell
  <2>6. FrozenFits(f, r.state)
    BY <2>2, <2>4, <2>5 DEF FrozenFits, MadeFor, OfSetting, OwnSource
  <2>7. \A s \in States : frozen'[s] = IF s = r.state THEN f ELSE frozen[s]
    BY <1>1, <2>3
  <2>8. \A s \in States : FrozenFits(frozen'[s], s)
    BY <1>1, <2>6, <2>7
  <2> QED BY <2>8 DEF FrozenOutputIsOfItsHash, FrozenFits
<1>3. CASE UNCHANGED frozen
  BY <1>3 DEF FrozenOutputIsOfItsHash
<1>4. (StoreFrozenOutput(t) /\ Req(t).freeze) \/ UNCHANGED frozen
  BY DEF Step, SelectModel, LookupCache, LookupFrozen, AcquireDepth, RunInference, RunTile,
         RunDownscaledInference, ApplyPostProcess, PostProcessThrows, InsertIntoCache,
         StoreFrozenOutput, ReturnOutput, Unwind, Throw, stateVars
<1> QED BY <1>2, <1>3, <1>4

\* Dropping frozen outputs leaves the others as they are.
LEMMA ClearKeepsFrozen ==
  ASSUME PlaceInv, FrozenOutputIsOfItsHash, NEW s \in States, ClearFrozenOutput(s)
  PROVE  FrozenOutputIsOfItsHash'
<1>1. frozen \in [States -> FrozenOutputs]
  BY DEF PlaceInv, TypeOK
<1>2. \A q \in States : frozen'[q] = IF q = s THEN NothingFrozen ELSE frozen[q]
  BY <1>1 DEF ClearFrozenOutput
<1>3. ~NothingFrozen.has
  BY DEF NothingFrozen
<1> QED BY <1>2, <1>3 DEF FrozenOutputIsOfItsHash

LEMMA NextKeepsFrozen ==
  ASSUME MixingIsStateful, PlaceInv, MadeInv, FrozenOutputIsOfItsHash, [Next]_vars
  PROVE  FrozenOutputIsOfItsHash'
<1>1. ASSUME NEW t \in Threads, Step(t) PROVE FrozenOutputIsOfItsHash'
  BY <1>1, StepKeepsFrozen
<1>2. CASE UNCHANGED frozen
  BY <1>2 DEF FrozenOutputIsOfItsHash
<1>3. ASSUME NEW t \in Threads, NEW r \in Requests, Render(t, r)
      PROVE  FrozenOutputIsOfItsHash'
  <2>1. UNCHANGED frozen \/ ClearFrozenOutput(r.state)
    BY <1>3 DEF Render
  <2> QED BY <1>2, <2>1, RequestAssumption, ClearKeepsFrozen
<1>4. CASE PurgeFrozen
  BY <1>4, PipelineAssumption, ClearKeepsFrozen DEF PurgeFrozen
<1>5. CASE PurgeCache \/ (\E n \in 0..MaxLimit : SetCacheLimit(n)) \/ UNCHANGED vars
  BY <1>2, <1>5 DEF PurgeCache, SetCacheLimit, stateVars, vars
<1> QED BY <1>1, <1>3, <1>4, <1>5 DEF Next

\* A frozen output was rendered for the state that keeps it with what its hash
\* says, whoever cleared, purged or stored it in between; where the settings
\* mix, what is mixed in may have been run in another quality.
THEOREM FrozenOutputsFitTheirHash ==
  ASSUME OneModelInUse, MixingIsStateful PROVE Spec => []FrozenOutputIsOfItsHash
<1>1. Init => FrozenOutputIsOfItsHash
  BY DEF Init, FrozenOutputIsOfItsHash, NothingFrozen
<1> QED BY <1>1, NextKeepsFrozen, MadeInvariant, PTL DEF Spec

LEMMA StepKeepsCached ==
  ASSUME MixingIsStateful, PlaceInv, MadeInv, CachedDepthIsOfItsKey, Next
  PROVE  CachedDepthIsOfItsKey'
<1>1. ASSUME NEW t \in Threads, InsertIntoCache(t) PROVE CachedDepthIsOfItsKey'
  <2> DEFINE r == Req(t)
             key == BuildCacheKey(r)
  <2>1. r \in Requests
    BY <1>1, AtWork DEF InsertIntoCache, At
  <2>2. MadeFor(r, Depth(t))
    BY <1>1 DEF InsertIntoCache, MadeInv, MadeOK, At
  <2>3. ~Mixes(r) /\ FrameHash(r) = r.frame
    BY <1>1, <2>1 DEF InsertIntoCache, ShouldUseCache, FrameHash, MixingIsStateful
  <2>4. key.model = r.model /\ key.frame = r.frame /\ key.look = Look(r)
    BY <2>3 DEF BuildCacheKey
  <2>5. Cache!Insert(key, Depth(t))
    BY <1>1 DEF InsertIntoCache
  <2> HIDE DEF r, key
  <2>6. ASSUME NEW k \in DOMAIN entries_'
        PROVE  /\ entries_'[k] # NoFrame
               /\ \A d \in entries_'[k] : d.model = k.model /\ d.frame = k.frame /\ d.look = k.look
    <3>1. CASE k = key
      <4>1. entries_'[k] = Depth(t)
        BY <2>5, <3>1, InsertChanges
      <4> QED BY <2>2, <2>3, <2>4, <3>1, <4>1 DEF MadeFor, OfSetting, OwnSource, NoFrame
    <3>2. CASE k # key
      <4>1. k \in DOMAIN entries_ /\ entries_'[k] = entries_[k]
        BY <2>5, <3>2, InsertChanges
      <4> QED BY <4>1 DEF CachedDepthIsOfItsKey
    <3> QED BY <3>1, <3>2
  <2> QED BY <2>6 DEF CachedDepthIsOfItsKey
<1>2. ASSUME NEW n, SetCacheLimit(n) PROVE CachedDepthIsOfItsKey'
  BY <1>2, LimitChanges DEF SetCacheLimit, CachedDepthIsOfItsKey
<1>3. ASSUME PurgeCache PROVE CachedDepthIsOfItsKey'
  BY <1>3 DEF PurgeCache, Cache!Clear, Cache!NoEntries, CachedDepthIsOfItsKey
<1>4. ASSUME UNCHANGED entries_ PROVE CachedDepthIsOfItsKey'
  BY <1>4 DEF CachedDepthIsOfItsKey
<1>5. ASSUME NEW t \in Threads, Step(t), ~InsertIntoCache(t) PROVE UNCHANGED entries_
  BY <1>5 DEF Step, SelectModel, LookupCache, LookupFrozen, AcquireDepth, RunInference, RunTile,
              RunDownscaledInference, ApplyPostProcess, PostProcessThrows, StoreFrozenOutput,
              ReturnOutput, Unwind, Throw, cacheVars, Cache!FindHit, Cache!FindMiss, Cache!vars
<1>6. ASSUME PurgeFrozen \/ \E t \in Threads, r \in Requests : Render(t, r)
      PROVE  UNCHANGED entries_
  BY <1>6 DEF PurgeFrozen, Render, cacheVars
<1> QED BY <1>1, <1>2, <1>3, <1>4, <1>5, <1>6 DEF Next

\* OutputIsOfRequest for one thread.
ShowsItsRequest(c) ==
    c.status \notin {"none", "safe"} /\ c.pc = "idle" =>
      /\ \E d \in c.output :
           d.look = Look(c.req) /\ (d.frame = c.req.frame \/ c.req.freeze)
      /\ \A d \in c.output :
           /\ d.model = c.req.model
           /\ d.look.settings = Settings(c.req)
           /\ SizeOf[d.frame] = SizeOf[c.req.frame]
           /\ d.frame # c.req.frame => d.state = c.req.state
           /\ ~Mixes(c.req) =>
                d.look = Look(c.req) /\ (d.frame = c.req.frame \/ c.req.freeze)

LEMMA StepShows ==
  ASSUME MixingIsStateful, PlaceInv, MadeInv, FrozenOutputIsOfItsHash, CachedDepthIsOfItsKey,
         NEW t \in Threads, Step(t)
  PROVE  ShowsItsRequest(call'[t])
<1>1. /\ call \in [Threads -> Calls] /\ NoFrame \in Depths
      /\ frozen \in [States -> FrozenOutputs]
  BY DEF PlaceInv, TypeOK, NoFrame, Depths
<1>2. ASSUME LookupCache(t) PROVE ShowsItsRequest(call'[t])
  <2> DEFINE r == Req(t)
             key == BuildCacheKey(r)
  <2>1. r \in Requests /\ r.frame # EmptyFrame /\ SharedTypes
    BY <1>2, AtWork DEF LookupCache, At
  <2>2. /\ key.model = r.model /\ key.frame = r.frame /\ key.look = Look(r)
        /\ Look(r).settings = Settings(r)
    BY <1>2 DEF LookupCache, ShouldUseCache, FrameHash, BuildCacheKey, Look
  <2>3. CASE Cache!FindHit(key) /\ Return(t, "hit", entries_[key])
    <3>1. key \in DOMAIN entries_ /\ entries_[key] \in Depths
      BY <2>1, <2>3 DEF SharedTypes, Cache!FindHit
    <3>2. /\ call'[t].req = r /\ call'[t].output = entries_[key]
      BY <1>1, <2>3, <3>1, ReturnStep DEF Req
    <3> HIDE DEF key, r
    <3>3. /\ entries_[key] # NoFrame
          /\ \A d \in entries_[key] : d.model = r.model /\ d.frame = r.frame /\ d.look = Look(r)
      BY <2>2, <3>1 DEF CachedDepthIsOfItsKey
    <3> QED BY <2>2, <3>2, <3>3 DEF ShowsItsRequest, NoFrame
  <2>4. CASE Goto(t, "acquire")
    BY <1>1, <2>4, GotoStep DEF ShowsItsRequest, Places
  <2> QED BY <1>2, <2>3, <2>4 DEF LookupCache
<1>3. ASSUME LookupFrozen(t) PROVE ShowsItsRequest(call'[t])
  <2> DEFINE r == Req(t)
             f == frozen[r.state]
  <2>1. r \in Requests /\ r.frame # EmptyFrame /\ r.state \in States
    BY <1>3, AtWork, RequestFacts DEF LookupFrozen, At
  <2>2. CASE r.freeze /\ f.has /\ f.hash = BuildFrozenStateHash(r) /\ Return(t, "hit", f.output)
    <3>1. f.output \in Depths
      BY <1>1, <2>1 DEF FrozenOutputs
    <3>2. call'[t].req = r /\ call'[t].output = f.output
      BY <1>1, <2>2, <3>1, ReturnStep DEF Req
    <3>3. /\ f.hash.model = r.model /\ f.hash.look = Look(r) /\ f.hash.size = SizeOf[r.frame]
          /\ Look(r).settings = Settings(r)
      BY <2>2 DEF BuildFrozenStateHash, Look
    <3> HIDE DEF r
    <3>4. MixingSettings(Settings(r)) <=> Mixes(r)
      BY <2>1, SettingsTell
    <3>5. FrozenFits(f, r.state)
      BY <2>1 DEF FrozenOutputIsOfItsHash, FrozenFits
    <3> HIDE DEF f
    <3> QED BY <2>2, <3>2, <3>3, <3>4, <3>5 DEF ShowsItsRequest, FrozenFits
  <2>3. CASE Goto(t, "acquire")
    BY <1>1, <2>3, GotoStep DEF ShowsItsRequest, Places
  <2> QED BY <1>3, <2>2, <2>3 DEF LookupFrozen
<1>4. ASSUME ReturnOutput(t) PROVE ShowsItsRequest(call'[t])
  <2>1. MadeFor(Req(t), Depth(t))
    BY <1>4 DEF ReturnOutput, At, MadeInv, MadeOK
  <2>2. call'[t].req = Req(t) /\ call'[t].output = Depth(t)
    BY <1>1, <1>4 DEF ReturnOutput, Return, Idle
  <2> QED BY <2>1, <2>2 DEF ShowsItsRequest, MadeFor, OfSetting, OwnSource
<1>5. ASSUME ReturnSafe(t) PROVE ShowsItsRequest(call'[t])
  BY <1>1, <1>5, ReturnStep DEF ReturnSafe, ShowsItsRequest
<1>6. ASSUME NEW p \in Places, p # "idle", Goto(t, p) PROVE ShowsItsRequest(call'[t])
  BY <1>1, <1>6, GotoStep DEF ShowsItsRequest
<1>7. ASSUME NEW status \in {"inference", "downscaled"}, Deliver(t, status)
      PROVE  ShowsItsRequest(call'[t])
  BY <1>1, <1>7, DeliverStep DEF ShowsItsRequest
<1>8. ASSUME RunTile(t) PROVE ShowsItsRequest(call'[t])
  BY <1>8, TileStep DEF ShowsItsRequest
<1>9. ASSUME SelectModel(t) \/ AcquireDepth(t) \/ ApplyPostProcess(t) \/ PostProcessThrows(t)
             \/ InsertIntoCache(t) \/ StoreFrozenOutput(t) \/ Unwind(t) \/ Throw(t)
      PROVE  ShowsItsRequest(call'[t])
  <2>1. ReturnSafe(t) \/ \E p \in Places \ {"idle"} : Goto(t, p)
    BY <1>9 DEF SelectModel, AcquireDepth, ApplyPostProcess, PostProcessThrows, InsertIntoCache,
                StoreFrozenOutput, Unwind, Throw, Places, Running, Finishing
  <2> QED BY <1>5, <1>6, <2>1
<1>10. ASSUME RunInference(t) \/ RunDownscaledInference(t) PROVE ShowsItsRequest(call'[t])
  <2>1. \/ Deliver(t, "inference") \/ Deliver(t, "downscaled")
        \/ \E p \in Places \ {"idle"} : Goto(t, p)
    BY <1>10 DEF RunInference, RunDownscaledInference, Places, Running
  <2> QED BY <1>6, <1>7, <2>1
<1> QED BY <1>2, <1>3, <1>4, <1>8, <1>9, <1>10 DEF Step

LEMMA NextShows ==
  ASSUME MixingIsStateful, PlaceInv, MadeInv, FrozenOutputIsOfItsHash, CachedDepthIsOfItsKey,
         OutputIsOfRequest, Next
  PROVE  OutputIsOfRequest'
<1>1. call \in [Threads -> Calls] /\ \A t \in Threads : ShowsItsRequest(call[t])
  BY DEF PlaceInv, TypeOK, OutputIsOfRequest, ShowsItsRequest
<1>2. ASSUME \A t \in Threads : ShowsItsRequest(call'[t]) PROVE OutputIsOfRequest'
  BY <1>2 DEF OutputIsOfRequest, ShowsItsRequest
<1>3. ASSUME NEW t \in Threads, CallStep(t), ShowsItsRequest(call'[t])
      PROVE  OutputIsOfRequest'
  BY <1>1, <1>2, <1>3 DEF CallStep
<1>4. ASSUME NEW t \in Threads, Step(t) PROVE OutputIsOfRequest'
  BY <1>3, <1>4, StepShows, StepKeepsPlaces DEF KeepsPlaces
<1>5. ASSUME NEW t \in Threads, NEW r \in Requests, Render(t, r) PROVE OutputIsOfRequest'
  <2>1. CallStep(t)
    BY <1>5, RenderStep DEF KeepsPlaces
  <2>2. call'[t].pc = "select" \/ call'[t].status = "safe"
    BY <1>1, <1>5 DEF Render, Idle
  <2> QED BY <1>3, <2>1, <2>2 DEF ShowsItsRequest
<1>6. ASSUME PurgeCache \/ PurgeFrozen \/ \E n \in 0..MaxLimit : SetCacheLimit(n)
      PROVE  OutputIsOfRequest'
  BY <1>1, <1>2, <1>6 DEF PurgeCache, PurgeFrozen, SetCacheLimit
<1> QED BY <1>4, <1>5, <1>6 DEF Next

\* Every entry of the cache is the depth of its key's frame alone, made with
\* its key's model and settings, and what a render shows, computed, cached or
\* frozen, is of its own request.
LEMMA ShownInvariant ==
  ASSUME OneModelInUse, MixingIsStateful
  PROVE  Spec => [](CachedDepthIsOfItsKey /\ OutputIsOfRequest)
<1>1. Init => CachedDepthIsOfItsKey /\ OutputIsOfRequest
  BY DEF Init, CachedDepthIsOfItsKey, OutputIsOfRequest, Idle, Cache!Init, Cache!NoEntries
<1>2. PlaceInv /\ MadeInv /\ FrozenOutputIsOfItsHash
        /\ CachedDepthIsOfItsKey /\ OutputIsOfRequest /\ [Next]_vars
        => (CachedDepthIsOfItsKey /\ OutputIsOfRequest)'
  <2>1. ASSUME UNCHANGED vars, CachedDepthIsOfItsKey, OutputIsOfRequest
        PROVE  (CachedDepthIsOfItsKey /\ OutputIsOfRequest)'
    BY <2>1 DEF vars, cacheVars, CachedDepthIsOfItsKey, OutputIsOfRequest
  <2> QED BY <2>1, StepKeepsCached, NextShows
<1> QED BY <1>1, <1>2, MadeInvariant, FrozenOutputsFitTheirHash, PTL DEF Spec

\* A depth with the history of other frames in it never gets into the cache,
\* and none under the key of another model, frame, setting or quality.
THEOREM CacheKeepsWhatItsKeysSay ==
  ASSUME OneModelInUse, MixingIsStateful PROVE Spec => []CachedDepthIsOfItsKey
BY ShownInvariant, PTL

\* A render that returns a depth returns one of its own request, whether it
\* computed it, found it in the cache or had it frozen.  One that smooths or is
\* guided may have frames of its state in it that were run in another quality.
THEOREM RendersShowTheirRequest ==
  ASSUME OneModelInUse, MixingIsStateful PROVE Spec => []OutputIsOfRequest
BY ShownInvariant, PTL
=============================================================================
