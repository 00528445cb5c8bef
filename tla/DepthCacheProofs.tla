-------------------------- MODULE DepthCacheProofs --------------------------
(***************************************************************************)
(* Proofs about DepthCache, for every set of keys and values and every    *)
(* bound on the limit.                                                     *)
(***************************************************************************)
EXTENDS DepthCache, FiniteSetTheorems, FunctionTheorems, SequenceTheorems, TLAPS

(***************************************************************************)
(* Lemmas about the list                                                   *)
(***************************************************************************)

\* Taking the element at place i out of a list.
LEMMA WithoutPlace ==
  ASSUME NEW S, NEW list \in Seq(S), NEW i \in 1..Len(list)
  PROVE  /\ RemoveAt(list, i) \in Seq(S)
         /\ Len(RemoveAt(list, i)) = Len(list) - 1
         /\ \A j \in 1..(Len(list) - 1) :
              RemoveAt(list, i)[j] = IF j < i THEN list[j] ELSE list[j + 1]
<1> DEFINE front == SubSeq(list, 1, i - 1)
           back  == SubSeq(list, i + 1, Len(list))
<1>1. Len(list) \in Nat /\ \A j \in 1..Len(list) : list[j] \in S
  BY LenProperties, ElementOfSeq
<1>2. /\ front \in Seq(S)
      /\ Len(front) = IF 1 <= i - 1 THEN (i - 1) - 1 + 1 ELSE 0
      /\ \A j \in 1..((i - 1) - 1 + 1) : front[j] = list[1 + j - 1]
  <2>1. 1 \in Int /\ i - 1 \in Int /\ \A j \in 1..(i - 1) : list[j] \in S
    BY <1>1
  <2> QED BY ONLY <2>1, SubSeqProperties
<1>3. /\ back \in Seq(S)
      /\ Len(back) = IF i + 1 <= Len(list) THEN Len(list) - (i + 1) + 1 ELSE 0
      /\ \A j \in 1..(Len(list) - (i + 1) + 1) : back[j] = list[i + 1 + j - 1]
  <2>1. i + 1 \in Int /\ Len(list) \in Int /\ \A j \in (i + 1)..Len(list) : list[j] \in S
    BY <1>1
  <2> QED BY ONLY <2>1, SubSeqProperties
<1> HIDE DEF front, back
<1>4. Len(front) = i - 1 /\ Len(back) = Len(list) - i
  <2>1. i \in Nat /\ 1 <= i /\ i <= Len(list) /\ Len(list) \in Nat
    BY <1>1
  <2>2. Len(front) = IF 1 <= i - 1 THEN (i - 1) - 1 + 1 ELSE 0
    BY <1>2
  <2>3. Len(back) = IF i + 1 <= Len(list) THEN Len(list) - (i + 1) + 1 ELSE 0
    BY <1>3
  <2> QED BY <2>1, <2>2, <2>3
<1>5. front \o back \in Seq(S) /\ Len(front \o back) = Len(list) - 1
  <2>1. front \o back \in Seq(S) /\ Len(front \o back) = Len(front) + Len(back)
    BY <1>2, <1>3, ConcatProperties
  <2> QED BY <2>1, <1>1, <1>4
<1>6. ASSUME NEW j \in 1..(Len(list) - 1)
      PROVE  (front \o back)[j] = IF j < i THEN list[j] ELSE list[j + 1]
  <2>1. \A k \in 1..(Len(front) + Len(back)) :
          (front \o back)[k] = IF k <= Len(front) THEN front[k] ELSE back[k - Len(front)]
    BY <1>2, <1>3, ConcatProperties
  <2>2. (front \o back)[j] = IF j <= i - 1 THEN front[j] ELSE back[j - (i - 1)]
    BY <2>1, <1>1, <1>4
  <2>3. CASE j < i
    <3>1. j \in 1..((i - 1) - 1 + 1) /\ 1 + j - 1 = j /\ j <= i - 1
      BY <2>3, <1>1
    <3> QED BY <2>2, <2>3, <3>1, <1>2
  <2>4. CASE ~(j < i)
    <3>1. /\ j - (i - 1) \in 1..(Len(list) - (i + 1) + 1)
          /\ i + 1 + (j - (i - 1)) - 1 = j + 1
          /\ ~(j <= i - 1)
      BY <2>4, <1>1
    <3> QED BY <2>2, <2>4, <3>1, <1>3
  <2> QED BY <2>3, <2>4
<1> QED BY <1>5, <1>6 DEF RemoveAt, front, back

\* The elements of a list without its first n, as TrimIfNeeded leaves it.
LEMMA DropOldest ==
  ASSUME NEW S, NEW list \in Seq(S), IsInjective(list), NEW n \in 0..Len(list)
  PROVE  LET rest == SubSeq(list, n + 1, Len(list)) IN
         /\ rest \in Seq(S)
         /\ Len(rest) = Len(list) - n
         /\ \A i \in 1..Len(rest) : rest[i] = list[n + i]
         /\ IsInjective(rest)
         /\ ToSet(rest) = ToSet(list) \ Oldest(list, n)
<1> DEFINE rest == SubSeq(list, n + 1, Len(list))
<1>1. /\ Len(list) \in Nat
      /\ DOMAIN list = 1..Len(list)
      /\ \A i \in 1..Len(list) : list[i] \in S
  BY LenProperties, ElementOfSeq
<1>2. /\ rest \in Seq(S)
      /\ Len(rest) = IF n + 1 <= Len(list) THEN Len(list) - (n + 1) + 1 ELSE 0
      /\ \A i \in 1..(Len(list) - (n + 1) + 1) : rest[i] = list[n + 1 + i - 1]
  <2>1. \A i \in (n + 1)..Len(list) : list[i] \in S
    BY <1>1
  <2>2. n + 1 \in Int /\ Len(list) \in Int
    BY <1>1
  <2> QED BY ONLY <2>1, <2>2, SubSeqProperties
<1>3. /\ Len(rest) = Len(list) - n
      /\ DOMAIN rest = 1..(Len(list) - n)
      /\ \A i \in 1..(Len(list) - n) : rest[i] = list[n + i]
  <2>1. Len(rest) = Len(list) - n
    <3> HIDE DEF rest
    <3>1. n \in Nat /\ n <= Len(list) /\ Len(list) \in Nat
      BY <1>1
    <3>2. Len(rest) = IF n + 1 <= Len(list) THEN Len(list) - (n + 1) + 1 ELSE 0
      BY <1>2
    <3> QED BY <3>1, <3>2
  <2>2. DOMAIN rest = 1..Len(rest)
    BY <1>2, LenProperties
  <2>3. ASSUME NEW i \in 1..(Len(list) - n)
        PROVE  rest[i] = list[n + i]
    <3>1. i \in 1..(Len(list) - (n + 1) + 1) /\ n + 1 + i - 1 = n + i
      BY <1>1
    <3> HIDE DEF rest
    <3> QED BY <3>1, <1>2
  <2> QED BY <2>1, <2>2, <2>3
<1> HIDE DEF rest
<1>4. IsInjective(rest)
  <2> SUFFICES ASSUME NEW a \in 1..(Len(list) - n), NEW b \in 1..(Len(list) - n),
                      rest[a] = rest[b]
               PROVE  a = b
    BY <1>3 DEF IsInjective
  <2>1. n + a \in DOMAIN list /\ n + b \in DOMAIN list /\ list[n + a] = list[n + b]
    BY <1>1, <1>3
  <2>2. n + a = n + b
    BY <2>1, Zenon DEF IsInjective
  <2> QED BY <1>1, <2>2
<1>5. ASSUME NEW x
      PROVE  x \in ToSet(rest) <=> x \in ToSet(list) \ Oldest(list, n)
  <2>1. ASSUME x \in ToSet(rest) PROVE x \in ToSet(list) \ Oldest(list, n)
    <3>1. PICK i \in 1..(Len(list) - n) : x = list[n + i]
      BY <2>1, <1>3 DEF ToSet
    <3>2. n + i \in 1..Len(list) /\ n + i \notin 1..n
      BY <1>1
    <3>3. ASSUME NEW j \in 1..n PROVE list[j] # x
      <4>1. j \in 1..Len(list) /\ j # n + i
        BY <1>1
      <4> QED BY <4>1, <3>1, <3>2, <1>1 DEF IsInjective
    <3> QED BY <3>1, <3>2, <3>3, <1>1 DEF ToSet, Oldest
  <2>2. ASSUME x \in ToSet(list) \ Oldest(list, n) PROVE x \in ToSet(rest)
    <3>1. PICK j \in 1..Len(list) : x = list[j]
      BY <2>2, <1>1 DEF ToSet
    <3>2. j \notin 1..n
      BY <2>2, <3>1 DEF Oldest
    <3>3. j - n \in 1..(Len(list) - n) /\ n + (j - n) = j
      BY <1>1, <3>2
    <3>4. rest[j - n] = x
      BY <3>1, <3>3, <1>3
    <3> QED BY <3>3, <3>4, <1>3 DEF ToSet
  <2> QED BY <2>1, <2>2
<1> QED BY <1>2, <1>3, <1>4, <1>5 DEF rest

\* A list without repetition has as many elements as its length.
LEMMA SizeOfList ==
  ASSUME NEW S, NEW list \in Seq(S), IsInjective(list)
  PROVE  IsFiniteSet(ToSet(list)) /\ Cardinality(ToSet(list)) = Len(list)
<1>1. Len(list) \in Nat /\ list \in [1..Len(list) -> S] /\ DOMAIN list = 1..Len(list)
  BY LenProperties
<1>2. list \in Bijection(1..Len(list), ToSet(list))
  BY <1>1 DEF Bijection, Injection, Surjection, IsInjective, ToSet
<1>3. ExistsBijection(1..Len(list), ToSet(list))
  BY <1>2 DEF ExistsBijection
<1>4. IsFiniteSet(1..Len(list)) /\ Cardinality(1..Len(list)) = Len(list)
  <2>1. \A n \in Nat : IsFiniteSet(1..n) /\ Cardinality(1..n) = n
    <3>1. \A n \in Nat : IsFiniteSet(1..n) /\
                        Cardinality(1..n) = IF 1 > n THEN 0 ELSE n - 1 + 1
      BY FS_Interval
    <3> QED BY <3>1
  <2> QED BY <1>1, <2>1
<1> QED BY <1>3, <1>4, FS_Bijection

\* After n rounds of TrimIfNeeded on a map and a list that mirror each
\* other, n entries fewer are left.
LEMMA SizeAfterRounds ==
  ASSUME NEW S, NEW list \in Seq(S), IsInjective(list), NEW n \in 0..Len(list)
  PROVE  /\ IsFiniteSet(ToSet(list) \ Oldest(list, n))
         /\ Cardinality(ToSet(list) \ Oldest(list, n)) = Len(list) - n
<1> DEFINE rest == SubSeq(list, n + 1, Len(list))
<1>1. /\ rest \in Seq(S) /\ IsInjective(rest) /\ Len(rest) = Len(list) - n
      /\ ToSet(rest) = ToSet(list) \ Oldest(list, n)
  BY DropOldest
<1> HIDE DEF rest
<1>2. IsFiniteSet(ToSet(rest)) /\ Cardinality(ToSet(rest)) = Len(rest)
  BY <1>1, SizeOfList
<1> QED BY <1>1, <1>2

\* Touch on a list that holds the key: the place the key had, and the list
\* that results.
LEMMA TouchShape ==
  ASSUME NEW S, NEW list \in Seq(S), IsInjective(list), NEW key \in S
  PROVE  /\ Touch(list, key) \in Seq(S)
         /\ key \notin ToSet(list) => Touch(list, key) = Append(list, key)
         /\ key \in ToSet(list) =>
              \E i \in 1..Len(list) :
                /\ list[i] = key
                /\ Len(Touch(list, key)) = Len(list)
                /\ \A j \in 1..Len(list) :
                     Touch(list, key)[j] = IF j < i THEN list[j]
                                           ELSE IF j < Len(list) THEN list[j + 1]
                                           ELSE key
<1>1. Len(list) \in Nat /\ DOMAIN list = 1..Len(list)
  BY LenProperties
<1>2. CASE key \notin ToSet(list)
  BY <1>2, AppendProperties DEF Touch
<1>3. CASE key \in ToSet(list)
  <2>1. PICK p \in 1..Len(list) : list[p] = key
    BY <1>1, <1>3 DEF ToSet
  <2>2. \A j \in 1..(p - 1) : list[j] # key
    BY <1>1, <2>1 DEF IsInjective
  <2> DEFINE i == FirstIndex(list, key)
  <2>3. i \in 1..Len(list) /\ list[i] = key
    BY <1>1, <2>1, <2>2 DEF FirstIndex
  <2> HIDE DEF i
  <2> DEFINE cut == RemoveAt(list, i)
  <2>4. /\ cut \in Seq(S) /\ Len(cut) = Len(list) - 1
        /\ \A j \in 1..(Len(list) - 1) : cut[j] = IF j < i THEN list[j] ELSE list[j + 1]
    BY <2>3, WithoutPlace
  <2> HIDE DEF cut
  <2>5. /\ Append(cut, key) \in Seq(S)
        /\ Len(Append(cut, key)) = Len(cut) + 1
        /\ \A j \in 1..Len(cut) : Append(cut, key)[j] = cut[j]
        /\ Append(cut, key)[Len(cut) + 1] = key
    BY <2>4, AppendProperties
  <2>6. Touch(list, key) = Append(cut, key)
    BY <1>3 DEF Touch, cut, i
  <2>7. Len(Append(cut, key)) = Len(list)
    BY <2>4, <2>5, <1>1
  <2>8. ASSUME NEW j \in 1..Len(list)
        PROVE  Append(cut, key)[j] = IF j < i THEN list[j]
                                     ELSE IF j < Len(list) THEN list[j + 1]
                                     ELSE key
    <3>1. CASE j < Len(list)
      <4>1. j \in 1..(Len(list) - 1)
        BY <3>1, <1>1
      <4> QED BY <4>1, <3>1, <2>4, <2>5
    <3>2. CASE j = Len(list)
      <4>1. ~(j < i) /\ ~(j < Len(list)) /\ j = Len(cut) + 1
        BY <3>2, <1>1, <2>3, <2>4
      <4> QED BY <4>1, <2>5
    <3>3. j < Len(list) \/ j = Len(list)
      <4>1. j \in Nat /\ j <= Len(list) /\ Len(list) \in Nat
        BY <1>1
      <4> QED BY ONLY <4>1
    <3> QED BY <3>1, <3>2, <3>3
  <2> QED BY <1>3, <2>3, <2>5, <2>6, <2>7, <2>8
<1> QED BY <1>2, <1>3

LEMMA LastOrBefore ==
  ASSUME NEW n \in Nat
  PROVE  \A m \in 1..n : m \in 1..(n - 1) \/ m = n
OBVIOUS

\* from numbers the places of t but its last one by the places of list they
\* come from: t without its last place is list without key, in list's order.
Renumbering(from, list, t, key) ==
  /\ from \in [1..(Len(t) - 1) -> 1..Len(list)]
  /\ \A m, n \in 1..(Len(t) - 1) : m < n => from[m] < from[n]
  /\ \A m \in 1..(Len(t) - 1) : t[m] = list[from[m]] /\ t[m] # key
  /\ \A j \in 1..Len(list) :
       list[j] # key => \E m \in 1..(Len(t) - 1) : from[m] = j

\* Touch is such a renumbering, with the key in the last place.
LEMMA TouchPlaces ==
  ASSUME NEW S, NEW list \in Seq(S), IsInjective(list), NEW key \in S
  PROVE  /\ Touch(list, key) \in Seq(S)
         /\ Len(Touch(list, key)) >= 1
         /\ Touch(list, key)[Len(Touch(list, key))] = key
         /\ \E from : Renumbering(from, list, Touch(list, key), key)
<1> DEFINE t == Touch(list, key)
<1>1. Len(list) \in Nat /\ DOMAIN list = 1..Len(list)
  BY LenProperties
<1>2. CASE key \notin ToSet(list)
  <2>1. t = Append(list, key)
    BY <1>2, TouchShape
  <2>2. /\ t \in Seq(S) /\ Len(t) = Len(list) + 1 /\ t[Len(list) + 1] = key
        /\ \A m \in 1..Len(list) : t[m] = list[m]
    BY <2>1, AppendProperties
  <2> HIDE DEF t
  <2>3. \A m \in 1..Len(list) : list[m] # key
    BY <1>1, <1>2 DEF ToSet
  <2>4. Len(t) - 1 = Len(list) /\ Len(t) >= 1 /\ t[Len(t)] = key
    BY <1>1, <2>2
  <2> DEFINE from == [m \in 1..Len(list) |-> m]
  <2>5. /\ from \in [1..Len(list) -> 1..Len(list)]
        /\ \A m, n \in 1..Len(list) : m < n => from[m] < from[n]
        /\ \A m \in 1..Len(list) : t[m] = list[from[m]] /\ t[m] # key
        /\ \A j \in 1..Len(list) : \E m \in 1..Len(list) : from[m] = j
    BY <2>2, <2>3
  <2> HIDE DEF from
  <2>6. Renumbering(from, list, t, key)
    <3>1. from \in [1..(Len(t) - 1) -> 1..Len(list)]
      BY <2>4, <2>5
    <3> QED BY <3>1, <2>4, <2>5 DEF Renumbering
  <2> QED BY <2>2, <2>4, <2>6 DEF t
<1>3. CASE key \in ToSet(list)
  <2>1. PICK i \in 1..Len(list) :
          /\ list[i] = key
          /\ Len(t) = Len(list)
          /\ \A j \in 1..Len(list) : t[j] = IF j < i THEN list[j]
                                          ELSE IF j < Len(list) THEN list[j + 1]
                                          ELSE key
    BY <1>3, TouchShape
  <2>2. t \in Seq(S)
    BY TouchShape
  <2> HIDE DEF t
  <2> DEFINE from == [m \in 1..(Len(list) - 1) |-> IF m < i THEN m ELSE m + 1]
  <2>3. from \in [1..(Len(list) - 1) -> 1..Len(list)]
    BY <1>1
  <2>4. \A m, n \in 1..(Len(list) - 1) : m < n => from[m] < from[n]
    BY <1>1
  <2>5. ASSUME NEW m \in 1..(Len(list) - 1)
        PROVE  t[m] = list[from[m]] /\ t[m] # key
    <3>1. m \in 1..Len(list) /\ m < Len(list) /\ from[m] \in 1..Len(list) /\ from[m] # i
      BY <1>1
    <3>2. t[m] = IF m < i THEN list[m] ELSE list[m + 1]
      BY <2>1, <3>1
    <3>3. t[m] = list[from[m]]
      BY <3>2
    <3>4. list[from[m]] # list[i]
      BY <1>1, <3>1 DEF IsInjective
    <3> QED BY <2>1, <3>3, <3>4
  <2>6. ASSUME NEW j \in 1..Len(list), list[j] # key
        PROVE  \E m \in 1..(Len(list) - 1) : from[m] = j
    <3>1. j # i
      BY <2>1, <2>6
    <3>2. CASE j < i
      <4>1. j \in 1..(Len(list) - 1) /\ from[j] = j
        BY <1>1, <3>2
      <4> QED BY <4>1
    <3>3. CASE j > i
      <4>1. j - 1 \in 1..(Len(list) - 1) /\ ~(j - 1 < i) /\ (j - 1) + 1 = j
        BY <1>1, <3>3
      <4> QED BY <4>1
    <3> QED BY <3>1, <3>2, <3>3
  <2>7. Len(t) >= 1 /\ t[Len(t)] = key
    BY <1>1, <2>1
  <2> HIDE DEF from
  <2>8. Renumbering(from, list, t, key)
    <3>1. from \in [1..(Len(t) - 1) -> 1..Len(list)]
      BY <2>1, <2>3
    <3> QED BY <3>1, <2>1, <2>4, <2>5, <2>6 DEF Renumbering
  <2> QED BY <2>2, <2>7, <2>8 DEF t
<1> QED BY <1>2, <1>3

\* What Touch does to the keys of the list, their uniqueness and their order.
LEMMA TouchUsesLast ==
  ASSUME NEW S, NEW list \in Seq(S), IsInjective(list), NEW key \in S
  PROVE  /\ Touch(list, key) \in Seq(S)
         /\ IsInjective(Touch(list, key))
         /\ ToSet(Touch(list, key)) = ToSet(list) \cup {key}
         /\ InFrontOf(Touch(list, key))
               = Promise!UsedLast(InFrontOf(list), ToSet(list), key)
<1> DEFINE t == Touch(list, key)
<1>1. Len(list) \in Nat /\ DOMAIN list = 1..Len(list)
  BY LenProperties
<1>2. t \in Seq(S) /\ Len(t) >= 1 /\ t[Len(t)] = key
  BY TouchPlaces
<1>a. PICK from : Renumbering(from, list, t, key)
  BY TouchPlaces
<1> HIDE DEF t
<1>3. /\ from \in [1..(Len(t) - 1) -> 1..Len(list)]
      /\ \A m, n \in 1..(Len(t) - 1) : m < n => from[m] < from[n]
      /\ \A m \in 1..(Len(t) - 1) : t[m] = list[from[m]] /\ t[m] # key
      /\ \A j \in 1..Len(list) :
           list[j] # key => \E m \in 1..(Len(t) - 1) : from[m] = j
  BY <1>a DEF Renumbering
<1>4. Len(t) \in Nat /\ DOMAIN t = 1..Len(t)
  BY <1>2, LenProperties
<1>5. \A m \in 1..Len(t) : m \in 1..(Len(t) - 1) \/ (m = Len(t) /\ t[m] = key)
  <2>1. \A m \in 1..Len(t) : m \in 1..(Len(t) - 1) \/ m = Len(t)
    BY <1>4, LastOrBefore
  <2> QED BY <2>1, <1>2
<1>6. IsInjective(t)
  <2> SUFFICES ASSUME NEW m \in 1..Len(t), NEW n \in 1..Len(t), m < n
               PROVE  t[m] # t[n]
    BY <1>4 DEF IsInjective
  <2>1. m \in 1..(Len(t) - 1) /\ t[m] # key
    BY <1>3, <1>4
  <2>2. CASE n \in 1..(Len(t) - 1)
    <3>1. from[m] < from[n] /\ from[m] \in 1..Len(list) /\ from[n] \in 1..Len(list)
      BY <1>3, <2>1, <2>2
    <3>2. list[from[m]] # list[from[n]]
      BY <1>1, <3>1 DEF IsInjective
    <3> QED BY <1>3, <2>1, <2>2, <3>2
  <2> QED BY <1>5, <2>1, <2>2
<1>7. ToSet(t) = ToSet(list) \cup {key}
  <2>1. ASSUME NEW x \in ToSet(t) PROVE x \in ToSet(list) \cup {key}
    <3>1. PICK m \in 1..Len(t) : x = t[m]
      BY <1>4 DEF ToSet
    <3>2. CASE m \in 1..(Len(t) - 1)
      <4>1. from[m] \in 1..Len(list) /\ x = list[from[m]]
        BY <1>3, <3>1, <3>2
      <4> QED BY <1>1, <4>1 DEF ToSet
    <3>3. CASE t[m] = key
      BY <3>1, <3>3
    <3> QED BY <1>5, <3>2, <3>3
  <2>2. ASSUME NEW x \in ToSet(list) PROVE x \in ToSet(t)
    <3>1. PICK j \in 1..Len(list) : x = list[j]
      BY <1>1 DEF ToSet
    <3>2. CASE x = key
      BY <3>2, <1>2, <1>4 DEF ToSet
    <3>3. CASE x # key
      <4>1. PICK m \in 1..(Len(t) - 1) : from[m] = j
        BY <1>3, <3>1, <3>3
      <4>2. t[m] = x /\ m \in 1..Len(t)
        BY <1>3, <1>4, <3>1, <4>1
      <4> QED BY <4>2, <1>4 DEF ToSet
    <3> QED BY <3>2, <3>3
  <2>3. key \in ToSet(t)
    BY <1>2, <1>4 DEF ToSet
  <2> QED BY <2>1, <2>2, <2>3
<1> DEFINE U == Promise!UsedLast(InFrontOf(list), ToSet(list), key)
<1>8. ASSUME NEW p \in InFrontOf(t) PROVE p \in U
  <2>1. p \in ToSet(t) \X ToSet(t)
    BY DEF InFrontOf
  <2>2. PICK m \in 1..Len(t), n \in 1..Len(t) : m < n /\ t[m] = p[1] /\ t[n] = p[2]
    BY <1>4 DEF InFrontOf
  <2>3. /\ m \in 1..(Len(t) - 1) /\ p[1] # key /\ from[m] \in 1..Len(list)
        /\ list[from[m]] = p[1]
    <3>1. m \in 1..(Len(t) - 1)
      BY <1>4, <2>2
    <3> QED BY <1>3, <2>2, <3>1
  <2>4. p[1] \in ToSet(list)
    BY <1>1, <2>3 DEF ToSet
  <2>5. CASE p[2] = key
    <3>1. p = <<p[1], key>>
      BY <2>1, <2>5
    <3> QED BY <2>3, <2>4, <3>1 DEF Promise!UsedLast
  <2>6. CASE p[2] # key
    <3>1. n \in 1..(Len(t) - 1)
      BY <1>5, <2>2, <2>6
    <3>2. from[m] < from[n] /\ from[n] \in 1..Len(list) /\ list[from[n]] = p[2]
      BY <1>3, <2>2, <2>3, <3>1
    <3>3. p[2] \in ToSet(list)
      BY <1>1, <3>2 DEF ToSet
    <3>4. p \in InFrontOf(list)
      BY <1>1, <2>1, <2>3, <2>4, <3>2, <3>3 DEF InFrontOf
    <3> QED BY <2>3, <2>6, <3>4 DEF Promise!UsedLast
  <2> QED BY <2>5, <2>6
<1>9. ASSUME NEW p \in U PROVE p \in InFrontOf(t)
  <2>1. CASE p \in InFrontOf(list) /\ p[1] # key /\ p[2] # key
    <3>1. p \in ToSet(list) \X ToSet(list)
      BY <2>1 DEF InFrontOf
    <3>2. PICK i \in 1..Len(list), j \in 1..Len(list) :
            i < j /\ list[i] = p[1] /\ list[j] = p[2]
      BY <1>1, <2>1 DEF InFrontOf
    <3>3. PICK m \in 1..(Len(t) - 1) : from[m] = i
      BY <1>3, <2>1, <3>2
    <3>4. PICK n \in 1..(Len(t) - 1) : from[n] = j
      BY <1>3, <2>1, <3>2
    <3>5. m < n
      <4>1. n < m => from[n] < from[m]
        BY <1>3
      <4>2. m # n /\ ~(from[n] < from[m])
        BY <1>1, <3>2, <3>3, <3>4
      <4> QED BY <1>4, <4>1, <4>2
    <3>6. m \in DOMAIN t /\ n \in DOMAIN t /\ t[m] = p[1] /\ t[n] = p[2]
      BY <1>3, <1>4, <3>2, <3>3, <3>4
    <3>7. p \in ToSet(t) \X ToSet(t)
      BY <1>7, <3>1
    <3> QED BY <3>5, <3>6, <3>7 DEF InFrontOf
  <2>2. CASE \E a \in ToSet(list) \ {key} : p = <<a, key>>
    <3>1. PICK a \in ToSet(list) \ {key} : p = <<a, key>>
      BY <2>2
    <3>2. PICK j \in 1..Len(list) : list[j] = a
      BY <1>1 DEF ToSet
    <3>3. PICK m \in 1..(Len(t) - 1) : from[m] = j
      BY <1>3, <3>1, <3>2
    <3>4. /\ m \in DOMAIN t /\ Len(t) \in DOMAIN t /\ m < Len(t)
          /\ t[m] = p[1] /\ t[Len(t)] = p[2]
      BY <1>2, <1>3, <1>4, <3>1, <3>2, <3>3
    <3>5. p \in ToSet(t) \X ToSet(t)
      BY <1>7, <3>1
    <3> QED BY <3>4, <3>5 DEF InFrontOf
  <2> QED BY <2>1, <2>2 DEF Promise!UsedLast
<1>10. InFrontOf(t) = U
  BY <1>8, <1>9
<1> QED BY <1>2, <1>6, <1>7, <1>10 DEF t

(***************************************************************************)
(* Lemmas about TrimIfNeeded                                               *)
(***************************************************************************)

\* On a map and a list that mirror each other the loop goes round once for
\* every entry over the limit.
LEMMA RoundsOverLimit ==
  ASSUME NEW S, NEW list \in Seq(S), IsInjective(list), NEW limit \in Nat \ {0}
  PROVE  /\ TrimRounds(ToSet(list), list, limit) \in 0..Len(list)
         /\ TrimRounds(ToSet(list), list, limit)
              = IF Len(list) <= limit THEN 0 ELSE Len(list) - limit
<1> DEFINE N == IF Len(list) <= limit THEN 0 ELSE Len(list) - limit
           First(n) == /\ TrimStops(ToSet(list), list, limit, n)
                       /\ \A m \in 0..(n - 1) : ~TrimStops(ToSet(list), list, limit, m)
<1>1. Len(list) \in Nat
  BY LenProperties
<1>2. ASSUME NEW n \in 0..Len(list)
      PROVE  TrimStops(ToSet(list), list, limit, n) <=> n >= N
  <2>1. Cardinality(ToSet(list) \ Oldest(list, n)) = Len(list) - n
    BY SizeAfterRounds
  <2>2. (n = Len(list) \/ Len(list) - n <= limit) <=> n >= N
    BY <1>1
  <2> QED BY <2>1, <2>2 DEF TrimStops
<1>3. N \in 0..Len(list)
  BY <1>1
<1> HIDE DEF N
<1>4. First(N)
  <2>1. N >= N /\ \A m \in 0..(N - 1) : m \in 0..Len(list) /\ ~(m >= N)
    BY <1>1, <1>3
  <2> QED BY <2>1, <1>2, <1>3
<1>5. ASSUME NEW n \in 0..Len(list), First(n)
      PROVE  n = N
  <2>1. n >= N
    BY <1>2, <1>5
  <2>2. ASSUME n > N PROVE FALSE
    <3>1. N \in 0..(n - 1) /\ N >= N
      BY <1>3, <2>2
    <3> QED BY <1>2, <1>3, <1>5, <3>1
  <2> QED BY <2>1, <2>2, <1>3
<1> HIDE DEF First
<1>6. TrimRounds(ToSet(list), list, limit) = CHOOSE n \in 0..Len(list) : First(n)
  BY DEF TrimRounds, First
<1>7. (CHOOSE n \in 0..Len(list) : First(n)) = N
  BY <1>3, <1>4, <1>5
<1> QED BY <1>3, <1>6, <1>7 DEF N

\* The list that TrimIfNeeded leaves of list.
Newest(list, limit) ==
  SubSeq(list, TrimRounds(ToSet(list), list, limit) + 1, Len(list))

\* It keeps the keys used last and their order, and drops no more keys than
\* the limit asks for.
LEMMA NewestStay ==
  ASSUME NEW S, NEW list \in Seq(S), IsInjective(list), NEW limit \in Nat \ {0}
  PROVE  /\ Newest(list, limit) \in Seq(S)
         /\ IsInjective(Newest(list, limit))
         /\ ToSet(Newest(list, limit))
              = ToSet(list) \ Oldest(list, TrimRounds(ToSet(list), list, limit))
         /\ Promise!Shrinks(InFrontOf(list), ToSet(list),
                            ToSet(Newest(list, limit)), limit)
         /\ InFrontOf(Newest(list, limit))
              = Promise!OrderOn(InFrontOf(list), ToSet(Newest(list, limit)))
<1>1. Len(list) \in Nat /\ DOMAIN list = 1..Len(list)
  BY LenProperties
<1>l. PICK len \in Nat : len = Len(list)
  BY <1>1
<1>n. PICK n \in Nat : n = TrimRounds(ToSet(list), list, limit)
  BY RoundsOverLimit, <1>1
<1>r. PICK rest : rest = Newest(list, limit)
  OBVIOUS
<1>2. n <= len /\ len - n <= limit /\ (n # 0 => len - n = limit)
  <2>1. n = IF len <= limit THEN 0 ELSE len - limit
    BY RoundsOverLimit, <1>l, <1>n
  <2> QED BY ONLY <2>1, limit \in Nat \ {0}, len \in Nat, n \in Nat
<1>3. rest = SubSeq(list, n + 1, Len(list))
  BY <1>n, <1>r DEF Newest
<1>4. /\ rest \in Seq(S)
      /\ Len(rest) = len - n
      /\ \A i \in 1..(len - n) : rest[i] = list[n + i]
      /\ IsInjective(rest)
      /\ ToSet(rest) = ToSet(list) \ Oldest(list, n)
  BY <1>2, <1>3, <1>l, DropOldest
<1>5. DOMAIN rest = 1..(len - n) /\ DOMAIN list = 1..len
  BY <1>1, <1>4, <1>l, LenProperties
<1>6. Promise!Shrinks(InFrontOf(list), ToSet(list), ToSet(rest), limit)
  <2>1. ASSUME NEW a \in ToSet(rest), NEW b \in ToSet(list) \ ToSet(rest)
        PROVE  <<b, a>> \in InFrontOf(list)
    <3>1. PICK i \in 1..(len - n) : a = list[n + i]
      BY <1>4, <1>5 DEF ToSet
    <3>2. PICK j \in 1..n : b = list[j]
      BY <1>4 DEF Oldest
    <3>3. j \in 1..len /\ n + i \in 1..len /\ j < n + i
      BY <1>2
    <3>4. <<b, a>> \in ToSet(list) \X ToSet(list)
      BY <1>4
    <3> QED BY <1>5, <3>1, <3>2, <3>3, <3>4 DEF InFrontOf
  <2>2. Cardinality(ToSet(rest)) = len - n
    BY <1>4, SizeOfList
  <2>3. n = 0 => ToSet(rest) = ToSet(list)
    BY <1>4 DEF Oldest
  <2> QED BY <1>4, <1>2, <2>1, <2>2, <2>3 DEF Promise!Shrinks, Promise!Cardinality, Cardinality
<1>7. ASSUME NEW p \in InFrontOf(rest)
      PROVE  p \in Promise!OrderOn(InFrontOf(list), ToSet(rest))
  <2>1. p \in ToSet(rest) \X ToSet(rest)
    BY DEF InFrontOf
  <2>2. PICK i \in 1..(len - n), j \in 1..(len - n) :
          i < j /\ rest[i] = p[1] /\ rest[j] = p[2]
    BY <1>5 DEF InFrontOf
  <2>3. /\ n + i \in DOMAIN list /\ n + j \in DOMAIN list /\ n + i < n + j
        /\ list[n + i] = p[1] /\ list[n + j] = p[2]
    <3>1. n + i \in 1..len /\ n + j \in 1..len /\ n + i < n + j
      BY <1>2, <2>2
    <3> QED BY <3>1, <1>5, <1>4, <2>2
  <2>4. p \in ToSet(list) \X ToSet(list)
    BY <1>4, <2>1
  <2> QED BY <2>1, <2>3, <2>4 DEF InFrontOf, Promise!OrderOn
<1>8. ASSUME NEW p \in Promise!OrderOn(InFrontOf(list), ToSet(rest))
      PROVE  p \in InFrontOf(rest)
  <2>1. /\ p \in ToSet(list) \X ToSet(list)
        /\ p[1] \in ToSet(rest) /\ p[2] \in ToSet(rest)
    BY DEF InFrontOf, Promise!OrderOn
  <2>2. PICK i \in 1..len, j \in 1..len :
          i < j /\ list[i] = p[1] /\ list[j] = p[2]
    BY <1>5 DEF InFrontOf, Promise!OrderOn
  <2>3. i \notin 1..n /\ j \notin 1..n
    BY <1>4, <2>1, <2>2 DEF Oldest
  <2>4. /\ i - n \in 1..(len - n) /\ j - n \in 1..(len - n) /\ i - n < j - n
        /\ n + (i - n) = i /\ n + (j - n) = j
    BY <1>2, <2>2, <2>3
  <2>5. rest[i - n] = p[1] /\ rest[j - n] = p[2]
    BY <1>4, <2>2, <2>4
  <2>6. p \in ToSet(rest) \X ToSet(rest)
    BY <2>1
  <2> QED BY <1>5, <2>4, <2>5, <2>6 DEF InFrontOf
<1>9. InFrontOf(rest) = Promise!OrderOn(InFrontOf(list), ToSet(rest))
  <2>1. \A p : p \in InFrontOf(rest) <=> p \in Promise!OrderOn(InFrontOf(list), ToSet(rest))
    BY <1>7, <1>8
  <2> QED BY <2>1
<1> QED BY <1>4, <1>6, <1>9, <1>n, <1>r

(***************************************************************************)
(* The inductive invariant                                                 *)
(***************************************************************************)

\* WithinLimit is not inductive by itself: TrimIfNeeded brings the map under
\* its limit only because the list names every key of the map.
CacheInv == TypeOK /\ LruMirrorsEntries /\ WithinLimit

\* TrimIfNeeded on a map and a list that mirror each other.
LEMMA TrimStep ==
  ASSUME NEW entries, NEW list \in Seq(Keys), IsInjective(list),
         ToSet(list) = DOMAIN entries, NEW limit \in Nat \ {0},
         TrimIfNeeded(entries, list, limit)
  PROVE  /\ lru_' = Newest(list, limit)
         /\ DOMAIN entries_' = ToSet(lru_')
         /\ entries_' = [k \in ToSet(lru_') |-> entries[k]]
         /\ lru_' \in Seq(Keys)
         /\ LruMirrorsEntries'
         /\ Promise!Shrinks(InFrontOf(list), DOMAIN entries, DOMAIN entries_', limit)
         /\ InFrontOf(lru_') = Promise!OrderOn(InFrontOf(list), DOMAIN entries_')
         /\ Cardinality(DOMAIN entries_') <= limit
<1>1. lru_' = Newest(list, limit)
  BY DEF TrimIfNeeded, Newest
<1>2. entries_' = [k \in DOMAIN entries
                         \ Oldest(list, TrimRounds(ToSet(list), list, limit)) |-> entries[k]]
  BY DEF TrimIfNeeded, Restrict
<1>3. /\ lru_' \in Seq(Keys)
      /\ IsInjective(lru_')
      /\ ToSet(lru_') = ToSet(list) \ Oldest(list, TrimRounds(ToSet(list), list, limit))
      /\ Promise!Shrinks(InFrontOf(list), ToSet(list), ToSet(lru_'), limit)
      /\ InFrontOf(lru_') = Promise!OrderOn(InFrontOf(list), ToSet(lru_'))
  BY <1>1, NewestStay
<1>4. DOMAIN entries_' = ToSet(lru_') /\ entries_' = [k \in ToSet(lru_') |-> entries[k]]
  BY <1>2, <1>3
<1>5. LruMirrorsEntries'
  BY <1>3, <1>4 DEF LruMirrorsEntries, IsInjective, ToSet
<1>6. Cardinality(DOMAIN entries_') <= limit
  BY <1>3, <1>4 DEF Promise!Shrinks, Promise!Cardinality, Cardinality
<1> QED BY <1>1, <1>3, <1>4, <1>5, <1>6

LEMMA LimitIsPositive ==
  ASSUME NEW n \in 0..MaxLimit
  PROVE  EffectiveLimit(n) \in 1..MaxLimit /\ EffectiveLimit(n) \in Nat \ {0}
BY MaxLimitAssumption DEF EffectiveLimit

\* The constructor leaves an empty map, an empty list and a positive limit.
LEMMA InitEstablishesCacheInv == Init => CacheInv
<1> SUFFICES ASSUME Init PROVE CacheInv
  OBVIOUS
<1>1. DOMAIN entries_ = {} /\ lru_ = <<>> /\ max_entries_ \in 1..MaxLimit
  BY LimitIsPositive DEF Init, NoEntries
<1>2. TypeOK
  BY <1>1, EmptySeq DEF TypeOK
<1>3. LruMirrorsEntries
  BY <1>1 DEF LruMirrorsEntries, IsInjective, ToSet
<1>4. WithinLimit
  <2>1. Cardinality(DOMAIN entries_) = 0
    BY <1>1, FS_EmptySet
  <2> QED BY <1>1, <2>1 DEF WithinLimit
<1> QED BY <1>2, <1>3, <1>4 DEF CacheInv

\* The map and the list that Insert hands to TrimIfNeeded.
LEMMA InsertedMirrors ==
  ASSUME CacheInv, NEW k \in Keys, NEW v \in Values
  PROVE  LET grown == [x \in DOMAIN entries_ \cup {k} |->
                         IF x = k THEN v ELSE entries_[x]] IN
         /\ Touch(lru_, k) \in Seq(Keys)
         /\ IsInjective(Touch(lru_, k))
         /\ ToSet(Touch(lru_, k)) = DOMAIN grown
         /\ \A x \in DOMAIN grown : grown[x] \in Values
<1>1. lru_ \in Seq(Keys) /\ IsInjective(lru_) /\ ToSet(lru_) = DOMAIN entries_
  BY DEF CacheInv, TypeOK, LruMirrorsEntries
<1>2. \A x \in DOMAIN entries_ : entries_[x] \in Values
  BY DEF CacheInv, TypeOK
<1>3. /\ Touch(lru_, k) \in Seq(Keys) /\ IsInjective(Touch(lru_, k))
      /\ ToSet(Touch(lru_, k)) = DOMAIN entries_ \cup {k}
  BY <1>1, TouchUsesLast
<1> QED BY <1>2, <1>3

LEMMA NextPreservesCacheInv == CacheInv /\ [Next]_vars => CacheInv'
<1> SUFFICES ASSUME CacheInv, [Next]_vars PROVE CacheInv'
  OBVIOUS
<1>1. /\ DOMAIN entries_ \subseteq Keys /\ entries_ \in [DOMAIN entries_ -> Values]
      /\ lru_ \in Seq(Keys) /\ IsInjective(lru_) /\ ToSet(lru_) = DOMAIN entries_
      /\ max_entries_ \in 1..MaxLimit /\ max_entries_ \in Nat \ {0}
      /\ Cardinality(DOMAIN entries_) <= max_entries_
  BY MaxLimitAssumption DEF CacheInv, TypeOK, LruMirrorsEntries, WithinLimit
<1>2. ASSUME NEW k \in Keys, FindHit(k) PROVE CacheInv'
  <2>1. /\ lru_' \in Seq(Keys) /\ IsInjective(lru_')
        /\ ToSet(lru_') = DOMAIN entries_
    <3>1. /\ Touch(lru_, k) \in Seq(Keys) /\ IsInjective(Touch(lru_, k))
          /\ ToSet(Touch(lru_, k)) = DOMAIN entries_ \cup {k}
      BY <1>1, TouchUsesLast
    <3> QED BY <1>2, <3>1 DEF FindHit
  <2>2. entries_' = entries_ /\ max_entries_' = max_entries_
    BY <1>2 DEF FindHit
  <2>3. TypeOK'
    BY <1>1, <2>1, <2>2 DEF TypeOK
  <2>4. LruMirrorsEntries'
    BY <2>1, <2>2 DEF LruMirrorsEntries, IsInjective, ToSet
  <2>5. WithinLimit'
    BY <1>1, <2>2 DEF WithinLimit
  <2> QED BY <2>3, <2>4, <2>5 DEF CacheInv
<1>3. ASSUME NEW k \in Keys, NEW v \in Values, Insert(k, v) PROVE CacheInv'
  <2> DEFINE grown == [x \in DOMAIN entries_ \cup {k} |-> IF x = k THEN v ELSE entries_[x]]
  <2>1. /\ Touch(lru_, k) \in Seq(Keys) /\ IsInjective(Touch(lru_, k))
        /\ ToSet(Touch(lru_, k)) = DOMAIN grown
        /\ \A x \in DOMAIN grown : grown[x] \in Values
    BY InsertedMirrors
  <2>2. TrimIfNeeded(grown, Touch(lru_, k), max_entries_) /\ max_entries_' = max_entries_
    BY <1>3 DEF Insert
  <2>3. DOMAIN grown \subseteq Keys
    BY <1>1
  <2> HIDE DEF grown
  <2>4. /\ DOMAIN entries_' = ToSet(lru_') /\ lru_' \in Seq(Keys) /\ LruMirrorsEntries'
        /\ entries_' = [x \in ToSet(lru_') |-> grown[x]]
        /\ Cardinality(DOMAIN entries_') <= max_entries_
        /\ Promise!Shrinks(InFrontOf(Touch(lru_, k)), DOMAIN grown, DOMAIN entries_', max_entries_)
    BY <1>1, <2>1, <2>2, TrimStep
  <2>5. DOMAIN entries_' \subseteq DOMAIN grown
    BY <2>4 DEF Promise!Shrinks
  <2>6. TypeOK'
    BY <1>1, <2>1, <2>2, <2>3, <2>4, <2>5 DEF TypeOK
  <2> QED BY <2>2, <2>4, <2>6 DEF CacheInv, WithinLimit
<1>4. ASSUME Clear PROVE CacheInv'
  <2>1. DOMAIN entries_' = {} /\ lru_' = <<>> /\ max_entries_' = max_entries_
    BY <1>4 DEF Clear, NoEntries
  <2>2. TypeOK'
    BY <1>1, <2>1, EmptySeq DEF TypeOK
  <2>3. LruMirrorsEntries'
    BY <2>1 DEF LruMirrorsEntries, IsInjective, ToSet
  <2>4. WithinLimit'
    <3>1. Cardinality(DOMAIN entries_') = 0
      BY <2>1, FS_EmptySet
    <3> QED BY <1>1, <2>1, <3>1 DEF WithinLimit
  <2> QED BY <2>2, <2>3, <2>4 DEF CacheInv
<1>5. ASSUME NEW n \in 0..MaxLimit, SetLimit(n) PROVE CacheInv'
  <2>1. /\ TrimIfNeeded(entries_, lru_, EffectiveLimit(n))
        /\ max_entries_' = EffectiveLimit(n)
    BY <1>5 DEF SetLimit
  <2>2. EffectiveLimit(n) \in 1..MaxLimit /\ EffectiveLimit(n) \in Nat \ {0}
    BY LimitIsPositive
  <2>3. /\ DOMAIN entries_' = ToSet(lru_') /\ lru_' \in Seq(Keys) /\ LruMirrorsEntries'
        /\ entries_' = [x \in ToSet(lru_') |-> entries_[x]]
        /\ Cardinality(DOMAIN entries_') <= max_entries_'
        /\ Promise!Shrinks(InFrontOf(lru_), DOMAIN entries_, DOMAIN entries_', max_entries_')
    BY <1>1, <2>1, <2>2, TrimStep
  <2>4. DOMAIN entries_' \subseteq DOMAIN entries_
    BY <2>3 DEF Promise!Shrinks
  <2>5. TypeOK'
    BY <1>1, <2>1, <2>2, <2>3, <2>4 DEF TypeOK
  <2> QED BY <2>3, <2>5 DEF CacheInv, WithinLimit
<1>6. ASSUME UNCHANGED vars PROVE CacheInv'
  BY <1>6 DEF vars, CacheInv, TypeOK, LruMirrorsEntries, WithinLimit, IsInjective, ToSet
<1> QED BY <1>2, <1>3, <1>4, <1>5, <1>6 DEF Next, FindMiss

THEOREM CacheInvariant == Spec => []CacheInv
BY InitEstablishesCacheInv, NextPreservesCacheInv, PTL DEF Spec

\* The limit and the shapes of the map and the list hold for all sets of
\* keys and frames.
THEOREM CacheTypes == Spec => []TypeOK
BY CacheInvariant, PTL DEF CacheInv

\* Cache.cpp keeps entries_ and lru_ in step through every Find, Insert,
\* Clear and SetLimit.
THEOREM CacheListMirrorsMap == Spec => []LruMirrorsEntries
BY CacheInvariant, PTL DEF CacheInv

\* No sequence of operations leaves more than max_entries_ frames stored.
THEOREM CacheStaysWithinLimit == Spec => []WithinLimit
BY CacheInvariant, PTL DEF CacheInv

(***************************************************************************)
(* The cache implements the bounded map ordered by last use                *)
(***************************************************************************)

LEMMA InitRefines == Init => Promise!Init
<1> SUFFICES ASSUME Init PROVE Promise!Init
  OBVIOUS
<1>1. entries_ = [k \in {} |-> k] /\ lru_ = <<>> /\ max_entries_ \in 1..MaxLimit
  BY LimitIsPositive DEF Init, NoEntries
<1>2. InFrontOf(lru_) = {}
  BY <1>1 DEF InFrontOf, ToSet
<1> QED BY <1>1, <1>2 DEF Promise!Init

LEMMA StepRefines == CacheInv /\ [Next]_vars => [Promise!Next]_(Promise!vars)
<1> SUFFICES ASSUME CacheInv, [Next]_vars PROVE [Promise!Next]_(Promise!vars)
  OBVIOUS
<1>1. /\ lru_ \in Seq(Keys) /\ IsInjective(lru_) /\ ToSet(lru_) = DOMAIN entries_
      /\ DOMAIN entries_ \subseteq Keys
      /\ max_entries_ \in 1..MaxLimit /\ max_entries_ \in Nat \ {0}
  BY MaxLimitAssumption DEF CacheInv, TypeOK, LruMirrorsEntries
<1>2. ASSUME NEW k \in Keys, FindHit(k) PROVE Promise!Hit(k)
  <2>1. InFrontOf(lru_') = Promise!UsedLast(InFrontOf(lru_), DOMAIN entries_, k)
    BY <1>1, <1>2, TouchUsesLast DEF FindHit
  <2>2. InFrontOf(lru_)' = InFrontOf(lru_')
    BY DEF InFrontOf, ToSet
  <2> QED BY <1>2, <2>1, <2>2 DEF FindHit, Promise!Hit
<1>3. ASSUME NEW k \in Keys, NEW v \in Values, Insert(k, v) PROVE Promise!Put(k, v)
  <2> DEFINE grown == [x \in DOMAIN entries_ \cup {k} |-> IF x = k THEN v ELSE entries_[x]]
             order == Promise!UsedLast(InFrontOf(lru_), DOMAIN entries_, k)
  <2>1. /\ Touch(lru_, k) \in Seq(Keys) /\ IsInjective(Touch(lru_, k))
        /\ ToSet(Touch(lru_, k)) = DOMAIN grown
    BY InsertedMirrors
  <2>2. InFrontOf(Touch(lru_, k)) = order
    BY <1>1, TouchUsesLast
  <2>3. TrimIfNeeded(grown, Touch(lru_, k), max_entries_) /\ max_entries_' = max_entries_
    BY <1>3 DEF Insert
  <2>4. DOMAIN grown = DOMAIN entries_ \cup {k}
    OBVIOUS
  <2>5. \A x \in DOMAIN grown : grown[x] = IF x = k THEN v ELSE entries_[x]
    OBVIOUS
  <2> HIDE DEF grown, order
  <2>6. /\ entries_' = [x \in DOMAIN entries_' |-> grown[x]]
        /\ Promise!Shrinks(order, DOMAIN grown, DOMAIN entries_', max_entries_)
        /\ InFrontOf(lru_') = Promise!OrderOn(order, DOMAIN entries_')
    BY <1>1, <2>1, <2>2, <2>3, TrimStep
  <2>7. DOMAIN entries_' \subseteq DOMAIN grown
    BY <2>6 DEF Promise!Shrinks
  <2>8. entries_' = [x \in DOMAIN entries_' |-> IF x = k THEN v ELSE entries_[x]]
    BY <2>5, <2>6, <2>7
  <2>9. InFrontOf(lru_)' = InFrontOf(lru_')
    BY DEF InFrontOf, ToSet
  <2>10. \E Kept \in SUBSET (DOMAIN entries_ \cup {k}) :
           /\ Promise!Shrinks(order, DOMAIN entries_ \cup {k}, Kept, max_entries_)
           /\ entries_' = [x \in Kept |-> IF x = k THEN v ELSE entries_[x]]
           /\ InFrontOf(lru_)' = Promise!OrderOn(order, Kept)
           /\ max_entries_' = max_entries_
    BY <2>3, <2>4, <2>6, <2>7, <2>8, <2>9
  <2> QED BY <2>10 DEF Promise!Put, order
<1>4. ASSUME Clear PROVE Promise!Empty
  <2>1. InFrontOf(lru_)' = {}
    BY <1>4 DEF Clear, InFrontOf, ToSet
  <2> QED BY <1>4, <2>1 DEF Clear, NoEntries, Promise!Empty
<1>5. ASSUME NEW n \in 0..MaxLimit, SetLimit(n)
      PROVE  EffectiveLimit(n) \in 1..MaxLimit /\ Promise!Resize(EffectiveLimit(n))
  <2>1. /\ TrimIfNeeded(entries_, lru_, EffectiveLimit(n))
        /\ max_entries_' = EffectiveLimit(n)
    BY <1>5 DEF SetLimit
  <2>2. EffectiveLimit(n) \in 1..MaxLimit /\ EffectiveLimit(n) \in Nat \ {0}
    BY LimitIsPositive
  <2>3. /\ entries_' = [x \in DOMAIN entries_' |-> entries_[x]]
        /\ Promise!Shrinks(InFrontOf(lru_), DOMAIN entries_, DOMAIN entries_', EffectiveLimit(n))
        /\ InFrontOf(lru_') = Promise!OrderOn(InFrontOf(lru_), DOMAIN entries_')
    BY <1>1, <2>1, <2>2, TrimStep
  <2>4. DOMAIN entries_' \subseteq DOMAIN entries_
    BY <2>3 DEF Promise!Shrinks
  <2>5. InFrontOf(lru_)' = InFrontOf(lru_')
    BY DEF InFrontOf, ToSet
  <2> QED BY <2>1, <2>2, <2>3, <2>4, <2>5 DEF Promise!Resize
<1>6. ASSUME UNCHANGED vars PROVE UNCHANGED Promise!vars
  BY <1>6 DEF vars, Promise!vars, InFrontOf, ToSet
<1> QED BY <1>2, <1>3, <1>4, <1>5, <1>6 DEF Next, FindMiss, Promise!Next

\* Cache.cpp keeps the promise of RecencyCache: only the keys used longest
\* ago are evicted, and only over the limit.
THEOREM CacheImplementsRecencyCache == Spec => ImplementsRecencyCache
BY InitRefines, StepRefines, CacheInvariant, PTL
   DEF Spec, ImplementsRecencyCache, Promise!Spec
=============================================================================
