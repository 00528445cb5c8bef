----------------------------- MODULE DepthCache -----------------------------
(***************************************************************************)
(* plugin/core/Cache.cpp: the cache of finished depth frames.  entries_ is *)
(* the hash map, lru_ the list of its keys with the key used last at the   *)
(* back, max_entries_ the limit.  Every operation holds mutex_ from its    *)
(* first read to its last write, so each is one action.                    *)
(***************************************************************************)
EXTENDS Integers, SequencesExt

CONSTANTS Keys,     \* RenderCacheKey values
          Values,   \* FrameBuffer values
          MaxLimit  \* bound on the limits passed to the constructor and SetLimit

ASSUME MaxLimitAssumption == MaxLimit \in Nat \ {0}

VARIABLES entries_, lru_, max_entries_

vars == <<entries_, lru_, max_entries_>>

NoEntries == [k \in {} |-> k]

\* A limit of zero means one.
EffectiveLimit(n) == IF n = 0 THEN 1 ELSE n

\* Touch: the first occurrence of key leaves the list, key goes to the back.
TouchKeepsPlace(list, key) == IF key \in ToSet(list) THEN list ELSE Append(list, key)

FirstIndex(list, key) ==
    CHOOSE i \in DOMAIN list : /\ list[i] = key
                               /\ \A j \in 1..(i - 1) : list[j] # key

Touch(list, key) ==
    IF key \in ToSet(list)
      THEN Append(RemoveAt(list, FirstIndex(list, key)), key)
      ELSE Append(list, key)

\* The keys the first n rounds of TrimIfNeeded take from the list.
Oldest(list, n) == { list[i] : i \in 1..n }

\* TrimIfNeeded goes round while the map is over the limit and the list is
\* not empty: the number of rounds is the first n at which it stops.
TrimStops(keys, list, limit, n) ==
    n = Len(list) \/ Cardinality(keys \ Oldest(list, n)) <= limit

TrimRounds(keys, list, limit) ==
    CHOOSE n \in 0..Len(list) :
      /\ TrimStops(keys, list, limit, n)
      /\ \A m \in 0..(n - 1) : ~TrimStops(keys, list, limit, m)

TrimIfNeeded(entries, list, limit) ==
    LET n == TrimRounds(DOMAIN entries, list, limit) IN
    /\ entries_' = Restrict(entries, DOMAIN entries \ Oldest(list, n))
    /\ lru_' = SubSeq(list, n + 1, Len(list))

-----------------------------------------------------------------------------
Init ==
    /\ entries_ = NoEntries
    /\ lru_ = <<>>
    /\ \E n \in 0..MaxLimit : max_entries_ = EffectiveLimit(n)

\* Find: a hit copies the value out and touches the key.
FindHit(k) ==
    /\ k \in DOMAIN entries_
    /\ lru_' = Touch(lru_, k)
    /\ UNCHANGED <<entries_, max_entries_>>

\* Find: a miss returns before it changes anything.
FindMiss(k) ==
    /\ k \notin DOMAIN entries_
    /\ UNCHANGED vars

Insert(k, v) ==
    /\ TrimIfNeeded(
         [x \in DOMAIN entries_ \cup {k} |-> IF x = k THEN v ELSE entries_[x]],
         Touch(lru_, k),
         max_entries_)
    /\ UNCHANGED max_entries_

ClearMapOnly ==
    /\ entries_' = NoEntries
    /\ UNCHANGED <<lru_, max_entries_>>

Clear ==
    /\ entries_' = NoEntries
    /\ lru_' = <<>>
    /\ UNCHANGED max_entries_

SetLimitNoTrim(n) ==
    /\ max_entries_' = EffectiveLimit(n)
    /\ UNCHANGED <<entries_, lru_>>

SetLimit(n) ==
    /\ max_entries_' = EffectiveLimit(n)
    /\ TrimIfNeeded(entries_, lru_, EffectiveLimit(n))

Next ==
    \/ \E k \in Keys : FindHit(k)
    \/ \E k \in Keys : FindMiss(k)
    \/ \E k \in Keys, v \in Values : Insert(k, v)
    \/ Clear
    \/ \E n \in 0..MaxLimit : SetLimit(n)

Spec == Init /\ [][Next]_vars

-----------------------------------------------------------------------------
\* Types of the map, the list and the limit.
TypeOK ==
    /\ DOMAIN entries_ \subseteq Keys
    /\ entries_ \in [DOMAIN entries_ -> Values]
    /\ lru_ \in Seq(Keys)
    /\ max_entries_ \in 1..MaxLimit

\* The list holds exactly the keys of the map, each of them once, whatever
\* order of finds, inserts, clears and limit changes led here.  A key only
\* in the map could never be evicted; a key only in the list would make a
\* round of TrimIfNeeded evict nothing.
LruMirrorsEntries ==
    /\ ToSet(lru_) = DOMAIN entries_
    /\ IsInjective(lru_)

\* Between two operations the map holds no more frames than max_entries_,
\* also after SetLimit has lowered the limit under what is stored.
WithinLimit == Cardinality(DOMAIN entries_) <= max_entries_

\* The pairs <<a, b>> of keys with a in front of b in the list.
InFrontOf(list) ==
    { p \in ToSet(list) \X ToSet(list) :
        \E i, j \in DOMAIN list : i < j /\ list[i] = p[1] /\ list[j] = p[2] }

Promise ==
    INSTANCE RecencyCache WITH store <- entries_,
                               usedBefore <- InFrontOf(lru_),
                               limit <- max_entries_

\* The map and the list implement the bounded map that drops the entries
\* used longest ago: the order in the list is the order of last use.

ImplementsRecencyCache == Promise!Spec
=============================================================================
