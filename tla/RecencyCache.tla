---------------------------- MODULE RecencyCache ----------------------------
(***************************************************************************)
(* What the depth cache promises its callers, without the std::list and    *)
(* the std::unordered_map that DepthCache keeps: a bounded partial map and *)
(* the order in which its keys were last used.  A key leaves only when     *)
(* every key that stays was used after it, and only as long as the map is  *)
(* over its limit.                                                         *)
(***************************************************************************)
EXTENDS Integers, FiniteSets

CONSTANTS Keys,     \* cache keys
          Values,   \* frame buffers
          MaxLimit  \* bound on the limits a caller sets

VARIABLES store,    \* [subset of Keys -> Values]
          usedBefore, \* pairs <<a, b>>: a was last used before b
          limit     \* the most entries the map may hold

vars == <<store, usedBefore, limit>>

\* The order over the keys of K only.
OrderOn(order, K) == { p \in order : p[1] \in K /\ p[2] \in K }

\* The order after k is used: k comes after all the other keys of K.
UsedLast(order, K, k) ==
    { p \in order : p[1] # k /\ p[2] # k } \cup { <<a, k>> : a \in K \ {k} }

\* K may shrink to Kept: the kept keys are the ones used last, and no more
\* keys go than the limit asks for.
Shrinks(order, K, Kept, n) ==
    /\ Kept \subseteq K
    /\ \A a \in Kept, b \in K \ Kept : <<b, a>> \in order
    /\ Cardinality(Kept) <= n
    /\ Kept # K => Cardinality(Kept) = n

Init ==
    /\ store = [k \in {} |-> k]
    /\ usedBefore = {}
    /\ limit \in 1..MaxLimit

\* A hit returns the value and makes k the key used last.
Hit(k) ==
    /\ k \in DOMAIN store
    /\ usedBefore' = UsedLast(usedBefore, DOMAIN store, k)
    /\ UNCHANGED <<store, limit>>

\* k is stored with v as the key used last; the keys used longest ago leave.
Put(k, v) ==
    LET K     == DOMAIN store \cup {k}
        order == UsedLast(usedBefore, DOMAIN store, k)
    IN  \E Kept \in SUBSET K :
          /\ Shrinks(order, K, Kept, limit)
          /\ store' = [x \in Kept |-> IF x = k THEN v ELSE store[x]]
          /\ usedBefore' = OrderOn(order, Kept)
          /\ UNCHANGED limit

Resize(n) ==
    \E Kept \in SUBSET DOMAIN store :
      /\ Shrinks(usedBefore, DOMAIN store, Kept, n)
      /\ store' = [x \in Kept |-> store[x]]
      /\ usedBefore' = OrderOn(usedBefore, Kept)
      /\ limit' = n

Empty ==
    /\ store' = [k \in {} |-> k]
    /\ usedBefore' = {}
    /\ UNCHANGED limit

Next ==
    \/ \E k \in Keys : Hit(k)
    \/ \E k \in Keys, v \in Values : Put(k, v)
    \/ \E n \in 1..MaxLimit : Resize(n)
    \/ Empty

Spec == Init /\ [][Next]_vars
=============================================================================
