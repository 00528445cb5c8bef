----------------------------- MODULE BufferPool -----------------------------
(***************************************************************************)
(* plugin/core/BufferPool.cpp: depth buffers handed to rendering threads   *)
(* and taken back.  A buffer is on free_list_, held by one thread through  *)
(* the PooledFrame of its render, or not allocated.                        *)
(***************************************************************************)
EXTENDS Integers, SequencesExt

CONSTANTS Buffers,    \* addresses an allocation can return
          NoBuffer,   \* the thread holds none
          Users,      \* threads that render
          Descs,      \* FrameDesc values (width, height, channels)
          Contents,   \* what a buffer can hold
          Zero,       \* a buffer filled with 0.0F
          max_buffers_ \* argument of the constructor

\* What whoever has a pool must give it; RenderPipeline assumes it of its own.
PoolAssumption ==
    /\ max_buffers_ \in Nat \ {0}
    /\ NoBuffer \notin Buffers
    /\ Zero \in Contents

VARIABLES free_list_, \* std::vector of buffers
          desc,       \* [Buffers -> Descs]
          content,    \* [Buffers -> Contents]
          holder      \* [Users -> Buffers or NoBuffer]

vars == <<free_list_, desc, content, holder>>

Held == { holder[u] : u \in Users } \ {NoBuffer}

Unallocated == Buffers \ (ToSet(free_list_) \cup Held)

Init ==
    /\ free_list_ = <<>>
    /\ desc \in { [b \in Buffers |-> d] : d \in Descs }
    /\ content = [b \in Buffers |-> Zero]
    /\ holder = [u \in Users |-> NoBuffer]

\* The places of free_list_ whose buffer has the size asked for.
Fitting(d) == { i \in DOMAIN free_list_ : desc[free_list_[i]] = d }

FirstFitting(d) == CHOOSE i \in Fitting(d) : \A j \in Fitting(d) : i <= j

\* Acquire: the first buffer that fits leaves the list and is cleared ...
ReuseUncleared(u, d) ==
    /\ Fitting(d) # {}
    /\ holder' = [holder EXCEPT ![u] = free_list_[FirstFitting(d)]]
    /\ free_list_' = RemoveAt(free_list_, FirstFitting(d))
    /\ UNCHANGED <<content, desc>>

ReuseOnList(u, d) ==
    /\ Fitting(d) # {}
    /\ holder' = [holder EXCEPT ![u] = free_list_[FirstFitting(d)]]
    /\ content' = [content EXCEPT ![free_list_[FirstFitting(d)]] = Zero]
    /\ UNCHANGED <<free_list_, desc>>

Reuse(u, d) ==
    /\ Fitting(d) # {}
    /\ holder' = [holder EXCEPT ![u] = free_list_[FirstFitting(d)]]
    /\ free_list_' = RemoveAt(free_list_, FirstFitting(d))
    /\ content' = [content EXCEPT ![free_list_[FirstFitting(d)]] = Zero]
    /\ UNCHANGED desc

\* ... or make_shared allocates one.
Allocate(u, d) ==
    /\ Fitting(d) = {}
    /\ \E b \in Unallocated :
         /\ holder' = [holder EXCEPT ![u] = b]
         /\ desc' = [desc EXCEPT ![b] = d]
         /\ content' = [content EXCEPT ![b] = Zero]
    /\ UNCHANGED free_list_

Acquire(u, d) ==
    /\ holder[u] = NoBuffer
    /\ Reuse(u, d) \/ Allocate(u, d)

\* The thread that holds a buffer writes into it.
Write(u, c) ==
    /\ holder[u] # NoBuffer
    /\ content' = [content EXCEPT ![holder[u]] = c]
    /\ UNCHANGED <<free_list_, desc, holder>>

\* Release, from the destructor of PooledFrame: a full list lets the buffer go.
Release(u) ==
    /\ holder[u] # NoBuffer
    /\ holder' = [holder EXCEPT ![u] = NoBuffer]
    /\ IF Len(free_list_) >= max_buffers_
         THEN UNCHANGED free_list_
         ELSE free_list_' = Append(free_list_, holder[u])
    /\ UNCHANGED <<content, desc>>

Next ==
    \E u \in Users :
      \/ \E d \in Descs : Acquire(u, d)
      \/ \E c \in Contents : Write(u, c)
      \/ Release(u)

Spec == Init /\ [][Next]_vars

-----------------------------------------------------------------------------
\* Types of the list, the buffers and the threads' handles.
TypeOK ==
    /\ free_list_ \in Seq(Buffers)
    /\ desc \in [Buffers -> Descs]
    /\ content \in [Buffers -> Contents]
    /\ holder \in [Users -> Buffers \cup {NoBuffer}]

\* A buffer has one owner: no two threads hold it, none holds it while it is
\* on the list, and the list names it once.
OneOwner ==
    /\ \A u, v \in Users : holder[u] = holder[v] /\ u # v => holder[u] = NoBuffer
    /\ Held \cap ToSet(free_list_) = {}
    /\ IsInjective(free_list_)

\* The list keeps at most max_buffers_ buffers however many threads render.
ListWithinMax == Len(free_list_) <= max_buffers_

\* A thread that acquires a buffer gets it cleared, whatever the render
\* before wrote into it.
AcquiredIsClear ==
    [][\A u \in Users :
         holder[u] = NoBuffer /\ holder'[u] # NoBuffer => content'[holder'[u]] = Zero]_vars
=============================================================================
