------------------------------ MODULE MemoryPool ------------------------------
(***************************************************************************)
(* MemoryPool (include/utils/MemoryPool.hpp): raw slots for objects, and a *)
(* freelist of slot numbers, used as a stack.  One thread uses a pool.     *)
(***************************************************************************)
EXTENDS Integers, SequencesExt

CONSTANTS Capacity,  \* capacity_
          Object,
          NoObject   \* a slot in which no object lives

Slot == 0 .. (Capacity - 1)

VARIABLES storage,   \* storage_: the object that lives in each slot
          freelist,  \* freelist_
          allocated  \* allocated_

vars == <<storage, freelist, allocated>>

Live == {i \in Slot : storage[i] # NoObject}

\* In descending order, so that slot 0 is handed out first.
Init == /\ storage = [i \in Slot |-> NoObject]
        /\ freelist = [n \in 1 .. Capacity |-> Capacity - n]
        /\ allocated = 0

KeepFreelist == freelist  \* Mutant: the slot stays on the freelist.

Popped == Front(freelist)

\* alloc(); with an empty freelist it throws and changes nothing.
Alloc(x) ==
  /\ freelist # <<>>
  /\ storage' = [storage EXCEPT ![Last(freelist)] = x]
  /\ freelist' = Popped
  /\ allocated' = allocated + 1

(***************************************************************************)
(* dealloc() of the objects in a sequence of slots, one after the other.   *)
(* The caller owes that each is live: freeing it twice is undefined.       *)
(***************************************************************************)
Dealloc(freed) ==
  /\ storage' = [i \in Slot |-> IF i \in ToSet(freed) THEN NoObject ELSE storage[i]]
  /\ freelist' = freelist \o freed
  /\ allocated' = allocated - Len(freed)

Next == \/ \E x \in Object : Alloc(x)
        \/ \E i \in Live : Dealloc(<<i>>)

Spec == Init /\ [][Next]_vars

------------------------------------------------------------------------------
(***************************************************************************)
(* The freelist holds the slots in which nothing lives, each once, and     *)
(* allocated_ counts the others: a slot is never handed out twice or lost. *)
(***************************************************************************)
FreelistExact == /\ ToSet(freelist) = Slot \ Live
                 /\ Len(freelist) = Cardinality(Slot \ Live)
                 /\ allocated = Cardinality(Live)
==============================================================================
