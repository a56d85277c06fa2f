---------------------------- MODULE SpscRingBuffer ----------------------------
(***************************************************************************)
(* SpscRingBuffer (include/utils/SpscRingBuffer.hpp): one producer thread  *)
(* calls push(), one consumer thread calls pop(), one step per access to   *)
(* memory the threads share.                                               *)
(*                                                                         *)
(* The C++ memory model.  An atomic index is its modification order, the   *)
(* sequence of the values stored in it: a load by the other thread returns *)
(* any value not older than the last one that thread saw, and an acquire   *)
(* load of a released value orders what the other thread did before that   *)
(* store before what this thread does next.  The slots are plain memory:   *)
(* accesses of the two threads to one slot must be so ordered, which the   *)
(* ghost variables released and synced record.                             *)
(***************************************************************************)
EXTENDS Integers, Sequences, FiniteSets

CONSTANTS Capacity,  \* capacity_, after nextPow2()
          Item,
          NoItem,    \* no object lives in the slot
          MaxPushes  \* bound: items pushed

ASSUME CapacityAssumption == Capacity \in Nat /\ Capacity >= 2
ASSUME ItemAssumption == NoItem \notin Item
ASSUME PushesAssumption == MaxPushes \in Nat

Slot == 0 .. (Capacity - 1)
Thread == {"producer", "consumer"}

VARIABLES
  heads,     \* head_: every value stored in it, oldest first
  tails,     \* tail_: likewise
  slots,     \* the object that lives in each slot, or NoItem
  seenHead,  \* position in heads of the value the producer last loaded
  seenTail,  \* position in tails of the value the consumer last loaded
  push,      \* where the producer is; "full" when push() returned false
  pop,       \* where the consumer is; "empty" when pop() returned nullopt
  item,      \* the argument of the last push() that found room
  popped,    \* the item the last successful pop() took
  released,  \* ghost: for each thread and slot, the position of the store
             \* that releases its last access to the slot
  synced     \* ghost: for each thread, the position of the other thread's
             \* store up to which it is synchronized

vars == <<heads, tails, slots, seenHead, seenTail, push, pop, item, popped,
          released, synced>>

\* What each thread knows of its own index: a relaxed load of the last store.
WriteIndex == tails[Len(tails)]
ReadIndex == heads[Len(heads)]

NoMask(i) == i + 1  \* Mutant: the index runs off the array.

\* (i + 1) & mask_
After(i) == IF i = Capacity - 1 THEN 0 ELSE i + 1

NeverFull(tail, head) == FALSE  \* Mutant: no check.

IsFull(tail, head) == After(tail) = head

IsEmpty(tail, head) == head = tail

\* Mutant: a relaxed load synchronizes with nothing.
Relaxed(position, n) == position

\* memory_order_acquire: the loading thread synchronizes with store n.
Acquire(position, n) == n

------------------------------------------------------------------------------
Init == /\ heads = <<0>>
        /\ tails = <<0>>
        /\ slots = [i \in Slot |-> NoItem]
        /\ seenHead = 1
        /\ seenTail = 1
        /\ push = "ready"
        /\ pop = "ready"
        /\ item = NoItem
        /\ popped = NoItem
        /\ released = [t \in Thread |-> [i \in Slot |-> 1]]
        /\ synced = [t \in Thread |-> 1]

(***************************************************************************)
(* push(): load head_, construct the item in the slot, store tail_.        *)
(***************************************************************************)
LoadHead(n) ==
  /\ push \in {"ready", "full"}
  /\ n \in seenHead .. Len(heads)
  /\ seenHead' = n
  /\ synced' = [synced EXCEPT !["producer"] = Acquire(@, n)]
  /\ UNCHANGED <<heads, tails, slots, seenTail, pop, popped, released>>

PushFull ==
  \E n \in 1 .. Len(heads) : /\ LoadHead(n)
                             /\ IsFull(WriteIndex, heads[n])
                             /\ push' = "full"
                             /\ UNCHANGED item

PushRoom(x) ==
  \E n \in 1 .. Len(heads) : /\ LoadHead(n)
                             /\ ~IsFull(WriteIndex, heads[n])
                             /\ push' = "construct"
                             /\ item' = x

Construct ==
  /\ push = "construct"
  /\ slots' = [slots EXCEPT ![WriteIndex] = item]
  /\ released' = [released EXCEPT !["producer"][WriteIndex] = Len(tails) + 1]
  /\ push' = "publish"
  /\ UNCHANGED <<heads, tails, seenHead, seenTail, pop, item, popped, synced>>

Publish ==
  /\ push = "publish"
  /\ tails' = Append(tails, After(WriteIndex))
  /\ push' = "ready"
  /\ UNCHANGED <<heads, slots, seenHead, seenTail, pop, item, popped, released, synced>>

(***************************************************************************)
(* pop(): load tail_, move the item out and destroy it, store head_.       *)
(***************************************************************************)
LoadTail(n) ==
  /\ pop \in {"ready", "empty"}
  /\ n \in seenTail .. Len(tails)
  /\ seenTail' = n
  /\ synced' = [synced EXCEPT !["consumer"] = Acquire(@, n)]
  /\ UNCHANGED <<heads, tails, slots, seenHead, push, item, popped, released>>

PopEmpty ==
  \E n \in 1 .. Len(tails) : /\ LoadTail(n)
                             /\ IsEmpty(tails[n], ReadIndex)
                             /\ pop' = "empty"

PopItem ==
  \E n \in 1 .. Len(tails) : /\ LoadTail(n)
                             /\ ~IsEmpty(tails[n], ReadIndex)
                             /\ pop' = "take"

Take ==
  /\ pop = "take"
  /\ popped' = slots[ReadIndex]
  /\ slots' = [slots EXCEPT ![ReadIndex] = NoItem]
  /\ released' = [released EXCEPT !["consumer"][ReadIndex] = Len(heads) + 1]
  /\ pop' = "free"
  /\ UNCHANGED <<heads, tails, seenHead, seenTail, push, item, synced>>

FreeAll == tails[seenTail]  \* Mutant: head_ jumps to the tail_ it loaded.

FreeOne == After(ReadIndex)

Free ==
  /\ pop = "free"
  /\ heads' = Append(heads, FreeOne)
  /\ pop' = "ready"
  /\ UNCHANGED <<tails, slots, seenHead, seenTail, push, item, popped, released, synced>>

------------------------------------------------------------------------------
Producer == \/ PushFull
            \/ Len(tails) <= MaxPushes /\ \E x \in Item : PushRoom(x)
            \/ Construct
            \/ Publish

Consumer == PopEmpty \/ PopItem \/ Take \/ Free

Next == Producer \/ Consumer

Spec == Init /\ [][Next]_vars

------------------------------------------------------------------------------
TypeOK == /\ heads \in Seq(Slot) /\ heads # <<>>
          /\ tails \in Seq(Slot) /\ tails # <<>>
          /\ slots \in [Slot -> Item \cup {NoItem}]
          /\ seenHead \in DOMAIN heads
          /\ seenTail \in DOMAIN tails
          /\ push \in {"ready", "full", "construct", "publish"}
          /\ pop \in {"ready", "empty", "take", "free"}
          /\ item \in Item \cup {NoItem}
          /\ popped \in Item \cup {NoItem}
          /\ released \in [Thread -> [Slot -> Nat]]
          /\ synced \in [Thread -> Nat]

(***************************************************************************)
(* No data race on a slot: when a thread is about to access it, the other  *)
(* thread's last access has been released by a store that this thread has  *)
(* acquired - though the index it loaded may be an old one.                *)
(***************************************************************************)
NoDataRace ==
  /\ push = "construct" => released["consumer"][WriteIndex] <= synced["producer"]
  /\ pop = "take" => released["producer"][ReadIndex] <= synced["consumer"]

(***************************************************************************)
(* push() constructs only in a slot without a live object (it would leak), *)
(* and pop() moves from a live one: what was not popped is not overwritten *)
(* when the indices wrap.                                                  *)
(***************************************************************************)
SlotLifetimes == /\ push = "construct" => slots[WriteIndex] = NoItem
                 /\ pop = "take" => slots[ReadIndex] # NoItem

(***************************************************************************)
(* The ring implements a bounded FIFO of Capacity - 1 items: an item is in *)
(* from the store of tail_ until it is moved out.                          *)
(***************************************************************************)
Inside == LET taken == IF pop = "free" THEN 1 ELSE 0 IN
          [i \in 1 .. (Len(tails) - Len(heads) - taken) |->
             slots[(ReadIndex + taken + i - 1) % Capacity]]

Fifo == INSTANCE BoundedFifo WITH queue <- Inside, out <- popped, Slots <- Capacity - 1

ImplementsFifo == Fifo!Spec
==============================================================================
