------------------------- MODULE SpscRingBufferProofs -------------------------
(***************************************************************************)
(* Theorems about SpscRingBuffer, for every capacity, every set of items   *)
(* and any number of pushes: no data race, no slot overwritten or read     *)
(* empty, and a bounded FIFO for the two threads.                          *)
(*                                                                         *)
(* The items are numbered 1, 2, 3, ... in the order of the pushes.  Item k *)
(* goes to slot SlotOf(k), and the k-th value of either index is SlotOf(k) *)
(* too.  So everything becomes a statement about numbers that only grow,   *)
(* and wrapping around matters in SameSlot alone.                          *)
(***************************************************************************)
EXTENDS SpscRingBuffer, SequenceTheorems, TLAPS

USE CapacityAssumption, ItemAssumption, PushesAssumption

SlotOf(k) == (k - 1) % Capacity

\* The oldest item that was not moved out, and the next one to construct.
Oldest == IF pop = "free" THEN Len(heads) + 1 ELSE Len(heads)
Fresh == IF push = "publish" THEN Len(tails) + 1 ELSE Len(tails)

------------------------------------------------------------------------------
(***************************************************************************)
(* Division, of which the provers know the defining equation only.         *)
(***************************************************************************)

\* Quotient and remainder of an integer.
LEMMA Division ==
  ASSUME NEW c \in Nat, c >= 1, NEW a \in Int
  PROVE  /\ a \div c \in Int /\ a % c \in 0 .. (c - 1)
         /\ a = c * (a \div c) + (a % c)
OBVIOUS

\* A multiple of c that is not 0 is at least c.
LEMMA MultipleBound ==
  ASSUME NEW c \in Nat, c >= 1, NEW q \in Int, q >= 1
  PROVE  c * q >= c
OBVIOUS

\* Quotient and remainder are unique.
LEMMA DivisionUnique ==
  ASSUME NEW c \in Nat, c >= 1, NEW q \in Int, NEW p \in Int,
         NEW r \in 0 .. (c - 1), NEW s \in 0 .. (c - 1),
         c * q + r = c * p + s
  PROVE  r = s
<1>1. CASE q > p
  <2>1. c * (q - p) >= c
    BY <1>1, MultipleBound
  <2>2. c * (q - p) = s - r
    OBVIOUS
  <2>3. QED
    BY <2>1, <2>2
<1>2. CASE q < p
  <2>1. c * (p - q) >= c
    BY <1>2, MultipleBound
  <2>2. c * (p - q) = r - s
    OBVIOUS
  <2>3. QED
    BY <2>1, <2>2
<1>3. CASE q = p
  BY <1>3
<1>4. QED
  BY <1>1, <1>2, <1>3

\* A number and its remainder plus a multiple of c have the same remainder.
LEMMA SameRemainder ==
  ASSUME NEW c \in Nat, c >= 1, NEW a \in Int, NEW q \in Int, NEW r \in 0 .. (c - 1),
         a = c * q + r
  PROVE  a % c = r
<1>1. /\ a \div c \in Int /\ a % c \in 0 .. (c - 1)
      /\ a = c * (a \div c) + (a % c)
  BY Division
<1>2. QED
  BY <1>1, DivisionUnique

------------------------------------------------------------------------------
(***************************************************************************)
(* Slots.                                                                  *)
(***************************************************************************)

\* Every item has a slot.
LEMMA SlotType ==
  ASSUME NEW k \in Nat, k >= 1
  PROVE  SlotOf(k) \in Slot
BY Division DEF SlotOf, Slot

\* Two items that share a slot are at least a lap apart.
LEMMA SameSlot ==
  ASSUME NEW j \in Nat, NEW k \in Nat, 1 <= j, j < k, SlotOf(j) = SlotOf(k)
  PROVE  k - j >= Capacity
<1> DEFINE p == (j - 1) \div Capacity
           q == (k - 1) \div Capacity
           r == SlotOf(j)
<1>1. /\ p \in Int /\ q \in Int /\ r \in Int
      /\ j - 1 = Capacity * p + r
      /\ k - 1 = Capacity * q + r
  BY Division DEF SlotOf
<1> HIDE DEF p, q, r
<1>2. k - j = Capacity * (q - p)
  BY <1>1
<1>3. q - p >= 1
  <2>1. SUFFICES ASSUME p - q >= 0 PROVE FALSE
    BY <1>1
  <2>2. Capacity * (p - q) >= 0
    BY <2>1, <1>1
  <2>3. QED
    BY <2>2, <1>1, <1>2
<1>4. Capacity * (q - p) >= Capacity
  BY <1>1, <1>3, MultipleBound
<1>5. QED
  BY <1>2, <1>4

\* Different items less than a lap apart have different slots.
LEMMA OtherSlot ==
  ASSUME NEW j \in Nat, NEW k \in Nat, 1 <= j, 1 <= k, j # k,
         k < j + Capacity, j < k + Capacity
  PROVE  SlotOf(j) # SlotOf(k)
<1>1. CASE j < k
  <2>1. ~(k - j >= Capacity)
    OBVIOUS
  <2>2. QED
    BY <1>1, <2>1, SameSlot
<1>2. CASE k < j
  <2>1. ~(j - k >= Capacity)
    OBVIOUS
  <2>2. QED
    BY <1>2, <2>1, SameSlot
<1>3. QED
  BY <1>1, <1>2

\* A lap later the slot is the same.
LEMMA LapSlot ==
  ASSUME NEW k \in Nat, k >= 1
  PROVE  SlotOf(k + Capacity) = SlotOf(k)
<1> DEFINE q == (k - 1) \div Capacity
           r == SlotOf(k)
<1>1. q \in Int /\ r \in 0 .. (Capacity - 1) /\ k - 1 = Capacity * q + r
  BY Division DEF SlotOf
<1> HIDE DEF q, r
<1>2. k + Capacity - 1 = Capacity * (q + 1) + r
  BY <1>1
<1>3. (k + Capacity - 1) % Capacity = r
  BY <1>1, <1>2, SameRemainder
<1>4. QED
  BY <1>3 DEF SlotOf, r

\* Every slot is visited in every lap.
LEMMA LapCovers ==
  ASSUME NEW n \in Nat, n >= 1, NEW i \in Slot
  PROVE  \E k \in n .. (n + Capacity - 1) : SlotOf(k) = i
<1> DEFINE a == i - (n - 1)
           q == a \div Capacity
           r == a % Capacity
           p == 0 - q
           b == n + r - 1
<1>1. /\ a \in Int /\ i \in 0 .. (Capacity - 1)
  BY DEF Slot
<1>2. q \in Int /\ r \in 0 .. (Capacity - 1) /\ a = Capacity * q + r
  BY <1>1, Division
<1>3. b \in Int /\ p \in Int /\ b = Capacity * p + i
  <2>1. q + p = 0 /\ p \in Int
    BY <1>2
  <2>2. Capacity * q + Capacity * p = 0
    BY <2>1, <1>2
  <2>3. b = i - Capacity * q
    BY <1>1, <1>2
  <2>4. QED
    BY <1>1, <1>2, <2>1, <2>2, <2>3
<1> HIDE DEF p, b
<1>4. b % Capacity = i
  BY <1>1, <1>3, SameRemainder
<1>5. n + r \in n .. (n + Capacity - 1) /\ SlotOf(n + r) = i
  BY <1>2, <1>4 DEF SlotOf, b
<1>6. QED
  BY <1>5

\* After() is the slot of the next item: masking is the remainder.
LEMMA NextSlot ==
  ASSUME NEW k \in Nat, k >= 1
  PROVE  After(SlotOf(k)) = SlotOf(k + 1)
<1> DEFINE q == (k - 1) \div Capacity
           r == SlotOf(k)
<1>1. q \in Int /\ r \in 0 .. (Capacity - 1) /\ k - 1 = Capacity * q + r
  BY Division DEF SlotOf
<1> HIDE DEF q, r
<1>2. CASE r = Capacity - 1
  <2>1. k = Capacity * (q + 1) + 0
    BY <1>1, <1>2
  <2>2. k % Capacity = 0
    BY <1>1, <2>1, SameRemainder
  <2>3. QED
    BY <2>2, <1>2 DEF After, SlotOf, r
<1>3. CASE r # Capacity - 1
  <2>1. k = Capacity * q + (r + 1) /\ r + 1 \in 0 .. (Capacity - 1)
    BY <1>1, <1>3
  <2>2. k % Capacity = r + 1
    BY <1>1, <2>1, SameRemainder
  <2>3. QED
    BY <2>2, <1>3 DEF After, SlotOf, r
<1>4. QED
  BY <1>2, <1>3

\* The n-th slot after that of item k, counted around.
LEMMA SlotAhead ==
  ASSUME NEW k \in Nat, k >= 1, NEW n \in Nat
  PROVE  (SlotOf(k) + n) % Capacity = SlotOf(k + n)
<1> DEFINE q == (k - 1) \div Capacity
           p == (k + n - 1) \div Capacity
           r == SlotOf(k)
           s == SlotOf(k + n)
           d == p - q
           a == r + n
<1>1. /\ q \in Int /\ r \in 0 .. (Capacity - 1) /\ k - 1 = Capacity * q + r
      /\ p \in Int /\ s \in 0 .. (Capacity - 1) /\ k + n - 1 = Capacity * p + s
  BY Division DEF SlotOf
<1> HIDE DEF p, q, r, s
<1>2. a = Capacity * d + s /\ d \in Int /\ a \in Int
  BY <1>1
<1> HIDE DEF d, a
<1>3. a % Capacity = s
  BY <1>1, <1>2, SameRemainder
<1>4. QED
  BY <1>3 DEF r, s, a

------------------------------------------------------------------------------
(***************************************************************************)
(* The inductive invariant.                                                *)
(***************************************************************************)

\* The values of both indices run around the ring.
IndexInv == /\ \A n \in DOMAIN heads : heads[n] = SlotOf(n)
            /\ \A n \in DOMAIN tails : tails[n] = SlotOf(n)

(***************************************************************************)
(* What the threads may rely on although the index they loaded is old: the *)
(* producer has at most a lap to go from the head_ it saw, with room left  *)
(* once push() has found some, and the consumer is not beyond the tail_ it *)
(* saw, before it once pop() has found an item.                            *)
(***************************************************************************)
LoadInv == /\ Len(tails) - seenHead < Capacity
           /\ push \in {"construct", "publish"} => Len(tails) - seenHead < Capacity - 1
           /\ Len(heads) <= seenTail
           /\ pop \in {"take", "free"} => Len(heads) < seenTail

\* The lap that starts at the oldest item: its items are there, the rest is free.
LapInv == \A k \in Oldest .. (Oldest + Capacity - 1) :
            slots[SlotOf(k)] # NoItem <=> k < Fresh

\* What push() was called with is what it constructs.
ItemInv == /\ push \in {"construct", "publish"} => item \in Item
           /\ push = "publish" => slots[SlotOf(Len(tails))] = item

\* The access of a thread to the slot of item k is released by store k + 1.
ReleasedUpTo(t, last) ==
  \A i \in Slot : \/ released[t][i] = 1
                  \/ \E k \in 1 .. last : SlotOf(k) = i /\ released[t][i] = k + 1

GhostInv == /\ ReleasedUpTo("consumer", Oldest - 1)
            /\ ReleasedUpTo("producer", Fresh - 1)
            /\ synced["producer"] = seenHead
            /\ synced["consumer"] = seenTail

IInv == TypeOK /\ IndexInv /\ LoadInv /\ LapInv /\ ItemInv /\ GhostInv

\* What the numbers and the two indices are.
LEMMA Counts ==
  ASSUME IInv
  PROVE  /\ Len(heads) \in Nat /\ Len(tails) \in Nat
         /\ seenHead \in Nat /\ seenTail \in Nat /\ Oldest \in Nat /\ Fresh \in Nat
         /\ 1 <= seenHead /\ seenHead <= Len(heads)
         /\ Len(heads) <= seenTail /\ seenTail <= Len(tails)
         /\ Len(heads) <= Oldest /\ Oldest <= Len(tails) /\ Len(tails) <= Fresh
         /\ Fresh < Oldest + Capacity
         /\ WriteIndex = SlotOf(Len(tails)) /\ WriteIndex \in Slot
         /\ ReadIndex = SlotOf(Len(heads)) /\ ReadIndex \in Slot
<1>1. /\ Len(heads) \in Nat /\ Len(heads) >= 1 /\ DOMAIN heads = 1 .. Len(heads)
      /\ Len(tails) \in Nat /\ Len(tails) >= 1 /\ DOMAIN tails = 1 .. Len(tails)
  BY EmptySeq, LenProperties DEF IInv, TypeOK
<1>2. /\ seenHead \in 1 .. Len(heads) /\ seenTail \in 1 .. Len(tails)
  BY <1>1 DEF IInv, TypeOK
<1>3. /\ Oldest \in Nat /\ Fresh \in Nat /\ Len(heads) <= Oldest
      /\ Oldest <= Len(tails) /\ Len(tails) <= Fresh
      /\ Fresh < Oldest + Capacity
  BY <1>1, <1>2 DEF IInv, LoadInv, Oldest, Fresh
<1>4. /\ WriteIndex = SlotOf(Len(tails)) /\ ReadIndex = SlotOf(Len(heads))
  BY <1>1 DEF WriteIndex, ReadIndex, IInv, IndexInv
<1>5. /\ SlotOf(Len(tails)) \in Slot /\ SlotOf(Len(heads)) \in Slot
  BY <1>1, SlotType
<1>6. QED
  BY <1>1, <1>2, <1>3, <1>4, <1>5 DEF IInv, LoadInv

\* Initially no item is there and none was taken.
LEMMA InitIInv == Init => IInv
<1> SUFFICES ASSUME Init PROVE IInv
  OBVIOUS
<1> USE DEF Init
<1>1. 0 \in Slot /\ SlotOf(1) = 0
  <2>1. 0 = Capacity * 0 + 0 /\ 0 \in 0 .. (Capacity - 1)
    OBVIOUS
  <2>2. 0 % Capacity = 0
    BY <2>1, SameRemainder
  <2>3. QED
    BY <2>2 DEF Slot, SlotOf
<1>2. /\ heads \in Seq(Slot) /\ Len(heads) = 1 /\ heads # <<>> /\ DOMAIN heads = {1}
      /\ tails \in Seq(Slot) /\ Len(tails) = 1 /\ tails # <<>> /\ DOMAIN tails = {1}
  BY <1>1
<1>3. Oldest = 1 /\ Fresh = 1
  BY <1>2 DEF Oldest, Fresh
<1>4. TypeOK
  BY <1>2 DEF TypeOK, Thread
<1>5. IndexInv
  BY <1>1, <1>2 DEF IndexInv
<1>6. LoadInv /\ ItemInv
  BY <1>2 DEF LoadInv, ItemInv
<1>7. LapInv
  BY <1>3, SlotType DEF LapInv
<1>8. GhostInv
  BY <1>3 DEF GhostInv, ReleasedUpTo, Thread
<1>9. QED
  BY <1>4, <1>5, <1>6, <1>7, <1>8 DEF IInv

------------------------------------------------------------------------------
(***************************************************************************)
(* Every step preserves the invariant.                                     *)
(***************************************************************************)

(***************************************************************************)
(* push() loads head_.  The load may return an old value, which makes the  *)
(* ring look fuller than it is but never emptier: where the next index is  *)
(* another one than the one loaded, there is room.                         *)
(***************************************************************************)
LEMMA LoadHeadStep ==
  ASSUME IInv, NEW n \in 1 .. Len(heads), LoadHead(n),
         \/ push' = "full" /\ UNCHANGED item
         \/ push' = "construct" /\ item' \in Item /\ ~IsFull(WriteIndex, heads[n])
  PROVE  IInv'
<1> USE DEF LoadHead
<1>1. /\ n \in Nat /\ seenHead <= n /\ n <= Len(heads) /\ n \in DOMAIN heads
      /\ push # "publish" /\ push' # "publish"
  BY Counts, LenProperties DEF IInv, TypeOK
<1>2. Oldest' = Oldest /\ Fresh' = Fresh
  BY <1>1 DEF Oldest, Fresh
<1>3. TypeOK'
  BY <1>1, Counts DEF IInv, TypeOK, Acquire, Thread
<1>4. IndexInv'
  BY DEF IInv, IndexInv
<1>5. LoadInv'
  <2>1. Len(tails) - n < Capacity
    BY <1>1, Counts DEF IInv, LoadInv
  <2>2. CASE push' = "construct"
    <3>1. heads[n] = SlotOf(n)
      BY <1>1 DEF IInv, IndexInv
    <3>2. After(WriteIndex) = SlotOf(Len(tails) + 1)
      BY Counts, NextSlot
    <3>3. Len(tails) + 1 # n + Capacity
      BY <2>2, <3>1, <3>2, <1>1, LapSlot DEF IsFull
    <3>4. QED
      BY <2>1, <3>3, <1>1, Counts DEF IInv, LoadInv
  <2>3. CASE push' = "full"
    BY <2>1, <2>3 DEF IInv, LoadInv
  <2>4. QED
    BY <2>2, <2>3
<1>6. LapInv'
  BY <1>2 DEF IInv, LapInv
<1>7. ItemInv'
  BY <1>1 DEF ItemInv
<1>8. GhostInv'
  BY <1>2 DEF IInv, TypeOK, GhostInv, ReleasedUpTo, Acquire, Thread
<1>9. QED
  BY <1>3, <1>4, <1>5, <1>6, <1>7, <1>8 DEF IInv

\* push() returns false.
LEMMA PushFullStep ==
  ASSUME IInv, PushFull
  PROVE  IInv'
BY LoadHeadStep DEF PushFull

\* push() goes on.
LEMMA PushRoomStep ==
  ASSUME IInv, NEW x \in Item, PushRoom(x)
  PROVE  IInv'
BY LoadHeadStep DEF PushRoom

\* The item is constructed in the only free slot that it can be.
LEMMA ConstructStep ==
  ASSUME IInv, Construct
  PROVE  IInv'
<1> USE DEF Construct
<1>1. /\ push = "construct" /\ push' = "publish" /\ item \in Item
      /\ Oldest' = Oldest /\ Fresh = Len(tails) /\ Fresh' = Len(tails) + 1
      /\ Len(tails) < Oldest + Capacity - 1
  BY Counts DEF IInv, LoadInv, ItemInv, Oldest, Fresh
<1>2. /\ WriteIndex = SlotOf(Len(tails)) /\ WriteIndex \in Slot
      /\ slots'[WriteIndex] = item
      /\ \A i \in Slot : i # WriteIndex => slots'[i] = slots[i]
  BY Counts DEF IInv, TypeOK
<1>3. TypeOK'
  <2>1. slots' \in [Slot -> Item \cup {NoItem}]
    BY <1>1, <1>2 DEF IInv, TypeOK
  <2>2. released["producer"] \in [Slot -> Nat]
    BY DEF IInv, TypeOK, Thread
  <2>3. [released["producer"] EXCEPT ![WriteIndex] = Len(tails) + 1] \in [Slot -> Nat]
    BY <2>2, Counts
  <2>4. released' \in [Thread -> [Slot -> Nat]]
    BY <2>3 DEF IInv, TypeOK, Thread
  <2>5. QED
    BY <1>1, <2>1, <2>4 DEF IInv, TypeOK
<1>4. IndexInv' /\ LoadInv'
  BY <1>1 DEF IInv, IndexInv, LoadInv
<1>5. LapInv'
  <2>1. SUFFICES ASSUME NEW k \in Oldest .. (Oldest + Capacity - 1)
                 PROVE  slots'[SlotOf(k)] # NoItem <=> k < Len(tails) + 1
    BY <1>1 DEF LapInv
  <2>2. k \in Nat /\ k >= 1 /\ SlotOf(k) \in Slot
    BY Counts, SlotType
  <2>3. CASE k = Len(tails)
    BY <2>3, <1>1, <1>2, Counts
  <2>4. CASE k # Len(tails)
    <3>1. SlotOf(k) # WriteIndex
      <4> DEFINE t == Len(tails)
      <4>1. /\ t \in Nat /\ 1 <= t /\ k # t
            /\ k < t + Capacity /\ t < k + Capacity
        BY <2>1, <2>4, <1>1, Counts
      <4>2. WriteIndex = SlotOf(t)
        BY <1>2
      <4> HIDE DEF t
      <4>3. QED
        BY <4>1, <4>2, <2>2, OtherSlot
    <3>2. slots[SlotOf(k)] # NoItem <=> k < Len(tails)
      BY <1>1 DEF IInv, LapInv
    <3>3. QED
      BY <3>1, <3>2, <2>2, <2>4, <1>2, Counts
  <2>5. QED
    BY <2>3, <2>4
<1>6. ItemInv'
  BY <1>1, <1>2, Counts DEF ItemInv
<1>7. GhostInv'
  <2>1. ReleasedUpTo("consumer", Oldest - 1)'
    BY <1>1 DEF IInv, TypeOK, GhostInv, ReleasedUpTo, Thread
  <2>2. ReleasedUpTo("producer", Fresh - 1)'
    <3>1. SUFFICES ASSUME NEW i \in Slot
                   PROVE  \/ released'["producer"][i] = 1
                          \/ \E k \in 1 .. Len(tails) :
                               SlotOf(k) = i /\ released'["producer"][i] = k + 1
      BY <1>1, Counts DEF ReleasedUpTo
    <3>2. CASE i = WriteIndex
      <4>1. released'["producer"][i] = Len(tails) + 1
        BY <3>2 DEF IInv, TypeOK, Thread
      <4>2. Len(tails) \in 1 .. Len(tails)
        BY Counts
      <4>3. QED
        BY <4>1, <4>2, <3>2, <1>2
    <3>3. CASE i # WriteIndex
      <4>1. released'["producer"][i] = released["producer"][i]
        BY <3>3 DEF IInv, TypeOK, Thread
      <4>2. \/ released["producer"][i] = 1
            \/ \E k \in 1 .. (Len(tails) - 1) :
                 SlotOf(k) = i /\ released["producer"][i] = k + 1
        BY <1>1 DEF IInv, GhostInv, ReleasedUpTo
      <4>3. QED
        BY <4>1, <4>2, Counts
    <3>4. QED
      BY <3>2, <3>3
  <2>3. QED
    BY <2>1, <2>2 DEF IInv, GhostInv
<1>8. QED
  BY <1>3, <1>4, <1>5, <1>6, <1>7 DEF IInv

\* The store of tail_: the item that was constructed is inside.
LEMMA PublishStep ==
  ASSUME IInv, Publish
  PROVE  IInv'
<1> USE DEF Publish
<1> DEFINE T == Len(tails)
<1>1. /\ push = "publish" /\ push' = "ready"
      /\ T \in Nat /\ T >= 1 /\ T - seenHead < Capacity - 1
  BY Counts DEF IInv, LoadInv
<1>2. /\ tails' \in Seq(Slot) /\ Len(tails') = T + 1 /\ tails' # <<>>
      /\ DOMAIN tails' = 1 .. (T + 1) /\ DOMAIN tails = 1 .. T
      /\ tails'[T + 1] = SlotOf(T + 1)
      /\ \A n \in 1 .. T : tails'[n] = tails[n]
  <2>1. After(WriteIndex) = SlotOf(T + 1)
    BY <1>1, Counts, NextSlot
  <2>2. tails \in Seq(Slot) /\ SlotOf(T + 1) \in Slot
    BY <1>1, SlotType DEF IInv, TypeOK
  <2>3. tails' = Append(tails, SlotOf(T + 1))
    BY <2>1
  <2>4. QED
    BY <2>2, <2>3, <1>1, AppendProperties, LenProperties
<1>3. Oldest' = Oldest /\ Fresh' = Fresh
  BY <1>1, <1>2 DEF Oldest, Fresh
<1>4. TypeOK'
  BY <1>1, <1>2, Counts DEF IInv, TypeOK
<1>5. IndexInv'
  BY <1>1, <1>2 DEF IInv, IndexInv
<1>6. LoadInv'
  BY <1>1, <1>2, Counts DEF IInv, LoadInv
<1>7. LapInv' /\ ItemInv'
  BY <1>1, <1>3 DEF IInv, LapInv, ItemInv
<1>8. GhostInv'
  BY <1>3 DEF IInv, GhostInv, ReleasedUpTo
<1>9. QED
  BY <1>4, <1>5, <1>6, <1>7, <1>8 DEF IInv

(***************************************************************************)
(* pop() loads tail_: an old value makes the ring look emptier than it is, *)
(* but where it is not the consumer's own index there is an item.          *)
(***************************************************************************)
LEMMA LoadTailStep ==
  ASSUME IInv, NEW n \in 1 .. Len(tails), LoadTail(n),
         \/ pop' = "empty"
         \/ pop' = "take" /\ ~IsEmpty(tails[n], ReadIndex)
  PROVE  IInv'
<1> USE DEF LoadTail
<1>1. /\ n \in Nat /\ seenTail <= n /\ n <= Len(tails) /\ n \in DOMAIN tails
      /\ pop # "free" /\ pop' # "free"
  BY Counts, LenProperties DEF IInv, TypeOK
<1>2. Oldest' = Oldest /\ Fresh' = Fresh
  BY <1>1 DEF Oldest, Fresh
<1>3. TypeOK'
  BY <1>1, Counts DEF IInv, TypeOK, Acquire, Thread
<1>4. IndexInv' /\ ItemInv'
  BY DEF IInv, IndexInv, ItemInv
<1>5. LoadInv'
  <2>1. Len(heads) <= n
    BY <1>1, Counts
  <2>2. pop' = "take" => Len(heads) # n
    BY <1>1, Counts DEF IsEmpty, IInv, IndexInv
  <2>3. QED
    BY <2>1, <2>2, <1>1, Counts DEF IInv, LoadInv
<1>6. LapInv'
  BY <1>2 DEF IInv, LapInv
<1>7. GhostInv'
  BY <1>2 DEF IInv, TypeOK, GhostInv, ReleasedUpTo, Acquire, Thread
<1>8. QED
  BY <1>3, <1>4, <1>5, <1>6, <1>7 DEF IInv

\* pop() returns nullopt.
LEMMA PopEmptyStep ==
  ASSUME IInv, PopEmpty
  PROVE  IInv'
BY LoadTailStep DEF PopEmpty

\* pop() goes on.
LEMMA PopItemStep ==
  ASSUME IInv, PopItem
  PROVE  IInv'
BY LoadTailStep DEF PopItem

\* The oldest item is moved out: its slot is the first one of the next lap.
LEMMA TakeStep ==
  ASSUME IInv, Take
  PROVE  IInv'
<1> USE DEF Take
<1>1. /\ pop = "take" /\ pop' = "free"
      /\ Oldest = Len(heads) /\ Oldest' = Len(heads) + 1 /\ Fresh' = Fresh
      /\ Len(heads) < Fresh
  BY Counts DEF IInv, LoadInv, Oldest, Fresh
<1>2. /\ ReadIndex = SlotOf(Len(heads)) /\ ReadIndex \in Slot
      /\ slots'[ReadIndex] = NoItem
      /\ \A i \in Slot : i # ReadIndex => slots'[i] = slots[i]
  BY Counts DEF IInv, TypeOK
<1>3. TypeOK'
  <2>1. slots' \in [Slot -> Item \cup {NoItem}] /\ popped' \in Item \cup {NoItem}
    BY <1>2 DEF IInv, TypeOK
  <2>2. released["consumer"] \in [Slot -> Nat]
    BY DEF IInv, TypeOK, Thread
  <2>3. [released["consumer"] EXCEPT ![ReadIndex] = Len(heads) + 1] \in [Slot -> Nat]
    BY <2>2, Counts
  <2>4. released' \in [Thread -> [Slot -> Nat]]
    BY <2>3 DEF IInv, TypeOK, Thread
  <2>5. QED
    BY <1>1, <2>1, <2>4 DEF IInv, TypeOK
<1>4. IndexInv' /\ LoadInv'
  BY <1>1 DEF IInv, IndexInv, LoadInv
<1>5. LapInv'
  <2>1. SUFFICES ASSUME NEW k \in (Len(heads) + 1) .. (Len(heads) + Capacity)
                 PROVE  slots'[SlotOf(k)] # NoItem <=> k < Fresh
    BY <1>1, Counts DEF LapInv
  <2>2. k \in Nat /\ k >= 1 /\ SlotOf(k) \in Slot
    BY Counts, SlotType
  <2>3. CASE k = Len(heads) + Capacity
    <3>1. SlotOf(k) = ReadIndex
      BY <2>3, <1>2, Counts, LapSlot
    <3>2. QED
      BY <3>1, <2>3, <1>1, <1>2, Counts
  <2>4. CASE k # Len(heads) + Capacity
    <3>1. SlotOf(k) # ReadIndex
      <4> DEFINE h == Len(heads)
      <4>1. /\ h \in Nat /\ 1 <= h /\ k # h
            /\ k < h + Capacity /\ h < k + Capacity
        BY <2>1, <2>4, Counts
      <4>2. ReadIndex = SlotOf(h)
        BY <1>2
      <4> HIDE DEF h
      <4>3. QED
        BY <4>1, <4>2, <2>2, OtherSlot
    <3>2. slots[SlotOf(k)] # NoItem <=> k < Fresh
      <4>1. k \in Oldest .. (Oldest + Capacity - 1)
        BY <2>1, <2>4, <1>1, Counts
      <4>2. QED
        BY <4>1 DEF IInv, LapInv
    <3>3. QED
      BY <3>1, <3>2, <2>2, <1>2
  <2>5. QED
    BY <2>3, <2>4
<1>6. ItemInv'
  <2>1. CASE push = "publish"
    <3>1. SlotOf(Len(tails)) # ReadIndex /\ SlotOf(Len(tails)) \in Slot
      <4>1. Len(heads) < Len(tails) /\ Len(tails) - Len(heads) < Capacity
        BY <1>1, Counts DEF IInv, LoadInv
      <4>2. QED
        BY <4>1, <1>2, Counts, SameSlot
    <3>2. QED
      BY <3>1, <1>2 DEF IInv, ItemInv
  <2>2. CASE push # "publish"
    BY <2>2 DEF IInv, ItemInv
  <2>3. QED
    BY <2>1, <2>2
<1>7. GhostInv'
  <2>1. ReleasedUpTo("producer", Fresh - 1)'
    BY <1>1 DEF IInv, TypeOK, GhostInv, ReleasedUpTo, Thread
  <2>2. ReleasedUpTo("consumer", Oldest - 1)'
    <3>1. SUFFICES ASSUME NEW i \in Slot
                   PROVE  \/ released'["consumer"][i] = 1
                          \/ \E k \in 1 .. Len(heads) :
                               SlotOf(k) = i /\ released'["consumer"][i] = k + 1
      BY <1>1, Counts DEF ReleasedUpTo
    <3>2. CASE i = ReadIndex
      <4>1. released'["consumer"][i] = Len(heads) + 1
        BY <3>2 DEF IInv, TypeOK, Thread
      <4>2. Len(heads) \in 1 .. Len(heads)
        BY Counts
      <4>3. QED
        BY <4>1, <4>2, <3>2, <1>2
    <3>3. CASE i # ReadIndex
      <4>1. released'["consumer"][i] = released["consumer"][i]
        BY <3>3 DEF IInv, TypeOK, Thread
      <4>2. \/ released["consumer"][i] = 1
            \/ \E k \in 1 .. (Len(heads) - 1) :
                 SlotOf(k) = i /\ released["consumer"][i] = k + 1
        BY <1>1 DEF IInv, GhostInv, ReleasedUpTo
      <4>3. QED
        BY <4>1, <4>2, Counts
    <3>4. QED
      BY <3>2, <3>3
  <2>3. QED
    BY <2>1, <2>2 DEF IInv, GhostInv
<1>8. QED
  BY <1>3, <1>4, <1>5, <1>6, <1>7 DEF IInv

\* The store of head_: the slot is the producer's.
LEMMA FreeStep ==
  ASSUME IInv, Free
  PROVE  IInv'
<1> USE DEF Free
<1> DEFINE H == Len(heads)
<1>1. /\ pop = "free" /\ pop' = "ready"
      /\ H \in Nat /\ H >= 1 /\ H < seenTail
  BY Counts DEF IInv, LoadInv
<1>2. /\ heads' \in Seq(Slot) /\ Len(heads') = H + 1 /\ heads' # <<>>
      /\ DOMAIN heads' = 1 .. (H + 1) /\ DOMAIN heads = 1 .. H
      /\ heads'[H + 1] = SlotOf(H + 1)
      /\ \A n \in 1 .. H : heads'[n] = heads[n]
  <2>1. FreeOne = SlotOf(H + 1)
    BY <1>1, Counts, NextSlot DEF FreeOne
  <2>2. heads \in Seq(Slot) /\ SlotOf(H + 1) \in Slot
    BY <1>1, SlotType DEF IInv, TypeOK
  <2>3. heads' = Append(heads, SlotOf(H + 1))
    BY <2>1
  <2>4. QED
    BY <2>2, <2>3, <1>1, AppendProperties, LenProperties
<1>3. Oldest' = Oldest /\ Fresh' = Fresh
  BY <1>1, <1>2 DEF Oldest, Fresh
<1>4. TypeOK'
  BY <1>1, <1>2, Counts DEF IInv, TypeOK
<1>5. IndexInv'
  BY <1>1, <1>2 DEF IInv, IndexInv
<1>6. LoadInv'
  BY <1>1, <1>2, Counts DEF IInv, LoadInv
<1>7. LapInv' /\ ItemInv'
  BY <1>1, <1>3 DEF IInv, LapInv, ItemInv
<1>8. GhostInv'
  BY <1>3 DEF IInv, GhostInv, ReleasedUpTo
<1>9. QED
  BY <1>4, <1>5, <1>6, <1>7, <1>8 DEF IInv

\* No step of either thread breaks the invariant.
LEMMA NextIInv == IInv /\ [Next]_vars => IInv'
<1> SUFFICES ASSUME IInv, [Next]_vars PROVE IInv'
  OBVIOUS
<1>1. CASE Next
  BY <1>1, PushFullStep, PushRoomStep, ConstructStep, PublishStep,
     PopEmptyStep, PopItemStep, TakeStep, FreeStep DEF Next, Producer, Consumer
<1>2. CASE UNCHANGED vars
  BY <1>2 DEF vars, IInv, TypeOK, IndexInv, LoadInv, LapInv, ItemInv, GhostInv,
              ReleasedUpTo, Oldest, Fresh, WriteIndex, ReadIndex
<1>3. QED
  BY <1>1, <1>2

------------------------------------------------------------------------------
(***************************************************************************)
(* The theorems.                                                           *)
(***************************************************************************)

\* The invariant holds of every reachable state.
LEMMA Inductive == Spec => []IInv
BY InitIInv, NextIInv, PTL DEF Spec

\* The variables have their types: no index ever leaves the array.
THEOREM TypeCorrect == Spec => []TypeOK
<1>1. IInv => TypeOK
  BY DEF IInv
<1>2. QED
  BY Inductive, <1>1, PTL

(***************************************************************************)
(* push() and pop() never race on a slot.  When the producer constructs    *)
(* item n, the consumer's last access to that slot was to an item at least *)
(* a lap older, and freeing that one is part of what the producer saw: the *)
(* ring was not full by the head_ it loaded.  Likewise for the consumer.   *)
(***************************************************************************)
THEOREM DataRaceFree == Spec => []NoDataRace
<1>1. ASSUME IInv PROVE NoDataRace
  <2> USE <1>1
  <2>1. ASSUME push = "construct"
        PROVE  released["consumer"][WriteIndex] <= synced["producer"]
    <3>1. /\ Len(tails) - seenHead < Capacity - 1
          /\ synced["producer"] = seenHead
      BY <2>1 DEF IInv, LoadInv, GhostInv
    <3>2. CASE released["consumer"][WriteIndex] = 1
      BY <3>1, <3>2, Counts
    <3>3. CASE \E k \in 1 .. (Oldest - 1) :
                 SlotOf(k) = WriteIndex /\ released["consumer"][WriteIndex] = k + 1
      <4>1. PICK k \in 1 .. (Oldest - 1) :
                 SlotOf(k) = WriteIndex /\ released["consumer"][WriteIndex] = k + 1
        BY <3>3
      <4>2. Len(tails) - k >= Capacity
        BY <4>1, Counts, SameSlot
      <4>3. QED
        BY <4>1, <4>2, <3>1, Counts
    <3>4. QED
      BY <3>2, <3>3, Counts DEF IInv, GhostInv, ReleasedUpTo
  <2>2. ASSUME pop = "take"
        PROVE  released["producer"][ReadIndex] <= synced["consumer"]
    <3>1. /\ Len(heads) < seenTail
          /\ synced["consumer"] = seenTail
          /\ Oldest = Len(heads)
      BY <2>2 DEF IInv, LoadInv, GhostInv, Oldest
    <3>2. CASE released["producer"][ReadIndex] = 1
      BY <3>1, <3>2, Counts
    <3>3. CASE \E k \in 1 .. (Fresh - 1) :
                 SlotOf(k) = ReadIndex /\ released["producer"][ReadIndex] = k + 1
      <4>1. PICK k \in 1 .. (Fresh - 1) :
                 SlotOf(k) = ReadIndex /\ released["producer"][ReadIndex] = k + 1
        BY <3>3
      <4>2. k <= Len(heads)
        BY <4>1, <3>1, Counts, SameSlot
      <4>3. QED
        BY <4>1, <4>2, <3>1, Counts
    <3>4. QED
      BY <3>2, <3>3, Counts DEF IInv, GhostInv, ReleasedUpTo
  <2>3. QED
    BY <2>1, <2>2 DEF NoDataRace
<1>2. QED
  BY Inductive, <1>1, PTL

(***************************************************************************)
(* push() never constructs over a live item, which would leak, and pop()   *)
(* never moves from an empty slot.                                         *)
(***************************************************************************)
THEOREM LifetimesRespected == Spec => []SlotLifetimes
<1>1. ASSUME IInv PROVE SlotLifetimes
  <2> USE <1>1
  <2>1. ASSUME push = "construct" PROVE slots[WriteIndex] = NoItem
    <3>1. Len(tails) \in Oldest .. (Oldest + Capacity - 1) /\ Fresh = Len(tails)
      BY <2>1, Counts DEF Fresh
    <3>2. QED
      BY <3>1, Counts DEF IInv, LapInv
  <2>2. ASSUME pop = "take" PROVE slots[ReadIndex] # NoItem
    <3>1. /\ Oldest = Len(heads) /\ Len(heads) < Fresh
          /\ Oldest \in Oldest .. (Oldest + Capacity - 1)
      BY <2>2, Counts DEF Oldest, IInv, LoadInv
    <3>2. QED
      BY <3>1, Counts DEF IInv, LapInv
  <2>3. QED
    BY <2>1, <2>2 DEF SlotLifetimes
<1>2. QED
  BY Inductive, <1>1, PTL

------------------------------------------------------------------------------
(***************************************************************************)
(* The ring implements the bounded FIFO.                                   *)
(***************************************************************************)

\* The items inside, by their numbers.
Numbered == [i \in 1 .. (Len(tails) - Oldest) |-> slots[SlotOf(Oldest + i - 1)]]

\* The queue of the refinement mapping holds the items in the order of the pushes.
LEMMA InsideNumbered == IInv => Inside = Numbered
<1> SUFFICES ASSUME IInv PROVE Inside = Numbered
  OBVIOUS
<1> DEFINE taken == IF pop = "free" THEN 1 ELSE 0
<1>1. taken \in Nat /\ Oldest = Len(heads) + taken
  BY Counts DEF Oldest
<1>2. Inside = [i \in 1 .. (Len(tails) - Len(heads) - taken) |->
                  slots[(ReadIndex + taken + i - 1) % Capacity]]
  BY DEF Inside
<1> HIDE DEF taken
<1>3. Len(tails) - Len(heads) - taken = Len(tails) - Oldest
  BY <1>1, Counts
<1>4. ASSUME NEW i \in 1 .. (Len(tails) - Oldest)
      PROVE  (ReadIndex + taken + i - 1) % Capacity = SlotOf(Oldest + i - 1)
  <2> DEFINE n == taken + i - 1
             h == Len(heads)
  <2>1. n \in Nat /\ h \in Nat /\ h >= 1 /\ Oldest + i - 1 = h + n
    BY <1>1, Counts
  <2>2. ReadIndex = SlotOf(h) /\ ReadIndex + taken + i - 1 = ReadIndex + n
    BY <1>1, Counts DEF Slot
  <2> HIDE DEF n, h
  <2>3. (SlotOf(h) + n) % Capacity = SlotOf(h + n)
    BY <2>1, SlotAhead
  <2>4. QED
    BY <2>1, <2>2, <2>3
<1>5. QED
  BY <1>2, <1>3, <1>4 DEF Numbered

\* Likewise in the next state.
LEMMA InsideNumberedNext == IInv' => (Inside = Numbered)'
BY InsideNumbered, PTL

\* The items inside are a sequence of items.
LEMMA NumberedType ==
  ASSUME IInv
  PROVE  /\ Numbered \in Seq(Item)
         /\ Len(Numbered) = Len(tails) - Oldest
         /\ \A i \in 1 .. (Len(tails) - Oldest) :
              Numbered[i] = slots[SlotOf(Oldest + i - 1)]
<1>1. ASSUME NEW i \in 1 .. (Len(tails) - Oldest)
      PROVE  slots[SlotOf(Oldest + i - 1)] \in Item
  <2> DEFINE k == Oldest + i - 1
  <2>1. k \in Oldest .. (Oldest + Capacity - 1) /\ k < Fresh /\ SlotOf(k) \in Slot
    BY Counts, SlotType
  <2>2. slots[SlotOf(k)] # NoItem
    BY <2>1 DEF IInv, LapInv
  <2>3. QED
    BY <2>1, <2>2 DEF IInv, TypeOK
<1>2. Len(tails) - Oldest \in Nat
  BY Counts
<1>3. QED
  BY <1>1, <1>2, IsASeq DEF Numbered

\* Constructing an item changes nothing inside: it is not published yet.
LEMMA ConstructOutside ==
  ASSUME IInv, Construct
  PROVE  Numbered' = Numbered
<1>1. Oldest' = Oldest /\ Len(tails') = Len(tails)
  BY DEF Construct, Oldest
<1>2. ASSUME NEW i \in 1 .. (Len(tails) - Oldest)
      PROVE  slots'[SlotOf(Oldest + i - 1)] = slots[SlotOf(Oldest + i - 1)]
  <2> DEFINE k == Oldest + i - 1
  <2>1. /\ k \in Nat /\ k >= 1 /\ k < Len(tails) /\ Len(tails) - k < Capacity
        /\ SlotOf(k) \in Slot
    BY Counts, SlotType
  <2>2. SlotOf(k) # WriteIndex
    BY <2>1, Counts, SameSlot
  <2>3. QED
    BY <2>1, <2>2 DEF Construct, IInv, TypeOK
<1>3. QED
  BY <1>1, <1>2 DEF Numbered

\* The store of tail_ is the abstract Push.
LEMMA PublishIsPush ==
  ASSUME IInv, Publish
  PROVE  /\ Len(Numbered) < Capacity - 1
         /\ item \in Item
         /\ Numbered' = Append(Numbered, item)
<1> DEFINE n == Len(tails) - Oldest
<1>1. /\ push = "publish" /\ item \in Item /\ slots[SlotOf(Len(tails))] = item
      /\ n \in Nat /\ n < Capacity - 1
  BY Counts DEF Publish, IInv, LoadInv, ItemInv
<1>2. /\ Oldest' = Oldest /\ slots' = slots /\ Len(tails') = Len(tails) + 1
      /\ Len(tails') - Oldest = n + 1
  BY Counts, AppendProperties DEF Publish, Oldest, IInv, TypeOK
<1>3. Numbered' = [i \in 1 .. (n + 1) |-> slots[SlotOf(Oldest + i - 1)]]
  BY <1>2 DEF Numbered
<1>4. slots[SlotOf(Oldest + (n + 1) - 1)] = item
  BY <1>1, Counts
<1>5. /\ Numbered \in Seq(Item) /\ Len(Numbered) = n
      /\ \A i \in 1 .. n : Numbered[i] = slots[SlotOf(Oldest + i - 1)]
  BY NumberedType
<1> HIDE DEF n
<1>6. /\ Numbered' \in Seq(Item) /\ Len(Numbered') = n + 1
      /\ \A i \in 1 .. n : Numbered'[i] = Numbered[i]
      /\ Numbered'[n + 1] = item
  <2>1. ASSUME NEW i \in 1 .. (n + 1) PROVE slots[SlotOf(Oldest + i - 1)] \in Item
    <3>1. CASE i \in 1 .. n
      BY <3>1, <1>5, ElementOfSeq
    <3>2. CASE i = n + 1
      BY <3>2, <1>1, <1>4
    <3>3. QED
      BY <1>1, <3>1, <3>2
  <2>2. QED
    BY <2>1, <1>1, <1>3, <1>4, <1>5, IsASeq
<1>7. /\ Append(Numbered, item) \in Seq(Item) /\ Len(Append(Numbered, item)) = n + 1
      /\ \A i \in 1 .. n : Append(Numbered, item)[i] = Numbered[i]
      /\ Append(Numbered, item)[n + 1] = item
  BY <1>1, <1>5, AppendProperties
<1>8. Numbered' = Append(Numbered, item)
  <2>1. \A i \in 1 .. (n + 1) : Numbered'[i] = Append(Numbered, item)[i]
    BY <1>1, <1>6, <1>7
  <2>2. QED
    BY <2>1, <1>6, <1>7, SeqEqual
<1>9. QED
  BY <1>1, <1>5, <1>8

\* Moving the oldest item out is the abstract Pop.
LEMMA TakeIsPop ==
  ASSUME IInv, Take
  PROVE  /\ Numbered # <<>>
         /\ popped' = Head(Numbered)
         /\ Numbered' = Tail(Numbered)
<1> DEFINE n == Len(tails) - Oldest
<1>1. /\ pop = "take" /\ Oldest = Len(heads) /\ n \in Nat /\ n >= 1 /\ n < Capacity
  BY Counts DEF Take, IInv, LoadInv, Oldest
<1>2. /\ Oldest' = Oldest + 1 /\ Len(tails') = Len(tails)
      /\ Len(tails') - Oldest' = n - 1
  BY <1>1, Counts DEF Take, Oldest
<1>3. /\ Numbered \in Seq(Item) /\ Len(Numbered) = n
      /\ \A i \in 1 .. n : Numbered[i] = slots[SlotOf(Oldest + i - 1)]
  BY NumberedType
<1>4. ASSUME NEW i \in 1 .. (n - 1)
      PROVE  slots'[SlotOf(Oldest + 1 + i - 1)] = Numbered[i + 1]
  <2> DEFINE k == Oldest + i
  <2>1. /\ k \in Nat /\ k >= 1 /\ k > Len(heads) /\ k - Len(heads) < Capacity
        /\ SlotOf(k) \in Slot /\ k = Oldest + 1 + i - 1 /\ k = Oldest + (i + 1) - 1
        /\ i + 1 \in 1 .. n
    BY <1>1, Counts, SlotType
  <2> HIDE DEF k
  <2>2. SlotOf(k) # ReadIndex
    BY <2>1, Counts, SameSlot
  <2>3. slots'[SlotOf(k)] = slots[SlotOf(k)]
    BY <2>1, <2>2 DEF Take, IInv, TypeOK
  <2>4. QED
    BY <2>1, <2>3, <1>3
<1>5. Numbered' = [i \in 1 .. (n - 1) |-> slots'[SlotOf(Oldest + 1 + i - 1)]]
  BY <1>2 DEF Numbered
<1>6. popped' = Numbered[1]
  BY <1>1, <1>3, Counts DEF Take
<1> HIDE DEF n
<1>7. /\ Tail(Numbered) \in Seq(Item) /\ Len(Tail(Numbered)) = n - 1
      /\ \A i \in 1 .. (n - 1) : Tail(Numbered)[i] = Numbered[i + 1]
  BY <1>1, <1>3, EmptySeq, HeadTailProperties
<1>8. /\ Numbered' \in Seq(Item) /\ Len(Numbered') = n - 1
      /\ \A i \in 1 .. (n - 1) : Numbered'[i] = Numbered[i + 1]
  <2>1. ASSUME NEW i \in 1 .. (n - 1)
        PROVE  slots'[SlotOf(Oldest + 1 + i - 1)] \in Item
    <3>1. i + 1 \in 1 .. Len(Numbered)
      BY <1>1, <1>3
    <3>2. Numbered[i + 1] \in Item
      BY <3>1, <1>3, ElementOfSeq
    <3>3. QED
      BY <3>2, <1>4
  <2>2. QED
    BY <2>1, <1>1, <1>4, <1>5, IsASeq
<1>9. Numbered' = Tail(Numbered)
  BY <1>7, <1>8, SeqEqual
<1>10. QED
  BY <1>1, <1>3, <1>6, <1>9

\* Every step of the ring is a step of the bounded FIFO or changes nothing there.
LEMMA StepImplements ==
  IInv /\ IInv' /\ [Next]_vars => [Fifo!Next]_(Fifo!vars)
<1> SUFFICES ASSUME IInv, IInv', [Next]_vars
             PROVE  [Fifo!Next]_(Fifo!vars)
  OBVIOUS
<1>1. Inside = Numbered /\ Inside' = Numbered'
  BY InsideNumbered, InsideNumberedNext
<1>2. SUFFICES \/ Fifo!Next
               \/ Numbered' = Numbered /\ popped' = popped
  BY <1>1 DEF Fifo!vars
<1>3. CASE PushFull \/ \E x \in Item : PushRoom(x)
  BY <1>3 DEF PushFull, PushRoom, LoadHead, Numbered, Oldest
<1>4. CASE Construct
  BY <1>4, ConstructOutside DEF Construct
<1>5. CASE Publish
  <2>1. Fifo!Push
    BY <1>1, <1>5, PublishIsPush DEF Fifo!Push, Publish
  <2>2. QED
    BY <2>1 DEF Fifo!Next
<1>6. CASE PopEmpty \/ PopItem
  BY <1>6 DEF PopEmpty, PopItem, LoadTail, Numbered, Oldest, IInv, TypeOK
<1>7. CASE Take
  <2>1. Fifo!Pop
    BY <1>1, <1>7, TakeIsPop DEF Fifo!Pop
  <2>2. QED
    BY <2>1 DEF Fifo!Next
<1>8. CASE Free
  <2>1. Len(heads') = Len(heads) + 1
    BY <1>8, Counts, AppendProperties DEF Free, IInv, TypeOK
  <2>2. Oldest' = Oldest
    BY <1>8, <2>1 DEF Free, Oldest
  <2>3. QED
    BY <1>8, <2>2 DEF Free, Numbered
<1>9. CASE UNCHANGED vars
  BY <1>9 DEF vars, Numbered, Oldest
<1>10. QED
  BY <1>3, <1>4, <1>5, <1>6, <1>7, <1>8, <1>9 DEF Next, Producer, Consumer

(***************************************************************************)
(* The two threads see a FIFO of Capacity - 1 items: every item that was   *)
(* pushed comes out once, in order, however their steps interleave and     *)
(* however old the indices are that they load.                             *)
(***************************************************************************)
THEOREM Implementation == Spec => ImplementsFifo
<1>1. Init => Fifo!Init
  <2> SUFFICES ASSUME Init PROVE Inside = <<>> /\ popped = NoItem
    BY DEF Fifo!Init
  <2>1. Len(heads) = 1 /\ Len(tails) = 1 /\ pop = "ready"
    BY DEF Init
  <2>2. Numbered = <<>>
    BY <2>1 DEF Numbered, Oldest
  <2>3. QED
    BY <2>2, InitIInv, InsideNumbered DEF Init
<1>2. QED
  BY <1>1, StepImplements, Inductive, PTL DEF Spec, ImplementsFifo, Fifo!Spec
==============================================================================
