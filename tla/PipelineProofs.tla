---------------------------- MODULE PipelineProofs ----------------------------
(***************************************************************************)
(* Theorems about Pipeline, for every stream and every requested capacity. *)
(* The steps of the ring are those of SpscRingBuffer, so its invariant is  *)
(* one of the pipeline, to which this module adds which item is where.     *)
(***************************************************************************)
EXTENDS Pipeline, SequenceTheorems, TLAPS

R == INSTANCE SpscRingBufferProofs WITH
  Capacity  <- NextPow2(Requested),
  Item      <- 1 .. Orders \cup {Sentinel},
  MaxPushes <- PushCount

\* The ring of the pipeline is a ring that SpscRingBuffer is about.
LEMMA RingParameters ==
  /\ NextPow2(Requested) \in Nat /\ NextPow2(Requested) >= 2
  /\ NoItem \notin 1 .. Orders \cup {Sentinel}
  /\ PushCount \in Nat /\ PushCount = Orders + 1
BY RequestedAssumption, ItemsAssumption, OrdersAssumption DEF PushCount

USE RingParameters, OrdersAssumption, ItemsAssumption

\* What the two instances of the ring say is the same.
LEMMA SameRing ==
  /\ Ring!Init <=> R!Init
  /\ Ring!PushFull <=> R!PushFull
  /\ \A x : Ring!PushRoom(x) <=> R!PushRoom(x)
  /\ Ring!Construct <=> R!Construct
  /\ Ring!Publish <=> R!Publish
  /\ Ring!PopEmpty <=> R!PopEmpty
  /\ Ring!PopItem <=> R!PopItem
  /\ Ring!Take <=> R!Take
  /\ Ring!Free <=> R!Free
  /\ Ring!TypeOK <=> R!TypeOK
  /\ Ring!Slot = R!Slot
<1> USE DEF Ring!Slot, R!Slot, Ring!Thread, R!Thread, Ring!After, R!After,
            Ring!WriteIndex, R!WriteIndex, Ring!ReadIndex, R!ReadIndex,
            Ring!LoadHead, R!LoadHead, Ring!LoadTail, R!LoadTail,
            Ring!Acquire, R!Acquire, Ring!FreeOne, R!FreeOne,
            Ring!IsFull, R!IsFull, Ring!IsEmpty, R!IsEmpty
<1>1. Ring!Init <=> R!Init
  BY DEF Ring!Init, R!Init
<1>2. Ring!PushFull <=> R!PushFull
  BY DEF Ring!PushFull, R!PushFull
<1>3. \A x : Ring!PushRoom(x) <=> R!PushRoom(x)
  BY DEF Ring!PushRoom, R!PushRoom
<1>4. Ring!Construct <=> R!Construct
  BY DEF Ring!Construct, R!Construct
<1>5. Ring!Publish <=> R!Publish
  BY DEF Ring!Publish, R!Publish
<1>6. Ring!PopEmpty <=> R!PopEmpty
  BY DEF Ring!PopEmpty, R!PopEmpty
<1>7. Ring!PopItem <=> R!PopItem
  BY DEF Ring!PopItem, R!PopItem
<1>8. Ring!Take <=> R!Take
  BY DEF Ring!Take, R!Take
<1>9. Ring!Free <=> R!Free
  BY DEF Ring!Free, R!Free
<1>10. Ring!TypeOK <=> R!TypeOK
  BY DEF Ring!TypeOK, R!TypeOK
<1>11. Ring!Slot = R!Slot
  OBVIOUS
<1>12. QED
  BY <1>1, <1>2, <1>3, <1>4, <1>5, <1>6, <1>7, <1>8, <1>9, <1>10, <1>11

------------------------------------------------------------------------------
(***************************************************************************)
(* The inductive invariant.                                                *)
(***************************************************************************)

\* The k-th item of the stream.
Stream(k) == IF k <= Orders THEN k ELSE Sentinel

\* The main thread pushes the stream: nothing is left out or pushed twice.
MainInv == /\ pushed = Len(tails) - 1
           /\ pushed <= PushCount
           /\ push \in {"construct", "publish"} => /\ pushed < PushCount
                                                   /\ item = Stream(Len(tails))

\* So the ring holds the stream from the oldest item on.
SlotsInv == \A k \in R!Oldest .. (R!Fresh - 1) : slots[R!SlotOf(k)] = Stream(k)

\* The engine thread takes the stream, and has submitted the orders it took.
EngineInv ==
  /\ submitted \in Seq(1 .. Orders)
  /\ \A i \in DOMAIN submitted : submitted[i] = i
  /\ pop = "free" => popped = Stream(Len(heads))
  /\ engine = "polling" => Len(submitted) = Len(heads) - 1
  /\ engine # "polling" => /\ pop = "ready"
                           /\ Len(submitted) = Len(heads) - 2
                           /\ popped = Stream(Len(heads) - 1)
  /\ engine = "exited" => Len(submitted) = Orders

JoinInv == joined => engine = "exited" /\ pushed = PushCount

IInv == /\ engine \in {"polling", "serving", "exited"} /\ joined \in BOOLEAN
        /\ MainInv /\ SlotsInv /\ EngineInv /\ JoinInv

\* Items of the stream are items of the ring.
LEMMA StreamType ==
  ASSUME NEW k \in Nat, k >= 1
  PROVE  Stream(k) \in 1 .. Orders \cup {Sentinel}
BY DEF Stream

\* What the main thread pushes next.
LEMMA CurrentIsNext ==
  ASSUME MainInv, Len(tails) \in Nat
  PROVE  Current = Stream(Len(tails))
BY DEF MainInv, Current, Stream

\* The ring of the pipeline starts empty and takes steps of a ring only.
LEMMA RingSteps ==
  /\ Init => R!Init
  /\ R!IInv /\ MainInv /\ [Next]_vars => [R!Next]_(R!vars)
<1>1. Init => R!Init
  BY SameRing DEF Init
<1>2. ASSUME R!IInv, MainInv, Next
      PROVE  R!Next \/ UNCHANGED ringVars
  <2>1. CASE Push
    <3>1. Len(tails) <= PushCount
      BY <1>2, <2>1 DEF Push, MainInv
    <3>2. Current \in 1 .. Orders \cup {Sentinel}
      BY <1>2, R!Counts, CurrentIsNext, StreamType
    <3>3. QED
      BY <2>1, <3>1, <3>2, SameRing DEF Push, R!Next, R!Producer
  <2>2. CASE Pushed
    BY <2>2, SameRing DEF Pushed, R!Next, R!Producer
  <2>3. CASE Spin
    BY <2>3, SameRing DEF Spin, R!Next, R!Producer
  <2>4. CASE PollEmpty \/ Poll \/ Popped
    BY <2>4, SameRing DEF PollEmpty, Poll, Popped, R!Next, R!Consumer
  <2>5. CASE Join \/ Submit \/ Exit
    BY <2>5 DEF Join, Submit, Exit
  <2>6. QED
    BY <1>2, <2>1, <2>2, <2>3, <2>4, <2>5 DEF Next, Main, Engine
<1>3. QED
  BY <1>1, <1>2 DEF vars, ringVars, R!vars

\* Initially the stream is before the ring.
LEMMA InitIInv == Init => IInv
<1> SUFFICES ASSUME Init PROVE IInv
  OBVIOUS
<1>1. /\ heads = <<0>> /\ tails = <<0>> /\ push = "ready" /\ pop = "ready"
      /\ pushed = 0 /\ engine = "polling" /\ submitted = <<>> /\ joined = FALSE
  BY DEF Init, Ring!Init
<1>2. Len(heads) = 1 /\ Len(tails) = 1 /\ Len(submitted) = 0
      /\ submitted \in Seq(1 .. Orders) /\ DOMAIN submitted = {}
  BY <1>1
<1>3. R!Oldest = 1 /\ R!Fresh = 1
  BY <1>1, <1>2 DEF R!Oldest, R!Fresh
<1>4. MainInv /\ JoinInv
  BY <1>1, <1>2 DEF MainInv, JoinInv
<1>5. SlotsInv
  BY <1>3 DEF SlotsInv
<1>6. EngineInv
  BY <1>1, <1>2 DEF EngineInv
<1>7. QED
  BY <1>1, <1>4, <1>5, <1>6 DEF IInv

------------------------------------------------------------------------------
(***************************************************************************)
(* Every step preserves the invariant.                                     *)
(***************************************************************************)

\* push() loads an index: full, or the next item will be constructed.
LEMMA LoadHeadStep ==
  ASSUME R!IInv, IInv,
         \/ Spin
         \/ /\ pushed < PushCount /\ R!PushRoom(Current)
            /\ UNCHANGED <<pushed, engine, submitted, joined>>
  PROVE  IInv'
<1>1. /\ UNCHANGED <<heads, tails, slots, pop, popped, pushed, engine, submitted, joined>>
      /\ push # "publish" /\ push' # "publish"
      /\ push' \in {"construct", "publish"} => pushed < PushCount /\ item' = Current
  BY SameRing DEF Spin, AfterFull, R!PushFull, R!PushRoom, R!LoadHead
<1>2. R!Oldest' = R!Oldest /\ R!Fresh' = R!Fresh
  BY <1>1 DEF R!Oldest, R!Fresh
<1>3. MainInv'
  BY <1>1, R!Counts, CurrentIsNext DEF IInv, MainInv
<1>4. SlotsInv' /\ EngineInv' /\ JoinInv'
  BY <1>1, <1>2 DEF IInv, SlotsInv, EngineInv, JoinInv
<1>5. QED
  BY <1>1, <1>3, <1>4 DEF IInv

\* The next item of the stream goes to its slot.
LEMMA ConstructStep ==
  ASSUME R!IInv, IInv, R!Construct, UNCHANGED <<pushed, engine, submitted, joined>>
  PROVE  IInv'
<1> DEFINE T == Len(tails)
<1>1. /\ UNCHANGED <<heads, tails, pop, popped, item, pushed, engine, submitted, joined>>
      /\ push = "construct" /\ push' = "publish"
      /\ slots' = [slots EXCEPT ![R!SlotOf(T)] = item]
  BY R!Counts DEF R!Construct
<1>2. /\ R!Oldest' = R!Oldest /\ R!Fresh = T /\ R!Fresh' = T + 1
      /\ T \in Nat /\ T >= 1 /\ item = Stream(T)
      /\ R!Oldest \in Nat /\ R!Oldest >= 1 /\ T < R!Oldest + NextPow2(Requested)
      /\ R!SlotOf(T) \in R!Slot /\ slots \in [R!Slot -> 1 .. Orders \cup {Sentinel, NoItem}]
  BY <1>1, R!Counts DEF R!Oldest, R!Fresh, IInv, MainInv, R!IInv, R!TypeOK
<1>3. MainInv' /\ EngineInv' /\ JoinInv'
  BY <1>1 DEF IInv, MainInv, EngineInv, JoinInv
<1>4. SlotsInv'
  <2>1. SUFFICES ASSUME NEW k \in R!Oldest .. T
                 PROVE  slots'[R!SlotOf(k)] = Stream(k)
    BY <1>2 DEF SlotsInv
  <2>2. /\ k \in Nat /\ 1 <= k
        /\ k < T + NextPow2(Requested) /\ T < k + NextPow2(Requested)
    BY <1>2
  <2>3. CASE k = T
    BY <2>3, <1>1, <1>2
  <2>4. CASE k # T
    <3>1. R!SlotOf(k) # R!SlotOf(T)
      BY <2>2, <2>4, <1>2, R!OtherSlot
    <3>2. R!SlotOf(k) \in R!Slot
      BY <2>2, R!SlotType
    <3>3. slots[R!SlotOf(k)] = Stream(k)
      <4>1. k \in R!Oldest .. (R!Fresh - 1)
        BY <2>4, <1>2
      <4>2. QED
        BY <4>1 DEF IInv, SlotsInv
    <3>4. QED
      BY <3>1, <3>2, <3>3, <1>1, <1>2
  <2>5. QED
    BY <2>3, <2>4
<1>5. QED
  BY <1>1, <1>3, <1>4 DEF IInv

\* The store of tail_, and the loop goes on to the next item.
LEMMA PushedStep ==
  ASSUME R!IInv, IInv, Pushed
  PROVE  IInv'
<1>1. /\ UNCHANGED <<heads, slots, pop, popped, item, engine, submitted, joined>>
      /\ push = "publish" /\ push' = "ready" /\ pushed' = pushed + 1
      /\ \E x : tails' = Append(tails, x)
  BY SameRing DEF Pushed, R!Publish
<1>2. Len(tails) \in Nat /\ Len(tails') = Len(tails) + 1
  BY <1>1, R!Counts DEF R!IInv, R!TypeOK
<1>3. R!Oldest' = R!Oldest /\ R!Fresh' = R!Fresh
  BY <1>1, <1>2 DEF R!Oldest, R!Fresh
<1>4. MainInv'
  BY <1>1, <1>2 DEF IInv, MainInv
<1>5. JoinInv'
  BY <1>1 DEF IInv, MainInv, JoinInv
<1>6. SlotsInv' /\ EngineInv'
  BY <1>1, <1>3 DEF IInv, SlotsInv, EngineInv
<1>7. QED
  BY <1>1, <1>4, <1>5, <1>6 DEF IInv

\* pop() loads an index.
LEMMA LoadTailStep ==
  ASSUME R!IInv, IInv, engine = "polling", R!PopEmpty \/ R!PopItem,
         UNCHANGED <<pushed, engine, submitted, joined>>
  PROVE  IInv'
<1>1. /\ UNCHANGED <<heads, tails, slots, push, popped, item,
                     pushed, engine, submitted, joined>>
      /\ pop # "free" /\ pop' # "free"
  BY DEF R!PopEmpty, R!PopItem, R!LoadTail
<1>2. R!Oldest' = R!Oldest /\ R!Fresh' = R!Fresh
  BY <1>1 DEF R!Oldest, R!Fresh
<1>3. QED
  BY <1>1, <1>2 DEF IInv, MainInv, SlotsInv, EngineInv, JoinInv

\* The oldest item leaves the ring.
LEMMA TakeStep ==
  ASSUME R!IInv, IInv, engine = "polling", R!Take,
         UNCHANGED <<pushed, engine, submitted, joined>>
  PROVE  IInv'
<1> DEFINE H == Len(heads)
<1>1. /\ UNCHANGED <<heads, tails, push, item, pushed, engine, submitted, joined>>
      /\ pop = "take" /\ pop' = "free"
      /\ popped' = slots[R!SlotOf(H)]
      /\ slots' = [slots EXCEPT ![R!SlotOf(H)] = NoItem]
  BY R!Counts DEF R!Take
<1>2. /\ R!Oldest = H /\ R!Oldest' = H + 1 /\ R!Fresh' = R!Fresh
      /\ H \in Nat /\ H >= 1 /\ H < R!Fresh /\ R!Fresh \in Nat
      /\ R!Fresh < H + NextPow2(Requested)
      /\ R!SlotOf(H) \in R!Slot /\ slots \in [R!Slot -> 1 .. Orders \cup {Sentinel, NoItem}]
  <2>1. R!Oldest = H /\ R!Oldest' = H + 1 /\ R!Fresh' = R!Fresh
    BY <1>1 DEF R!Oldest, R!Fresh
  <2>2. H < seenTail
    BY <1>1 DEF R!IInv, R!LoadInv
  <2>3. R!SlotOf(H) \in R!Slot /\ slots \in [R!Slot -> 1 .. Orders \cup {Sentinel, NoItem}]
    BY R!Counts DEF R!IInv, R!TypeOK
  <2>4. QED
    BY <2>1, <2>2, <2>3, R!Counts
<1>3. popped' = Stream(H)
  BY <1>1, <1>2 DEF IInv, SlotsInv
<1>4. MainInv' /\ EngineInv' /\ JoinInv'
  BY <1>1, <1>3 DEF IInv, MainInv, EngineInv, JoinInv
<1>5. SlotsInv'
  <2>1. SUFFICES ASSUME NEW k \in (H + 1) .. (R!Fresh - 1)
                 PROVE  slots'[R!SlotOf(k)] = Stream(k)
    BY <1>2 DEF SlotsInv
  <2>2. /\ k \in Nat /\ 1 <= k /\ k # H
        /\ k < H + NextPow2(Requested) /\ H < k + NextPow2(Requested)
    BY <1>2
  <2>3. R!SlotOf(k) # R!SlotOf(H)
    BY <2>2, <1>2, R!OtherSlot
  <2>4. R!SlotOf(k) \in R!Slot
    BY <2>2, R!SlotType
  <2>5. slots[R!SlotOf(k)] = Stream(k)
    <3>1. k \in R!Oldest .. (R!Fresh - 1)
      BY <2>2, <1>2
    <3>2. QED
      BY <3>1 DEF IInv, SlotsInv
  <2>6. QED
    BY <2>3, <2>4, <2>5, <1>1, <1>2
<1>6. QED
  BY <1>1, <1>4, <1>5 DEF IInv

\* The store of head_: the engine thread has the item.
LEMMA PoppedStep ==
  ASSUME R!IInv, IInv, Popped
  PROVE  IInv'
<1>1. /\ UNCHANGED <<tails, slots, push, popped, item, pushed, submitted, joined>>
      /\ pop = "free" /\ pop' = "ready" /\ engine = "polling" /\ engine' = "serving"
      /\ \E x : heads' = Append(heads, x)
  BY SameRing DEF Popped, R!Free
<1>2. Len(heads) \in Nat /\ Len(heads') = Len(heads) + 1
  BY <1>1, R!Counts DEF R!IInv, R!TypeOK
<1>3. R!Oldest' = R!Oldest /\ R!Fresh' = R!Fresh
  BY <1>1, <1>2 DEF R!Oldest, R!Fresh
<1>4. EngineInv'
  BY <1>1, <1>2 DEF IInv, EngineInv
<1>5. MainInv' /\ SlotsInv' /\ JoinInv'
  BY <1>1, <1>3 DEF IInv, MainInv, SlotsInv, JoinInv
<1>6. QED
  BY <1>1, <1>4, <1>5 DEF IInv

\* The engine thread submits the order.
LEMMA SubmitStep ==
  ASSUME R!IInv, IInv, Submit
  PROVE  IInv'
<1> DEFINE n == Len(submitted)
<1>1. /\ UNCHANGED <<ringVars, pushed, joined>>
      /\ engine = "serving" /\ engine' = "polling"
      /\ submitted' = Append(submitted, popped)
      /\ popped # Sentinel /\ popped = Stream(Len(heads) - 1) /\ n = Len(heads) - 2
      /\ submitted \in Seq(1 .. Orders) /\ n \in Nat
  BY LenProperties DEF Submit, IsSentinel, IInv, EngineInv
<1>2. popped = n + 1 /\ popped \in 1 .. Orders
  BY <1>1, R!Counts DEF Stream
<1>3. /\ submitted' \in Seq(1 .. Orders) /\ Len(submitted') = n + 1
      /\ DOMAIN submitted' = 1 .. (n + 1) /\ DOMAIN submitted = 1 .. n
      /\ \A i \in 1 .. n : submitted'[i] = submitted[i]
      /\ submitted'[n + 1] = n + 1
  BY <1>1, <1>2, AppendProperties, LenProperties
<1>4. \A i \in DOMAIN submitted' : submitted'[i] = i
  BY <1>1, <1>3 DEF IInv, EngineInv
<1>5. R!Oldest' = R!Oldest /\ R!Fresh' = R!Fresh
  BY <1>1 DEF ringVars, R!Oldest, R!Fresh
<1>6. EngineInv'
  BY <1>1, <1>3, <1>4, R!Counts DEF ringVars, IInv, EngineInv
<1>7. MainInv' /\ SlotsInv' /\ JoinInv'
  BY <1>1, <1>5 DEF ringVars, IInv, MainInv, SlotsInv, JoinInv
<1>8. QED
  BY <1>1, <1>6, <1>7 DEF IInv

\* The engine thread has popped the sentinel: there were Orders items before it.
LEMMA ExitStep ==
  ASSUME R!IInv, IInv, Exit
  PROVE  IInv'
<1> DEFINE n == Len(submitted)
<1>1. /\ UNCHANGED <<ringVars, pushed, submitted, joined>>
      /\ engine = "serving" /\ engine' = "exited"
      /\ popped = Sentinel /\ popped = Stream(Len(heads) - 1) /\ n = Len(heads) - 2
      /\ submitted \in Seq(1 .. Orders) /\ n \in Nat /\ DOMAIN submitted = 1 .. n
  BY LenProperties DEF Exit, IsSentinel, IInv, EngineInv
<1>2. n >= Orders
  BY <1>1, R!Counts DEF Stream
<1>3. n <= Orders
  <2>1. SUFFICES ASSUME n > Orders PROVE FALSE
    BY <1>1
  <2>2. n \in DOMAIN submitted /\ submitted[n] = n
    <3>1. n \in 1 .. n
      BY <2>1, <1>1
    <3>2. n \in DOMAIN submitted
      BY <3>1, <1>1
    <3>3. QED
      BY <3>2 DEF IInv, EngineInv
  <2>3. submitted[n] \in 1 .. Orders
    BY <2>2, <1>1, ElementOfSeq
  <2>4. QED
    BY <2>1, <2>2, <2>3, <1>1
<1>4. R!Oldest' = R!Oldest /\ R!Fresh' = R!Fresh
  BY <1>1 DEF ringVars, R!Oldest, R!Fresh
<1>5. EngineInv'
  BY <1>1, <1>2, <1>3 DEF ringVars, IInv, EngineInv
<1>6. MainInv' /\ SlotsInv' /\ JoinInv'
  BY <1>1, <1>4 DEF ringVars, IInv, MainInv, SlotsInv, JoinInv
<1>7. QED
  BY <1>1, <1>5, <1>6 DEF IInv

\* The main thread joins when the engine thread has ended.
LEMMA JoinStep ==
  ASSUME IInv, Join
  PROVE  IInv'
<1>1. R!Oldest' = R!Oldest /\ R!Fresh' = R!Fresh
  BY DEF Join, ringVars, R!Oldest, R!Fresh
<1>2. QED
  BY <1>1 DEF Join, EngineDone, ringVars, IInv, MainInv, SlotsInv, EngineInv, JoinInv

\* No step of either thread breaks the invariant.
LEMMA NextIInv == R!IInv /\ IInv /\ [Next]_vars => IInv'
<1> SUFFICES ASSUME R!IInv, IInv, [Next]_vars PROVE IInv'
  OBVIOUS
<1>1. CASE Push
  BY <1>1, SameRing, LoadHeadStep, ConstructStep DEF Push
<1>2. CASE Spin
  <2>1. UNCHANGED <<pushed, engine, submitted, joined>>
    BY <1>2 DEF Spin, AfterFull
  <2>2. QED
    BY <1>2, <2>1, LoadHeadStep
<1>3. CASE Poll \/ PollEmpty
  BY <1>3, SameRing, LoadTailStep, TakeStep DEF Poll, PollEmpty
<1>4. CASE Pushed \/ Popped \/ Submit \/ Exit \/ Join
  BY <1>4, PushedStep, PoppedStep, SubmitStep, ExitStep, JoinStep
<1>5. CASE UNCHANGED vars
  <2>1. R!Oldest' = R!Oldest /\ R!Fresh' = R!Fresh
    BY <1>5 DEF vars, ringVars, R!Oldest, R!Fresh
  <2>2. QED
    BY <1>5, <2>1 DEF vars, ringVars, IInv, MainInv, SlotsInv, EngineInv, JoinInv
<1>6. QED
  BY <1>1, <1>2, <1>3, <1>4, <1>5 DEF Next, Main, Engine

------------------------------------------------------------------------------
(***************************************************************************)
(* The theorems.                                                           *)
(***************************************************************************)

\* Both invariants hold of every reachable state.
LEMMA Inductive == Spec => [](R!IInv /\ IInv)
<1>1. Init => R!IInv /\ IInv
  BY RingSteps, InitIInv, R!InitIInv
<1>2. R!IInv /\ IInv /\ [Next]_vars => R!IInv' /\ IInv'
  BY RingSteps, NextIInv, R!NextIInv DEF IInv
<1>3. QED
  BY <1>1, <1>2, PTL DEF Spec

(***************************************************************************)
(* The pipeline uses the ring as it must be used - one thread pushes, one  *)
(* pops, one item at a time - so whatever SpscRingBufferProofs shows of    *)
(* the ring holds in the pipeline.                                         *)
(***************************************************************************)
THEOREM RingUsedRightly == Spec => R!Spec
<1>1. R!IInv /\ IInv /\ [Next]_vars => [R!Next]_(R!vars)
  BY RingSteps DEF IInv
<1>2. QED
  BY <1>1, RingSteps, Inductive, PTL DEF Spec, R!Spec

(***************************************************************************)
(* In particular: whatever the engine thread reads of an order, the main   *)
(* thread wrote before it published the order; and the ring is a FIFO.     *)
(***************************************************************************)
THEOREM RaceFree == Spec => []R!NoDataRace /\ R!ImplementsFifo
BY RingUsedRightly, R!DataRaceFree, R!Implementation, PTL

\* The variables have their types; no more items are pushed than there are.
THEOREM TypeCorrect == Spec => []TypeOK
<1>1. R!IInv /\ IInv => TypeOK
  <2> SUFFICES ASSUME R!IInv, IInv PROVE TypeOK
    OBVIOUS
  <2>1. Ring!TypeOK
    BY SameRing DEF R!IInv
  <2>2. pushed \in 0 .. PushCount
    BY R!Counts DEF IInv, MainInv
  <2>3. QED
    BY <2>1, <2>2 DEF TypeOK, IInv, EngineInv
<1>2. QED
  BY <1>1, Inductive, PTL

(***************************************************************************)
(* The engine is given every order once and in stream order: pipeline mode *)
(* computes what baseline mode computes, however the threads interleave.   *)
(***************************************************************************)
THEOREM InOrder == Spec => []StreamInOrder
<1>1. IInv => StreamInOrder
  BY DEF IInv, EngineInv, StreamInOrder
<1>2. QED
  BY <1>1, Inductive, PTL

(***************************************************************************)
(* After the join nothing is missing from the result, and nothing is left  *)
(* in the ring, whose destructor would not destroy it.                     *)
(***************************************************************************)
THEOREM Complete == Spec => []ReportComplete
<1>1. R!IInv /\ IInv => ReportComplete
  <2> SUFFICES ASSUME R!IInv, IInv, joined PROVE /\ Len(submitted) = Orders
                                               /\ \A i \in Ring!Slot : slots[i] = NoItem
    BY DEF ReportComplete
  <2>1. /\ engine = "exited" /\ pushed = PushCount /\ Len(submitted) = Orders
        /\ pop = "ready" /\ push \notin {"construct", "publish"}
        /\ Len(heads) = Orders + 2 /\ Len(tails) = Orders + 2
    BY R!Counts DEF IInv, MainInv, EngineInv, JoinInv
  <2>2. R!Oldest = Orders + 2 /\ R!Fresh = Orders + 2
    BY <2>1 DEF R!Oldest, R!Fresh
  <2>3. ASSUME NEW i \in R!Slot PROVE slots[i] = NoItem
    <3>1. R!Oldest \in Nat /\ R!Oldest >= 1
      BY <2>2
    <3>2. \E k \in R!Oldest .. (R!Oldest + NextPow2(Requested) - 1) : R!SlotOf(k) = i
      BY <3>1, R!LapCovers
    <3>3. PICK k \in R!Oldest .. (R!Oldest + NextPow2(Requested) - 1) : R!SlotOf(k) = i
      BY <3>2
    <3>4. ~(k < R!Fresh)
      BY <2>2
    <3>5. QED
      BY <3>3, <3>4 DEF R!IInv, R!LapInv
  <2>4. QED
    BY <2>1, <2>3, SameRing
<1>2. QED
  BY <1>1, Inductive, PTL
==============================================================================
