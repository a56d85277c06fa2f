------------------------------- MODULE Pipeline -------------------------------
(***************************************************************************)
(* BenchmarkRunner::runPipeline() (src/benchmark/BenchmarkRunner.cpp): the *)
(* main thread pushes every order into an SpscRingBuffer, then a nullptr   *)
(* sentinel, and joins; the engine thread pops and submits each order to   *)
(* the engine until it pops the sentinel.  Both spin while the ring is     *)
(* full or empty.  The orders are 1 .. Orders, in stream order.            *)
(***************************************************************************)
EXTENDS Integers, Sequences

CONSTANTS Orders,    \* the length of the stream
          Sentinel, NoItem,
          Requested  \* cfg_.pipelineCapacity

ASSUME OrdersAssumption == Orders \in Nat
ASSUME ItemsAssumption == /\ Sentinel \notin 1 .. Orders
                          /\ NoItem \notin 1 .. Orders \cup {Sentinel}

VARIABLES
  heads, tails, slots, seenHead, seenTail, push, pop, item, popped, released, synced,
  pushed,     \* how many items the main thread has pushed
  engine,     \* the engine thread: "polling", "serving" an item, or "exited"
  submitted,  \* what it submitted to the engine, oldest first
  joined      \* consumer.join() has returned: the main thread reads the result

ringVars == <<heads, tails, slots, seenHead, seenTail, push, pop, item, popped,
              released, synced>>
vars == <<ringVars, pushed, engine, submitted, joined>>

(***************************************************************************)
(* SpscRingBuffer::nextPow2(): the least power of two that is at least n,  *)
(* and 2 when n < 2.                                                       *)
(***************************************************************************)
NextPow2(n) == IF n < 2 THEN 2
               ELSE CHOOSE p \in {2 ^ k : k \in 1 .. n} :
                      p >= n /\ \A k \in 1 .. n : 2 ^ k >= n => p <= 2 ^ k

\* Powers of two are numbers, and the loop starts below 2.
ASSUME RequestedAssumption == NextPow2(Requested) \in Nat \ {0, 1}

PushCountNoSentinel == Orders  \* Mutant: the sentinel is never pushed.

PushCount == Orders + 1

Ring == INSTANCE SpscRingBuffer WITH
  Capacity  <- NextPow2(Requested),
  Item      <- 1 .. Orders \cup {Sentinel},
  MaxPushes <- PushCount

Current == IF pushed < Orders THEN pushed + 1 ELSE Sentinel

DropOrder(n) == n + 1  \* Mutant: push() is not tried again.

\* The loop around push() tries the same item again.
AfterFull(n) == n

------------------------------------------------------------------------------
Init == /\ Ring!Init
        /\ pushed = 0
        /\ engine = "polling"
        /\ submitted = <<>>
        /\ joined = FALSE

(***************************************************************************)
(* The main thread.                                                        *)
(***************************************************************************)
Spin == /\ pushed < PushCount
        /\ Ring!PushFull
        /\ pushed' = AfterFull(pushed)
        /\ UNCHANGED <<engine, submitted, joined>>

Push == /\ pushed < PushCount
        /\ Ring!PushRoom(Current) \/ Ring!Construct
        /\ UNCHANGED <<pushed, engine, submitted, joined>>

Pushed == /\ Ring!Publish
          /\ pushed' = pushed + 1
          /\ UNCHANGED <<engine, submitted, joined>>

DoNotWait == TRUE  \* Mutant: no join().

EngineDone == engine = "exited"

\* consumer.join(), then the main thread reads what the engine thread wrote.
Join == /\ pushed = PushCount
        /\ EngineDone
        /\ ~joined
        /\ joined' = TRUE
        /\ UNCHANGED <<ringVars, pushed, engine, submitted>>

(***************************************************************************)
(* The engine thread.                                                      *)
(***************************************************************************)
PollEmpty == /\ engine = "polling"
             /\ Ring!PopEmpty
             /\ UNCHANGED <<pushed, engine, submitted, joined>>

Poll == /\ engine = "polling"
        /\ Ring!PopItem \/ Ring!Take
        /\ UNCHANGED <<pushed, engine, submitted, joined>>

Popped == /\ engine = "polling"
          /\ Ring!Free
          /\ engine' = "serving"
          /\ UNCHANGED <<pushed, submitted, joined>>

AlwaysOrder(x) == FALSE  \* Mutant: nullptr is submitted like an order.

IsSentinel(x) == x = Sentinel

Submit == /\ engine = "serving"
          /\ ~IsSentinel(popped)
          /\ submitted' = Append(submitted, popped)
          /\ engine' = "polling"
          /\ UNCHANGED <<ringVars, pushed, joined>>

Exit == /\ engine = "serving"
        /\ IsSentinel(popped)
        /\ engine' = "exited"
        /\ UNCHANGED <<ringVars, pushed, submitted, joined>>

Main == Push \/ Pushed \/ Join
Engine == Poll \/ Popped \/ Submit \/ Exit

Next == Main \/ Spin \/ Engine \/ PollEmpty

Spec == Init /\ [][Next]_vars

(***************************************************************************)
(* Both threads run, and a store becomes visible to the other thread after *)
(* a while, as C++ asks of an implementation: neither thread spins for     *)
(* ever while a newer index would let it go on.                            *)
(***************************************************************************)
FairSpec == Spec /\ WF_vars(Main) /\ WF_vars(Engine)

------------------------------------------------------------------------------
TypeOK == /\ Ring!TypeOK
          /\ pushed \in 0 .. PushCount
          /\ engine \in {"polling", "serving", "exited"}
          /\ submitted \in Seq(1 .. Orders)
          /\ joined \in BOOLEAN

(***************************************************************************)
(* The engine gets the stream the baseline mode would give it: every order *)
(* once, in order, whatever the threads' speeds and however old the        *)
(* indices they load.                                                      *)
(***************************************************************************)
StreamInOrder == \A i \in DOMAIN submitted : submitted[i] = i

(***************************************************************************)
(* The result is read after the join only, when all orders were processed; *)
(* and by then the ring is empty - its destructor destroys no item, so one *)
(* left inside would leak.                                                 *)
(***************************************************************************)
ReportComplete == joined => /\ Len(submitted) = Orders
                            /\ \A i \in Ring!Slot : slots[i] = NoItem

(***************************************************************************)
(* Backpressure on the one side and polling on the other never block each  *)
(* other, and the engine thread always sees the sentinel.                  *)
(***************************************************************************)
PipelineEnds == <>joined
==============================================================================
