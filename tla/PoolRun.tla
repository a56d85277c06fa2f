------------------------------- MODULE PoolRun -------------------------------
(***************************************************************************)
(* BenchmarkRunner::runPool() (src/benchmark/BenchmarkRunner.cpp): every   *)
(* order lives in a slot of a MemoryPool and is owned by shared_ptrs whose *)
(* deleter gives the slot back.  An order is kept alive by its level while *)
(* it rests, and by the variable poolOrder of the loop.                    *)
(***************************************************************************)
EXTENDS PriceTime

CONSTANTS OrderId, Symbol, Price, MaxQty,
          Orders,    \* bound: the length of the stream
          NoOrder    \* no order lives in the slot

ASSUME StreamAssumption == /\ Price \subseteq Int /\ IsFiniteSet(Price)
                           /\ MaxQty \in Nat /\ Orders \in Nat
                           /\ NoOrder \notin OrderId

VARIABLES books, symbols, usedIds, ordersProcessed, tradesGenerated, result,
          storage, freelist, allocated,
          slotOf,   \* for each resting id the slot its level's pointer points to
          current,  \* the slot of poolOrder: <<>> or one slot
          phase     \* "alloc" and "submit" in the loop, "end" of an iteration,
                    \* then "engine" when the pool is gone and the engine is not

engineVars == <<books, symbols, usedIds, ordersProcessed, tradesGenerated, result>>
poolVars == <<storage, freelist, allocated>>
vars == <<engineVars, poolVars, slotOf, current, phase>>

Engine == INSTANCE MatchingEngine WITH MaxProcessed <- Orders

\* "Size pool to hold all submitted orders simultaneously".
Pool == INSTANCE MemoryPool WITH
  Capacity <- Orders + 1, Object <- OrderId, NoObject <- NoOrder

Held == {slotOf[id] : id \in DOMAIN slotOf} \cup ToSet(current)

Init == /\ Engine!Init
        /\ Pool!Init
        /\ slotOf = <<>>
        /\ current = <<>>
        /\ phase = "alloc"

Register == /\ phase = "alloc" /\ ordersProcessed = 0
            /\ \E s \in Symbol : Engine!RegisterSymbol(s)
            /\ UNCHANGED <<poolVars, slotOf, current, phase>>

\* pool.alloc() with the fields of the generator's order.
Alloc(id) == /\ phase = "alloc"
             /\ ordersProcessed < Orders
             /\ Pool!Alloc(id)
             /\ current' = <<Last(freelist)>>
             /\ phase' = "submit"
             /\ UNCHANGED <<engineVars, slotOf>>

(***************************************************************************)
(* The ids whose last pointer is released inside submitOrder(), in order:  *)
(* the id a CANCEL found, or the makers that were filled, of which all but *)
(* perhaps the last one were.                                              *)
(***************************************************************************)
Gone(o) ==
  LET left  == Engine!AllResting \ Engine!AllResting'
      fills == result'.trades
      count == Cardinality({i \in DOMAIN fills : fills[i].maker \in left})
  IN  IF o.type = "CANCEL" THEN IF o.id \in left THEN <<o.id>> ELSE <<>>
      ELSE [i \in 1 .. count |-> fills[i].maker]

NoSlots(gone) == <<>>  \* Mutant: the deleter does nothing.

SlotsOf(gone) == [i \in DOMAIN gone |-> slotOf[gone[i]]]

Submit(o) ==
  /\ phase = "submit"
  /\ storage[current[1]] = o.id
  /\ Engine!SubmitOrder(o)
  /\ slotOf' = [id \in Engine!AllResting' |->
                  IF id \in DOMAIN slotOf THEN slotOf[id] ELSE current[1]]
  /\ Pool!Dealloc(SlotsOf(Gone(o)))
  /\ phase' = "end"
  /\ UNCHANGED current

\* poolOrder goes out of scope.
EndIteration ==
  /\ phase = "end"
  /\ Pool!Dealloc(IF \E id \in DOMAIN slotOf : slotOf[id] = current[1]
                  THEN <<>> ELSE current)
  /\ current' = <<>>
  /\ phase' = "alloc"
  /\ UNCHANGED <<engineVars, slotOf>>

(***************************************************************************)
(* The return: locals are destroyed in reverse order of declaration, and   *)
(* the pool was declared after the engine.                                 *)
(***************************************************************************)
DestroyPool == /\ phase = "alloc" /\ ordersProcessed = Orders
               /\ phase' = "engine"
               /\ UNCHANGED <<engineVars, poolVars, slotOf, current>>

Next == \/ Register
        \/ \E id \in OrderId : Alloc(id)
        \/ \E o \in Engine!Input : Submit(o)
        \/ EndIteration
        \/ DestroyPool

Spec == Init /\ [][Next]_vars

------------------------------------------------------------------------------
(***************************************************************************)
(* Exactly the orders that a pointer keeps alive occupy slots, one each,   *)
(* and the slot of a resting order holds that order: a slot is given back  *)
(* when an order has left its level, neither before nor never.             *)
(***************************************************************************)
SlotsHeld ==
  phase # "engine" =>
    /\ Pool!Live = Held
    /\ DOMAIN slotOf = Engine!AllResting
    /\ \A id \in DOMAIN slotOf : storage[slotOf[id]] = id
    /\ \A i, j \in DOMAIN slotOf : slotOf[i] = slotOf[j] => i = j

FreelistExact == Pool!FreelistExact

(***************************************************************************)
(* "Custom deleter returns the slot to the pool on last shared_ptr         *)
(* release" (BenchmarkRunner.cpp): no order outlives the pool.             *)
(***************************************************************************)
NoOrderOutlivesPool == phase = "engine" => Held = {}
==============================================================================
