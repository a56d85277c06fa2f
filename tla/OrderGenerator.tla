---------------------------- MODULE OrderGenerator ----------------------------
(***************************************************************************)
(* OrderGenerator (src/benchmark/OrderGenerator.cpp): the stream of orders *)
(* of a benchmark.  It remembers LIMIT orders to cancel, but never learns  *)
(* what becomes of them.                                                   *)
(*                                                                         *)
(* generate() is one action per order.  The random draws are choices, and  *)
(* the fractions of the types do not matter.  A LIMIT order has any price  *)
(* on the grid, as passive and aggressive draws lie on both sides of the   *)
(* mid price; IOC and FOK orders are aggressive.                           *)
(***************************************************************************)
EXTENDS Types, SequencesExt

CONSTANTS Symbol,       \* cfg_.symbols
          Unknown,      \* "INVALID"
          Price,        \* positive prices on the tick grid
          MidPrice,     \* defaultSymbolParams(): one of them
          LimitQty,     \* quantities of LIMIT orders: 1 .. 500 in the code
          TakerQty,     \* of MARKET, IOC and FOK orders: 1 .. 200, 150 and 80
          Count,        \* cfg_.count
          SeedDivisor,  \* bound: 10 in the code
          SeedLimit,    \* bound: 5000
          TrackLimit    \* bound: 50000

VARIABLES stream,         \* orders
          restingOrders,  \* restingOrders_, in order
          idCounter       \* idCounter_

vars == <<stream, restingOrders, idCounter>>

SeedCount == Lesser(Count \div SeedDivisor, SeedLimit)

Seeding == Len(stream) < SeedCount
Streaming == SeedCount <= Len(stream) /\ Len(stream) < Count

Order(id, s, side, type, price, qty) ==
  [id |-> id, symbol |-> s, side |-> side, type |-> type, price |-> price, quantity |-> qty]

\* nextId() increments first.
NextId == idCounter + 1

Draw(s, type, prices, qtys) ==
  {Order(NextId, s, side, type, p, q) : side \in Side, p \in prices, q \in qtys}

\* makeIoc() and makeFok(): BUY at the mid price or above, SELL at or below.
DrawAggressive(s, type) ==
  {o \in Draw(s, type, Price, TakerQty) : IF o.side = "BUY" THEN o.price >= MidPrice
                                          ELSE o.price <= MidPrice}

\* The three kinds of makeInvalid(): no quantity, no price, no such symbol.
InvalidOrders(s) ==
  LET p == CHOOSE x \in Price : TRUE
      q == CHOOSE x \in LimitQty : TRUE
  IN  {Order(NextId, s, "BUY", "LIMIT", p, 0),
       Order(NextId, s, "SELL", "LIMIT", 0, q),
       Order(NextId, Unknown, "BUY", "LIMIT", p, q)}

------------------------------------------------------------------------------
Init == /\ stream = <<>>
        /\ restingOrders = <<>>
        /\ idCounter = 0

Emit(o) == stream' = Append(stream, o)

\* An order with an id of its own.
EmitNew(o) == Emit(o) /\ idCounter' = NextId

Remember(o) == Append(restingOrders, <<o.symbol, o.id>>)

SeedOrder(o) == /\ Seeding
                /\ EmitNew(o)
                /\ restingOrders' = Remember(o)

\* Mutant: the bound is forgotten.
TrackAll(o) == Remember(o)

Track(o) == IF Len(restingOrders) < TrackLimit THEN Remember(o) ELSE restingOrders

EmitLimit(o) == /\ Streaming
                /\ EmitNew(o)
                /\ restingOrders' = Track(o)

\* MARKET, IOC, FOK and invalid orders are not remembered.
EmitOther(o) == /\ Streaming
                /\ EmitNew(o)
                /\ UNCHANGED restingOrders

Forget(i) == restingOrders  \* Mutant: a cancelled order can be drawn again.

\* The last element takes the place of the i-th.
Removed(i) == Front([restingOrders EXCEPT ![i] = Last(restingOrders)])

(***************************************************************************)
(* makeCancel(): the id of the order to cancel, BUY, price 0, quantity 1.  *)
(***************************************************************************)
EmitCancel(i) ==
  /\ Streaming
  /\ Emit(Order(restingOrders[i][2], restingOrders[i][1], "BUY", "CANCEL", 0, 1))
  /\ restingOrders' = Removed(i)
  /\ UNCHANGED idCounter

\* With nothing to cancel a LIMIT order is emitted, and remembered unchecked.
EmitInstead(o) == /\ Streaming
                  /\ restingOrders = <<>>
                  /\ EmitNew(o)
                  /\ restingOrders' = Remember(o)

Next ==
  \E s \in Symbol :
    \/ \E o \in Draw(s, "LIMIT", Price, LimitQty) :
         SeedOrder(o) \/ EmitLimit(o) \/ EmitInstead(o)
    \/ \E o \in Draw(s, "MARKET", {0}, TakerQty) \cup InvalidOrders(s)
                  \cup DrawAggressive(s, "IOC") \cup DrawAggressive(s, "FOK") :
         EmitOther(o)
    \/ \E i \in DOMAIN restingOrders : EmitCancel(i)

Spec == Init /\ [][Next]_vars

------------------------------------------------------------------------------
(***************************************************************************)
(* Each new order has the next id, and each CANCEL names the id and the    *)
(* symbol of an earlier valid LIMIT order that no other CANCEL names: the  *)
(* list and the swap with its last element lose and repeat nothing.        *)
(***************************************************************************)
\* The new orders among the first n.
NewUpTo(n) == {m \in 1 .. n : stream[m].type # "CANCEL"}

\* Position l is a valid LIMIT order with this symbol and id.
IsTarget(l, s, id) == /\ stream[l].type = "LIMIT"
                      /\ stream[l].id = id /\ stream[l].symbol = s
                      /\ stream[l].price > 0 /\ stream[l].quantity > 0

StreamWellFormed ==
  /\ \A n \in DOMAIN stream :
       stream[n].type # "CANCEL" => stream[n].id = Cardinality(NewUpTo(n))
  /\ \A c \in DOMAIN stream : stream[c].type = "CANCEL" =>
       /\ \E l \in 1 .. (c - 1) : IsTarget(l, stream[c].symbol, stream[c].id)
       /\ \A d \in DOMAIN stream :
            stream[d].type = "CANCEL" /\ stream[d].id = stream[c].id => d = c

(***************************************************************************)
(* "keep pool bounded": of the three places that remember an order only    *)
(* one tests the bound; the others rely on the seed being short and on the *)
(* list being empty.                                                       *)
(***************************************************************************)
TrackedBounded == Len(restingOrders) <= TrackLimit
==============================================================================
