------------------------------ MODULE OrderBook ------------------------------
(***************************************************************************)
(* One OrderBook (src/core/OrderBook.cpp) with its PriceLevels             *)
(* (include/core/PriceLevel.hpp), one step per iteration of drainSide().   *)
(*                                                                         *)
(* A call of addOrder() is several steps: Submit makes the call, FokPass   *)
(* and FokKill are the pre-check of matchFok(), Fill is one iteration of   *)
(* the loop of drainSide(), and a Finish action is what the match function *)
(* does after its loop, up to the return.  The book is used by one thread, *)
(* so no other call starts until pc is "idle" again.                       *)
(***************************************************************************)
EXTENDS Types, SequencesExt

CONSTANTS OrderId,     \* identifiers a caller can use
          NoOrder,     \* "no order has been submitted yet"
          MinPrice, MaxPrice,  \* the fixed-point prices: all of int64 in the code
          OrderQty,    \* quantities a caller can name
          QtyMod       \* Quantity is unsigned and wraps here: 2^64 in the code

ASSUME OrderIdAssumption == NoOrder \notin OrderId
ASSUME PriceAssumption == MinPrice \in Int /\ MaxPrice \in Int /\ 0 \in MinPrice .. MaxPrice
ASSUME QtyAssumption == /\ QtyMod \in Nat \ {0}
                        /\ OrderQty \subseteq 1 .. (QtyMod - 1)

Price == MinPrice .. MaxPrice
Quantity == 0 .. (QtyMod - 1)

VARIABLES
  orders,    \* every Order object submitted so far, by id
  book,      \* bids_ and asks_: for each side a map from price to PriceLevel
  index,     \* index_: for each resting id its side and price
  incoming,  \* the order of the current, or else of the last, addOrder() call
  trades,    \* the vector that call returns
  pc         \* where that call is

vars == <<orders, book, index, incoming, trades, pc>>

Order == [side : Side, type : OrderType, price : Price,
          quantity : Quantity, filled : Quantity, status : OrderStatus]
Location == [side : Side, price : Price]
PriceLevel == [queue : Seq(OrderId), total : Quantity]
Trade == [maker : OrderId, price : Price, qty : Quantity]

Remaining(o) == o.quantity - o.filled
IsFilled(o) == o.filled >= o.quantity

(***************************************************************************)
(* PriceLevel: a deque of orders and a running total, which is updated by  *)
(* differences and never recomputed.  rem is the remaining quantity of the *)
(* order that is added or removed.                                         *)
(***************************************************************************)
EmptyLevel == [queue |-> <<>>, total |-> 0]

\* Mutant: the newest order goes first.
AddInFront(lv, id, rem) ==
  [queue |-> <<id>> \o lv.queue, total |-> (lv.total + rem) % QtyMod]

AddToLevel(lv, id, rem) ==
  [queue |-> Append(lv.queue, id), total |-> (lv.total + rem) % QtyMod]

\* Mutant: the order stays in the deque.
RemoveNothing(lv, id, rem) == lv

RemoveFromLevel(lv, id, rem) ==
  IF id \in ToSet(lv.queue)
  THEN [queue |-> RemoveFirst(lv.queue, id), total |-> (lv.total - rem) % QtyMod]
  ELSE lv

PopFront(lv, rem) ==
  [queue |-> Tail(lv.queue), total |-> (lv.total - rem) % QtyMod]

UpdateTotal(lv, qty) ==
  [lv EXCEPT !.total = IF @ >= qty THEN @ - qty ELSE 0]

(***************************************************************************)
(* The std::map of one side.                                               *)
(***************************************************************************)
SetLevel(levels, p, lv) ==
  [q \in DOMAIN levels \cup {p} |-> IF q = p THEN lv ELSE levels[q]]

EraseLevel(levels, p) == [q \in DOMAIN levels \ {p} |-> levels[q]]

\* Mutant: an empty level stays in the map.
StoreAnyLevel(levels, p, lv) == SetLevel(levels, p, lv)

\* Store a level that lost orders or quantity; an empty one leaves the map.
StoreLevel(levels, p, lv) ==
  IF lv.queue = <<>> THEN EraseLevel(levels, p) ELSE SetLevel(levels, p, lv)

\* The order of the map: bids_ is std::greater, asks_ is std::less.
AtLeastAsGood(s, p, q) == IF s = "BUY" THEN p >= q ELSE p <= q

IsBest(s, p) == \A q \in DOMAIN book[s] : AtLeastAsGood(s, p, q)

\* Mutant: the index keeps an order that left the book.
KeepIndex(id) == index

EraseIndex(id) == [i \in DOMAIN index \ {id} |-> index[i]]

(***************************************************************************)
(* The lambda given to drainSide() and availableFill(): may o trade with a *)
(* resting order at price p?  A MARKET order passes nullptr.               *)
(***************************************************************************)
\* Mutant: an order does not trade at its own limit.
CrossesStrictly(o, p) == \/ o.type = "MARKET"
                         \/ o.side = "BUY"  /\ p < o.price
                         \/ o.side = "SELL" /\ p > o.price

Crosses(o, p) == \/ o.type = "MARKET"
                 \/ o.side = "BUY"  /\ p <= o.price
                 \/ o.side = "SELL" /\ p >= o.price

(***************************************************************************)
(* availableFill() >= quantity: the scan adds level totals from the best   *)
(* price on, in uint64, and stops at the first sum that is enough.         *)
(***************************************************************************)
Available(s, p) ==
  SumFunctionOnSet([q \in DOMAIN book[s] |-> book[s][q].total],
                   {q \in DOMAIN book[s] : AtLeastAsGood(s, q, p)}) % QtyMod

\* Mutant: the scan forgets the limit price.
CanFillAtAnyPrice(o) == \E p \in DOMAIN book[Opposite(o.side)] :
                          Available(Opposite(o.side), p) >= o.quantity

CanFill(o) == \E p \in DOMAIN book[Opposite(o.side)] :
                /\ Crosses(o, p)
                /\ Available(Opposite(o.side), p) >= o.quantity

\* The loop of drainSide() runs again, at best price p.
Matchable(o, p) == /\ Remaining(o) > 0
                   /\ p \in DOMAIN book[Opposite(o.side)]
                   /\ IsBest(Opposite(o.side), p)
                   /\ Crosses(o, p)

MakerStatus(o) == IF IsFilled(o) THEN "FILLED" ELSE "PARTIALLY_FILLED"

------------------------------------------------------------------------------
Init == /\ orders = <<>>
        /\ book = [s \in Side |-> <<>>]
        /\ index = <<>>
        /\ incoming = NoOrder
        /\ trades = <<>>
        /\ pc = "idle"

\* What RiskValidator lets through; a MARKET order carries price 0.
ValidPrice(type, price) == CASE type = "MARKET" -> price = 0
                             [] type = "LIMIT"  -> price > 0
                             [] OTHER           -> TRUE

NewOrder(side, type, price, qty) ==
  [side |-> side, type |-> type, price |-> price, quantity |-> qty,
   filled |-> 0, status |-> "ACCEPTED"]

(***************************************************************************)
(* addOrder(): the order is ACCEPTED and handed to its match function.     *)
(* The engine never passes an id twice (RiskValidator::validate).          *)
(***************************************************************************)
Submit(id, side, type, price, qty) ==
  /\ pc = "idle"
  /\ id \notin DOMAIN orders
  /\ ValidPrice(type, price)
  /\ orders' = [i \in DOMAIN orders \cup {id} |->
                  IF i = id THEN NewOrder(side, type, price, qty) ELSE orders[i]]
  /\ incoming' = id
  /\ trades' = <<>>
  /\ pc' = IF type = "FOK" THEN "precheck" ELSE "drain"
  /\ UNCHANGED <<book, index>>

FokPass == /\ pc = "precheck"
           /\ CanFill(orders[incoming])
           /\ pc' = "drain"
           /\ UNCHANGED <<orders, book, index, incoming, trades>>

FokKill == /\ pc = "precheck"
           /\ ~CanFill(orders[incoming])
           /\ orders' = [orders EXCEPT ![incoming].status = "CANCELLED"]
           /\ pc' = "idle"
           /\ UNCHANGED <<book, index, incoming, trades>>

(***************************************************************************)
(* One iteration of drainSide(): trade with the front order of the best    *)
(* level, then drop it if it is filled, then the level if it is empty.     *)
(***************************************************************************)
\* Mutant: filledQty is assigned, not increased.
TradedLast(o, qty) == [o EXCEPT !.filled = qty]

Traded(o, qty) == [o EXCEPT !.filled = @ + qty]

FillQtyOfTaker(taker, maker) == Remaining(taker)  \* Mutant: no min().

FillQty(taker, maker) == Lesser(Remaining(taker), Remaining(maker))

\* Mutant: the total loses a filled order's quantity twice.
AfterTradeTwice(lv, maker, qty) ==
  IF IsFilled(maker) THEN PopFront(UpdateTotal(lv, qty), qty)
                     ELSE UpdateTotal(lv, qty)

AfterTrade(lv, maker, qty) ==
  IF IsFilled(maker) THEN PopFront(UpdateTotal(lv, qty), Remaining(maker))
                     ELSE UpdateTotal(lv, qty)

FillAt(s, p) ==
  LET lv    == book[s][p]
      m     == Head(lv.queue)
      qty   == FillQty(orders[incoming], orders[m])
      maker == Traded(orders[m], qty)
  IN  /\ trades' = Append(trades, [maker |-> m, price |-> maker.price, qty |-> qty])
      /\ orders' = [orders EXCEPT ![m] = [maker EXCEPT !.status = MakerStatus(maker)],
                                  ![incoming] = Traded(@, qty)]
      /\ index' = IF IsFilled(maker) THEN EraseIndex(m) ELSE index
      /\ book' = [book EXCEPT ![s] = StoreLevel(@, p, AfterTrade(lv, maker, qty))]
      /\ UNCHANGED <<incoming, pc>>

Fill == /\ pc = "drain"
        /\ \E p \in Price : /\ Matchable(orders[incoming], p)
                            /\ FillAt(Opposite(orders[incoming].side), p)

(***************************************************************************)
(* After the loop.                                                         *)
(***************************************************************************)
\* Mutant: the loop does not end at a price that does not cross.
DrainOverWhenFilled == pc = "drain" /\ IsFilled(orders[incoming])

DrainOver == /\ pc = "drain"
             /\ \A p \in Price : ~Matchable(orders[incoming], p)

Finish(type, status) ==
  /\ DrainOver
  /\ orders[incoming].type = type
  /\ orders' = [orders EXCEPT ![incoming].status = status]
  /\ pc' = "idle"
  /\ UNCHANGED <<incoming, trades>>

\* Mutant: a partly filled order rests as if it had not traded.
LimitStatusFresh(o) == IF IsFilled(o) THEN "FILLED" ELSE "ACCEPTED"

LimitStatus(o) == IF o.filled = 0 THEN "ACCEPTED"
                  ELSE IF IsFilled(o) THEN "FILLED" ELSE "PARTIALLY_FILLED"

\* restOrder(): join the level at the order's price, or open it.
RestOrder(id, o) ==
  LET levels == book[o.side]
      lv == IF o.price \in DOMAIN levels THEN levels[o.price] ELSE EmptyLevel
  IN  /\ book' = [book EXCEPT ![o.side] =
                    SetLevel(levels, o.price, AddToLevel(lv, id, Remaining(o)))]
      /\ index' = [i \in DOMAIN index \cup {id} |->
                     IF i = id THEN [side |-> o.side, price |-> o.price]
                               ELSE index[i]]

FinishLimit == LET o == orders[incoming] IN
  /\ Finish("LIMIT", LimitStatus(o))
  /\ IF IsFilled(o) THEN UNCHANGED <<book, index>> ELSE RestOrder(incoming, o)

FinishMarket == LET o == orders[incoming] IN
  /\ Finish("MARKET", MakerStatus(o))
  /\ UNCHANGED <<book, index>>

IocStatus(o) == IF IsFilled(o) THEN "FILLED"
                ELSE IF o.filled > 0 THEN "PARTIALLY_FILLED" ELSE "CANCELLED"

FinishIoc == /\ Finish("IOC", IocStatus(orders[incoming]))
             /\ UNCHANGED <<book, index>>

FinishFok == /\ Finish("FOK", "FILLED")
             /\ UNCHANGED <<book, index>>

(***************************************************************************)
(* cancelOrder() of an id the index knows; of any other id it returns      *)
(* false and changes nothing.  The Order's status is left as it was.       *)
(***************************************************************************)
CancelAt(levels, p, id) ==
  IF p \in DOMAIN levels
  THEN StoreLevel(levels, p, RemoveFromLevel(levels[p], id, Remaining(orders[id])))
  ELSE levels

CancelOrder(id) ==
  /\ pc = "idle"
  /\ id \in DOMAIN index
  /\ book' = [book EXCEPT ![index[id].side] = CancelAt(@, index[id].price, id)]
  /\ index' = EraseIndex(id)
  /\ UNCHANGED <<orders, incoming, trades, pc>>

------------------------------------------------------------------------------
\* The rest of a call of addOrder().
Match == \/ FokPass \/ FokKill \/ Fill
         \/ FinishLimit \/ FinishMarket \/ FinishIoc \/ FinishFok

Next == \/ \E id \in OrderId, side \in Side, type \in OrderType,
              price \in Price, qty \in OrderQty :
                Submit(id, side, type, price, qty)
        \/ Match
        \/ \E id \in OrderId : CancelOrder(id)

Spec == Init /\ [][Next]_vars

\* A call that was made runs to its return.
FairSpec == Spec /\ WF_vars(Match)
==============================================================================
