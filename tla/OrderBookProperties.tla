------------------------- MODULE OrderBookProperties -------------------------
(***************************************************************************)
(* What must hold of every OrderBook.                                      *)
(***************************************************************************)
EXTENDS OrderBook, InvariantChecker

\* The ids queued at price p of side s.
Queued(s, p) == ToSet(book[s][p].queue)

Resting == DOMAIN index

Distinct(queue) == \A i, j \in DOMAIN queue : queue[i] = queue[j] => i = j

OrdersType ==
  /\ DOMAIN orders \subseteq OrderId
  /\ orders \in [DOMAIN orders -> Order]
  /\ \A id \in DOMAIN orders : orders[id].filled <= orders[id].quantity

BookType ==
  /\ DOMAIN book = Side
  /\ \A s \in Side : /\ DOMAIN book[s] \subseteq Price
                     /\ book[s] \in [DOMAIN book[s] -> PriceLevel]

IndexType == /\ DOMAIN index \subseteq DOMAIN orders
             /\ index \in [DOMAIN index -> Location]

CallType == /\ incoming \in DOMAIN orders \cup {NoOrder}
            /\ pc \in {"idle", "precheck", "drain"}
            /\ pc # "idle" => incoming # NoOrder
            /\ trades \in Seq(Trade)

(***************************************************************************)
(* The types of the state, and no order filled beyond its quantity (the    *)
(* unsigned remainingQty() would wrap).                                    *)
(***************************************************************************)
TypeOK == OrdersType /\ BookType /\ IndexType /\ CallType

(***************************************************************************)
(* Best bid below best ask, in every state: drainSide() has to take every  *)
(* level a LIMIT order crosses before restOrder() puts the rest on its own *)
(* side (OrderBook::checkInvariants).                                      *)
(***************************************************************************)
NotCrossed == \A bid \in DOMAIN book["BUY"], ask \in DOMAIN book["SELL"] : bid < ask

(***************************************************************************)
(* index_ and the levels agree, both ways: an indexed id is queued at its  *)
(* location, a queued id is indexed there, queued once, and is a LIMIT     *)
(* order of that side and price.  cancelOrder() and drainSide() each       *)
(* update the two separately; checkInvariants() tests only that the level  *)
(* of an indexed id exists.                                                *)
(***************************************************************************)
IndexExact ==
  /\ \A id \in Resting : /\ index[id].price \in DOMAIN book[index[id].side]
                         /\ id \in Queued(index[id].side, index[id].price)
  /\ \A s \in Side : \A p \in DOMAIN book[s] :
       /\ Distinct(book[s][p].queue)
       /\ \A id \in Queued(s, p) :
            /\ id \in Resting
            /\ index[id] = [side |-> s, price |-> p]
            /\ orders[id].side = s /\ orders[id].price = p
            /\ orders[id].type = "LIMIT"

(***************************************************************************)
(* No level is empty and no queued order is filled: otherwise front() of   *)
(* the best level is null, or drainSide() trades quantity 0 for ever.      *)
(***************************************************************************)
LiveLevels ==
  \A s \in Side : \A p \in DOMAIN book[s] :
    /\ book[s][p].queue # <<>>
    /\ \A id \in Queued(s, p) : ~IsFilled(orders[id])

\* What every order has left.
Open == [id \in DOMAIN orders |-> Remaining(orders[id])]

(***************************************************************************)
(* A level's running total is what its orders have left, after any number  *)
(* of partial fills, pops and cancels.  The FOK pre-check and the market   *)
(* data read the total, the matching loop reads the orders.                *)
(***************************************************************************)
TotalsMatch ==
  \A s \in Side : \A p \in DOMAIN book[s] :
    book[s][p].total = SumFunctionOnSet(Open, Queued(s, p))

(***************************************************************************)
(* "fills fully or rejects entirely with no trades" (OrderBook.hpp): when  *)
(* its call is over a FOK order has its whole quantity and is FILLED, or   *)
(* nothing and is CANCELLED.  The pre-check and the loop read different    *)
(* state, so they have to agree on every reachable book.                   *)
(***************************************************************************)
FokAllOrNothing ==
  \A id \in DOMAIN orders :
    LET o == orders[id] IN
    o.type = "FOK" /\ (id # incoming \/ pc = "idle") =>
      \/ o.filled = o.quantity /\ o.status = "FILLED"
      \/ o.filled = 0 /\ o.status = "CANCELLED"

(***************************************************************************)
(* A comment in MatchingEngine::submitOrder: "IOC/FOK that resulted in no  *)
(* fill or only partial fill come back with status CANCELLED".             *)
(***************************************************************************)
UnfilledComeBackCancelled ==
  \A id \in DOMAIN orders :
    LET o == orders[id] IN
    o.type \in {"IOC", "FOK"} /\ (id # incoming \/ pc = "idle") /\ ~IsFilled(o)
      => o.status = "CANCELLED"

FilledOf(s) == SumFunctionOnSet([id \in DOMAIN orders |-> orders[id].filled],
                                {id \in DOMAIN orders : orders[id].side = s})

(***************************************************************************)
(* What was bought was sold, in every state.                               *)
(***************************************************************************)
Conservation == FilledOf("BUY") = FilledOf("SELL")

(***************************************************************************)
(* A resting order's status says whether it has traded.                    *)
(***************************************************************************)
RestingStatus ==
  \A id \in Resting :
    orders[id].status = IF orders[id].filled = 0 THEN "ACCEPTED" ELSE "PARTIALLY_FILLED"

\* What InvariantChecker::checkBook() reads.
LevelsSeen ==
  [s \in Side |-> [p \in DOMAIN book[s] |->
     LET queue == book[s][p].queue
     IN  [qty |-> book[s][p].total,
          open |-> [i \in DOMAIN queue |-> Remaining(orders[queue[i]])]]]]

(***************************************************************************)
(* The program's own check reports no violation of any book between calls, *)
(* whatever calls came before: it relates totals, orders and index, which  *)
(* drift apart separately.                                                 *)
(***************************************************************************)
CheckerPasses == pc = "idle" => CheckBook(LevelsSeen, index, QtyMod)

(***************************************************************************)
(* An order that is neither resting nor in its own call is over: its       *)
(* filled quantity and its status never change again.  In particular a     *)
(* cancelled order never trades, though its Order object stays alive.      *)
(***************************************************************************)
OverIsOver ==
  [][\A id \in DOMAIN orders \ Resting :
       id # incoming \/ pc = "idle" => orders'[id] = orders[id]]_vars

(***************************************************************************)
(* Every call returns: the loop of drainSide() makes progress.             *)
(***************************************************************************)
CallsReturn == pc # "idle" ~> pc = "idle"

==============================================================================
