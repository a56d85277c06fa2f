---------------------------- MODULE MatchingEngine ----------------------------
(***************************************************************************)
(* MatchingEngine (src/core/MatchingEngine.cpp) with its RiskValidator     *)
(* (include/core/RiskValidator.hpp): one OrderBook per symbol.             *)
(*                                                                         *)
(* The engine is used by one thread, so each of its calls is one step, and *)
(* the effect of OrderBook::addOrder() and cancelOrder() is the one that   *)
(* PriceTime gives at once: OrderBook implements it, step by step, for     *)
(* orders that RiskValidator lets through.                                 *)
(***************************************************************************)
EXTENDS PriceTime

CONSTANTS OrderId, Symbol,
          Price,        \* the prices an order can name, 0 and below included
          MaxQty,       \* bound: quantities are 0 .. MaxQty
          MaxProcessed  \* bound: calls of submitOrder()

ASSUME BoundsAssumption == /\ Price \subseteq Int /\ IsFiniteSet(Price)
                           /\ MaxQty \in Nat /\ MaxProcessed \in Nat

VARIABLES
  books,            \* books_: the open entries of each registered symbol
  symbols,          \* validator_.symbols_
  usedIds,          \* validator_.usedIds_
  ordersProcessed,  \* ordersProcessed_
  tradesGenerated,  \* tradesGenerated_
  result            \* the EngineResult of the last call

vars == <<books, symbols, usedIds, ordersProcessed, tradesGenerated, result>>

Input == [id : OrderId, symbol : Symbol, side : Side,
          type : OrderType \cup {"CANCEL"}, price : Price, quantity : 0 .. MaxQty]

Resting(s) == RestingIds(books[s])

Result(status, trades) == [status |-> status, trades |-> trades]
Rejected == Result("REJECTED", <<>>)

------------------------------------------------------------------------------
(***************************************************************************)
(* RiskValidator::validate().                                              *)
(***************************************************************************)
\* Mutant: a LIMIT order may have any price.
ValidAtAnyPrice(o) == /\ o.quantity > 0
                      /\ o.symbol \in symbols
                      /\ o.id \notin usedIds

\* Mutant: an id may come again.
ValidAgain(o) == /\ o.quantity > 0
                 /\ o.type = "LIMIT" => o.price > 0
                 /\ o.symbol \in symbols

Valid(o) == /\ o.quantity > 0
            /\ o.type = "LIMIT" => o.price > 0
            /\ o.symbol \in symbols
            /\ o.id \notin usedIds

\* Mutant: only the ids that rest are remembered.
RecordResting(o) == {id \in usedIds \cup {o.id} :
                       id = o.id \/ \E s \in DOMAIN books : id \in Resting(s)}

RecordId(o) == usedIds \cup {o.id}

------------------------------------------------------------------------------
Init == /\ books = <<>>
        /\ symbols = {}
        /\ usedIds = {}
        /\ ordersProcessed = 0
        /\ tradesGenerated = 0
        /\ result = Result("PENDING", <<>>)

NoEmplace(s) == books  \* Mutant: only the validator learns of the symbol.

\* unordered_map::emplace() leaves an existing book alone.
Emplace(s) == [t \in DOMAIN books \cup {s} |-> IF t \in DOMAIN books THEN books[t]
                                               ELSE EmptyBook]

RegisterSymbol(s) ==
  /\ books' = Emplace(s)
  /\ symbols' = symbols \cup {s}
  /\ result' = Result("PENDING", <<>>)
  /\ UNCHANGED <<usedIds, ordersProcessed, tradesGenerated>>

\* Mutant: the id is looked for in every book.
CancelEverywhere(s, id) ==
  /\ books' = [t \in DOMAIN books |-> BookWithout(id, books[t])]
  /\ result' = IF s \in DOMAIN books /\ id \in Resting(s)
               THEN Result("CANCELLED", <<>>) ELSE Rejected
  /\ UNCHANGED <<symbols, usedIds, tradesGenerated>>

(***************************************************************************)
(* cancelOrder(): rejected when the symbol has no book, or the id does not *)
(* rest in it.  The validator plays no part.                               *)
(***************************************************************************)
Cancel(s, id) ==
  /\ IF s \in DOMAIN books /\ id \in Resting(s)
     THEN /\ books' = [books EXCEPT ![s] = BookWithout(id, @)]
          /\ result' = Result("CANCELLED", <<>>)
     ELSE /\ result' = Rejected
          /\ UNCHANGED books
  /\ UNCHANGED <<symbols, usedIds, tradesGenerated>>

CancelOrder(s, id) == Cancel(s, id) /\ UNCHANGED ordersProcessed

\* Mutant: the id is recorded before the order is validated.
RejectRecorded(o) == /\ result' = Rejected
                     /\ usedIds' = usedIds \cup {o.id}
                     /\ UNCHANGED <<books, symbols, tradesGenerated>>

Reject(o) == /\ result' = Rejected
             /\ UNCHANGED <<books, symbols, usedIds, tradesGenerated>>

\* The id is recorded before the book is looked up.
Execute(o) ==
  /\ usedIds' = RecordId(o)
  /\ IF o.symbol \in DOMAIN books
     THEN LET opposite == books[o.symbol][Opposite(o.side)]
              trades   == Fills(o, opposite)
          IN  /\ books' = [books EXCEPT ![o.symbol] = BookAfter(o, @)]
              /\ result' = Result(Outcome(o, opposite), trades)
              /\ tradesGenerated' = tradesGenerated + Len(trades)
     ELSE /\ result' = Rejected
          /\ UNCHANGED <<books, tradesGenerated>>
  /\ UNCHANGED symbols

SubmitOrder(o) ==
  /\ ordersProcessed < MaxProcessed
  /\ ordersProcessed' = ordersProcessed + 1
  /\ \/ o.type = "CANCEL" /\ Cancel(o.symbol, o.id)
     \/ o.type # "CANCEL" /\ Valid(o) /\ Execute(o)
     \/ o.type # "CANCEL" /\ ~Valid(o) /\ Reject(o)

Next == \/ \E s \in Symbol : RegisterSymbol(s)
        \/ \E o \in Input : SubmitOrder(o)
        \/ \E s \in Symbol, id \in OrderId : CancelOrder(s, id)

Spec == Init /\ [][Next]_vars

------------------------------------------------------------------------------
(***************************************************************************)
(* The types of the state, and the validator knows exactly the symbols     *)
(* that have a book: the two are kept apart by registerSymbol().           *)
(***************************************************************************)
Entry == [id : OrderId, price : Price, open : 1 .. MaxQty]

TypeOK == /\ symbols = DOMAIN books
          /\ symbols \subseteq Symbol
          /\ \A s \in symbols, side \in Side :
               books[s][side] \in Seq(Entry)
          /\ usedIds \subseteq OrderId
          /\ ordersProcessed \in 0 .. MaxProcessed
          /\ tradesGenerated \in Nat
          /\ result.status \in OrderStatus

(***************************************************************************)
(* An id rests at most once in the whole engine, and every resting id is   *)
(* used: validate() and recordId() give each OrderBook the fresh ids that  *)
(* its index relies on.                                                    *)
(***************************************************************************)
IdsUnique ==
  \A s, t \in symbols, a, b \in Side :
    \A i \in DOMAIN books[s][a], j \in DOMAIN books[t][b] :
      /\ books[s][a][i].id \in usedIds
      /\ books[s][a][i].id = books[t][b][j].id => s = t /\ a = b /\ i = j

(***************************************************************************)
(* Best bid below best ask in every book, whatever was rejected, cancelled *)
(* through either path, or registered again in between.                    *)
(***************************************************************************)
BooksUncrossed ==
  \A s \in symbols : \A bid \in ToSet(books[s]["BUY"]), ask \in ToSet(books[s]["SELL"]) :
    bid.price < ask.price

(***************************************************************************)
(* InvariantChecker::checkTrades(): every trade has a positive price and   *)
(* quantity.  validate() asks a positive price of LIMIT orders only, so    *)
(* this rests on trades taking the maker's price.                          *)
(***************************************************************************)
TradesPositive == \A t \in ToSet(result.trades) : t.price > 0 /\ t.qty > 0

(***************************************************************************)
(* Each trade completes an order, and each order is completed once: the    *)
(* engine's totals satisfy trades <= ids used <= orders processed.         *)
(***************************************************************************)
TotalsOrdered == /\ tradesGenerated <= Cardinality(usedIds)
                 /\ Cardinality(usedIds) <= ordersProcessed

(***************************************************************************)
(* An order leaves the engine only by trading or by a cancel that answers  *)
(* CANCELLED, and what is cancelled is one order: a cancel with the wrong  *)
(* symbol, a rejected call or a second registerSymbol() removes nothing.   *)
(***************************************************************************)
AllResting == UNION {Resting(s) : s \in symbols}

LeavesOnce ==
  [][LET gone == AllResting \ AllResting' IN
     \/ gone \subseteq {t.maker : t \in ToSet(result'.trades)}
     \/ result'.status = "CANCELLED" /\ Cardinality(gone) = 1]_vars

(***************************************************************************)
(* An id is used up once: it stays recorded, and when it no longer rests   *)
(* it never rests or trades again.                                         *)
(***************************************************************************)
GoneForGood ==
  [][/\ usedIds \subseteq usedIds'
     /\ \A id \in usedIds \ AllResting :
          id \notin AllResting' \cup {t.maker : t \in ToSet(result'.trades)}]_vars

(***************************************************************************)
(* A rejected call changes no book and uses up no id, so the caller may    *)
(* correct the order and send it again: the path that rejects after        *)
(* recordId() ("no book for symbol") is dead.                              *)
(***************************************************************************)
RejectedLeavesNoTrace ==
  [][result' = Rejected => UNCHANGED <<books, usedIds, tradesGenerated>>]_vars
==============================================================================
