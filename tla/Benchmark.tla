------------------------------ MODULE Benchmark ------------------------------
(***************************************************************************)
(* BenchmarkRunner::run() in baseline mode with runBaseline() and          *)
(* finalise() (src/benchmark/BenchmarkRunner.cpp): the generator's stream, *)
(* the engine it is submitted to, the counters that are reported and the   *)
(* checks made at the end.                                                 *)
(***************************************************************************)
EXTENDS PriceTime, InvariantChecker

CONSTANTS Symbol, Unknown, Price, MidPrice, LimitQty, TakerQty, Count,
          SeedDivisor, SeedLimit, TrackLimit,
          Width         \* 2^64: totals of quantities are taken modulo Width

ASSUME BenchmarkAssumption == /\ Unknown \notin Symbol
                              /\ MidPrice \in Price /\ Price \subseteq Nat \ {0}
                              /\ LimitQty \cup TakerQty \subseteq Nat \ {0}
                              /\ LimitQty # {}
                              /\ IsFiniteSet(Price) /\ IsFiniteSet(LimitQty \cup TakerQty)
                              /\ {Count, SeedLimit} \subseteq Nat
                              /\ {SeedDivisor, TrackLimit} \subseteq Nat \ {0}
                              /\ Lesser(Count \div SeedDivisor, SeedLimit) <= TrackLimit

\* The quantities of a benchmark, 500 at most, do not add up to 2^64.
ASSUME WidthAssumption == Width \in Nat /\ Count * Max(LimitQty \cup TakerQty) < Width

VARIABLES stream, restingOrders, idCounter,
          books, symbols, usedIds, ordersProcessed, tradesGenerated, result,
          submitted,    \* how many orders of the stream the loop has submitted
          counted,      \* result's ordersAccepted, ordersRejected,
                        \* cancelsProcessed and tradesGenerated
          allTrades, acceptedIds,
          report        \* "none", or whether the report of invariants passed

generatorVars == <<stream, restingOrders, idCounter>>
engineVars == <<books, symbols, usedIds, ordersProcessed, tradesGenerated, result>>
reportVars == <<submitted, counted, allTrades, acceptedIds>>
vars == <<generatorVars, engineVars, reportVars, report>>

Generator == INSTANCE OrderGenerator

Engine == INSTANCE MatchingEngine WITH
  OrderId <- 1 .. Count,
  Symbol <- Symbol \cup {Unknown},
  Price <- Price \cup {0},
  MaxQty <- Max(LimitQty \cup TakerQty),
  MaxProcessed <- Count

Init == /\ Generator!Init
        /\ Engine!Init
        /\ submitted = 0
        /\ counted = [accepted |-> 0, rejected |-> 0, cancels |-> 0, trades |-> 0]
        /\ allTrades = <<>>
        /\ acceptedIds = <<>>
        /\ report = "none"

Generated == Len(stream) = Count

Generate == /\ Generator!Next
            /\ UNCHANGED <<engineVars, reportVars, report>>

Register == /\ Generated
            /\ \E s \in Symbol \ symbols : Engine!RegisterSymbol(s)
            /\ UNCHANGED <<generatorVars, reportVars, report>>

------------------------------------------------------------------------------
(***************************************************************************)
(* The counters.  What comes back CANCELLED counts as a cancel: a CANCEL   *)
(* that found its order, but also an IOC or FOK order without a fill.      *)
(***************************************************************************)
\* Mutant: a cancel is accepted like any other order.
IsListedAll(status) == status # "REJECTED"

\* Does the id join acceptedIds?
IsListed(status) == status \notin {"REJECTED", "CANCELLED"}

\* Mutant: a killed order and a cancel are not accepted.
CountedListed(res) ==
  [accepted |-> counted.accepted + (IF IsListed(res.status) THEN 1 ELSE 0),
   rejected |-> counted.rejected + (IF res.status = "REJECTED" THEN 1 ELSE 0),
   cancels  |-> counted.cancels + (IF res.status = "CANCELLED" THEN 1 ELSE 0),
   trades   |-> counted.trades + Len(res.trades)]

Counted(res) ==
  [accepted |-> counted.accepted + (IF res.status # "REJECTED" THEN 1 ELSE 0),
   rejected |-> counted.rejected + (IF res.status = "REJECTED" THEN 1 ELSE 0),
   cancels  |-> counted.cancels + (IF res.status = "CANCELLED" THEN 1 ELSE 0),
   trades   |-> counted.trades + Len(res.trades)]

Submit ==
  /\ Generated /\ symbols = Symbol
  /\ submitted < Count
  /\ LET order == stream[submitted + 1] IN
     /\ Engine!SubmitOrder(order)
     /\ acceptedIds' = IF IsListed(result'.status) THEN Append(acceptedIds, order.id)
                       ELSE acceptedIds
  /\ submitted' = submitted + 1
  /\ counted' = Counted(result')
  /\ allTrades' = allTrades \o result'.trades
  /\ UNCHANGED <<generatorVars, report>>

------------------------------------------------------------------------------
(***************************************************************************)
(* finalise().  What the checker reads of a book, in terms of its entries. *)
(***************************************************************************)
LevelsOf(b) ==
  [s \in Side |->
     [p \in {e.price : e \in ToSet(b[s])} |->
        LET open == [i \in {i \in DOMAIN b[s] : b[s][i].price = p} |-> b[s][i].open]
        IN  [qty |-> SumFunction(open), open |-> open]]]

IndexOf(b) ==
  [id \in RestingIds(b) |->
     CHOOSE at \in [side : Side, price : Price] :
       \E e \in ToSet(b[at.side]) : e.id = id /\ e.price = at.price]

Passed == /\ \A s \in Symbol : CheckBook(LevelsOf(books[s]), IndexOf(books[s]), Width)
          /\ CheckTrades(allTrades)
          /\ CheckUniqueIds(acceptedIds)

Finalise == /\ Generated /\ symbols = Symbol /\ submitted = Count
            /\ report = "none"
            /\ \E verifyInvariants \in BOOLEAN :
                 report' = IF verifyInvariants => Passed THEN "passed" ELSE "failed"
            /\ UNCHANGED <<generatorVars, engineVars, reportVars>>

Next == Generate \/ Register \/ Submit \/ Finalise

Spec == Init /\ [][Next]_vars

------------------------------------------------------------------------------
StreamWellFormed == Generator!StreamWellFormed
TrackedBounded == Generator!TrackedBounded

(***************************************************************************)
(* The checks at the end pass on every stream that the generator can make  *)
(* (BenchmarkTest.SmallRunPassesInvariants tries one): no id is accepted   *)
(* twice although a CANCEL carries the id of its order.                    *)
(***************************************************************************)
InvariantsPass == report # "failed"

(***************************************************************************)
(* The report agrees with the engine: its totals are the engine's, every   *)
(* order is accepted or rejected, and what rests or traded as a maker is   *)
(* an id that was reported as accepted.                                    *)
(***************************************************************************)
ReportAgrees ==
  /\ counted.accepted + counted.rejected = ordersProcessed
  /\ counted.accepted = Len(acceptedIds) + counted.cancels
  /\ counted.trades = tradesGenerated /\ counted.trades = Len(allTrades)
  /\ Engine!AllResting \cup {t.maker : t \in ToSet(allTrades)} \subseteq ToSet(acceptedIds)

(***************************************************************************)
(* "Verify that every such order is rejected by the engine" (GeneratorTest *)
(* InvalidOrdersAreRejectedByEngine counts rejections only), and nothing   *)
(* else is, except the CANCEL of an order that has traded in full by then: *)
(* stale state of the generator costs a rejected cancel, never more.       *)
(***************************************************************************)
IsInvalid(o) == \/ o.symbol = Unknown
                \/ o.type = "LIMIT" /\ o.price = 0
                \/ o.quantity = 0

\* The order was executed and no CANCEL was before this one: it has traded.
TradedOut(id) == id \in usedIds /\ id \notin Engine!AllResting

RejectionsExplained ==
  [][\A n \in {submitted'} \ {submitted} :
       result'.status = "REJECTED" <=>
         IsInvalid(stream[n]) \/ (stream[n].type = "CANCEL" /\ TradedOut(stream[n].id))]_vars

(***************************************************************************)
(* "Target randomly sampled resting orders" (README, cancels).             *)
(***************************************************************************)
CancelsTargetResting ==
  Generated /\ symbols = Symbol /\ submitted < Count =>
    LET o == stream[submitted + 1] IN o.type = "CANCEL" => o.id \in Engine!AllResting
==============================================================================
