--------------------------- MODULE InvariantChecker ---------------------------
(***************************************************************************)
(* InvariantChecker (src/benchmark/InvariantChecker.cpp), the checks that  *)
(* a benchmark makes of itself after its run, and what they call in        *)
(* OrderBook (src/core/OrderBook.cpp).                                     *)
(*                                                                         *)
(* What they read of a book is, for each side, a function from prices to   *)
(* levels [qty, open]: the level's running total and the quantities that   *)
(* its orders have left.  A report is reduced to its passed.               *)
(***************************************************************************)
EXTENDS Types, SequencesExt

\* OrderBook::bestBid() and bestAsk(): *bid >= *ask if there are both.
CrossedBook(levels) ==
  \E bid \in DOMAIN levels["BUY"], ask \in DOMAIN levels["SELL"] : bid >= ask

\* topBids() and topAsks(), of at most 10000 levels, which no model reaches.
LevelsNonempty(levels) ==
  \A s \in Side : \A p \in DOMAIN levels[s] : levels[s][p].qty # 0 /\ levels[s][p].open # <<>>

\* totalBidQty() or totalAskQty(), unsigned modulo width.
TotalQty(level, width) == SumFunction([p \in DOMAIN level |-> level[p].qty]) % width

VolumeNonzero(levels, width) ==
  (\E s \in Side : levels[s] # <<>>) => \E s \in Side : TotalQty(levels[s], width) # 0

(***************************************************************************)
(* OrderBook::checkInvariants().  index gives the side and price of each   *)
(* resting id: that the level exists is tested, not that the id is in it.  *)
(***************************************************************************)
CheckInvariants(levels, index) ==
  /\ ~CrossedBook(levels)
  /\ \A s \in Side : \A p \in DOMAIN levels[s] : 0 \notin ToSet(levels[s][p].open)
  /\ \A id \in DOMAIN index : index[id].price \in DOMAIN levels[index[id].side]

CheckBook(levels, index, width) == /\ ~CrossedBook(levels)
                                   /\ LevelsNonempty(levels)
                                   /\ VolumeNonzero(levels, width)
                                   /\ CheckInvariants(levels, index)

\* checkTrades() without the optional quotes, which no caller gives.
CheckTrades(trades) == \A i \in DOMAIN trades : trades[i].price > 0 /\ trades[i].qty # 0

CheckUniqueIds(ids) == \A i, j \in DOMAIN ids : ids[i] = ids[j] => i = j
==============================================================================
