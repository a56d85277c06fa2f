------------------------- MODULE OrderBookRefinement -------------------------
(***************************************************************************)
(* OrderBook implements PriceTimeBook.  While a call is being served the   *)
(* abstract book is the one before it: what `trades' took is put back.     *)
(***************************************************************************)
EXTENDS OrderBookProperties

Entry(id, open) == [id |-> id, price |-> orders[id].price, open |-> open]

Entries(s) ==
  LET sorted == SetToSortSeq(DOMAIN book[s],
                             LAMBDA p, q : AtLeastAsGood(s, p, q) /\ p # q)
      ids == FlattenSeq([i \in DOMAIN sorted |-> book[s][sorted[i]].queue])
  IN  [i \in DOMAIN ids |-> Entry(ids[i], Remaining(orders[ids[i]]))]

Makers == {t.maker : t \in ToSet(trades)}

BeforeCall(s) ==
  IF pc = "idle" \/ s = orders[incoming].side THEN Entries(s)
  ELSE [i \in DOMAIN trades |->
          Entry(trades[i].maker, trades[i].qty + Remaining(orders[trades[i].maker]))]
       \o SelectSeq(Entries(s), LAMBDA e : e.id \notin Makers)

CallArgument(id) == [id |-> id, side |-> orders[id].side, type |-> orders[id].type,
                     price |-> orders[id].price, quantity |-> orders[id].quantity]

Abstract == INSTANCE PriceTimeBook WITH
  resting <- [s \in Side |-> BeforeCall(s)],
  pending <- IF pc = "idle" THEN NoOrder ELSE CallArgument(incoming),
  fills   <- IF pc = "idle" THEN trades ELSE <<>>,
  outcome <- IF pc # "idle" \/ incoming = NoOrder THEN "PENDING"
             ELSE orders[incoming].status

(***************************************************************************)
(* The level-by-level loop fills in price-time priority: each call has the *)
(* trades, the status and the book that PriceTimeBook computes at once.    *)
(* That a pending call returns is CallsReturn.                             *)
(***************************************************************************)
ImplementsPriceTimeBook == Abstract!Spec
==============================================================================
