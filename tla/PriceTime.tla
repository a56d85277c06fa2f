------------------------------ MODULE PriceTime ------------------------------
(***************************************************************************)
(* What a matching call promises, without levels, loops or running totals: *)
(* price-time priority over one sequence of resting entries per side, the  *)
(* best entry first.  PriceTimeBook turns these operators into a           *)
(* specification that OrderBook implements; MatchingEngine uses them as    *)
(* the effect of OrderBook::addOrder() and cancelOrder().                  *)
(***************************************************************************)
EXTENDS Types, SequencesExt

\* p has at least the priority of q on side s.
AsGood(s, p, q) == IF s = "BUY" THEN p >= q ELSE p <= q

EmptyBook == [s \in Side |-> <<>>]

\* Mutant: an order does not trade at its own limit.
MarketableStrictly(o, p) ==
  o.type = "MARKET" \/ (AsGood(Opposite(o.side), p, o.price) /\ p # o.price)

\* May o trade with a resting entry at price p?
Marketable(o, p) == o.type = "MARKET" \/ AsGood(Opposite(o.side), p, o.price)

\* The quantity open in the first n entries.
Depth(entries, n) ==
  SumFunctionOnSet([i \in DOMAIN entries |-> entries[i].open], 1 .. n)

\* The entries o may trade with are the first Reach(o, entries).
Reach(o, entries) ==
  Cardinality({i \in DOMAIN entries : Marketable(o, entries[i].price)})

\* A fill-or-kill order trades in full or does not trade.
Killed(o, entries) ==
  o.type = "FOK" /\ Depth(entries, Reach(o, entries)) < o.quantity

\* What o takes of entry i: what earlier entries left of its quantity.
Taken(o, entries, i) ==
  IF Killed(o, entries) \/ i > Reach(o, entries) THEN 0
  ELSE LET wanted == o.quantity - Depth(entries, i - 1)
       IN  IF wanted <= 0 THEN 0 ELSE Lesser(wanted, entries[i].open)

\* All that o takes: what it wants, as far as the entries it reaches have it.
Filled(o, entries) ==
  IF Killed(o, entries) THEN 0
  ELSE Lesser(o.quantity, Depth(entries, Reach(o, entries)))

\* The trades, in order.
Fills(o, entries) ==
  [i \in 1 .. Cardinality({j \in DOMAIN entries : Taken(o, entries, j) > 0}) |->
     [maker |-> entries[i].id, price |-> entries[i].price,
      qty |-> Taken(o, entries, i)]]

\* The entries that o leaves behind: the first ones, filled, go, one may shrink.
Drained(o, entries) ==
  LET left == [i \in DOMAIN entries |->
                 [entries[i] EXCEPT !.open = @ - Taken(o, entries, i)]]
      gone == Cardinality({i \in DOMAIN entries : left[i].open = 0})
  IN  SubSeq(left, gone + 1, Len(entries))

\* Behind every entry at least as good.
Insert(s, entries, e) ==
  InsertAt(entries,
           1 + Cardinality({i \in DOMAIN entries : AsGood(s, entries[i].price, e.price)}),
           e)

\* The book after o: what it took is gone, and the rest of a LIMIT order rests.
BookAfter(o, resting) ==
  LET opp  == Opposite(o.side)
      done == Filled(o, resting[opp])
  IN  [resting EXCEPT
         ![opp] = Drained(o, @),
         ![o.side] = IF o.type = "LIMIT" /\ done < o.quantity
                     THEN Insert(o.side, @, [id |-> o.id, price |-> o.price,
                                             open |-> o.quantity - done])
                     ELSE @]

\* The status addOrder() leaves on o.
Outcome(o, entries) ==
  LET done == Filled(o, entries)
  IN  CASE done = o.quantity               -> "FILLED"
        [] o.type = "MARKET" \/ (done > 0 /\ done < o.quantity) -> "PARTIALLY_FILLED"
        [] o.type = "LIMIT" /\ done = 0    -> "ACCEPTED"
        [] OTHER                           -> "CANCELLED"

RestingIds(resting) == UNION {{e.id : e \in ToSet(resting[s])} : s \in Side}

BookWithout(id, resting) ==
  [s \in Side |-> RemoveFirstMatch(resting[s], LAMBDA e : e.id = id)]
==============================================================================
