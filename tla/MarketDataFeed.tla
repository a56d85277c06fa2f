---------------------------- MODULE MarketDataFeed ----------------------------
(***************************************************************************)
(* MarketDataFeed (src/feed/MarketDataFeed.cpp) and the queries of         *)
(* OrderBook that it prints (src/core/OrderBook.cpp), over the entries     *)
(* that PriceTime keeps of a book.                                         *)
(***************************************************************************)
EXTENDS PriceTime

CONSTANT Width  \* Quantity is unsigned and wraps here: 2^64 in the code

VARIABLE published  \* for each symbol printed so far, the last print of its book

\* The prices of the levels of bids_ or asks_.
Prices(entries) == {e.price : e \in ToSet(entries)}

\* PriceLevel::totalQty(), a running total that wraps.  Once it has wrapped,
\* updateTotalQty() may leave 0 where this has a remainder.
QtyAt(entries, p) ==
  SumFunction([i \in {i \in DOMAIN entries : entries[i].price = p} |-> entries[i].open]) % Width

\* The keys in the order of the map: bids_ is std::greater, asks_ is std::less.
Keys(s, entries) ==
  LET prices == Prices(entries)
  IN  CHOOSE keys \in [1 .. Cardinality(prices) -> prices] :
        \A i, j \in DOMAIN keys : i < j => keys[i] # keys[j] /\ AsGood(s, keys[i], keys[j])

\* topBids() or topAsks(): the first n levels.
TopLevels(s, entries, n) ==
  LET keys == Keys(s, entries)
  IN  [i \in 1 .. Lesser(n, Len(keys)) |->
         [price |-> keys[i], qty |-> QtyAt(entries, keys[i])]]

\* bestBid() or bestAsk(): no price, or one.
Best(s, entries) == {p \in Prices(entries) : \A q \in Prices(entries) : AsGood(s, p, q)}

Spread(book) == {ask - bid : ask \in Best("SELL", book["SELL"]),
                             bid \in Best("BUY", book["BUY"])}

\* printBook().
View(book, n) == [bids   |-> TopLevels("BUY", book["BUY"], n),
                  asks   |-> TopLevels("SELL", book["SELL"], n),
                  bid    |-> Best("BUY", book["BUY"]),
                  ask    |-> Best("SELL", book["SELL"]),
                  spread |-> Spread(book)]

Init == published = <<>>

\* publish(): the book, then the trades of the call.
Publish(symbol, book, trades, n) ==
  published' = [s \in DOMAIN published \cup {symbol} |->
                  IF s = symbol THEN [book |-> View(book, n), trades |-> trades]
                                ELSE published[s]]
==============================================================================
