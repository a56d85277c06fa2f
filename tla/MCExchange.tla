------------------------------ MODULE MCExchange ------------------------------
(***************************************************************************)
(* Small instances of Exchange.  Numbers count half units: 3 is 1.5.       *)
(***************************************************************************)
EXTENDS Exchange

Row(columns, id, symbol, side, type, price, quantity) ==
  [columns |-> columns, timestamp |-> 2, id |-> id, symbol |-> symbol, side |-> side,
   type |-> type, price |-> price, quantity |-> quantity]

MCLine == {
  Row(0, NotNumber, "", "", "", NotNumber, NotNumber),  \* an empty line
  Row(9, 4, "A", "BUY", "LIMIT", 4, NotNumber),         \* README's CANCEL row
  Row(7, 2, "A", "BUY", "LIMIT", 3, 4),
  Row(7, 4, "A", "SELL", "LIMIT", 2, 2),
  Row(7, 8, "A", "BUY", "LIMIT", 6, 4),
  Row(7, 3, "A", "SELL", "LIMIT", 5, 6),                \* "1.5" is id 1 again
  Row(7, 6, "A", "SELL", "IOC", -2, -2),                \* "-1" wraps to 15
  Row(7, 10, "A", "BUY", "MARKET", 0, 4),
  Row(7, 2, "A", "BUY", "CANCEL", 0, 0),
  Row(7, 6, "B", "BUY", "LIMIT", -1, 2)}

MCCommandLine == {
  <<>>, <<"--replay">>,
  <<"--interactive", "--replay", "orders.csv", "--trades", "--book">>,
  <<"--symbols", "A,B", "--verbose", "--interactive">>}

MCDefaultSymbols == <<"A">>

MCLists == "A,B" :> <<"A", "B">>

\* No total wraps: FeedCurrent needs no premise.
ASSUME MCFit == LinesFit
==============================================================================
