-------------------------------- MODULE Types --------------------------------
(***************************************************************************)
(* The enumerations every component shares (include/core/Types.hpp).       *)
(***************************************************************************)
EXTENDS Integers

Side == {"BUY", "SELL"}

\* The types an OrderBook receives; CANCEL never reaches a book as an order.
OrderType == {"LIMIT", "MARKET", "IOC", "FOK"}

OrderStatus == {"PENDING", "ACCEPTED", "FILLED", "PARTIALLY_FILLED",
                "CANCELLED", "REJECTED"}

\* The side an order is matched against.
Opposite(s) == IF s = "BUY" THEN "SELL" ELSE "BUY"

Lesser(a, b) == IF a <= b THEN a ELSE b
==============================================================================
