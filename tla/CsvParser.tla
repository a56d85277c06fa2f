------------------------------ MODULE CsvParser ------------------------------
(***************************************************************************)
(* CsvParser (src/parser/CsvParser.cpp) with the price conversion of       *)
(* include/core/Types.hpp: which lines become orders, and which orders.    *)
(*                                                                         *)
(* A line is reduced to what the parser tells apart: how many columns      *)
(* split() finds (none in an empty line) and what the first seven hold.    *)
(* Where the code wants a number, the text is NotNumber (std::stoull and   *)
(* std::stod throw) or the decimal number that it begins with ("12abc" is  *)
(* 12), counted in half units of the fixed-point price so that rounding    *)
(* shows; a text of finer digits behaves like one of these.                *)
(***************************************************************************)
EXTENDS Types, Sequences

CONSTANTS NotNumber,
          PriceScale,  \* PRICE_SCALE
          Width        \* std::stoull is unsigned and wraps here: 2^64 in the code

VARIABLES
  lineNum, headerSkipped,  \* the locals of parseFile()
  orders, errors           \* the ParseResult: orders, and lines that failed

parserVars == <<lineNum, headerSkipped, orders, errors>>

------------------------------------------------------------------------------
\* A conversion to an integer type drops the fraction.
Truncated(n, d) == IF n >= 0 THEN n \div d ELSE -((-n) \div d)

\* Mutant: std::stod, rounded.
StoUllRounded(n) == Truncated(n + PriceScale, 2 * PriceScale) % Width

\* std::stoull: the integer part; "-1" is no error, it wraps.
StoUll(n) == Truncated(n, 2 * PriceScale) % Width

\* toFixedPrice(): static_cast<Price>(p * PRICE_SCALE + 0.5).
ToFixedPrice(n) == Truncated(n + 1, 2)

(***************************************************************************)
(* parseLine(): nullopt unless there are seven columns, the numbers parse  *)
(* and side and type are known words.  Columns after the seventh are not   *)
(* looked at, and no value is checked.                                     *)
(***************************************************************************)
Parses(line) == /\ line.columns >= 7
                /\ NotNumber \notin {line.timestamp, line.id, line.price, line.quantity}
                /\ line.side \in Side
                /\ line.type \in OrderType \cup {"CANCEL"}

ParsedOrder(line) ==
  [id |-> StoUll(line.id), symbol |-> line.symbol, side |-> line.side, type |-> line.type,
   price |-> ToFixedPrice(line.price), quantity |-> StoUll(line.quantity)]

------------------------------------------------------------------------------
Init == /\ lineNum = 0
        /\ headerSkipped = FALSE
        /\ orders = <<>>
        /\ errors = <<>>

\* parseFile() of a file that cannot be opened.
CannotOpen == /\ errors' = <<0>>
              /\ UNCHANGED <<lineNum, headerSkipped, orders>>

\* Mutant: empty lines have no number.
NextLineFull(line) == IF line.columns = 0 THEN lineNum ELSE lineNum + 1

NextLine(line) == lineNum + 1

\* One iteration of parseFile(); the first line that is not empty is the header.
ParseFileLine(line) ==
  /\ lineNum' = NextLine(line)
  /\ headerSkipped' = (headerSkipped \/ line.columns > 0)
  /\ IF line.columns = 0 \/ ~headerSkipped THEN UNCHANGED <<orders, errors>>
     ELSE IF Parses(line)
          THEN orders' = Append(orders, ParsedOrder(line)) /\ UNCHANGED errors
          ELSE errors' = Append(errors, lineNum') /\ UNCHANGED orders
==============================================================================
