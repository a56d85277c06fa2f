------------------------------- MODULE Exchange -------------------------------
(***************************************************************************)
(* The exchange program (src/main.cpp): its command line, and its two      *)
(* modes.  A replay (src/benchmark/ReplayEngine.cpp) parses a whole file   *)
(* and then submits its orders; an interactive session parses, submits and *)
(* prints line by line.  Both put CsvParser in front of a MatchingEngine   *)
(* and print trades (EventLog) and books (MarketDataFeed).                 *)
(***************************************************************************)
EXTENDS PriceTime

CONSTANTS
  CommandLine,     \* sets of command lines, lines of text and symbols; a
  Line,            \* line is a record as CsvParser describes it
  DefaultSymbols,  \* the symbols registered without --symbols, in order
  Lists,           \* the values of --symbols that have a comma: their symbols
  NotNumber, PriceScale, Width,
  BookDepth,       \* bookDepth and the default depth of publish(): 5 in the code
  MaxLines         \* bound: lines of a session; a file has one more

VARIABLES
  args, opts,      \* the rest of argv, and what main() has read of it
  phase,           \* "options", "register", then "parse" and "replay" or
                   \* "prompt", then "exit"; or "usage"
  lines,           \* the lines read so far from the file or from std::cin
  lineNum, headerSkipped, orders, errors,
  books, symbols, usedIds, ordersProcessed, tradesGenerated, result,
  stats,           \* ReplayStats
  warned,          \* the parse errors printed to std::cerr, by line number
  tape,            \* the trades printed, by --trades or by EventLog::logTrade()
  published        \* the books printed

parserVars == <<lineNum, headerSkipped, orders, errors>>
engineVars == <<books, symbols, usedIds, ordersProcessed, tradesGenerated, result>>
outputVars == <<stats, warned, tape, published>>
vars == <<args, opts, phase, lines, parserVars, engineVars, outputVars>>

Parser == INSTANCE CsvParser

Feed == INSTANCE MarketDataFeed

Parsing == {l \in Line : Parser!Parses(l)}
LineIds == {Parser!StoUll(l.id) : l \in Parsing}

\* What main() handles as a list of texts.
TextLists == CommandLine \cup {DefaultSymbols} \cup {Lists[v] : v \in DOMAIN Lists}

\* PriceTime gives the effect of the book's calls while TotalsFit.
Engine == INSTANCE MatchingEngine WITH
  OrderId <- LineIds,
  Symbol <- {l.symbol : l \in Line} \cup UNION {Range(texts) : texts \in TextLists},
  Price <- {Parser!ToFixedPrice(l.price) : l \in Parsing},
  MaxQty <- Width - 1,
  MaxProcessed <- MaxLines

ASSUME ScaleAssumption == PriceScale \in Nat \ {0} /\ Width \in Nat \ {0}

ASSUME BoundsAssumption == BookDepth \in Nat /\ MaxLines \in Nat

\* No list of symbols is empty: splitComma() returns one text at least.
ASSUME TextAssumption ==
  /\ \A texts \in TextLists : texts \in Seq(Range(texts))
  /\ DefaultSymbols # <<>> /\ \A v \in DOMAIN Lists : Lists[v] # <<>>

\* For a number of more than 64 bits std::stoull throws: it is NotNumber.
ASSUME LineAssumption ==
  /\ IsFiniteSet(Line)
  /\ \A l \in Line :
       /\ l.columns \in Nat
       /\ {l.timestamp, l.id, l.price, l.quantity} \subseteq Int \cup {NotNumber}
       /\ \A n \in {l.timestamp, l.id, l.quantity} \ {NotNumber} :
            -(2 * PriceScale * Width) < n /\ n < 2 * PriceScale * Width

------------------------------------------------------------------------------
(***************************************************************************)
(* The command line.                                                       *)
(***************************************************************************)
NoOptions == [replay |-> FALSE, interactive |-> FALSE, symbols |-> DefaultSymbols,
              trades |-> FALSE, book |-> FALSE]

Init == /\ args \in CommandLine
        /\ opts = NoOptions
        /\ phase = IF args = <<>> THEN "usage" ELSE "options"
        /\ lines = <<>>
        /\ Parser!Init
        /\ Engine!Init
        /\ stats = [submitted |-> 0, accepted |-> 0, rejected |-> 0, trades |-> 0]
        /\ warned = <<>>
        /\ tape = <<>>
        /\ Feed!Init

SplitComma(s) == IF s \in DOMAIN Lists THEN Lists[s] ELSE <<s>>

\* An option with a value takes the next argument, whatever it is; without
\* one, or with another name, it is ignored.
ReadOption ==
  /\ phase = "options" /\ args # <<>>
  /\ LET a == Head(args)
         hasValue == a \in {"--replay", "--symbols"} /\ Len(args) > 1
     IN  /\ args' = SubSeq(args, IF hasValue THEN 3 ELSE 2, Len(args))
         /\ opts' = [opts EXCEPT
                       !.replay      = @ \/ (a = "--replay" /\ hasValue),
                       !.interactive = @ \/ a = "--interactive",
                       !.symbols     = IF a = "--symbols" /\ hasValue
                                       THEN SplitComma(args[2]) ELSE @,
                       !.trades      = @ \/ a = "--trades",
                       !.book        = @ \/ a = "--book"]
  /\ UNCHANGED <<phase, lines, parserVars, engineVars, outputVars>>

\* A replay goes before an interactive session.
ChooseMode ==
  /\ phase = "options" /\ args = <<>>
  /\ phase' = IF opts.replay \/ opts.interactive THEN "register" ELSE "usage"
  /\ UNCHANGED <<args, opts, lines, parserVars, engineVars, outputVars>>

RegisterSymbol ==
  /\ phase = "register"
  /\ Engine!RegisterSymbol(Head(opts.symbols))
  /\ opts' = [opts EXCEPT !.symbols = Tail(@)]
  /\ phase' = IF Len(opts.symbols) > 1 THEN phase
              ELSE IF opts.replay THEN "parse" ELSE "prompt"
  /\ UNCHANGED <<args, lines, parserVars, outputVars>>

------------------------------------------------------------------------------
(***************************************************************************)
(* ReplayEngine::run().                                                    *)
(***************************************************************************)
ReadLine(line) ==
  /\ phase = "parse"
  /\ Len(lines) <= MaxLines
  /\ lines' = Append(lines, line)
  /\ Parser!ParseFileLine(line)
  /\ UNCHANGED <<args, opts, phase, engineVars, outputVars>>

\* The parse errors are printed only if no line gave an order.
StartReplay ==
  /\ warned' = IF orders' = <<>> THEN errors' ELSE <<>>
  /\ stats' = [stats EXCEPT !.submitted = Len(orders')]
  /\ phase' = "replay"
  /\ UNCHANGED <<args, opts, lines, engineVars, tape, published>>

EndOfFile == /\ phase = "parse"
             /\ UNCHANGED parserVars
             /\ StartReplay

CannotOpen == /\ phase = "parse" /\ lines = <<>>
              /\ Parser!CannotOpen
              /\ StartReplay

\* Mutant: what comes back CANCELLED is not accepted.
CountedLive(res) ==
  [stats EXCEPT !.accepted = @ + (IF res.status \in {"REJECTED", "CANCELLED"} THEN 0 ELSE 1),
                !.rejected = @ + (IF res.status = "REJECTED" THEN 1 ELSE 0),
                !.trades   = @ + Len(res.trades)]

Counted(res) ==
  [stats EXCEPT !.accepted = @ + (IF res.status = "REJECTED" THEN 0 ELSE 1),
                !.rejected = @ + (IF res.status = "REJECTED" THEN 1 ELSE 0),
                !.trades   = @ + Len(res.trades)]

\* Mutant: a trade is printed at the price of the order that came in.
PrintedAtLimit(order, trades) ==
  [i \in DOMAIN trades |->
     [symbol |-> order.symbol, taker |-> order.id, maker |-> trades[i].maker,
      price |-> order.price, qty |-> trades[i].qty]]

\* The Trades of a call as makeTrade() builds them.
Printed(order, trades) ==
  [i \in DOMAIN trades |->
     [symbol |-> order.symbol, taker |-> order.id, maker |-> trades[i].maker,
      price |-> trades[i].price, qty |-> trades[i].qty]]

SubmitNext ==
  /\ phase = "replay"
  /\ ordersProcessed < Len(orders)
  /\ LET order == orders[ordersProcessed + 1] IN
     /\ Engine!SubmitOrder(order)
     /\ stats' = Counted(result')
     /\ tape' = IF opts.trades THEN tape \o Printed(order, result'.trades) ELSE tape
     /\ IF opts.book /\ result'.trades # <<>> /\ order.symbol \in DOMAIN books'
        THEN Feed!Publish(order.symbol, books'[order.symbol], result'.trades, BookDepth)
        ELSE UNCHANGED published
  /\ UNCHANGED <<args, opts, phase, lines, parserVars, warned>>

EndReplay == /\ phase = "replay" /\ ordersProcessed = Len(orders)
             /\ phase' = "exit"
             /\ UNCHANGED <<args, opts, lines, parserVars, engineVars, outputVars>>

------------------------------------------------------------------------------
(***************************************************************************)
(* The interactive loop: no header, and the book is printed after every    *)
(* order whose symbol has one.                                             *)
(***************************************************************************)
\* Mutant: as in a replay, the book is printed after trades only.
PublishTraded(symbol, trades) ==
  IF symbol \in DOMAIN books' /\ trades # <<>>
  THEN Feed!Publish(symbol, books'[symbol], trades, BookDepth)
  ELSE UNCHANGED published

PublishBook(symbol, trades) ==
  IF symbol \in DOMAIN books'
  THEN Feed!Publish(symbol, books'[symbol], trades, BookDepth)
  ELSE UNCHANGED published

Enter(line) ==
  /\ phase = "prompt"
  /\ Len(lines) < MaxLines
  /\ lines' = Append(lines, line)
  /\ IF Parser!Parses(line)
     THEN LET order == Parser!ParsedOrder(line) IN
          /\ Engine!SubmitOrder(order)
          /\ tape' = tape \o Printed(order, result'.trades)
          /\ PublishBook(order.symbol, result'.trades)
          /\ UNCHANGED warned
     ELSE /\ warned' = Append(warned, 0)
          /\ UNCHANGED <<engineVars, tape, published>>
  /\ UNCHANGED <<args, opts, phase, parserVars, stats>>

\* QUIT, or the end of std::cin.
Quit == /\ phase = "prompt"
        /\ phase' = "exit"
        /\ UNCHANGED <<args, opts, lines, parserVars, engineVars, outputVars>>

Next == \/ ReadOption \/ ChooseMode \/ RegisterSymbol
        \/ \E line \in Line : ReadLine(line) \/ Enter(line)
        \/ EndOfFile \/ CannotOpen \/ SubmitNext \/ EndReplay \/ Quit

Spec == Init /\ [][Next]_vars

------------------------------------------------------------------------------
(***************************************************************************)
(* What the lines say, without parser, engine or counters.  Data lines go  *)
(* by their numbers in the text: in a replay all that are not empty but    *)
(* the first, in a session all.                                            *)
(***************************************************************************)
DataLines ==
  LET nonempty == {n \in DOMAIN lines : lines[n].columns > 0}
  IN  IF opts.replay THEN {n \in nonempty : \E m \in nonempty : m < n}
      ELSE DOMAIN lines

Good == {n \in DataLines : Parser!Parses(lines[n])}
Bad == {n \in DataLines : ~Parser!Parses(lines[n])}

\* How far n comes in a set of lines.
Place(n, set) == Cardinality({m \in set : m <= n})

\* The lines whose orders the engine has been given.
Sent == LET good == Good IN {n \in good : Place(n, good) <= ordersProcessed}

\* The whole number that a text begins with; a minus sign counts back from Width.
Reads(text, q) ==
  LET unit == 2 * PriceScale
  IN  IF text >= 0 THEN unit * q <= text /\ text < unit * (q + 1)
      ELSE LET back == IF q = 0 THEN 0 ELSE Width - q
           IN  unit * back <= -text /\ -text < unit * (back + 1)

Whole(text) == CHOOSE q \in 0 .. Width - 1 : Reads(text, q)

Quantity(line) == Whole(line.quantity)

\* An id belongs to the first of the acceptable lines sent that name it.
Acceptable(line) == /\ line.type # "CANCEL"
                    /\ Quantity(line) > 0
                    /\ line.symbol \in symbols
                    /\ line.type = "LIMIT" => line.price > 0

Claims == {n \in Sent : Acceptable(lines[n])}

Owners == LET claims == Claims IN
  [id \in {Whole(lines[n].id) : n \in claims} |->
     Min({n \in claims : Whole(lines[n].id) = id})]

TradedQty(id) ==
  SumFunctionOnSet([i \in DOMAIN tape |-> tape[i].qty],
                   {i \in DOMAIN tape : id \in {tape[i].maker, tape[i].taker}})

Resting ==
  UNION {{[symbol |-> s, side |-> side, entry |-> e] : e \in ToSet(books[s][side])} :
           s \in symbols, side \in Side}

\* Every trade so far is on the tape.
Taped == ~opts.replay \/ opts.trades

(***************************************************************************)
(* No line is lost, taken twice or out of order: each data line is an      *)
(* order or an error under its own number, however empty lines are spread, *)
(* and a replay that is silent about its errors has orders to show.        *)
(***************************************************************************)
LinesAccounted ==
  LET good == Good
      bad  == Bad
  IN  IF opts.replay
      THEN /\ Len(orders) = Cardinality(good)
           /\ \A n \in good : orders[Place(n, good)] = Parser!ParsedOrder(lines[n])
           /\ \/ errors = <<0>>
              \/ /\ Len(errors) = Cardinality(bad)
                 /\ \A n \in bad : errors[Place(n, bad)] = n
           /\ warned = IF phase \in {"replay", "exit"} /\ orders = <<>>
                       THEN errors ELSE <<>>
      ELSE /\ ordersProcessed = Cardinality(good)
           /\ Len(warned) = Cardinality(bad)

(***************************************************************************)
(* The lines and the printed trades explain the books: an id belongs to    *)
(* the first acceptable line that names it, later lines with the id change *)
(* nothing, what rests of a line is what it asked for less what was        *)
(* printed of it, and it rests at its price rounded to the nearest unit.   *)
(* toFixedPrice() rounds half units up, and negative prices wrongly: these *)
(* stay outside the book because only LIMIT orders rest.                   *)
(***************************************************************************)
RoundsTo(text, price) == 2 * price - text \in {0, 1}

OpenExplained ==
  LET owners == Owners
  IN  /\ usedIds = DOMAIN owners
      /\ \A r \in Resting :
           LET line == lines[owners[r.entry.id]]
           IN  /\ line.type = "LIMIT" /\ line.side = r.side /\ line.symbol = r.symbol
               /\ RoundsTo(line.price, r.entry.price)
               /\ Taped => r.entry.open = Quantity(line) - TradedQty(r.entry.id)
      /\ \A id \in usedIds : TradedQty(id) <= Quantity(lines[owners[id]])

(***************************************************************************)
(* A printed trade is between two lines that meet: one symbol, opposite    *)
(* sides, the maker's line first, at the maker's price, which is no worse  *)
(* than the taker's line asks, give or take the rounding.                  *)
(***************************************************************************)
TapeExplained ==
  LET owners == Owners
  IN  \A t \in ToSet(tape) :
        LET maker == lines[owners[t.maker]]
            taker == lines[owners[t.taker]]
        IN  /\ {maker.symbol, taker.symbol} = {t.symbol}
            /\ maker.side = Opposite(taker.side) /\ maker.type = "LIMIT"
            /\ owners[t.maker] < owners[t.taker]
            /\ RoundsTo(maker.price, t.price)
            /\ taker.type # "MARKET" => IF taker.side = "BUY" THEN 2 * t.price <= taker.price + 1
                                        ELSE 2 * t.price >= taker.price

(***************************************************************************)
(* The statistics of a replay add up, and the accepted orders are the ids  *)
(* in use and the orders that left the book unfilled: every CANCEL that is *)
(* counted as accepted removed one.                                        *)
(***************************************************************************)
Vanished ==
  LET owners == Owners
      resting == {r.entry.id : r \in Resting}
  IN  {id \in usedIds \ resting : /\ lines[owners[id]].type = "LIMIT"
                                  /\ TradedQty(id) < Quantity(lines[owners[id]])}

StatsAgree ==
  opts.replay =>
    /\ stats.accepted + stats.rejected = ordersProcessed
    /\ stats.trades = tradesGenerated
    /\ Taped => /\ stats.trades = Len(tape)
                /\ stats.accepted = Cardinality(usedIds) + Cardinality(Vanished)
    /\ phase = "exit" => stats.submitted = ordersProcessed

(***************************************************************************)
(* In a session the last print of a book is the book: no rest, trade or    *)
(* cancel goes unpublished.  Its rows are the best levels, in order, with  *)
(* what rests there, and the spread it shows is positive.  The code has no *)
(* limit on quantities: this is so while no side of a book holds 2^64 or   *)
(* more (TotalsFit), as when the LIMIT lines ask for little (LinesFit).    *)
(***************************************************************************)
RowsRight(rows, side, entries) ==
  LET prices == {e.price : e \in ToSet(entries)}
  IN  /\ Len(rows) = Lesser(BookDepth, Cardinality(prices))
      /\ \A i \in DOMAIN rows :
           /\ Cardinality({p \in prices : AsGood(side, p, rows[i].price)}) = i
           /\ rows[i].qty = SumFunctionOnSet([e \in ToSet(entries) |-> e.open],
                                          {e \in ToSet(entries) : e.price = rows[i].price})

TotalsFit == \A s \in symbols, side \in Side :
  SumFunctionOnSet([e \in ToSet(books[s][side]) |-> e.open], ToSet(books[s][side])) < Width

LimitQtys == {Quantity(l) : l \in {l \in Parsing : l.type = "LIMIT"}}

LinesFit == MaxLines * Max(LimitQtys \cup {0}) < Width

FeedCurrent ==
  ~opts.replay =>
    \A s \in symbols :
      IF s \in DOMAIN published
      THEN LET view == published[s].book IN
           /\ RowsRight(view.bids, "BUY", books[s]["BUY"])
           /\ RowsRight(view.asks, "SELL", books[s]["SELL"])
           /\ \A n \in view.spread : n > 0
      ELSE books[s] = EmptyBook
==============================================================================
