# A TLA+ model of AstraExchange

AstraExchange (`src/`) is a limit order book exchange in C++: a matching engine
with one order book per symbol, a CSV replay front end, and a benchmark that
drives the engine single-threaded, with pooled orders, or through a lock-free
ring buffer between two threads. This directory holds TLA+ modules translated
from that code, TLC configurations that check them on small instances, and
TLAPS proofs, for every instance, of the invariants of the order book, the
engine, the ring buffer, the pipeline, the pool, the benchmark and the exchange
program.

Paths below are relative to `src/`.

## 1. The system

| component | state | operations | used by |
|---|---|---|---|
| `PriceLevel` (`include/core/PriceLevel.hpp`) | deque of orders, running total | `addOrder`, `removeOrder`, `popFront`, `updateTotalQty` | `OrderBook` |
| `OrderBook` (`src/core/OrderBook.cpp`) | `bids_`, `asks_` (maps from price to level), `index_` (id to side and price); the `Order` objects it shares with callers | `addOrder` (LIMIT, MARKET, IOC, FOK), `cancelOrder`, const queries | `MatchingEngine` |
| `RiskValidator` (`include/core/RiskValidator.hpp`) | known symbols, used ids | `registerSymbol`, `validate`, `recordId` | `MatchingEngine` |
| `MatchingEngine` (`src/core/MatchingEngine.cpp`) | one book per symbol, validator, two totals | `registerSymbol`, `submitOrder`, `cancelOrder` | replay, benchmark |
| `SpscRingBuffer` (`include/utils/SpscRingBuffer.hpp`) | atomic `head_` and `tail_`, raw slots | `push` (one thread), `pop` (another) | pipeline mode |
| `MemoryPool` (`include/utils/MemoryPool.hpp`) | raw slots, freelist | `alloc`, `dealloc` | pool mode |
| `BenchmarkRunner` (`src/benchmark/BenchmarkRunner.cpp`) | counters, trades, accepted ids; in pipeline mode shared with a second thread until `join` | `runBaseline`, `runPool`, `runPipeline`, `finalise` | `exchange_bench` |
| `OrderGenerator` (`src/benchmark/OrderGenerator.cpp`) | id counter, orders it believes to rest | `generate` | `BenchmarkRunner` |
| `InvariantChecker` (`src/benchmark/InvariantChecker.cpp`) | none | `checkBook`, `checkTrades`, `checkUniqueIds` | `BenchmarkRunner` |
| `CsvParser` (`src/parser/CsvParser.cpp`) | line number, header flag, orders, errors | `parseFile`, `parseLine` | replay, `main` |
| `ReplayEngine` (`src/benchmark/ReplayEngine.cpp`) | engine, counters | `run` | `main` |
| `MarketDataFeed`, `EventLog` (`src/feed/`) | none | `publish`, `logTrade` | replay, `main` |
| `exchange` (`src/main.cpp`) | options, and in a session an engine | replay, interactive loop | |
| `exchange_bench`, `LatencyTimer` | options; samples | | |

How they interact. A front end gives the engine a `shared_ptr<Order>`; the
engine validates it, records its id and calls the symbol's book; the book
changes the order *and* the resting orders it trades with in place and returns
the trades. Only pipeline mode has two threads: the main thread pushes orders
into the ring and the engine thread pops them; they share nothing else until
the join. In pool mode the last `shared_ptr` to an order gives its slot back.

What is hard, and what makes each part correct:

* `OrderBook` keeps the same facts in four places (deque, total, index, order
  objects) and updates them with separate statements inside a loop. It is
  correct when the four agree after every iteration, the book is not crossed,
  the loop ends, and the whole call amounts to price-time priority.
* FOK decides on the totals and executes on the orders.
* `MatchingEngine` gives each book ids it has never seen; cancels bypass the
  validator. It is correct when an id is used up once, an order leaves once,
  and a rejected call leaves no trace.
* The front end decides what the engine sees. It is correct when no line is
  lost or misnumbered, when the text of the lines and the printed trades alone
  explain every book, and when a printed book is not out of date.
* `SpscRingBuffer` is correct when no two unordered accesses meet in a slot and
  the items come out as they went in, though each thread may see old indices.
* Pipeline mode is correct when it gives the engine the stream that baseline
  mode would, ends, and reads results only after the join.
* Pool mode depends on object lifetimes; the generator and the accounting on
  what the engine reports.

`PROJECT.json` lists every component with its status and every hazard with its
line and the properties that watch it.

## 2. The modules

    Types                 enumerations
    OrderBook             addOrder()/cancelOrder(), one step per loop iteration
      InvariantChecker      the program's own checks, as operators
      OrderBookProperties   what must hold of it
      OrderBookRefinement   it implements PriceTimeBook
      OrderBookProofs       theorems: index, levels, prices, fills, totals, FOK
      Sums                  lemmas on sums of quantities
      MCOrderBook           instances
    PriceTime             price-time priority as pure operators
      PriceTimeBook         the same as a specification: call, return, cancel
    MatchingEngine        the engine and its validator over PriceTime books
      MatchingEngineProofs  theorems
      MCMatchingEngine      instances
    BoundedFifo           what a ring buffer promises
    SpscRingBuffer        push() and pop(), one step per shared memory access
      SpscRingBufferProofs  theorems, and the refinement of BoundedFifo
      MCSpscRingBuffer      instances
    Pipeline              runPipeline(): two threads over SpscRingBuffer
      PipelineProofs        theorems, from those of the ring
      MCPipeline            instance
    MemoryPool            alloc(), dealloc() and the freelist
    PoolRun               runPool(): the lifetimes of pooled orders, over
                          MatchingEngine and MemoryPool
      PoolRunProofs         theorems, over those of the engine
      MCPoolRun             instances
    OrderGenerator        generate(): the stream of orders of a benchmark
    Benchmark             run() in baseline mode with finalise(), over
                          OrderGenerator, MatchingEngine and InvariantChecker
      BenchmarkProofs       theorems, over those of the engine
      MCBenchmark           instances
    CsvParser             lines of text to orders and errors
    MarketDataFeed        the printed book
    Exchange              the exchange program: options, replay, session, over
                          CsvParser, MatchingEngine and MarketDataFeed
      ExchangeProofs        theorems, over those of the engine
      MCExchange            instance

### OrderBook

| model | code |
|---|---|
| `orders` | the `Order` objects, by id: `filled` is `filledQty`, and `status` |
| `book[side]` | `bids_` / `asks_`: a function from the prices that have a level to `[queue, total]` |
| `index` | `index_` |
| `incoming`, `trades`, `pc` | the argument, the local vector and the position of the `addOrder()` call under way |
| `Submit` | `addOrder()` up to the match function |
| `FokPass`, `FokKill` | the pre-check of `matchFok()` with `availableFill()` |
| `Fill` | one iteration of the loop of `drainSide()`, totals, index and level included |
| `FinishLimit`, `FinishMarket`, `FinishIoc`, `FinishFok` | what each match function does after the loop: the status, and `restOrder()` for a LIMIT order |
| `CancelOrder` | `cancelOrder()` of an indexed id (of another id it changes nothing) |

The book has one thread, so no call starts while another is under way; the
steps inside a call matter because the invariants are claimed after each of
them. Quantities are unsigned and wrap at `QtyMod` (2^64 in the code) exactly
where the code does not check: in `addOrder`, `removeOrder` and `popFront` of
`PriceLevel` and in the sum of `availableFill`; `updateTotalQty` clamps at 0.
Prices are the fixed-point integers. Inputs are what `RiskValidator` lets
through: a fresh id, a positive quantity, a positive price for LIMIT; IOC and
FOK may carry any price, and the model has price 0 for it. MARKET orders carry
price 0, which nothing reads.

### PriceTime and PriceTimeBook

One sequence of open entries per side, best first. A call takes from the
entries that it may trade with, in order, up to its quantity (`Taken`), or
nothing when a FOK order cannot be filled (`Killed`), and what is left of a
LIMIT order is inserted behind every entry at least as good. There are no
levels, totals or loops. `PriceTimeBook` makes that a specification in which a
call is made (`Call`) and takes effect at once (`Return`).
`OrderBookRefinement` maps `OrderBook` to it: during a call the abstract book
is the one before it, which is rebuilt from `trades`.

### MatchingEngine

`books`, `symbols`, `usedIds`, `ordersProcessed`, `tradesGenerated` are the
members of the engine and its validator, `result` the returned `EngineResult`
(the reason text is left out). Each call is one step: the engine has one
thread. A book's call has the effect that `PriceTime` gives, which is what the
refinement above licenses, for quantities that do not wrap. `SubmitOrder` takes
every input, invalid ones included, and routes CANCEL; `CancelOrder` is the
direct path; `RegisterSymbol` may come at any time, again too.

### SpscRingBuffer and Pipeline

An atomic index is its *modification order*, the sequence of all values stored
(`heads`, `tails`). A thread reads its own index exactly; a load of the other
thread's index returns any value not older than the last one it saw
(`LoadHead`, `LoadTail`). The slots are not atomic: `released` records, for
each thread and slot, the index store that releases its last access, and
`synced` up to which store of the other thread a thread is synchronized by its
acquire loads. `push()` is `PushFull` (returns false) or `PushRoom`,
`Construct`, `Publish`; `pop()` is `PopEmpty` or `PopItem`, `Take`, `Free`.
`(i + 1) & mask_` is `After(i)`.

`Pipeline` instantiates the ring with the capacity that `nextPow2()` gives and
adds the two loops: the main thread repeats a refused push with the same item
(`Spin`), pushes the sentinel after the last order and joins; the engine thread
submits what it pops until it pops the sentinel. The engine itself is
represented by the list of orders submitted to it: it is deterministic in that
list.

### MemoryPool and PoolRun

`storage` says which object lives in each slot, `freelist` is the vector, used
as a stack. `Dealloc` takes the slots of a sequence back one after the other,
because one `submitOrder()` may release several makers, in the order of its
trades. `PoolRun` is the loop of `runPool()`: `Alloc` (the order is built in a
slot and `poolOrder` points to it), `Submit` (the engine's whole call, with the
deleters that run inside it), `EndIteration` (`poolOrder` goes out of scope) and
`DestroyPool` (the pool, declared after the engine, goes first). `slotOf` and
`current` are the pointers that keep an order alive: the level's and the loop's.

### OrderGenerator, InvariantChecker and Benchmark

`OrderGenerator` has one action per order of `generate()`: `SeedOrder` (the
seeding loop), `EmitLimit`, `EmitCancel`, `EmitInstead` (nothing to cancel) and
`EmitOther` (MARKET, IOC, FOK and the three kinds of invalid orders). The draws
are choices; `restingOrders` is the list with its swap on removal.
`InvariantChecker` has `checkBook()`, `checkTrades()`, `checkUniqueIds()` and
`OrderBook::checkInvariants()` as operators over what they read of a book; they
are applied to the detailed book in `OrderBookProperties` and to the engine's
books in `Benchmark`. `Benchmark` generates the whole stream (`Generate`),
registers the symbols, submits one order per `Submit` with the counters of
`runBaseline()`, and reports (`Finalise`, with and without verification).

### CsvParser, MarketDataFeed and Exchange

| model | code |
|---|---|
| `line` | a line of text: the number of columns that `split()` finds, and the first seven |
| `Parses`, `ParsedOrder` | `parseLine()`: `nullopt` or the order |
| `ParseFileLine`, `CannotOpen` | an iteration of `parseFile()`, and a file that does not open |
| `ReadOption`, `ChooseMode`, `RegisterSymbol` | `main()` up to the mode, and the registration of symbols |
| `ReadLine`, `EndOfFile`, `SubmitNext`, `EndReplay` | `ReplayEngine::run()`: the whole file is parsed, then submitted order by order |
| `Enter`, `Quit` | the interactive loop |
| `tape` | the trades printed, by `--trades` or by `logTrade()` (which adds the ids to what a replay prints) |
| `published` | the last print of each symbol's book |

A number in a line is either `NotNumber` or the decimal number that the text
begins with. It is counted in half units of the fixed-point price, so that
`toFixedPrice()` has something to round, `stoull()` has fractions to drop and
negative numbers to wrap (at `Width`). `stoull()` throws beyond 64 bits, so such a
number is `NotNumber` too. The book is `PriceTime` again. It gives the effect of
the book's calls in the states of `TotalsFit`, those in which no side of a book
holds `Width` or more; section 4 says what that means for the theorems. `QtyAt`,
the quantity of a printed row, is the sum of what the orders at the price have
left, and wraps. Once it has wrapped, `updateTotalQty()` may clamp the code's
running total to 0 where the sum has a remainder; within `TotalsFit` they agree.

The properties are stated from the other end, by the numbers of lines:
`DataLines` are the lines that count, `Good` and `Bad` those that parse and
those that do not, and `Place` is how far a line comes among them. `Owners`
gives each id to the first acceptable line that names it, from the text of the
lines and the registered symbols alone. Ids and quantities are read from the
text by `Whole`, which is defined by what the digits say and not by what
`stoull()` computes. `OpenExplained` says that each resting quantity is what its
line asked for less what was printed of it, `TapeExplained` that every print is
between two lines that meet, `StatsAgree` that the counters of a replay can be
derived in that way too. `FeedCurrent` says that in a session the last print of
a book is the book, row by row. None of them mentions the engine's calls. In
`MarketDataFeed` the order of the rows is that of `Keys`, the keys of the map
under its comparator.

## 3. The runs

| run | what it asks | bounds |
|---|---|---|
| `book_safety` | the invariants of the book after every loop iteration, and that an order that is over never changes | 4 orders of any side and type, prices 0..2, quantities 1..2, any cancels |
| `book_refinement` | does the loop compute price-time priority, and does every call return | 3 orders, as above, under `FairSpec` |
| `fok_overflow` | FOK all-or-nothing when totals wrap (violated) | `QtyMod` 4, quantities 2..3 |
| `ioc_comment` | the engine's comment on IOC statuses (violated) | 2 orders |
| `engine` | ids, validation, cancels by both paths, re-registration | 4 ids, 2 symbols, 4 calls of `submitOrder`, prices 0..2, quantities 0..2 |
| `ring` | data races, object lifetimes, FIFO | capacity 4, 10 pushes, 3 items |
| `pool_run` | slots and lifetimes of pooled orders | 3 ids, 1 symbol, 4 orders, prices 1..2, quantities 0..2 |
| `pool_destruction` | "returns the slot on last release" when `runPool()` returns (violated) | a stream of 1 order |
| `benchmark` | the generator's stream, the report's counters and self-checks | 4 orders, 2 symbols, prices 1..2, quantities 2 (LIMIT) and 1 |
| `stale_cancel` | do generated cancels "target resting orders" (violated) | 3 orders |
| `exchange` | do the lines and the prints explain books, counters and printed books | any 4 of 10 different lines (a file has one more), 4 command lines, depth 1, `PriceScale` 1, `Width` 16 |
| `pipeline` | stream order, completeness, leaks, termination | 9 orders, requested capacity 3 |

Why these bounds are enough to be of use. Four orders make a level with two
orders at one price and two levels on a side, an order that fills several of
them, one partly, and a cancel from the middle of a queue; three prices make
better, equal and worse levels; quantities 1 and 2 make exact and partial fills
in both directions. `QtyMod` 16 is above every sum these orders can reach, so
`book_safety` shows the book without wrap-around and `fok_overflow` the book
with it. Four ids and four submissions in the engine allow a resting order, its
duplicate, its cancel by either path and an order after it. In the ring, 10
pushes wrap the indices of 4 slots twice, with every lag between the threads.
Four submissions over three ids let one pooled order fill another, wholly or in
part, and a slot be reused while others are held. The pipeline needs a stream
longer than the ring, and 9 orders and a sentinel wrap it twice. In the
benchmark, four orders are one of the seed, orders that fill it in part or in
full or cancel it, and one after the list of two tracked orders is full or
empty. In `exchange`, the ten lines are an empty one, one that does not parse,
LIMIT orders to buy at 1.5 and 3 and to sell at 1 and 2.5, one of which writes
its id as 1.5, an IOC order at a negative price whose quantity of -1 wraps to
15, more than the LIMIT lines ask for together, a MARKET order, a CANCEL, and an
order at half a unit below 0 for a symbol that one of the command lines
registers. Four of them (after a header, in a file) are enough for a resting
order, its duplicate or its cancel, and orders that trade with it before and
after; depth 1 is below the two levels that can rest on a side. Four times the
greatest quantity of a LIMIT line is less than `Width` (`LinesFit`, which TLC
evaluates), so no total wraps and `FeedCurrent` needs no premise here.

Ids, items and symbols are only compared for equality, so the safety runs use
symmetry over those that are model values; the runs with liveness do not.

`CHECK_DEADLOCK FALSE` appears where the system may stop: a book whose ids are
all used up, a pipeline that has ended.

Fairness. `OrderBook!FairSpec` has weak fairness of `Match`, the steps of a
call under way: it is straight-line code in one thread. `Pipeline!FairSpec` has
weak fairness of each thread's steps other than a fruitless spin. It says that
both threads run, and that a store becomes visible to a spinning thread
eventually, as C++ requires of implementations; it does not say that a
particular load is up to date. `Spin` and `PollEmpty` have no fairness.

Every property of a passing run has a mutant in `PROJECT.json`: a definition
changed the way a plausible bug would change it (marked `Mutant` in the
modules), under which TLC finds the property violated.

### Disagreements the runs show

* **FOK can be filled in part** (`fok_overflow`). Totals wrap at 2^64 on
  `addOrder` (`include/core/PriceLevel.hpp:17`) and are clamped on fills
  (`:46`); after a wrap a total can exceed what the orders have left, the
  pre-check passes, and the order trades in part and is returned FILLED. It
  takes quantities that sum to 2^64 at one price; `validate()` has no upper
  limit on quantities.
* **IOC status** (`ioc_comment`). `src/core/MatchingEngine.cpp:36` says that a
  partly filled IOC order comes back CANCELLED; it comes back
  PARTIALLY_FILLED.
* **The pool dies before its orders** (`pool_destruction`). `runPool()` declares
  the pool (`src/benchmark/BenchmarkRunner.cpp:145`) after the engine (`:141`),
  so the deleters of orders still resting run on a destroyed pool. The comment
  at `:162` promises that the deleter returns the slot to the pool on the last
  release.
* **Cancels of orders that are gone** (`stale_cancel`). `README.md:248` says
  that generated cancels target resting orders; the generator
  (`src/benchmark/OrderGenerator.cpp:50`) cannot know, and some are rejected.
  The run `benchmark` shows that this is all that goes wrong.

Remarks that are no run. `README.md:92` promises "capacity usable slots, one gap
slot" of the ring; one of its `capacity()` slots is the gap, and the refinement
in `ring` is to a FIFO of `Capacity - 1` items. The CANCEL row of the example
file (`README.md:154`) has nine columns, its seventh is no number, and it does
not parse; it is one of the lines of `exchange`. With `--trades --book` a replay
prints each trade twice. `cancelsProcessed` counts every order that comes
back CANCELLED, so killed IOC and FOK orders too (`ReportAgrees` states the sum
that does hold). When totals wrap, `InvariantChecker` reports a level of
quantity 0 in a sound book (`CheckerPasses` fails for `QtyMod` 4).

## 4. What is proved

TLC shows a property on one small instance; the theorems below hold for every
value of the constants. Each proof module is about the module it is named after.

| module | theorem | property |
|---|---|---|
| `OrderBookProofs` | `TypeCorrect` | `TypeOK`: types, and `filled <= quantity` |
| | `IndexConsistent` | `IndexExact`: index and levels agree both ways |
| | `LevelsLive` | `LiveLevels`: no empty level, no filled order in a level |
| | `Uncrossed` | `NotCrossed`: best bid below best ask |
| | `OverStaysOver` | `OverIsOver`: an order that is over never changes |
| | `QuantityConserved` | `Conservation`: what was bought was sold |
| | `StatusTold` | `RestingStatus`: the status of a resting order says whether it has traded |
| | `TotalsExact` | `TotalsMatch`, under `[]SidesFit` |
| | `FokHonest` | `FokAllOrNothing`, under `[]SidesFit` |
| | `CheckerContent` | `CheckerPasses`, under `[]SidesFit` |
| | `SmallQuantities` | these three and `SidesFit` itself, if all quantities together fit |
| `MatchingEngineProofs` | `TypeCorrect` | `TypeOK`: types; the validator knows the symbols that have a book |
| | `IdsRestOnce` | `IdsUnique`: an id rests at most once, and was recorded |
| | `NoBookCrossed` | `BooksUncrossed` |
| | `TradesSound` | `TradesPositive` |
| | `TotalsAgree` | `TotalsOrdered`: trades <= ids used <= orders processed |
| | `LeaveOnlyOnce` | `LeavesOnce`: an order leaves by a trade or by the cancel that says so |
| | `UsedUpOnce` | `GoneForGood`: what has left never rests or trades again |
| | `RejectedNoTrace` | `RejectedLeavesNoTrace` |
| `SpscRingBufferProofs` | `TypeCorrect` | `TypeOK`: no index leaves the array |
| | `DataRaceFree` | `NoDataRace` |
| | `LifetimesRespected` | `SlotLifetimes`: nothing is overwritten, nothing taken from an empty slot |
| | `Implementation` | `ImplementsFifo`: the ring refines `BoundedFifo` |
| `PipelineProofs` | `RingUsedRightly`, `RaceFree` | the pipeline is a behaviour of the ring, so every theorem above holds of it |
| | `TypeCorrect` | `TypeOK` |
| | `InOrder` | `StreamInOrder`: the engine gets the stream, in order |
| | `Complete` | `ReportComplete`: after the join nothing is missing or left over |
| `PoolRunProofs` | `SlotsAreHeld` | `SlotsHeld`: the slots in use are those a pointer keeps, one each |
| | `FreelistIsExact` | `FreelistExact`: no slot is freed twice or lost |
| | `PoolSuffices` | at the top of an iteration the freelist is not empty: `alloc()` never throws |
| | `EngineRunsAlone` | pool mode is a behaviour of the engine, so every theorem about the engine holds of it |
| `BenchmarkProofs` | `StreamIsWellFormed` | `StreamWellFormed`: ids without gaps; a CANCEL names an earlier order, once |
| | `TrackedStayBounded` | `TrackedBounded` |
| | `RejectionsAreExplained` | `RejectionsExplained`: rejected are the invalid orders and the cancels of what has traded in full |
| | `ReportIsRight` | `ReportAgrees` |
| | `ChecksAlwaysPass` | `InvariantsPass`: the verification at the end never fails |
| | `PartsRunAlone` | a benchmark is a behaviour of the generator and of the engine, so every theorem about the engine holds of it |
| `ExchangeProofs` | `NoLineLost` | `LinesAccounted`: a data line is an order or an error, under its own number |
| | `BooksExplained` | `OpenExplained`: lines and prints explain every resting order |
| | `TradesExplained` | `TapeExplained`: every print is between two lines that meet, the older one resting |
| | `StatsAdd` | `StatsAgree`: the counters of a replay follow from the lines and the prints |
| | `PrintsCurrent` | `FeedCurrent`: in a session the last print of a book is the book, under `[]TotalsFit` |
| | `SmallLines` | `FeedCurrent` and `TotalsFit` itself, if `MaxLines` times the greatest quantity of a LIMIT line is less than 2^64 |
| | `EngineRuns` | the program is a behaviour of the engine, so every theorem about the engine holds of it |
| | `PricesRounded` | what `toFixedPrice()` does to every price, above and below zero |

`Sums` holds lemmas about `SumFunctionOnSet`: what adding, removing or changing
one term or renaming the terms does to a sum, and when sums are bounded by sums
(and that a finite set of numbers has a greatest one).

**Assumptions.** All are named in the modules that declare the constants.
`OrderBook`: the "no order yet" mark is no id, 0 is a price, quantities are
positive and below `QtyMod`. `MatchingEngine` (`BoundsAssumption`): prices are
integers, finitely many, and the bounds are natural numbers. `SpscRingBuffer`:
two slots or more (that their number is a power of two is not needed, only that
`After` counts modulo the capacity), and the mark of an empty slot is no item.
`Pipeline`: the sentinel is no order, and
`RequestedAssumption`: `NextPow2(Requested)` is a natural number above 1. That is
what `nextPow2()` promises; it is assumed because it is a loop over powers of
two, whose result the provers could only find by induction over data, and TLC
evaluates it for the instance checked. `PoolRun` (`StreamAssumption`): the
engine's assumptions, and the mark of an empty slot is no id. `Benchmark`
(`BenchmarkAssumption`): prices and quantities are finitely many positive
numbers, as the options and distributions give them, the unknown symbol is none
of the benchmark's, and the seed fits the generator's list (5000 and 50000 in
the code); `WidthAssumption`: `Count` orders of the greatest quantity do not
add up to 2^64. Without it, the check that a side's total is not zero could fail.
`Exchange`: `ScaleAssumption` and `BoundsAssumption` (the fixed-point scale and
`Width` are positive, the other bounds natural numbers), `LineAssumption` (there
are finitely many different lines, a number in one is an integer count of half
units or `NotNumber`, and one that `stoull()` reads has no more than 64 bits) and
`TextAssumption` (no list of symbols is empty, as `splitComma()` returns at least
one text). Nothing is assumed about quantities.

**The premise `[]SidesFit`.** Totals wrap at 2^64 and the code has no limit on
quantities, so `TotalsMatch`, `FokAllOrNothing` and `CheckerPasses` are false of
the code as it is (`fok_overflow`). What is true, and proved, is that they hold
in every behaviour in which no side of the book ever holds `QtyMod` or more in
all; `SmallQuantities` discharges the premise for finitely many orders whose
quantities together stay below `QtyMod`, which is what `book_safety` checks.
The other theorems about the book hold when totals wrap, too.

**The premise `[]TotalsFit`.** It is the same condition in the exchange program. A
line that asks for -1 and another at its price, or two that ask for 2^63, make the
total of a level wrap, and the session prints what is left of it: `FeedCurrent` is
then false of the code. `PrintsCurrent` therefore speaks of the behaviours in
which no side of a book ever holds 2^64 or more. `SmallLines` discharges the
premise: only LIMIT orders rest, so it is enough that `MaxLines` times the
greatest quantity of a LIMIT line is less than 2^64 (`LinesFit`), whatever other
lines ask for. The condition marks the range of `PriceTime` too: beyond it the
pre-check of a FOK order may count wrongly (`fok_overflow`), which that of
`PriceTime` never does. What the theorems about the engine and the modules above
it say of the code, they say of behaviours in which the sides of its books fit.

### The arguments

*OrderBook.* `TypeOK`, `IndexExact` and `LiveLevels` hold together by

    IInv == TypeOK /\ IndexExact /\ LiveLevels /\ IncomingLoose

`Fill` trades with `Head(queue)`: that this is an order at all, not the
incoming one, and not filled, needs `LiveLevels` and `IndexExact`; that it is
not the incoming order needs `IncomingLoose` (an order under way is not
indexed), which is also why `restOrder()` appends a new id. Lemmas say what the
deque operations do to the ids of a queue (`AppendQueue`, `TailQueue`,
`RemoveQueue`) and what a step does that takes ids from one level
(`LevelShrinks`, for `Fill` and `CancelOrder`) or adds one (`LevelGrows`, for
`restOrder()`); there is one lemma per action. `Uncrossed` needs `IInv` and the
fact that a nonempty set of prices has a best one (`BestExists`): when the loop
ends with quantity left and no level is matchable, no level is crossed
(`DrainedUncrossed`).

*Quantities of the book.* `FillTrades` says what an iteration of `drainSide()` is
once its branches are forgotten: two orders of opposite sides gain the same
`filled`, and one level loses as much. `Conservation` follows from it and the
lemmas on sums; `TotalsMatch` is inductive with `IInv`, one lemma per step that
touches a total (`FillTotals`, `RestTotals`, `CancelTotals`). `FokAllOrNothing` is
not inductive. The strengthening is `FokCovered`: while a FOK order that passed
its pre-check drains the book, what the levels it may still trade with hold is
at least what it has left. The pre-check establishes it (`PrecheckCovers`: its
sum of totals is the sum of what the orders have left), each fill lowers both
sides by the same amount (`FillOffers`), so the loop cannot end before the order
is filled. `RestingStatus` is inductive with `IInv`.

*MatchingEngine.* The inductive invariant adds to the properties that
the symbols' books share no id (`Apart`), that each book is sorted, uncrossed
and without duplicates (`GoodBook`), and a count:

    tradesGenerated + Cardinality(AllResting) <= Cardinality(usedIds)

`TotalsOrdered` alone is not inductive, because a call may make many trades: it
is the makers that stop resting that pay for all of them but the last, which
completes the order itself. `ReachFirst`, `TakenOf` and `MatchCounts` show that
a call fills a prefix of the opposite side, the next entry perhaps in part;
`DrainedThins`, `InsertKeeps` and `RemoveThins` say what that, an order that joins
and a cancel do to a sorted side; `OneBookChanges` lifts it to the engine. Where
an argument needs an induction over entries, it is made as the absence of a
smallest counterexample. `RejectedNoTrace` rests on one conjunct only, that the
validator knows exactly the symbols that have a book: a valid order finds its
book, whose calls never leave an order REJECTED, so the rejection after
`recordId()` is dead code.

*SpscRingBuffer.* The n-th value of each index is `SlotOf(n)`, so item `n` is
constructed and taken in one slot (`IndexInv`). `LoadInv` says what an old index
is still good for: the producer has at most a lap to go from the `head_` it
saw, the consumer is not beyond the `tail_` it saw. `LapInv` says which slots
of the lap that starts at the oldest item are occupied, and `GhostInv` which index
store releases the last access to each slot. Two numbers less than a lap apart
have different slots (`SameSlot`), so the slot the producer is about to use was
last released by a store that it has seen. No capacity is special: the proof
does arithmetic modulo `Capacity` once, in lemmas. `Implementation` maps the
items from oldest to newest to the queue of `BoundedFifo`; `Publish` is its put,
`Take` its get, every other step a stutter.

*Pipeline.* Its steps are steps of the ring, so the ring's invariant holds of it.
To that `IInv` adds which item is where: the main thread has pushed a prefix of
the stream (`MainInv`), the ring holds the stream from the oldest item on
(`SlotsInv`), and the engine thread has submitted what it took (`EngineInv`).

*PoolRun.* The engine's part of each step is a step of `MatchingEngine`
(`SameEngine`), so its invariant holds. `AllocStep` and `DeallocStep` say what the
pool does with its freelist: the second is owed slots that are occupied and
pairwise different, which is the contract `dealloc()` does not check. That the
deleters keep it is a fact about the engine: `SubmitReleases` shows that one
call takes from the books what a CANCEL names or the makers of its first trades,
each once (`GoneAre`), and an order in a slot knows its id, so two resting
ids never share a slot. The invariant also says, for each place in the loop,
whether `poolOrder` owns a slot that no level points to yet. `PoolSuffices` counts:
resting orders <= ids used <= orders processed, and the pool has a slot more than
the stream has orders. `NoOrderOutlivesPool` is no part of this: it is violated
(`pool_destruction`), and `SlotsHeld` speaks of the states before the pool is
destroyed.

*Benchmark.* The invariant is that of the generator, that of the engine and what
links them. The generator's (`GenInv`): an id is the number of new orders up to
its order (`Numbered`), each CANCEL names an earlier valid LIMIT order under its
symbol and no two name the same one (`Cancels`), and the list holds such orders
that no CANCEL names yet, each once (`List`): that a cancelled order is
swapped out of the list is what makes cancels unique. The run's (`RunInv`): the
ids used are those of the valid orders submitted so far, and what rests, rests
under the symbol that the stream gives it. So a new order finds its id unused
(`ValidWhenDue`) and is rejected just when the generator made it invalid, and a
CANCEL finds its order where it rests, if it does (`CancelWhenDue`);
`ExecuteAnswers` and `CancelAnswers` are what the engine promises in return.
`Accounts` ties the counters and the accepted ids to the engine's. The checks at
the end pass because the books are good by the engine's invariant (`BookPasses`)
and accepted ids are ids of different new orders (`ChecksPass`).

*Exchange.* `Base` is what every property needs: the phases and the command line
(`CommandOK`), the parser's counters against the lines read (`LinesOK`), and the
engine's invariant. A step is of one of three kinds (`StepKinds`): the engine is
as it was at the start, nothing moves that a property reads, or line `n` is
submitted (`Sends`), which in a session also parses and prints it. A submitted
line is refused, or its order is accepted (`Refused`, `Accepted`). What links
engine and text is

    Explained == usedIds = DOMAIN Owners /\ EntriesOK /\ TradedOK /\ TapeOK

with one conjunct for the ids, the resting orders, the quantities traded and the
prints. The line just sent is the last, so it owns an id only if the id was
unused, which is also when the engine accepts it. What an order has left is the
quantity of its line less the sum of its prints: `Follows` says which share each
entry gives up in a call of the engine, and the prints of that call add the same
share to the sum. `TradedOK` needs `EntriesOK` for that (no maker gives up more
than it has left), and so does `TapeOK`: a maker rested before the call, so its
line came first and its price is the rounded one. `StatsOK` adds the counters.
`Vanished` are the LIMIT orders that no longer rest and have not traded in full;
a line that is accepted brings an id into use or, if it is a CANCEL, one id into
`Vanished`, and no line takes one out. `FeedOK` says that the last print of
every book is its `View`, an empty book if there was none: a line touches the
book of its own symbol only (`OneBook`), and that one is printed after it.
`AskedOK` says that what a resting order has left is at most what some LIMIT
line may ask for; a side holds at most one order for each line, so under
`LinesFit` every side fits (`AskedFits`). That the rows of a `View` are the best
levels is a fact about sorted keys: each key is where its rank is (`KeysRank`).

TLC checked the inductive invariants of the engine, the ring, the pipeline, the
pool run, the benchmark and the exchange program on the instances of section 3.

### Not proved

* Liveness (`CallsReturn`, `PipelineEnds`): it needs fairness and ENABLED.
* The refinement of `PriceTimeBook` by `OrderBook`: its mapping sorts the prices
  of a side and concatenates their queues, which is recursion over data. Checked
  by `book_refinement` only.
* `NextPow2`, as said above.

## 5. Not modelled

* `exchange_bench` (`src/exchange_bench.cpp`): option parsing that fills a
  `BenchmarkConfig`, whose values are constants of `Benchmark`, `Pipeline` and
  `PoolRun`. `--symbols 0` gives the generator an empty list, on which
  `src/benchmark/OrderGenerator.cpp:21` is undefined; the model requires none.
* `saveCsv()` and `printTable()`: output that no part of the program reads back.
  `saveCsv()` writes the header when the file does not exist; a run killed
  between creating the file and closing it would leave later rows without one.
* `LatencyTimer`: measurements of the machine.
* `EventLog` beyond `logTrade()`: the other functions have no caller.
* Timestamps: parsed and copied, never compared.
* The characters of numbers, and prices that `std::stod` accepts and whose
  conversion to `int64_t` is undefined: `inf`, `nan`, and beyond 2^63 units.
* `--verbose`, usage texts and layout.
* The ring's `empty()` and `approxSize()`: const queries that the program does
  not use across threads.

## 6. Plan

1. Done: `OrderBook`, its properties, refinement and proofs; `MatchingEngine`;
   `SpscRingBuffer`; `Pipeline`; `MemoryPool` and `PoolRun`; `OrderGenerator`,
   `InvariantChecker`, `Benchmark`; `CsvParser`, `MarketDataFeed`, `Exchange`.
2. Done: proofs of the invariants and action properties of `OrderBook`,
   `MatchingEngine`, `SpscRingBuffer`, `Pipeline`, `PoolRun`, `Benchmark` and
   `Exchange`, and of the refinement of `BoundedFifo`.
