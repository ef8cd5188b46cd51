# TradeVerse in TLA+

A verification project for TradeVerse: the C++ server under `src/backend/` that keeps
order books, matches orders, settles trades into virtual portfolios and records them in
SQLite, while a ticker thread moves prices and makes the market, together with its
accounts and sessions, its HTTP server, and the data structures it is built to teach.
The modules are TLA+ specifications of that code, the `.cfg` files give TLC small
instances of them, and eight modules hold proofs that TLAPS checks for every instance.
`PROJECT.json` lists runs, mutants, findings, hazards and theorems, and maps each
definition to its lines of source.

    tlc -config EngineTwoCallers.cfg MCEngineHistory.tla
    tlc -config Sessions.cfg MCSessions.tla
    tlapm MatchingEngineProofs.tla

## 1. The system

### Threads and locks

`main()` builds the components, applies the start-up trades, registers the routes and
starts two kinds of threads.

* **Connections.** `HttpServer::listenLoop` starts a thread for every accepted
  connection. It reads until the body is as long as `Content-Length` says or the client
  closes, with no timeout; `dispatch` then takes `routeMutex` around the whole handler.
  Handlers therefore run one at a time, and reading is concurrent.
* **The ticker** calls `MarketSimulator::tick()` every 1.5 s. It takes `simMutex`, and
  never `routeMutex`, so it runs *beside* a handler, which may itself be in
  `POST /api/admin/tick`.

| lock | held by | for |
|---|---|---|
| `routeMutex` | `HttpServer::dispatch` | a whole handler |
| `simMutex` | `MarketSimulator` | a whole tick; a getter, but not what its caller does with the pointer it returns |
| `bookMutex` | `OrderBook` | one method (test, peek, pop, push...) |
| `engineMutex` | `MatchingEngine` | looking a book up, **not** `processOrder` |
| `portfolioMutex`, `dbMutex`, `authMutex`, `eventMutex` | their classes | one method |

The hard part of the program follows from the table: `processOrder` makes a sequence of
separately locked calls, and its two callers share no lock.

### Components

| component | state | operations | interacts with | what makes it correct |
|---|---|---|---|---|
| `models/Order.hpp` | - | two comparators, remaining quantity | everything | a strict weak order: price, then time |
| `dsa/MaxHeap`, `MinHeap` | a vector | push, pop, top, removeIf | `OrderBook` | heap order; is a priority queue |
| `OrderBook` | two heaps, last price | add, has, peek, pop, cancel, depth | engine, routes | live orders only, bids below asks |
| `MatchingEngine` | books, trade counter | `processOrder`, `cancelOrder` | handler, ticker | shares conserved, limits kept, price-time priority where calls do not meet, calls return |
| `PortfolioManager` | portfolio per user | `initializeUser`, `applyTrade`, `updateMarketPrices`, checks | handlers | cash and shares conserved, profit accounted for |
| order handler (`main.cpp`) | - | `POST /api/orders` | all of the above, the database | covered orders only; portfolios and tables agree; answers |
| `MarketSimulator` | stocks, candles, regime | `tick`, `seedLiquidity`, getters | engine, event engine | ticks end; candles make a chart; answers show one market; levels do not cross |
| `EventEngine`, `Graph` | events, weighted graph | `triggerEvent`, `propagateShock`, `dijkstra` | simulator, routes | shortest distances; a tick moves all stocks by the same events |
| `Database` | tables `orders`, `trades` | `saveOrder`, `saveTrade`, queries | handlers | rows tell what happened, across restarts |
| `AuthManager` | users, tokens | register, login, validate, logout | handlers | unique accounts; a token means its user until its logout |
| `HttpServer` | connections | accept, receive, `dispatch`, send | all handlers | one handler at a time; whole requests; an answer to every request, whatever other clients do |
| `Json` | - | `extractString`, `extractInt`, `extractDouble` | handlers | a field is read as it was written |
| `Sorting`, `Searching` | - | merge sort, ... | leaderboard | sorted, stable permutation |
| `HashMap`, `DoublyLinkedList`, `Queue`, `Stack` | containers | put, get, push, ... | tests only | are functions and sequences, through copies and moves |
| frontend | polled copies | contexts, pages | the HTTP API | display |

`sqlite3.c` is vendored. The hard behaviours are: two threads inside the engine; stale
copies of the best order, of a price, of a checked balance; a quote read beside a tick; an
exception in the middle of a match; a kill between two saves; a restart over old tables;
requests that come in pieces, are cut, or never end; orders that are each covered and
together are not; averages over long sequences of trades; pointers after a structure has
run empty, was copied or was moved from. They are listed line by line under `hazards` in
`PROJECT.json`.

## 2. The modules

| module | models | how |
|---|---|---|
| `Exchange` | - | the constants that orders, trades and portfolios share |
| `Orders` | `models/Order.hpp` | order record arithmetic, both comparators, a fill |
| `PriorityQueue` | what the heaps promise | operators on `[items (a bag), top]`; the **top is state**, because which of several equal elements is on top depends on history |
| `PriorityQueueSpec` | the same as a state machine | abstract specification: push, pop, removeIf in one step |
| `PriorityHeap` | `MaxHeap.hpp`, `MinHeap.hpp` | the vector as a function, one swap per step; refines `PriorityQueueSpec` |
| `MatchingEngine` | `MatchingEngine.hpp`, the mutating half of `OrderBook.hpp` | one action per access to shared state, any number of threads |
| `EngineHistory` | - | the engine with history variables: orders as submitted, cancellations, and where calls have met; its properties |
| `Rationals` | - | exact fractions for the doubles |
| `Portfolio` | `models/Portfolio.hpp`, the body of `applyTrade` | pure operators on a portfolio |
| `PortfolioManager` | `PortfolioManager.hpp` | one action per locked method |
| `OrderBookViews` | `getDepth`, `getAllOrders` | operators on the engine's state, checked in its states |
| `TradingServer` | `POST /api/orders`, the ticker, `seedLiquidity`, `saveTrade`, `saveOrder`, start-up and restart | composes the engine and the portfolios |
| `Graph` | `dsa/Graph.hpp`, `POST /api/dsa/dijkstra` | graphs as records; `bfs`, `dfs`, `dijkstra` step by step as recursive operators |
| `ShockGraph` | `buildMarketGraph` of `market/EventEngine.hpp` | the graph of sectors and companies, and what its traversal gives for each epicentre |
| `EventEngine` | `market/EventEngine.hpp` | events and their summed shocks; what the graph makes of an epicentre is the constant `ShocksFrom`, which the runs take from `ShockGraph` |
| `MarketSimulator` | `market/MarketSimulator.hpp`, `Stock.hpp`, the stock and admin routes | ticker and handler as two threads; one action per access that another may see |
| `Sessions` | `AuthManager.hpp`, `HttpServer.hpp`, the account routes, `getUserOrders` | a connection is a small state machine; handlers are actions under `routeMutex` |
| `Json` | `api/Json.hpp` | bodies as sequences of tokens |
| `LinkedNodes` | `new`, `delete` and walks along `next` | memory, of which `Null` is no cell |
| `DoublyLinkedList`, `Queue` | `dsa/` of the same name | nodes and pointers in a memory of cells |
| `QueuesSpec` | what `Queue` promises | abstract specification: each object holds a sequence |
| `HashMap` | `dsa/HashMap.hpp` | a sequence of chains |
| `Containers` | - | lists, queues and maps side by side: any number of objects of each |
| `Sorting` | `dsa/Sorting.hpp` | recursive operators that return the array and the trace |
| `Searching` | `dsa/Searching.hpp` | a turn of the loop per step, with the trace as state |
| `MC*` | - | instances for TLC; `MCDataStructures` puts heap, containers, sorts, search, graphs and `Json` side by side |
| `Induction` | - | induction over the naturals, in a form the provers take, and sums over finite sets |
| `PortfolioProofs` | - | lemmas on fractions and `Settled`, used by the next and by `ServerProofs` |
| `DataStructuresProofs` | - | theorems about `PriorityHeap`, `Containers` and `Searching` |
| `SessionsProofs` | - | theorems about `Sessions` and `Json` |
| `MatchingEngineProofs`, `PortfolioManagerProofs`, `MarketProofs`, `ServerProofs` | - | theorems about the module of that name (`MarketSimulator`, `TradingServer`) |

`EventEngine` takes the shocks as a constant because the traversal of the graph is written
with recursive operators, which no module with a theorem may reach.

### MatchingEngine

`pc[t]` says where thread `t` is in `processOrder`. `test` is the loop condition, `peek`
the copy of the best opposite order and the limit check, `pop` the pop whose *result is
dropped* and the fill of the two local copies, `refill` the push of a partially filled
maker, `loadId`/`trade` the load and store of the unguarded counter with the trade,
`rest` the push of the remainder, `done`/`threw` the return. BUY and SELL are the same
program with the sides exchanged (lines 96-170 and 171-245), so they are one set of
actions over `Opposite(side)`. A heap is a bag, because a copy popped once may be pushed
back twice; the result of `Popped` is a set, because any of several best orders may come
up. `untraded` is a history variable: the shares of an order that no trade has taken.
Timestamp 0 asks the engine to stamp the order; the market maker back-dates its own.
`CancelOrder` is in the engine's next-state relation although no route calls it.

### EngineHistory

What the engine owes to an order depends on whether its call was alone in its book, since
`bookMutex` is free between the steps of a call. `EngineHistory` records it: `Inside(t, s)`
is thread `t` between the start of its call on book `s` and its last step there; `met` are the
books in which a call has ever begun beside another, or an order was cancelled beside one;
`disturbed` are the threads that this happened to in their present call. `submitted` keeps
each order as its caller built it and `cancelled` what `cancelOrder` has taken out. None of
them guards a step. The properties quantify over the books outside `met` and the threads
outside `disturbed`, **with any number of threads** at work, in that book at other times and
in all other books meanwhile:

* `SharesConserved` says where the shares of *every* order are. `Standing` are the limit
  orders that nobody cancelled and that have shares left (`untraded`, a count of trades); when
  no call is at work on the book, its two heaps are exactly the bag of their `Remainder`s: each
  as submitted, once, less the shares traded. A maker that is not pushed back, a remainder that
  does not rest, a copy left behind or an order pushed twice violates it. Shares of a market
  order that its call does not trade are dropped, as the code does.
* `PriceTimePriority` compares *timestamps*, which callers choose, and says so; arrival is what
  `StrictFifo` compares, and the code does not keep that.
* `NeverThrows`, `BookUncrossed` and `DepthShowsTheBook` (in `OrderBookViews`) are about the
  same calls and books.

### TradingServer

The handler is a sequence of phases: `Post` (`routeMutex`), `GetStock` (waits for
`simMutex`, then reads through a pointer that nothing guards), `Refuse` or `Submit`, the
steps of the engine, `ApplyTrade` and `SaveTrade` for each trade, `SaveOrder`; `Fail` is
`dispatch` turning an exception into a 500 response. The ticker is `StartTick`,
`MoveStock` for each stock, `Seed` and the steps of the engine for each order of
`seedLiquidity`, `DropResult` (the `MatchResult` is ignored), `EndTick`; an exception
there ends the process. `MarkPortfolios` is what the portfolio and leaderboard routes do
to the holdings. `Restart` kills the process at any step: all but the two tables is
gone, the trade counter and the order counter start again, and the start-up trades are
stored again. `saveOrder` binds characters of strings that are gone when the statement
runs: the stored status is the order's or one that reads as REJECTED. With
`StorageMayFail` a save may return false, which no caller looks at.

Two simplifications: `seedLiquidity` places one bid and one ask and not five of each, and
prices move to any value of `Prices` and not by a random walk.

### MarketSimulator, EventEngine and Graph

A tick is `BeginTick` (the lock, the clock, the events' shocks and the regime), then for
each stock `SetPrice`, three steps of `SetRange` (high, low, volume) and `FinishStock`
(candle and levels); the lock goes with the last one. The fields are separate steps because
`GET /api/stocks/{symbol}` reads them through a pointer after `getStock` has released
`simMutex`: `ReadField` reads one field a step, wherever the tick is. `GET /api/stocks`
copies under the lock. The random walk is left out, the next price being any of the stock's
prices; the clock may go on, stand still or go back between ticks. `TriggerMarketEvent`
takes no `simMutex`, so it may fall into a tick. Engine calls of `seedLiquidity` are in
`TradingServer`; here only the prices of its levels are kept, all five.

The graph is the code's own, with weights in tenths, and `Dijkstra` is the code's loop: a
set of pairs for the priority queue, an outdated pair passed over, predecessors written
with each improvement. Against it stand definitions that do not mention the algorithm:
what can be reached in `n` steps, and distances that no edge can improve.

### Sessions

`conn[c]` is a connection: `Connect` by a client, `Accept` by `listenLoop`, `Receive` of
one of three pieces, or `ReceiveNothing` when the client has closed, then `Lock` (of
`routeMutex`), `Handle`, and `Send`; `Preflight` is OPTIONS. `IsComplete` is the
comparison with `Content-Length`. A handler reads what is there: if a request was cut, a
name may be missing and a password be half of itself. `auth` holds `AuthManager`'s four
maps; user ids are numbered from the number of users and tokens are numbered in the order
they are made, since random tokens do not repeat. `Restart` empties all but the table of
orders.

### The data structures

An operator with the name of a method maps the structure to the one the method leaves.
Where a method loops over nodes, entries or values (a walk, a copy, a rehash), a recursive
function has the structure after each turn, which both TLC and the provers can take.
Lists and queues live in a memory of cells, so that a dangling pointer or a leaked node is
a state and not a crash; `CallsActOnSequences` and `CallsActOnFunctions` ask in every
reachable state that each possible call does what it would do to a sequence or a function.
The sorts return their trace, so that the visualizer's steps are checked with the result.
`traceBinarySearch` is a state machine of one action per branch of its loop; `binarySearch`
is the same loop and returns what the last entry of the trace says.

## 3. What the runs check

Bounds are constants (`MaxOrders`, `MaxSize`, `MaxTrades`, `MaxRestarts`, `MaxTicks`,
`MaxEvents`, `MaxSessions`, `Cells`...). Each is named in its module and stands in a guard.

| run | instance | checks |
|---|---|---|
| `EngineTwoCallers` | 2 symmetric threads, 3 orders, 2 prices, 2 quantities, 2 timestamps | `TypeOK`, `RestingOrdersAreLive`, `TradesAddUp`, `TradesWithinLimit`, `NeverThrows`, `SharesConserved`, `BookUncrossed`, `DepthShowsTheBook`, `PriceTimePriority` |
| `Portfolios` | 2 users, 2 symbols, 4 trades | `ProfitIsAccountedFor`, `CashAndSharesConserved`, `AverageIsWithinPricesPaid` |
| `ServerTicksApart` | 4 orders, 2 customers; a restart at any step, with 1 | `LedgerExplainsPortfolios`, `RowsFollowTheirTrades` |
| `ServerAnswers` | 1 customer, 5 orders, failing saves | `ServerTypeOK`, `RequestsAnswered`, `TicksEnd` |
| `DataStructures` | up to 6 bids; 2 lists and 2 queues over 4 cells; 2 maps of 3 keys; arrays of up to 5, to sort and, sorted, to search; graphs of 3 vertices; bodies of up to 3 fields | `HeapOrdered`, `ImplementsQueue` (refinement), `ListsAreSequences`, `QueuesAreFifo` (refinement), `MapsAreFunctions`, `SortsSort`, `SearchesFind`, `BodiesAreRead`, `TraversalsVisitReachable`, `DijkstraIsShortest` |
| `Market` | 2 stocks, 2 ticks, 2 events, 2 regimes, charts of 2 candles | `SimTypeOK`, `CandlesAreSound`, `ClosedCandlesStay`, `QuotesAreConsistent`, `LevelsStayApart`, `TicksAreOfOneMarket` |
| `Sessions` | 2 connections, 3 tokens, 1 order, 1 restart | `SessionsTypeOK`, `AccountsAgree`, `SessionsKeepTheirUser`, `RowsAreTheUsers`, `WholeRequestsAreHandled`, `ClientsAreServed` |

Why the bounds are enough for the questions asked: three orders are the least with which two
threads compete for one maker, with which two orders wait for a third, and with which one order
trades with two makers or trades, leaves a remainder and rests; two quantities give full and
partial fills in both directions; two prices give crossing and not crossing, on both sides; of
two timestamps one is earlier than the clock. A call may be alone in the book, or begin beside
another at any step of it, and orders may be cancelled at any step. Market orders are all given
one price and one timestamp, which nothing reads of an order that does not wait
(`Requests` in `MCEngineHistory`), and so is the last order the timestamp, since a call that
finds it waiting has met its call. There is one book; that calls in another book change nothing here
is proved. In `ServerTicksApart` the four orders are a seeded bid and ask and two of customers; a process
may be killed, at any step, only while one of the two has done nothing that counts, and only the
other posts to the next process (`OwnerAloneIsKilled`, an action constraint of the run). Five orders in `ServerAnswers` are a seeded bid and ask,
a customer's order, and a second tick that overlaps it; with fewer, handler and ticker would
never meet in the engine. A heap of six has elements in both subtrees of the root that are not in order with each
other, which is what it takes for `removeIf` to sift its replacement up. Lists and queues of up to four nodes have a first, a
last and a middle one, and run empty; three keys, two of which share a bucket of four and
all a bucket of two, make a map rehash twice; arrays of five split unevenly and have ties, and
take a search two or three turns to either side;
graphs of three vertices have cycles, parallel edges, two ways of different length, and a
vertex relaxed twice. Two candles are the least with which the series is trimmed while the
last one is updated. Two connections are one that is stalled and one that must be served;
three tokens are a seeded user's session, a second one, and a registration.

`ServerTicksApart` checks what the code achieves *while the engine's calls do not overlap*:
`ApartSpec` lets handler and ticker overlap everywhere but inside the
engine. The limit is needed. If the ticker loads the trade counter, the handler trades, and the
ticker stores its old value back, a later request is given ids that are taken:
`INSERT OR REPLACE` overwrites a stored trade (`ServerReplacesTrades` shows it), the stored
trades no longer explain the portfolios and the rows no longer follow their trades.
`LedgerExplainsPortfolios` is about a process that started with empty tables: after a restart
an id that goes to a trade of the market maker, which nobody stores, still has the row of the
last run. `ServerAnswers` and the first four properties of `EngineTwoCallers` say what the code
achieves whatever overlaps, the other five what it achieves in a book in which no calls have
met. `DataStructures` is one run with independent parts, chosen at the start.

`ProfitIsAccountedFor` and `AverageIsWithinPricesPaid` are about portfolios that are not,
or were never, short: `totalMarketValue` leaves negative holdings out and the average
price of a short position bought back is a division by zero (`PortfolioManager.hpp:70`).
The guards name that part and nothing else. Other properties name their limits in the same
way: `QuotesAreConsistent` speaks of a quote of one stock only if no tick began while it was
read; `LevelsStayApart` lets a bid and an ask meet at prices of 2.50 and below (at 2.50 a step is
half a cent, and rounding takes it); `RowsAreTheUsers` holds
across a restart for seeded users, whose ids do not change; `MapsAreFunctions` leaves out
calls on a map that was moved from, which has no bucket to look into; `BodiesAreRead` leaves
out a key that an earlier value, other than the one just before it, hides.

### Runs that TLC is expected to refute

Each quotes a claim of the repository that the code does not keep (`findings`):

| run | claim | what happens |
|---|---|---|
| `EngineRaceOverfill` | docs/dsa.md:35-36, the order popped is the maker and bounds the match | `NoOverfill`: handler and ticker copy the same best order and both fill it |
| `EngineJumpsTheQueue` | docs/viva_guide.md:27, "strict FIFO order" at equal prices | `StrictFifo`: the ticker's order is back-dated and overtakes a waiting one |
| `ServerReplacesTrades` | HistoryPage.tsx:29, "Immutable trade ledger" | `StoredTradesStay`: the ticker stores an old trade counter back, and the next trade replaces a stored one |
| `ServerLosesTickFills` | HistoryPage.tsx:29, "recorded in SQLite" | fills made by the ticker's orders are dropped |
| `ServerUncovered` | main.cpp:292, 296, the refusals | nothing is reserved; a market order is checked at a price it is not filled at |

`EngineRaceOverfill` and `EngineJumpsTheQueue` run `MCHandlerAndTicker`: the handler stamps its
orders with the clock, the ticker its limit orders with an earlier time, and neither cancels.
`StrictFifo` is asked only of books in which no calls have met, so its refutation needs no
overlap. Nor does it need back-dating: orders of one price and one millisecond rank equal, and
popping a heap moves its last element to the root, so that with four orders, two quantities and
one timestamp TLC finds the handler alone matching the first and the third of three orders of one
millisecond while the second waits.
`ServerReplacesTrades` is narrowed to market orders at a price that stands still, which
leaves every interleaving of the two threads and finds the counterexample in seconds; it has no
restart, so the overlap alone brings it about. After a restart, when ids start again over the old
rows, a stored trade is replaced by the first new one.

Without the guard on `met`, `BookUncrossed` is violated as well by two calls that rest at once,
and without `disturbed` so is `NeverThrows`: the ticker's exception then ends the process, which
`RequestsAnswered` and `TicksEnd` accept. Each half of `CustomersStayCovered` is violated on its
own.

### Mutants

Each property of a passing run has an operator beside the definition it replaces (its
comment begins with "Mutant:"): a plausible slip in that code that makes TLC refute the
property.

### Fairness

Safety runs assume none. `ServerFairness` is weak fairness of the handler's steps together
and of the ticker's steps together: the operating system schedules both threads, and each
waits for one mutex only (the handler, in `GetStock`, for `simMutex`, which a tick frees).
Nothing makes a customer post or the ticker begin another tick, and `RequestsAnswered` and
`TicksEnd` accept the end of the process instead, which an exception in the ticker brings
about. `ServerAnswers` does not check deadlock apart: a deadlock would leave a request or a
tick unfinished and refute these two.

`SessionsSpec` assumes weak fairness of `Serve(c)` for each connection: the operating system
runs every thread of the server. It assumes nothing of clients, who may never send another
byte, and not that `routeMutex` is fair: `ClientsAreServed` allows an answer to wait for ever
only if another connection is handled again and again. A deadlock there cannot hide: a
connection that has connected or is ready would stay so and refute the property.

## 4. What is proved

Every theorem holds for all values of the constants that satisfy the `ASSUME` of the module
it is about. `PROJECT.json` lists them with the property each states; this section gives the
argument. Proofs have one step per action, over lemmas about the operators.

### `Induction`

TLAPS's library states induction for an operator parameter, which the provers here cannot
instantiate. `NatInductionOnSet` states it for a *set* of numbers, from the library's
well-foundedness of `<`: if 0 is in `P` and `n + 1` is whenever `n` is, all naturals are.
It is what the proofs below use about sums, the seeded users, parents in the heap and the
replay of stored trades, all of which are recursive *functions*. Recursive operators stay
out of reach. The module also holds the facts on sums over finite sets that portfolios and the
levels of the depth share: one term more (`SumWith`), another value of one term
(`SumChanged`), a sum of ones (`SumOfOnes`).

### `MatchingEngineProofs`: any number of threads

| theorem | statement |
|---|---|
| `EngineTypeOK`, `EngineRestingOrdersAreLive`, `EngineTradesWithinLimit` | `EngineSpec => []` the property of that name |
| `EngineTradesAddUp` | `EngineSpec => []TradesAddUp` |

Assumed: prices, quantities and timestamps are positive numbers, the opening price is a price.
None is inductive. `EngineInv` is `TypeOK`, live resting orders, and for each thread
`CallOK(t)`, which says what a call knows of its *own copies* at each point: the status of
the incoming order agrees with its fill, shares are left at `peek` and `pop`, the copied maker
is a live order of the other side and crosses. Since `CallOK` speaks of no shared state, no
step of another thread disturbs it; that is why these properties survive two calls in one
book and the ones below do not. `ReportInv` adds that what a call has reported and the match it is about
to report make up the fill of its order.

### `MatchingEngineProofs`: books in which no calls have met

| theorem | statement |
|---|---|
| `HistoryInvariant` | `HistorySpec => []HistoryInv` |
| `SharesLostOnlyWhereCallsMet` | `HistorySpec => []SharesConserved` |
| `PriorityHoldsWhereNoCallsMeet` | `HistorySpec => PriceTimePriority` |
| `ThrowsOnlyWhereCallsMet` | `HistorySpec => []NeverThrows` |
| `BookCrossedOnlyWhereCallsMet` | `HistorySpec => []BookUncrossed` |
| `DepthShownWhereNoCallsMeet` | `HistorySpec => []DepthShowsTheBook` |

There is no hypothesis on threads: any number of them work in any number of books, and the
theorems are about the books and calls that history says were left alone. Two calls that meet in
one book can violate each of the five properties, so that is as much as can be said. The invariant
has two parts.

* `HistoryBase` holds of every book. Every order in a heap, or in the hands of a call, is a copy
  of a submitted one that differs in its fills only (`CopiesOK`); tops are best; two calls inside
  one book are both `disturbed`, and the book of a disturbed call has `met` (`MeetingsOK`); and a call that is not disturbed still finds at `peek` and `pop` the heap it
  tested, with the order it copied on top (`FindsItsMaker`).
* `BookOK(s)`, for `s` outside `met`: bids are below asks; waiting orders wait once and under ids
  of their own, each with the shares no trade has taken (`WaitsInFull`); every limit order with
  shares left waits or is *in the hands of a call* (`NoneLost`, `InHand`); and `InCall` says of
  the one call that may be inside what its hands hold: the incoming order is in no book, the
  maker in none from its pop to its push-back, both lack the shares of the match until it is
  reported, and what `refill` and `rest` are about to push crosses nothing.

A step of another book changes nothing of this (`SameBookStaysOK`, `StepsElsewhere`); a step
of the only call is one lemma per action. Between calls nothing is in hand, so that
`NoneLost` and its converse make the heaps the bag of remainders that `SharesConserved` asks for
(`WaitingInQuiet`, `StandingWaits`).

`DepthShowsTheBook` follows from `BookOK` whenever no call is at work on the book. The keys of the
code's map are `Ranked`, a choice among sequences: `RankingExists` builds such a sequence for
any finite set of prices, one outermost price at a time, so that the choice is not an empty one
(`RankedRanks`). Its first price is that of the heap's top because tops are best
(`TopIsFirst`), a level counts each order once because orders wait once (`LevelShows`, with
`SumOfOnes`), and what is not shown lies beyond the tenth price of the ranking.

### `DataStructuresProofs`: any size, any elements, any memory

| theorem | statement |
|---|---|
| `HeapIsOrdered` | `HeapSpec => []HeapOrdered` |
| `HeapImplementsQueue` | `HeapSpec => ImplementsQueue`, the refinement of `PriorityQueueSpec` |
| `QueuesImplementTheirSpecification` | `ContainersSpec => QueuesAreFifo`, the refinement of `QueuesSpec` |
| `ListsAreSound` | `ContainersSpec => []ListsAreSequences` |
| `MapsAreSound` | `ContainersSpec => []MapsAreFunctions` |
| `SearchesAlwaysFind` | `SearchSpec => []SearchesFind` |

**The heap.** Assumed: the comparator is a strict weak order (`HeapAssumption`). The invariant
`AlmostOrdered` says which pairs may be out of order while an element is moving, and that the
children of the moving element never rank above its parent, so that one swap repairs a level.
For the refinement, `Items` is a count over the indices of the vector: a swap keeps it, so
the abstract step is the last one of a call and all others stutter; that the top is a best
element follows by induction over parents.

**Queues and lists.** Assumed (`ContainersAssumption`): memory is finite, and `Null` is neither
a cell nor a value. Neither property is inductive, since what a walk finds depends on
pointers that other objects might share. `FifoChains` therefore gives every queue a sequence
of cells, its *chain*: distinct cells, each linked to the next, from head to tail, as many as
the count says; no cell is on two chains, and a cell on none is free. A walk finds the chain
(`WalkIs`), so what waits is what the chain holds. `ListChains` says the same of lists, linked
both ways. Each method is a lemma about chains (`EnqueueAppends`, `RemoveNodeTurns`,
`PushFrontTurns`...): the object's chain gains or loses one cell at one place, and all others
keep theirs. A copy is a `clear` and one call per value; that it never runs out of cells, and
what it holds after `k` of them, is an induction over `k` (`CopyAssignCopies`,
`ListCopyCopies`). That no node leaks follows: a cell that is not free is on a chain.

**Hash maps.** Assumed: hashes are natural numbers, and `NoValue` is no value. `MapInv` says
that each map holds *some* function of keys (`Tables`): an entry stands in the chain its key
hashes to, no key has two, their pairs are the function, and the count is the size of its
domain. Lookups find what the function gives because they look in the one chain where it can
be. `operator[]` may rehash: the entries are listed each once (`EntriesAreListed`), and moving
the first `k` of them gives a table of their pairs, by induction over `k`; a copy likewise.

**Binary search.** Assumed: elements are totally ordered (`SearchingAssumption`). `SearchInv`
says that while the loop runs the target is between `low` and `high` or nowhere, and that
what is left is at most half of what was left at the last entry.

### `PortfolioManagerProofs`

| theorem | statement |
|---|---|
| `ManagerIsSound` | `PortfolioSpec => []ManagerInvariant` |
| `CashAndSharesAlwaysConserved` | `PortfolioSpec => []CashAndSharesConserved` |
| `AverageIsAlwaysWithinPricesPaid` | `PortfolioSpec => []AverageIsWithinPricesPaid` |
| `ProfitIsAlwaysAccountedFor` | `PortfolioSpec => []ProfitIsAccountedFor` |

Assumed: users, symbols and prices are finite sets (a sum needs an end, and an average
between the lowest and the highest price needs both). The number of trades is not bounded by
the argument. `ManagerInvariant` has four parts:

* types: what `applyTrade` leaves is a portfolio with fractions for averages and profit;
* `IsConserved`: cash sums to the users' starting balances and each symbol's shares to
  zero. A trade changes two entries of the sum, one up and one down; a user who trades with
  himself changes one, twice;
* `AveragesAreFair`: a user who was never short of a symbol holds it at an average between
  the bounds. The new average is a mean of the old and the price, weighed by quantities;
* `AllBooksBalance`: cash plus the cost of what is held equals the starting balance plus
  realized profit. Costs are quantity times average, that is, sums of fractions. The proof
  brings all of a portfolio's averages over *one* denominator `d`, so that the balance is an
  equation between integers (`BalanceOver`); a purchase has to change `d`, and the lemmas of
  "Common denominators" say that the balance survives it. Market prices do not enter, which is
  why the invariant holds at any; the profit that is shown adds the same market value on both
  sides.

`Fraction` divides by a greatest common divisor, so that equal fractions must be shown to be
equal *pairs*: `NumbersAreUnique` proves that a number has one form in lowest terms
(two forms divide each other's denominators).

### `SessionsProofs`: any number of connections, users, tokens and fields

| theorem | statement |
|---|---|
| `RequestsAreWhole` | `SessionsSpec => []WholeRequestsAreHandled` |
| `HandlersRunAlone` | `SessionsSpec => []HandlersAreAlone` |
| `SessionsTypeCorrect` | `SessionsSpec => []SessionsTypeOK` |
| `AccountsAlwaysAgree` | `SessionsSpec => []AccountsAgree` |
| `RowsAreAlwaysTheUsers` | `SessionsSpec => []RowsAreTheUsers` |
| `SessionsAlwaysKeepTheirUser` | `SessionsSpec => SessionsKeepTheirUser` |
| `BodiesAlwaysRead` | `BodySpec => []BodiesAreRead` |

Assumed: no connection is the value that stands for none, and the empty password is too
short. `SessionsInv` says of each connection what `handleClient` knows at that point (nothing
read yet, less than all of it read and not cut, all of it or cut), and of `routeMutex` that
its holder is the connection in its handler. `UsersInv` adds what AuthManager's four maps say
of one another, that the seeded users are among them, and of each row that it is of the user
who has its id *in the run that wrote it*, which across restarts is enough for seeded users
only. All handlers are one case, by a lemma on what each may do to accounts, sessions and rows
(`HandlerEffect`). The seeded accounts are proved to agree by induction over `SeedUsers`,
whatever they are.

What a handler reads of a body is a fact about positions. `PrefixReads` says where the first
quoted key and the first colon behind it are: the key is where it was written or, one field
earlier, a value of that name, and from both the next colon is the one that belongs to the
field. So of a body that breaks off after `n` tokens a field is read as written if `n` takes in
its value, and as empty otherwise.

### `MarketProofs`: any stocks, prices, regimes, events and caps

| theorem | statement |
|---|---|
| `MarketTypeCorrect`, `CandlesAreAlwaysSound`, `LevelsAlwaysStayApart`, `QuotesAreAlwaysConsistent`, `TicksAreAlwaysOfOneMarket` | `SimSpec => []` the property |
| `ClosedCandlesAlwaysStay` | `SimSpec => ClosedCandlesStay` |

Assumed: prices are at least one dollar, a chart holds at least the bars it is opened with, the
shocks of the graph are numbers. `MarketInv` says who holds `simMutex`; of every stock what the tick
may have left undone of it (a high below the price only between `SetPrice` and the next
step); that all stocks have been through the same number of ticks, those a running tick has
left through one less; that the drift of a tick comes of one regime and one prefix of the
events; and that what an answer has copied is still there unless a tick overtook it.

### `ServerProofs`: any customers, stocks, orders and start-up trades

| theorem | hypotheses | statement |
|---|---|---|
| `ServerTypeCorrect` | - | `ServerSpec => []ServerTypeOK`, overlap, failures and restarts included |
| `RowsAlwaysFollowTheirTrades` | saves do not fail | `ApartSpec => RowsFollowTheirTrades`, whenever the process is killed |
| `LedgerAlwaysExplainsPortfolios` | saves do not fail, no restart | `ApartSpec => []LedgerExplainsPortfolios` |

The composition reuses the engine's proofs: every step of the server is a step of `processOrder`
or leaves the engine alone, so that `EngineInv` and `ReportInv` are kept by citing their
lemmas. `ServerInv` adds which phase of the handler goes with which point of its call.
`ApartInv` adds that the trades of the handler's call are numbered without a gap from `Base`
on, that no stored trade has a number beyond the one being settled, and that all the settled
ones are stored. `LedgerInv` adds `Explained`: replaying the table up to that number gives
the portfolios, which are one trade ahead between `applyTrade` and `saveTrade`; they are
compared as `SamePosition`, leaving out the market prices that `MarkPortfolios` writes.
The hypotheses are those of the runs. Without them the statements are false: a restart starts
the numbers again over old rows, and a save that fails leaves a trade out of the table.

### What proving found

* The heap needs an *asymmetric* comparator and not only that incomparability is transitive:
  `<=` is transitive that way too, and no vector with two equal elements is in order by it.
* `LevelsStayApart` was first stated for prices of 2.50 on. At exactly 2.50 the best bid is
  rounded onto the price; the property now begins above.
* `RowsFollowTheirTrades` had been checked where handler and ticker never met in the engine
  for want of orders. It is false when they do (section 3), so it is now checked and proved
  for `ApartSpec`.
* `SharesConserved` once looked only at orders that were in a book, and held of one that lost
  every order. It now derives the contents of the book from what was submitted, cancelled and
  traded, and the proof needed to know what each call has in its hands.
* The facts about one caller turned out not to need a single caller, but a call that nobody
  disturbs in its own book, which is what the history variables record.
* `DepthShowsTheBook` used to say that every resting order is in a level. With more than ten
  prices on a side that is false, and the instance had two; it now says that an order is left
  out only beyond ten full levels.
* `SeedDefaultUsers` skips a seed that `registerUser` refuses, as the code does; the model had
  taken the seeds to be accepted.
* The sums and replays were recursive operators, and the walks, copies and rehashes folds
  over lambdas; they are recursive functions now, which TLC evaluates as well and the provers
  can reason about.
* Binary search was a recursive operator, and what its trace says a fact about its result. As
  a loop it has an invariant, and the halving is a statement about consecutive entries.
* `CallsActOnSequences` had left out what a move does to the two lists; it now includes moves,
  and is proved with them.

### Model-checked only

* `SortsSort`, `TraversalsVisitReachable`, `DijkstraIsShortest`: the modules they are about,
  `Sorting` and `Graph`, use recursive operators.
* `RequestsAnswered`, `TicksEnd`, `ClientsAreServed`: liveness, which TLAPS does not prove
  under fairness.
* The five claims of the repository that TLC refutes.

## 5. Not modelled, and why

`Stack` is a vector whose back is the top. SHA-256 is a pure function whose digits no
property tells apart: a hash stands for its password. `sqlite3.c`, by far the largest file of
the repository, is vendored. The frontend displays what it polls. `escapeString`, `trim`,
headers and JSON answers are formatting, as are the step logs of the graph algorithms; the
candle, trade and history routes and the canned answers of the assistant copy or format state
that other modules describe. Rounding of doubles is left out of portfolios: prices are
integers and averages exact fractions; the rounding to cents of the market maker's levels is
in `SeedLevels`. The width of `int` is left out, as no loop accumulates quantities.

`getStock` can find no stock and `userPortfolios` no user only for symbols and users that are
not listed; these early returns change no state and are the refusals of requests that are not
in `PostBody`. Registration is in `Sessions` and `PortfolioManager` and not in
`TradingServer`, whose customers all have a portfolio: the two share only `routeMutex` and
the table of orders. Candles are checked in `MarketSimulator` and the engine's side of a
tick in `TradingServer`; they are not composed, since what they share of a tick, the price
and `simMutex`, is in both.

## 6. Plan

Done: all components of the server but the vendored and the formatting ones are modelled;
of the 39 properties that passing runs check all but three safety properties, which are about
recursive algorithms, and three liveness properties are proved.

Left, in this order:

1. The sorts as loops over a stack of ranges, so that sortedness and stability have an invariant.
2. `dijkstra` as a state machine: that a vertex whose distance equals the least pair in the
   queue has its final distance is the invariant to prove.
3. Five levels of `seedLiquidity` on each side in `TradingServer`, and not one.
