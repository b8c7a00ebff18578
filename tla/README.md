# A TLA+ model of the Latinex mock exchange

Latinex is a mock stock exchange: traders log in over FIX, send orders, the
exchange matches them in one order book per symbol, answers with execution
reports, and publishes what happens as an ITCH data feed. This directory holds
TLA+ modules that model it, TLC configurations that check them on small
instances, and proofs of the most important facts that TLAPS checks for every
size of the system. `PROJECT.json` maps each definition to the lines it
models, and lists the hazards, the runs, the mutants and the theorems.

Contents: [the system](#the-system) · [the modules](#the-modules) ·
[what is abstracted](#what-is-abstracted) · [the runs](#the-runs) ·
[fairness](#fairness) · [proofs](#proofs) · [findings](#findings) ·
[not modelled](#not-modelled) · [plan](#plan)

## The system

The code proper is in `src/src`; `src/test` holds the tests, a client-side
order book and a trading bot. Two libraries that are not in the repository do
much of the work: liquibook (the matching engine, a book per symbol) and Fix8
(FIX sessions and their threads). Generated FIX classes (`Myfix_*`, `Perf_*`)
are most of the line count and carry no logic of the exchange.

```
 client --FIX--> LatinexSessionServer --add_order--> Market --> liquibook book
   ^                  |  ^ (thread per session)        |            |
   |                  |  subscribe/unsubscribe         | on_accept, on_fill ...
   +--exec. reports-- Order <--------------------------+------------+
                                                       |
                                 ITCH <--- DataFeed <--+
```

| Component | State | Operations | Interacts with |
|---|---|---|---|
| Market: books (`market.h`) | `books_`, `book_mutexes_`, `books_mutex_`, `addBooksAsNeeded` | `add_order`, `add_book`, `get_book`, `cancel_order`, `modify_order` | called by every session thread; calls liquibook |
| Market: callbacks (`market.h`) | listener lists | `on_accept`, `on_reject`, `on_fill`, `on_cancel`, `on_replace`, their rejections, `on_trade` | called by liquibook under the book's mutex; calls the orders, then the listeners |
| Order (`order.h/cpp`) | `leaves_qty_`, `history_`, `server_` | constructor and destructor, `on_submitted`, `on_accepted`, `on_filled`, ... | sends a report through `server_`, subscribes to it |
| Session (`server.h/cpp`) | `subscribed_orders_`, shared `exec_id_counter_` | NewOrderSingle handler, `subscribe`, `unsubscribe`, destructor | Fix8 reader thread; makes orders, calls the market |
| ExchangeServer (`exchange_server.h/cpp`) | `connectionThreads`, `shutting_down` | `run`, `server_process`, `add_book`, destructor | starts a thread per connection |
| DataFeed (`data_feed.h`) | `epoch_at_midnight_sec`, SoupBin server | `on_accept`, `on_fill`, `on_trade`, ... | listener of the market |
| ExchangeClient, LatinexSessionClient | `connection`, `shutting_down`, polling thread | `client_process`, `is_logged_in`, `send`, `send_order`, destructor | Fix8 client session, which connects to the server |
| Conversions (`latinex_config`) | none | `to_price`, `to_itch_price`, ... | order, feed |
| SoupItchFeedClient, LocalBook, trade bot (`test/`) | client-side book, best prices, count of orders | dispatch, add, remove, quote | reads the feed |

What makes each of them correct, and what makes that hard:

- **Market, books.** A book is created once; two threads are never in one book;
  an order that is accepted into a book is announced. Hard, because the map of
  books is read without a lock, the map of mutexes is filled without one, and a
  book can be found before its listeners are set.
- **Market, callbacks, and Order.** The exchange's count of open shares and the
  book's agree; shares are conserved; the history of an order makes sense; the
  client's last report is the truth. Hard, because liquibook matches first and
  calls back later, because an order is filled on the thread of the *other*
  side's session, and because reports are lost with the connection.
- **Session.** Orders and sessions point at each other with raw pointers while
  either may go first: nothing may point to what has been destroyed. ExecIDs
  are drawn by many threads and must be unique.
- **ExchangeServer and ExchangeClient.** Shutdown ends, joins every thread it
  started and dereferences nothing that is not there. Hard: the vector of
  threads is shared without a lock, the server's destructor waits for clients
  to leave by themselves, and a client's session may be lost and replaced
  between a test of it and its use.
- **DataFeed and its readers.** What a reader reconstructs is what the books
  are. Prices and timestamps survive the conversion. Hard at limits: a
  64-bit price goes into a 32-bit field; a day ends at midnight while threads
  of several books renew the one epoch they share.

## The modules

| Module | What it is |
|---|---|
| `MarketBooks` | The book registry of `market.h`, one action per access to shared state, by any number of threads |
| `MarketPromise` | The abstract specification of it: what a caller of the market may rely on, with no locks or maps |
| `Exchange` | An order's way through session, market, book, reports and feed: composes `server.cpp`, `market.h`, `order.cpp` and `data_feed.h` |
| `LatinexConfig` | The price conversions of `latinex_config.cpp`, as operators; `Exchange` publishes with them |
| `FeedReader` | `Exchange` together with a program that reads its feed: `soup_itch_feed_client.h`, `test/local_book.h`, `test/trade_bot.cpp` |
| `SessionLifetime` | The links between orders and sessions, one action per access to a link: `order.cpp`, `server.h`, `server.cpp` |
| `SessionLinks` | The abstract specification of it: an order is linked to an open session, and no session closes with orders linked to it |
| `ExchangeServer` | The server's own life: accepting connections, the threads of the connections, the destructor |
| `ExchangeClient` | `ExchangeServer` together with a program that has an `ExchangeClient`: sessions, polling thread, destructor |
| `FeedClock` | The stamps of the feed: `ns_since_midnight` and the epoch its callers share |
| `MC...` | Constants for TLC |
| `MarketBooksProofs`, `ExchangeProofs`, `ExchangeShareProofs`, `FeedReaderProofs`, `SessionLifetimeProofs`, `ExchangeServerProofs`, `ExchangeClientProofs`, `FeedClockProofs` | Theorems and proofs |

**`MarketBooks`.** `pc[t]` is where a thread is in `add_order` or `add_book`:
`get_book` (line 300, the unlocked find), `add_book` (271, the second unlocked
find), `may_create` (274, the test of `force` and `addBooksAsNeeded`), `thrown`
(275, the exception on its way to the handler, 238-242), `books_mutex` and
`link` (the locked part from 277), `wire` (284-286, one step per listener),
`mutex_entry` and `mutex_link` (287 and 228, `book_mutexes_[symbol]`: search,
then insert), `lock` (229) and `in_book` (230). So another thread may complete
the book, or switch `addBooksAsNeeded`, between any two steps of a refusal.
`books` and `wired` are the map and how many of a book's three listeners are
set. A mutex object is a number; `mutexOf` is what the map holds and `mine` is
the object a thread's reference names: two threads exclude each other only if
the objects are the same. A find that overlaps an insertion into the same
`std::map` is undefined behaviour in C++; the model lets it miss any key, and
see a key that is being inserted, and two overlapping insertions may keep
either node. So a result that holds in the model holds for these outcomes, not
for a corrupted tree. `asNeeded` is `addBooksAsNeeded`, which anybody may switch
at any time. Three variables are history: `raced` is set when a thread is about
to read a map while another builds a book, or when a call of `cancel_order` or
`modify_order`, which take no mutex, overlaps any other call; `early` and
`unmade` are the orders whose call began before their book was complete, and
those of them whose call has met `addBooksAsNeeded` false. What locks and
lookups are good for is stated "until `raced`".

**`MarketPromise`.** What a caller may rely on, in terms of a call of
`add_order` (`Ask`), the time its order is in the book (`Enter` to `Leave`) and
its answer (`outcome`); `onDemand` and `complete` are whether books are made on
demand and which symbols have one that announces what happens in it. A book
opens once and stays; an order enters a book only alone; it is answered `true`
only from inside. `false` may come late: it is promised only that the book was
not complete when the call began, and that books were not made on demand at
some moment of the call (`early`, `unmade`). `MarketBooks!KeepsPromise` is this
specification, up to the first race, under the refinement mapping given there.

**`Exchange`.** An order is a number and its fields are `form`. `handler[s]` is
where the thread of session `s` is: `get_book` (`add_order` up to its `try`),
`lock`, `match` (inside liquibook), `call` (making queued callbacks). The
callbacks of one match are separate steps, since several books run at once and
a connection can be lost between any two. `leaves` is `leaves_qty_` and `open`
is liquibook's own count, kept apart on purpose. `out.sent[s]` are the
execution reports of a session as its client has received them, `feed` the
ITCH messages with the price as `to_itch_price` makes it. `Disconnect`, which is
Fix8's, makes later sends fail; `CloseSession` enters `~LatinexSessionServer`,
`Unlink` takes the session from one of its living orders at a time while other
threads fill them, and `EndSession` leaves it. The link `server` says where the
reports of an order go and no more: the vector of a session, the destruction of
orders, and threads that overlap in either are `SessionLifetime`'s.

**`LatinexConfig`.** `Ratio` stands for 100 and `Half` for 2^31: the width of
the feed's price is a parameter, so that TLC sees prices that wrap with numbers
as small as 31. `to_itch_price` casts, then divides, as the code does.

**`FeedReader`.** `ReaderSpec` is `Exchange!Next` interleaved with a reader:
its feed thread takes one message after the other (`TakeAddOrder`,
`TakeOther`), its main thread calls `add_book` whenever it likes (`AddBook`).
`levels` are the bids and asks of each `LocalBook`, `bbos` what its listener
was told last. A message in a ticker the reader has not added throws on the
feed thread and ends it (`failed`).

**`SessionLifetime`.** One thread per session; `at[s]` is where it is in
`operator()(NewOrderSingle)`, in the callbacks of orders it met in a book, in
`~Order`, or in `~LatinexSessionServer`. Reading `server_`, dereferencing it,
reading the vector and writing it back are steps of their own, and a lost
update of the vector is possible. An order lives as long as a `shared_ptr` to it does: in
its handler, in a book, or among the book's callbacks. A use of a destroyed
object sets `misused`. `overlapped` is a history variable, set when two threads
change one session's links at once, or one sends through a session that is
being destroyed: nothing in the code prevents either.

**`SessionLinks`.** Open sessions, living orders, and the session each order
is linked to. `SessionLifetime!KeepsLinks` says that the code implements it
until threads overlap.

**`ExchangeServer`.** `acceptor` is where `message_thread` is in `run()`: `loop`
(line 33-36), `polled` (37), `emplace` (39), `sleep` (40), `ended`. The sleep
ends (`Wake`) whatever the new thread has done in it, so that `run()` may see
one connection twice and start a surplus thread, which blocks. `thread[t]`
is where the t-th thread of `server_process` is: `create` until it has its
connection (58-65), `serve` until its client has left (67-69), `ended`. Either
call of `create` may throw (`ProcessThrows`), which ends the program, as nothing
catches it. `dtor` follows the destructor line by line; `walk` is what its loop
has still to join, fixed when the loop begins. `vector` is `connectionThreads`:
destroying a thread in it that was not joined ends the program, as
`std::thread` does. `late` and `threw` are history variables: a thread was
started after that loop had begun, an exception has left `server_process`.

**`ExchangeClient`.** Some of the server's clients are the successive
connections (`Sessions`) of one program. `session` is what `session_ptr()`
returns, `connection` the pointer `client_process` copied once, `shut` the
program's sessions that are shut down. `poller` follows `client_process`:
`loop` (25-34), `test` (37), `logout` (39-44), `wait` (45-46), `stop` (49),
`ended`. The steps of Fix8 (`NewSession`, `ConnectSession`, `Lose`) may come
between any two of them. `program = "crashed"` is the use of a null pointer in line 37,
by a program destroyed before Fix8 has made its first session.
Every other step is one of the server, so that the two destructors, each
waiting for threads that wait for the other side, are in one model.

**`FeedClock`.** `at[t]` is where a thread is in `ns_since_midnight`: `read`
(55-57), `subtract` (58-59), `renew` (61-63), `store` (64-66), `send`. `epoch`
is shared; the subtraction is unsigned and of width `Width`. The wall clock runs
between any two steps and may be set back.

## What is abstracted

- *liquibook* is external. It is modelled as this code uses it: an inbound
  order is matched with the best resting order, best price first and the
  earlier one at equal prices, until nothing crosses; what is left rests;
  callbacks are queued meanwhile and made afterwards, acceptance first.
  `SessionLifetime` leaves quantities out: any orders of the book may be met,
  all but one of them filled.
- *Fix8* is external: a session handles one message at a time on its own
  thread, and `send` on a session that is down loses the message.
  `ReliableClientSession` has a null session until there is one, replaces a
  session that was shut down at any time or never, and its destructor ends what
  is left. The memory of a session that was replaced keeps the state the
  session ended with.
- `poll` and `create_server_instance` are taken to be "a connection waits on
  the listening socket" and "take one, or block". Nothing is assumed of the
  100 ms of line 40, except where a property says so: `VenueShutsDown` has
  `[]Prompt` (a thread has its connection when `run()` wakes) as a premise.
- Symbols, sessions and threads are model values; prices and quantities are
  small numbers. A missing Price is the greatest of `Prices`, as `Order::price`
  returns the greatest there is. Price 0 (a market order) and stop orders are
  left out: an order without a StopPx, for which `stop_price` also returns the
  greatest price, is taken not to be a stop order, which is the engine's to
  decide. `add_order` ignores TimeInForce, so there is nothing to model
  of it.
- `modify_order` passes neither a new size nor a new price on to the book, so
  only its callback is modelled. `on_cancel_requested` and
  `on_replace_requested` have no caller.
- In `Exchange` one callback is one step, `on_fill` with both orders' updates
  among them, and a link between order and session is set or cleared in one
  step; the races inside these are the subject of `SessionLifetime`.
- An order is added once in `Exchange`, by the handler that made it: nobody in
  the exchange adds one again. The unit test does (`test/exchange.cpp:67-72`),
  with an order of its own class; `MarketBooks`, which has no quantities, lets
  a refused order be added again.
- `SessionLifetime` leaves out the callbacks of an order from its own handler,
  which run on the thread of a session that is alive; it takes a set for
  the vector, since no order is subscribed twice.
- `Exchange` takes books as complete from the start, which is what
  `MarketBooks` says of a market whose books were added beforehand. The two
  modules meet there.
- A level of a `LocalBook` has no quantity: it is what was ever added at its
  price, and nothing reads it. The reader's two threads take each access to its
  maps in one step.
- A tick of `FeedClock` stands for a nanosecond, and the epoch, whole seconds
  in the code, is in ticks too.
- Bounds, all named: `MaxOrders`, `MaxRequests` (calls of cancel and modify,
  for the orders of `KeepOrders`), `Prices`, `Quantities`, `Messages` (what
  clients send), `MaxConnections` (of all clients), `MaxThreads` (of
  `server_process`), `Horizon` and `MaxSetBacks` (of the clock), and the sets of
  threads, sessions, orders, books and symbols.

## The runs

| Run | Instance | What it shows |
|---|---|---|
| `market_on_demand` | 2 threads, 2 symbols, 2 orders for one of them, books on demand switched at any time, cancels by one thread, fair | a book is created once and every call returns, whatever unlocked reads see; until calls race, mutual exclusion, announcements, refinement of `MarketPromise` |
| `market_unheard_order` | 2 threads, 2 symbols, 3 orders, no cancels | **violated**: an order accepted and never announced |
| `market_two_mutexes` | the same | **violated**: two threads in one book |
| `exchange` | 2 sessions, a book and an unlisted symbol, 2 orders, sizes 0, 1 and 2, one cancel or modification of either, a session lost at any time, fair | legal histories of orders, what clients know, shares conserved, announcements first, ExecIDs unique over threads that share no lock; every order settles, every lost session is destroyed |
| `exchange_feed_misses_matched` | 1 session, 2 orders | **violated**: the feed leaves the resting side of a trade open |
| `feed_reader` | 1 session, 3 orders, one cancel or modification, prices that fit the feed, are cut off by it and wrap in it | the reader's spread is the market's if prices fit; at prices that do not wrap it never takes the market for worse than it is; it counts every accepted order; book and order agree, with cancels and modifications |
| `feed_price_wraps` | 1 session, 2 orders, a price that wraps | **violated**: a reader takes a bid for worse than it is, though the feed could hold its price |
| `session_lifetime` | 2 sessions, 3 orders, 2 books, fair | nothing destroyed is used and both sides of each link agree until threads overlap; refinement of `SessionLinks`; handlers and destructors end |
| `client_and_server` | a program with 2 connections in turn, another client, 2 connections in all, 3 threads, either side destroyed at any time, fair | server: threads started before its loop are joined, nothing released is used, no thread outlives it, clients are served, its destructor returns if threads were prompt and clients leave. Client: a first login is seen, its destructor returns once there was a session |
| `server_late_connection` | 2 clients | **violated**: a thread that is not joined ends the program |
| `client_unconnected` | a program with 2 connections in turn | **violated**: a program that is destroyed before it had a session crashes |
| `feed_clock` | 2 threads, 2 books, 2 midnights, one setting back, fair | stamps are times of day of their readings and in order within a book and day; renewing the epoch ends |

Why the bounds are enough. In the registry every hazard involves two threads
on one symbol and one that relinks a map for another symbol: two threads and
two symbols contain them (`add_book` may be called for either), and where a
counterexample needs an order left over for a second round there are three. In
`exchange` an order may be filled wholly or in part by the other session's
thread, rejected by the book or refused by the market, cancelled, modified or
too late for either, while its owner's session is up, down, in its destructor
and gone; both threads contend for the one book. What takes three
orders, one that trades with two resting ones or is filled twice, is in
`feed_reader`, which checks the same counts, reports and histories. A session
may be lost in every state of both. For the reader, `Ratio` 2 and `Half` 8 make
4 and 6 exact, 7 cut off and 9 wrap (to a negative price); three orders put a
better, an equal and a worse price on one side in any order, or trade, and one
of them may be cancelled or modified. In `session_lifetime` one session can be
in its destructor while the other fills one of its orders and drops another. In
`client_and_server` any two of three clients connect, the program's two
connections or one of them and the stranger's, at every step of either
destructor, and the third thread is a late or a surplus one. In `feed_clock`
four ticks with a day of two put both threads on different sides of each of two
midnights. The theorems below do not depend on any bound.

`CHECK_DEADLOCK FALSE` in the runs of `Exchange` and `FeedReader`: the orders
are bounded by `MaxOrders` and every session may be gone, so the system may
really stop. So may `session_lifetime` (all sessions gone), `feed_clock` (at
its horizon the clock stands, though threads go on publishing), and the runs of
server and client (destructors done). The `market_*` runs check for deadlock: a
thread can always call `add_book`.

Every property of a passing run has a mutant in `PROJECT.json`: an operator
such as `EnterBookUnlocked` or `MatchToldFirst`, defined beside the action
it distorts the way a plausible mistake in that code would, under which TLC
finds the property violated. The mutants are used by nothing else.

## Fairness

`MarketBooks!FairSpec`: weak fairness of the steps of each thread that is
*inside* the market. A thread in `add_order` waits for nothing but mutexes, and
the scheduler runs it; nothing makes anybody call. Weak fairness is enough for
the mutexes here: runs are small enough that nobody is overtaken for ever
(each order is added once; `std::mutex` alone promises no fairness, and with an
unbounded supply of orders a thread might starve).

`Exchange!FairSpec`: weak fairness of each session's handler, for the same
reason, and of `CloseStep`: `server_process` polls `is_shutdown` every 100 ms
and then destroys the session object, whose destructor waits for nothing.
Nothing is assumed of clients: they need not send, log out or stay.

`SessionLifetime!FairSpec` and `FeedClock!FairSpec`: weak fairness of what a
thread does once it has begun. No client has to send an order, no session to
end, nobody to publish, and the clock may stand still. In `FeedClock` a renewed
epoch could be replaced for ever by a clock that is set back for ever;
`MaxSetBacks` bounds that.

`ExchangeClient!ClientFairSpec`: weak fairness of `run()`, of the threads of
`server_process`, of `client_process` and of each destructor once it was
called, and the server learns of sessions that are over (Fix8's timeouts and
the closed socket). Left open is whether Fix8 makes, loses and renews sessions,
and whether other clients come and leave; `poll` and `create_server_instance`
may throw at any time and need not. `VenueShutsDown` therefore has premises: the
ExchangeClient is destroyed; the others leave, as nothing asks them to go; and
every thread was prompt, that is, had its connection when `run()` woke. Without
the last, a surplus thread waits for a connection that never comes, and the
destructor for that thread. `ClientsServed` counts the end of `run()` by an
exception of `poll` as an end. `ClientEnds` is of programs that have had a
session, the others being `client_unconnected`'s.

## Proofs

`tlapm` checks every step of the eight proof modules; only the named assumptions
of the modules are used. Every invariant and every action property that a
passing run checks is a theorem, for every value of the constants; what is left
to TLC is liveness. Each invariant below is an inductive strengthening
of the ones the runs check, with one lemma for Init and one or more for Next.

The assumptions of `Exchange` are that `None`, which stands for "no message", "no server" and
"no symbol", is none of these (`ExchangeAssumption`, `NoneAssumption`), that
prices are positive and quantities natural numbers, that bounds are natural
numbers, and that `Ratio` and `Half` are positive. Nothing is assumed of how
many sessions, symbols or prices there are. The other modules name theirs in the
same way.

**Registry.** `TypeCorrect`, `BooksCreatedOnce`: for any threads, symbols and
orders, and any outcome of the racing lookups. Neither is inductive.
`CreationInv` adds that whoever links or wires a book holds `books_mutex_`,
that the book to be linked is absent, and that a book that is absent has no
listeners: since the second find (line 278) and the insertion are under one
lock, nobody else can insert in between. `TypeOK` needs it because "at most
three listeners" fails if a book is wired twice.

`MutexWorksUntilRace`, `AnnouncedUntilRace`, `PromiseKeptUntilRace`: everything
else the run checks of the registry but liveness. The invariant is `UntilRace == CreationInv /\ (raced \/ Quiet)`. `Quiet` says what
holds as long as no lookup has overlapped a creation: a book is complete, with
one mutex object, or its creator holds `books_mutex_`; every mutex reference is
to that one object; and an order whose call goes on to a refusal is among the
`unmade`. The first race only has to keep `CreationInv`. The refinement maps
each step to a step of `MarketPromise` or a stutter (`PromiseStep`). `WarmNeverRaces`, and with it `WarmBookExclusive` and
`WarmAddedIsHeard`: if every symbol has its book beforehand
(`Preloaded = Symbols`) and nobody calls `cancel_order` or `modify_order`,
`raced` stays false for ever. This is the positive side of the findings: adding
the books at startup cures all of them.

**Orders and sessions** (`SessionLifetimeProofs`). `NothingMisused`,
`LinksAlwaysAgree`, `LinksKept`, `TypeCorrect`, access by access, for any
sessions, orders and books. The proof has two layers. `RefInv`
holds whatever overlaps: it counts references, so that an order a thread may
still reach by a `shared_ptr` is alive, and one that is dying is reached by
nobody else. `LinkInv` adds `overlapped \/ Unshared`, where `Unshared` ties
vectors, pointers, the copy the destructor walks and the vectors that were read
and not yet written back to each other. Its step lemmas are about a thread
whose links nobody else works on, which is what `~overlapped'` gives.

**Reports, feed, histories** (`ExchangeProofs`). Three theorems about `Exchange`
for any sessions, symbols, prices, quantities and bounds. Under them are two
invariants. `SessionInv`: the thread of a session works on an order that is
linked to that session (`KnownOrder`), and on none once the session is being
destroyed. `BookInv`: one thread is in a book at a time (`Alone`); an order rests
in the book of its symbol, with shares left, and only once its own thread has
put it there (`Resting`); what is queued for the thread in a book is an
acceptance or a rejection first, then fills of its order with orders of that
book (`Queued`). None of these is inductive alone: the shape of the queue needs
that nobody else is in the book, and that an inbound order does not meet itself
needs `Resting`.
- `ReportsUnique`: every report carries an ExecID not above the shared counter,
  and each `Emit` takes the next one; `Told` covers every report the code sends.
- `FeedAnnounces`: the fields of an announcement, the price among them, are
  fields of the feed (`ItchPriceFits`: what `to_itch_price` returns fits 32 bits
  for every `Ratio` and `Half`), and an order with a fill in a queue was
  announced or has its acceptance before it in that queue.
- `HistoriesLegal`: `LegalHistory` says what may follow what, `Live` is the
  history of an order that is accepted and not cancelled. `HistoryInv` says how
  far the history of an order is at each place of its thread, and that
  everything resting, or met by a queued fill, is live, or its own thread is
  still there. So a fill that another session's thread reports never comes after
  a cancel or before the acceptance, also while its owner is being destroyed. `Writes`, `Tells` and `Asks` are
  the three ways a step writes histories: a thread's own, in callbacks, and a
  request's.

**Shares** (`ExchangeShareProofs`). The properties of quantities are sums: over
a queue of callbacks, over the feed, over the orders. `Total` is a fold of the
community modules; its lemmas (`TotalStep`, `TotalSplit`, `TotalSame`,
`TotalShifted`, ...) are shown for every finite set by the smallest subset they
could fail for (`SmallestSubset`), since an induction theorem with a predicate
as its parameter cannot be used here. From them come the sums the model needs:
one callback more at the end of a queue, one less at its head (`ToldAppended`,
`ToldTail`), one order's share or one message more (`ExecutedMore`,
`TradedGrows`).
- `CountsAgree`: `AgreeInv` adds to `LeavesAgree` that an order on its way to the
  book has all its shares in `leaves` and none in the book, and what a thread
  finds in its queue (`Owed`): the order a fill names is of the other side and in
  no thread's hands, an order to be rejected has no shares, one to be accepted
  has them all. That `leaves` is a natural number is part of it: a callback never
  takes more than is left.
- `SharesConserved`: `OnFill` adds the same number to a buyer's share, to a
  seller's and to the trades of the feed, for which the sides must differ
  (`Owed`) and both histories must go on (`HistoryInv`); no other step adds to
  any of them (`BalanceQuiet`, `BalanceAccepted`).
- `ClientsKnow`: not inductive, as the book is ahead of the reports during a
  match. `KnowsInv` says what the last report tells at every moment: `leaves`,
  that is the order's own count; `CountsAgree` makes it the book's as soon as
  the book is idle. `HeardTold` and `HeardStill` say that a report of an order
  is its owner's last on it, and that nobody else's report touches it.
- `TypesCorrect`: the type invariant, with the unsigned `leaves_qty_` among its
  conjuncts, follows from the others and from `NextArrivalType`.

**The feed and its reader** (`FeedReaderProofs`). `RoundTrip`: through both
conversions a price of `0 .. Half - 1` loses less than one feed price, and
nothing if it is representable. `OrdersAnnouncedOnce`: the `add_order` messages
of the feed are the accepted orders, one each, with their fields; a step is
either `Quiet` (it accepts and announces nobody) or the one acceptance of an
order whose history is `<<"Submitted">>`. `ReaderOnlyReads`:
`ReaderSpec => Spec`, so that all of the above holds behind the reader.
`ReaderInv` then says that the reader's count is the number of orders announced
in what it has taken, that, unless it has failed, its levels are the converted
prices of these orders, and that the best it was told is the best of its levels
(`BestStays`). For a reader that has caught up these are all accepted orders
(`SeenIsAccepted`), among them those resting in an idle book
(`RestingIsAccepted`), which gives `ReadersCount`, `SmallPricesOverstated` and
`ReadersKnowSpread`. `SmallPricesOverstated` is of resting orders below `Half`;
between that and `Half * Ratio`, the greatest price of the feed, `to_itch_price`
wraps and the statement fails (`feed_price_wraps`). `FeedNeverShort` is the other half of the third finding: the
feed is wrong of an order in one direction only. `FilledInv` bounds what was
reported as executed of an order by what the order was told, also while a match
is under way, and with the one announcement of each order what a reader computes
of it is at least `leaves`, which is at least what the book has open.

**Server and client.** `NoThreadLeft`, `EarlierThreadsJoined`,
`LiveServerUsed`: `ThreadsInv` keeps every started thread in
`connectionThreads` or among the joined, unless the program was ended;
`LoopInv` adds that only a late thread or an exception of `server_process` ends
the program, and, if there was no late thread, what the loop has achieved at
each point of the destructor. `TypeCorrect` rests on `ServeInv` (a client on the
socket or away is served by nobody).

`VenueImplementsServer`: `ClientSpec => Spec`, every behaviour of the
composition is one of the server with its clients; each step of Fix8 and of
the client is a step of a client of `ExchangeServer` or a stutter. So
`VenueSafe` and `ClientTypeCorrect` take over the server's theorems.

**Stamps.** `StampsAreTimesOfDay`, `StampsOrdered`, for any day, width,
horizon, threads and books. `StampInv` says that the epoch is always a
midnight, and that what was subtracted with success was the time of day of
its reading, whatever the epoch is now. `ReadingsInv` orders the readings of the
one thread that holds a book's mutex after the last message of that book.

Only model-checked: liveness (`CallsReturn`, `EveryOrderSettles`,
`LostSessionsEnd`, `CallsEnd`, `LoginSeen`, `ClientEnds`, `VenueShutsDown`,
`ClientsServed`), since TLAPS does not do ENABLED or fairness here.
That the code violates the six properties under [findings](#findings) is shown
by counterexamples of TLC.

## Findings

1. `market_unheard_order` (code bug): `add_book` puts a book into `books_`
   (line 282) before it sets the listeners (284-286). Another session's order
   finds it, is added and answered `true`, and is never announced: no report,
   no feed. The unit test expects one acceptance of each added order. The
   exchange server always creates books on demand.
2. `market_two_mutexes` (code bug): `book_mutexes_[symbol]` in `add_order`
   inserts without `books_mutex_` and races with the insertion in `add_book`.
   Two mutexes exist for one symbol and two sessions match in its book at once.
3. `exchange_feed_misses_matched` (documentation and code differ): the feed
   should keep track of all transactions, but an execution is published for the
   inbound order only.
4. `server_late_connection` (code bug): `run()` tests `shutting_down`, then adds
   a thread to `connectionThreads`; the destructor's loop may come in between,
   and destroying the thread object it has not joined ends the program.
5. `client_unconnected` (code bug): `client_process` uses `session_ptr()` in line
   37 without the test of line 27. A client that is destroyed before Fix8 has
   made its first session, as `test/fix.cpp:113-117` does, uses a null pointer.
6. `feed_price_wraps` (code bug): `to_itch_price` casts to 32 bits before it
   divides by 100. A price from 2147.483648 on, which the feed's four decimals
   could hold, wraps, although the comment above it (`latinex_config.cpp:46-49`)
   announces care; a reader then takes it for a much worse one.

Seen, and stated by no property as no document says otherwise: the reports of
dead orders carry a CumQty of everything (`quantity_ - leaves_qty_` with leaves
0), and a rejected order that is added again would have `leaves_qty_` wrap at
its first fill; cancel messages of the feed name no order; a message at midnight
is stamped as the end of the day before; `is_logged_in` stays with the first
session, so a login after a reconnection is not seen; an exception of
`create_server_instance` ends the program; a thread started for a connection
that another thread takes keeps the server's destructor waiting; the reader's
maps are shared by two threads without a lock. The properties of the runs name
these as exceptions where they touch them. The list of hazards has them all,
with a note at each that no property covers.

## Not modelled

- Generated FIX classes (`Myfix_*`, `Perf_*`) and the Fix8 sample programs
  (`harness.cpp`, `hftest.cpp`, `myfix.cpp`, ...): the former are the output of
  the Fix8 compiler, constructors and tables without logic of the exchange, the
  latter are not built by `CMakeLists.txt`. Together they are about 68,800 lines
  of implementation. The rest, some 1,800 lines of the exchange's own sources
  and a few hundred of its tests' feed client, is what the modules
  are about; the share of *all* lines that is mapped is small for that reason
  and cannot be otherwise.
- Logger and helper: log lines and the names of states. `market.cpp` is empty.
- The bytes of FIX, ITCH and SoupBin messages: only fields a property needs.
  The SoupBin server keeps the order of messages and is external, with its
  logins and connections.
- `to_price` and `to_long_double` round through `long double`, of which TLA+
  has no arithmetic.
- The BBO and depth listeners: the books are created as books that never
  call them.
- `remove_bid` and `remove_ask` of `LocalBook`, and its tick listeners: nothing
  calls them. `check_orders` of the bot: it compares `long double`s every 10 s.
- Memory corruption that follows a data race. `MarketBooks` and
  `SessionLifetime` give a race the outcomes they name, and claim nothing of the
  rest.

## Plan

The modules of the first plan are written. What is left, most valuable first:

1. `check_orders` as a third actor of `FeedReader`, sending what it decides
   through the session it is connected to.
2. An abstract specification of an order as its owner sees it, which `Exchange`
   implements: received, open with so many shares, done.
