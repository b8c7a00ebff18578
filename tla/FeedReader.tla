----------------------------- MODULE FeedReader -----------------------------
(***************************************************************************)
(* The exchange together with a program that reads its feed: the dispatch  *)
(* of SoupItchFeedClient, the MyDataFeedClient of test/fix.cpp and         *)
(* test/trade_bot.cpp, and the adding half of LocalBook (the removing half *)
(* has no caller).  The reader is connected before the first order, as in  *)
(* the tests, and its feed thread takes one message after another; the     *)
(* order of the messages is TCP's.                                         *)
(*                                                                         *)
(* A level of a LocalBook is known by its price: its quantity is what was  *)
(* added at it and tells nobody anything.                                  *)
(***************************************************************************)
EXTENDS Exchange

VARIABLES
  taken,   \* feed messages the reader has taken
  failed,  \* an exception has left the reader's feed thread
  added,   \* num_orders_added
  books,   \* tickers the reader has added a book for
  levels,  \* bids and asks of each LocalBook
  bbos     \* the best bid and ask the reader was told, 0 before that

readerVars == <<taken, failed, added, books, levels, bbos>>

Sides == {"bid", "ask"}

ReaderInit ==
  /\ Init
  /\ taken = 0
  /\ failed = FALSE
  /\ added = 0
  /\ books = {}
  /\ levels = [y \in Symbols |-> [d \in Sides |-> {}]]
  /\ bbos = [y \in Symbols |-> [d \in Sides |-> 0]]

(* The order of std::map<Price, Quantity, std::greater<Price>> for bids    *)
(* and of std::map<Price, Quantity> for asks.                              *)
First(d, p, others) ==
  \A q \in others : IF d = "bid" THEN p >= q ELSE p <= q

(* Mutant: every new level is announced as the best, whatever it is.       *)
AddLevelAlways(y, d, p) ==
  /\ levels' = [levels EXCEPT ![y][d] = @ \cup {p}]
  /\ bbos' = IF p \notin levels[y][d] THEN [bbos EXCEPT ![y][d] = p] ELSE bbos

(* add_bid, add_ask: a level that is new and comes first is the new best.  *)
AddLevel(y, d, p) ==
  /\ levels' = [levels EXCEPT ![y][d] = @ \cup {p}]
  /\ bbos' = IF p \notin levels[y][d] /\ First(d, p, levels[y][d])
             THEN [bbos EXCEPT ![y][d] = p]
             ELSE bbos

Take(m) ==
  /\ ~failed
  /\ taken < Len(feed)
  /\ m = feed[taken + 1]
  /\ taken' = taken + 1
  /\ UNCHANGED vars

(* onAddOrderWithMpid; get_book throws if add_book has not been called for *)
(* the ticker, and nothing on the way to the feed thread catches it.       *)
TakeAddOrder(m) ==
  /\ Take(m)
  /\ m.type = "add_order"
  /\ added' = added + 1
  /\ IF m.sym \in books
     THEN /\ AddLevel(m.sym, IF m.buy THEN "bid" ELSE "ask", from_itch_price(m.price))
          /\ UNCHANGED failed
     ELSE /\ failed' = TRUE
          /\ UNCHANGED <<levels, bbos>>
  /\ UNCHANGED books

(* Mutant: executions are counted as orders.                               *)
TakeOtherCounted(m) ==
  /\ Take(m)
  /\ m.type # "add_order"
  /\ added' = added + 1
  /\ UNCHANGED <<failed, books, levels, bbos>>

(* Every other message goes to a handler that does nothing.                *)
TakeOther(m) ==
  /\ Take(m)
  /\ m.type # "add_order"
  /\ UNCHANGED <<failed, added, books, levels, bbos>>

(* add_book, from the reader's main thread.                                *)
AddBook(y) ==
  /\ y \notin books
  /\ books' = books \cup {y}
  /\ UNCHANGED <<vars, taken, failed, added, levels, bbos>>

ReaderNext ==
  \/ Next /\ UNCHANGED readerVars
  \/ \E i \in DOMAIN feed : TakeAddOrder(feed[i]) \/ TakeOther(feed[i])
  \/ \E y \in Symbols : AddBook(y)

ReaderSpec == ReaderInit /\ [][ReaderNext]_<<vars, readerVars>>

-----------------------------------------------------------------------------
(* Properties.                                                             *)

(* The reader has seen everything there is to see of an idle market.       *)
CaughtUp == ~failed /\ taken = Len(feed) /\ \A y \in Symbols : ~Busy(y)

Side(o) == IF form[o].buy THEN "bid" ELSE "ask"

On(y, d) == {o \in resting[y] : Side(o) = d}

Accepted(o) == \E i \in DOMAIN history[o] : history[o][i] = "Accepted"

(* "client 2 should know the spread" (test/fix.cpp): in a book in which    *)
(* nothing has traded or was cancelled, and whose prices the feed can      *)
(* carry, the reader's best prices are those of the orders resting there,  *)
(* whichever order they came and were read in, and 0 if there are none.    *)
SpreadKnown ==
  CaughtUp =>
    \A y \in books, d \in Sides :
      (\A o \in OrderIds : Accepted(o) /\ form[o].sym = y =>
         o \in resting[y] /\ Representable(form[o].px)) =>
      IF On(y, d) = {}
      THEN bbos[y][d] = 0
      ELSE \E o \in On(y, d) :
             /\ bbos[y][d] = form[o].px
             /\ First(d, form[o].px, {form[q].px : q \in On(y, d)})

(* No resting order below a price of `limit' beats the best price of a     *)
(* reader that has caught up by as much as one price of the feed.          *)
NotUnderstated(limit) ==
  CaughtUp =>
    \A y \in books : \A o \in resting[y] :
      form[o].px < limit =>
        IF form[o].buy THEN form[o].px - bbos[y]["bid"] < Ratio
                       ELSE bbos[y]["ask"] <= form[o].px

(* Whatever was traded, cancelled or rounded, the reader never takes the   *)
(* market for worse than it is, as far as prices fit 32 bits before they   *)
(* are divided.                                                            *)
SmallPricesNotUnderstated == NotUnderstated(Half)

(* "ITCH prices are 32 bits [...] we have to carefully reduce precision"   *)
(* (latinex_config.cpp): the same for every price a feed price can stand   *)
(* for.                                                                    *)
PricesNotUnderstated == NotUnderstated(Half * Ratio)

(* "EXPECT_EQ(dataFeedClient.num_orders_added, 2)" (test/fix.cpp): a       *)
(* reader that has caught up has counted the orders the market accepted,   *)
(* matched or not, and no others.                                          *)
AddsCounted == CaughtUp => added = Cardinality({o \in OrderIds : Accepted(o)})
=============================================================================
