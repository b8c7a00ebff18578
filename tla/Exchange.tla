------------------------------ MODULE Exchange ------------------------------
(***************************************************************************)
(* An order's way through the exchange: the NewOrderSingle handler of a    *)
(* FIX session (src/src/server.cpp), Market::add_order and the callbacks   *)
(* of the market (src/src/market.h), the life cycle and the execution      *)
(* reports of latinex::Order (src/src/order.cpp), and the ITCH feed        *)
(* (src/src/data_feed.h).  Each session handles its messages one at a      *)
(* time, on a thread of its own.                                           *)
(*                                                                         *)
(* Books are complete from the start: how a book is found, created and     *)
(* locked is modelled in MarketBooks.  The matching engine is liquibook,   *)
(* which is not part of the source; it is modelled from its use here: one  *)
(* book per symbol, price then time priority, and callbacks that are       *)
(* queued while an order is matched and made afterwards, all under the     *)
(* mutex of the book.  px is what Order::price returns: an order without a *)
(* Price has the greatest price there is, max Prices.  Stop orders and     *)
(* market orders, whose price is 0, are left out.  An order is added once, *)
(* by the handler that made it; nobody in the exchange adds one again.     *)
(*                                                                         *)
(* An order's link to its session, server_, decides where its reports go.  *)
(* Links are set and cleared here as by threads that do not overlap; the   *)
(* vector subscribed_orders_ of a session, the destruction of orders and   *)
(* what overlapping threads do to both are modelled in SessionLifetime.    *)
(*                                                                         *)
(* cancel_order and modify_order have no caller in the exchange.  Code     *)
(* that holds the OrderPtr of the orders KeepOrders, as an order listener  *)
(* may, calls them while the book is idle.                                 *)
(***************************************************************************)
EXTENDS LatinexConfig, Sequences, FiniteSets, FiniteSetsExt

CONSTANTS
  Sessions,          \* FIX sessions, one LatinexSessionServer each
  Symbols,           \* symbols orders are sent for
  Listed,            \* symbols that have a book from the start
  AddBooksAsNeeded,  \* Market::addBooksAsNeeded
  Prices,            \* what price() may return
  Quantities,        \* OrderQty of an order
  MaxOrders,         \* bound: orders sent in a behaviour
  Messages,          \* bound: the NewOrderSingle messages clients send
  KeepOrders,        \* orders somebody else holds a shared_ptr to
  MaxRequests,       \* bound: calls of cancel_order and modify_order
  None

ASSUME ExchangeAssumption ==
  /\ Listed \subseteq Symbols
  /\ AddBooksAsNeeded \in BOOLEAN /\ KeepOrders \subseteq Nat
  /\ Prices \subseteq Nat \ {0} /\ Quantities \subseteq Nat
  /\ MaxOrders \in Nat /\ MaxRequests \in Nat
  /\ None \notin Sessions \cup Symbols

OrderIds == 1..MaxOrders

(* The fields of a NewOrderSingle and the session it came from.            *)
Forms == [owner : Sessions, sym : Symbols, buy : BOOLEAN,
          px : Prices, qty : Quantities]

ASSUME NoneAssumption == None \notin Forms

VARIABLES
  lastId,      \* orderIdSeed_
  form,        \* the message each order was made from
  leaves,      \* leaves_qty_
  history,     \* history_, without the descriptions
  server,      \* server_
  session,     \* "up", "down" (sends fail), "closing" (in its destructor), "gone"
  handler,     \* where the thread of each session is, and with which order
  resting,     \* orders in the book of each symbol
  arrived,     \* their time priority in the book
  open,        \* the book's own open quantity of each order
  callbacks,   \* callbacks the book has queued
  out,         \* exec_id_counter_ and the execution reports sent
  feed,        \* ITCH messages published
  requests     \* calls of cancel_order and modify_order so far

orderVars == <<form, leaves, history>>
sessionVars == <<server, session>>
bookVars == <<resting, arrived, open>>
vars == <<lastId, orderVars, sessionVars, handler, bookVars, callbacks, out,
          feed, requests>>

NoOrder == 0
Idle == [at |-> "idle", order |-> NoOrder]

Init ==
  /\ lastId = 0
  /\ form = [o \in OrderIds |-> None]
  /\ leaves = [o \in OrderIds |-> 0]
  /\ history = [o \in OrderIds |-> <<>>]
  /\ server = [o \in OrderIds |-> None]
  /\ session = [s \in Sessions |-> "up"]
  /\ handler = [s \in Sessions |-> Idle]
  /\ resting = [y \in Symbols |-> {}]
  /\ arrived = [o \in OrderIds |-> 0]
  /\ open = [o \in OrderIds |-> 0]
  /\ callbacks = [y \in Symbols |-> <<>>]
  /\ out = [execId |-> 0, sent |-> [s \in Sessions |-> <<>>]]
  /\ feed = <<>>
  /\ requests = 0

-----------------------------------------------------------------------------
(* Execution reports and feed messages.                                    *)

(* Mutant: ExecIDs are counted by each session.                            *)
EmitPerSession(w, o, type, status, left) ==
  LET s == server[o]
      report == [exec |-> Len(w.sent[s]) + 1, order |-> o, type |-> type,
                 status |-> status, leaves |-> left, cum |-> form[o].qty - left]
  IN  IF s = None \/ session[s] # "up" THEN w
      ELSE [w EXCEPT !.sent[s] = Append(@, report)]

(* build_execution_report with `left' as leaves_qty_, and server_->send.   *)
(* An order without a server makes no report; a session that is down loses *)
(* the report but uses up its ExecID.                                      *)
Emit(w, o, type, status, left) ==
  LET s == server[o]
      report == [exec |-> w.execId + 1, order |-> o, type |-> type,
                 status |-> status, leaves |-> left, cum |-> form[o].qty - left]
  IN  IF s = None THEN w
      ELSE [execId |-> w.execId + 1,
            sent |-> IF session[s] = "up"
                     THEN [w.sent EXCEPT ![s] = Append(@, report)]
                     ELSE w.sent]

Record(o, state) == history' = [history EXCEPT ![o] = Append(@, state)]

(* The ITCH messages of the feed, with the fields it sets.  on_fill names  *)
(* the inbound order only; the messages of on_cancel and on_replace are    *)
(* sent with nothing set.                                                  *)
Itch(type, o, y, n) == [type |-> type, order |-> o, sym |-> y, shares |-> n]

FeedAccept(o) ==
  <<[type |-> "add_order", order |-> o, sym |-> form[o].sym,
     shares |-> form[o].qty, buy |-> form[o].buy,
     price |-> to_itch_price(form[o].px)]>>
FeedFill(o, n) == <<Itch("order_executed", o, form[o].sym, n)>>
FeedTrade(y, n) == <<Itch("trade", NoOrder, y, n)>>
FeedCancel == <<Itch("order_cancel", NoOrder, None, 0)>>
FeedReplace == <<Itch("order_replace", NoOrder, None, 0)>>

-----------------------------------------------------------------------------
(* A session receives an order.                                            *)

(* Order::Order, on_fix_server_changed(&server).                           *)
NewOrderSingle(s, f) ==
  LET o == lastId + 1
  IN  /\ f \in Messages
      /\ session[s] = "up"
      /\ handler[s].at = "idle"
      /\ f.owner = s
      /\ lastId < MaxOrders
      /\ lastId' = o
      /\ form' = [form EXCEPT ![o] = f]
      /\ leaves' = [leaves EXCEPT ![o] = f.qty]
      /\ server' = [server EXCEPT ![o] = s]
      /\ handler' = [handler EXCEPT ![s] = [at |-> "get_book", order |-> o]]
      /\ UNCHANGED <<history, session, bookVars, callbacks, out, feed, requests>>

HasBook(y) == y \in Listed \/ AddBooksAsNeeded

(* add_order up to the book's mutex: on_submitted.                         *)
Submit(s) ==
  LET o == handler[s].order
  IN  /\ handler[s].at = "get_book"
      /\ HasBook(form[o].sym)
      /\ Record(o, "Submitted")
      /\ out' = Emit(out, o, "NEW", "PENDING_NEW", leaves[o])
      /\ handler' = [handler EXCEPT ![s].at = "lock"]
      /\ UNCHANGED <<lastId, form, leaves, sessionVars, bookVars, callbacks,
                     feed, requests>>

(* on_rejected("Invalid Symbol"); add_order returns false, and the order   *)
(* is unlinked from its session.                                           *)
Refuse(s) ==
  LET o == handler[s].order
  IN  /\ handler[s].at = "get_book"
      /\ ~HasBook(form[o].sym)
      /\ Record(o, "Rejected")
      /\ leaves' = [leaves EXCEPT ![o] = 0]
      /\ out' = Emit(out, o, "REJECTED", "REJECTED", 0)
      /\ server' = [server EXCEPT ![o] = None]
      /\ handler' = [handler EXCEPT ![s] = Idle]
      /\ UNCHANGED <<lastId, form, session, bookVars, callbacks, feed, requests>>

-----------------------------------------------------------------------------
(* book.add.                                                               *)

InBook(s, y) == /\ handler[s].at \in {"match", "call"}
                /\ form[handler[s].order].sym = y

Busy(y) == \E s \in Sessions : InBook(s, y)

Callback(kind, o, other, n) ==
  [kind |-> kind, order |-> o, other |-> other, qty |-> n]

(* Mutants: the book is entered without its mutex; a thread whose session  *)
(* is lost gives up before it has entered.                                 *)
EnterBookUnlocked(s) ==
  LET o == handler[s].order
      f == form[o]
  IN  /\ handler[s].at = "lock"
      /\ open' = [open EXCEPT ![o] = f.qty]
      /\ callbacks' = [callbacks EXCEPT ![f.sym] =
           <<Callback(IF f.qty = 0 THEN "reject" ELSE "accept", o, NoOrder, 0)>>]
      /\ handler' = [handler EXCEPT ![s].at = IF f.qty = 0 THEN "call" ELSE "match"]
      /\ UNCHANGED <<lastId, orderVars, sessionVars, resting, arrived, out, feed,
                     requests>>

EnterBookIfUp(s) ==
  /\ handler[s].at = "lock"
  /\ session[s] = "up"
  /\ ~Busy(form[handler[s].order].sym)
  /\ EnterBookUnlocked(s)

(* The mutex is taken; an order without shares is not matched.             *)
EnterBook(s) ==
  LET o == handler[s].order
      f == form[o]
  IN  /\ handler[s].at = "lock"
      /\ ~Busy(f.sym)
      /\ open' = [open EXCEPT ![o] = f.qty]
      /\ callbacks' = [callbacks EXCEPT ![f.sym] =
           <<Callback(IF f.qty = 0 THEN "reject" ELSE "accept", o, NoOrder, 0)>>]
      /\ handler' = [handler EXCEPT ![s].at = IF f.qty = 0 THEN "call" ELSE "match"]
      /\ UNCHANGED <<lastId, orderVars, sessionVars, resting, arrived, out, feed,
                     requests>>

Crosses(o, r) ==
  /\ form[o].buy # form[r].buy
  /\ IF form[o].buy THEN form[o].px >= form[r].px ELSE form[o].px <= form[r].px

Crossing(o) == {r \in resting[form[o].sym] : Crosses(o, r)}

(* r is matched before q: its price is better, or it was there first.      *)
Before(r, q) ==
  \/ IF form[r].buy THEN form[r].px > form[q].px ELSE form[r].px < form[q].px
  \/ form[r].px = form[q].px /\ arrived[r] < arrived[q]

(* Match with the parts its mutants change: what is traded, what stays in  *)
(* the book and where the callback is queued.                              *)
MatchWith(s, r, n, left, queue) ==
  LET o == handler[s].order
      y == form[o].sym
  IN  /\ handler[s].at = "match"
      /\ r \in Crossing(o)
      /\ \A q \in Crossing(o) \ {r} : Before(r, q)
      /\ open' = [open EXCEPT ![o] = @ - n, ![r] = @ - n]
      /\ resting' = [resting EXCEPT ![y] = left]
      /\ callbacks' = [callbacks EXCEPT ![y] = queue]
      /\ handler' = [handler EXCEPT ![s].at = IF open[o] = n THEN "call" ELSE @]
      /\ UNCHANGED <<lastId, orderVars, sessionVars, arrived, out, feed, requests>>

Smaller(a, b) == IF a < b THEN a ELSE b

(* Mutants: a match takes more than the resting order has; the fill is     *)
(* queued before the acceptance.                                           *)
MatchOverfill(s, r) ==
  LET o == handler[s].order
      y == form[o].sym
  IN  MatchWith(s, r, open[o], resting[y] \ {r},
                Append(callbacks[y], Callback("fill", o, r, open[o])))

MatchToldFirst(s, r) ==
  LET o == handler[s].order
      y == form[o].sym
      n == Smaller(open[o], open[r])
  IN  MatchWith(s, r, n, IF open[r] = n THEN resting[y] \ {r} ELSE resting[y],
                <<Callback("fill", o, r, n)>> \o callbacks[y])

(* One match of the inbound order with the best resting one.               *)
Match(s, r) ==
  LET o == handler[s].order
      y == form[o].sym
      n == Smaller(open[o], open[r])
  IN  MatchWith(s, r, n, IF open[r] = n THEN resting[y] \ {r} ELSE resting[y],
                Append(callbacks[y], Callback("fill", o, r, n)))

NextArrival(y) == Max({arrived[r] : r \in resting[y]} \cup {0}) + 1

(* What is left of the order stays in the book.                            *)
Rest(s) ==
  LET o == handler[s].order
      y == form[o].sym
  IN  /\ handler[s].at = "match"
      /\ Crossing(o) = {}
      /\ resting' = [resting EXCEPT ![y] = @ \cup {o}]
      /\ arrived' = [arrived EXCEPT ![o] = NextArrival(y)]
      /\ handler' = [handler EXCEPT ![s].at = "call"]
      /\ UNCHANGED <<lastId, orderVars, sessionVars, open, callbacks, out, feed,
                     requests>>

-----------------------------------------------------------------------------
(* The queued callbacks, made by the thread that holds the book's mutex:   *)
(* Market::on_..., then the order's, then the feed's.                      *)

Calling(s, kind) ==
  LET y == form[handler[s].order].sym
  IN  /\ handler[s].at = "call"
      /\ callbacks[y] # <<>>
      /\ Head(callbacks[y]).kind = kind
      /\ callbacks' = [callbacks EXCEPT ![y] = Tail(@)]

OnAccept(s) ==
  LET o == handler[s].order
  IN  /\ Calling(s, "accept")
      /\ Record(o, "Accepted")
      /\ out' = Emit(out, o, "PENDING_NEW", "NEW", leaves[o])
      /\ feed' = feed \o FeedAccept(o)
      /\ UNCHANGED <<lastId, form, leaves, sessionVars, handler, bookVars, requests>>

OnReject(s) ==
  LET o == handler[s].order
  IN  /\ Calling(s, "reject")
      /\ Record(o, "Rejected")
      /\ leaves' = [leaves EXCEPT ![o] = 0]
      /\ out' = Emit(out, o, "REJECTED", "REJECTED", 0)
      /\ UNCHANGED <<lastId, form, sessionVars, handler, bookVars, feed, requests>>

(* Mutant: an order is never reported as filled.                           *)
FillStatusPartial(left) == IF left >= 0 THEN "PARTIALLY_FILLED" ELSE "FILLED"

FillStatus(left) == IF left > 0 THEN "PARTIALLY_FILLED" ELSE "FILLED"

(* Order::on_filled: always State::Filled, the status tells partial fills. *)
OnFilled(w, o, left) == Emit(w, o, "TRADE", FillStatus(left), left)

(* Mutants: the matched order is not told; the feed publishes what is left *)
(* of the inbound order as the shares of the trade.                        *)
OnFillInboundOnly(s) ==
  LET o == handler[s].order
      y == form[o].sym
      n == Head(callbacks[y]).qty
      lo == leaves[o] - n
  IN  /\ Calling(s, "fill")
      /\ leaves' = [leaves EXCEPT ![o] = lo]
      /\ Record(o, "Filled")
      /\ out' = OnFilled(out, o, lo)
      /\ feed' = feed \o FeedFill(o, n) \o FeedTrade(y, n)
      /\ UNCHANGED <<lastId, form, sessionVars, handler, bookVars, requests>>

OnFillTradesLeft(s) ==
  LET o == handler[s].order
      y == form[o].sym
      r == Head(callbacks[y]).other
      n == Head(callbacks[y]).qty
      lo == leaves[o] - n
      lr == leaves[r] - n
  IN  /\ Calling(s, "fill")
      /\ leaves' = [leaves EXCEPT ![o] = lo, ![r] = lr]
      /\ history' = [history EXCEPT ![o] = Append(@, "Filled"),
                                    ![r] = Append(@, "Filled")]
      /\ out' = OnFilled(OnFilled(out, o, lo), r, lr)
      /\ feed' = feed \o FeedFill(o, n) \o FeedTrade(y, leaves[o])
      /\ UNCHANGED <<lastId, form, sessionVars, handler, bookVars, requests>>

(* on_filled of both orders; on_fill of the feed, which reports the        *)
(* inbound order only; then on_trade.                                      *)
OnFill(s) ==
  LET o == handler[s].order
      y == form[o].sym
      r == Head(callbacks[y]).other
      n == Head(callbacks[y]).qty
      lo == leaves[o] - n
      lr == leaves[r] - n
  IN  /\ Calling(s, "fill")
      /\ leaves' = [leaves EXCEPT ![o] = lo, ![r] = lr]
      /\ history' = [history EXCEPT ![o] = Append(@, "Filled"),
                                    ![r] = Append(@, "Filled")]
      /\ out' = OnFilled(OnFilled(out, o, lo), r, lr)
      /\ feed' = feed \o FeedFill(o, n) \o FeedTrade(y, n)
      /\ UNCHANGED <<lastId, form, sessionVars, handler, bookVars, requests>>

(* The callbacks are made and forgotten, add_order unlocks the book and    *)
(* returns true.                                                           *)
Finish(s) ==
  /\ handler[s].at = "call"
  /\ callbacks[form[handler[s].order].sym] = <<>>
  /\ handler' = [handler EXCEPT ![s] = Idle]
  /\ UNCHANGED <<lastId, orderVars, sessionVars, bookVars, callbacks, out, feed,
                 requests>>

-----------------------------------------------------------------------------
(* Market::cancel_order and modify_order by whoever keeps the order.       *)

Request(o) ==
  /\ o \in KeepOrders
  /\ requests < MaxRequests
  /\ requests' = requests + 1
  /\ o <= lastId
  /\ \E i \in DOMAIN history[o] : history[o][i] = "Accepted"
  /\ ~Busy(form[o].sym)

(* The book gives the order up; on_cancelled; the feed publishes a message *)
(* with nothing in it.                                                     *)
CancelOrder(o) ==
  LET y == form[o].sym
  IN  /\ Request(o)
      /\ o \in resting[y]
      /\ resting' = [resting EXCEPT ![y] = @ \ {o}]
      /\ open' = [open EXCEPT ![o] = 0]
      /\ leaves' = [leaves EXCEPT ![o] = 0]
      /\ Record(o, "Cancelled")
      /\ out' = Emit(out, o, "CANCELED", "CANCELED", 0)
      /\ feed' = feed \o FeedCancel
      /\ UNCHANGED <<lastId, form, sessionVars, handler, arrived, callbacks>>

(* modify_order passes no new size or price to replace.  Whether the order *)
(* keeps its place in the book is the book's affair.                       *)
ModifyOrder(o) ==
  LET y == form[o].sym
  IN  /\ Request(o)
      /\ o \in resting[y]
      /\ arrived' \in {arrived, [arrived EXCEPT ![o] = NextArrival(y)]}
      /\ Record(o, "Modified")
      /\ out' = Emit(out, o, "REPLACED", "REPLACED", leaves[o])
      /\ feed' = feed \o FeedReplace
      /\ UNCHANGED <<lastId, form, leaves, sessionVars, handler, resting, open,
                     callbacks>>

(* on_cancel_reject, on_replace_reject: the book does not have the order.  *)
RequestRejected(o, state) ==
  /\ Request(o)
  /\ o \notin resting[form[o].sym]
  /\ Record(o, state)
  /\ out' = Emit(out, o, "REJECTED", "REJECTED", leaves[o])
  /\ UNCHANGED <<lastId, form, leaves, sessionVars, handler, bookVars, callbacks,
                 feed>>

-----------------------------------------------------------------------------
(* The end of a session.                                                   *)

(* The connection is lost or the client logs out: sends fail from here on. *)
Disconnect(s) ==
  /\ session[s] = "up"
  /\ session' = [session EXCEPT ![s] = "down"]
  /\ UNCHANGED <<lastId, orderVars, server, handler, bookVars, callbacks, out,
                 feed, requests>>

(* Mutant: a session is not destroyed before its orders are done.          *)
CloseSessionWhenDone(s) ==
  /\ session[s] = "down"
  /\ handler[s].at = "idle"
  /\ \A o \in OrderIds : server[o] # s
  /\ session' = [session EXCEPT ![s] = "closing"]
  /\ UNCHANGED <<lastId, orderVars, server, handler, bookVars, callbacks, out,
                 feed, requests>>

(* server_process has stopped the session and enters its destructor.       *)
CloseSession(s) ==
  /\ session[s] = "down"
  /\ handler[s].at = "idle"
  /\ session' = [session EXCEPT ![s] = "closing"]
  /\ UNCHANGED <<lastId, orderVars, server, handler, bookVars, callbacks, out,
                 feed, requests>>

(* Somebody has a shared_ptr to the order: its handler, a book, the book's *)
(* callbacks or whoever keeps it.                                          *)
Alive(o) ==
  \/ o \in KeepOrders
  \/ \E s \in Sessions : handler[s].order = o
  \/ \E y \in Symbols :
       \/ o \in resting[y]
       \/ \E i \in DOMAIN callbacks[y] :
            o \in {callbacks[y][i].order, callbacks[y][i].other}

(* ~LatinexSessionServer: the orders that are alive are told, one by one;  *)
(* they stay in the market without a server.                               *)
Unlink(s, o) ==
  /\ session[s] = "closing"
  /\ server[o] = s
  /\ Alive(o)
  /\ server' = [server EXCEPT ![o] = None]
  /\ UNCHANGED <<lastId, orderVars, session, handler, bookVars, callbacks, out,
                 feed, requests>>

EndSession(s) ==
  /\ session[s] = "closing"
  /\ \A o \in OrderIds : server[o] = s => ~Alive(o)
  /\ session' = [session EXCEPT ![s] = "gone"]
  /\ UNCHANGED <<lastId, orderVars, server, handler, bookVars, callbacks, out,
                 feed, requests>>

-----------------------------------------------------------------------------
HandlerStep(s) ==
  \/ Submit(s) \/ Refuse(s)
  \/ EnterBook(s) \/ (\E r \in OrderIds : Match(s, r)) \/ Rest(s)
  \/ OnAccept(s) \/ OnReject(s) \/ OnFill(s) \/ Finish(s)

CloseStep(s) ==
  CloseSession(s) \/ (\E o \in OrderIds : Unlink(s, o)) \/ EndSession(s)

Next ==
  \/ \E s \in Sessions :
       \/ \E f \in Forms : NewOrderSingle(s, f)
       \/ HandlerStep(s)
       \/ Disconnect(s) \/ CloseStep(s)
  \/ \E o \in OrderIds :
       \/ CancelOrder(o) \/ RequestRejected(o, "CancelRejected")
       \/ ModifyOrder(o) \/ RequestRejected(o, "ModifyRejected")

Spec == Init /\ [][Next]_vars

(* A thread in a handler keeps running; server_process polls for the end   *)
(* of its session every 100 ms, and a destructor it enters keeps running.  *)
FairSpec == Spec /\ \A s \in Sessions : /\ WF_vars(HandlerStep(s))
                                        /\ WF_vars(CloseStep(s))
-----------------------------------------------------------------------------
(* Properties.                                                             *)

States == {"Submitted", "Rejected", "Accepted", "Modified", "ModifyRejected",
           "Filled", "Cancelled", "CancelRejected"}

ExecTypes == {"NEW", "PENDING_NEW", "REJECTED", "TRADE", "CANCELED", "REPLACED"}

OrdStatuses == {"NEW", "PENDING_NEW", "REJECTED", "PARTIALLY_FILLED", "FILLED",
                "CANCELED", "REPLACED"}

Reports == [exec : Nat, order : OrderIds, type : ExecTypes, status : OrdStatuses,
            leaves : Int, cum : Int]

CallbackRecords ==
  [kind : {"accept", "reject", "fill"}, order : OrderIds,
   other : OrderIds \cup {NoOrder}, qty : Nat]

FeedMessages ==
  [type : {"add_order"}, order : OrderIds, sym : Symbols,
   shares : Nat, buy : BOOLEAN, price : -Half .. Half - 1]
  \cup
  [type : {"order_executed", "trade", "order_cancel", "order_replace"},
   order : OrderIds \cup {NoOrder}, sym : Symbols \cup {None}, shares : Nat]

(* Every variable has its type; in particular a quantity never runs below  *)
(* zero, where the unsigned leaves_qty_ would wrap.                        *)
TypeOK ==
  /\ lastId \in 0..MaxOrders
  /\ form \in [OrderIds -> Forms \cup {None}]
  /\ leaves \in [OrderIds -> Nat]
  /\ history \in [OrderIds -> Seq(States)]
  /\ server \in [OrderIds -> Sessions \cup {None}]
  /\ session \in [Sessions -> {"up", "down", "closing", "gone"}]
  /\ handler \in [Sessions -> [at : {"idle", "get_book", "lock", "match", "call"},
                               order : OrderIds \cup {NoOrder}]]
  /\ resting \in [Symbols -> SUBSET OrderIds]
  /\ arrived \in [OrderIds -> Nat]
  /\ open \in [OrderIds -> Nat]
  /\ callbacks \in [Symbols -> Seq(CallbackRecords)]
  /\ out.execId \in Nat
  /\ out.sent \in [Sessions -> Seq(Reports)]
  /\ feed \in Seq(FeedMessages)
  /\ requests \in 0..MaxRequests

Known(o) == form[o] # None

(* The order has got as far as its book.                                   *)
Entered(o) ==
  /\ Known(o)
  /\ \A s \in Sessions : handler[s].order = o => handler[s].at \in {"match", "call"}

Total(f, S) == MapThenSumSet(LAMBDA i : f[i], S)

(* Shares a callback will tell order o that it has traded.                 *)
FillOf(c, o) == IF c.kind = "fill" /\ o \in {c.order, c.other} THEN c.qty ELSE 0

ToldBy(cb, o) == Total([i \in DOMAIN cb |-> FillOf(cb[i], o)], DOMAIN cb)

(* Shares the book has matched for o and not told it yet.                  *)
Untold(o) == ToldBy(callbacks[form[o].sym], o)

(* The exchange's count and the book's never drift apart: leaves_qty_ is   *)
(* the open quantity in the book plus what callbacks still have to report, *)
(* through partial fills, rejections and cancels alike.                    *)
LeavesAgree ==
  \A o \in OrderIds : Entered(o) => leaves[o] = open[o] + Untold(o)

(* Two execution reports never have the same ExecID, on whichever sessions *)
(* and by whichever threads they are sent.                                 *)
ExecIdsUnique ==
  \A s, t \in Sessions :
    \A i \in DOMAIN out.sent[s], j \in DOMAIN out.sent[t] :
      out.sent[s][i].exec = out.sent[t][j].exec => s = t /\ i = j

ReportsOn(o) ==
  LET s == form[o].owner
  IN  {i \in DOMAIN out.sent[s] : out.sent[s][i].order = o}

LastReport(o) == out.sent[form[o].owner][Max(ReportsOn(o))]

(* A client that has stayed connected knows its order as the book does:    *)
(* outside callbacks the last execution report has the quantity that is    *)
(* open, and a status that fits it, whichever session's thread sent it.    *)
ClientKnows ==
  \A o \in OrderIds :
    (Entered(o) /\ session[form[o].owner] = "up" /\ ~Busy(form[o].sym)) =>
      LET last == LastReport(o)
      IN  /\ last.leaves = open[o]
          /\ last.status = "NEW" => open[o] = form[o].qty
          /\ last.status = "PARTIALLY_FILLED" => open[o] \in 1..form[o].qty - 1
          /\ last.status \in {"FILLED", "CANCELED"} => open[o] = 0

(* What an order's history tells: it is submitted before it is accepted,   *)
(* accepted before it is filled, though another session's thread may fill  *)
(* it, and nothing but a refused request follows its end.                  *)
HistoryLegal ==
  \A o \in OrderIds :
    LET h == history[o]
    IN  \A i \in DOMAIN h :
          /\ h[i] = "Submitted" <=> i = 1 /\ h[1] # "Rejected"
          /\ h[i] = "Accepted" => i = 2
          /\ i > 2 => h[2] = "Accepted"
          /\ h[i] \in {"Rejected", "Cancelled"} =>
               \A j \in i + 1 .. Len(h) : h[j] \in {"CancelRejected", "ModifyRejected"}

TradeOf(m, y) == IF m.type = "trade" /\ m.sym = y THEN m.shares ELSE 0

TradedIn(f, y) == Total([i \in DOMAIN f |-> TradeOf(f[i], y)], DOMAIN f)

Traded(y) == TradedIn(feed, y)

(* The order got to the market and was not rejected.                       *)
Counts(o, y, buy) ==
  /\ Known(o)
  /\ form[o].sym = y /\ form[o].buy = buy
  /\ history[o] # <<>>
  /\ history[o][Len(history[o])] # "Rejected"

Share(o, y, buy) == IF Counts(o, y, buy) THEN form[o].qty - leaves[o] ELSE 0

Executed(y, buy) == Total([o \in OrderIds |-> Share(o, y, buy)], OrderIds)

(* Shares are conserved: what the buyers of a symbol got, what its sellers *)
(* gave and what the feed published as trades are the same number.         *)
(* (Cancelled orders do not tell what they executed.)                      *)
SharesBalance ==
  \A y \in Symbols : requests = 0 =>
    /\ Executed(y, TRUE) = Executed(y, FALSE)
    /\ Executed(y, TRUE) = Traded(y)

(* The feed announces an order before it reports an execution of it.       *)
AnnouncedFirst ==
  \A i \in DOMAIN feed : feed[i].type = "order_executed" =>
    \E j \in 1 .. i - 1 : feed[j].type = "add_order" /\ feed[j].order = feed[i].order

(* The order has come to its end: it was rejected, or all of it was filled *)
(* or cancelled.                                                           *)
Done(o) ==
  /\ leaves[o] = 0 /\ open[o] = 0
  /\ \E i \in DOMAIN history[o] : history[o][i] \in {"Rejected", "Filled", "Cancelled"}

(* Every order comes to rest in its book or to its end, also when its      *)
(* session is lost in the middle.                                          *)
EveryOrderSettles ==
  \A o \in OrderIds :
    Known(o) ~> \/ Done(o)
                \/ \E y \in Symbols : o \in resting[y] /\ leaves[o] = open[o]

(* A session that has lost its connection is destroyed in the end.         *)
LostSessionsEnd ==
  \A s \in Sessions : session[s] = "down" ~> session[s] = "gone"

(* What somebody who reads the feed takes an order's open quantity to be.  *)
FedOpen(o) ==
  LET sum(type) == Total([i \in DOMAIN feed |-> feed[i].shares],
                     {i \in DOMAIN feed : feed[i].type = type /\ feed[i].order = o})
  IN  sum("add_order") - sum("order_executed")

(* The feed keeps track of every order: while nobody cancels, a reader     *)
(* that subtracts executions from the orders added has the open quantity   *)
(* of every order in an idle book.                                         *)
FeedTracksOrders ==
  \A o \in OrderIds :
    (Entered(o) /\ ~Busy(form[o].sym) /\ requests = 0) => FedOpen(o) = open[o]
=============================================================================
