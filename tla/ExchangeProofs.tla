--------------------------- MODULE ExchangeProofs ----------------------------
(***************************************************************************)
(* Theorems about what happens to an order in Exchange: the links between  *)
(* orders and sessions, the books and the callbacks of a match, and what   *)
(* the exchange tells of its orders in execution reports, histories and    *)
(* the feed.  For any sessions, symbols, prices, quantities and bounds.    *)
(***************************************************************************)
EXTENDS Exchange, TLAPS

-----------------------------------------------------------------------------
(* The threads of the sessions and the orders they work on.                *)

Places == {"idle", "get_book", "lock", "match", "call"}

SessionTypes ==
  /\ lastId \in 0..MaxOrders
  /\ server \in [OrderIds -> Sessions \cup {None}]
  /\ session \in [Sessions -> {"up", "down", "closing", "gone"}]
  /\ handler \in [Sessions -> [at : Places, order : OrderIds \cup {NoOrder}]]

(* The inductive invariant: the thread of a session works on an order that *)
(* is linked to that session, and no longer once the session closes.       *)
SessionInv ==
  /\ SessionTypes
  /\ \A s \in Sessions : session[s] \in {"closing", "gone"} => handler[s].at = "idle"
  /\ \A s \in Sessions : handler[s].at # "idle" =>
       handler[s].order \in 1..lastId /\ server[handler[s].order] = s

LEMMA SessionInit == Init => SessionInv
  BY ExchangeAssumption
  DEF Init, SessionInv, SessionTypes, Places, OrderIds, Idle, NoOrder

(* Most steps only move the thread of a session.                           *)
LEMMA SessionMoves ==
  ASSUME SessionInv, NEW s \in Sessions, NEW l \in Places \ {"idle"},
         handler[s].at # "idle", handler' \in {handler, [handler EXCEPT ![s].at = l]},
         UNCHANGED <<lastId, sessionVars>>
  PROVE  SessionInv'
<1>1. handler \in [Sessions -> [at : Places, order : OrderIds \cup {NoOrder}]]
  BY DEF SessionInv, SessionTypes
<1>2. handler' \in [Sessions -> [at : Places, order : OrderIds \cup {NoOrder}]]
  BY <1>1 DEF Places
<1>3. \A u \in Sessions : /\ handler'[u].order = handler[u].order
                          /\ handler'[u].at = "idle" <=> handler[u].at = "idle"
  BY <1>1
<1>4. SessionTypes'
  BY <1>2 DEF SessionInv, SessionTypes, sessionVars
<1> QED
  BY <1>3, <1>4 DEF SessionInv, sessionVars

(* The destructor of a session leaves everything but links alone.          *)
LEMMA CloseKeeps ==
  ASSUME NEW s \in Sessions, CloseStep(s)
  PROVE  UNCHANGED <<lastId, orderVars, handler, bookVars, callbacks, out, feed,
                     requests>>
  BY DEF CloseStep, CloseSession, Unlink, EndSession

LEMMA SessionStep == SessionInv /\ [Next]_vars => SessionInv'
<1> SUFFICES ASSUME SessionInv, [Next]_vars
             PROVE  SessionInv'
  OBVIOUS
<1> USE ExchangeAssumption DEF Places
<1>1. ASSUME NEW s \in Sessions, NEW f \in Forms, NewOrderSingle(s, f)
      PROVE  SessionInv'
  <2> DEFINE o == lastId + 1
  <2>1. o \in OrderIds /\ o \notin 1..lastId
    BY <1>1 DEF NewOrderSingle, SessionInv, SessionTypes, OrderIds
  <2>2. SessionTypes'
    BY <1>1, <2>1 DEF NewOrderSingle, SessionInv, SessionTypes, OrderIds
  <2>3. \A u \in Sessions : session'[u] \in {"closing", "gone"} => handler'[u].at = "idle"
    BY <1>1 DEF NewOrderSingle, SessionInv, SessionTypes
  <2>4. ASSUME NEW u \in Sessions, handler'[u].at # "idle"
        PROVE  handler'[u].order \in 1..lastId' /\ server'[handler'[u].order] = u
    <3>1. CASE u = s
      BY <1>1, <2>1, <3>1
         DEF NewOrderSingle, SessionInv, SessionTypes, OrderIds
    <3>2. CASE u # s
      <4>1. handler[u].order \in 1..lastId /\ server[handler[u].order] = u
        BY <1>1, <2>4, <3>2 DEF NewOrderSingle, SessionInv, SessionTypes
      <4> QED
        BY <1>1, <3>2, <4>1
           DEF NewOrderSingle, SessionInv, SessionTypes, OrderIds
    <3> QED
      BY <3>1, <3>2
  <2> QED
    BY <2>2, <2>3, <2>4 DEF SessionInv
<1>2. ASSUME NEW s \in Sessions, Refuse(s) PROVE SessionInv'
  <2> DEFINE o == handler[s].order
  <2>1. o \in OrderIds /\ server[o] = s
    BY <1>2 DEF Refuse, SessionInv, SessionTypes, OrderIds
  <2>2. SessionTypes'
    BY <1>2 DEF Refuse, SessionInv, SessionTypes, Idle
  <2>3. ASSUME NEW u \in Sessions, handler'[u].at # "idle"
        PROVE  handler'[u].order \in 1..lastId' /\ server'[handler'[u].order] = u
    BY <1>2, <2>1, <2>3 DEF Refuse, SessionInv, SessionTypes, Idle, OrderIds
  <2>4. \A u \in Sessions : session'[u] \in {"closing", "gone"} => handler'[u].at = "idle"
    BY <1>2 DEF Refuse, SessionInv, SessionTypes, Idle
  <2> QED
    BY <2>2, <2>3, <2>4 DEF SessionInv
<1>3. ASSUME NEW s \in Sessions, Submit(s) PROVE SessionInv'
  BY <1>3, SessionMoves DEF Submit
<1>4. ASSUME NEW s \in Sessions, EnterBook(s) PROVE SessionInv'
  BY <1>4, SessionMoves DEF EnterBook
<1>5. ASSUME NEW s \in Sessions, NEW r \in OrderIds, Match(s, r)
      PROVE  SessionInv'
  BY <1>5, SessionMoves DEF Match, MatchWith, SessionInv, SessionTypes
<1>6. ASSUME NEW s \in Sessions, Rest(s) PROVE SessionInv'
  BY <1>6, SessionMoves DEF Rest
<1>7. ASSUME NEW s \in Sessions, OnAccept(s) \/ OnReject(s) \/ OnFill(s)
      PROVE  SessionInv'
  BY <1>7, SessionMoves DEF OnAccept, OnReject, OnFill, Calling
<1>8. ASSUME NEW s \in Sessions, Finish(s) PROVE SessionInv'
  BY <1>8 DEF Finish, SessionInv, SessionTypes, sessionVars, Idle
<1>9. ASSUME NEW s \in Sessions, Disconnect(s) \/ CloseSession(s) \/ EndSession(s)
      PROVE  SessionInv'
  BY <1>9 DEF Disconnect, CloseSession, EndSession, SessionInv, SessionTypes
<1>10. ASSUME NEW s \in Sessions, NEW o \in OrderIds, Unlink(s, o) PROVE SessionInv'
  BY <1>10 DEF Unlink, SessionInv, SessionTypes
<1>11. ASSUME UNCHANGED <<lastId, sessionVars, handler>> PROVE SessionInv'
  BY <1>11 DEF SessionInv, SessionTypes, sessionVars
<1>12. ASSUME NEW o \in OrderIds,
              \/ CancelOrder(o) \/ ModifyOrder(o)
              \/ RequestRejected(o, "CancelRejected")
              \/ RequestRejected(o, "ModifyRejected")
       PROVE  SessionInv'
  BY <1>11, <1>12
  DEF CancelOrder, ModifyOrder, RequestRejected, Request
<1>13. CASE UNCHANGED vars
  BY <1>11, <1>13 DEF vars
<1> QED
  BY <1>1, <1>2, <1>3, <1>4, <1>5, <1>6, <1>7, <1>8, <1>9, <1>10, <1>12, <1>13
  DEF Next, HandlerStep, CloseStep

-----------------------------------------------------------------------------
(* Who is in a book, what rests there and what is queued.                  *)

BookTypes ==
  /\ form \in [OrderIds -> Forms \cup {None}]
  /\ \A o \in 1..lastId : form[o] \in Forms
  /\ resting \in [Symbols -> SUBSET OrderIds]
  /\ open \in [OrderIds -> Nat]
  /\ callbacks \in [Symbols -> Seq(CallbackRecords)]

InABook(s) == handler[s].at \in {"match", "call"}

(* The mutex of a book: one thread at a time is in it.                     *)
Alone ==
  \A s, t \in Sessions :
    /\ InABook(s) /\ InABook(t)
    /\ form[handler[s].order].sym = form[handler[t].order].sym
    => s = t

(* An order rests in the book of its symbol, with shares left, and not     *)
(* before its own thread has put it there.                                 *)
Resting ==
  /\ \A y \in Symbols : \A o \in resting[y] :
       o <= lastId /\ form[o].sym = y /\ open[o] > 0
  /\ \A s \in Sessions : handler[s].at \in {"get_book", "lock", "match"} =>
       \A y \in Symbols : handler[s].order \notin resting[y]

(* A fill that is queued while the thread of order o is in its book: of o  *)
(* with another order of the book.                                         *)
QueuedFill(c, o) ==
  /\ c.other \in 1..lastId
  /\ c.other # o
  /\ form[c.other].sym = form[o].sym
  /\ c.qty > 0

(* What is queued for order o: its acceptance or its rejection first, then *)
(* its fills.                                                              *)
Queue(cb, o) ==
  \A i \in 1..Len(cb) :
    /\ cb[i].order = o
    /\ cb[i].kind # "fill" => i = 1
    /\ cb[i].kind = "reject" => Len(cb) = 1 /\ o \notin resting[form[o].sym]
    /\ cb[i].kind = "fill" => QueuedFill(cb[i], o)

(* What is queued for the thread of session s while it is in a book.       *)
Queued(s) ==
  LET o == handler[s].order
      cb == callbacks[form[o].sym]
  IN  InABook(s) =>
        /\ Queue(cb, o)
        /\ handler[s].at = "match" =>
             cb # <<>> /\ cb[1].kind = "accept" /\ open[o] > 0

BookInv ==
  /\ BookTypes
  /\ Alone
  /\ Resting
  /\ \A y \in Symbols : callbacks[y] # <<>> => Busy(y)
  /\ \A s \in Sessions : Queued(s)

LEMMA BookInit == Init => BookInv
  BY ExchangeAssumption
  DEF Init, BookInv, BookTypes, Alone, Resting, Queued, InABook, OrderIds, Idle,
      NoOrder

(* The thread of a session works on an order of its own.                   *)
LEMMA Handled ==
  ASSUME SessionInv, BookTypes, NEW s \in Sessions, handler[s].at # "idle"
  PROVE  /\ handler[s].order \in OrderIds
         /\ handler[s].order \in 1..lastId
         /\ form[handler[s].order] \in Forms
         /\ form[handler[s].order].sym \in Symbols
         /\ \A t \in Sessions :
              handler[t].at # "idle" /\ handler[t].order = handler[s].order => t = s
<1>1. /\ handler[s].order \in 1..lastId
      /\ server[handler[s].order] = s
      /\ lastId \in 0..MaxOrders
  BY DEF SessionInv, SessionTypes
<1>2. handler[s].order \in OrderIds
  BY <1>1, ExchangeAssumption DEF OrderIds
<1>3. form[handler[s].order] \in Forms
  BY <1>1 DEF BookTypes
<1>4. \A t \in Sessions : handler[t].at # "idle" => server[handler[t].order] = t
  BY DEF SessionInv
<1>5. form[handler[s].order].sym \in Symbols
  BY <1>3 DEF Forms
<1>6. ASSUME NEW t \in Sessions, handler[t].at # "idle",
             handler[t].order = handler[s].order
      PROVE  t = s
  BY <1>1, <1>4, <1>6
<1> QED
  BY <1>1, <1>2, <1>3, <1>5, <1>6

LEMMA QueueStays ==
  ASSUME NEW cb, NEW o, Queue(cb, o), UNCHANGED <<lastId, form>>,
         resting'[form[o].sym] \subseteq resting[form[o].sym]
  PROVE  Queue(cb, o)'
  BY DEF Queue, QueuedFill

(* Steps that leave the threads, the callbacks and the orders alone, and   *)
(* take at most something out of a book that is idle.                      *)
LEMMA BookKept ==
  ASSUME SessionInv, BookInv, UNCHANGED <<lastId, form, handler, callbacks>>,
         resting' \in [Symbols -> SUBSET OrderIds], open' \in [OrderIds -> Nat],
         \A y \in Symbols : resting'[y] \subseteq resting[y],
         \A y \in Symbols : \A q \in resting'[y] : open'[q] = open[q],
         \A o \in OrderIds : Busy(form[o].sym) => open'[o] = open[o]
  PROVE  BookInv'
<1>1. BookTypes'
  BY DEF BookInv, BookTypes
<1>2. Alone'
  BY DEF BookInv, Alone, InABook
<1>3. Resting'
  BY DEF BookInv, Resting
<1>4. \A y \in Symbols : Busy(y)' <=> Busy(y)
  BY DEF Busy, InBook
<1>5. ASSUME NEW s \in Sessions PROVE Queued(s)'
  <2> DEFINE o == handler[s].order
  <2> SUFFICES ASSUME InABook(s) PROVE Queued(s)'
    BY DEF Queued, InABook
  <2>1. o \in OrderIds /\ form[o].sym \in Symbols
    BY Handled DEF InABook, BookInv
  <2>2. Busy(form[o].sym)
    BY DEF Busy, InBook, InABook
  <2>3. open'[o] = open[o]
    BY <2>1, <2>2
  <2>4. resting'[form[o].sym] \subseteq resting[form[o].sym]
    BY <2>1
  <2>5. PICK p, cb : p = o /\ cb = callbacks[form[p].sym]
    OBVIOUS
  <2>6. /\ Queue(cb, p)
        /\ handler[s].at = "match" =>
             cb # <<>> /\ cb[1].kind = "accept" /\ open[p] > 0
    BY <2>5 DEF BookInv, Queued
  <2>7. Queue(cb, p)'
    BY <2>4, <2>5, <2>6, QueueStays
  <2>8. /\ handler'[s].order = p /\ callbacks'[form'[p].sym] = cb
        /\ handler'[s].at = "match" =>
             cb # <<>> /\ cb[1].kind = "accept" /\ open'[p] > 0
    BY <2>3, <2>5, <2>6
  <2> HIDE DEF o
  <2> QED
    BY <2>7, <2>8 DEF Queued
<1> QED
  BY <1>1, <1>2, <1>3, <1>4, <1>5 DEF BookInv

(* What a queue is depends on the order numbers, the messages and the book *)
(* only.                                                                   *)
LEMMA QueueKept ==
  ASSUME UNCHANGED <<lastId, form, resting>>
  PROVE  \A cb, o : Queue(cb, o)' <=> Queue(cb, o)
  BY DEF Queue, QueuedFill

(* Steps that move the thread of a session outside the books, or out of    *)
(* one when its callbacks are made.                                        *)
Passes(s, h) ==
  /\ handler[s].at # "idle"
  /\ InABook(s) => callbacks[form[handler[s].order].sym] = <<>>
  /\ h.at \in {"idle", "lock"}
  /\ h.at = "lock" => handler[s].at = "get_book" /\ h.order = handler[s].order
  /\ handler' = [handler EXCEPT ![s] = h]
  /\ UNCHANGED <<lastId, form, resting, open, callbacks>>

LEMMA BookPassed ==
  ASSUME SessionInv, BookInv, NEW s \in Sessions, NEW h, Passes(s, h)
  PROVE  BookInv'
<1> USE DEF Passes
<1>1. handler'[s] = h /\ \A t \in Sessions \ {s} : handler'[t] = handler[t]
  BY DEF SessionInv, SessionTypes
<1>2. \A t \in Sessions : InABook(t)' <=> InABook(t) /\ t # s
  BY <1>1 DEF InABook
<1>3. Alone'
  BY <1>1, <1>2 DEF BookInv, Alone, InABook
<1>4. Resting'
  BY <1>1 DEF BookInv, Resting
<1>5. ASSUME NEW y \in Symbols, callbacks[y] # <<>> PROVE Busy(y)'
  <2>1. PICK t \in Sessions : InABook(t) /\ form[handler[t].order].sym = y
    BY <1>5 DEF BookInv, Busy, InBook, InABook
  <2>2. t # s
    BY <1>5, <2>1
  <2> QED
    BY <1>1, <2>1, <2>2 DEF Busy, InBook, InABook
<1>6. ASSUME NEW t \in Sessions PROVE Queued(t)'
  <2>1. CASE t = s
    BY <1>2, <2>1 DEF Queued, InABook
  <2>2. CASE t # s
    <3>1. handler'[t] = handler[t] /\ Queued(t)
      BY <1>1, <2>2 DEF BookInv
    <3> QED
      BY <3>1, QueueKept DEF Queued, InABook
  <2> QED
    BY <2>1, <2>2
<1> QED
  BY <1>3, <1>4, <1>5, <1>6 DEF BookInv, BookTypes

(* A step of the thread of session s inside book y, with its order o: what *)
(* rests there becomes R, what is queued becomes cb.                       *)
Works(s, o, y, l, cb, R) ==
  /\ o = handler[s].order /\ y = form[o].sym
  /\ handler[s].at \in {"lock", "match", "call"}
  /\ handler[s].at = "lock" => ~Busy(y)
  /\ l \in {"match", "call"}
  /\ handler' = [handler EXCEPT ![s].at = l]
  /\ cb \in Seq(CallbackRecords)
  /\ callbacks' = [callbacks EXCEPT ![y] = cb]
  /\ R \in SUBSET OrderIds
  /\ resting' = [resting EXCEPT ![y] = R]
  /\ \A q \in R : /\ q \in resting[y] \/ (q = o /\ l = "call")
                  /\ open'[q] > 0
  /\ open' \in [OrderIds -> Nat]
  /\ \A q \in OrderIds : form[q].sym # y => open'[q] = open[q]
  /\ UNCHANGED <<lastId, form>>
  /\ l = "match" => /\ handler[s].at # "call"
                    /\ cb # <<>> /\ cb[1].kind = "accept" /\ open'[o] > 0

LEMMA BookWorked ==
  ASSUME SessionInv, BookInv, NEW s \in Sessions, NEW o, NEW y, NEW l, NEW cb,
         NEW R, Works(s, o, y, l, cb, R), Queue(cb, o)'
  PROVE  BookInv'
<1> USE DEF Works
<1>1. /\ handler'[s].at = l /\ handler'[s].order = o
      /\ \A t \in Sessions \ {s} : handler'[t] = handler[t]
  BY DEF SessionInv, SessionTypes
<1>2. o \in OrderIds /\ o <= lastId /\ y \in Symbols
  BY Handled, ExchangeAssumption DEF BookInv, SessionInv, SessionTypes
<1>3. \A t \in Sessions \ {s} : handler[t].at # "idle" =>
        handler[t].order # o /\ handler[t].order \in OrderIds
  BY Handled DEF BookInv
<1>4. resting'[y] = R /\ \A z \in Symbols \ {y} : resting'[z] = resting[z]
  BY <1>2 DEF BookInv, BookTypes
<1>5. callbacks'[y] = cb /\ \A z \in Symbols \ {y} : callbacks'[z] = callbacks[z]
  BY <1>2 DEF BookInv, BookTypes
<1>6. BookTypes'
  BY <1>2 DEF BookInv, BookTypes
<1>7. InABook(s)' /\ \A t \in Sessions \ {s} : InABook(t)' <=> InABook(t)
  BY <1>1 DEF InABook
<1>8. ASSUME NEW t \in Sessions \ {s}, InABook(t)
      PROVE  form[handler[t].order].sym # y
  BY <1>8 DEF BookInv, Alone, InABook, Busy, InBook
<1>9. Alone'
  BY <1>1, <1>7, <1>8 DEF BookInv, Alone
<1>10. Resting'
  <2>1. ASSUME NEW z \in Symbols, NEW q \in resting'[z]
        PROVE  q <= lastId /\ form[q].sym = z /\ open'[q] > 0
    <3>1. CASE z = y
      <4>1. q \in R
        BY <1>4, <3>1
      <4> QED
        BY <1>2, <3>1, <4>1 DEF BookInv, Resting
    <3>2. CASE z # y
      <4>1. q \in resting[z] /\ q \in OrderIds
        BY <1>4, <3>2 DEF BookInv, BookTypes
      <4> QED
        BY <3>2, <4>1 DEF BookInv, Resting
    <3> QED
      BY <3>1, <3>2
  <2>2. ASSUME NEW t \in Sessions, handler'[t].at \in {"get_book", "lock", "match"},
               NEW z \in Symbols
        PROVE  handler'[t].order \notin resting'[z]
    <3>1. CASE t = s
      <4>1. l = "match" /\ handler[s].at \in {"lock", "match"}
        BY <1>1, <2>2, <3>1
      <4>2. \A x \in Symbols : o \notin resting[x]
        BY <4>1 DEF BookInv, Resting
      <4>3. o \notin R
        BY <1>2, <4>1, <4>2
      <4> QED
        BY <1>1, <1>4, <3>1, <4>2, <4>3
    <3>2. CASE t # s
      <4>1. handler'[t] = handler[t] /\ handler[t].order # o
        BY <1>1, <1>3, <2>2, <3>2
      <4>2. \A x \in Symbols : handler[t].order \notin resting[x]
        BY <2>2, <4>1 DEF BookInv, Resting
      <4>3. handler[t].order \notin R
        BY <1>2, <4>1, <4>2
      <4> QED
        BY <1>4, <4>1, <4>2, <4>3
    <3> QED
      BY <3>1, <3>2
  <2> QED
    BY <2>1, <2>2 DEF Resting
<1>11. ASSUME NEW z \in Symbols, callbacks'[z] # <<>> PROVE Busy(z)'
  <2>1. CASE z = y
    BY <1>1, <1>7, <2>1 DEF Busy, InBook, InABook
  <2>2. CASE z # y
    <3>1. PICK t \in Sessions : InABook(t) /\ form[handler[t].order].sym = z
      BY <1>5, <1>11, <2>2 DEF BookInv, Busy, InBook, InABook
    <3>2. t # s
      BY <2>2, <3>1
    <3> QED
      BY <1>1, <3>1, <3>2 DEF Busy, InBook, InABook
  <2> QED
    BY <2>1, <2>2
<1>12. ASSUME NEW t \in Sessions PROVE Queued(t)'
  <2>1. CASE t = s
    BY <1>1, <1>5, <2>1 DEF Queued
  <2>2. CASE t # s /\ InABook(t)
    <3> DEFINE p == handler[t].order
               z == form[p].sym
    <3>1. handler'[t] = handler[t] /\ Queued(t) /\ z # y
      BY <1>1, <1>8, <2>2 DEF BookInv
    <3>2. p \in OrderIds /\ z \in Symbols
      BY Handled, <2>2 DEF BookInv, InABook
    <3>3. callbacks'[z] = callbacks[z] /\ resting'[z] = resting[z] /\ open'[p] = open[p]
      BY <1>4, <1>5, <3>1, <3>2
    <3>4. Queue(callbacks[z], p)'
      <4>1. Queue(callbacks[z], p)
        BY <2>2, <3>1 DEF Queued
      <4>2. p' = p /\ z' = z /\ callbacks'[z] = callbacks[z]
        BY <3>1, <3>3
      <4>3. \A c : QueuedFill(c, p)' <=> QueuedFill(c, p)
        BY <4>2 DEF QueuedFill
      <4> HIDE DEF p
      <4> QED
        BY <3>3, <4>1, <4>2, <4>3 DEF Queue
    <3> QED
      BY <3>1, <3>3, <3>4 DEF Queued, InABook
  <2>3. CASE t # s /\ ~InABook(t)
    BY <1>7, <2>3 DEF Queued
  <2> QED
    BY <2>1, <2>2, <2>3
<1> QED
  BY <1>6, <1>9, <1>10, <1>11, <1>12 DEF BookInv

LEMMA BookNewOrder ==
  ASSUME SessionInv, BookInv, NEW s \in Sessions, NEW f \in Forms,
         NewOrderSingle(s, f)
  PROVE  BookInv'
<1> DEFINE o == lastId + 1
<1>0. lastId' = o /\ UNCHANGED <<resting, open, callbacks>>
  BY DEF NewOrderSingle, bookVars
<1>1. o \in OrderIds /\ lastId \in Nat
  BY ExchangeAssumption DEF NewOrderSingle, SessionInv, SessionTypes, OrderIds
<1>2. /\ form' \in [OrderIds -> Forms \cup {None}]
      /\ form'[o] = f
      /\ \A i \in 1..lastId : i \in OrderIds /\ form'[i] = form[i]
  BY <1>1, ExchangeAssumption DEF NewOrderSingle, BookInv, BookTypes, OrderIds
<1>3. /\ handler'[s] = [at |-> "get_book", order |-> o]
      /\ \A t \in Sessions \ {s} : handler'[t] = handler[t]
      /\ handler[s].at = "idle"
  BY DEF NewOrderSingle, SessionInv, SessionTypes
<1>4. BookTypes'
  BY <1>0, <1>1, <1>2 DEF BookInv, BookTypes
<1>5. \A t \in Sessions : InABook(t)' <=> InABook(t)
  BY <1>3 DEF InABook
<1>6. \A t \in Sessions : handler[t].at # "idle" => handler[t].order \in 1..lastId
  BY DEF SessionInv
<1>7. \A t \in Sessions : InABook(t) =>
        form'[handler'[t].order] = form[handler[t].order]
  BY <1>2, <1>3, <1>6 DEF InABook
<1>8. \A t \in Sessions : InABook(t) => handler'[t] = handler[t]
  BY <1>3 DEF InABook
<1>9. Alone'
  BY <1>5, <1>7 DEF BookInv, Alone
<1>10. \A y \in Symbols : \A i \in resting[y] : i \in 1..lastId
  BY <1>1 DEF BookInv, Resting, BookTypes, OrderIds
<1>11. Resting'
  <2>1. (\A y \in Symbols : \A i \in resting[y] :
           i <= lastId /\ form[i].sym = y /\ open[i] > 0)'
    BY <1>0, <1>1, <1>2, <1>10 DEF BookInv, Resting
  <2>2. \A y \in Symbols : o \notin resting[y]
    BY <1>1, <1>10
  <2>3. (\A t \in Sessions : handler[t].at \in {"get_book", "lock", "match"} =>
           \A y \in Symbols : handler[t].order \notin resting[y])'
    BY <1>0, <1>3, <2>2 DEF BookInv, Resting
  <2> QED
    BY <2>1, <2>3 DEF Resting
<1>12. \A y \in Symbols : Busy(y) => Busy(y)'
  BY <1>5, <1>7 DEF Busy, InBook, InABook
<1>13. ASSUME NEW t \in Sessions PROVE Queued(t)'
  <2> SUFFICES ASSUME InABook(t) PROVE Queued(t)'
    BY <1>5 DEF Queued
  <2> DEFINE p == handler[t].order
  <2>1. handler'[t] = handler[t] /\ form'[p] = form[p] /\ p \in OrderIds
    BY <1>2, <1>6, <1>7, <1>8 DEF InABook
  <2>2. Queued(t)
    BY DEF BookInv
  <2>3. form[p].sym \in Symbols
    BY Handled DEF InABook, BookInv
  <2>4. callbacks[form[p].sym] \in Seq(CallbackRecords)
    BY <2>3 DEF BookInv, BookTypes
  <2>5. Queue(callbacks[form[p].sym], p)'
    <3>1. \A c : QueuedFill(c, p) => QueuedFill(c, p)'
      BY <1>0, <1>1, <1>2, <2>1 DEF QueuedFill
    <3> QED
      BY <1>0, <2>1, <2>2, <3>1 DEF Queued, Queue
  <2> QED
    BY <1>0, <2>1, <2>2, <2>5 DEF Queued, InABook
<1> QED
  BY <1>0, <1>4, <1>9, <1>11, <1>12, <1>13 DEF BookInv
LEMMA BookEnter ==
  ASSUME SessionInv, BookInv, NEW s \in Sessions, EnterBook(s)
  PROVE  BookInv'
<1>1. PICK o, y, f : o = handler[s].order /\ f = form[o] /\ y = f.sym
  OBVIOUS
<1>2. /\ o \in OrderIds /\ y \in Symbols /\ f.qty \in Nat
      /\ handler[s].at = "lock"
  BY <1>1, Handled, ExchangeAssumption DEF EnterBook, BookInv, Forms
<1>3. PICK kind, l : /\ kind = IF f.qty = 0 THEN "reject" ELSE "accept"
                     /\ l = IF f.qty = 0 THEN "call" ELSE "match"
  OBVIOUS
<1>4. PICK cb : cb = <<Callback(kind, o, NoOrder, 0)>>
  OBVIOUS
<1>5. cb \in Seq(CallbackRecords)
  BY <1>2, <1>3, <1>4 DEF Callback, CallbackRecords, NoOrder
<1>6. Len(cb) = 1 /\ cb[1].kind = kind /\ cb[1].order = o
  BY <1>4 DEF Callback
<1>7. /\ open' = [open EXCEPT ![o] = f.qty]
      /\ callbacks' = [callbacks EXCEPT ![y] = cb]
      /\ handler' = [handler EXCEPT ![s].at = l]
      /\ ~Busy(y)
      /\ UNCHANGED <<lastId, form, resting>>
  BY <1>1, <1>3, <1>4 DEF EnterBook, orderVars
<1>8. o \notin resting[y]
  BY <1>1, <1>2 DEF BookInv, Resting
<1>9. /\ open' \in [OrderIds -> Nat] /\ open'[o] = f.qty
      /\ \A q \in OrderIds \ {o} : open'[q] = open[q]
  BY <1>2, <1>7 DEF BookInv, BookTypes
<1>10. /\ resting[y] \in SUBSET OrderIds
       /\ resting' = [resting EXCEPT ![y] = resting[y]]
  BY <1>2, <1>7 DEF BookInv, BookTypes
<1>11. \A q \in resting[y] : q \in resting[y] /\ open'[q] > 0
  BY <1>2, <1>8, <1>9, <1>10 DEF BookInv, Resting
<1>12. \A q \in OrderIds : form[q].sym # y => open'[q] = open[q]
  BY <1>1, <1>9
<1>13. Queue(cb, o)'
  BY <1>1, <1>3, <1>6, <1>7, <1>8 DEF Queue
<1>14. l = "match" => /\ handler[s].at # "call"
                      /\ cb # <<>> /\ cb[1].kind = "accept" /\ open'[o] > 0
  BY <1>2, <1>3, <1>4, <1>6, <1>9
<1>15. Works(s, o, y, l, cb, resting[y])
  BY <1>1, <1>2, <1>3, <1>5, <1>7, <1>9, <1>10, <1>11, <1>12, <1>14 DEF Works
<1> QED
  BY <1>13, <1>15, BookWorked
(* A fill queued behind the acceptance; the first callback taken off.      *)
LEMMA QueueAppended ==
  ASSUME NEW cb \in Seq(CallbackRecords), NEW o, NEW c \in CallbackRecords,
         Queue(cb, o), cb # <<>>, cb[1].kind = "accept",
         c.order = o, c.kind = "fill", QueuedFill(c, o),
         UNCHANGED <<lastId, form>>
  PROVE  Queue(Append(cb, c), o)'
<1> DEFINE q == Append(cb, c)
<1>1. Len(q) = Len(cb) + 1 /\ Len(cb) \in Nat \ {0}
  OBVIOUS
<1>2. \A i \in 1..Len(cb) : q[i] = cb[i]
  OBVIOUS
<1>3. q[Len(cb) + 1] = c
  OBVIOUS
<1>4. \A i \in 1..Len(cb) : cb[i].kind # "reject"
  BY DEF Queue
<1>5. \A d : QueuedFill(d, o) <=> QueuedFill(d, o)'
  BY DEF QueuedFill
<1> HIDE DEF q
<1>6. \A i \in 1..Len(q) : /\ q[i].order = o
                           /\ q[i].kind # "fill" => i = 1
                           /\ q[i].kind # "reject"
                           /\ q[i].kind = "fill" => QueuedFill(q[i], o)
  <2> SUFFICES ASSUME NEW i \in 1..Len(q)
               PROVE  /\ q[i].order = o
                      /\ q[i].kind # "fill" => i = 1
                      /\ q[i].kind # "reject"
                      /\ q[i].kind = "fill" => QueuedFill(q[i], o)
    OBVIOUS
  <2>1. CASE i \in 1..Len(cb)
    BY <1>2, <1>4, <2>1 DEF Queue
  <2>2. CASE i = Len(cb) + 1
    BY <1>3, <2>2
  <2> QED
    BY <1>1, <2>1, <2>2
<1>7. q' = q
  BY DEF q
<1> QED
  BY <1>5, <1>6, <1>7 DEF Queue, q

LEMMA QueueTail ==
  ASSUME NEW cb \in Seq(CallbackRecords), NEW o, Queue(cb, o), cb # <<>>
  PROVE  /\ Tail(cb) \in Seq(CallbackRecords)
         /\ Queue(Tail(cb), o)
         /\ \A i \in 1..Len(Tail(cb)) : Tail(cb)[i].kind = "fill"
<1> DEFINE q == Tail(cb)
<1>1. q \in Seq(CallbackRecords) /\ Len(q) = Len(cb) - 1 /\ Len(cb) \in Nat \ {0}
  OBVIOUS
<1>2. \A i \in 1..Len(q) : i + 1 \in 1..Len(cb) /\ q[i] = cb[i + 1]
  OBVIOUS
<1> HIDE DEF q
<1>3. \A i \in 1..Len(q) : /\ q[i].order = o
                           /\ q[i].kind = "fill"
                           /\ QueuedFill(q[i], o)
  BY <1>1, <1>2 DEF Queue
<1>4. Queue(q, o)
  BY <1>3 DEF Queue
<1> QED
  BY <1>1, <1>3, <1>4 DEF q

LEMMA BookMatch ==
  ASSUME SessionInv, BookInv, NEW s \in Sessions, NEW r \in OrderIds, Match(s, r)
  PROVE  BookInv'
<1>1. PICK o, y : o = handler[s].order /\ y = form[o].sym
  OBVIOUS
<1>2. o \in OrderIds /\ y \in Symbols /\ handler[s].at = "match" /\ lastId \in Nat
  BY <1>1, Handled, ExchangeAssumption
  DEF Match, MatchWith, BookInv, SessionInv, SessionTypes
<1>3. r \in resting[y] /\ r # o /\ r \in 1..lastId /\ form[r].sym = y
  BY <1>1, <1>2 DEF Match, MatchWith, Crossing, BookInv, Resting, OrderIds
<1>4. Queued(s)
  BY DEF BookInv
<1>5. open[o] \in Nat \ {0} /\ open[r] \in Nat \ {0}
  <2>1. open \in [OrderIds -> Nat]
    BY DEF BookInv, BookTypes
  <2>2. open[o] > 0
    BY <1>1, <1>2, <1>4 DEF Queued, InABook
  <2>3. open[r] > 0
    BY <1>2, <1>3 DEF BookInv, Resting
  <2> QED
    BY <1>2, <2>1, <2>2, <2>3
<1>6. PICK n : n = Smaller(open[o], open[r])
  OBVIOUS
<1>7. n \in Nat \ {0} /\ n <= open[o] /\ n <= open[r]
  BY <1>5, <1>6 DEF Smaller
<1>8. PICK old, cb, c, l, R :
        /\ old = callbacks[y]
        /\ c = Callback("fill", o, r, n)
        /\ cb = Append(old, c)
        /\ l = IF open[o] = n THEN "call" ELSE "match"
        /\ R = IF open[r] = n THEN resting[y] \ {r} ELSE resting[y]
  OBVIOUS
<1>9. /\ open' = [open EXCEPT ![o] = @ - n, ![r] = @ - n]
      /\ resting' = [resting EXCEPT ![y] = R]
      /\ callbacks' = [callbacks EXCEPT ![y] = cb]
      /\ handler' = [handler EXCEPT ![s].at = l]
      /\ UNCHANGED <<lastId, form>>
  <2>1. handler' = [handler EXCEPT ![s].at = IF open[o] = n THEN "call" ELSE @]
    BY <1>1, <1>6 DEF Match, MatchWith
  <2>2. handler' = [handler EXCEPT ![s].at = l]
    BY <1>2, <1>8, <2>1
  <2> QED
    BY <1>1, <1>6, <1>8, <2>2 DEF Match, MatchWith, orderVars
<1>10. old \in Seq(CallbackRecords)
  BY <1>2, <1>8 DEF BookInv, BookTypes
<1>11. c \in CallbackRecords /\ c.order = o /\ c.kind = "fill"
  BY <1>2, <1>7, <1>8 DEF Callback, CallbackRecords
<1>12. QueuedFill(c, o)
  <2>1. c.other = r /\ c.qty = n
    BY <1>8 DEF Callback
  <2> QED
    BY <1>1, <1>3, <1>7, <2>1 DEF QueuedFill
<1>13. Queue(old, o) /\ old # <<>> /\ old[1].kind = "accept"
  BY <1>1, <1>2, <1>4, <1>8 DEF Queued, InABook
<1>14. Queue(cb, o)'
  BY QueueAppended, <1>8, <1>9, <1>10, <1>11, <1>12, <1>13
<1>15. cb \in Seq(CallbackRecords) /\ cb # <<>> /\ cb[1].kind = "accept"
  BY <1>8, <1>10, <1>11, <1>13
<1>16. /\ open' \in [OrderIds -> Nat]
       /\ open'[o] = open[o] - n /\ open'[r] = open[r] - n
       /\ \A q \in OrderIds \ {o, r} : open'[q] = open[q]
  BY <1>2, <1>3, <1>5, <1>7, <1>9 DEF BookInv, BookTypes
<1>17. o \notin resting[y] /\ resting[y] \subseteq OrderIds
  BY <1>1, <1>2 DEF BookInv, BookTypes, Resting
<1>18. R \in SUBSET OrderIds /\ R \subseteq resting[y]
  BY <1>8, <1>17
<1>19. \A q \in R : q \in resting[y] /\ open'[q] > 0
  <2>1. \A q \in resting[y] : open[q] > 0
    BY <1>2 DEF BookInv, Resting
  <2>2. r \in R => open'[r] > 0
    BY <1>5, <1>7, <1>8, <1>16
  <2> QED
    BY <1>16, <1>17, <1>18, <2>1, <2>2
<1>20. \A q \in OrderIds : form[q].sym # y => open'[q] = open[q]
  BY <1>1, <1>3, <1>16
<1>21. l \in {"match", "call"} /\ (l = "match" => open'[o] > 0)
  BY <1>5, <1>7, <1>8, <1>16
<1>22. Works(s, o, y, l, cb, R)
  BY <1>1, <1>2, <1>9, <1>15, <1>16, <1>18, <1>19, <1>20, <1>21 DEF Works
<1> QED
  BY <1>14, <1>22, BookWorked

LEMMA BookRest ==
  ASSUME SessionInv, BookInv, NEW s \in Sessions, Rest(s)
  PROVE  BookInv'
<1>1. PICK o, y, cb, R :
        /\ o = handler[s].order /\ y = form[o].sym
        /\ cb = callbacks[y] /\ R = resting[y] \cup {o}
  OBVIOUS
<1>2. o \in OrderIds /\ y \in Symbols /\ handler[s].at = "match"
  BY <1>1, Handled DEF Rest, BookInv
<1>3. Queue(cb, o) /\ cb # <<>> /\ cb[1].kind = "accept" /\ open[o] > 0
  BY <1>1, <1>2 DEF BookInv, Queued, InABook
<1>4. cb \in Seq(CallbackRecords) /\ R \in SUBSET OrderIds
  BY <1>1, <1>2 DEF BookInv, BookTypes
<1>5. /\ resting' = [resting EXCEPT ![y] = R]
      /\ handler' = [handler EXCEPT ![s].at = "call"]
      /\ UNCHANGED <<lastId, form, open, callbacks>>
  BY <1>1 DEF Rest, orderVars
<1>6. callbacks' = [callbacks EXCEPT ![y] = cb]
  BY <1>1, <1>2, <1>5 DEF BookInv, BookTypes
<1>7. \A q \in R : (q \in resting[y] \/ q = o) /\ open'[q] > 0
  BY <1>1, <1>2, <1>3, <1>5 DEF BookInv, Resting
<1>8. Works(s, o, y, "call", cb, R)
  BY <1>1, <1>2, <1>4, <1>5, <1>6, <1>7 DEF Works, BookInv, BookTypes
<1>9. \A i \in 1..Len(cb) : cb[i].kind # "reject"
  BY <1>3 DEF Queue
<1>10. Queue(cb, o)'
  BY <1>3, <1>5, <1>9 DEF Queue, QueuedFill
<1> QED
  BY <1>8, <1>10, BookWorked

(* The first of the queued callbacks is made.                              *)
LEMMA BookCalled ==
  ASSUME SessionInv, BookInv, NEW s \in Sessions, NEW k, Calling(s, k),
         UNCHANGED <<lastId, form, handler, resting, open>>
  PROVE  BookInv'
<1>1. PICK o, y, old, cb, R :
        /\ o = handler[s].order /\ y = form[o].sym
        /\ old = callbacks[y] /\ cb = Tail(old) /\ R = resting[y]
  OBVIOUS
<1>2. o \in OrderIds /\ y \in Symbols /\ handler[s].at = "call"
  BY <1>1, Handled DEF Calling, BookInv
<1>3. Queue(old, o) /\ old # <<>> /\ old \in Seq(CallbackRecords)
  BY <1>1, <1>2 DEF Calling, BookInv, BookTypes, Queued, InABook
<1>4. cb \in Seq(CallbackRecords) /\ Queue(cb, o)
  BY <1>1, <1>3, QueueTail
<1>5. /\ handler' = [handler EXCEPT ![s].at = "call"]
      /\ resting' = [resting EXCEPT ![y] = R]
      /\ R \in SUBSET OrderIds
  BY <1>1, <1>2 DEF BookInv, BookTypes, SessionInv, SessionTypes
<1>6. callbacks' = [callbacks EXCEPT ![y] = cb]
  BY <1>1, <1>2 DEF Calling, BookInv, BookTypes
<1>7. \A q \in R : q \in resting[y] /\ open'[q] > 0
  BY <1>1, <1>2 DEF BookInv, Resting
<1>8. Works(s, o, y, "call", cb, R)
  BY <1>1, <1>2, <1>4, <1>5, <1>6, <1>7 DEF Works, BookInv, BookTypes
<1>9. Queue(cb, o)'
  BY <1>4, QueueKept
<1> QED
  BY <1>8, <1>9, BookWorked
(* What the thread of session s finds when it makes a callback of kind k.  *)
LEMMA CallbackMade ==
  ASSUME SessionInv, BookInv, NEW s \in Sessions, NEW k, Calling(s, k),
         NEW o, NEW y, NEW old, NEW c,
         o = handler[s].order, y = form[o].sym, old = callbacks[y], c = old[1]
  PROVE  /\ handler[s].at = "call"
         /\ o \in OrderIds /\ form[o] \in Forms /\ y \in Symbols
         /\ old \in Seq(CallbackRecords) /\ old # <<>> /\ Queue(old, o)
         /\ c = Head(old) /\ c \in CallbackRecords /\ c.kind = k
         /\ callbacks' = [callbacks EXCEPT ![y] = Tail(old)]
         /\ k = "fill" => /\ c.other \in OrderIds /\ form[c.other] \in Forms
                          /\ QueuedFill(c, o)
<1>1. handler[s].at = "call" /\ old # <<>> /\ Head(old).kind = k
  BY DEF Calling
<1>2. o \in OrderIds /\ form[o] \in Forms /\ y \in Symbols
  BY <1>1, Handled DEF BookInv
<1>3. callbacks' = [callbacks EXCEPT ![y] = Tail(old)]
  BY DEF Calling
<1>4. old \in Seq(CallbackRecords) /\ Queue(old, o)
  BY <1>1, <1>2 DEF BookInv, BookTypes, Queued, InABook
<1>5. 1 \in 1..Len(old) /\ c = Head(old) /\ c \in CallbackRecords
  BY <1>1, <1>4
<1>6. k = "fill" => QueuedFill(c, o)
  <2>1. c.kind = k
    BY <1>1, <1>5
  <2>2. 1 \in 1..Len(old) /\ Queue(old, o)
    BY <1>4, <1>5
  <2> QED
    BY <2>1, <2>2 DEF Queue
<1>7. QueuedFill(c, o) => c.other \in OrderIds /\ form[c.other] \in Forms
  <2>1. \A i \in 1..lastId : i \in OrderIds
    BY ExchangeAssumption DEF SessionInv, SessionTypes, OrderIds
  <2> QED
    BY <2>1 DEF QueuedFill, BookInv, BookTypes
<1> QED
  BY <1>1, <1>2, <1>3, <1>4, <1>5, <1>6, <1>7

(* An order that exists has been received.                                 *)
LEMMA KnownOrder ==
  ASSUME SessionInv, BookInv, NEW o \in OrderIds, o <= lastId
  PROVE  o \in 1..lastId /\ form[o] \in Forms /\ form[o].sym \in Symbols
<1>1. o \in 1..lastId
  BY ExchangeAssumption DEF SessionInv, SessionTypes, OrderIds
<1>2. form[o] \in Forms
  BY <1>1 DEF BookInv, BookTypes
<1> QED
  BY <1>1, <1>2 DEF Forms

LEMMA BookStep == SessionInv /\ BookInv /\ [Next]_vars => BookInv'
<1> SUFFICES ASSUME SessionInv, BookInv, [Next]_vars
             PROVE  BookInv'
  OBVIOUS
<1>1. ASSUME NEW s \in Sessions, NEW f \in Forms, NewOrderSingle(s, f)
      PROVE  BookInv'
  BY <1>1, BookNewOrder
<1>2. ASSUME NEW s \in Sessions, Submit(s) PROVE BookInv'
  <2> DEFINE h == [handler[s] EXCEPT !.at = "lock"]
  <2>1. handler' = [handler EXCEPT ![s] = h] /\ handler[s].at = "get_book"
    BY <1>2 DEF Submit
  <2>2. h.at = "lock" /\ h.order = handler[s].order
    BY DEF SessionInv, SessionTypes
  <2>3. UNCHANGED <<lastId, form, resting, open, callbacks>> /\ ~InABook(s)
    BY <1>2, <2>1 DEF Submit, bookVars, InABook
  <2>4. Passes(s, h)
    BY <2>1, <2>2, <2>3 DEF Passes
  <2> QED
    BY <2>4, BookPassed
<1>3. ASSUME NEW s \in Sessions, Refuse(s) \/ Finish(s) PROVE BookInv'
  <2>1. handler' = [handler EXCEPT ![s] = Idle] /\ handler[s].at # "idle"
    BY <1>3 DEF Refuse, Finish
  <2>2. UNCHANGED <<lastId, form, resting, open, callbacks>>
    BY <1>3 DEF Refuse, Finish, bookVars, orderVars
  <2>3. InABook(s) => callbacks[form[handler[s].order].sym] = <<>>
    BY <1>3 DEF Refuse, Finish, InABook
  <2>4. Passes(s, Idle)
    BY <2>1, <2>2, <2>3 DEF Passes, Idle
  <2> QED
    BY <2>4, BookPassed
<1>4. ASSUME NEW s \in Sessions, EnterBook(s) PROVE BookInv'
  BY <1>4, BookEnter
<1>5. ASSUME NEW s \in Sessions, NEW r \in OrderIds, Match(s, r) PROVE BookInv'
  BY <1>5, BookMatch
<1>6. ASSUME NEW s \in Sessions, Rest(s) PROVE BookInv'
  BY <1>6, BookRest
<1>7. ASSUME NEW s \in Sessions, OnAccept(s) \/ OnReject(s) \/ OnFill(s)
      PROVE  BookInv'
  <2>1. Calling(s, "accept") \/ Calling(s, "reject") \/ Calling(s, "fill")
    BY <1>7 DEF OnAccept, OnReject, OnFill
  <2>2. UNCHANGED <<lastId, form, handler, resting, open>>
    BY <1>7 DEF OnAccept, OnReject, OnFill, bookVars
  <2> QED
    BY <2>1, <2>2, BookCalled
<1>8. ASSUME UNCHANGED <<lastId, form, handler, resting, open, callbacks>>
      PROVE  BookInv'
  BY <1>8, BookKept DEF BookInv, BookTypes
<1>9. ASSUME NEW s \in Sessions, Disconnect(s) \/ CloseStep(s) PROVE BookInv'
  BY <1>8, <1>9 DEF Disconnect, CloseStep, CloseSession, Unlink,
      EndSession, orderVars, bookVars
<1>10. ASSUME NEW o \in OrderIds, CancelOrder(o) PROVE BookInv'
  <2> DEFINE y == form[o].sym
  <2>1. /\ resting' = [resting EXCEPT ![y] = @ \ {o}]
        /\ open' = [open EXCEPT ![o] = 0]
        /\ UNCHANGED <<lastId, form, handler, callbacks>>
        /\ o \in resting[y] /\ ~Busy(y)
    BY <1>10 DEF CancelOrder, Request
  <2>2. /\ resting' \in [Symbols -> SUBSET OrderIds] /\ open' \in [OrderIds -> Nat]
        /\ \A z \in Symbols : resting'[z] \subseteq resting[z]
    BY <2>1 DEF BookInv, BookTypes
  <2>3. ASSUME NEW z \in Symbols, NEW q \in resting'[z] PROVE open'[q] = open[q]
    <3>1. q \in OrderIds /\ q \in resting[z] /\ form[q].sym = z
      BY <2>2, <2>3 DEF BookInv, BookTypes, Resting
    <3>2. q # o
      BY <2>1, <2>3, <3>1 DEF BookInv, BookTypes
    <3> QED
      BY <2>1, <3>1, <3>2 DEF BookInv, BookTypes
  <2>4. ASSUME NEW q \in OrderIds, Busy(form[q].sym) PROVE open'[q] = open[q]
    BY <2>1, <2>4 DEF BookInv, BookTypes
  <2> QED
    BY <2>1, <2>2, <2>3, <2>4, BookKept
<1>11. ASSUME NEW o \in OrderIds,
              \/ ModifyOrder(o) \/ RequestRejected(o, "CancelRejected")
              \/ RequestRejected(o, "ModifyRejected")
       PROVE  BookInv'
  BY <1>8, <1>11 DEF ModifyOrder, RequestRejected, Request, bookVars
<1>12. CASE UNCHANGED vars
  BY <1>8, <1>12 DEF vars, orderVars, bookVars
<1> QED
  BY <1>1, <1>2, <1>3, <1>4, <1>5, <1>6, <1>7, <1>9, <1>10, <1>11, <1>12
  DEF Next, HandlerStep

(* Every reachable state has both invariants.                              *)
LEMMA BookAlways == Spec => [](SessionInv /\ BookInv)
  BY SessionInit, SessionStep, BookInit, BookStep, PTL DEF Spec

-----------------------------------------------------------------------------
(* Execution reports.                                                      *)

(* The counter of the exchange is ahead of every ExecID sent.              *)
ReportsOK(w) ==
  /\ w.execId \in Nat
  /\ w.sent \in [Sessions -> Seq(Reports)]
  /\ \A s \in Sessions : \A i \in 1..Len(w.sent[s]) : w.sent[s][i].exec <= w.execId
  /\ \A s, t \in Sessions : \A i \in 1..Len(w.sent[s]), j \in 1..Len(w.sent[t]) :
       w.sent[s][i].exec = w.sent[t][j].exec => s = t /\ i = j

OutInv == leaves \in [OrderIds -> Int] /\ ReportsOK(out)

LEMMA OutInit == Init => OutInv
  BY DEF Init, OutInv, ReportsOK

(* v is w with one more report on an order the market knows.               *)
Told(v, w, o, type, status, left) ==
  /\ o \in OrderIds /\ form[o] \in Forms
  /\ type \in ExecTypes /\ status \in OrdStatuses /\ left \in Int
  /\ v = Emit(w, o, type, status, left)

(* The ExecID of the report is new on every session.                       *)
LEMMA Reported ==
  ASSUME SessionTypes, NEW w, ReportsOK(w), NEW v, NEW o, NEW type, NEW status,
         NEW left, Told(v, w, o, type, status, left)
  PROVE  ReportsOK(v)
<1> USE DEF Told
<1>1. CASE server[o] = None
  BY <1>1 DEF Emit
<1>2. CASE server[o] # None
  <2>1. PICK s \in Sessions : s = server[o]
    BY <1>2 DEF SessionTypes
  <2>2. PICK n \in Nat : n = w.execId + 1
    BY DEF ReportsOK
  <2>3. PICK report : report = [exec |-> n, order |-> o, type |-> type,
                                status |-> status, leaves |-> left,
                                cum |-> form[o].qty - left]
    OBVIOUS
  <2>4. report \in Reports /\ report.exec = n
    <3>1. form[o].qty \in Nat
      BY ExchangeAssumption DEF Forms
    <3>2. form[o].qty - left \in Int
      BY <3>1
    <3> QED
      BY <2>3, <3>2 DEF Reports
  <2>5. PICK sent : sent = IF session[s] = "up"
                           THEN [w.sent EXCEPT ![s] = Append(@, report)]
                           ELSE w.sent
    OBVIOUS
  <2>6. Emit(w, o, type, status, left) = [execId |-> n, sent |-> sent]
    BY <1>2, <2>1, <2>2, <2>3, <2>5 DEF Emit
  <2>7. CASE session[s] # "up"
    <3>1. sent = w.sent
      BY <2>5, <2>7
    <3>2. ASSUME NEW t \in Sessions, NEW i \in 1..Len(sent[t])
          PROVE  sent[t][i].exec <= n
      <4>1. sent[t][i] \in Reports /\ sent[t][i].exec <= w.execId
        BY <3>1 DEF ReportsOK
      <4> QED
        BY <2>2, <4>1 DEF ReportsOK, Reports
    <3> QED
      BY <2>2, <2>6, <3>1, <3>2 DEF ReportsOK
  <2>8. CASE session[s] = "up"
    <3>1. /\ sent \in [Sessions -> Seq(Reports)]
          /\ sent[s] = Append(w.sent[s], report)
          /\ \A t \in Sessions \ {s} : sent[t] = w.sent[t]
      BY <2>4, <2>5, <2>8 DEF ReportsOK
    <3>2. /\ w.sent[s] \in Seq(Reports)
          /\ Len(sent[s]) = Len(w.sent[s]) + 1
          /\ sent[s][Len(w.sent[s]) + 1] = report
          /\ \A i \in 1..Len(w.sent[s]) : sent[s][i] = w.sent[s][i]
      BY <2>4, <3>1 DEF ReportsOK
    <3>3. ASSUME NEW t \in Sessions, NEW i \in 1..Len(sent[t])
          PROVE  \/ /\ i \in 1..Len(w.sent[t]) /\ sent[t][i] = w.sent[t][i]
                    /\ sent[t][i].exec < n
                 \/ t = s /\ i = Len(sent[s]) /\ sent[t][i].exec = n
      <4>1. CASE i \in 1..Len(w.sent[t])
        <5>1. sent[t][i] = w.sent[t][i]
          BY <3>1, <3>2, <4>1
        <5>2. w.sent[t][i] \in Reports
          BY <4>1 DEF ReportsOK
        <5>3. w.sent[t][i].exec <= w.execId /\ w.sent[t][i].exec \in Nat
          BY <4>1, <5>2 DEF ReportsOK, Reports
        <5> QED
          BY <2>2, <4>1, <5>1, <5>3 DEF ReportsOK
      <4>2. CASE i \notin 1..Len(w.sent[t])
        <5>1. t = s /\ i = Len(w.sent[s]) + 1
          BY <3>1, <3>2, <4>2
        <5> QED
          BY <2>4, <3>2, <5>1
      <4> QED
        BY <4>1, <4>2
    <3>4. ASSUME NEW t \in Sessions, NEW i \in 1..Len(sent[t])
          PROVE  sent[t][i].exec <= n
      <4>1. sent[t][i] \in Reports
        BY <3>1
      <4> QED
        BY <3>3, <4>1 DEF Reports
    <3>5. ASSUME NEW t \in Sessions, NEW u \in Sessions,
                 NEW i \in 1..Len(sent[t]), NEW j \in 1..Len(sent[u]),
                 sent[t][i].exec = sent[u][j].exec
          PROVE  t = u /\ i = j
      <4>1. CASE i \in 1..Len(w.sent[t]) /\ sent[t][i] = w.sent[t][i]
                 /\ sent[t][i].exec < n
        <5>1. j \in 1..Len(w.sent[u]) /\ sent[u][j] = w.sent[u][j]
          BY <3>3, <3>5, <4>1
        <5> QED
          BY <3>5, <4>1, <5>1 DEF ReportsOK
      <4>2. CASE t = s /\ i = Len(sent[s]) /\ sent[t][i].exec = n
        BY <3>3, <3>5, <4>2
      <4> QED
        BY <3>3, <4>1, <4>2
    <3> QED
      BY <2>2, <2>6, <3>1, <3>4, <3>5, SMTT(20) DEF ReportsOK
  <2> QED
    BY <2>7, <2>8
<1> QED
  BY <1>1, <1>2
LEMMA OutStep == SessionInv /\ BookInv /\ OutInv /\ [Next]_vars => OutInv'
<1> SUFFICES ASSUME SessionInv, BookInv, OutInv, [Next]_vars
             PROVE  OutInv'
  OBVIOUS
<1> USE DEF OutInv
<1>1. ASSUME UNCHANGED <<leaves, out>> PROVE OutInv'
  BY <1>1 DEF ReportsOK
<1>2. ASSUME NEW o, NEW type, NEW status, NEW left,
             Told(out', out, o, type, status, left),
             leaves' \in {leaves, [leaves EXCEPT ![o] = left]}
      PROVE  OutInv'
  <2>1. ReportsOK(out')
    BY <1>2, Reported DEF SessionInv
  <2>2. leaves' \in [OrderIds -> Int]
    BY <1>2 DEF Told
  <2> QED
    BY <2>1, <2>2 DEF ReportsOK
<1>3. ASSUME NEW s \in Sessions, NEW f \in Forms, NewOrderSingle(s, f)
      PROVE  OutInv'
  <2>1. UNCHANGED out /\ leaves' = [leaves EXCEPT ![lastId + 1] = f.qty]
    BY <1>3 DEF NewOrderSingle
  <2>2. f.qty \in Nat
    BY ExchangeAssumption DEF Forms
  <2>3. leaves' \in [OrderIds -> Int]
    BY <2>1, <2>2, f.qty \in Int
  <2> QED
    BY <2>1, <2>3 DEF ReportsOK
<1>4. ASSUME NEW s \in Sessions, Submit(s) \/ Refuse(s) PROVE OutInv'
  <2>1. PICK o : o = handler[s].order
    OBVIOUS
  <2>2. o \in OrderIds /\ form[o] \in Forms /\ leaves[o] \in Int
    BY <1>4, <2>1, Handled DEF Submit, Refuse, BookInv
  <2>3. CASE Submit(s)
    <3>1. Told(out', out, o, "NEW", "PENDING_NEW", leaves[o]) /\ leaves' = leaves
      BY <2>1, <2>2, <2>3 DEF Submit, Told, ExecTypes, OrdStatuses
    <3> QED
      BY <1>2, <3>1
  <2>4. CASE Refuse(s)
    <3>1. /\ Told(out', out, o, "REJECTED", "REJECTED", 0)
          /\ leaves' = [leaves EXCEPT ![o] = 0]
      BY <2>1, <2>2, <2>4 DEF Refuse, Told, ExecTypes, OrdStatuses
    <3> QED
      BY <1>2, <3>1
  <2> QED
    BY <1>4, <2>3, <2>4
<1>5. ASSUME NEW s \in Sessions, OnAccept(s) \/ OnReject(s) PROVE OutInv'
  <2>1. PICK o : o = handler[s].order
    OBVIOUS
  <2>2. o \in OrderIds /\ form[o] \in Forms /\ leaves[o] \in Int
    BY <1>5, <2>1, Handled DEF OnAccept, OnReject, Calling, BookInv
  <2>3. CASE OnAccept(s)
    <3>1. Told(out', out, o, "PENDING_NEW", "NEW", leaves[o]) /\ leaves' = leaves
      BY <2>1, <2>2, <2>3 DEF OnAccept, Told, ExecTypes, OrdStatuses
    <3> QED
      BY <1>2, <3>1
  <2>4. CASE OnReject(s)
    <3>1. /\ Told(out', out, o, "REJECTED", "REJECTED", 0)
          /\ leaves' = [leaves EXCEPT ![o] = 0]
      BY <2>1, <2>2, <2>4 DEF OnReject, Told, ExecTypes, OrdStatuses
    <3> QED
      BY <1>2, <3>1
  <2> QED
    BY <1>5, <2>3, <2>4
<1>6. ASSUME NEW s \in Sessions, OnFill(s) PROVE OutInv'
  <2>1. PICK o, y, old, c : /\ o = handler[s].order /\ y = form[o].sym
                            /\ old = callbacks[y] /\ c = old[1]
    OBVIOUS
  <2>2. Calling(s, "fill")
    BY <1>6 DEF OnFill
  <2>3. /\ o \in OrderIds /\ form[o] \in Forms
        /\ c = Head(old) /\ c \in CallbackRecords
        /\ c.other \in OrderIds /\ form[c.other] \in Forms
    BY <2>1, <2>2, CallbackMade
  <2>4. PICK r, n, lo, lr : /\ r = c.other /\ n = c.qty
                            /\ lo = leaves[o] - n /\ lr = leaves[r] - n
    OBVIOUS
  <2>5. lo \in Int /\ lr \in Int
    BY <2>3, <2>4 DEF CallbackRecords
  <2>6. PICK w, so, sr : /\ so = FillStatus(lo) /\ sr = FillStatus(lr)
                         /\ w = Emit(out, o, "TRADE", so, lo)
    OBVIOUS
  <2>7. so \in OrdStatuses /\ sr \in OrdStatuses
    BY <2>6 DEF FillStatus, OrdStatuses
  <2>8. leaves' = [leaves EXCEPT ![o] = lo, ![r] = lr]
    BY <1>6, <2>1, <2>3, <2>4 DEF OnFill
  <2>9. out' = Emit(w, r, "TRADE", sr, lr)
    BY <1>6, <2>1, <2>3, <2>4, <2>6 DEF OnFill, OnFilled
  <2>10. Told(w, out, o, "TRADE", so, lo) /\ Told(out', w, r, "TRADE", sr, lr)
    BY <2>3, <2>4, <2>5, <2>6, <2>7, <2>9 DEF Told, ExecTypes
  <2>11. ReportsOK(w)
    BY <2>10, Reported DEF SessionInv
  <2>12. ReportsOK(out')
    BY <2>10, <2>11, Reported DEF SessionInv
  <2> QED
    BY <2>3, <2>4, <2>5, <2>8, <2>12 DEF ReportsOK
<1>7. ASSUME NEW s \in Sessions,
             \/ EnterBook(s) \/ (\E r \in OrderIds : Match(s, r)) \/ Rest(s)
             \/ Finish(s) \/ Disconnect(s) \/ CloseStep(s)
      PROVE  OutInv'
  BY <1>1, <1>7
  DEF EnterBook, Match, MatchWith, Rest, Finish, Disconnect, CloseStep, CloseSession, Unlink,
      EndSession, orderVars
<1>8. ASSUME NEW o \in OrderIds, o \in 1..lastId
      PROVE  form[o] \in Forms /\ leaves[o] \in Int
  BY <1>8, ExchangeAssumption
  DEF SessionInv, SessionTypes, BookInv, BookTypes, OrderIds
<1>9. ASSUME NEW o \in OrderIds, CancelOrder(o) PROVE OutInv'
  <2>1. o \in 1..lastId /\ leaves' = [leaves EXCEPT ![o] = 0]
    BY <1>9 DEF CancelOrder, Request, OrderIds, SessionInv, SessionTypes
  <2>2. Told(out', out, o, "CANCELED", "CANCELED", 0)
    BY <1>8, <1>9, <2>1 DEF CancelOrder, Told, ExecTypes, OrdStatuses
  <2> QED
    BY <1>2, <2>1, <2>2
<1>10. ASSUME NEW o \in OrderIds,
              \/ ModifyOrder(o) \/ RequestRejected(o, "CancelRejected")
              \/ RequestRejected(o, "ModifyRejected")
       PROVE  OutInv'
  <2>1. leaves' = leaves /\ o \in 1..lastId
    BY <1>10 DEF ModifyOrder, RequestRejected, Request, OrderIds, SessionInv,
                 SessionTypes
  <2>2. \/ Told(out', out, o, "REPLACED", "REPLACED", leaves[o])
        \/ Told(out', out, o, "REJECTED", "REJECTED", leaves[o])
    BY <1>8, <1>10, <2>1 DEF ModifyOrder, RequestRejected, Told, ExecTypes, OrdStatuses
  <2> QED
    BY <1>2, <2>1, <2>2
<1>11. CASE UNCHANGED vars
  BY <1>1, <1>11 DEF vars, orderVars
<1> QED
  BY <1>3, <1>4, <1>5, <1>6, <1>7, <1>9, <1>10, <1>11 DEF Next, HandlerStep

(* No two execution reports have the same ExecID, whichever sessions they  *)
(* go to and whichever threads send them.                                  *)
THEOREM ReportsUnique == Spec => []ExecIdsUnique
<1>1. OutInv => ExecIdsUnique
  <2> SUFFICES ASSUME OutInv, NEW s \in Sessions, NEW t \in Sessions,
                      NEW i \in DOMAIN out.sent[s], NEW j \in DOMAIN out.sent[t],
                      out.sent[s][i].exec = out.sent[t][j].exec
               PROVE  s = t /\ i = j
    BY DEF ExecIdsUnique
  <2>1. out.sent[s] \in Seq(Reports) /\ out.sent[t] \in Seq(Reports)
    BY DEF OutInv, ReportsOK
  <2>2. i \in 1..Len(out.sent[s]) /\ j \in 1..Len(out.sent[t])
    BY <2>1
  <2> QED
    BY <2>2 DEF OutInv, ReportsOK
<1> QED
  BY <1>1, OutInit, OutStep, BookAlways, PTL DEF Spec

-----------------------------------------------------------------------------
(* The feed.                                                               *)

(* The conversion to a price of the feed stays within 32 bits: the cast    *)
(* does, and the quotient is no farther from zero.                         *)
LEMMA ItchPriceFits ==
  ASSUME NEW p \in Int
  PROVE  to_itch_price(p) \in -Half .. Half - 1
<1>1. Int32(p) \in -Half .. Half - 1
  BY LatinexConfigAssumption DEF Int32
<1>2. \A i \in Nat : i \div Ratio \in 0..i
  BY LatinexConfigAssumption
<1>3. PICK i \in -Half .. Half - 1 : i = Int32(p)
  BY <1>1
<1>4. CASE i >= 0
  BY <1>2, <1>3, <1>4, LatinexConfigAssumption DEF to_itch_price, Quotient
<1>5. CASE i < 0
  <2>1. -i \in Nat /\ -i <= Half
    BY <1>5, LatinexConfigAssumption
  <2>2. PICK q \in 0..(-i) : q = (-i) \div Ratio
    BY <1>2, <2>1
  <2>3. to_itch_price(p) = -q
    BY <1>3, <1>5, <2>2 DEF to_itch_price, Quotient
  <2> QED
    BY <2>1, <2>2, <2>3, LatinexConfigAssumption
<1> QED
  BY <1>3, <1>4, <1>5, LatinexConfigAssumption

Announced(f, o) == \E j \in 1..Len(f) : f[j].type = "add_order" /\ f[j].order = o

FeedOK(f) ==
  /\ f \in Seq(FeedMessages)
  /\ \A i \in 1..Len(f) : f[i].type = "order_executed" =>
       \E j \in 1 .. i - 1 : f[j].type = "add_order" /\ f[j].order = f[i].order

(* An order whose fills are next to be told has been announced.            *)
FeedInv ==
  /\ FeedOK(feed)
  /\ \A s \in Sessions :
       LET o == handler[s].order
           cb == callbacks[form[o].sym]
       IN  handler[s].at = "call" /\ cb # <<>> /\ cb[1].kind = "fill" =>
             Announced(feed, o)

LEMMA FeedInit == Init => FeedInv
  BY DEF Init, FeedInv, FeedOK, Idle

(* g is f with one more message, which may be an execution of an order f   *)
(* has announced.                                                          *)
Published(g, f, m) ==
  /\ m \in FeedMessages
  /\ m.type = "order_executed" => Announced(f, m.order)
  /\ g = f \o <<m>>

LEMMA FeedGrows ==
  ASSUME NEW f, FeedOK(f), NEW m, NEW g, Published(g, f, m)
  PROVE  /\ FeedOK(g)
         /\ \A o : Announced(f, o) => Announced(g, o)
         /\ m.type = "add_order" => Announced(g, m.order)
<1>1. /\ f \in Seq(FeedMessages) /\ g \in Seq(FeedMessages)
      /\ Len(f) \in Nat /\ Len(g) = Len(f) + 1
      /\ g[Len(f) + 1] = m
      /\ \A i \in 1..Len(f) : g[i] = f[i]
  BY DEF FeedOK, Published
<1>2. \A o : Announced(f, o) => Announced(g, o)
  BY <1>1 DEF Announced
<1>3. m.type = "add_order" => Announced(g, m.order)
  BY <1>1 DEF Announced
<1>4. ASSUME NEW i \in 1..Len(g), g[i].type = "order_executed"
      PROVE  \E j \in 1 .. i - 1 : g[j].type = "add_order" /\ g[j].order = g[i].order
  <2>1. CASE i \in 1..Len(f)
    <3>1. PICK j \in 1 .. i - 1 : f[j].type = "add_order" /\ f[j].order = f[i].order
      BY <1>1, <1>4, <2>1 DEF FeedOK
    <3> QED
      BY <1>1, <2>1, <3>1
  <2>2. CASE i = Len(f) + 1
    <3>1. PICK j \in 1..Len(f) : f[j].type = "add_order" /\ f[j].order = m.order
      BY <1>1, <1>4, <2>2 DEF Published, Announced
    <3> QED
      BY <1>1, <2>2, <3>1
  <2> QED
    BY <1>1, <2>1, <2>2
<1> QED
  BY <1>1, <1>2, <1>3, <1>4 DEF FeedOK

(* A step of the thread of session s in book y, with its order o, that     *)
(* leaves cb queued.                                                       *)
WorksOn(s, o, y, cb) ==
  /\ o = handler[s].order /\ y = form[o].sym
  /\ handler[s].at \in {"lock", "match", "call"}
  /\ handler[s].at = "lock" => ~Busy(y)
  /\ handler'[s].order = o
  /\ \A t \in Sessions \ {s} : handler'[t] = handler[t]
  /\ callbacks' = [callbacks EXCEPT ![y] = cb]
  /\ UNCHANGED form

(* A match is such a step.                                                 *)
LEMMA MatchWorks ==
  ASSUME SessionInv, NEW s \in Sessions, NEW r, Match(s, r), NEW o, NEW y, NEW cb,
         o = handler[s].order, y = form[o].sym,
         cb = Append(callbacks[y],
                     Callback("fill", o, r, Smaller(open[o], open[r])))
  PROVE  /\ WorksOn(s, o, y, cb) /\ UNCHANGED <<lastId, history, feed>>
         /\ handler[s].at = "match" /\ handler'[s].at \in {"match", "call"}
<1>1. handler \in [Sessions -> [at : Places, order : OrderIds \cup {NoOrder}]]
  BY DEF SessionInv, SessionTypes
<1>2. /\ handler[s].at = "match" /\ callbacks' = [callbacks EXCEPT ![y] = cb]
      /\ UNCHANGED <<lastId, form, history, feed>>
  BY DEF Match, MatchWith, orderVars
<1>3. PICK l : /\ l \in {"match", "call"}
               /\ handler' = [handler EXCEPT ![s].at = l]
  <2>1. PICK n : handler' = [handler EXCEPT ![s].at = IF open[o] = n THEN "call" ELSE @]
    BY DEF Match, MatchWith
  <2>2. CASE open[o] = n
    BY <1>1, <2>1, <2>2
  <2>3. CASE open[o] # n
    <3>1. handler' = [handler EXCEPT ![s].at = "match"]
      BY <1>1, <1>2, <2>1, <2>3
    <3> QED
      BY <3>1
  <2> QED
    BY <2>2, <2>3
<1>4. /\ handler'[s].at = l /\ handler'[s].order = o
      /\ \A t \in Sessions \ {s} : handler'[t] = handler[t]
  BY <1>1, <1>3
<1> QED
  BY <1>2, <1>3, <1>4 DEF WorksOn

(* The other threads and what is queued for them are not touched.          *)
LEMMA OthersKept ==
  ASSUME SessionInv, BookInv, NEW s \in Sessions, NEW o, NEW y, NEW cb,
         WorksOn(s, o, y, cb)
  PROVE  /\ callbacks'[y] = cb
         /\ \A t \in Sessions \ {s} : InABook(t) =>
              callbacks'[form[handler[t].order].sym]
                = callbacks[form[handler[t].order].sym]
<1>1. o \in OrderIds /\ y \in Symbols
  BY Handled DEF WorksOn, BookInv
<1>2. ASSUME NEW t \in Sessions \ {s}, InABook(t)
      PROVE  form[handler[t].order].sym # y
  BY <1>2 DEF WorksOn, BookInv, Alone, InABook, Busy, InBook
<1>3. ASSUME NEW t \in Sessions, InABook(t)
      PROVE  form[handler[t].order].sym \in Symbols
  BY <1>3, Handled DEF InABook, BookInv
<1> QED
  BY <1>1, <1>2, <1>3 DEF WorksOn, BookInv, BookTypes

LEMMA FeedWorked ==
  ASSUME SessionInv, BookInv, FeedInv, NEW s \in Sessions, NEW o, NEW y, NEW cb,
         WorksOn(s, o, y, cb), FeedOK(feed'),
         \A q : Announced(feed, q) => Announced(feed', q),
         handler'[s].at = "call" /\ cb # <<>> /\ cb[1].kind = "fill" =>
           Announced(feed', o)
  PROVE  FeedInv'
<1>1. ASSUME NEW t \in Sessions, handler'[t].at = "call",
             callbacks'[form[handler'[t].order].sym] # <<>>,
             callbacks'[form[handler'[t].order].sym][1].kind = "fill"
      PROVE  Announced(feed', handler'[t].order)
  <2>1. CASE t = s
    <3>1. callbacks'[y] = cb
      BY OthersKept
    <3> QED
      BY <1>1, <2>1, <3>1 DEF WorksOn
  <2>2. CASE t # s
    <3>1. handler'[t] = handler[t] /\ InABook(t)
      BY <1>1, <2>2 DEF WorksOn, InABook
    <3>2. callbacks'[form[handler[t].order].sym]
            = callbacks[form[handler[t].order].sym]
      BY <2>2, <3>1, OthersKept
    <3> QED
      BY <1>1, <3>1, <3>2 DEF FeedInv
  <2> QED
    BY <2>1, <2>2
<1>2. FeedOK(feed)'
  BY DEF FeedOK
<1> QED
  BY <1>1, <1>2 DEF FeedInv, WorksOn, Announced

LEMMA FeedStep == SessionInv /\ BookInv /\ FeedInv /\ [Next]_vars => FeedInv'
<1> SUFFICES ASSUME SessionInv, BookInv, FeedInv, [Next]_vars
             PROVE  FeedInv'
  OBVIOUS
<1>0. ASSUME UNCHANGED feed
      PROVE  FeedOK(feed') /\ \A q : Announced(feed, q) => Announced(feed', q)
  BY <1>0 DEF FeedInv
<1>1. ASSUME FeedOK(feed'), UNCHANGED callbacks,
             \A q : Announced(feed, q) => Announced(feed', q),
             \A t \in Sessions : handler'[t].at = "call" =>
               /\ handler'[t] = handler[t]
               /\ form'[handler[t].order] = form[handler[t].order]
      PROVE  FeedInv'
  <2>1. FeedOK(feed)'
    BY <1>1 DEF FeedOK
  <2>2. ASSUME NEW t \in Sessions, handler'[t].at = "call",
               callbacks'[form'[handler'[t].order].sym] # <<>>,
               callbacks'[form'[handler'[t].order].sym][1].kind = "fill"
        PROVE  Announced(feed', handler'[t].order)
    BY <1>1, <2>2 DEF FeedInv
  <2> QED
    BY <2>1, <2>2 DEF FeedInv, Announced
<1>2. ASSUME NEW s \in Sessions, NEW f \in Forms, NewOrderSingle(s, f)
      PROVE  FeedInv'
  <2>1. UNCHANGED <<callbacks, feed>>
    BY <1>2 DEF NewOrderSingle
  <2>2. ASSUME NEW t \in Sessions, handler'[t].at = "call"
        PROVE  handler'[t] = handler[t]
               /\ form'[handler[t].order] = form[handler[t].order]
    <3>1. handler'[t] = handler[t]
      BY <1>2, <2>2 DEF NewOrderSingle, SessionInv, SessionTypes
    <3>2. handler[t].order \in 1..lastId /\ handler[t].order \in OrderIds
      BY <2>2, <3>1, Handled DEF SessionInv, BookInv
    <3>3. handler[t].order # lastId + 1
      BY <3>2, ExchangeAssumption DEF SessionInv, SessionTypes
    <3> QED
      BY <1>2, <3>1, <3>2, <3>3 DEF NewOrderSingle, BookInv, BookTypes
  <2> QED
    BY <1>0, <1>1, <2>1, <2>2
<1>3. ASSUME UNCHANGED <<form, callbacks, feed>>,
             \A t \in Sessions : handler'[t].at = "call" => handler'[t] = handler[t]
      PROVE  FeedInv'
  BY <1>0, <1>1, <1>3
<1>4. ASSUME NEW s \in Sessions,
             \/ Submit(s) \/ Refuse(s) \/ Finish(s)
             \/ Disconnect(s) \/ CloseStep(s)
      PROVE  FeedInv'
  <2>1. UNCHANGED <<form, callbacks, feed>>
    BY <1>4 DEF Submit, Refuse, Finish, Disconnect, CloseStep, CloseSession, Unlink,
      EndSession, orderVars
  <2>2. \A t \in Sessions : handler'[t].at = "call" => handler'[t] = handler[t]
    BY <1>4
    DEF Submit, Refuse, Finish, Disconnect, CloseStep, CloseSession, Unlink,
      EndSession, SessionInv, SessionTypes,
        Idle
  <2> QED
    BY <1>3, <2>1, <2>2
<1>5. ASSUME NEW s \in Sessions, EnterBook(s) PROVE FeedInv'
  <2>1. PICK o, y, kind, cb :
          /\ o = handler[s].order /\ y = form[o].sym
          /\ kind = IF form[o].qty = 0 THEN "reject" ELSE "accept"
          /\ cb = <<Callback(kind, o, NoOrder, 0)>>
    OBVIOUS
  <2>2. WorksOn(s, o, y, cb)
    BY <1>5, <2>1 DEF EnterBook, WorksOn, orderVars, SessionInv, SessionTypes
  <2>3. cb[1].kind # "fill" /\ UNCHANGED feed
    BY <1>5, <2>1 DEF EnterBook, Callback
  <2> QED
    BY <1>0, <2>2, <2>3, FeedWorked
<1>6. ASSUME NEW s \in Sessions, NEW r \in OrderIds, Match(s, r) PROVE FeedInv'
  <2>1. PICK o, y, old, c, cb :
          /\ o = handler[s].order /\ y = form[o].sym /\ old = callbacks[y]
          /\ c = Callback("fill", o, r, Smaller(open[o], open[r]))
          /\ cb = Append(old, c)
    OBVIOUS
  <2>2. WorksOn(s, o, y, cb) /\ UNCHANGED feed /\ handler[s].at = "match"
    BY <1>6, <2>1, MatchWorks
  <2>3. /\ old # <<>> /\ old[1].kind = "accept"
        /\ old \in Seq(CallbackRecords)
    BY <2>1, <2>2, Handled DEF BookInv, BookTypes, Queued, InABook
  <2>4. cb[1] = old[1]
    <3>1. cb = Append(old, c)
      BY <2>1
    <3>2. old \in Seq(CallbackRecords) /\ old # <<>>
      BY <2>3
    <3> QED
      BY <3>1, <3>2
  <2> QED
    BY <1>0, <2>2, <2>3, <2>4, FeedWorked
<1>7. ASSUME NEW s \in Sessions, Rest(s) PROVE FeedInv'
  <2>1. PICK o, y, cb : o = handler[s].order /\ y = form[o].sym /\ cb = callbacks[y]
    OBVIOUS
  <2>2. y \in Symbols /\ handler[s].at = "match"
    BY <1>7, <2>1, Handled DEF Rest, BookInv
  <2>3. WorksOn(s, o, y, cb) /\ UNCHANGED feed
    BY <1>7, <2>1, <2>2
    DEF Rest, WorksOn, orderVars, SessionInv, SessionTypes, BookInv, BookTypes
  <2>4. cb[1].kind = "accept"
    BY <2>1, <2>2 DEF BookInv, Queued, InABook
  <2> QED
    BY <1>0, <2>3, <2>4, FeedWorked
<1>8. ASSUME NEW s \in Sessions, NEW k, Calling(s, k), UNCHANGED <<form, handler>>
      PROVE  \E o, y, old, c :
               /\ o = handler[s].order /\ y = form[o].sym
               /\ old = callbacks[y] /\ c = old[1]
               /\ o \in OrderIds /\ form[o] \in Forms /\ y \in Symbols
               /\ c = Head(old) /\ c \in CallbackRecords
               /\ c.kind = k
               /\ k = "fill" => Announced(feed, o)
               /\ k = "reject" => Tail(old) = <<>>
               /\ WorksOn(s, o, y, Tail(old))
  <2>1. PICK o, y, old, c : /\ o = handler[s].order /\ y = form[o].sym
                            /\ old = callbacks[y] /\ c = old[1]
    OBVIOUS
  <2>2. /\ handler[s].at = "call"
        /\ o \in OrderIds /\ form[o] \in Forms /\ y \in Symbols
        /\ old \in Seq(CallbackRecords) /\ old # <<>> /\ Queue(old, o)
        /\ c = Head(old) /\ c \in CallbackRecords /\ c.kind = k
    <3>1. Calling(s, k)
      BY <1>8
    <3> QED
      BY <2>1, <3>1, CallbackMade
  <2>3. k = "fill" => Announced(feed, o)
    BY <2>1, <2>2 DEF FeedInv
  <2>4. k = "reject" => Tail(old) = <<>>
    <3>1. k = "reject" => Len(old) = 1
      <4>1. Queue(old, o) /\ old[1].kind = k
        BY <2>1, <2>2
      <4>2. old \in Seq(CallbackRecords) /\ old # <<>>
        BY <2>2
      <4>3. 1 \in 1..Len(old)
        BY <4>2
      <4> QED
        BY <4>1, <4>3 DEF Queue
    <3>2. Tail(old) \in Seq(CallbackRecords) /\ Len(Tail(old)) = Len(old) - 1
      BY <2>2
    <3> QED
      BY <3>1, <3>2
  <2>5. WorksOn(s, o, y, Tail(old))
    BY <1>8, <2>1, <2>2 DEF WorksOn, Calling
  <2> QED
    BY <2>1, <2>2, <2>3, <2>4, <2>5
<1>9. ASSUME NEW s \in Sessions, OnAccept(s) PROVE FeedInv'
  <2>1. Calling(s, "accept") /\ UNCHANGED <<form, handler>>
    BY <1>9 DEF OnAccept
  <2>2. PICK o, y, old, c :
          /\ o = handler[s].order /\ y = form[o].sym
          /\ o \in OrderIds /\ form[o] \in Forms /\ y \in Symbols
          /\ WorksOn(s, o, y, Tail(old))
    BY <1>8, <2>1
  <2>3. PICK m : m = [type |-> "add_order", order |-> o, sym |-> form[o].sym,
                      shares |-> form[o].qty, buy |-> form[o].buy,
                      price |-> to_itch_price(form[o].px)]
    OBVIOUS
  <2>4. m \in FeedMessages
    <3>1. /\ form[o].qty \in Nat /\ form[o].px \in Nat
          /\ form[o].buy \in BOOLEAN /\ form[o].sym \in Symbols
      BY <2>2, ExchangeAssumption DEF Forms
    <3>2. to_itch_price(form[o].px) \in -Half .. Half - 1
      BY <3>1, ItchPriceFits
    <3> QED
      BY <2>2, <2>3, <3>1, <3>2 DEF FeedMessages
  <2>5. Published(feed', feed, m)
    BY <1>9, <2>2, <2>3, <2>4 DEF OnAccept, FeedAccept, Published
  <2>6. /\ FeedOK(feed') /\ Announced(feed', o)
        /\ \A q : Announced(feed, q) => Announced(feed', q)
    BY <2>3, <2>5, FeedGrows DEF FeedInv
  <2> QED
    BY <2>2, <2>6, FeedWorked
<1>10. ASSUME NEW s \in Sessions, OnReject(s) PROVE FeedInv'
  <2>1. Calling(s, "reject") /\ UNCHANGED <<form, handler, feed>>
    BY <1>10 DEF OnReject
  <2>2. PICK o, y, old, c : Tail(old) = <<>> /\ WorksOn(s, o, y, Tail(old))
    BY <1>8, <2>1
  <2> QED
    BY <1>0, <2>1, <2>2, FeedWorked
<1>11. ASSUME NEW s \in Sessions, OnFill(s) PROVE FeedInv'
  <2>1. Calling(s, "fill") /\ UNCHANGED <<form, handler>>
    BY <1>11 DEF OnFill
  <2>2. PICK o, y, old, c :
          /\ o = handler[s].order /\ y = form[o].sym
          /\ old = callbacks[y] /\ c = Head(old) /\ c \in CallbackRecords
          /\ o \in OrderIds /\ y \in Symbols
          /\ Announced(feed, o)
          /\ WorksOn(s, o, y, Tail(old))
    BY <1>8, <2>1
  <2>3. PICK n, m1, m2, f : /\ n = c.qty
                            /\ m1 = Itch("order_executed", o, y, n)
                            /\ m2 = Itch("trade", NoOrder, y, n)
                            /\ f = feed \o <<m1>>
    OBVIOUS
  <2>4. m1 \in FeedMessages /\ m2 \in FeedMessages
    BY <2>2, <2>3 DEF FeedMessages, Itch, CallbackRecords
  <2>5. feed' = f \o <<m2>>
    BY <1>11, <2>2, <2>3 DEF OnFill, FeedFill, FeedTrade
  <2>6. Published(f, feed, m1) /\ Published(feed', f, m2)
    BY <2>2, <2>3, <2>4, <2>5 DEF Published, Itch
  <2>7. FeedOK(f) /\ \A q : Announced(feed, q) => Announced(f, q)
    BY <2>6, FeedGrows DEF FeedInv
  <2>8. FeedOK(feed') /\ \A q : Announced(f, q) => Announced(feed', q)
    BY <2>6, <2>7, FeedGrows
  <2> QED
    BY <2>2, <2>7, <2>8, FeedWorked
<1>12. ASSUME NEW o \in OrderIds, CancelOrder(o) \/ ModifyOrder(o) PROVE FeedInv'
  <2>1. PICK m : /\ \/ m = Itch("order_cancel", NoOrder, None, 0)
                    \/ m = Itch("order_replace", NoOrder, None, 0)
                 /\ feed' = feed \o <<m>>
    BY <1>12 DEF CancelOrder, ModifyOrder, FeedCancel, FeedReplace
  <2>2. Published(feed', feed, m)
    BY <2>1 DEF Published, Itch, FeedMessages
  <2>3. FeedOK(feed') /\ \A q : Announced(feed, q) => Announced(feed', q)
    BY <2>2, FeedGrows DEF FeedInv
  <2>4. UNCHANGED <<form, handler, callbacks>>
    BY <1>12 DEF CancelOrder, ModifyOrder, Request
  <2> QED
    BY <1>1, <2>3, <2>4
<1>13. ASSUME NEW o \in OrderIds,
              \/ RequestRejected(o, "CancelRejected")
              \/ RequestRejected(o, "ModifyRejected")
       PROVE  FeedInv'
  BY <1>3, <1>13 DEF RequestRejected, Request
<1>14. CASE UNCHANGED vars
  BY <1>3, <1>14 DEF vars, orderVars
<1> QED
  BY <1>2, <1>4, <1>5, <1>6, <1>7, <1>9, <1>10, <1>11, <1>12, <1>13, <1>14
  DEF Next, HandlerStep

(* Whatever the other sessions do meanwhile, the feed announces an order   *)
(* before it reports an execution of it.                                   *)
THEOREM FeedAnnounces == Spec => []AnnouncedFirst
<1>1. FeedInv => AnnouncedFirst
  BY DEF FeedInv, FeedOK, AnnouncedFirst
<1> QED
  BY <1>1, FeedInit, FeedStep, BookAlways, PTL DEF Spec

-----------------------------------------------------------------------------
(* Histories.                                                              *)

Refused == {"CancelRejected", "ModifyRejected"}

LegalHistory(h) ==
  /\ h \in Seq(States)
  /\ \A i \in 1..Len(h) :
       /\ h[i] = "Submitted" <=> i = 1 /\ h[1] # "Rejected"
       /\ h[i] = "Accepted" => i = 2
       /\ i > 2 => h[2] = "Accepted"
       /\ h[i] \in {"Rejected", "Cancelled"} =>
            \A j \in i + 1 .. Len(h) : h[j] \in Refused

(* The history of an order that is accepted and not cancelled.             *)
Live(h) ==
  /\ h \in Seq(States) /\ Len(h) >= 2
  /\ h[1] = "Submitted" /\ h[2] = "Accepted"
  /\ \A i \in 3..Len(h) : h[i] \in {"Filled", "Modified"} \cup Refused

LEMMA HistoryBegins ==
  /\ LegalHistory(<<>>) /\ ~Live(<<>>)
  /\ LegalHistory(<<"Submitted">>) /\ ~Live(<<"Submitted">>)
  /\ LegalHistory(<<"Rejected">>)
  /\ LegalHistory(<<"Submitted", "Rejected">>)
  /\ Live(<<"Submitted", "Accepted">>)
<1>1. LegalHistory(<<>>) /\ ~Live(<<>>) /\ ~Live(<<"Submitted">>)
  BY DEF LegalHistory, Live
<1>2. LegalHistory(<<"Submitted">>)
  BY DEF LegalHistory, States
<1>3. LegalHistory(<<"Rejected">>)
  BY DEF LegalHistory, States
<1>4. LegalHistory(<<"Submitted", "Rejected">>)
  BY DEF LegalHistory, States
<1>5. Live(<<"Submitted", "Accepted">>)
  BY DEF Live, States
<1> QED
  BY <1>1, <1>2, <1>3, <1>4, <1>5

(* What the book answers to an order that was submitted.                   *)
LEMMA HistoryAnswered ==
  /\ Live(Append(<<"Submitted">>, "Accepted"))
  /\ LegalHistory(Append(<<"Submitted">>, "Rejected"))
<1>1. PICK h : h = <<"Submitted">>
  OBVIOUS
<1>2. h \in Seq(States) /\ Len(h) = 1 /\ h[1] = "Submitted"
  BY <1>1 DEF States
<1>3. ASSUME NEW x \in States
      PROVE  /\ Append(h, x) \in Seq(States) /\ Len(Append(h, x)) = 2
             /\ Append(h, x)[1] = "Submitted" /\ Append(h, x)[2] = x
  <2>1. /\ Append(h, x) \in Seq(States) /\ Len(Append(h, x)) = Len(h) + 1
        /\ Append(h, x)[Len(h) + 1] = x
        /\ \A i \in 1..Len(h) : Append(h, x)[i] = h[i]
    <3>1. h \in Seq(States) /\ x \in States
      BY <1>2, <1>3
    <3> QED
      BY <3>1
  <2> QED
    BY <1>2, <2>1
<1>4. Live(Append(h, "Accepted"))
  <2>1. "Accepted" \in States
    BY DEF States
  <2> QED
    BY <1>3, <2>1 DEF Live
<1>5. LegalHistory(Append(h, "Rejected"))
  <2>1. "Rejected" \in States
    BY DEF States
  <2>2. PICK g : g = Append(h, "Rejected")
    OBVIOUS
  <2>3. g \in Seq(States) /\ Len(g) = 2 /\ g[1] = "Submitted" /\ g[2] = "Rejected"
    BY <1>3, <2>1, <2>2
  <2>4. \A i \in 1..Len(g) : i = 1 \/ i = 2
    BY <2>3
  <2>5. LegalHistory(g)
    BY <2>3, <2>4 DEF LegalHistory
  <2> QED
    BY <2>2, <2>5
<1> QED
  BY <1>1, <1>4, <1>5

LEMMA LiveIsLegal ==
  ASSUME NEW h, Live(h)
  PROVE  LegalHistory(h)
<1>1. \A i \in 1..Len(h) : i = 1 \/ i = 2 \/ i \in 3..Len(h)
  BY DEF Live
<1>2. \A i \in 1..Len(h) : /\ h[i] = "Submitted" <=> i = 1
                           /\ h[i] = "Accepted" <=> i = 2
                           /\ h[i] \notin {"Rejected", "Cancelled"}
  BY <1>1 DEF Live, Refused
<1> QED
  BY <1>2 DEF Live, LegalHistory

(* What is recorded of an order in the book or once in the book.           *)
LEMMA LiveGrows ==
  ASSUME NEW h, Live(h), NEW x \in {"Filled", "Modified"} \cup Refused
  PROVE  Live(Append(h, x))
<1>1. /\ Len(Append(h, x)) = Len(h) + 1 /\ Len(h) \in Nat
      /\ Append(h, x)[Len(h) + 1] = x
      /\ \A i \in 1..Len(h) : Append(h, x)[i] = h[i]
      /\ Append(h, x) \in Seq(States)
  BY DEF Live, States, Refused
<1> QED
  BY <1>1 DEF Live

LEMMA LegalGrows ==
  ASSUME NEW h, LegalHistory(h), NEW x,
         \/ x = "Cancelled" /\ Live(h)
         \/ x \in Refused /\ \E i \in 1..Len(h) : h[i] = "Accepted"
  PROVE  LegalHistory(Append(h, x))
<1> DEFINE g == Append(h, x)
<1>1. x \in States /\ x \notin {"Submitted", "Accepted", "Rejected"}
  BY DEF States, Refused
<1>2. /\ Len(g) = Len(h) + 1 /\ Len(h) \in Nat
      /\ g[Len(h) + 1] = x
      /\ \A i \in 1..Len(h) : g[i] = h[i]
      /\ g \in Seq(States)
  BY <1>1 DEF LegalHistory
<1>3. Len(h) >= 2 /\ h[2] = "Accepted"
  BY <1>2 DEF Live, LegalHistory
<1>4. x = "Cancelled" => \A i \in 1..Len(h) : h[i] \notin {"Rejected", "Cancelled"}
  <2> SUFFICES ASSUME Live(h), NEW i \in 1..Len(h)
               PROVE  h[i] \notin {"Rejected", "Cancelled"}
    BY DEF Refused
  <2>1. i = 1 \/ i = 2 \/ i \in 3..Len(h)
    BY DEF Live
  <2> QED
    BY <2>1 DEF Live, Refused
<1> HIDE DEF g
<1>5. ASSUME NEW i \in 1..Len(g)
      PROVE  /\ g[i] = "Submitted" <=> i = 1 /\ g[1] # "Rejected"
             /\ g[i] = "Accepted" => i = 2
             /\ i > 2 => g[2] = "Accepted"
             /\ g[i] \in {"Rejected", "Cancelled"} =>
                  \A j \in i + 1 .. Len(g) : g[j] \in Refused
  <2>1. CASE i \in 1..Len(h)
    <3>1. ASSUME g[i] \in {"Rejected", "Cancelled"}, NEW j \in i + 1 .. Len(g)
          PROVE  g[j] \in Refused
      <4>1. x # "Cancelled" /\ h[i] \in {"Rejected", "Cancelled"}
        BY <1>2, <1>4, <2>1, <3>1
      <4>2. CASE j \in 1..Len(h)
        BY <1>2, <2>1, <4>1, <4>2 DEF LegalHistory
      <4>3. CASE j = Len(h) + 1
        BY <1>2, <4>1, <4>3
      <4> QED
        BY <1>2, <2>1, <4>2, <4>3
    <3>2. /\ h[i] = "Submitted" <=> i = 1 /\ h[1] # "Rejected"
          /\ h[i] = "Accepted" => i = 2
      BY <2>1 DEF LegalHistory
    <3> QED
      BY <1>2, <1>3, <2>1, <3>1, <3>2
  <2>2. CASE i = Len(h) + 1
    BY <1>1, <1>2, <1>3, <2>2
  <2> QED
    BY <1>2, <2>1, <2>2
<1> QED
  BY <1>2, <1>5 DEF LegalHistory, g

(* How far the history of an order is while the thread of session s has it.*)
ThreadHistory(s) ==
  LET o == handler[s].order
      cb == callbacks[form[o].sym]
  IN  /\ handler[s].at = "get_book" => history[o] = <<>>
      /\ handler[s].at \in {"lock", "match"} => history[o] = <<"Submitted">>
      /\ handler[s].at = "call" /\ cb # <<>> =>
           IF cb[1].kind = "fill" THEN Live(history[o])
                                  ELSE history[o] = <<"Submitted">>
      /\ handler[s].at = "call" /\ cb = <<>> /\ o \in resting[form[o].sym] =>
           Live(history[o])
      /\ InABook(s) => \A i \in 1..Len(cb) :
           cb[i].kind = "fill" => Live(history[cb[i].other])

LEMMA NewHasNoHistory ==
  ASSUME NEW s, handler'[s].at = "get_book", history'[handler'[s].order] = <<>>
  PROVE  ThreadHistory(s)'
<1>1. /\ handler'[s].at \notin {"lock", "match"} /\ handler'[s].at # "call"
      /\ ~InABook(s)'
  BY DEF InABook
<1> QED
  BY <1>1, Zenon DEF ThreadHistory

(* Orders rest in a book with a history that is live, or with their thread *)
(* still there, about to tell of their acceptance.                         *)
HistoryInv ==
  /\ history \in [OrderIds -> Seq(States)]
  /\ \A o \in OrderIds : LegalHistory(history[o])
  /\ \A o \in OrderIds : o > lastId => history[o] = <<>>
  /\ \A s \in Sessions : ThreadHistory(s)
  /\ \A y \in Symbols : \A r \in resting[y] :
       \/ Live(history[r])
       \/ \E s \in Sessions : handler[s].at = "call" /\ handler[s].order = r

LEMMA HistoryInit == Init => HistoryInv
  BY HistoryBegins DEF Init, HistoryInv, ThreadHistory, InABook, Idle

(* A step of the thread of session s, which has order o: what was live     *)
(* stays live, and nothing else but o gets a longer history.               *)
Writes(s, o) ==
  /\ o = handler[s].order /\ handler[s].at # "idle"
  /\ \A t \in Sessions \ {s} :
       /\ handler'[t] = handler[t]
       /\ InABook(t) => callbacks'[form[handler[t].order].sym]
                          = callbacks[form[handler[t].order].sym]
  /\ UNCHANGED <<lastId, form>>
  /\ history' \in [OrderIds -> Seq(States)]
  /\ LegalHistory(history'[o])
  /\ \A p \in OrderIds \ {o} :
       \/ history'[p] = history[p]
       \/ Live(history[p]) /\ Live(history'[p])
  /\ Live(history[o]) => Live(history'[o])
  /\ \A y \in Symbols : /\ resting'[y] \subseteq resting[y] \cup {o}
                        /\ o \in resting'[y] => \/ handler'[s].at = "call"
                                                \/ Live(history'[o])
  /\ handler'[s].at = "idle" \/ handler'[s].order = o

LEMMA HistoryWritten ==
  ASSUME SessionInv, BookInv, HistoryInv, NEW s \in Sessions, NEW o,
         Writes(s, o), ThreadHistory(s)'
  PROVE  HistoryInv'
<1>1. o \in OrderIds /\ o <= lastId
  BY Handled, ExchangeAssumption
  DEF Writes, BookInv, SessionInv, SessionTypes
<1>2. \A p \in OrderIds : Live(history[p]) => Live(history'[p])
  BY DEF Writes
<1>3. \A p \in OrderIds : LegalHistory(history'[p])
  BY LiveIsLegal DEF Writes, HistoryInv
<1>4. \A p \in OrderIds : p > lastId => history'[p] = <<>>
  <2>1. lastId \in Int /\ \A p \in OrderIds : p \in Int
    BY ExchangeAssumption DEF OrderIds, SessionInv, SessionTypes
  <2>2. ASSUME NEW p \in OrderIds, p > lastId
        PROVE  p # o /\ ~Live(history[p])
    <3>1. p # o
      BY <1>1, <2>1, <2>2
    <3>2. ~Live(history[p])
      BY <2>2, HistoryBegins DEF HistoryInv
    <3> QED BY <3>1, <3>2
  <2> QED
    BY <2>2 DEF Writes, HistoryInv
<1>5. ASSUME NEW t \in Sessions, t # s PROVE ThreadHistory(t)'
  <2>1. PICK p, z, cb : /\ p = handler[t].order /\ z = form[p].sym
                        /\ cb = callbacks[z]
    OBVIOUS
  <2>2. handler'[t] = handler[t] /\ UNCHANGED form
    BY <1>5 DEF Writes
  <2>3. CASE handler[t].at = "idle"
    BY <2>2, <2>3 DEF ThreadHistory, InABook
  <2>4. CASE handler[t].at # "idle"
    <3>1. p \in OrderIds /\ p # o /\ z \in Symbols
      BY <1>5, <2>1, <2>4, Handled DEF Writes, BookInv
    <3>2. \/ history'[p] = history[p]
          \/ Live(history[p]) /\ Live(history'[p])
      BY <3>1 DEF Writes
    <3>3. p \in resting'[z] => p \in resting[z]
      BY <3>1 DEF Writes
    <3>4. InABook(t) => callbacks'[z] = cb
      BY <1>5, <2>1 DEF Writes
    <3>5. ThreadHistory(t)
      BY DEF HistoryInv
    <3>6. handler'[t].at = "get_book" => history'[p] = <<>>
      BY <2>1, <2>2, <3>2, <3>5, HistoryBegins DEF ThreadHistory
    <3>7. handler'[t].at \in {"lock", "match"} => history'[p] = <<"Submitted">>
      BY <2>1, <2>2, <3>2, <3>5, HistoryBegins DEF ThreadHistory
    <3>8. ASSUME handler'[t].at = "call", cb # <<>>
          PROVE  IF cb[1].kind = "fill" THEN Live(history'[p])
                                        ELSE history'[p] = <<"Submitted">>
      BY <2>1, <2>2, <3>2, <3>5, <3>8, HistoryBegins DEF ThreadHistory
    <3>9. ASSUME handler'[t].at = "call", cb = <<>>, p \in resting'[z]
          PROVE  Live(history'[p])
      BY <2>1, <2>2, <3>2, <3>3, <3>5, <3>9 DEF ThreadHistory
    <3>10. ASSUME InABook(t), NEW i \in 1..Len(cb), cb[i].kind = "fill"
           PROVE  Live(history'[cb[i].other])
      <4>1. Live(history[cb[i].other])
        BY <2>1, <3>5, <3>10 DEF ThreadHistory
      <4>2. cb[i].other \in 1..lastId
        BY <2>1, <3>10 DEF BookInv, Queued, Queue, QueuedFill
      <4>3. cb[i].other \in OrderIds
        BY <4>2, ExchangeAssumption DEF SessionInv, SessionTypes, OrderIds
      <4> QED
        BY <1>2, <4>1, <4>3
    <3>11. handler'[t].at \in {"match", "call"} => callbacks'[z] = cb /\ InABook(t)
      BY <2>2, <3>4 DEF InABook
    <3> QED
      BY <2>1, <2>2, <3>6, <3>7, <3>8, <3>9, <3>10, <3>11
      DEF ThreadHistory, InABook
  <2> QED
    BY <2>3, <2>4
<1>6. ASSUME NEW y \in Symbols, NEW r \in resting'[y]
      PROVE  \/ Live(history'[r])
             \/ \E t \in Sessions : handler'[t].at = "call" /\ handler'[t].order = r
  <2>1. CASE r = o
    BY <1>6, <2>1 DEF Writes
  <2>2. CASE r # o
    <3>1. r \in resting[y] /\ r \in OrderIds
      BY <1>6, <2>2 DEF Writes, BookInv, BookTypes
    <3>2. CASE Live(history[r])
      BY <1>2, <3>1, <3>2
    <3>3. CASE \E t \in Sessions : handler[t].at = "call" /\ handler[t].order = r
      BY <2>2, <3>3 DEF Writes
    <3> QED
      BY <3>1, <3>2, <3>3 DEF HistoryInv
  <2> QED
    BY <2>1, <2>2
<1>7. UNCHANGED lastId /\ history' \in [OrderIds -> Seq(States)]
  BY DEF Writes
<1> QED
  BY <1>3, <1>4, <1>5, <1>6, <1>7 DEF HistoryInv

(* A request on an order whose book is idle: h is its history then.        *)
Asks(o, h) ==
  /\ o \in OrderIds /\ ~Busy(form[o].sym)
  /\ history[o] # <<>> /\ history[o] # <<"Submitted">>
  /\ history' = [history EXCEPT ![o] = h]
  /\ LegalHistory(h)
  /\ \A y \in Symbols : resting'[y] \subseteq resting[y]
  /\ \/ Live(history[o]) => Live(h)
     \/ \A y \in Symbols : o \notin resting'[y]
  /\ UNCHANGED <<lastId, form, handler, callbacks>>

LEMMA HistoryAsked ==
  ASSUME SessionInv, BookInv, HistoryInv, NEW o, NEW h, Asks(o, h)
  PROVE  HistoryInv'
<1>1. /\ o \in OrderIds
      /\ history'[o] = h
      /\ \A p \in OrderIds \ {o} : history'[p] = history[p]
      /\ history' \in [OrderIds -> Seq(States)]
  BY DEF Asks, HistoryInv, LegalHistory
<1>2. \A p \in OrderIds : LegalHistory(history'[p])
  BY <1>1 DEF Asks, HistoryInv
<1>3. \A p \in OrderIds : p > lastId => history'[p] = <<>>
  <2>1. history[o] # <<>>
    BY DEF Asks
  <2> QED
    BY <1>1, <2>1 DEF HistoryInv
<1>4. ASSUME NEW t \in Sessions PROVE ThreadHistory(t)'
  <2>1. PICK p, z, cb : /\ p = handler[t].order /\ z = form[p].sym
                        /\ cb = callbacks[z]
    OBVIOUS
  <2>2. UNCHANGED <<form, handler, callbacks>>
    BY DEF Asks
  <2>3. CASE handler[t].at = "idle"
    BY <2>2, <2>3 DEF ThreadHistory, InABook
  <2>4. CASE handler[t].at # "idle"
    <3>1. p \in OrderIds /\ z \in Symbols
      BY <2>1, <2>4, Handled DEF BookInv
    <3>2. ThreadHistory(t)
      BY DEF HistoryInv
    <3>3. InABook(t) => Busy(z)
      BY <2>1 DEF InABook, Busy, InBook
    <3>4. p # o
      <4>0. handler[t].at \in Places
        BY DEF SessionInv, SessionTypes
      <4>1. history[p] = <<>> \/ history[p] = <<"Submitted">> \/ InABook(t)
        BY <2>1, <2>4, <3>2, <4>0 DEF ThreadHistory, InABook, Places
      <4>3. CASE InABook(t)
        BY <2>1, <3>3, <4>3 DEF Asks
      <4>4. CASE history[p] = <<>> \/ history[p] = <<"Submitted">>
        BY <4>4 DEF Asks
      <4> QED
        BY <4>1, <4>3, <4>4
    <3>5. history'[p] = history[p]
      BY <1>1, <3>1, <3>4
    <3>6. p \in resting'[z] => p \in resting[z]
      BY <3>1 DEF Asks
    <3>7. ASSUME InABook(t), NEW i \in 1..Len(cb), cb[i].kind = "fill"
          PROVE  Live(history'[cb[i].other])
      <4>1. Live(history[cb[i].other])
        BY <2>1, <3>2, <3>7 DEF ThreadHistory
      <4>2. cb[i].other \in 1..lastId /\ form[cb[i].other].sym = z
        BY <2>1, <3>7 DEF BookInv, Queued, Queue, QueuedFill
      <4>3. cb[i].other \in OrderIds
        BY <4>2, ExchangeAssumption DEF SessionInv, SessionTypes, OrderIds
      <4>4. cb[i].other # o
        BY <3>3, <3>7, <4>2 DEF Asks
      <4> QED
        BY <1>1, <4>1, <4>3, <4>4
    <3> QED
      BY <2>1, <2>2, <3>2, <3>5, <3>6, <3>7 DEF ThreadHistory, InABook
  <2> QED
    BY <2>3, <2>4
<1>5. ASSUME NEW y \in Symbols, NEW r \in resting'[y]
      PROVE  \/ Live(history'[r])
             \/ \E t \in Sessions : handler'[t].at = "call" /\ handler'[t].order = r
  <2>1. r \in resting[y] /\ r \in OrderIds /\ UNCHANGED handler
    BY <1>5 DEF Asks, BookInv, BookTypes
  <2>2. CASE Live(history[r])
    <3>1. r = o => Live(h)
      BY <1>5, <2>2 DEF Asks
    <3> QED
      BY <1>1, <2>1, <2>2, <3>1
  <2>3. CASE ~Live(history[r])
    BY <2>1, <2>3 DEF HistoryInv
  <2> QED
    BY <2>2, <2>3
<1>6. UNCHANGED lastId
  BY DEF Asks
<1> QED
  BY <1>1, <1>2, <1>3, <1>4, <1>5, <1>6 DEF HistoryInv

(* An order resting in an idle book is live.                               *)
LEMMA RestingIsLive ==
  ASSUME SessionInv, BookInv, HistoryInv, NEW y \in Symbols, NEW r \in resting[y],
         \A s \in Sessions : InBook(s, y) => handler[s].order # r
  PROVE  Live(history[r])
<1>1. form[r].sym = y
  BY DEF BookInv, Resting
<1>2. ASSUME NEW s \in Sessions, handler[s].at = "call", handler[s].order = r
      PROVE  FALSE
  BY <1>1, <1>2 DEF InBook
<1> QED
  BY <1>2 DEF HistoryInv

(* A callback of the thread of session s made, cb still to be made.        *)
Tells(s, o, y, cb) ==
  /\ o = handler[s].order /\ handler[s].at = "call" /\ o \in OrderIds
  /\ WorksOn(s, o, y, cb)
  /\ UNCHANGED <<lastId, handler, resting>>
  /\ history' \in [OrderIds -> Seq(States)]
  /\ LegalHistory(history'[o])
  /\ \A p \in OrderIds \ {o} :
       \/ history'[p] = history[p]
       \/ Live(history[p]) /\ Live(history'[p])
  /\ Live(history[o]) => Live(history'[o])
  /\ Live(history'[o]) \/ (cb = <<>> /\ o \notin resting[y])
  /\ \A i \in 1..Len(cb) : /\ cb[i].kind = "fill" /\ cb[i].other \in OrderIds
                           /\ Live(history[cb[i].other])

LEMMA HistoryTold ==
  ASSUME SessionInv, BookInv, HistoryInv, NEW s \in Sessions, NEW o, NEW y, NEW cb,
         Tells(s, o, y, cb), cb \in Seq(CallbackRecords)
  PROVE  HistoryInv'
<1>1. /\ callbacks'[y] = cb
      /\ \A t \in Sessions \ {s} : InABook(t) =>
           callbacks'[form[handler[t].order].sym]
             = callbacks[form[handler[t].order].sym]
  BY OthersKept DEF Tells
<1>2. Writes(s, o)
  BY <1>1 DEF Tells, Writes, WorksOn
<1>3. ASSUME NEW i \in 1..Len(cb), cb[i].kind = "fill"
      PROVE  Live(history'[cb[i].other])
  <2>1. cb[i].other \in OrderIds /\ Live(history[cb[i].other])
    BY <1>3 DEF Tells
  <2> QED
    BY <2>1 DEF Tells
<1>4. handler'[s].order = o /\ form'[o].sym = y /\ handler'[s].at = "call"
      /\ resting'[y] = resting[y]
  BY DEF Tells, WorksOn
<1>5. cb # <<>> => cb[1].kind = "fill" /\ Live(history'[o])
  BY DEF Tells
<1>6. o \in resting[y] => Live(history'[o])
  BY DEF Tells
<1>7. ThreadHistory(s)'
  BY <1>1, <1>3, <1>4, <1>5, <1>6 DEF ThreadHistory
<1> QED
  BY <1>2, <1>7, HistoryWritten

(* What is known when the thread of session s makes callback c, of kind k, *)
(* and leaves cb to be made.                                               *)
CallMade(s, k, o, y, c, cb) ==
  /\ o = handler[s].order /\ y = form[o].sym /\ c = Head(callbacks[y])
  /\ handler[s].at = "call" /\ o \in OrderIds /\ y \in Symbols
  /\ cb \in Seq(CallbackRecords) /\ WorksOn(s, o, y, cb)
  /\ k = "fill" => /\ Live(history[o]) /\ Live(history[c.other])
                   /\ c.other \in OrderIds /\ c.other # o
  /\ k # "fill" => history[o] = <<"Submitted">>
  /\ \A i \in 1..Len(cb) : /\ cb[i].kind = "fill" /\ cb[i].other \in OrderIds
                           /\ Live(history[cb[i].other])
  /\ k = "reject" => cb = <<>> /\ o \notin resting[y]

LEMMA HistoryStep ==
  SessionInv /\ BookInv /\ HistoryInv /\ [Next]_vars => HistoryInv'
<1> SUFFICES ASSUME SessionInv, BookInv, HistoryInv, [Next]_vars
             PROVE  HistoryInv'
  OBVIOUS
<1>0. BookInv'
  BY BookStep
<1>1. ASSUME UNCHANGED <<lastId, form, history, handler, resting, callbacks>>
      PROVE  HistoryInv'
  BY <1>1 DEF HistoryInv, ThreadHistory, InABook
<1>2. ASSUME NEW s \in Sessions, NEW f \in Forms, NewOrderSingle(s, f)
      PROVE  HistoryInv'
  <2> DEFINE o == lastId + 1
  <2>1. o \in OrderIds /\ lastId \in Nat /\ handler[s].at = "idle"
    BY <1>2, ExchangeAssumption
    DEF NewOrderSingle, SessionInv, SessionTypes, OrderIds
  <2>2. /\ lastId' = o /\ UNCHANGED <<history, resting, callbacks>>
        /\ handler'[s] = [at |-> "get_book", order |-> o]
        /\ \A t \in Sessions \ {s} : handler'[t] = handler[t]
    BY <1>2 DEF NewOrderSingle, bookVars, SessionInv, SessionTypes
  <2>3. \A i \in 1..lastId : i \in OrderIds /\ form'[i] = form[i]
    BY <1>2, <2>1, ExchangeAssumption
    DEF NewOrderSingle, BookInv, BookTypes, SessionInv, SessionTypes, OrderIds
  <2>4. ASSUME NEW t \in Sessions PROVE ThreadHistory(t)'
    <3>1. CASE t = s
      <4>1. history[o] = <<>>
        BY <2>1 DEF HistoryInv
      <4> QED
        <5>1. handler'[t].at = "get_book" /\ history'[handler'[t].order] = <<>>
          BY <2>2, <3>1, <4>1
        <5> QED
          BY <5>1, NewHasNoHistory
    <3>2. CASE t # s /\ handler[t].at # "idle"
      <4>1. PICK p : p = handler[t].order
        OBVIOUS
      <4>2. form'[p] = form[p]
        BY <2>3, <3>2, <4>1 DEF SessionInv
      <4>3. ThreadHistory(t) /\ handler'[t] = handler[t]
        BY <2>2, <3>2 DEF HistoryInv
      <4> QED
        BY <2>2, <4>1, <4>2, <4>3 DEF ThreadHistory, InABook
    <3>3. CASE t # s /\ handler[t].at = "idle"
      BY <2>2, <3>3 DEF ThreadHistory, InABook
    <3> QED
      BY <3>1, <3>2, <3>3
  <2>5. ASSUME NEW y \in Symbols, NEW r \in resting'[y]
        PROVE  \/ Live(history'[r])
               \/ \E t \in Sessions : handler'[t].at = "call" /\ handler'[t].order = r
    <3>1. CASE Live(history[r])
      BY <2>2, <3>1
    <3>2. CASE ~Live(history[r])
      <4>1. PICK t \in Sessions : handler[t].at = "call" /\ handler[t].order = r
        BY <2>2, <2>5, <3>2 DEF HistoryInv
      <4> QED
        BY <2>1, <2>2, <4>1
    <3> QED
      BY <3>1, <3>2
  <2>6. \A p \in OrderIds : p > lastId' => history'[p] = <<>>
    <3>1. \A p \in OrderIds : p > lastId' => p > lastId
      BY <2>1, <2>2 DEF OrderIds
    <3> QED
      BY <2>2, <3>1 DEF HistoryInv
  <2> QED
    BY <2>2, <2>4, <2>5, <2>6 DEF HistoryInv
<1>3. ASSUME NEW s \in Sessions, Submit(s) PROVE HistoryInv'
  <2>1. PICK o : o = handler[s].order
    OBVIOUS
  <2>2. o \in OrderIds /\ handler[s].at = "get_book"
    BY <1>3, <2>1, Handled DEF Submit, BookInv
  <2>3. history[o] = <<>>
    BY <2>1, <2>2 DEF HistoryInv, ThreadHistory
  <2>4. /\ UNCHANGED <<lastId, form, resting, callbacks>>
        /\ handler'[s].at = "lock" /\ handler'[s].order = o
        /\ \A t \in Sessions \ {s} : handler'[t] = handler[t]
    BY <1>3, <2>1 DEF Submit, bookVars, SessionInv, SessionTypes
  <2>5. /\ history'[o] = <<"Submitted">>
        /\ \A p \in OrderIds \ {o} : history'[p] = history[p]
        /\ history' \in [OrderIds -> Seq(States)]
    <3>1. Append(<<>>, "Submitted") = <<"Submitted">>
      OBVIOUS
    <3>2. history' = [history EXCEPT ![o] = <<"Submitted">>]
      BY <1>3, <2>1, <2>2, <2>3, <3>1 DEF Submit, Record, HistoryInv
    <3>3. <<"Submitted">> \in Seq(States)
      BY HistoryBegins DEF LegalHistory
    <3> QED
      BY <2>2, <3>2, <3>3 DEF HistoryInv
  <2>6. \A y \in Symbols : o \notin resting[y]
    BY <2>1, <2>2 DEF BookInv, Resting
  <2>7. Writes(s, o)
    BY <2>1, <2>2, <2>3, <2>4, <2>5, <2>6, HistoryBegins DEF Writes
  <2>8. ThreadHistory(s)'
    BY <2>4, <2>5 DEF ThreadHistory, InABook
  <2> QED
    BY <2>7, <2>8, HistoryWritten
<1>4. ASSUME NEW s \in Sessions, Refuse(s) PROVE HistoryInv'
  <2>1. PICK o : o = handler[s].order
    OBVIOUS
  <2>2. o \in OrderIds /\ handler[s].at = "get_book"
    BY <1>4, <2>1, Handled DEF Refuse, BookInv
  <2>3. history[o] = <<>>
    BY <2>1, <2>2 DEF HistoryInv, ThreadHistory
  <2>4. /\ UNCHANGED <<lastId, form, resting, callbacks>>
        /\ handler'[s].at = "idle"
        /\ \A t \in Sessions \ {s} : handler'[t] = handler[t]
    BY <1>4, <2>1 DEF Refuse, bookVars, SessionInv, SessionTypes, Idle
  <2>5. /\ history'[o] = <<"Rejected">>
        /\ \A p \in OrderIds \ {o} : history'[p] = history[p]
        /\ history' \in [OrderIds -> Seq(States)]
    <3>1. Append(<<>>, "Rejected") = <<"Rejected">>
      OBVIOUS
    <3>2. history' = [history EXCEPT ![o] = <<"Rejected">>]
      BY <1>4, <2>1, <2>2, <2>3, <3>1 DEF Refuse, Record, HistoryInv
    <3>3. <<"Rejected">> \in Seq(States)
      BY HistoryBegins DEF LegalHistory
    <3> QED
      BY <2>2, <3>2, <3>3 DEF HistoryInv
  <2>6. \A y \in Symbols : o \notin resting[y]
    BY <2>1, <2>2 DEF BookInv, Resting
  <2>7. Writes(s, o)
    BY <2>1, <2>2, <2>3, <2>4, <2>5, <2>6, HistoryBegins DEF Writes
  <2>8. ThreadHistory(s)'
    BY <2>4 DEF ThreadHistory, InABook
  <2> QED
    BY <2>7, <2>8, HistoryWritten
<1>5. ASSUME NEW s \in Sessions, Finish(s) PROVE HistoryInv'
  <2>1. PICK o, y : o = handler[s].order /\ y = form[o].sym
    OBVIOUS
  <2>2. /\ o \in OrderIds /\ y \in Symbols
        /\ handler[s].at = "call" /\ callbacks[y] = <<>>
    BY <1>5, <2>1, Handled DEF Finish, BookInv
  <2>3. /\ UNCHANGED <<lastId, form, history, resting, callbacks>>
        /\ handler'[s].at = "idle"
        /\ \A t \in Sessions \ {s} : handler'[t] = handler[t]
    BY <1>5 DEF Finish, orderVars, bookVars, SessionInv, SessionTypes, Idle
  <2>4. \A z \in Symbols : o \in resting[z] => z = y
    BY <2>1 DEF BookInv, Resting
  <2>5. o \in resting[y] => Live(history[o])
    BY <2>1, <2>2 DEF HistoryInv, ThreadHistory
  <2>6. Writes(s, o)
    BY <2>1, <2>2, <2>3, <2>4, <2>5 DEF Writes, HistoryInv
  <2>7. ThreadHistory(s)'
    BY <2>3 DEF ThreadHistory, InABook
  <2> QED
    BY <2>6, <2>7, HistoryWritten
<1>6. ASSUME NEW s \in Sessions, EnterBook(s) PROVE HistoryInv'
  <2>1. PICK o, y, l, kind, cb :
          /\ o = handler[s].order /\ y = form[o].sym
          /\ l = IF form[o].qty = 0 THEN "call" ELSE "match"
          /\ kind = IF form[o].qty = 0 THEN "reject" ELSE "accept"
          /\ cb = <<Callback(kind, o, NoOrder, 0)>>
    OBVIOUS
  <2>2. o \in OrderIds /\ y \in Symbols /\ handler[s].at = "lock"
    BY <1>6, <2>1, Handled DEF EnterBook, BookInv
  <2>3. WorksOn(s, o, y, cb)
    BY <1>6, <2>1 DEF EnterBook, WorksOn, orderVars, SessionInv, SessionTypes
  <2>4. UNCHANGED <<lastId, form, history, resting>> /\ handler'[s].at = l
    BY <1>6, <2>1 DEF EnterBook, orderVars, SessionInv, SessionTypes
  <2>5. history[o] = <<"Submitted">> /\ \A z \in Symbols : o \notin resting[z]
    BY <2>1, <2>2 DEF HistoryInv, ThreadHistory, BookInv, Resting
  <2>6. /\ callbacks'[y] = cb
        /\ \A t \in Sessions \ {s} : InABook(t) =>
             callbacks'[form[handler[t].order].sym]
               = callbacks[form[handler[t].order].sym]
    BY <2>3, OthersKept
  <2>7. Writes(s, o)
    BY <2>2, <2>3, <2>4, <2>5, <2>6 DEF Writes, WorksOn, HistoryInv
  <2>8. cb # <<>> /\ Len(cb) = 1 /\ cb[1].kind # "fill"
    BY <2>1 DEF Callback
  <2>9. ThreadHistory(s)'
    <3>1. handler'[s].order = o /\ form'[o].sym = y /\ callbacks'[y] = cb
      BY <2>1, <2>3, <2>6 DEF WorksOn
    <3>2. \A i \in 1..Len(cb) : cb[i].kind # "fill"
      BY <2>8
    <3>3. history'[o] = <<"Submitted">> /\ handler'[s].at \in {"match", "call"}
      BY <2>1, <2>4, <2>5
    <3> QED
      BY <2>8, <3>1, <3>2, <3>3 DEF ThreadHistory
  <2> QED
    BY <2>7, <2>9, HistoryWritten
<1>7. ASSUME NEW s \in Sessions, NEW r \in OrderIds, Match(s, r)
      PROVE  HistoryInv'
  <2>1. PICK o, y, old, c, cb :
          /\ o = handler[s].order /\ y = form[o].sym /\ old = callbacks[y]
          /\ c = Callback("fill", o, r, Smaller(open[o], open[r]))
          /\ cb = Append(old, c)
    OBVIOUS
  <2>2. o \in OrderIds /\ y \in Symbols /\ handler[s].at = "match"
    BY <1>7, <2>1, Handled DEF Match, MatchWith, BookInv
  <2>3. WorksOn(s, o, y, cb) /\ handler'[s].at \in {"match", "call"}
    BY <1>7, <2>1, MatchWorks
  <2>4. /\ UNCHANGED <<lastId, form, history>>
        /\ \A z \in Symbols : resting'[z] \subseteq resting[z]
        /\ r \in resting[y]
    <3> DEFINE R == IF open[r] = Smaller(open[o], open[r])
                    THEN resting[y] \ {r} ELSE resting[y]
    <3>1. /\ UNCHANGED <<lastId, form, history>>
          /\ resting' = [resting EXCEPT ![y] = R] /\ r \in resting[y]
      BY <1>7, <2>1 DEF Match, MatchWith, orderVars, Crossing
    <3>2. R \subseteq resting[y]
      OBVIOUS
    <3> HIDE DEF R
    <3> QED
      BY <2>2, <3>1, <3>2 DEF BookInv, BookTypes
  <2>5. history[o] = <<"Submitted">> /\ \A z \in Symbols : o \notin resting[z]
    BY <2>1, <2>2 DEF HistoryInv, ThreadHistory, BookInv, Resting
  <2>6. /\ callbacks'[y] = cb
        /\ \A t \in Sessions \ {s} : InABook(t) =>
             callbacks'[form[handler[t].order].sym]
               = callbacks[form[handler[t].order].sym]
    BY <2>3, OthersKept
  <2>7. handler'[s].at \in {"match", "call"} /\ handler'[s].order = o
    BY <2>3 DEF WorksOn
  <2>8. Writes(s, o)
    BY <2>2, <2>3, <2>4, <2>5, <2>6, <2>7 DEF Writes, WorksOn, HistoryInv
  <2>9. /\ old \in Seq(CallbackRecords) /\ old # <<>> /\ old[1].kind = "accept"
    BY <2>1, <2>2 DEF BookInv, BookTypes, Queued, InABook
  <2>10. /\ Len(cb) = Len(old) + 1 /\ cb[Len(old) + 1] = c /\ cb # <<>>
         /\ \A i \in 1..Len(old) : cb[i] = old[i]
         /\ cb[1].kind = "accept" /\ Len(old) \in Nat
    <3>1. c \in CallbackRecords
      BY <2>1, <2>2 DEF BookInv, BookTypes, Callback, CallbackRecords, Smaller
    <3>2. cb = Append(old, c)
      BY <2>1
    <3>3. Len(cb) = Len(old) + 1 /\ Len(old) \in Nat \ {0}
      BY <2>9, <3>1, <3>2
    <3>4. \A i \in 1..Len(old) : cb[i] = old[i]
      BY <2>9, <3>1, <3>2
    <3>5. cb[Len(old) + 1] = c
      BY <2>9, <3>1, <3>2
    <3> QED
      BY <2>9, <3>3, <3>4, <3>5
  <2>11. Live(history[r])
    <3>1. ASSUME NEW t \in Sessions, InBook(t, y) PROVE handler[t].order # r
      <4>1. t = s
        BY <2>1, <2>2, <3>1 DEF BookInv, Alone, InABook, InBook
      <4> QED
        BY <2>1, <2>2, <2>4, <2>5, <4>1
    <3> QED
      BY <2>2, <2>4, <3>1, RestingIsLive
  <2>12. ASSUME NEW i \in 1..Len(cb), cb[i].kind = "fill"
         PROVE  Live(history'[cb[i].other])
    <3>1. CASE i \in 1..Len(old)
      <4>1. old[i].kind = "fill" /\ cb[i] = old[i]
        BY <2>10, <2>12, <3>1
      <4>2. Live(history[old[i].other])
        BY <2>1, <2>2, <3>1, <4>1 DEF HistoryInv, ThreadHistory, InABook
      <4> QED
        BY <2>4, <4>1, <4>2
    <3>2. CASE i = Len(old) + 1
      <4>1. c.other = r
        BY <2>1 DEF Callback
      <4>2. cb[i] = c
        BY <2>10, <3>2
      <4> QED
        BY <2>4, <2>11, <4>1, <4>2
    <3> QED
      BY <2>10, <3>1, <3>2
  <2>13. ThreadHistory(s)'
    <3>1. handler'[s].order = o /\ form'[o].sym = y /\ callbacks'[y] = cb
      BY <2>1, <2>3, <2>6 DEF WorksOn
    <3>2. history'[o] = <<"Submitted">>
      BY <2>4, <2>5
    <3> QED
      BY <2>7, <2>10, <2>12, <3>1, <3>2 DEF ThreadHistory
  <2> QED
    BY <2>8, <2>13, HistoryWritten
<1>8. ASSUME NEW s \in Sessions, Rest(s) PROVE HistoryInv'
  <2>1. PICK o, y, cb : o = handler[s].order /\ y = form[o].sym /\ cb = callbacks[y]
    OBVIOUS
  <2>2. o \in OrderIds /\ y \in Symbols /\ handler[s].at = "match"
    BY <1>8, <2>1, Handled DEF Rest, BookInv
  <2>3. WorksOn(s, o, y, cb) /\ handler'[s].at = "call"
    BY <1>8, <2>1, <2>2
    DEF Rest, WorksOn, orderVars, SessionInv, SessionTypes, BookInv, BookTypes
  <2>4. UNCHANGED <<lastId, form, history>>
        /\ \A z \in Symbols : resting'[z] \subseteq resting[z] \cup {o}
    BY <1>8, <2>1, <2>2 DEF Rest, orderVars, BookInv, BookTypes
  <2>5. history[o] = <<"Submitted">>
    BY <2>1, <2>2 DEF HistoryInv, ThreadHistory
  <2>6. /\ callbacks'[y] = cb
        /\ \A t \in Sessions \ {s} : InABook(t) =>
             callbacks'[form[handler[t].order].sym]
               = callbacks[form[handler[t].order].sym]
    BY <2>3, OthersKept
  <2>7. Writes(s, o)
    BY <2>2, <2>3, <2>4, <2>6 DEF Writes, WorksOn, HistoryInv
  <2>8. cb # <<>> /\ cb[1].kind = "accept"
    BY <2>1, <2>2 DEF BookInv, Queued, InABook
  <2>9. ThreadHistory(s)'
    <3>1. handler'[s].order = o /\ form'[o].sym = y /\ callbacks'[y] = cb
      BY <2>1, <2>3, <2>6 DEF WorksOn
    <3>2. \A i \in 1..Len(cb) : cb[i].kind = "fill" => Live(history[cb[i].other])
      BY <2>1, <2>2 DEF HistoryInv, ThreadHistory, InABook
    <3> QED
      BY <2>3, <2>4, <2>5, <2>8, <3>1, <3>2 DEF ThreadHistory
  <2> QED
    BY <2>7, <2>9, HistoryWritten
<1>9. ASSUME NEW s \in Sessions, NEW k, Calling(s, k), UNCHANGED <<form, handler>>
      PROVE  \E o, y, c, cb : CallMade(s, k, o, y, c, cb)
  <2>1. PICK o, y, old, c : /\ o = handler[s].order /\ y = form[o].sym
                            /\ old = callbacks[y] /\ c = old[1]
    OBVIOUS
  <2>2. /\ handler[s].at = "call"
        /\ o \in OrderIds /\ form[o] \in Forms /\ y \in Symbols
        /\ old \in Seq(CallbackRecords) /\ old # <<>> /\ Queue(old, o)
        /\ c = Head(old) /\ c \in CallbackRecords /\ c.kind = k
        /\ k = "fill" => c.other \in OrderIds /\ QueuedFill(c, o)
    <3>1. Calling(s, k)
      BY <1>9
    <3> QED
      BY <2>1, <3>1, CallbackMade
  <2>3. /\ k = "fill" => Live(history[o])
        /\ k # "fill" => history[o] = <<"Submitted">>
    BY <2>1, <2>2 DEF HistoryInv, ThreadHistory
  <2>4. \A i \in 1..Len(old) : old[i].kind = "fill" => Live(history[old[i].other])
    BY <2>1, <2>2 DEF HistoryInv, ThreadHistory, InABook
  <2>5. \A i \in 1..Len(Tail(old)) : /\ Tail(old)[i].kind = "fill"
                                    /\ Tail(old)[i].other \in OrderIds
                                    /\ Live(history[Tail(old)[i].other])
    <3>1. \A i \in 1..Len(Tail(old)) : Tail(old)[i].kind = "fill"
      BY <2>2, QueueTail
    <3>2. \A i \in 1..Len(Tail(old)) :
            i + 1 \in 1..Len(old) /\ Tail(old)[i] = old[i + 1]
      BY <2>2
    <3>3. \A i \in 1..lastId : i \in OrderIds
      BY ExchangeAssumption DEF SessionInv, SessionTypes, OrderIds
    <3>4. \A i \in 1..Len(old) : old[i].kind = "fill" => old[i].other \in OrderIds
      BY <2>2, <3>3 DEF Queue, QueuedFill
    <3> QED
      BY <2>4, <3>1, <3>2, <3>4
  <2>6. k = "reject" => Len(old) = 1 /\ o \notin resting[y]
    <3>1. Queue(old, o) /\ old[1].kind = k /\ y = form[o].sym
      BY <2>1, <2>2
    <3>2. old \in Seq(CallbackRecords) /\ old # <<>>
      BY <2>2
    <3>3. 1 \in 1..Len(old)
      BY <3>2
    <3> QED
      BY <3>1, <3>3 DEF Queue
  <2>7. k = "reject" => Tail(old) = <<>>
    <3>1. Tail(old) \in Seq(CallbackRecords) /\ Len(Tail(old)) = Len(old) - 1
      BY <2>2
    <3> QED
      BY <2>6, <3>1
  <2>8. WorksOn(s, o, y, Tail(old))
    BY <1>9, <2>1, <2>2 DEF WorksOn, Calling
  <2>9. k = "fill" => Live(history[c.other]) /\ c.other # o
    <3>1. 1 \in 1..Len(old)
      BY <2>2
    <3> QED
      BY <2>1, <2>2, <2>4, <3>1 DEF QueuedFill
  <2>10. /\ k = "fill" => /\ Live(history[o]) /\ Live(history[c.other])
                          /\ c.other \in OrderIds /\ c.other # o
         /\ k = "reject" => Tail(old) = <<>> /\ o \notin resting[y]
    <3>1. k = "fill" => c.other \in OrderIds
      BY <2>2
    <3>2. k = "reject" => o \notin resting[y]
      BY <2>6
    <3> QED
      BY <2>3, <2>7, <2>9, <3>1, <3>2, Zenon
  <2>11. Tail(old) \in Seq(CallbackRecords)
    BY <2>2
  <2>12. CallMade(s, k, o, y, c, Tail(old))
    BY <2>1, <2>2, <2>3, <2>5, <2>8, <2>10, <2>11, ZenonT(30) DEF CallMade
  <2> QED
    BY <2>12
<1>10. ASSUME NEW s \in Sessions, OnAccept(s) PROVE HistoryInv'
  <2>1. Calling(s, "accept") /\ UNCHANGED <<lastId, form, handler, resting>>
    BY <1>10 DEF OnAccept, bookVars
  <2>2. PICK o, y, c, cb : CallMade(s, "accept", o, y, c, cb)
    BY <1>9, <2>1
  <2>3. o = handler[s].order /\ o \in OrderIds /\ history[o] = <<"Submitted">>
    BY <2>2 DEF CallMade
  <2>4. PICK h : h = Append(<<"Submitted">>, "Accepted")
    OBVIOUS
  <2>5. history' = [history EXCEPT ![o] = h]
    BY <1>10, <2>3, <2>4 DEF OnAccept, Record, HistoryInv
  <2>6. Live(h) /\ LegalHistory(h) /\ h \in Seq(States)
    BY <2>4, HistoryAnswered, LiveIsLegal DEF Live
  <2>7. /\ history'[o] = h
        /\ \A p \in OrderIds \ {o} : history'[p] = history[p]
        /\ history' \in [OrderIds -> Seq(States)]
    BY <2>3, <2>5, <2>6 DEF HistoryInv
  <2>8. Tells(s, o, y, cb)
    BY <2>1, <2>2, <2>6, <2>7 DEF Tells, CallMade
  <2> QED
    BY <2>2, <2>8, HistoryTold DEF CallMade
<1>11. ASSUME NEW s \in Sessions, OnReject(s) PROVE HistoryInv'
  <2>1. Calling(s, "reject") /\ UNCHANGED <<lastId, form, handler, resting>>
    BY <1>11 DEF OnReject, bookVars
  <2>2. PICK o, y, c, cb : CallMade(s, "reject", o, y, c, cb)
    BY <1>9, <2>1
  <2>3. /\ o = handler[s].order /\ o \in OrderIds
        /\ history[o] = <<"Submitted">> /\ cb = <<>> /\ o \notin resting[y]
    BY <2>2 DEF CallMade
  <2>4. PICK h : h = Append(<<"Submitted">>, "Rejected")
    OBVIOUS
  <2>5. history' = [history EXCEPT ![o] = h]
    BY <1>11, <2>3, <2>4 DEF OnReject, Record, HistoryInv
  <2>6. LegalHistory(h) /\ h \in Seq(States) /\ ~Live(history[o])
    BY <2>3, <2>4, HistoryAnswered, HistoryBegins DEF LegalHistory
  <2>7. /\ history'[o] = h
        /\ \A p \in OrderIds \ {o} : history'[p] = history[p]
        /\ history' \in [OrderIds -> Seq(States)]
    BY <2>3, <2>5, <2>6 DEF HistoryInv
  <2>8. Tells(s, o, y, cb)
    BY <2>1, <2>2, <2>3, <2>6, <2>7 DEF Tells, CallMade
  <2> QED
    BY <2>2, <2>8, HistoryTold DEF CallMade
<1>12. ASSUME NEW s \in Sessions, OnFill(s) PROVE HistoryInv'
  <2>1. Calling(s, "fill") /\ UNCHANGED <<lastId, form, handler, resting>>
    BY <1>12 DEF OnFill, bookVars
  <2>2. PICK o, y, c, cb : CallMade(s, "fill", o, y, c, cb)
    BY <1>9, <2>1
  <2>3. PICK r : r = c.other
    OBVIOUS
  <2>4. /\ o = handler[s].order /\ y = form[o].sym /\ c = Head(callbacks[y])
        /\ o \in OrderIds /\ r \in OrderIds /\ r # o
        /\ Live(history[o]) /\ Live(history[r])
    BY <2>2, <2>3 DEF CallMade
  <2>5. history' = [history EXCEPT ![o] = Append(@, "Filled"),
                                   ![r] = Append(@, "Filled")]
    BY <1>12, <2>3, <2>4 DEF OnFill
  <2>6. /\ history'[o] = Append(history[o], "Filled")
        /\ history'[r] = Append(history[r], "Filled")
        /\ \A p \in OrderIds \ {o, r} : history'[p] = history[p]
    BY <2>4, <2>5 DEF HistoryInv
  <2>7. /\ Live(history'[o]) /\ Live(history'[r])
        /\ LegalHistory(history'[o])
    BY <2>4, <2>6, LiveGrows, LiveIsLegal
  <2>8. history' \in [OrderIds -> Seq(States)]
    BY <2>4, <2>5, <2>6, <2>7 DEF HistoryInv, Live
  <2>9. \A p \in OrderIds \ {o} : \/ history'[p] = history[p]
                                  \/ Live(history[p]) /\ Live(history'[p])
    BY <2>4, <2>6, <2>7
  <2>10. Tells(s, o, y, cb)
    BY <2>1, <2>2, <2>7, <2>8, <2>9 DEF Tells, CallMade
  <2> QED
    BY <2>2, <2>10, HistoryTold DEF CallMade
<1>13. ASSUME NEW s \in Sessions, Disconnect(s) \/ CloseStep(s)
       PROVE  HistoryInv'
  BY <1>1, <1>13 DEF Disconnect, CloseStep, CloseSession, Unlink,
      EndSession, orderVars, bookVars
<1>14. ASSUME NEW o \in OrderIds, CancelOrder(o) PROVE HistoryInv'
  <2>1. PICK y, h : y = form[o].sym /\ h = Append(history[o], "Cancelled")
    OBVIOUS
  <2>2. /\ o \in resting[y] /\ ~Busy(y)
        /\ resting' = [resting EXCEPT ![y] = @ \ {o}]
        /\ history' = [history EXCEPT ![o] = h]
        /\ UNCHANGED <<lastId, form, handler, callbacks>>
    BY <1>14, <2>1 DEF CancelOrder, Request, Record, HistoryInv
  <2>3. y \in Symbols
    BY <1>14, <2>1, KnownOrder DEF CancelOrder, Request, HistoryInv
  <2>4. Live(history[o])
    BY <2>2, <2>3, RestingIsLive DEF Busy
  <2>5. LegalHistory(h)
    BY <2>1, <2>4, LiveIsLegal, LegalGrows
  <2>6. history[o] # <<>> /\ history[o] # <<"Submitted">>
    BY <2>4, HistoryBegins
  <2>7. \A z \in Symbols : resting'[z] \subseteq resting[z] /\ o \notin resting'[z]
    BY <2>1, <2>2, <2>3 DEF BookInv, BookTypes, Resting
  <2>8. Asks(o, h)
    BY <2>1, <2>2, <2>5, <2>6, <2>7 DEF Asks
  <2> QED
    BY <2>8, HistoryAsked
<1>15. ASSUME NEW o \in OrderIds, ModifyOrder(o) PROVE HistoryInv'
  <2>1. PICK y, h : y = form[o].sym /\ h = Append(history[o], "Modified")
    OBVIOUS
  <2>2. /\ o \in resting[y] /\ ~Busy(y)
        /\ history' = [history EXCEPT ![o] = h]
        /\ UNCHANGED <<lastId, form, handler, callbacks, resting>>
    BY <1>15, <2>1 DEF ModifyOrder, Request, Record, HistoryInv
  <2>3. y \in Symbols
    BY <1>15, <2>1, KnownOrder DEF ModifyOrder, Request, HistoryInv
  <2>4. Live(history[o])
    BY <2>2, <2>3, RestingIsLive DEF Busy
  <2>5. Live(h) /\ LegalHistory(h)
    BY <2>1, <2>4, LiveIsLegal, LiveGrows
  <2>6. history[o] # <<>> /\ history[o] # <<"Submitted">>
    BY <2>4, HistoryBegins
  <2>7. Asks(o, h)
    BY <2>1, <2>2, <2>5, <2>6 DEF Asks
  <2> QED
    BY <2>7, HistoryAsked
<1>16. ASSUME NEW o \in OrderIds, NEW x \in Refused, RequestRejected(o, x)
       PROVE  HistoryInv'
  <2>1. PICK h : h = Append(history[o], x)
    OBVIOUS
  <2>2. /\ ~Busy(form[o].sym)
        /\ history' = [history EXCEPT ![o] = h]
        /\ UNCHANGED <<lastId, form, handler, callbacks, resting>>
    BY <1>16, <2>1 DEF RequestRejected, Request, Record, HistoryInv, bookVars
  <2>3. /\ LegalHistory(history[o])
        /\ \E i \in 1..Len(history[o]) : history[o][i] = "Accepted"
    BY <1>16, SMTT(20) DEF RequestRejected, Request, HistoryInv, LegalHistory
  <2>4. LegalHistory(h)
    BY <2>1, <2>3, LegalGrows
  <2>5. history[o] # <<>> /\ history[o] # <<"Submitted">>
    BY <2>3
  <2>6. Live(history[o]) => Live(h)
    BY <2>1, LiveGrows
  <2>7. Asks(o, h)
    BY <1>16, <2>2, <2>4, <2>5, <2>6 DEF Asks
  <2> QED
    BY <2>7, HistoryAsked
<1>17. CASE UNCHANGED vars
  BY <1>1, <1>17 DEF vars, orderVars, bookVars
<1> QED
  BY <1>2, <1>3, <1>4, <1>5, <1>6, <1>7, <1>8, <1>10, <1>11, <1>12, <1>13, <1>14,
     <1>15, <1>16, <1>17
  DEF Next, HandlerStep, Refused

(* Whichever threads record them, the events of an order come in an order  *)
(* that makes sense: submitted, accepted, filled, and nothing but refused  *)
(* requests once it has been rejected or cancelled.                        *)
THEOREM HistoriesLegal == Spec => []HistoryLegal
<1>1. HistoryInv => HistoryLegal
  BY DEF HistoryInv, LegalHistory, HistoryLegal, Refused
<1> QED
  BY <1>1, HistoryInit, HistoryStep, BookAlways, PTL DEF Spec
=============================================================================
