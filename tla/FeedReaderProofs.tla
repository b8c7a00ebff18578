-------------------------- MODULE FeedReaderProofs ---------------------------
(***************************************************************************)
(* Theorems about FeedReader: what a program that reads the feed knows of  *)
(* the market, for any exchange, any reader and any widths of the prices.  *)
(* The reader changes nothing in the exchange, so that what is known of    *)
(* the exchange alone carries over.                                        *)
(***************************************************************************)
EXTENDS FeedReader, ExchangeShareProofs

-----------------------------------------------------------------------------
(* Prices there and back.                                                  *)

LEMMA Int32Small ==
  ASSUME NEW i \in -Half .. Half - 1
  PROVE  Int32(i) = i
<1>1. i + Half \in 0 .. 2 * Half - 1 /\ 2 * Half \in Nat /\ 2 * Half > 0
  BY LatinexConfigAssumption
<1>2. \A n \in Nat : \A a \in 0 .. n - 1 : a % n = a
  OBVIOUS
<1>3. (i + Half) % (2 * Half) = i + Half
  BY <1>1, <1>2
<1> QED
  BY <1>3, LatinexConfigAssumption DEF Int32

LEMMA Int32Int ==
  ASSUME NEW i \in Int
  PROVE  Int32(i) \in Int
  BY LatinexConfigAssumption DEF Int32

(* What to_itch_price and from_itch_price leave of a price that 32 bits can *)
(* hold: less than one price of the feed is cut off, nothing is added, and *)
(* a price that the feed can carry comes through unchanged.                *)
THEOREM RoundTrip ==
  ASSUME NEW p \in 0 .. Half - 1
  PROVE  /\ from_itch_price(to_itch_price(p)) <= p
         /\ p - from_itch_price(to_itch_price(p)) < Ratio
         /\ Representable(p) => from_itch_price(to_itch_price(p)) = p
<1>1. PICK q : q = p \div Ratio
  OBVIOUS
<1>2. PICK m : m = p % Ratio
  OBVIOUS
<1>3. /\ q \in Nat /\ m \in Nat /\ m < Ratio
      /\ p = Ratio * q + m
  BY <1>1, <1>2, LatinexConfigAssumption
<1>4. to_itch_price(p) = q
  <2>1. Int32(p) = p
    BY LatinexConfigAssumption, Int32Small
  <2> QED
    BY <1>1, <2>1 DEF to_itch_price, Quotient
<1>5. PICK t : t = q * Ratio
  OBVIOUS
<1>6. t \in Int /\ p = t + m
  BY <1>3, <1>5, LatinexConfigAssumption
<1>7. t \in 0..p
  <2>1. t >= 0
    BY <1>3, <1>5, LatinexConfigAssumption
  <2> QED
    BY <1>3, <1>6, <2>1
<1>8. Int32(t) = t
  <2>1. t \in -Half .. Half - 1
    BY <1>7, LatinexConfigAssumption
  <2> QED
    BY <2>1, Int32Small
<1>9. from_itch_price(to_itch_price(p)) = t
  BY <1>4, <1>5, <1>8 DEF from_itch_price
<1> QED
  BY <1>2, <1>3, <1>6, <1>9, LatinexConfigAssumption DEF Representable

-----------------------------------------------------------------------------
(* The orders the feed has announced are those the market has accepted.    *)

Shown(o) == from_itch_price(to_itch_price(form[o].px))

AddOf(o) ==
  [type |-> "add_order", order |-> o, sym |-> form[o].sym, shares |-> form[o].qty,
   buy |-> form[o].buy, price |-> to_itch_price(form[o].px)]

AddedInv ==
  /\ \A i \in 1..Len(feed) : feed[i].type = "add_order" =>
       /\ feed[i].order \in OrderIds
       /\ Accepted(feed[i].order)
       /\ feed[i] = AddOf(feed[i].order)
  /\ \A i, j \in 1..Len(feed) :
       /\ feed[i].type = "add_order" /\ feed[j].type = "add_order"
       /\ feed[i].order = feed[j].order
       => i = j
  /\ \A o \in OrderIds : Accepted(o) => Announced(feed, o)

LEMMA AddedInit == Init => AddedInv
  BY DEF Init, AddedInv, Accepted

(* The feed only grows.                                                    *)
Extends(f, g) == Len(f) <= Len(g) /\ \A i \in 1..Len(f) : g[i] = f[i]

(* Steps that accept no order.                                             *)
Quiet ==
  /\ Extends(feed, feed')
  /\ \A i \in Len(feed) + 1 .. Len(feed') : feed'[i].type # "add_order"
  /\ \A q \in OrderIds : Accepted(q)' <=> Accepted(q)
  /\ \A q \in OrderIds : Accepted(q) => form'[q] = form[q]

LEMMA AddedQuiet ==
  ASSUME AddedInv, FeedOK(feed), FeedOK(feed'), Quiet
  PROVE  AddedInv'
<1>1. PICK f, g : f = feed /\ g = feed'
  OBVIOUS
<1>2. /\ f \in Seq(FeedMessages) /\ g \in Seq(FeedMessages)
      /\ Len(f) \in Nat /\ Len(g) \in Nat /\ Len(f) <= Len(g)
      /\ \A i \in 1..Len(f) : g[i] = f[i]
  BY <1>1 DEF FeedOK, Quiet, Extends
<1>3. ASSUME NEW i \in 1..Len(g), g[i].type = "add_order"
      PROVE  i \in 1..Len(f) /\ g[i] = f[i]
  <2>1. i \notin Len(f) + 1 .. Len(g)
    BY <1>1, <1>3 DEF Quiet
  <2> QED
    BY <1>2, <2>1
<1>4. ASSUME NEW i \in 1..Len(g), g[i].type = "add_order"
      PROVE  /\ g[i].order \in OrderIds
             /\ Accepted(g[i].order)'
             /\ g[i] = AddOf(g[i].order)'
  <2>1. i \in 1..Len(f) /\ g[i] = f[i]
    BY <1>3, <1>4
  <2>2. PICK o : o = f[i].order
    OBVIOUS
  <2>3. o \in OrderIds /\ Accepted(o) /\ f[i] = AddOf(o)
    BY <1>1, <1>4, <2>1, <2>2 DEF AddedInv
  <2>4. Accepted(o)' /\ form'[o] = form[o]
    BY <2>3 DEF Quiet
  <2>5. f[i] = AddOf(o)'
    BY <2>3, <2>4 DEF AddOf
  <2> QED
    BY <2>1, <2>2, <2>3, <2>4, <2>5
<1>5. ASSUME NEW i \in 1..Len(g), NEW j \in 1..Len(g), g[i].type = "add_order",
             g[j].type = "add_order", g[i].order = g[j].order
      PROVE  i = j
  BY <1>1, <1>3, <1>5 DEF AddedInv
<1>6. ASSUME NEW o \in OrderIds, Accepted(o)' PROVE Announced(g, o)
  <2>1. Announced(f, o)
    BY <1>1, <1>6 DEF AddedInv, Quiet
  <2>2. PICK i \in 1..Len(f) : f[i].type = "add_order" /\ f[i].order = o
    BY <2>1 DEF Announced
  <2>3. i \in 1..Len(g) /\ g[i] = f[i]
    BY <1>2
  <2> QED
    BY <2>2, <2>3 DEF Announced
<1> QED
  BY <1>1, <1>4, <1>5, <1>6 DEF AddedInv

(* Nothing of an order is recorded before it exists.                       *)
AcceptedIn(h) == \E i \in 1..Len(h) : h[i] = "Accepted"

LEMMA AcceptedHistory ==
  ASSUME NEW h \in Seq(States), NEW x \in States
  PROVE  AcceptedIn(Append(h, x)) <=> AcceptedIn(h) \/ x = "Accepted"
<1>1. /\ Append(h, x) \in Seq(States) /\ Len(h) \in Nat
      /\ Len(Append(h, x)) = Len(h) + 1
      /\ Append(h, x)[Len(h) + 1] = x
      /\ \A i \in 1..Len(h) : Append(h, x)[i] = h[i]
  OBVIOUS
<1> QED
  BY <1>1 DEF AcceptedIn

LEMMA AcceptedIs ==
  ASSUME HistoryInv, NEW q \in OrderIds
  PROVE  Accepted(q) <=> AcceptedIn(history[q])
  BY DEF Accepted, AcceptedIn, HistoryInv

LEMMA AcceptedIsNext ==
  ASSUME HistoryInv', NEW q \in OrderIds
  PROVE  Accepted(q)' <=> AcceptedIn(history'[q])
  BY DEF Accepted, AcceptedIn, HistoryInv

(* One more message, which announces no order.                             *)
LEMMA Lengthened ==
  ASSUME NEW f \in Seq(FeedMessages), NEW m \in FeedMessages
  PROVE  /\ f \o <<m>> \in Seq(FeedMessages)
         /\ Len(f) \in Nat /\ Len(f \o <<m>>) = Len(f) + 1
         /\ (f \o <<m>>)[Len(f) + 1] = m
         /\ \A i \in 1..Len(f) : (f \o <<m>>)[i] = f[i]
  OBVIOUS

(* Steps that record nothing, publish nothing and leave the orders alone.  *)
LEMMA AddedKept ==
  ASSUME HistoryInv, HistoryInv', UNCHANGED <<history, feed>>, FeedOK(feed),
         \A q \in OrderIds : Accepted(q) => form'[q] = form[q]
  PROVE  Quiet
<1>1. Extends(feed, feed')
  BY DEF Extends, FeedOK
<1>2. \A i \in Len(feed) + 1 .. Len(feed') : feed'[i].type # "add_order"
  BY DEF FeedOK
<1>3. \A q \in OrderIds : Accepted(q)' <=> Accepted(q)
  BY AcceptedIs, AcceptedIsNext
<1> QED
  BY <1>1, <1>2, <1>3 DEF Quiet

(* What a record of anything but its acceptance does to an order.          *)
LEMMA NotAcceptedNow ==
  ASSUME HistoryInv, HistoryInv', NEW o, NEW x \in States, x # "Accepted",
         Record(o, x), NEW q \in OrderIds
  PROVE  Accepted(q)' <=> Accepted(q)
<1>1. /\ q = o => history'[q] = Append(history[q], x)
      /\ q # o => history'[q] = history[q]
  BY DEF Record, HistoryInv
<1>2. history[q] \in Seq(States)
  BY DEF HistoryInv
<1>3. AcceptedIn(history'[q]) <=> AcceptedIn(history[q])
  BY <1>1, <1>2, AcceptedHistory
<1> QED
  BY <1>3, AcceptedIs, AcceptedIsNext

LEMMA QuietRecord ==
  ASSUME HistoryInv, HistoryInv', FeedOK(feed), NEW o, NEW x \in States,
         x # "Accepted", Record(o, x), UNCHANGED form,
         \/ UNCHANGED feed
         \/ \E m \in FeedMessages : m.type # "add_order" /\ feed' = feed \o <<m>>
  PROVE  Quiet
<1>1. \A q \in OrderIds : Accepted(q)' <=> Accepted(q)
  BY NotAcceptedNow
<1>2. CASE UNCHANGED feed
  BY <1>1, <1>2 DEF Quiet, Extends, FeedOK
<1>3. ASSUME NEW m \in FeedMessages, m.type # "add_order", feed' = feed \o <<m>>
      PROVE  Quiet
  <2>1. PICK f : f = feed /\ f \in Seq(FeedMessages)
    BY DEF FeedOK
  <2>2. /\ Len(f) \in Nat /\ Len(feed') = Len(f) + 1
        /\ feed'[Len(f) + 1] = m
        /\ \A i \in 1..Len(f) : feed'[i] = f[i]
    BY <1>3, <2>1, Lengthened
  <2>3. Extends(feed, feed')
    BY <2>1, <2>2 DEF Extends
  <2>4. \A i \in Len(feed) + 1 .. Len(feed') : feed'[i].type # "add_order"
    <3>1. \A i \in Len(f) + 1 .. Len(feed') : i = Len(f) + 1
      BY <2>2
    <3> QED
      BY <1>3, <2>1, <2>2, <3>1
  <2> QED
    BY <1>1, <2>3, <2>4 DEF Quiet
<1> QED
  BY <1>2, <1>3

(* The form of an order that was accepted is not changed: a new one has no *)
(* history yet.                                                            *)
LEMMA NewIsNotAccepted ==
  ASSUME SessionInv, BookInv, HistoryInv, NEW s \in Sessions, NEW f \in Forms,
         NewOrderSingle(s, f), NEW q \in OrderIds, Accepted(q)
  PROVE  form'[q] = form[q]
<1>1. lastId + 1 \in OrderIds => history[lastId + 1] = <<>>
  BY DEF HistoryInv, OrderIds, SessionInv, SessionTypes
<1>2. q # lastId + 1
  <2>1. AcceptedIn(history[q])
    BY AcceptedIs
  <2>2. Len(<<>>) = 0
    OBVIOUS
  <2> QED
    BY <1>1, <2>1, <2>2 DEF AcceptedIn
<1> QED
  BY <1>2 DEF NewOrderSingle, BookInv, BookTypes

(* A fill is published in two messages, neither of which adds an order.    *)
LEMMA QuietFill ==
  ASSUME SessionInv, BookInv, HistoryInv, HistoryInv', FeedOK(feed),
         NEW s \in Sessions, OnFill(s)
  PROVE  Quiet
<1>1. PICK o, y, old, c : /\ o = handler[s].order /\ y = form[o].sym
                          /\ old = callbacks[y] /\ c = old[1]
  OBVIOUS
<1>2. Calling(s, "fill")
  BY DEF OnFill
<1>3. /\ o \in OrderIds /\ form[o] \in Forms /\ y \in Symbols
      /\ c = Head(old) /\ c \in CallbackRecords /\ c.other \in OrderIds
  BY <1>1, <1>2, CallbackMade
<1>4. PICK r, n : r = c.other /\ n = c.qty
  OBVIOUS
<1>5. r \in OrderIds /\ n \in Nat
  BY <1>3, <1>4 DEF CallbackRecords
<1>6. /\ history' = [history EXCEPT ![o] = Append(@, "Filled"),
                                    ![r] = Append(@, "Filled")]
      /\ feed' = feed \o FeedFill(o, n) \o FeedTrade(y, n)
      /\ UNCHANGED form
  BY <1>1, <1>3, <1>4 DEF OnFill
<1>7. ASSUME NEW q \in OrderIds PROVE Accepted(q)' <=> Accepted(q)
  <2>1. PICK h, x : h = history[q] /\ x = "Filled"
    OBVIOUS
  <2>2. h \in Seq(States) /\ x \in States /\ x # "Accepted"
    BY <2>1 DEF HistoryInv, States
  <2>3. Append(h, x) \in Seq(States)
    BY <2>2
  <2>4. history'[q] \in {h, Append(h, x), Append(Append(h, x), x)}
    BY <1>6, <2>1 DEF HistoryInv
  <2>5. AcceptedIn(history'[q]) <=> AcceptedIn(h)
    BY <2>2, <2>3, <2>4, AcceptedHistory
  <2> QED
    BY <2>1, <2>5, AcceptedIs, AcceptedIsNext
<1>8. PICK m1, m2, f, g : /\ m1 = Itch("order_executed", o, y, n)
                          /\ m2 = Itch("trade", NoOrder, y, n)
                          /\ f = feed /\ g = f \o <<m1>>
  OBVIOUS
<1>9. /\ m1 \in FeedMessages /\ m2 \in FeedMessages
      /\ m1.type # "add_order" /\ m2.type # "add_order"
  BY <1>3, <1>5, <1>8 DEF FeedMessages, Itch
<1>10. feed' = g \o <<m2>>
  BY <1>1, <1>6, <1>8 DEF FeedFill, FeedTrade
<1>11. f \in Seq(FeedMessages)
  BY <1>8 DEF FeedOK
<1>12. /\ g \in Seq(FeedMessages)
       /\ Len(f) \in Nat /\ Len(g) = Len(f) + 1
       /\ g[Len(f) + 1] = m1
       /\ \A i \in 1..Len(f) : g[i] = f[i]
  BY <1>8, <1>9, <1>11, Lengthened
<1>13. /\ Len(feed') = Len(g) + 1
       /\ feed'[Len(g) + 1] = m2
       /\ \A i \in 1..Len(g) : feed'[i] = g[i]
  BY <1>9, <1>10, <1>12, Lengthened
<1>14. Extends(feed, feed')
  BY <1>8, <1>12, <1>13 DEF Extends
<1>15. \A i \in Len(feed) + 1 .. Len(feed') : feed'[i].type # "add_order"
  <2>1. \A i \in Len(f) + 1 .. Len(feed') : i = Len(f) + 1 \/ i = Len(g) + 1
    BY <1>12, <1>13
  <2>2. Len(f) + 1 \in 1..Len(g)
    BY <1>12
  <2> QED
    BY <1>8, <1>9, <1>12, <1>13, <2>1, <2>2
<1> QED
  BY <1>6, <1>7, <1>14, <1>15 DEF Quiet

(* The one step that announces an order: it had not been accepted, and so  *)
(* not been announced, before.                                             *)
LEMMA AddedAccept ==
  ASSUME SessionInv, BookInv, HistoryInv, HistoryInv', FeedOK(feed), FeedOK(feed'),
         AddedInv, NEW s \in Sessions, OnAccept(s)
  PROVE  AddedInv' /\ Extends(feed, feed') /\ UNCHANGED form
<1>1. PICK o, y, old, c : /\ o = handler[s].order /\ y = form[o].sym
                          /\ old = callbacks[y] /\ c = old[1]
  OBVIOUS
<1>2. /\ Calling(s, "accept") /\ Record(o, "Accepted") /\ UNCHANGED form
      /\ feed' = feed \o FeedAccept(o)
  BY <1>1 DEF OnAccept
<1>3. /\ handler[s].at = "call" /\ o \in OrderIds /\ form[o] \in Forms
      /\ old # <<>> /\ c.kind = "accept"
  BY <1>1, <1>2, CallbackMade
<1>4. history[o] = <<"Submitted">>
  BY <1>1, <1>3 DEF HistoryInv, ThreadHistory
<1>5. ~Accepted(o)
  BY <1>3, <1>4, AcceptedIs DEF AcceptedIn
<1>6. Accepted(o)' /\ \A q \in OrderIds \ {o} : Accepted(q)' <=> Accepted(q)
  <2>1. PICK h, x : h = history[o] /\ x = "Accepted"
    OBVIOUS
  <2>2. h \in Seq(States) /\ x \in States
    BY <1>3, <2>1 DEF HistoryInv, States
  <2>3. /\ history'[o] = Append(h, x)
        /\ \A q \in OrderIds \ {o} : history'[q] = history[q]
    BY <1>2, <1>3, <2>1 DEF Record, HistoryInv
  <2>4. AcceptedIn(history'[o])
    BY <2>1, <2>2, <2>3, AcceptedHistory
  <2> QED
    BY <1>3, <2>3, <2>4, AcceptedIs, AcceptedIsNext
<1>7. PICK m, f, g : m = AddOf(o) /\ f = feed /\ g = feed'
  OBVIOUS
<1>8. m \in FeedMessages /\ m.type = "add_order" /\ m.order = o /\ m = AddOf(o)'
  <2>1. /\ form[o].qty \in Nat /\ form[o].px \in Nat
        /\ form[o].buy \in BOOLEAN /\ form[o].sym \in Symbols
    BY <1>3, ExchangeAssumption DEF Forms
  <2>2. to_itch_price(form[o].px) \in -Half .. Half - 1
    BY <2>1, ItchPriceFits
  <2> QED
    BY <1>2, <1>3, <1>7, <2>1, <2>2 DEF FeedMessages, AddOf
<1>9. g = f \o <<m>> /\ f \in Seq(FeedMessages)
  BY <1>2, <1>7 DEF FeedAccept, AddOf, FeedOK
<1>10. /\ Len(f) \in Nat /\ Len(g) = Len(f) + 1
       /\ g[Len(f) + 1] = m
       /\ \A i \in 1..Len(f) : g[i] = f[i]
  BY <1>8, <1>9, Lengthened
<1>11. Extends(feed, feed')
  BY <1>7, <1>10 DEF Extends
<1>12. \A q \in OrderIds : AddOf(q)' = AddOf(q)
  BY <1>2 DEF AddOf
<1>13. \A i \in 1..Len(g) : i \in 1..Len(f) \/ i = Len(f) + 1
  BY <1>10
<1>14. ASSUME NEW i \in 1..Len(f), f[i].type = "add_order"
       PROVE  /\ f[i].order \in OrderIds \ {o} /\ Accepted(f[i].order)'
              /\ f[i] = AddOf(f[i].order)'
  <2>1. /\ f[i].order \in OrderIds /\ Accepted(f[i].order)
        /\ f[i] = AddOf(f[i].order)
    BY <1>7, <1>14 DEF AddedInv
  <2>2. f[i].order # o
    BY <1>5, <2>1
  <2>3. PICK q \in OrderIds \ {o} : q = f[i].order
    BY <2>1, <2>2
  <2>4. Accepted(q)' /\ f[i] = AddOf(q)'
    BY <1>6, <1>12, <2>1, <2>3
  <2> QED
    BY <2>3, <2>4
<1>15. \A i \in 1..Len(g) : g[i].type = "add_order" =>
         /\ g[i].order \in OrderIds
         /\ Accepted(g[i].order)'
         /\ g[i] = AddOf(g[i].order)'
  <2>1. ASSUME NEW i \in 1..Len(g), g[i].type = "add_order"
        PROVE  \E q \in OrderIds : q = g[i].order /\ Accepted(q)' /\ g[i] = AddOf(q)'
    <3>1. CASE i \in 1..Len(f)
      <4>1. g[i] = f[i]
        BY <1>10, <3>1
      <4>2. PICK q : q = f[i].order
        OBVIOUS
      <4>3. q \in OrderIds /\ Accepted(q)' /\ f[i] = AddOf(q)'
        BY <1>14, <2>1, <3>1, <4>1, <4>2
      <4> QED
        BY <4>1, <4>2, <4>3
    <3>2. CASE i = Len(f) + 1
      BY <1>3, <1>6, <1>8, <1>10, <3>2
    <3> QED
      BY <1>13, <3>1, <3>2
  <2> QED
    BY <2>1
<1>16. ASSUME NEW i \in 1..Len(g), NEW j \in 1..Len(g), g[i].type = "add_order",
              g[j].type = "add_order", g[i].order = g[j].order
       PROVE  i = j
  <2>1. ASSUME NEW k \in 1..Len(g), g[k].type = "add_order"
        PROVE  k = Len(f) + 1 <=> g[k].order = o
    BY <1>8, <1>10, <1>13, <1>14, <2>1
  <2>2. CASE g[i].order = o
    BY <1>16, <2>1, <2>2
  <2>3. CASE g[i].order # o
    <3>1. i \in 1..Len(f) /\ j \in 1..Len(f)
      BY <1>13, <1>16, <2>1, <2>3
    <3>2. f[i].type = "add_order" /\ f[j].type = "add_order" /\ f[i].order = f[j].order
      BY <1>10, <1>16, <3>1
    <3> QED
      BY <1>7, <3>1, <3>2 DEF AddedInv
  <2> QED
    BY <2>2, <2>3
<1>17. ASSUME NEW q \in OrderIds, Accepted(q)' PROVE Announced(g, q)
  <2>1. CASE q = o
    <3>1. Len(f) + 1 \in 1..Len(g)
      BY <1>10
    <3> QED
      BY <1>8, <1>10, <2>1, <3>1 DEF Announced
  <2>2. CASE q # o
    <3>1. Announced(f, q)
      BY <1>6, <1>7, <1>17, <2>2 DEF AddedInv
    <3>2. PICK i \in 1..Len(f) : f[i].type = "add_order" /\ f[i].order = q
      BY <3>1 DEF Announced
    <3>3. i \in 1..Len(g) /\ g[i] = f[i]
      BY <1>10
    <3> QED
      BY <3>2, <3>3 DEF Announced
  <2> QED
    BY <2>1, <2>2
<1>18. AddedInv'
  BY <1>7, <1>15, <1>16, <1>17 DEF AddedInv
<1> QED
  BY <1>2, <1>11, <1>18

LEMMA AddedStep ==
  ASSUME SessionInv, BookInv, HistoryInv, FeedInv, AddedInv, [Next]_vars
  PROVE  /\ AddedInv' /\ Extends(feed, feed')
         /\ \A q \in OrderIds : Accepted(q) => form'[q] = form[q]
<1>1. HistoryInv' /\ FeedOK(feed) /\ FeedOK(feed')
  <2>1. HistoryInv' /\ FeedInv'
    BY HistoryStep, FeedStep
  <2>2. FeedOK(feed)'
    BY <2>1 DEF FeedInv
  <2> QED
    BY <2>1, <2>2 DEF FeedInv, FeedOK
<1> DEFINE Goal == /\ AddedInv' /\ Extends(feed, feed')
                   /\ \A q \in OrderIds : Accepted(q) => form'[q] = form[q]
<1>2. ASSUME Quiet PROVE Goal
  BY <1>1, <1>2, AddedQuiet DEF Quiet
<1>3. ASSUME UNCHANGED <<form, history, feed>> PROVE Goal
  BY <1>1, <1>2, <1>3, AddedKept
<1>4. ASSUME NEW s \in Sessions, NEW f \in Forms, NewOrderSingle(s, f) PROVE Goal
  <2>1. UNCHANGED <<history, feed>>
    BY <1>4 DEF NewOrderSingle
  <2> QED
    BY <1>1, <1>2, <1>4, <2>1, AddedKept, NewIsNotAccepted
<1>5. ASSUME NEW s \in Sessions, Submit(s) \/ Refuse(s) \/ OnReject(s) PROVE Goal
  <2>1. UNCHANGED <<form, feed>>
        /\ \E o : \E x \in States : x # "Accepted" /\ Record(o, x)
    BY <1>5 DEF Submit, Refuse, OnReject, States
  <2> QED
    BY <1>1, <1>2, <2>1, QuietRecord
<1>6. ASSUME NEW s \in Sessions, OnAccept(s) PROVE Goal
  BY <1>1, <1>6, AddedAccept
<1>7. ASSUME NEW s \in Sessions, OnFill(s) PROVE Goal
  BY <1>1, <1>2, <1>7, QuietFill
<1>8. ASSUME NEW s \in Sessions,
             \/ EnterBook(s) \/ (\E r \in OrderIds : Match(s, r)) \/ Rest(s)
             \/ Finish(s) \/ Disconnect(s) \/ CloseStep(s)
      PROVE  Goal
  <2>1. UNCHANGED <<form, history, feed>>
    BY <1>8
    DEF EnterBook, Match, MatchWith, Rest, Finish, Disconnect, CloseStep, CloseSession, Unlink,
      EndSession, orderVars
  <2> QED
    BY <1>3, <2>1
<1>9. ASSUME NEW o \in OrderIds, CancelOrder(o) \/ ModifyOrder(o) PROVE Goal
  <2>1. PICK x \in States : x # "Accepted" /\ Record(o, x) /\ UNCHANGED form
    BY <1>9 DEF CancelOrder, ModifyOrder, States
  <2>2. FeedCancel[1] \in FeedMessages /\ FeedReplace[1] \in FeedMessages
        /\ FeedCancel[1].type # "add_order" /\ FeedReplace[1].type # "add_order"
        /\ FeedCancel = <<FeedCancel[1]>> /\ FeedReplace = <<FeedReplace[1]>>
    BY DEF FeedCancel, FeedReplace, Itch, FeedMessages, NoOrder
  <2>3. feed' = feed \o FeedCancel \/ feed' = feed \o FeedReplace
    BY <1>9 DEF CancelOrder, ModifyOrder
  <2>4. \E m \in FeedMessages : m.type # "add_order" /\ feed' = feed \o <<m>>
    BY <2>2, <2>3
  <2> QED
    BY <1>1, <1>2, <2>1, <2>4, QuietRecord
<1>10. ASSUME NEW o \in OrderIds,
              \/ RequestRejected(o, "CancelRejected")
              \/ RequestRejected(o, "ModifyRejected")
       PROVE  Goal
  <2>1. UNCHANGED <<form, feed>>
        /\ \E x \in States : x # "Accepted" /\ Record(o, x)
    BY <1>10 DEF RequestRejected, States
  <2> QED
    BY <1>1, <1>2, <2>1, QuietRecord
<1>11. ASSUME UNCHANGED vars PROVE Goal
  BY <1>3, <1>11 DEF vars, orderVars
<1> HIDE DEF Goal
<1>12. ASSUME NEW s \in Sessions, HandlerStep(s) PROVE Goal
  BY <1>5, <1>6, <1>7, <1>8, <1>12 DEF HandlerStep
<1>13. ASSUME NEW s \in Sessions, Disconnect(s) \/ CloseStep(s) PROVE Goal
  BY <1>8, <1>13
<1>14. Goal
  BY <1>4, <1>9, <1>10, <1>11, <1>12, <1>13 DEF Next
<1> QED
  BY <1>14 DEF Goal

(* The feed and the market agree on the orders there are: what is announced *)
(* was accepted, each accepted order is announced, and only once, with the *)
(* symbol, size, side and price its owner sent, whichever thread did it.   *)
THEOREM OrdersAnnouncedOnce == Spec => []AddedInv
<1>1. /\ SessionInv /\ BookInv /\ HistoryInv /\ FeedInv /\ AddedInv /\ [Next]_vars
      => AddedInv'
  BY AddedStep
<1>2. Spec => [](SessionInv /\ BookInv /\ HistoryInv /\ FeedInv)
  BY AllAlways, PTL
<1> QED
  BY <1>1, <1>2, AddedInit, PTL DEF Spec

-----------------------------------------------------------------------------
(* What somebody who reads the feed takes to be open.                      *)

(* The sum of some of the numbers of S.                                    *)
LEMMA TotalMasked ==
  ASSUME NEW f, NEW g, NEW S, IsFiniteSet(S), NEW E \in SUBSET S,
         \A i \in S : f[i] \in Int,
         \A i \in E : g[i] = f[i],
         \A i \in S \ E : g[i] = 0
  PROVE  Total(g, S) = Total(f, E)
<1> DEFINE B == {u \in SUBSET S : Total(g, u) # Total(f, u \cap E)}
<1> SUFFICES ASSUME B # {} PROVE FALSE
  <2>1. Total(g, S) = Total(f, S \cap E)
    OBVIOUS
  <2>2. S \cap E = E
    OBVIOUS
  <2> QED
    BY <2>1, <2>2
<1>1. PICK u \in B : \A v \in SUBSET u : v # u => v \notin B
  <2> HIDE DEF B
  <2>1. B \in SUBSET (SUBSET S)
    BY DEF B
  <2> QED
    BY <2>1, SmallestSubset
<1>2. Total(g, u) = OneOff(g, u)
  BY <1>1, FS_Subset, TotalStep
<1>3. u # {}
  <2>1. {} \cap E = {}
    OBVIOUS
  <2> QED
    BY <1>1, <1>2, <2>1, TotalOfNone DEF OneOff
<1>4. PICK x \in u : x = AnyOf(u)
  BY <1>3, AnyOfIn
<1>5. Total(g, u) = g[x] + Total(f, (u \ {x}) \cap E)
  BY <1>1, <1>2, <1>3, <1>4 DEF OneOff
<1>6. IsFiniteSet(u \cap E) /\ IsFiniteSet((u \ {x}) \cap E)
  BY <1>1, FS_Subset
<1>7. Total(f, (u \ {x}) \cap E) \in Int
  BY <1>1, <1>6, TotalType
<1>8. CASE x \in E
  <2>1. (u \ {x}) \cap E = (u \cap E) \ {x} /\ x \in u \cap E
    BY <1>8
  <2>2. Total(f, u \cap E) = f[x] + Total(f, (u \cap E) \ {x})
    BY <1>1, <1>6, <2>1, TotalSplit
  <2>3. g[x] = f[x]
    BY <1>1, <1>4, <1>8
  <2>4. Total(g, u) = Total(f, u \cap E)
    BY <1>5, <2>1, <2>2, <2>3
  <2> QED
    BY <1>1, <2>4
<1>9. CASE x \notin E
  <2>1. (u \ {x}) \cap E = u \cap E
    BY <1>9
  <2>2. g[x] = 0
    BY <1>1, <1>9
  <2>3. PICK n \in Int : n = Total(f, (u \ {x}) \cap E)
    BY <1>7
  <2>4. Total(g, u) = 0 + n
    BY <1>5, <2>2, <2>3
  <2>5. 0 + n = n
    BY <2>3
  <2>6. Total(g, u) = Total(f, u \cap E)
    BY <2>1, <2>3, <2>4, <2>5, Zenon
  <2> QED
    BY <1>1, <2>6
<1> QED
  BY <1>8, <1>9

(* Shares of order o that the feed f has reported as executed.             *)
FilledBy(m, o) == IF m.type = "order_executed" /\ m.order = o THEN m.shares ELSE 0

FilledIn(f, o) == Total([i \in DOMAIN f |-> FilledBy(f[i], o)], DOMAIN f)

LEMMA FilledByType ==
  ASSUME NEW m \in FeedMessages, NEW o
  PROVE  FilledBy(m, o) \in Nat
  BY DEF FilledBy, FeedMessages

LEMMA FilledNat ==
  ASSUME NEW f \in Seq(FeedMessages), NEW o
  PROVE  FilledIn(f, o) \in Nat
<1> DEFINE a == [i \in DOMAIN f |-> FilledBy(f[i], o)]
<1>1. DOMAIN f = 1..Len(f) /\ Len(f) \in Nat
  OBVIOUS
<1>2. \A i \in DOMAIN f : a[i] \in Nat
  BY FilledByType
<1>3. IsFiniteSet(DOMAIN f)
  BY <1>1, FS_Interval
<1> HIDE DEF a
<1>4. Total(a, DOMAIN f) \in Nat
  BY <1>2, <1>3, TotalNat
<1> QED
  BY <1>4 DEF FilledIn, a

LEMMA FilledGrows ==
  ASSUME NEW f \in Seq(FeedMessages), NEW m \in FeedMessages, NEW o
  PROVE  /\ f \o <<m>> \in Seq(FeedMessages)
         /\ FilledIn(f \o <<m>>, o) = FilledIn(f, o) + FilledBy(m, o)
<1> DEFINE d == f \o <<m>>
           n == Len(f)
           a == [i \in DOMAIN f |-> FilledBy(f[i], o)]
           b == [i \in DOMAIN d |-> FilledBy(d[i], o)]
<1>1. /\ DOMAIN f = 1..n /\ n \in Nat /\ DOMAIN d = 1 .. n + 1
      /\ d[n + 1] = m /\ \A i \in 1..n : d[i] = f[i]
      /\ d \in Seq(FeedMessages)
  OBVIOUS
<1> HIDE DEF d, n
<1>2. \A i \in 1..n : a[i] \in Int /\ b[i] = a[i]
  <2> SUFFICES ASSUME NEW i \in 1..n PROVE a[i] \in Int /\ b[i] = a[i]
    OBVIOUS
  <2>1. a[i] = FilledBy(f[i], o) /\ b[i] = FilledBy(f[i], o)
    BY <1>1
  <2>2. f[i] \in FeedMessages
    BY <1>1
  <2> QED
    BY <2>1, <2>2, FilledByType
<1>3. b[n + 1] = FilledBy(m, o) /\ b[n + 1] \in Int
  BY <1>1, FilledByType
<1> HIDE DEF a, b
<1>4. Total(b, 1 .. n + 1) = Total(a, 1..n) + b[n + 1]
  BY <1>1, <1>2, <1>3, TotalAppended
<1> QED
  BY <1>1, <1>3, <1>4 DEF FilledIn, d, a, b

(* One more message, which executes nothing.                               *)
LEMMA FilledSame ==
  ASSUME NEW f \in Seq(FeedMessages), NEW m \in FeedMessages,
         m.type # "order_executed", NEW o
  PROVE  FilledIn(f \o <<m>>, o) = FilledIn(f, o)
<1>1. FilledBy(m, o) = 0 /\ FilledIn(f, o) \in Nat
  BY FilledNat DEF FilledBy
<1> QED
  BY <1>1, FilledGrows

(* No more is reported as executed than the order was told it has traded.  *)
FilledInv == \A o \in 1..lastId : FilledIn(feed, o) + leaves[o] <= form[o].qty

LEMMA FilledInit == Init => FilledInv
  BY DEF Init, FilledInv

(* Steps that report no execution and give no order shares back.           *)
LEMMA FilledKept ==
  ASSUME SessionInv, BookInv, FeedInv, AgreeInv, AgreeInv', FilledInv,
         UNCHANGED <<form, lastId>>,
         \A q \in 1..lastId : /\ FilledIn(feed', q) = FilledIn(feed, q)
                              /\ leaves'[q] <= leaves[q]
  PROVE  FilledInv'
<1> SUFFICES ASSUME NEW q \in 1..lastId
             PROVE  FilledIn(feed', q) + leaves'[q] <= form[q].qty
  BY DEF FilledInv
<1>1. q \in OrderIds /\ form[q].qty \in Nat
  <2>1. q \in OrderIds /\ form[q] \in Forms
    BY ExchangeAssumption DEF SessionInv, SessionTypes, OrderIds, BookInv, BookTypes
  <2>2. form[q].qty \in Quantities
    BY <2>1 DEF Forms
  <2> QED
    BY <2>1, <2>2, ExchangeAssumption
<1>2. leaves[q] \in Nat /\ leaves'[q] \in Nat
  BY <1>1 DEF AgreeInv
<1>3. FilledIn(feed, q) \in Nat
  BY FilledNat DEF FeedInv, FeedOK
<1>4. FilledIn(feed, q) + leaves[q] <= form[q].qty
  BY DEF FilledInv
<1>5. FilledIn(feed', q) = FilledIn(feed, q) /\ leaves'[q] <= leaves[q]
  OBVIOUS
<1> QED
  BY <1>1, <1>2, <1>3, <1>4, <1>5

(* An order that is still to come has not been executed.                   *)
LEMMA NewIsNotFilled ==
  ASSUME SessionInv, HistoryInv, FeedInv, AddedInv, NEW o \in OrderIds, o > lastId
  PROVE  FilledIn(feed, o) = 0
<1>1. ~Accepted(o)
  <2>1. history[o] = <<>> /\ Len(<<>>) = 0
    BY DEF HistoryInv
  <2> QED
    BY <2>1, AcceptedIs DEF AcceptedIn
<1>2. \A i \in 1..Len(feed) : feed[i].type = "order_executed" => feed[i].order # o
  <2> SUFFICES ASSUME NEW i \in 1..Len(feed), feed[i].type = "order_executed",
                      feed[i].order = o
               PROVE  FALSE
    OBVIOUS
  <2>1. feed \in Seq(FeedMessages) /\ Len(feed) \in Nat
    BY DEF FeedInv, FeedOK
  <2>2. PICK j \in 1 .. i - 1 : feed[j].type = "add_order" /\ feed[j].order = o
    BY DEF FeedInv, FeedOK
  <2>3. j \in 1..Len(feed)
    BY <2>1
  <2> QED
    BY <1>1, <2>2, <2>3 DEF AddedInv
<1>3. DOMAIN feed = 1..Len(feed) /\ IsFiniteSet(DOMAIN feed)
  BY FS_Interval DEF FeedInv, FeedOK
<1>4. PICK a : a = [i \in DOMAIN feed |-> FilledBy(feed[i], o)]
  OBVIOUS
<1>5. \A i \in DOMAIN feed : a[i] = 0
  BY <1>2, <1>3, <1>4 DEF FilledBy
<1>6. Total(a, DOMAIN feed) = 0
  BY <1>3, <1>5, TotalOfNothing
<1> QED
  BY <1>4, <1>6 DEF FilledIn

LEMMA FilledNew ==
  ASSUME SessionInv, BookInv, HistoryInv, FeedInv, AddedInv, AgreeInv, FilledInv,
         NEW s \in Sessions, NEW f \in Forms, NewOrderSingle(s, f)
  PROVE  FilledInv'
<1>1. PICK o : o = lastId + 1
  OBVIOUS
<1>2. /\ lastId' = o /\ o \in OrderIds /\ o > lastId
      /\ form' = [form EXCEPT ![o] = f] /\ leaves' = [leaves EXCEPT ![o] = f.qty]
      /\ feed' = feed
  BY <1>1, ExchangeAssumption DEF NewOrderSingle, OrderIds, SessionInv, SessionTypes
<1>3. /\ form'[o] = f /\ leaves'[o] = f.qty
      /\ \A q \in OrderIds \ {o} : form'[q] = form[q] /\ leaves'[q] = leaves[q]
  BY <1>2 DEF BookInv, BookTypes, AgreeInv
<1>4. FilledIn(feed, o) = 0
  BY <1>2, NewIsNotFilled
<1>5. f.qty \in Nat
  <2>1. f.qty \in Quantities
    BY DEF Forms
  <2> QED
    BY <2>1, ExchangeAssumption
<1>6. ASSUME NEW q \in 1..o PROVE FilledIn(feed', q) + leaves'[q] <= form'[q].qty
  <2>1. CASE q = o
    BY <1>2, <1>3, <1>4, <1>5, <2>1
  <2>2. CASE q # o
    <3>1. q \in 1..lastId /\ q \in OrderIds \ {o}
      BY <1>1, <1>6, <2>2, ExchangeAssumption DEF SessionInv, SessionTypes, OrderIds
    <3> QED
      BY <1>2, <1>3, <3>1 DEF FilledInv
  <2> QED
    BY <2>1, <2>2
<1> QED
  BY <1>2, <1>6 DEF FilledInv

LEMMA FilledTold ==
  ASSUME SessionInv, BookInv, FeedInv, AgreeInv, AgreeInv', FilledInv,
         NEW s \in Sessions, OnFill(s)
  PROVE  FilledInv'
<1>1. PICK o, y, old, c : /\ o = handler[s].order /\ y = form[o].sym
                          /\ old = callbacks[y] /\ c = old[1]
  OBVIOUS
<1>2. Calling(s, "fill")
  BY DEF OnFill
<1>3. /\ handler[s].at = "call" /\ o \in OrderIds /\ form[o] \in Forms /\ y \in Symbols
      /\ c = Head(old) /\ c \in CallbackRecords
      /\ c.other \in OrderIds /\ QueuedFill(c, o)
  BY <1>1, <1>2, CallbackMade
<1>4. PICK r, n : r = c.other /\ n = c.qty
  OBVIOUS
<1>5. r \in OrderIds /\ r # o /\ n \in Nat
  BY <1>3, <1>4 DEF QueuedFill, CallbackRecords
<1>6. /\ leaves' = [leaves EXCEPT ![o] = leaves[o] - n, ![r] = leaves[r] - n]
      /\ feed' = feed \o FeedFill(o, n) \o FeedTrade(y, n)
      /\ UNCHANGED <<form, lastId>>
  BY <1>1, <1>3, <1>4 DEF OnFill
<1>7. /\ leaves'[o] = leaves[o] - n /\ leaves'[r] = leaves[r] - n
      /\ \A q \in OrderIds \ {o, r} : leaves'[q] = leaves[q]
      /\ \A q \in OrderIds : leaves[q] \in Nat
  BY <1>3, <1>5, <1>6 DEF AgreeInv
<1>8. PICK m1, m2, f, g : /\ m1 = Itch("order_executed", o, y, n)
                          /\ m2 = Itch("trade", NoOrder, y, n)
                          /\ f = feed /\ g = f \o <<m1>>
  OBVIOUS
<1>9. m1 \in FeedMessages /\ m2 \in FeedMessages /\ m2.type # "order_executed"
  BY <1>3, <1>5, <1>8 DEF FeedMessages, Itch
<1>10. feed' = g \o <<m2>>
  BY <1>1, <1>6, <1>8 DEF FeedFill, FeedTrade
<1>11. f \in Seq(FeedMessages) /\ g \in Seq(FeedMessages)
  BY <1>8, <1>9, FilledGrows DEF FeedInv, FeedOK
<1>12. ASSUME NEW q
       PROVE  FilledIn(feed', q) = FilledIn(feed, q) + (IF q = o THEN n ELSE 0)
  <2>1. FilledIn(feed', q) = FilledIn(g, q)
    BY <1>9, <1>10, <1>11, FilledSame
  <2>2. FilledIn(g, q) = FilledIn(f, q) + FilledBy(m1, q)
    BY <1>8, <1>9, <1>11, FilledGrows
  <2>3. FilledBy(m1, q) = (IF q = o THEN n ELSE 0)
    BY <1>8 DEF FilledBy, Itch
  <2> QED
    BY <1>8, <2>1, <2>2, <2>3
<1>13. ASSUME NEW q \in 1..lastId
       PROVE  FilledIn(feed', q) + leaves'[q] <= form[q].qty
  <2>1. q \in OrderIds
    BY ExchangeAssumption DEF SessionInv, SessionTypes, OrderIds
  <2>2. PICK l, k, z : l = leaves[q] /\ k = FilledIn(feed, q) /\ z = form[q].qty
    OBVIOUS
  <2>3. l \in Nat /\ k \in Nat /\ k + l <= z
    BY <1>7, <2>1, <2>2, FilledNat DEF FilledInv, FeedInv, FeedOK
  <2>4. z \in Nat
    <3>1. form[q] \in Forms
      BY DEF BookInv, BookTypes
    <3>2. z \in Quantities
      BY <2>2, <3>1 DEF Forms
    <3> QED
      BY <3>2, ExchangeAssumption
  <2>5. CASE q = o
    <3>1. FilledIn(feed', q) = k + n /\ leaves'[q] = l - n
      BY <1>7, <1>12, <2>2, <2>5
    <3> QED
      BY <1>5, <2>2, <2>3, <2>4, <3>1
  <2>6. CASE q # o
    <3>1. FilledIn(feed', q) = k
      BY <1>12, <2>2, <2>3, <2>6
    <3>2. leaves'[q] = l \/ leaves'[q] = l - n
      BY <1>7, <2>1, <2>2, <2>6
    <3> QED
      BY <1>5, <2>2, <2>3, <2>4, <3>1, <3>2
  <2> QED
    BY <2>5, <2>6
<1> QED
  BY <1>6, <1>13 DEF FilledInv

LEMMA FilledStep ==
  ASSUME SessionInv, BookInv, HistoryInv, FeedInv, AddedInv, AgreeInv, FilledInv,
         [Next]_vars
  PROVE  FilledInv'
<1>1. AgreeInv' /\ feed \in Seq(FeedMessages) /\ leaves \in [OrderIds -> Nat]
  BY AgreeStep DEF FeedInv, FeedOK, AgreeInv
<1>2. \A q \in 1..lastId : q \in OrderIds
  BY ExchangeAssumption DEF SessionInv, SessionTypes, OrderIds
<1>3. ASSUME UNCHANGED <<form, lastId>>,
             \A q \in 1..lastId : FilledIn(feed', q) = FilledIn(feed, q),
             leaves' = leaves \/ \E o : leaves' = [leaves EXCEPT ![o] = 0]
      PROVE  FilledInv'
  <2>1. \A q \in OrderIds : leaves[q] \in Nat /\ leaves'[q] <= leaves[q]
    BY <1>1, <1>3
  <2> QED
    BY <1>1, <1>2, <1>3, <2>1, FilledKept
<1>4. ASSUME NEW m \in FeedMessages, m.type # "order_executed", feed' = feed \o <<m>>
      PROVE  \A q \in 1..lastId : FilledIn(feed', q) = FilledIn(feed, q)
  BY <1>1, <1>4, FilledSame
<1>5. ASSUME NEW s \in Sessions, NEW f \in Forms, NewOrderSingle(s, f)
      PROVE  FilledInv'
  BY <1>5, FilledNew
<1>6. ASSUME NEW s \in Sessions,
             \/ Submit(s) \/ EnterBook(s) \/ (\E r \in OrderIds : Match(s, r))
             \/ Rest(s) \/ Finish(s) \/ Disconnect(s) \/ CloseStep(s)
      PROVE  FilledInv'
  <2>1. UNCHANGED <<form, lastId, leaves, feed>>
    BY <1>6
    DEF Submit, EnterBook, Match, MatchWith, Rest, Finish, Disconnect, CloseStep, CloseSession, Unlink,
      EndSession,
        orderVars
  <2> QED
    BY <1>3, <2>1
<1>7. ASSUME NEW s \in Sessions, Refuse(s) \/ OnReject(s) PROVE FilledInv'
  <2>1. UNCHANGED <<form, lastId, feed>> /\ \E o : leaves' = [leaves EXCEPT ![o] = 0]
    BY <1>7 DEF Refuse, OnReject
  <2> QED
    BY <1>3, <2>1
<1>8. ASSUME NEW s \in Sessions, OnAccept(s) PROVE FilledInv'
  <2>1. PICK o, y, old, c, m : /\ o = handler[s].order /\ y = form[o].sym
                               /\ old = callbacks[y] /\ c = old[1]
                               /\ m = AddOf(o)
    OBVIOUS
  <2>2. Calling(s, "accept") /\ UNCHANGED <<form, lastId, leaves>>
        /\ feed' = feed \o FeedAccept(o)
    BY <1>8, <2>1 DEF OnAccept
  <2>3. o \in OrderIds /\ form[o] \in Forms
    BY <2>1, <2>2, CallbackMade
  <2>4. /\ form[o].qty \in Nat /\ form[o].px \in Nat
        /\ form[o].buy \in BOOLEAN /\ form[o].sym \in Symbols
    BY <2>3, ExchangeAssumption DEF Forms
  <2>5. to_itch_price(form[o].px) \in -Half .. Half - 1
    BY <2>4, ItchPriceFits
  <2>6. m \in FeedMessages /\ m.type # "order_executed"
    BY <2>1, <2>3, <2>4, <2>5 DEF FeedMessages, AddOf
  <2>7. feed' = feed \o <<m>>
    BY <2>1, <2>2 DEF FeedAccept, AddOf
  <2> QED
    BY <1>3, <1>4, <2>2, <2>6, <2>7
<1>9. ASSUME NEW s \in Sessions, OnFill(s) PROVE FilledInv'
  BY <1>1, <1>9, FilledTold
<1>10. ASSUME NEW o \in OrderIds, CancelOrder(o) \/ ModifyOrder(o) PROVE FilledInv'
  <2>1. FeedCancel[1] \in FeedMessages /\ FeedReplace[1] \in FeedMessages
        /\ FeedCancel[1].type # "order_executed"
        /\ FeedReplace[1].type # "order_executed"
        /\ FeedCancel = <<FeedCancel[1]>> /\ FeedReplace = <<FeedReplace[1]>>
    BY DEF FeedCancel, FeedReplace, Itch, FeedMessages, NoOrder
  <2>2. /\ feed' = feed \o FeedCancel \/ feed' = feed \o FeedReplace
        /\ leaves' = leaves \/ leaves' = [leaves EXCEPT ![o] = 0]
        /\ UNCHANGED <<form, lastId>>
    BY <1>10 DEF CancelOrder, ModifyOrder
  <2>3. \A q \in 1..lastId : FilledIn(feed', q) = FilledIn(feed, q)
    BY <1>4, <2>1, <2>2
  <2> QED
    BY <1>3, <2>2, <2>3
<1>11. ASSUME NEW o \in OrderIds,
              \/ RequestRejected(o, "CancelRejected")
              \/ RequestRejected(o, "ModifyRejected")
       PROVE  FilledInv'
  <2>1. UNCHANGED <<form, lastId, leaves, feed>>
    BY <1>11 DEF RequestRejected
  <2> QED
    BY <1>3, <2>1
<1>12. CASE UNCHANGED vars
  BY <1>3, <1>12 DEF vars, orderVars
<1>13. ASSUME NEW s \in Sessions, HandlerStep(s) PROVE FilledInv'
  BY <1>6, <1>7, <1>8, <1>9, <1>13 DEF HandlerStep
<1> QED
  BY <1>5, <1>6, <1>10, <1>11, <1>12, <1>13 DEF Next

(* A reader that subtracts the executions from the orders added never has  *)
(* less of an order than the exchange has, nor than the book: of the trade *)
(* the feed leaves out, only the resting side is missed.                   *)
FedNoLess ==
  \A o \in OrderIds : Accepted(o) => /\ FedOpen(o) >= leaves[o]
                                     /\ leaves[o] >= open[o]

LEMMA FilledGivesFed ==
  ASSUME SessionInv, BookInv, HistoryInv, FeedInv, AddedInv, AgreeInv, FilledInv
  PROVE  FedNoLess
<1> SUFFICES ASSUME NEW o \in OrderIds, Accepted(o)
             PROVE  FedOpen(o) >= leaves[o] /\ leaves[o] >= open[o]
  BY DEF FedNoLess
<1>1. history[o] # <<>> /\ history[o] # <<"Submitted">>
  <2>1. Len(<<>>) = 0
    OBVIOUS
  <2>2. AcceptedIn(history[o])
    BY AcceptedIs
  <2> QED
    BY <2>1, <2>2 DEF AcceptedIn
<1>2. o \in 1..lastId /\ form[o] \in Forms /\ form[o].sym \in Symbols
  <2>1. o \in 1..lastId
    BY <1>1 DEF HistoryInv, OrderIds, SessionInv, SessionTypes
  <2>2. form[o] \in Forms
    BY <2>1 DEF BookInv, BookTypes
  <2> QED
    BY <2>1, <2>2 DEF Forms
<1>3. form[o].qty \in Nat
  <2>1. form[o].qty \in Quantities
    BY <1>2 DEF Forms
  <2> QED
    BY <2>1, ExchangeAssumption
<1>4. Entered(o)
  <2>1. \A s \in Sessions : handler[s].order = o =>
          handler[s].at \notin {"get_book", "lock"}
    <3>1. \A s \in Sessions : ThreadHistory(s)
      BY DEF HistoryInv
    <3> QED
      BY <1>1, <3>1 DEF ThreadHistory
  <2>2. \A s \in Sessions : handler[s].order = o => handler[s].at # "idle"
    BY DEF AgreeInv, NoOrder, OrderIds
  <2>3. Known(o)
    BY <1>2, NoneAssumption DEF Known
  <2> QED
    BY <2>1, <2>2, <2>3 DEF Entered, SessionInv, SessionTypes, Places
<1>5. leaves[o] \in Nat /\ open[o] \in Nat /\ leaves[o] >= open[o]
  <2>1. callbacks[form[o].sym] \in Seq(CallbackRecords)
    BY <1>2 DEF BookInv, BookTypes
  <2>2. Untold(o) \in Nat
    BY <2>1, ToldNat DEF Untold
  <2>3. leaves[o] = open[o] + Untold(o) /\ open[o] \in Nat
    BY <1>4 DEF AgreeInv, LeavesAgree, BookInv, BookTypes
  <2> QED
    BY <2>2, <2>3 DEF AgreeInv
<1>6. PICK f, S : f = feed /\ S = DOMAIN feed
  OBVIOUS
<1>7. f \in Seq(FeedMessages) /\ S = 1..Len(f) /\ IsFiniteSet(S)
  BY <1>6, FS_Interval DEF FeedInv, FeedOK
<1>8. PICK F : F = [i \in S |-> f[i].shares]
  OBVIOUS
<1>9. \A i \in S : F[i] \in Int
  BY <1>7, <1>8 DEF FeedMessages
<1>10. PICK A, E : /\ A = {i \in S : f[i].type = "add_order" /\ f[i].order = o}
                   /\ E = {i \in S : f[i].type = "order_executed" /\ f[i].order = o}
  OBVIOUS
<1>11. FedOpen(o) = Total(F, A) - Total(F, E)
  BY <1>6, <1>8, <1>10 DEF FedOpen
<1>12. Total(F, A) = form[o].qty
  <2>1. PICK k \in S : f[k].type = "add_order" /\ f[k].order = o
    BY <1>6, <1>7 DEF AddedInv, Announced
  <2>2. A = {k}
    BY <1>6, <1>7, <1>10, <2>1 DEF AddedInv
  <2>3. F[k] = form[o].qty
    <3>1. f[k] = AddOf(o)
      BY <1>6, <1>7, <2>1 DEF AddedInv
    <3> QED
      BY <1>8, <3>1 DEF AddOf
  <2>4. IsFiniteSet(A) /\ A \ {k} = {}
    BY <2>2, FS_Singleton
  <2>5. Total(F, A) = F[k] + Total(F, A \ {k})
    BY <1>9, <2>2, <2>4, TotalSplit
  <2> QED
    BY <1>3, <2>3, <2>4, <2>5, TotalOfNone
<1>13. Total(F, E) = FilledIn(f, o)
  <2>1. PICK g : g = [i \in DOMAIN f |-> FilledBy(f[i], o)]
    OBVIOUS
  <2>2. DOMAIN f = S
    BY <1>6
  <2>3. /\ \A i \in E : g[i] = F[i]
        /\ \A i \in S \ E : g[i] = 0
    <3>1. \A i \in S : g[i] = FilledBy(f[i], o) /\ F[i] = f[i].shares
      BY <1>8, <2>1, <2>2
    <3>2. \A i \in S : i \in E <=> f[i].type = "order_executed" /\ f[i].order = o
      BY <1>10
    <3> QED
      BY <1>10, <3>1, <3>2 DEF FilledBy
  <2>4. E \in SUBSET S
    BY <1>10
  <2>5. Total(g, S) = Total(F, E)
    <3>1. IsFiniteSet(S)
      BY <1>7
    <3> QED
      BY <1>9, <2>3, <2>4, <3>1, TotalMasked
  <2> QED
    <3>1. FilledIn(f, o) = Total(g, DOMAIN f)
      BY <2>1 DEF FilledIn
    <3> QED
      BY <2>2, <2>5, <3>1
<1>14. FilledIn(f, o) + leaves[o] <= form[o].qty /\ FilledIn(f, o) \in Nat
  BY <1>2, <1>6, <1>7, FilledNat DEF FilledInv
<1> QED
  BY <1>3, <1>5, <1>11, <1>12, <1>13, <1>14

(* What a reader makes of the feed is not less than what is open, at every *)
(* step of a match: the finding that the feed loses track of orders goes   *)
(* in one direction only.                                                  *)
THEOREM FeedNeverShort == Spec => []FedNoLess
<1>1. SessionInv /\ BookInv /\ HistoryInv /\ FeedInv /\ AddedInv /\ AgreeInv
      /\ FilledInv => FedNoLess
  BY FilledGivesFed
<1>2. /\ SessionInv /\ BookInv /\ HistoryInv /\ FeedInv /\ AddedInv /\ AgreeInv
      /\ FilledInv /\ [Next]_vars
      => FilledInv'
  BY FilledStep
<1>3. Spec => [](SessionInv /\ BookInv /\ HistoryInv /\ FeedInv /\ AgreeInv)
  BY AllAlways, PTL
<1>4. Spec => []FilledInv
  BY <1>2, <1>3, FilledInit, OrdersAnnouncedOnce, PTL DEF Spec
<1> QED
  BY <1>1, <1>3, <1>4, OrdersAnnouncedOnce, PTL

-----------------------------------------------------------------------------
(* The exchange behind the reader.                                         *)

LEMMA ReaderKeeps ==
  ASSUME [ReaderNext]_<<vars, readerVars>>
  PROVE  [Next]_vars
<1>1. CASE ReaderNext
  <2>1. ASSUME NEW m, TakeAddOrder(m) \/ TakeOther(m) PROVE UNCHANGED vars
    BY <2>1 DEF TakeAddOrder, TakeOther, Take
  <2>2. ASSUME NEW y, AddBook(y) PROVE UNCHANGED vars
    BY <2>2 DEF AddBook
  <2> QED
    BY <1>1, <2>1, <2>2 DEF ReaderNext
<1>2. CASE UNCHANGED <<vars, readerVars>>
  BY <1>2
<1> QED
  BY <1>1, <1>2

(* The reader is no part of the exchange: what it does leaves the exchange *)
(* alone, and whatever is true of the exchange is true of it when it is    *)
(* read.                                                                   *)
THEOREM ReaderOnlyReads == ReaderSpec => Spec
<1>1. ReaderInit => Init
  BY DEF ReaderInit
<1>2. [ReaderNext]_<<vars, readerVars>> => [Next]_vars
  BY ReaderKeeps
<1> QED
  BY <1>1, <1>2, PTL DEF ReaderSpec, Spec

-----------------------------------------------------------------------------
(* What the reader has seen.                                               *)

SeenIn(f, n) ==
  {o \in OrderIds : \E i \in 1..n : f[i].type = "add_order" /\ f[i].order = o}

SeenOn(y, d) == {o \in SeenIn(feed, taken) : form[o].sym = y /\ Side(o) = d}

(* p is what the reader was told to be the best of the levels L of side d. *)
Best(d, p, L) == IF L = {} THEN p = 0 ELSE p \in L /\ First(d, p, L)

(* The reader has counted and booked what was announced in the messages it *)
(* has taken, and the best it was told is the best of its levels.          *)
ReaderInv ==
  /\ taken \in 0..Len(feed)
  /\ books \subseteq Symbols
  /\ levels \in [Symbols -> [Sides -> SUBSET Int]]
  /\ bbos \in [Symbols -> [Sides -> Int]]
  /\ added = Cardinality(SeenIn(feed, taken))
  /\ ~failed => \A y \in Symbols, d \in Sides :
       levels[y][d] = {Shown(o) : o \in SeenOn(y, d)}
  /\ \A y \in Symbols, d \in Sides : Best(d, bbos[y][d], levels[y][d])

LEMMA SeenFinite ==
  ASSUME NEW f, NEW n
  PROVE  IsFiniteSet(SeenIn(f, n)) /\ SeenIn(f, n) \subseteq OrderIds
<1>1. SeenIn(f, n) \subseteq OrderIds
  BY DEF SeenIn
<1> QED
  BY <1>1, OrderIdsFinite, FS_Subset

LEMMA ShownInt == ASSUME NEW o, form[o] \in Forms PROVE Shown(o) \in Int
<1>1. form[o].px \in Int
  <2>1. form[o].px \in Prices
    BY DEF Forms
  <2>2. \A p \in Prices : p \in Int
    BY ExchangeAssumption
  <2> QED
    BY <2>1, <2>2
<1>2. to_itch_price(form[o].px) \in -Half .. Half - 1
  BY <1>1, ItchPriceFits
<1>3. PICK i : i = to_itch_price(form[o].px) * Ratio
  OBVIOUS
<1>4. i \in Int
  BY <1>2, <1>3, LatinexConfigAssumption
<1> QED
  BY <1>3, <1>4, Int32Int DEF Shown, from_itch_price

(* add_bid and add_ask keep the best price the best.                       *)
LEMMA BestStays ==
  ASSUME NEW d, NEW L \in SUBSET Int, NEW p, Best(d, p, L), NEW x \in Int
  PROVE  Best(d, IF x \notin L /\ First(d, x, L) THEN x ELSE p, L \cup {x})
<1>1. CASE x \in L
  <2>1. L \cup {x} = L
    BY <1>1
  <2> QED
    BY <1>1, <2>1
<1>2. CASE x \notin L /\ First(d, x, L)
  BY <1>2 DEF Best, First
<1>3. CASE x \notin L /\ ~First(d, x, L)
  <2>1. PICK q \in L : IF d = "bid" THEN q > x ELSE q < x
    BY <1>3 DEF First
  <2>2. p \in L /\ First(d, p, L)
    BY <2>1 DEF Best
  <2>3. IF d = "bid" THEN p >= x ELSE p <= x
    BY <2>1, <2>2 DEF First
  <2>4. p \in L \cup {x} /\ First(d, p, L \cup {x})
    BY <2>2, <2>3 DEF First
  <2> QED
    BY <1>3, <2>4 DEF Best
<1> QED
  BY <1>1, <1>2, <1>3

LEMMA ReaderInitially == ReaderInit => ReaderInv
<1> SUFFICES ASSUME ReaderInit PROVE ReaderInv
  OBVIOUS
<1>1. taken = 0 /\ feed = <<>> /\ Len(feed) = 0 /\ added = 0 /\ books = {}
  BY DEF ReaderInit, Init
<1>2. SeenIn(feed, taken) = {}
  BY <1>1 DEF SeenIn
<1>3. Cardinality(SeenIn(feed, taken)) = 0
  BY <1>2, FS_EmptySet
<1>4. /\ levels = [y \in Symbols |-> [d \in Sides |-> {}]]
      /\ bbos = [y \in Symbols |-> [d \in Sides |-> 0]]
  BY DEF ReaderInit
<1>5. \A y \in Symbols, d \in Sides :
        /\ levels[y][d] = {Shown(o) : o \in SeenOn(y, d)}
        /\ Best(d, bbos[y][d], levels[y][d])
  BY <1>2, <1>4 DEF SeenOn, Best
<1>6. /\ levels \in [Symbols -> [Sides -> SUBSET Int]]
      /\ bbos \in [Symbols -> [Sides -> Int]]
  BY <1>4
<1> QED
  BY <1>1, <1>3, <1>5, <1>6 DEF ReaderInv

(* Whatever the exchange does, what has been seen stays as it was seen.    *)
LEMMA ReaderWaits ==
  ASSUME AddedInv, FeedOK(feed), FeedOK(feed'), ReaderInv, UNCHANGED readerVars,
         Extends(feed, feed'),
         \A q \in OrderIds : Accepted(q) => form'[q] = form[q]
  PROVE  ReaderInv'
<1>1. taken \in 0..Len(feed) /\ taken \in 0..Len(feed') /\ Len(feed) \in Nat
  BY DEF ReaderInv, FeedOK, Extends
<1>2. \A i \in 1..taken : i \in 1..Len(feed) /\ feed'[i] = feed[i]
  BY <1>1 DEF Extends
<1>3. SeenIn(feed', taken) = SeenIn(feed, taken)
  BY <1>2 DEF SeenIn
<1>4. ASSUME NEW o \in SeenIn(feed, taken) PROVE form'[o] = form[o]
  <2>1. PICK i \in 1..taken : feed[i].type = "add_order" /\ feed[i].order = o
    BY <1>4 DEF SeenIn
  <2>2. i \in 1..Len(feed)
    BY <1>2
  <2> QED
    BY <2>1, <2>2 DEF AddedInv
<1>5. UNCHANGED <<taken, failed, added, books, levels, bbos>>
  BY DEF readerVars
<1>6. ASSUME NEW y \in Symbols, NEW d \in Sides, ~failed
      PROVE  levels'[y][d] = {Shown(o)' : o \in SeenOn(y, d)'}
  <2>1. SeenOn(y, d)' = SeenOn(y, d)
    BY <1>3, <1>4, <1>5 DEF SeenOn, Side
  <2>2. \A o \in SeenOn(y, d) : Shown(o)' = Shown(o)
    BY <1>4 DEF SeenOn, Shown
  <2>3. {Shown(o)' : o \in SeenOn(y, d)} = {Shown(o) : o \in SeenOn(y, d)}
    BY <2>2
  <2> QED
    BY <1>5, <1>6, <2>1, <2>3 DEF ReaderInv
<1>7. /\ taken' \in 0..Len(feed')
      /\ books' \subseteq Symbols
      /\ levels' \in [Symbols -> [Sides -> SUBSET Int]]
      /\ bbos' \in [Symbols -> [Sides -> Int]]
      /\ added' = Cardinality(SeenIn(feed', taken'))
      /\ \A y \in Symbols, d \in Sides : Best(d, bbos'[y][d], levels'[y][d])
  BY <1>1, <1>3, <1>5 DEF ReaderInv
<1> QED
  BY <1>5, <1>6, <1>7 DEF ReaderInv

(* The reader takes the announcement of an order it has not seen before.   *)
LEMMA SeenMore ==
  ASSUME AddedInv, FeedOK(feed), NEW n \in Nat, n < Len(feed),
         feed[n + 1].type = "add_order", NEW o, o = feed[n + 1].order
  PROVE  /\ o \in OrderIds /\ o \notin SeenIn(feed, n)
         /\ SeenIn(feed, n + 1) = SeenIn(feed, n) \cup {o}
<1>1. n + 1 \in 1..Len(feed) /\ \A i \in 1..n : i \in 1..Len(feed) /\ i # n + 1
  BY DEF FeedOK
<1>2. o \in OrderIds
  BY <1>1 DEF AddedInv
<1>3. o \notin SeenIn(feed, n)
  BY <1>1 DEF SeenIn, AddedInv
<1>4. \A i \in 1 .. n + 1 : i \in 1..n \/ i = n + 1
  OBVIOUS
<1>5. \A i \in 1..n : i \in 1 .. n + 1
  OBVIOUS
<1>6. n + 1 \in 1 .. n + 1
  OBVIOUS
<1>7. ASSUME NEW q \in OrderIds
      PROVE  q \in SeenIn(feed, n + 1) <=> q \in SeenIn(feed, n) \cup {o}
  BY <1>4, <1>5, <1>6, <1>7 DEF SeenIn
<1>8. SeenIn(feed, n + 1) \subseteq OrderIds /\ SeenIn(feed, n) \subseteq OrderIds
  BY SeenFinite
<1> QED
  BY <1>2, <1>3, <1>7, <1>8

LEMMA SeenSame ==
  ASSUME NEW f, NEW n \in Nat, f[n + 1].type # "add_order"
  PROVE  SeenIn(f, n + 1) = SeenIn(f, n)
<1>1. \A i \in 1 .. n + 1 : i \in 1..n \/ i = n + 1
  OBVIOUS
<1>2. \A i \in 1..n : i \in 1 .. n + 1
  OBVIOUS
<1> QED
  BY <1>1, <1>2 DEF SeenIn

LEMMA ReaderTakesOther ==
  ASSUME FeedOK(feed), ReaderInv, NEW m, TakeOther(m)
  PROVE  ReaderInv'
<1>1. /\ taken < Len(feed) /\ m = feed[taken + 1] /\ taken' = taken + 1
      /\ m.type # "add_order"
      /\ UNCHANGED <<vars, failed, added, books, levels, bbos>>
  BY DEF TakeOther, Take
<1>2. UNCHANGED <<feed, form>>
  BY <1>1 DEF vars, orderVars
<1>3. taken \in Nat /\ taken' \in 0..Len(feed)
  BY <1>1 DEF ReaderInv, FeedOK
<1>4. SeenIn(feed, taken + 1) = SeenIn(feed, taken)
  BY <1>1, <1>3, SeenSame
<1>5. ASSUME NEW y \in Symbols, NEW d \in Sides, ~failed
      PROVE  levels'[y][d] = {Shown(o)' : o \in SeenOn(y, d)'}
  <2>1. SeenOn(y, d)' = SeenOn(y, d)
    BY <1>1, <1>2, <1>4 DEF SeenOn, Side
  <2>2. \A o : Shown(o)' = Shown(o)
    BY <1>2 DEF Shown
  <2>3. {Shown(o)' : o \in SeenOn(y, d)} = {Shown(o) : o \in SeenOn(y, d)}
    BY <2>2
  <2> QED
    BY <1>1, <1>5, <2>1, <2>3 DEF ReaderInv
<1> QED
  BY <1>1, <1>2, <1>3, <1>4, <1>5 DEF ReaderInv

LEMMA ReaderTakesOrder ==
  ASSUME SessionInv, BookInv, AddedInv, HistoryInv, FeedOK(feed), ReaderInv,
         NEW m, TakeAddOrder(m)
  PROVE  ReaderInv'
<1>1. /\ taken < Len(feed) /\ m = feed[taken + 1] /\ taken' = taken + 1
      /\ m.type = "add_order" /\ added' = added + 1
      /\ UNCHANGED <<vars, books>>
  BY DEF TakeAddOrder, Take
<1>2. UNCHANGED <<feed, form>>
  BY <1>1 DEF vars, orderVars
<1>3. taken \in Nat /\ taken' \in 0..Len(feed) /\ taken + 1 \in 1..Len(feed)
  BY <1>1 DEF ReaderInv, FeedOK
<1>4. PICK o : o = m.order
  OBVIOUS
<1>5. /\ o \in OrderIds /\ o \notin SeenIn(feed, taken)
      /\ SeenIn(feed, taken + 1) = SeenIn(feed, taken) \cup {o}
  BY <1>1, <1>3, <1>4, SeenMore
<1>6. Accepted(o) /\ m = AddOf(o)
  BY <1>1, <1>3, <1>4 DEF AddedInv
<1>7. form[o] \in Forms
  <2>1. history[o] # <<>>
    <3>1. Len(<<>>) = 0
      OBVIOUS
    <3> QED
      BY <1>5, <1>6, <3>1, AcceptedIs DEF AcceptedIn
  <2>2. o \in 1..lastId
    BY <1>5, <2>1 DEF HistoryInv, OrderIds, SessionInv, SessionTypes
  <2> QED
    BY <2>2 DEF BookInv, BookTypes
<1>8. added' = Cardinality(SeenIn(feed, taken + 1))
  <2>1. Cardinality(SeenIn(feed, taken) \cup {o})
          = Cardinality(SeenIn(feed, taken)) + 1
    BY <1>5, SeenFinite, FS_AddElement
  <2> QED
    BY <1>1, <1>5, <2>1 DEF ReaderInv
<1>9. PICK y, d, p : /\ y = form[o].sym /\ d = Side(o) /\ p = Shown(o)
  OBVIOUS
<1>10. y \in Symbols /\ d \in Sides /\ p \in Int
  BY <1>7, <1>9, ShownInt DEF Forms, Side, Sides
<1>11. /\ m.sym = y /\ d = (IF m.buy THEN "bid" ELSE "ask")
       /\ from_itch_price(m.price) = p
  BY <1>6, <1>9 DEF AddOf, Side, Shown
<1>12. CASE ~(y \in books)
  <2>1. failed' = TRUE /\ UNCHANGED <<levels, bbos>>
    BY <1>11, <1>12 DEF TakeAddOrder
  <2> QED
    BY <1>1, <1>2, <1>3, <1>8, <2>1 DEF ReaderInv
<1>13. CASE y \in books
  <2>1. AddLevel(y, d, p) /\ failed' = failed
    BY <1>11, <1>13 DEF TakeAddOrder
  <2>2. PICK L, b : L = levels[y][d] /\ b = bbos[y][d]
    OBVIOUS
  <2>3. L \in SUBSET Int /\ b \in Int /\ Best(d, b, L)
    BY <1>10, <2>2 DEF ReaderInv
  <2>4. levels' = [levels EXCEPT ![y][d] = L \cup {p}]
    BY <2>1, <2>2 DEF AddLevel
  <2>5. PICK x : x = (IF p \notin L /\ First(d, p, L) THEN p ELSE b)
    OBVIOUS
  <2>6. x \in Int /\ Best(d, x, L \cup {p})
    BY <1>10, <2>3, <2>5, BestStays
  <2>7. bbos' = [bbos EXCEPT ![y][d] = x]
    <3>1. bbos \in [Symbols -> [Sides -> Int]]
      BY DEF ReaderInv
    <3>2. [bbos EXCEPT ![y][d] = b] = bbos
      BY <1>10, <2>2, <3>1
    <3> QED
      BY <2>1, <2>2, <2>5, <3>2 DEF AddLevel
  <2>8. /\ levels' \in [Symbols -> [Sides -> SUBSET Int]]
        /\ levels'[y][d] = L \cup {p}
        /\ \A z \in Symbols, e \in Sides :
             z # y \/ e # d => levels'[z][e] = levels[z][e]
    <3>1. levels \in [Symbols -> [Sides -> SUBSET Int]]
      BY DEF ReaderInv
    <3>2. L \cup {p} \in SUBSET Int
      BY <1>10, <2>3
    <3> QED
      BY <1>10, <2>4, <3>1, <3>2
  <2>9. /\ bbos' \in [Symbols -> [Sides -> Int]]
        /\ bbos'[y][d] = x
        /\ \A z \in Symbols, e \in Sides :
             z # y \/ e # d => bbos'[z][e] = bbos[z][e]
    <3>1. bbos \in [Symbols -> [Sides -> Int]]
      BY DEF ReaderInv
    <3> QED
      BY <1>10, <2>6, <2>7, <3>1
  <2>10. ASSUME NEW z \in Symbols, NEW e \in Sides
         PROVE  Best(e, bbos'[z][e], levels'[z][e])
    <3>1. CASE z = y /\ e = d
      BY <2>6, <2>8, <2>9, <3>1
    <3>2. CASE z # y \/ e # d
      BY <2>8, <2>9, <3>2 DEF ReaderInv
    <3> QED
      BY <3>1, <3>2
  <2>11. ASSUME NEW z \in Symbols, NEW e \in Sides, ~failed
         PROVE  levels'[z][e] = {Shown(q)' : q \in SeenOn(z, e)'}
    <3>1. SeenOn(z, e)' = SeenOn(z, e) \cup (IF z = y /\ e = d THEN {o} ELSE {})
      BY <1>1, <1>2, <1>5, <1>9 DEF SeenOn, Side
    <3>2. \A q : Shown(q)' = Shown(q)
      BY <1>2 DEF Shown
    <3>3. levels[z][e] = {Shown(q) : q \in SeenOn(z, e)}
      BY <2>11 DEF ReaderInv
    <3>4. {Shown(q)' : q \in SeenOn(z, e)'} = {Shown(q) : q \in SeenOn(z, e)'}
      BY <3>2
    <3>5. CASE z = y /\ e = d
      <4>1. {Shown(q) : q \in SeenOn(z, e)'} = levels[z][e] \cup {p}
        BY <1>9, <3>1, <3>3, <3>5
      <4> QED
        BY <2>2, <2>8, <3>4, <3>5, <4>1
    <3>6. CASE z # y \/ e # d
      <4>1. SeenOn(z, e)' = SeenOn(z, e)
        BY <3>1, <3>6
      <4> QED
        BY <2>8, <3>3, <3>4, <3>6, <4>1
    <3> QED
      BY <3>5, <3>6
  <2> QED
    BY <1>1, <1>2, <1>3, <1>8, <2>1, <2>8, <2>9, <2>10, <2>11 DEF ReaderInv
<1> QED
  BY <1>12, <1>13

LEMMA ReaderAddsBook ==
  ASSUME ReaderInv, NEW y \in Symbols, AddBook(y)
  PROVE  ReaderInv'
<1>1. /\ books' = books \cup {y}
      /\ UNCHANGED <<feed, form, taken, failed, added, levels, bbos>>
  BY DEF AddBook, vars, orderVars
<1>2. \A o : Shown(o)' = Shown(o)
  BY <1>1 DEF Shown
<1>3. \A z, d : SeenOn(z, d)' = SeenOn(z, d)
  BY <1>1 DEF SeenOn, Side
<1>4. ASSUME NEW z \in Symbols, NEW d \in Sides, ~failed
      PROVE  levels'[z][d] = {Shown(o)' : o \in SeenOn(z, d)'}
  <2>1. {Shown(o)' : o \in SeenOn(z, d)'} = {Shown(o) : o \in SeenOn(z, d)}
    BY <1>2, <1>3
  <2> QED
    BY <1>1, <1>4, <2>1 DEF ReaderInv
<1> QED
  BY <1>1, <1>4 DEF ReaderInv

LEMMA ReaderStep ==
  ASSUME SessionInv, BookInv, HistoryInv, FeedInv, AddedInv, ReaderInv,
         [ReaderNext]_<<vars, readerVars>>
  PROVE  AddedInv' /\ ReaderInv'
<1>1. [Next]_vars
  BY ReaderKeeps
<1>2. /\ AddedInv' /\ Extends(feed, feed')
      /\ \A q \in OrderIds : Accepted(q) => form'[q] = form[q]
  BY <1>1, AddedStep
<1>3. FeedOK(feed) /\ FeedOK(feed')
  <2>1. FeedInv'
    BY <1>1, FeedStep
  <2>2. FeedOK(feed)'
    BY <2>1 DEF FeedInv
  <2> QED
    BY <2>2 DEF FeedInv, FeedOK
<1>4. ASSUME UNCHANGED readerVars PROVE ReaderInv'
  BY <1>2, <1>3, <1>4, ReaderWaits
<1>5. ASSUME NEW m, TakeAddOrder(m) PROVE ReaderInv'
  BY <1>3, <1>5, ReaderTakesOrder
<1>6. ASSUME NEW m, TakeOther(m) PROVE ReaderInv'
  BY <1>3, <1>6, ReaderTakesOther
<1>7. ASSUME NEW y \in Symbols, AddBook(y) PROVE ReaderInv'
  BY <1>7, ReaderAddsBook
<1>8. ASSUME ReaderNext PROVE ReaderInv'
  BY <1>4, <1>5, <1>6, <1>7, <1>8 DEF ReaderNext
<1>9. ASSUME UNCHANGED <<vars, readerVars>> PROVE ReaderInv'
  BY <1>4, <1>9
<1>10. ReaderInv'
  BY <1>8, <1>9
<1> QED
  BY <1>2, <1>10

LEMMA ReaderAlways ==
  ReaderSpec => [](SessionInv /\ BookInv /\ HistoryInv /\ AddedInv /\ ReaderInv)
<1>1. ReaderInit => AddedInv /\ ReaderInv
  BY AddedInit, ReaderInitially DEF ReaderInit
<1>2. Spec => [](SessionInv /\ BookInv /\ HistoryInv /\ FeedInv)
  BY AllAlways, PTL
<1>3. /\ SessionInv /\ BookInv /\ HistoryInv /\ FeedInv /\ AddedInv /\ ReaderInv
      /\ [ReaderNext]_<<vars, readerVars>>
      => AddedInv' /\ ReaderInv'
  BY ReaderStep
<1> QED
  BY <1>1, <1>2, <1>3, ReaderOnlyReads, PTL DEF ReaderSpec

-----------------------------------------------------------------------------
(* What the reader knows.                                                  *)

(* A reader that has taken everything has seen what was accepted.          *)
LEMMA SeenIsAccepted ==
  ASSUME AddedInv, FeedOK(feed)
  PROVE  SeenIn(feed, Len(feed)) = {o \in OrderIds : Accepted(o)}
<1>1. ASSUME NEW o \in OrderIds
      PROVE  o \in SeenIn(feed, Len(feed)) <=> Accepted(o)
  <2>1. ASSUME o \in SeenIn(feed, Len(feed)) PROVE Accepted(o)
    BY <2>1 DEF SeenIn, AddedInv
  <2>2. ASSUME Accepted(o) PROVE o \in SeenIn(feed, Len(feed))
    BY <2>2 DEF SeenIn, AddedInv, Announced
  <2> QED
    BY <2>1, <2>2
<1>2. SeenIn(feed, Len(feed)) \subseteq OrderIds
  BY SeenFinite
<1> QED
  BY <1>1, <1>2

(* An order that rests in an idle book was accepted.                       *)
LEMMA RestingIsAccepted ==
  ASSUME SessionInv, BookInv, HistoryInv, NEW y \in Symbols, ~Busy(y),
         NEW o \in resting[y]
  PROVE  /\ o \in OrderIds /\ Accepted(o) /\ form[o].sym = y
         /\ form[o] \in Forms
<1>1. Live(history[o])
  BY RestingIsLive DEF Busy
<1>2. o \in OrderIds /\ form[o].sym = y
  BY DEF BookInv, BookTypes, Resting
<1>3. Accepted(o)
  <2>1. 2 \in 1..Len(history[o]) /\ history[o][2] = "Accepted"
    BY <1>1 DEF Live
  <2> QED
    BY <1>2, <2>1, AcceptedIs DEF AcceptedIn
<1>4. form[o] \in Forms
  <2>1. o \in 1..lastId
    BY <1>2 DEF BookInv, Resting, OrderIds, SessionInv, SessionTypes
  <2> QED
    BY <2>1 DEF BookInv, BookTypes
<1> QED
  BY <1>2, <1>3, <1>4

(* The reader that has caught up has counted each order the market has     *)
(* accepted once, and nothing else it was sent.                            *)
THEOREM ReadersCount == ReaderSpec => []AddsCounted
<1>1. /\ SessionInv /\ BookInv /\ HistoryInv /\ FeedInv /\ AddedInv /\ ReaderInv
      => AddsCounted
  BY SeenIsAccepted DEF AddsCounted, CaughtUp, ReaderInv, FeedInv
<1>2. Spec => []FeedInv
  BY AllAlways, PTL
<1> QED
  BY <1>1, <1>2, ReaderAlways, ReaderOnlyReads, PTL

(* What the reader was told of a side of a book it has added, once it has  *)
(* taken everything.                                                       *)
LEMMA BestKnown ==
  ASSUME AddedInv, FeedOK(feed), ReaderInv, CaughtUp,
         NEW y \in Symbols, NEW d \in Sides
  PROVE  Best(d, bbos[y][d],
              {Shown(o) : o \in {q \in OrderIds : Accepted(q) /\ form[q].sym = y
                                                   /\ Side(q) = d}})
<1>1. SeenIn(feed, taken) = {o \in OrderIds : Accepted(o)}
  BY SeenIsAccepted DEF CaughtUp
<1>2. SeenOn(y, d) = {q \in OrderIds : Accepted(q) /\ form[q].sym = y /\ Side(q) = d}
  BY <1>1 DEF SeenOn
<1> QED
  BY <1>2 DEF ReaderInv, CaughtUp

(* A reader that has caught up never takes the market for worse than it    *)
(* is, whatever was traded or cancelled in between, as far as the prices   *)
(* of resting orders fit 32 bits before they are divided: the best price   *)
(* it was told is as good as each of them, but for what the feed price     *)
(* cuts off.  (Greater prices wrap, and nothing of the kind holds.)        *)
THEOREM SmallPricesOverstated == ReaderSpec => []SmallPricesNotUnderstated
<1>1. ASSUME SessionInv, BookInv, HistoryInv, FeedInv, AddedInv, ReaderInv
      PROVE  SmallPricesNotUnderstated
  <2> SUFFICES ASSUME CaughtUp, NEW y \in books, NEW o \in resting[y],
                      form[o].px < Half
               PROVE  IF form[o].buy THEN form[o].px - bbos[y]["bid"] < Ratio
                                     ELSE bbos[y]["ask"] <= form[o].px
    BY DEF SmallPricesNotUnderstated, NotUnderstated
  <2>1. FeedOK(feed) /\ y \in Symbols /\ ~Busy(y)
    BY <1>1 DEF FeedInv, ReaderInv, CaughtUp
  <2>2. o \in OrderIds /\ Accepted(o) /\ form[o].sym = y /\ form[o] \in Forms
    BY <1>1, <2>1, RestingIsAccepted
  <2>3. PICK d, p, b : d = Side(o) /\ p = form[o].px /\ b = bbos[y][d]
    OBVIOUS
  <2>4. d \in Sides /\ d = (IF form[o].buy THEN "bid" ELSE "ask")
    BY <2>3 DEF Side, Sides
  <2>5. PICK L : L = {Shown(q) : q \in {i \in OrderIds :
                        Accepted(i) /\ form[i].sym = y /\ Side(i) = d}}
    OBVIOUS
  <2>6. Best(d, b, L)
    BY <1>1, <2>1, <2>3, <2>4, <2>5, BestKnown
  <2>7. Shown(o) \in L
    BY <2>2, <2>3, <2>5
  <2>8. IF d = "bid" THEN b >= Shown(o) ELSE b <= Shown(o)
    BY <2>6, <2>7 DEF Best, First
  <2>9. p \in 0 .. Half - 1
    <3>1. p \in Prices
      BY <2>2, <2>3 DEF Forms
    <3> QED
      BY <2>3, <3>1, ExchangeAssumption, LatinexConfigAssumption
  <2>10. Shown(o) <= p /\ p - Shown(o) < Ratio
    BY <2>3, <2>9, RoundTrip DEF Shown
  <2>11. b \in Int /\ Shown(o) \in Int /\ p \in Int /\ Ratio \in Int
    <3>1. b \in Int
      BY <1>1, <2>1, <2>3, <2>4 DEF ReaderInv
    <3>2. Shown(o) \in Int
      BY <2>2, ShownInt
    <3> QED
      BY <2>9, <3>1, <3>2, LatinexConfigAssumption
  <2>12. CASE form[o].buy
    <3>1. b >= Shown(o)
      BY <2>4, <2>8, <2>12
    <3>2. p - b < Ratio
      BY <2>10, <2>11, <3>1
    <3> QED
      BY <2>3, <2>4, <2>12, <3>2
  <2>13. CASE ~form[o].buy
    <3>1. b <= Shown(o)
      BY <2>4, <2>8, <2>13
    <3>2. b <= p
      BY <2>10, <2>11, <3>1
    <3> QED
      BY <2>3, <2>4, <2>13, <3>2
  <2> QED
    BY <2>12, <2>13
<1>2. Spec => []FeedInv
  BY AllAlways, PTL
<1> QED
  BY <1>1, <1>2, ReaderAlways, ReaderOnlyReads, PTL

(* A reader that has caught up knows the spread of a book in which nothing *)
(* has traded, at prices the feed can carry: its best bid and ask are      *)
(* those of the orders resting there, in whatever order they came and were *)
(* read, and 0 where there are none.                                       *)
THEOREM ReadersKnowSpread == ReaderSpec => []SpreadKnown
<1>1. ASSUME SessionInv, BookInv, HistoryInv, FeedInv, AddedInv, ReaderInv
      PROVE  SpreadKnown
  <2> SUFFICES ASSUME CaughtUp, NEW y \in books, NEW d \in Sides,
                      \A o \in OrderIds : Accepted(o) /\ form[o].sym = y =>
                        o \in resting[y] /\ Representable(form[o].px)
               PROVE  IF On(y, d) = {}
                      THEN bbos[y][d] = 0
                      ELSE \E o \in On(y, d) :
                             /\ bbos[y][d] = form[o].px
                             /\ First(d, form[o].px, {form[q].px : q \in On(y, d)})
    BY DEF SpreadKnown
  <2>1. FeedOK(feed) /\ y \in Symbols /\ ~Busy(y)
    BY <1>1 DEF FeedInv, ReaderInv, CaughtUp
  <2>2. On(y, d)
          = {q \in OrderIds : Accepted(q) /\ form[q].sym = y /\ Side(q) = d}
    BY <1>1, <2>1, RestingIsAccepted DEF On
  <2>3. ASSUME NEW o \in On(y, d) PROVE Shown(o) = form[o].px
    <3>1. Representable(form[o].px)
      BY <2>2, <2>3
    <3>2. form[o].px \in 0 .. Half - 1
      BY <3>1 DEF Representable
    <3> QED
      BY <3>1, <3>2, RoundTrip DEF Shown
  <2>4. {Shown(o) : o \in On(y, d)} = {form[o].px : o \in On(y, d)}
    BY <2>3
  <2>5. Best(d, bbos[y][d], {form[o].px : o \in On(y, d)})
    BY <1>1, <2>1, <2>2, <2>4, BestKnown
  <2>6. CASE On(y, d) = {}
    BY <2>5, <2>6 DEF Best
  <2>7. CASE On(y, d) # {}
    <3>1. {form[o].px : o \in On(y, d)} # {}
      BY <2>7
    <3>2. /\ bbos[y][d] \in {form[o].px : o \in On(y, d)}
          /\ First(d, bbos[y][d], {form[o].px : o \in On(y, d)})
      BY <2>5, <3>1 DEF Best
    <3> QED
      BY <2>7, <3>2
  <2> QED
    BY <2>6, <2>7
<1>2. Spec => []FeedInv
  BY AllAlways, PTL
<1> QED
  BY <1>1, <1>2, ReaderAlways, ReaderOnlyReads, PTL
=============================================================================
