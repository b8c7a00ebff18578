--------------------------- MODULE FeedClockProofs ---------------------------
(***************************************************************************)
(* Theorems about FeedClock, for any number of threads and books, any      *)
(* length of the day and any movement of the clock.                        *)
(***************************************************************************)
EXTENDS FeedClock, TLAPS

(* A thread inside a book has its mutex; what it is about to send is a     *)
(* stamp of its reading.                                                   *)
Publishing(t) ==
  /\ at[t] # "idle" => book[t] \in Books /\ holder[book[t]] = t
  /\ at[t] = "send" => Stamped(tp[t], ns[t]) /\ ns[t] <= Day

(* The inductive invariant behind TypeOK and StampsValid.                  *)
StampInv ==
  /\ TypeOK
  /\ \A t \in Threads : Publishing(t)
  /\ StampsValid

(* As long as the clock was not set back, readings grow: no reading is     *)
(* ahead of the clock, and a thread inside a book has read the clock no    *)
(* earlier than the book's last message.                                   *)
Ordered(read, e, time) == e <= setBacks /\ (e = setBacks => read <= time)

ReadingsInv ==
  /\ StampInv
  /\ \A t \in Threads : at[t] \in {"subtract", "send"} => Ordered(tp[t], era[t], now)
  /\ \A b \in Books : Ordered(last[b].read, last[b].era, now)
  /\ \A t \in Threads :
       at[t] \in {"subtract", "send"} /\ last[book[t]].era = era[t]
         => last[book[t]].read <= tp[t]

-----------------------------------------------------------------------------
(* Midnights.                                                              *)

LEMMA ZeroIsMidnight == 0 \in Midnights /\ 0 \in Times
  BY FeedClockAssumption DEF FeedClockAssumption, Midnights, Times

(* Two midnights less than a day apart are one.                            *)
LEMMA OneMidnight ==
  ASSUME NEW x \in Midnights, NEW y \in Midnights, x <= y, y < x + Day
  PROVE  x = y
<1>1. PICK j \in Nat : x = j * Day
  BY DEF Midnights, Times
<1>2. PICK k \in Nat : y = k * Day
  BY DEF Midnights, Times
<1> DEFINE d == k - j
<1>3. Day \in Nat \ {0} /\ d \in Int /\ k = j + d
  BY FeedClockAssumption DEF FeedClockAssumption
<1>4. y = x + d * Day
  BY <1>1, <1>2, <1>3
<1>5. 0 <= d * Day /\ d * Day < Day
  BY <1>1, <1>3, <1>4
<1> HIDE DEF d
<1>6. d >= 1 => d * Day >= Day
  BY <1>3
<1>7. d <= -1 => d * Day <= -Day
  BY <1>3
<1>8. d = 0
  BY <1>3, <1>5, <1>6, <1>7
<1> QED
  BY <1>3, <1>4, <1>8

(* A uint64_t difference of no more than a day has not wrapped.            *)
LEMMA NoWrap ==
  ASSUME NEW x \in Times, NEW y \in Times, Unsigned(x - y) <= Day
  PROVE  y <= x /\ Unsigned(x - y) = x - y
  BY FeedClockAssumption DEF FeedClockAssumption, Times, Unsigned

-----------------------------------------------------------------------------
LEMMA StampInit == Init => StampInv
<1> SUFFICES ASSUME Init PROVE StampInv
  OBVIOUS
<1>1. Day \in Nat /\ Width \in Nat /\ Width > 0
  BY FeedClockAssumption DEF FeedClockAssumption
<1>2. TypeOK
  BY <1>1, ZeroIsMidnight, FeedClockAssumption
  DEF FeedClockAssumption, Init, TypeOK, Times
<1>3. \A t \in Threads : Publishing(t)
  BY DEF Init, Publishing
<1>4. \A b \in Books : Stamped(last[b].read, last[b].stamp)
  BY <1>1, ZeroIsMidnight DEF Init, Stamped
<1> QED
  BY <1>2, <1>3, <1>4 DEF StampInv, StampsValid

LEMMA StampStep == StampInv /\ [Next]_vars => StampInv'
<1> SUFFICES ASSUME StampInv, [Next]_vars PROVE StampInv'
  OBVIOUS
<1> USE FeedClockAssumption DEF FeedClockAssumption
<1>0. TypeOK /\ (\A t \in Threads : Publishing(t)) /\ StampsValid
  BY DEF StampInv
<1>1. CASE Tick \/ SetBack
  <2>1. TypeOK'
    BY <1>0, <1>1 DEF TypeOK, Tick, SetBack, Times
  <2>2. (\A t \in Threads : Publishing(t))' /\ StampsValid'
    BY <1>0, <1>1 DEF Tick, SetBack, Publishing, StampsValid
  <2> QED BY <2>1, <2>2 DEF StampInv
<1>2. ASSUME NEW t \in Threads, NEW b \in Books, Enter(t, b) PROVE StampInv'
  <2>1. TypeOK'
    BY <1>0, <1>2 DEF TypeOK, Enter, Goto
  <2>2. ASSUME NEW u \in Threads PROVE Publishing(u)'
    BY <1>0, <1>2, <2>2 DEF TypeOK, Enter, Goto, Publishing
  <2>3. StampsValid'
    BY <1>0, <1>2 DEF Enter, StampsValid
  <2> QED BY <2>1, <2>2, <2>3 DEF StampInv
<1>3. ASSUME NEW t \in Threads, ReadClock(t) PROVE StampInv'
  <2>1. TypeOK'
    BY <1>0, <1>3 DEF TypeOK, ReadClock, Goto
  <2>2. ASSUME NEW u \in Threads PROVE Publishing(u)'
    BY <1>0, <1>3 DEF TypeOK, ReadClock, Goto, Publishing
  <2>3. StampsValid'
    BY <1>0, <1>3 DEF ReadClock, StampsValid
  <2> QED BY <2>1, <2>2, <2>3 DEF StampInv
<1>4. ASSUME NEW t \in Threads, Subtract(t) PROVE StampInv'
  <2> DEFINE n == tp[t] - epoch
  <2>1. epoch \in Midnights /\ epoch \in Times /\ tp[t] \in Times
    BY <1>0 DEF TypeOK, Midnights
  <2>2. epoch <= tp[t] /\ Unsigned(n) = n /\ n <= Day /\ n \in 0..Day
    BY <1>4, <2>1, NoWrap DEF Subtract, Times
  <2>3. ns' = [ns EXCEPT ![t] = n] /\ at' = [at EXCEPT ![t] = "send"]
    BY <1>4, <2>2 DEF Subtract, Goto
  <2>4. Stamped(tp[t], n)
    BY <2>1, <2>2 DEF Stamped, Times
  <2> HIDE DEF n
  <2>5. n \in 0..(Width - 1)
    BY <2>2
  <2>6. TypeOK'
    BY <1>0, <1>4, <2>3, <2>5 DEF TypeOK, Subtract
  <2>7. ASSUME NEW u \in Threads PROVE Publishing(u)'
    <3>1. ns'[u] = IF u = t THEN n ELSE ns[u]
      BY <1>0, <2>3 DEF TypeOK
    <3>2. at'[u] = IF u = t THEN "send" ELSE at[u]
      BY <1>0, <2>3 DEF TypeOK
    <3>3. book' = book /\ holder' = holder /\ tp' = tp /\ at[t] = "subtract"
      BY <1>4 DEF Subtract
    <3> QED
      BY <1>0, <2>2, <2>4, <3>1, <3>2, <3>3 DEF Publishing, Stamped
  <2>8. StampsValid'
    BY <1>0, <1>4 DEF Subtract, StampsValid
  <2> QED BY <2>6, <2>7, <2>8 DEF StampInv
<1>5. ASSUME NEW t \in Threads, OtherDay(t) PROVE StampInv'
  <2>1. TypeOK'
    BY <1>0, <1>5, ZeroIsMidnight DEF TypeOK, OtherDay, Goto
  <2>2. ASSUME NEW u \in Threads PROVE Publishing(u)'
    BY <1>0, <1>5 DEF TypeOK, OtherDay, Goto, Publishing
  <2>3. StampsValid'
    BY <1>0, <1>5 DEF OtherDay, StampsValid
  <2> QED BY <2>1, <2>2, <2>3 DEF StampInv
<1>6. ASSUME NEW t \in Threads, Renew(t) PROVE StampInv'
  <2>1. TypeOK'
    BY <1>0, <1>6 DEF TypeOK, Renew, Goto
  <2>2. ASSUME NEW u \in Threads PROVE Publishing(u)'
    BY <1>0, <1>6 DEF TypeOK, Renew, Goto, Publishing
  <2>3. StampsValid'
    BY <1>0, <1>6 DEF Renew, StampsValid
  <2> QED BY <2>1, <2>2, <2>3 DEF StampInv
<1>7. ASSUME NEW t \in Threads, Store(t) PROVE StampInv'
  <2>1. TypeOK'
    BY <1>0, <1>7, ZeroIsMidnight DEF TypeOK, Store, Goto
  <2>2. ASSUME NEW u \in Threads PROVE Publishing(u)'
    BY <1>0, <1>7 DEF TypeOK, Store, Goto, Publishing
  <2>3. StampsValid'
    BY <1>0, <1>7 DEF Store, StampsValid
  <2> QED BY <2>1, <2>2, <2>3 DEF StampInv
<1>8. ASSUME NEW t \in Threads, Send(t) PROVE StampInv'
  <2>1. /\ at[t] = "send" /\ book[t] \in Books /\ holder[book[t]] = t
        /\ Stamped(tp[t], ns[t]) /\ ns[t] <= Day
    BY <1>0, <1>8 DEF Send, Publishing
  <2>2. TypeOK'
    <3>1. [read |-> tp[t], stamp |-> ns[t], era |-> era[t]]
            \in [read : Times, stamp : 0..Day, era : 0..MaxSetBacks]
      BY <1>0, <2>1 DEF TypeOK
    <3> QED
      BY <1>0, <1>8, <2>1, <3>1, ZeroIsMidnight DEF TypeOK, Send, Goto
  <2>3. ASSUME NEW u \in Threads PROVE Publishing(u)'
    BY <1>0, <1>8, <2>1 DEF TypeOK, Send, Goto, Publishing
  <2>4. ASSUME NEW b \in Books PROVE Stamped(last'[b].read, last'[b].stamp)
    BY <1>0, <1>8, <2>1 DEF TypeOK, Send, StampsValid
  <2> QED BY <2>2, <2>3, <2>4 DEF StampInv, StampsValid, Stamped
<1>9. CASE UNCHANGED vars
  BY <1>0, <1>9 DEF vars, StampInv, TypeOK, Publishing, StampsValid
<1> QED
  BY <1>1, <1>2, <1>3, <1>4, <1>5, <1>6, <1>7, <1>8, <1>9 DEF Next, Step

(* Every variable of the clock and of its readers has its type.            *)
THEOREM TypeCorrect == Spec => []TypeOK
<1>1. StampInv => TypeOK
  BY DEF StampInv
<1> QED
  BY <1>1, StampInit, StampStep, PTL DEF Spec

(* Every message of the feed carries the time of day at which its thread   *)
(* read the clock, however the threads, midnights and the clock's being    *)
(* set back interleave.                                                    *)
THEOREM StampsAreTimesOfDay == Spec => []StampsValid
<1>1. StampInv => StampsValid
  BY DEF StampInv
<1> QED
  BY <1>1, StampInit, StampStep, PTL DEF Spec

-----------------------------------------------------------------------------
(* The order of the messages of a book.                                    *)

LEMMA ReadingsInit == Init => ReadingsInv
<1> SUFFICES ASSUME Init PROVE ReadingsInv
  OBVIOUS
<1>1. StampInv
  BY StampInit
<1>2. \A b \in Books : Ordered(last[b].read, last[b].era, now)
  BY DEF Init, Ordered, Times
<1> QED
  BY <1>1, <1>2 DEF Init, ReadingsInv

LEMMA ReadingsStep == ReadingsInv /\ [Next]_vars => ReadingsInv'
<1> SUFFICES ASSUME ReadingsInv, [Next]_vars PROVE ReadingsInv'
  OBVIOUS
<1>0. /\ StampInv /\ TypeOK /\ StampInv' /\ TypeOK'
      /\ \A t \in Threads : Publishing(t) /\ Publishing(t)'
  BY StampStep DEF ReadingsInv, StampInv
<1> DEFINE Reader(t) == at[t] \in {"subtract", "send"}
           InOrder(t) == last[book[t]].era = era[t] => last[book[t]].read <= tp[t]
<1>a. \A t \in Threads : Reader(t) => Ordered(tp[t], era[t], now)
  BY DEF ReadingsInv
<1>b. \A b \in Books : Ordered(last[b].read, last[b].era, now)
  BY DEF ReadingsInv
<1>c. \A t \in Threads : Reader(t) => InOrder(t)
  BY DEF ReadingsInv
<1>1. CASE Tick
  BY <1>0, <1>1, <1>a, <1>b, <1>c DEF Tick, ReadingsInv, Ordered, TypeOK, Times
<1>2. CASE SetBack
  BY <1>0, <1>2, <1>a, <1>b, <1>c
     DEF SetBack, ReadingsInv, Ordered, TypeOK, Times
<1>3. ASSUME NEW t \in Threads, NEW b \in Books, Enter(t, b) PROVE ReadingsInv'
  BY <1>0, <1>3, <1>a, <1>b, <1>c
  DEF Enter, Goto, ReadingsInv, Ordered, TypeOK, Times
<1>4. ASSUME NEW t \in Threads, ReadClock(t) PROVE ReadingsInv'
  <2>1. /\ at[t] = "read" /\ book[t] \in Books
        /\ tp' = [tp EXCEPT ![t] = now] /\ era' = [era EXCEPT ![t] = setBacks]
        /\ at' = [at EXCEPT ![t] = "subtract"]
        /\ now' = now /\ setBacks' = setBacks /\ last' = last /\ book' = book
    BY <1>0, <1>4 DEF ReadClock, Goto, Publishing
  <2>2. ASSUME NEW u \in Threads, Reader(u)'
        PROVE  Ordered(tp[u], era[u], now)' /\ InOrder(u)'
    <3>1. CASE u = t
      BY <1>0, <1>b, <2>1, <3>1 DEF TypeOK, Ordered, Times
    <3>2. CASE u # t
      BY <1>0, <1>a, <1>c, <2>1, <2>2, <3>2 DEF TypeOK, Ordered
    <3> QED BY <3>1, <3>2
  <2>3. (\A b \in Books : Ordered(last[b].read, last[b].era, now))'
    BY <1>b, <2>1 DEF Ordered
  <2> QED BY <1>0, <2>2, <2>3 DEF ReadingsInv
<1>5. ASSUME NEW t \in Threads, Subtract(t) PROVE ReadingsInv'
  BY <1>0, <1>5, <1>a, <1>b, <1>c
     DEF Subtract, Goto, ReadingsInv, Ordered, TypeOK
<1>6. ASSUME NEW t \in Threads, OtherDay(t) PROVE ReadingsInv'
  BY <1>0, <1>6, <1>a, <1>b, <1>c
     DEF OtherDay, Goto, ReadingsInv, Ordered, TypeOK
<1>7. ASSUME NEW t \in Threads, Renew(t) PROVE ReadingsInv'
  BY <1>0, <1>7, <1>a, <1>b, <1>c DEF Renew, Goto, ReadingsInv, Ordered, TypeOK
<1>8. ASSUME NEW t \in Threads, Store(t) PROVE ReadingsInv'
  BY <1>0, <1>8, <1>a, <1>b, <1>c DEF Store, Goto, ReadingsInv, Ordered, TypeOK
<1>9. ASSUME NEW t \in Threads, Send(t) PROVE ReadingsInv'
  <2> DEFINE msg == [read |-> tp[t], stamp |-> ns[t], era |-> era[t]]
  <2>1. /\ Reader(t) /\ book[t] \in Books /\ holder[book[t]] = t
        /\ last' = [last EXCEPT ![book[t]] = msg]
        /\ at' = [at EXCEPT ![t] = "idle"]
        /\ book' = [book EXCEPT ![t] = None]
        /\ tp' = [tp EXCEPT ![t] = 0] /\ era' = [era EXCEPT ![t] = 0]
        /\ now' = now /\ setBacks' = setBacks
    BY <1>0, <1>9 DEF Send, Goto, Publishing
  <2>2. msg.read = tp[t] /\ msg.era = era[t]
    OBVIOUS
  <2> HIDE DEF msg
  <2>3. ASSUME NEW u \in Threads, Reader(u)'
        PROVE  Ordered(tp[u], era[u], now)' /\ InOrder(u)'
    <3>1. u # t /\ Reader(u) /\ tp'[u] = tp[u] /\ era'[u] = era[u]
          /\ book'[u] = book[u]
      BY <1>0, <2>1, <2>3 DEF TypeOK
    <3>2. book[u] \in Books /\ book[u] # book[t]
      BY <1>0, <2>1, <3>1 DEF Publishing
    <3>3. last'[book[u]] = last[book[u]]
      BY <1>0, <2>1, <3>2 DEF TypeOK
    <3> QED
      BY <1>a, <1>c, <2>1, <3>1, <3>3 DEF Ordered
  <2>4. ASSUME NEW b \in Books PROVE Ordered(last[b].read, last[b].era, now)'
    BY <1>0, <1>a, <1>b, <2>1, <2>2 DEF TypeOK, Ordered
  <2> QED BY <1>0, <2>3, <2>4 DEF ReadingsInv
<1>10. CASE UNCHANGED vars
  BY <1>0, <1>10, <1>a, <1>b, <1>c DEF vars, ReadingsInv, Ordered
<1> QED
  BY <1>1, <1>2, <1>3, <1>4, <1>5, <1>6, <1>7, <1>8, <1>9, <1>10 DEF Next, Step

(* What a step of StampsInOrder says of one book.                          *)
BookInOrder(b) ==
  /\ last'[b] # last[b]
  /\ last'[b].era = last[b].era
  /\ SameDay(last[b].read, last'[b].read)
  /\ last[b].stamp # Day
  => last[b].stamp <= last'[b].stamp

LEMMA OrderStep == ReadingsInv /\ [Next]_vars => \A b \in Books : BookInOrder(b)
<1> SUFFICES ASSUME ReadingsInv, [Next]_vars, NEW b \in Books,
                    last'[b] # last[b], last'[b].era = last[b].era,
                    SameDay(last[b].read, last'[b].read),
                    last[b].stamp # Day
             PROVE  last[b].stamp <= last'[b].stamp
  BY DEF BookInOrder
<1>0. TypeOK /\ StampsValid /\ (\A t \in Threads : Publishing(t)) /\ ReadingsInv'
  BY ReadingsStep DEF ReadingsInv, StampInv
<1>1. PICK t \in Threads : Send(t)
  BY DEF Next, Step, Tick, SetBack, Enter, ReadClock, Subtract, OtherDay,
     Renew,
         Store, vars
<1>2. /\ at[t] = "send" /\ book[t] = b
      /\ last'[b].read = tp[t] /\ last'[b].stamp = ns[t] /\ last'[b].era = era[t]
  BY <1>0, <1>1 DEF Send, TypeOK
<1> DEFINE r1 == last[b].read  r2 == last'[b].read
<1>3. r1 \in Times /\ r2 \in Times /\ r1 <= r2
  BY <1>0, <1>2 DEF ReadingsInv, TypeOK
<1>4. PICK m1 \in Midnights : m1 <= r1 /\ r1 <= m1 + Day /\ last[b].stamp = r1 - m1
  BY <1>0 DEF StampsValid, Stamped
<1>5. PICK m2 \in Midnights :
        m2 <= r2 /\ r2 <= m2 + Day /\ last'[b].stamp = r2 - m2
  BY <1>0, <1>2 DEF Publishing, Stamped
<1>6. PICK m \in Midnights :
        m <= r1 /\ r1 < m + Day /\ m <= r2 /\ r2 < m + Day
  BY DEF SameDay
<1>7. Day \in Nat /\ m \in Nat /\ m1 \in Nat /\ m2 \in Nat /\ r1 \in Nat /\ r2 \in Nat
  BY <1>3, FeedClockAssumption DEF FeedClockAssumption, Midnights, Times
<1> HIDE DEF r1, r2
<1>8. m1 = m
  BY <1>4, <1>6, <1>7, OneMidnight DEF r1, r2
<1>9. m2 = m \/ r2 = m2 + Day
  BY <1>5, <1>6, <1>7, OneMidnight
<1> QED
  BY <1>3, <1>4, <1>5, <1>6, <1>7, <1>8, <1>9 DEF r1, r2

(* The stamps of one book's messages are in order within a day, unless the *)
(* clock is set back: the mutex of the book keeps a thread from sending a  *)
(* stamp it read before another's message.                                 *)
THEOREM StampsOrdered == Spec => StampsInOrder
<1>1. ReadingsInv /\ [Next]_vars
        => [\A b \in Books : BookInOrder(b)]_vars
  BY OrderStep
<1>2. Spec => [][\A b \in Books : BookInOrder(b)]_vars
  BY <1>1, ReadingsInit, ReadingsStep, PTL DEF Spec
<1> QED
  BY <1>2 DEF StampsInOrder, BookInOrder
=============================================================================
