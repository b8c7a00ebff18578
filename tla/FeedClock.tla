------------------------------ MODULE FeedClock ------------------------------
(***************************************************************************)
(* The timestamps of the feed: DataFeed::ns_since_midnight                 *)
(* (src/src/data_feed.h), called by on_accept, on_fill and on_trade while  *)
(* the thread that adds an order holds the mutex of its book.  Threads in  *)
(* different books share epoch_at_midnight_sec, which any of them renews   *)
(* when its reading of the clock is not of the day the epoch begins.       *)
(*                                                                         *)
(* A tick stands for a nanosecond, and times and the epoch are in ticks.   *)
(* The clock is the machine's wall clock: it runs on between any two       *)
(* steps, and may be set back.  Granularity: one action per access to the  *)
(* clock, to the atomic epoch and to the feed.  A local is 0 when it has   *)
(* no use.                                                                 *)
(***************************************************************************)
EXTENDS Integers

CONSTANTS
  Threads,       \* threads that publish
  Books,         \* order books, each with its mutex
  Day,           \* ticks in a day
  Width,         \* 2^64: the subtraction is one of uint64_t
  Horizon,       \* bound: the last tick of the clock
  MaxSetBacks,   \* bound: times the clock is set back
  None           \* no thread, no book

ASSUME FeedClockAssumption ==
  /\ Day \in Nat \ {0}
  /\ Horizon \in Nat
  /\ MaxSetBacks \in Nat
  /\ Width \in Nat /\ Width > Horizon + Day
  /\ None \notin Threads \cup Books

VARIABLES
  now,        \* the wall clock
  setBacks,   \* times it was set back
  epoch,      \* epoch_at_midnight_sec
  holder,     \* owner of each book's mutex
  at,         \* where each thread is
  book,       \* the book it publishes for
  tp,         \* its reading of the clock
  ns,         \* tp - epoch
  today,      \* the midnight it is about to store
  era,        \* setBacks when it read the clock
  last        \* the last message of each book: the reading, the stamp, the era

vars == <<now, setBacks, epoch, holder, at, book, tp, ns, today, era, last>>

Times == 0..Horizon
Midnights == {m \in Times : \E day \in Times : m = day * Day}

(* The value of a uint64_t difference of two times.                        *)
Unsigned(n) == IF n < 0 THEN n + Width ELSE n

Init ==
  /\ now \in Times
  /\ setBacks = 0
  /\ epoch = 0
  /\ holder = [b \in Books |-> None]
  /\ at = [t \in Threads |-> "idle"]
  /\ book = [t \in Threads |-> None]
  /\ tp = [t \in Threads |-> 0]
  /\ ns = [t \in Threads |-> 0]
  /\ today = [t \in Threads |-> 0]
  /\ era = [t \in Threads |-> 0]
  /\ last = [b \in Books |-> [read |-> 0, stamp |-> 0, era |-> 0]]

-----------------------------------------------------------------------------
(* The clock.                                                              *)

Tick ==
  /\ now < Horizon
  /\ now' = now + 1
  /\ UNCHANGED <<setBacks, epoch, holder, at, book, tp, ns, today, era, last>>

SetBack ==
  /\ setBacks < MaxSetBacks
  /\ \E n \in Times : n < now /\ now' = n
  /\ setBacks' = setBacks + 1
  /\ UNCHANGED <<epoch, holder, at, book, tp, ns, today, era, last>>

-----------------------------------------------------------------------------
(* A thread that publishes.                                                *)

Goto(t, place) == at' = [at EXCEPT ![t] = place]

(* Mutant: the mutex of the book is not taken.                             *)
EnterUnlocked(t, b) ==
  /\ at[t] = "idle"
  /\ book' = [book EXCEPT ![t] = b]
  /\ Goto(t, "read")
  /\ UNCHANGED <<now, setBacks, epoch, holder, tp, ns, today, era, last>>

(* Market::add_order enters the book; a listener asks for the time.        *)
Enter(t, b) ==
  /\ at[t] = "idle"
  /\ holder[b] = None
  /\ holder' = [holder EXCEPT ![b] = t]
  /\ book' = [book EXCEPT ![t] = b]
  /\ Goto(t, "read")
  /\ UNCHANGED <<now, setBacks, epoch, tp, ns, today, era, last>>

(* clock_gettime.                                                          *)
ReadClock(t) ==
  /\ at[t] = "read"
  /\ tp' = [tp EXCEPT ![t] = now]
  /\ era' = [era EXCEPT ![t] = setBacks]
  /\ Goto(t, "subtract")
  /\ UNCHANGED <<now, setBacks, epoch, holder, book, ns, today, last>>

(* Mutant: the difference is signed.                                       *)
SubtractSigned(t) ==
  /\ at[t] = "subtract"
  /\ tp[t] - epoch <= Day
  /\ ns' = [ns EXCEPT ![t] = tp[t] - epoch]
  /\ Goto(t, "send")
  /\ UNCHANGED <<now, setBacks, epoch, holder, book, tp, today, era, last>>

(* The epoch is loaded; the difference is no more than a day.              *)
Subtract(t) ==
  /\ at[t] = "subtract"
  /\ Unsigned(tp[t] - epoch) <= Day
  /\ ns' = [ns EXCEPT ![t] = Unsigned(tp[t] - epoch)]
  /\ Goto(t, "send")
  /\ UNCHANGED <<now, setBacks, epoch, holder, book, tp, today, era, last>>

(* It is more: "if (ns > 86400000000000)".  The reading is given up.       *)
OtherDay(t) ==
  /\ at[t] = "subtract"
  /\ Unsigned(tp[t] - epoch) > Day
  /\ tp' = [tp EXCEPT ![t] = 0]
  /\ era' = [era EXCEPT ![t] = 0]
  /\ Goto(t, "renew")
  /\ UNCHANGED <<now, setBacks, epoch, holder, book, ns, today, last>>

(* The last midnight by system_clock::now().                               *)
Renew(t) ==
  /\ at[t] = "renew"
  /\ \E m \in Midnights : /\ m <= now /\ now < m + Day
                          /\ today' = [today EXCEPT ![t] = m]
  /\ Goto(t, "store")
  /\ UNCHANGED <<now, setBacks, epoch, holder, book, tp, ns, era, last>>

(* Mutant: only a later midnight is stored.                                *)
StoreLater(t) ==
  /\ at[t] = "store"
  /\ epoch' = IF today[t] > epoch THEN today[t] ELSE epoch
  /\ today' = [today EXCEPT ![t] = 0]
  /\ Goto(t, "read")
  /\ UNCHANGED <<now, setBacks, holder, book, tp, ns, era, last>>

(* The epoch is stored and ns_since_midnight called again.                 *)
Store(t) ==
  /\ at[t] = "store"
  /\ epoch' = today[t]
  /\ today' = [today EXCEPT ![t] = 0]
  /\ Goto(t, "read")
  /\ UNCHANGED <<now, setBacks, holder, book, tp, ns, era, last>>

(* The stamped message is sent and the book left.                          *)
Send(t) ==
  /\ at[t] = "send"
  /\ last' = [last EXCEPT ![book[t]] = [read |-> tp[t], stamp |-> ns[t],
                                        era |-> era[t]]]
  /\ holder' = [holder EXCEPT ![book[t]] = None]
  /\ book' = [book EXCEPT ![t] = None]
  /\ tp' = [tp EXCEPT ![t] = 0]
  /\ ns' = [ns EXCEPT ![t] = 0]
  /\ era' = [era EXCEPT ![t] = 0]
  /\ Goto(t, "idle")
  /\ UNCHANGED <<now, setBacks, epoch, today>>

Step(t) == \/ ReadClock(t) \/ Subtract(t) \/ OtherDay(t) \/ Renew(t) \/ Store(t) \/ Send(t)

Next == \/ Tick \/ SetBack
        \/ \E t \in Threads : Step(t)
        \/ \E t \in Threads, b \in Books : Enter(t, b)

Spec == Init /\ [][Next]_vars

(* A thread that has asked for the time goes on; the clock runs, or stops  *)
(* at its bound, and nobody needs to publish.                              *)
FairSpec == Spec /\ \A t \in Threads : WF_vars(Step(t))

-----------------------------------------------------------------------------
(* Type invariant.                                                         *)
TypeOK ==
  /\ now \in Times
  /\ setBacks \in 0..MaxSetBacks
  /\ epoch \in Midnights
  /\ holder \in [Books -> Threads \cup {None}]
  /\ at \in [Threads -> {"idle", "read", "subtract", "renew", "store", "send"}]
  /\ book \in [Threads -> Books \cup {None}]
  /\ tp \in [Threads -> Times]
  /\ ns \in [Threads -> 0..(Width - 1)]
  /\ today \in [Threads -> Midnights]
  /\ era \in [Threads -> 0..MaxSetBacks]
  /\ last \in [Books -> [read : Times, stamp : 0..Day, era : 0..MaxSetBacks]]

(* A reading and a stamp are of one time of day: the stamp counts from a   *)
(* midnight, and no further than to the next one.                          *)
Stamped(read, stamp) ==
  \E m \in Midnights : m <= read /\ read <= m + Day /\ stamp = read - m

(* Every message carries the time of day of its reading of the clock,      *)
(* whatever other threads, midnight and the clock did to the epoch after   *)
(* it was read: a stamp counted from another day's midnight is never sent. *)
(* (A reading at midnight may be stamped as the end of the day before.)    *)
StampsValid == \A b \in Books : Stamped(last[b].read, last[b].stamp)

SameDay(x, y) == \E m \in Midnights : /\ m <= x /\ x < m + Day
                                      /\ m <= y /\ y < m + Day

(* The messages of one book that are read on one day, with no setting back *)
(* of the clock between the readings, have stamps in order, but for one    *)
(* stamped at midnight as the end of the day before.  (The messages of     *)
(* different books are sent in any order.)                                 *)
StampsInOrder ==
  [][\A b \in Books :
       /\ last'[b] # last[b]
       /\ last'[b].era = last[b].era
       /\ SameDay(last[b].read, last'[b].read)
       /\ last[b].stamp # Day
       => last[b].stamp <= last'[b].stamp]_vars

(* A call of ns_since_midnight returns and its message is sent: renewing   *)
(* the epoch leads to one the next reading fits, in whatever order the     *)
(* threads store theirs.                                                   *)
CallsReturn == \A t \in Threads : at[t] # "idle" ~> at[t] = "idle"
=============================================================================
