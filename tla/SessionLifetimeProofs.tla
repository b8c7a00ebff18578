------------------------ MODULE SessionLifetimeProofs ------------------------
(***************************************************************************)
(* Theorems about SessionLifetime, for any number of sessions, orders and  *)
(* books.                                                                  *)
(***************************************************************************)
EXTENDS SessionLifetime, TLAPS

Dying(s) == at[s] \in {"erasing", "erased"} /\ walk[s] = {}
Holds(s) == \/ at[s] \in {"calling", "stamping", "sending"}
            \/ ord[s] # None /\ (at[s] = "dropping" \/ Dying(s))
InHandler(s) == at[s] \in {"subscribing", "appending", "adding", "locking",
                           "calling", "stamping", "sending", "returning"}
InMethod(s) == at[s] \in {"stamping", "sending", "erasing", "erased", "assigning"}
InWalk(s) == at[s] \in {"walking", "erasing", "erased", "assigning"}
Quiescent(s) == at[s] \in {"idle", "gone"}

(* What holds of a thread by itself, overlapped or not.                    *)
Control(s) ==
  /\ InHandler(s) => ord[s] # None
  /\ Quiescent(s) => ord[s] = None
  /\ InMethod(s) => about[s] \in Orders
  /\ walk[s] # {} => InWalk(s)
  /\ at[s] = "assigning" => about[s] \in walk[s]
  /\ at[s] \in {"erasing", "erased"} /\ walk[s] # {} => about[s] \in walk[s]
  /\ walk[s] # {} /\ ord[s] # None => walk[s] = {ord[s]}
  /\ calls[s] # {} => at[s] \in {"calling", "stamping", "sending"}
  /\ drops[s] # {} => Holds(s) \/ at[s] = "dropping" \/ Dying(s)
  /\ at[s] = "locking" \/ Holds(s) => book[s] \in Books
  /\ Holds(s) => holder[book[s]] = s

(* The thread still has a reference to the order that no other will take. *)
Refers(s, o) == \/ o \in drops[s]
                \/ book[s] \in Books /\ o \in resting[book[s]]

(* An order nobody but the thread of its handler knows.                    *)
Private(o) ==
  /\ \A b \in Books : o \notin resting[b]
  /\ \A s \in Sessions : o \notin drops[s]

(* References: what is referred to was made and is not destroyed.          *)
SoleHandler == \A s, t \in Sessions : ord[s] = ord[t] /\ ord[s] # None => s = t
ReferredAlive ==
  /\ \A s \in Sessions : ord[s] # None => life[ord[s]] = "alive"
  /\ \A s \in Sessions, o \in Orders : o \in drops[s] => life[o] = "alive"
  /\ \A b \in Books, o \in Orders : o \in resting[b] => life[o] = "alive"
CalledKept ==
  /\ \A s \in Sessions, o \in Orders : o \in calls[s] => Refers(s, o)
  /\ \A s \in Sessions : at[s] \in {"stamping", "sending"} => Refers(s, about[s])
DyingAlone ==
  \A s \in Sessions : Dying(s) =>
    /\ life[about[s]] = "alive"
    /\ Private(about[s])
    /\ \A t \in Sessions : ord[t] # about[s]
    /\ \A t \in Sessions : Dying(t) /\ about[t] = about[s] => t = s
HandlerPrivate ==
  \A s \in Sessions :
    /\ at[s] \in {"subscribing", "appending", "adding", "locking"} \/ walk[s] # {}
    /\ ord[s] # None
    => Private(ord[s])

References == /\ SoleHandler /\ ReferredAlive /\ CalledKept
              /\ DyingAlone /\ HandlerPrivate

(* What holds of the links until two threads overlap.                      *)
Listed ==
  \A s \in Sessions, o \in Orders :
    o \in subscribed[s] => life[o] = "alive" /\ server[o] = s
Linked ==
  \A s \in Sessions, o \in Orders :
    life[o] = "alive" /\ server[o] = s =>
      /\ at[s] # "gone"
      /\ \/ o \in subscribed[s]
         \/ at[s] \in {"subscribing", "appending"} /\ ord[s] = o
         \/ at[s] = "assigning" /\ about[s] = o
NewLinked ==
  \A s \in Sessions : at[s] \in {"subscribing", "appending", "adding"} =>
    server[ord[s]] = s
ReadFresh ==
  /\ \A s \in Sessions : at[s] = "appending" => read[s] = subscribed[s]
  /\ \A s \in Sessions : at[s] = "erased" => read[s] = subscribed[server[about[s]]]
Walked ==
  \A s \in Sessions, o \in Orders :
    o \in walk[s] => life[o] = "alive" /\ server[o] = s
MethodLinked ==
  \A s \in Sessions : at[s] \in {"stamping", "sending", "erasing", "erased"} =>
    server[about[s]] \in Sessions
Unlisted ==
  \A s \in Sessions : at[s] = "assigning" => about[s] \notin subscribed[s]
ClosingWalks ==
  \A s \in Sessions, o \in Orders :
    Closing(s) /\ life[o] = "alive" /\ server[o] = s => o \in walk[s]

Unshared == /\ ~misused /\ Listed /\ Linked /\ NewLinked /\ ReadFresh
            /\ Walked /\ MethodLinked /\ Unlisted /\ ClosingWalks

(* The inductive invariants: references are counted by shared_ptr, which   *)
(* no overlap disturbs; links are right until threads overlap.             *)
RefInv ==
  /\ TypeOK
  /\ \A s \in Sessions : Control(s)
  /\ \A o \in Orders : life[o] = "unborn" => server[o] = None
  /\ References

LinkInv ==
  /\ RefInv
  /\ Overlap => overlapped
  /\ overlapped \/ Unshared

-----------------------------------------------------------------------------
LEMMA TypeInit == Init => TypeOK
<1> SUFFICES ASSUME Init PROVE TypeOK
  OBVIOUS
<1>1. /\ life \in [Orders -> {"unborn", "alive", "destroyed"}]
      /\ server \in [Orders -> Sessions \cup {None}]
      /\ subscribed \in [Sessions -> SUBSET Orders]
      /\ resting \in [Books -> SUBSET Orders]
      /\ holder \in [Books -> Sessions \cup {None}]
  BY DEF Init
<1>2. /\ at \in [Sessions -> Places]
      /\ ord \in [Sessions -> Orders \cup {None}]
      /\ book \in [Sessions -> Books \cup {None}]
      /\ about \in [Sessions -> Orders \cup {None}]
  BY DEF Init, Places
<1>3. /\ read \in [Sessions -> SUBSET Orders]
      /\ calls \in [Sessions -> SUBSET Orders]
      /\ drops \in [Sessions -> SUBSET Orders]
      /\ walk \in [Sessions -> SUBSET Orders]
      /\ misused \in BOOLEAN
      /\ overlapped \in BOOLEAN
  BY DEF Init
<1> QED
  BY <1>1, <1>2, <1>3 DEF TypeOK

LEMMA TypeStep ==
  TypeOK /\ (\A s \in Sessions : Control(s)) /\ [Next]_vars => TypeOK'
<1> SUFFICES ASSUME TypeOK, \A s \in Sessions : Control(s), [Next]_vars
             PROVE  TypeOK'
  OBVIOUS
<1> USE DEF TypeOK, Goto, Watch, UseOrder, UseServer, linkVars, bookVars, Places
<1>a. (overlapped \/ Overlap') \in BOOLEAN
  OBVIOUS
<1>1. ASSUME NEW s \in Sessions, NEW o \in Orders, NewOrderSingle(s, o)
      PROVE  TypeOK'
  BY <1>1 DEF NewOrderSingle
<1>2. ASSUME NEW s \in Sessions, Subscribe(s) PROVE TypeOK'
  BY <1>2 DEF Subscribe
<1>3. ASSUME NEW s \in Sessions, AppendOrder(s) PROVE TypeOK'
  BY <1>3 DEF AppendOrder, Control, InHandler
<1>4. ASSUME NEW s \in Sessions, AddRefused(s) PROVE TypeOK'
  BY <1>4 DEF AddRefused, Control, InHandler
<1>5. ASSUME NEW s \in Sessions, NEW b \in Books, GetBook(s, b) PROVE TypeOK'
  BY <1>5 DEF GetBook
<1>6. ASSUME NEW s \in Sessions, NEW b \in Books, AddOrder(s, b) PROVE TypeOK'
  <2>1. ord[s] \in Orders
    BY <1>6 DEF AddOrder, Control, InHandler
  <2>2. PICK matched \in SUBSET resting[b], rests \in BOOLEAN :
          \E filled \in SUBSET matched : Match(s, b, matched, filled, rests)
    BY <1>6 DEF AddOrder
  <2>3. PICK filled \in SUBSET matched : Match(s, b, matched, filled, rests)
    BY <2>2
  <2>4. /\ resting' \in [Books -> SUBSET Orders]
        /\ calls' \in [Sessions -> SUBSET Orders]
        /\ drops' \in [Sessions -> SUBSET Orders]
    BY <2>1, <2>3 DEF Match
  <2>5. /\ holder' = [holder EXCEPT ![b] = s]
        /\ at' = [at EXCEPT ![s] = "calling"]
        /\ overlapped' \in BOOLEAN
        /\ UNCHANGED <<life, server, subscribed, ord, book, about, read, walk, misused>>
    BY <1>6 DEF AddOrder
  <2> QED
    BY <2>4, <2>5
<1>7. ASSUME NEW s \in Sessions, NEW o \in Orders, OnFilled(s, o) PROVE TypeOK'
  BY <1>7 DEF OnFilled
<1>8. ASSUME NEW s \in Sessions, NextExecId(s) PROVE TypeOK'
  BY <1>8 DEF NextExecId
<1>9. ASSUME NEW s \in Sessions, Send(s) PROVE TypeOK'
  BY <1>9 DEF Send
<1>10. ASSUME NEW s \in Sessions, Called(s) PROVE TypeOK'
  BY <1>10 DEF Called
<1>11. ASSUME NEW s \in Sessions, NEW o \in Orders, DropShared(s, o)
       PROVE  TypeOK'
  BY <1>11 DEF DropShared
<1>12. ASSUME NEW s \in Sessions, NEW o \in Orders, DropUnlinked(s, o)
       PROVE  TypeOK'
  BY <1>12 DEF DropUnlinked
<1>13. ASSUME NEW s \in Sessions, NEW o \in Orders, DropLinked(s, o)
       PROVE  TypeOK'
  BY <1>13 DEF DropLinked
<1>14. ASSUME NEW s \in Sessions, Unlock(s) PROVE TypeOK'
  BY <1>14 DEF Unlock
<1>15. ASSUME NEW s \in Sessions, Return(s) PROVE TypeOK'
  BY <1>15 DEF Return, Control, InHandler
<1>16. ASSUME NEW s \in Sessions, Returned(s) PROVE TypeOK'
  BY <1>16 DEF Returned
<1>17. ASSUME NEW s \in Sessions, EndSession(s) PROVE TypeOK'
  BY <1>17 DEF EndSession
<1>18. ASSUME NEW s \in Sessions, NEW o \in Orders, WalkUnlinked(s, o)
       PROVE  TypeOK'
  BY <1>18 DEF WalkUnlinked
<1>19. ASSUME NEW s \in Sessions, NEW o \in Orders, WalkLinked(s, o)
       PROVE  TypeOK'
  BY <1>19 DEF WalkLinked
<1>20. ASSUME NEW s \in Sessions, Unsubscribe(s) PROVE TypeOK'
  <2>1. UNION {subscribed[x] : x \in LinkOf(about[s])} \in SUBSET Orders
    <3>1. about[s] \in Orders
      BY <1>20 DEF Unsubscribe, Control, InMethod
    <3>2. \A x \in LinkOf(about[s]) : subscribed[x] \subseteq Orders
      BY <3>1 DEF LinkOf
    <3> QED BY <3>2
  <2> QED
    BY <1>20, <2>1 DEF Unsubscribe
<1>21. ASSUME NEW s \in Sessions, EraseDestroyed(s) PROVE TypeOK'
  BY <1>21 DEF EraseDestroyed, Erased
<1>22. ASSUME NEW s \in Sessions, EraseUnlinked(s) PROVE TypeOK'
  BY <1>22 DEF EraseUnlinked, Erased
<1>23. ASSUME NEW s \in Sessions, Assign(s) PROVE TypeOK'
  BY <1>23 DEF Assign
<1>24. ASSUME NEW s \in Sessions, RefusedReturns(s) PROVE TypeOK'
  BY <1>24 DEF RefusedReturns
<1>25. ASSUME NEW s \in Sessions, SessionGone(s) PROVE TypeOK'
  BY <1>25 DEF SessionGone
<1>26. CASE UNCHANGED vars
  BY <1>26 DEF vars, threadVars
<1> QED
  BY <1>1, <1>2, <1>3, <1>4, <1>5, <1>6, <1>7, <1>8, <1>9, <1>10, <1>11,
     <1>12, <1>13, <1>14, <1>15, <1>16, <1>17, <1>18, <1>19, <1>20, <1>21,
     <1>22, <1>23, <1>24, <1>25, <1>26
  DEF Next, Step

-----------------------------------------------------------------------------
(* One step is the step of one thread.                                     *)
Moves(s) == (\E o \in Orders : NewOrderSingle(s, o)) \/ EndSession(s) \/ Step(s)

SameThread(u) ==
  /\ at'[u] = at[u] /\ ord'[u] = ord[u] /\ book'[u] = book[u]
  /\ about'[u] = about[u] /\ read'[u] = read[u] /\ calls'[u] = calls[u]
  /\ drops'[u] = drops[u] /\ walk'[u] = walk[u]

LEMMA OtherThreads ==
  ASSUME TypeOK, NEW s \in Sessions, Moves(s), NEW u \in Sessions, u # s
  PROVE  SameThread(u)
<1> USE DEF TypeOK, Goto, SameThread, linkVars
<1>1. ASSUME NEW o \in Orders, NewOrderSingle(s, o) PROVE SameThread(u)
  BY <1>1 DEF NewOrderSingle
<1>2. ASSUME EndSession(s) PROVE SameThread(u)
  BY <1>2 DEF EndSession
<1>3. ASSUME Subscribe(s) PROVE SameThread(u)
  BY <1>3 DEF Subscribe
<1>4. ASSUME AppendOrder(s) PROVE SameThread(u)
  BY <1>4 DEF AppendOrder
<1>5. ASSUME AddRefused(s) PROVE SameThread(u)
  BY <1>5 DEF AddRefused
<1>6. ASSUME NEW b \in Books, GetBook(s, b) PROVE SameThread(u)
  BY <1>6 DEF GetBook
<1>7. ASSUME NEW b \in Books, AddOrder(s, b) PROVE SameThread(u)
  BY <1>7 DEF AddOrder, Match
<1>8. ASSUME NEW o \in Orders, OnFilled(s, o) PROVE SameThread(u)
  BY <1>8 DEF OnFilled
<1>9. ASSUME NextExecId(s) PROVE SameThread(u)
  BY <1>9 DEF NextExecId
<1>10. ASSUME Send(s) PROVE SameThread(u)
  BY <1>10 DEF Send
<1>11. ASSUME Called(s) PROVE SameThread(u)
  BY <1>11 DEF Called
<1>12. ASSUME NEW o \in Orders, DropShared(s, o) PROVE SameThread(u)
  BY <1>12 DEF DropShared
<1>13. ASSUME NEW o \in Orders, DropUnlinked(s, o) PROVE SameThread(u)
  BY <1>13 DEF DropUnlinked
<1>14. ASSUME NEW o \in Orders, DropLinked(s, o) PROVE SameThread(u)
  BY <1>14 DEF DropLinked
<1>15. ASSUME Unlock(s) PROVE SameThread(u)
  BY <1>15 DEF Unlock
<1>16. ASSUME Return(s) PROVE SameThread(u)
  BY <1>16 DEF Return
<1>17. ASSUME Returned(s) PROVE SameThread(u)
  BY <1>17 DEF Returned
<1>18. ASSUME NEW o \in Orders, WalkUnlinked(s, o) PROVE SameThread(u)
  BY <1>18 DEF WalkUnlinked
<1>19. ASSUME NEW o \in Orders, WalkLinked(s, o) PROVE SameThread(u)
  BY <1>19 DEF WalkLinked
<1>20. ASSUME Unsubscribe(s) PROVE SameThread(u)
  BY <1>20 DEF Unsubscribe
<1>21. ASSUME EraseDestroyed(s) PROVE SameThread(u)
  BY <1>21 DEF EraseDestroyed
<1>22. ASSUME EraseUnlinked(s) PROVE SameThread(u)
  BY <1>22 DEF EraseUnlinked
<1>23. ASSUME Assign(s) PROVE SameThread(u)
  BY <1>23 DEF Assign
<1>24. ASSUME RefusedReturns(s) PROVE SameThread(u)
  BY <1>24 DEF RefusedReturns
<1>25. ASSUME SessionGone(s) PROVE SameThread(u)
  BY <1>25 DEF SessionGone
<1> QED
  BY <1>1, <1>2, <1>3, <1>4, <1>5, <1>6, <1>7, <1>8, <1>9, <1>10, <1>11,
     <1>12, <1>13, <1>14, <1>15, <1>16, <1>17, <1>18, <1>19, <1>20, <1>21,
     <1>22, <1>23, <1>24, <1>25 DEF Moves, Step

(* A thread's own control.                                                 *)
LEMMA OwnControl ==
  ASSUME TypeOK, NEW s \in Sessions, Control(s), Moves(s)
  PROVE  Control(s)'
<1> USE DEF TypeOK, Goto, Control, InHandler, Quiescent, InMethod, InWalk, Holds,
            Dying, linkVars, bookVars
<1>1. ASSUME NEW o \in Orders, NewOrderSingle(s, o) PROVE Control(s)'
  BY <1>1, SessionLifetimeAssumption
     DEF NewOrderSingle, SessionLifetimeAssumption
<1>2. ASSUME EndSession(s) PROVE Control(s)'
  BY <1>2 DEF EndSession
<1>3. ASSUME Subscribe(s) PROVE Control(s)'
  BY <1>3 DEF Subscribe
<1>4. ASSUME AppendOrder(s) PROVE Control(s)'
  BY <1>4 DEF AppendOrder
<1>5. ASSUME AddRefused(s) PROVE Control(s)'
  BY <1>5 DEF AddRefused
<1>6. ASSUME NEW b \in Books, GetBook(s, b) PROVE Control(s)'
  BY <1>6, SessionLifetimeAssumption DEF GetBook, SessionLifetimeAssumption
<1>7. ASSUME NEW b \in Books, AddOrder(s, b) PROVE Control(s)'
  BY <1>7, SessionLifetimeAssumption
     DEF AddOrder, SessionLifetimeAssumption, Match
<1>8. ASSUME NEW o \in Orders, OnFilled(s, o) PROVE Control(s)'
  BY <1>8 DEF OnFilled
<1>9. ASSUME NextExecId(s) PROVE Control(s)'
  BY <1>9 DEF NextExecId
<1>10. ASSUME Send(s) PROVE Control(s)'
  BY <1>10 DEF Send
<1>11. ASSUME Called(s) PROVE Control(s)'
  BY <1>11 DEF Called
<1>12. ASSUME NEW o \in Orders, DropShared(s, o) PROVE Control(s)'
  BY <1>12 DEF DropShared
<1>13. ASSUME NEW o \in Orders, DropUnlinked(s, o) PROVE Control(s)'
  BY <1>13 DEF DropUnlinked
<1>14. ASSUME NEW o \in Orders, DropLinked(s, o) PROVE Control(s)'
  BY <1>14 DEF DropLinked
<1>15. ASSUME Unlock(s) PROVE Control(s)'
  BY <1>15 DEF Unlock
<1>16. ASSUME Return(s) PROVE Control(s)'
  BY <1>16 DEF Return
<1>17. ASSUME Returned(s) PROVE Control(s)'
  BY <1>17 DEF Returned
<1>18. ASSUME NEW o \in Orders, WalkUnlinked(s, o) PROVE Control(s)'
  BY <1>18 DEF WalkUnlinked
<1>19. ASSUME NEW o \in Orders, WalkLinked(s, o) PROVE Control(s)'
  BY <1>19 DEF WalkLinked
<1>20. ASSUME Unsubscribe(s) PROVE Control(s)'
  BY <1>20 DEF Unsubscribe
<1>21. ASSUME EraseDestroyed(s) PROVE Control(s)'
  BY <1>21 DEF EraseDestroyed
<1>22. ASSUME EraseUnlinked(s) PROVE Control(s)'
  BY <1>22 DEF EraseUnlinked
<1>23. ASSUME Assign(s) PROVE Control(s)'
  BY <1>23 DEF Assign
<1>24. ASSUME RefusedReturns(s) PROVE Control(s)'
  BY <1>24 DEF RefusedReturns
<1>25. ASSUME SessionGone(s) PROVE Control(s)'
  BY <1>25 DEF SessionGone
<1> QED
  BY <1>1, <1>2, <1>3, <1>4, <1>5, <1>6, <1>7, <1>8, <1>9, <1>10, <1>11,
     <1>12, <1>13, <1>14, <1>15, <1>16, <1>17, <1>18, <1>19, <1>20, <1>21,
     <1>22, <1>23, <1>24, <1>25 DEF Moves, Step

(* Nobody takes the mutex of a thread that holds it.                       *)
LEMMA HolderStays ==
  ASSUME TypeOK, NEW s \in Sessions, Moves(s), Control(s),
         NEW u \in Sessions, u # s, Control(u), Holds(u)
  PROVE  holder'[book[u]] = u
<1>1. book[u] \in Books /\ holder[book[u]] = u /\ u # None
  BY SessionLifetimeAssumption DEF Control, SessionLifetimeAssumption
<1>2. ASSUME NEW b \in Books, AddOrder(s, b) PROVE holder'[book[u]] = u
  BY <1>1, <1>2 DEF AddOrder, TypeOK
<1>3. ASSUME Unlock(s) PROVE holder'[book[u]] = u
  BY <1>1, <1>3 DEF Unlock, TypeOK, Control, Holds
<1>4. CASE UNCHANGED holder
  BY <1>1, <1>4
<1> QED
  BY <1>2, <1>3, <1>4
  DEF Moves, Step, bookVars, NewOrderSingle, EndSession, Subscribe,
     AppendOrder,
      AddRefused, GetBook, OnFilled, NextExecId, Send, Called, DropShared,
      DropUnlinked, DropLinked, Return, Returned, WalkUnlinked, WalkLinked,
      Unsubscribe, EraseDestroyed, EraseUnlinked, Assign, RefusedReturns,
      SessionGone

LEMMA ControlStep ==
  ASSUME TypeOK, \A u \in Sessions : Control(u), NEW s \in Sessions, Moves(s)
  PROVE  \A u \in Sessions : Control(u)'
<1> SUFFICES ASSUME NEW u \in Sessions, u # s PROVE Control(u)'
  BY OwnControl
<1>1. SameThread(u)
  BY OtherThreads
<1>2. Holds(u) => holder'[book[u]] = u
  BY HolderStays
<1> QED
  BY <1>1, <1>2
     DEF SameThread, Control, InHandler, Quiescent, InMethod, InWalk,
                    Holds, Dying

-----------------------------------------------------------------------------
(* References.                                                             *)
LEMMA ReferencesStep ==
  ASSUME RefInv, NEW s \in Sessions, Moves(s)
  PROVE  References'
<1>0. /\ TypeOK /\ References /\ \A u \in Sessions : Control(u)
      /\ TypeOK' /\ \A u \in Sessions : Control(u)'
      /\ \A u \in Sessions : u # s => SameThread(u)
  BY ControlStep, OtherThreads, TypeStep DEF RefInv, Moves, Next
<1>1. ASSUME NEW o \in Orders, NewOrderSingle(s, o) PROVE References'
  <2>1. SoleHandler'
    BY <1>0, <1>1, SessionLifetimeAssumption
    DEF NewOrderSingle, SessionLifetimeAssumption, TypeOK, Goto, linkVars,
       bookVars, SameThread, References, SoleHandler, ReferredAlive, CalledKept
  <2>2. ReferredAlive'
    BY <1>0, <1>1, SessionLifetimeAssumption
    DEF NewOrderSingle, SessionLifetimeAssumption, TypeOK, Goto, linkVars,
       bookVars, SameThread, References, SoleHandler, ReferredAlive, Kept
  <2>3. CalledKept'
    BY <1>0, <1>1, SessionLifetimeAssumption
    DEF NewOrderSingle, SessionLifetimeAssumption, TypeOK, Goto, linkVars,
       bookVars, SameThread, References, SoleHandler, ReferredAlive,
       CalledKept, Refers, Control, Holds
  <2>4. DyingAlone'
    BY <1>0, <1>1, SessionLifetimeAssumption
    DEF NewOrderSingle, SessionLifetimeAssumption, TypeOK, Goto, linkVars,
       bookVars, SameThread, References, SoleHandler, ReferredAlive,
       DyingAlone, Dying, Private, Kept, Control
  <2>5. HandlerPrivate'
    BY <1>0, <1>1, SessionLifetimeAssumption
    DEF NewOrderSingle, SessionLifetimeAssumption, TypeOK, Goto, linkVars,
       bookVars, SameThread, References, SoleHandler, ReferredAlive,
       HandlerPrivate, Private, Control
  <2> QED BY <2>1, <2>2, <2>3, <2>4, <2>5 DEF References
<1>2. ASSUME EndSession(s) PROVE References'
  <2>1. SoleHandler'
    BY <1>0, <1>2, SessionLifetimeAssumption
    DEF EndSession, SessionLifetimeAssumption, TypeOK, Goto, linkVars,
       bookVars, SameThread, References, SoleHandler, ReferredAlive, CalledKept
  <2>2. ReferredAlive'
    BY <1>0, <1>2, SessionLifetimeAssumption
    DEF EndSession, SessionLifetimeAssumption, TypeOK, Goto, linkVars,
       bookVars, SameThread, References, SoleHandler, ReferredAlive, Kept
  <2>3. CalledKept'
    BY <1>0, <1>2, SessionLifetimeAssumption
    DEF EndSession, SessionLifetimeAssumption, TypeOK, Goto, linkVars,
       bookVars, SameThread, References, SoleHandler, ReferredAlive,
       CalledKept, Refers, Control, Holds
  <2>4. DyingAlone'
    BY <1>0, <1>2, SessionLifetimeAssumption
    DEF EndSession, SessionLifetimeAssumption, TypeOK, Goto, linkVars,
       bookVars, SameThread, References, SoleHandler, ReferredAlive,
       DyingAlone, Dying, Private, Kept, Control
  <2>5. HandlerPrivate'
    BY <1>0, <1>2, SessionLifetimeAssumption
    DEF EndSession, SessionLifetimeAssumption, TypeOK, Goto, linkVars,
       bookVars, SameThread, References, SoleHandler, ReferredAlive,
       HandlerPrivate, Private, Control, Quiescent
  <2> QED BY <2>1, <2>2, <2>3, <2>4, <2>5 DEF References
<1>3. ASSUME Subscribe(s) PROVE References'
  BY <1>0, <1>3, SessionLifetimeAssumption
  DEF Subscribe, SessionLifetimeAssumption, TypeOK, Goto, linkVars, bookVars,
     References, SoleHandler, ReferredAlive, CalledKept, DyingAlone,
     HandlerPrivate, Private, Refers, Dying, SameThread, Control, InHandler,
     Holds, Kept
<1>4. ASSUME AppendOrder(s) PROVE References'
  BY <1>0, <1>4, SessionLifetimeAssumption
  DEF AppendOrder, SessionLifetimeAssumption, TypeOK, Goto, linkVars,
     bookVars, References, SoleHandler, ReferredAlive, CalledKept,
     DyingAlone, HandlerPrivate, Private, Refers, Dying, SameThread, Control,
     InHandler, Holds, Kept
<1>5. ASSUME AddRefused(s) PROVE References'
  BY <1>0, <1>5, SessionLifetimeAssumption
  DEF AddRefused, SessionLifetimeAssumption, TypeOK, Goto, linkVars,
     bookVars, References, SoleHandler, ReferredAlive, CalledKept,
     DyingAlone, HandlerPrivate, Private, Refers, Dying, SameThread, Control,
     InHandler, Holds, Kept
<1>6. ASSUME NEW b \in Books, GetBook(s, b) PROVE References'
  BY <1>0, <1>6, SessionLifetimeAssumption
  DEF GetBook, SessionLifetimeAssumption, TypeOK, Goto, linkVars, bookVars,
     References, SoleHandler, ReferredAlive, CalledKept, DyingAlone,
     HandlerPrivate, Private, Refers, Dying, SameThread, Control, InHandler,
     Holds, Kept
<1>7. ASSUME NEW b \in Books, AddOrder(s, b) PROVE References'
  <2>1. SoleHandler'
    BY <1>0, <1>7, SessionLifetimeAssumption
    DEF AddOrder, Match, SessionLifetimeAssumption, TypeOK, Goto, linkVars,
       bookVars, SameThread, References, SoleHandler, ReferredAlive, CalledKept
  <2>2. ReferredAlive'
    BY <1>0, <1>7, SessionLifetimeAssumption
    DEF AddOrder, Match, SessionLifetimeAssumption, TypeOK, Goto, linkVars,
       bookVars, SameThread, References, SoleHandler, ReferredAlive, Kept
  <2>3. CalledKept'
    BY <1>0, <1>7, SessionLifetimeAssumption
    DEF AddOrder, Match, SessionLifetimeAssumption, TypeOK, Goto, linkVars,
       bookVars, SameThread, References, SoleHandler, ReferredAlive,
       CalledKept, Refers, Control, Holds
  <2>4. DyingAlone'
    BY <1>0, <1>7, SessionLifetimeAssumption
    DEF AddOrder, Match, SessionLifetimeAssumption, TypeOK, Goto, linkVars,
       bookVars, SameThread, References, SoleHandler, ReferredAlive,
       DyingAlone, Dying, Private, Kept, Control
  <2>5. HandlerPrivate'
    <3>1. /\ at' = [at EXCEPT ![s] = "calling"] /\ ord' = ord /\ walk' = walk
          /\ ord[s] # None /\ walk[s] = {}
      BY <1>0, <1>7 DEF AddOrder, Goto, Control, InHandler, InWalk
    <3>2. PICK matched \in SUBSET resting[b], rests \in BOOLEAN :
            \E filled \in SUBSET matched : Match(s, b, matched, filled, rests)
      BY <1>7 DEF AddOrder
    <3>3. PICK filled \in SUBSET matched : Match(s, b, matched, filled, rests)
      BY <3>2
    <3>4. ASSUME NEW u \in Sessions, ord'[u] # None,
                 at'[u] \in {"subscribing", "appending", "adding", "locking"}
                   \/ walk'[u] # {}
          PROVE  Private(ord[u])'
      <4>1. u # s /\ ord[u] # None /\ Private(ord[u]) /\ ord[u] # ord[s]
        BY <1>0, <3>1, <3>4 DEF TypeOK, References, HandlerPrivate, SoleHandler
      <4>2. ASSUME NEW c \in Books PROVE ord[u] \notin resting'[c]
        BY <1>0, <3>3, <4>1 DEF TypeOK, Match, Private
      <4>3. ASSUME NEW v \in Sessions PROVE ord[u] \notin drops'[v]
        BY <1>0, <3>3, <4>1 DEF TypeOK, Match, Private
      <4> QED
        BY <3>1, <4>2, <4>3 DEF Private
    <3> QED
      BY <3>4 DEF HandlerPrivate
  <2> QED BY <2>1, <2>2, <2>3, <2>4, <2>5 DEF References
<1>8. ASSUME NEW o \in Orders, OnFilled(s, o) PROVE References'
  <2>1. SoleHandler'
    BY <1>0, <1>8, SessionLifetimeAssumption
    DEF OnFilled, SessionLifetimeAssumption, TypeOK, Goto, linkVars,
       bookVars, SameThread, References, SoleHandler, ReferredAlive, CalledKept
  <2>2. ReferredAlive'
    BY <1>0, <1>8, SessionLifetimeAssumption
    DEF OnFilled, SessionLifetimeAssumption, TypeOK, Goto, linkVars,
       bookVars, SameThread, References, SoleHandler, ReferredAlive, Kept
  <2>3. CalledKept'
    BY <1>0, <1>8, SessionLifetimeAssumption
    DEF OnFilled, SessionLifetimeAssumption, TypeOK, Goto, linkVars,
       bookVars, SameThread, References, SoleHandler, ReferredAlive,
       CalledKept, Refers, Control, Holds
  <2>4. DyingAlone'
    BY <1>0, <1>8, SessionLifetimeAssumption
    DEF OnFilled, SessionLifetimeAssumption, TypeOK, Goto, linkVars,
       bookVars, SameThread, References, SoleHandler, ReferredAlive,
       DyingAlone, Dying, Private, Kept, Control
  <2>5. HandlerPrivate'
    BY <1>0, <1>8, SessionLifetimeAssumption
    DEF OnFilled, SessionLifetimeAssumption, TypeOK, Goto, linkVars,
       bookVars, SameThread, References, SoleHandler, ReferredAlive,
       HandlerPrivate, Private, Control
  <2> QED BY <2>1, <2>2, <2>3, <2>4, <2>5 DEF References
<1>9. ASSUME NextExecId(s) PROVE References'
  BY <1>0, <1>9, SessionLifetimeAssumption
  DEF NextExecId, SessionLifetimeAssumption, TypeOK, Goto, linkVars,
     bookVars, References, SoleHandler, ReferredAlive, CalledKept,
     DyingAlone, HandlerPrivate, Private, Refers, Dying, SameThread, Control,
     InHandler, Holds, Kept
<1>10. ASSUME Send(s) PROVE References'
  BY <1>0, <1>10, SessionLifetimeAssumption
  DEF Send, SessionLifetimeAssumption, TypeOK, Goto, linkVars, bookVars,
     References, SoleHandler, ReferredAlive, CalledKept, DyingAlone,
     HandlerPrivate, Private, Refers, Dying, SameThread, Control, InHandler,
     Holds, Kept
<1>11. ASSUME Called(s) PROVE References'
  BY <1>0, <1>11, SessionLifetimeAssumption
  DEF Called, SessionLifetimeAssumption, TypeOK, Goto, linkVars, bookVars,
     References, SoleHandler, ReferredAlive, CalledKept, DyingAlone,
     HandlerPrivate, Private, Refers, Dying, SameThread, Control, InHandler,
     Holds, Kept
<1>12. ASSUME NEW o \in Orders, DropShared(s, o) PROVE References'
  BY <1>0, <1>12, SessionLifetimeAssumption
  DEF DropShared, SessionLifetimeAssumption, TypeOK, Goto, linkVars,
     bookVars, References, SoleHandler, ReferredAlive, CalledKept,
     DyingAlone, HandlerPrivate, Private, Refers, Dying, SameThread, Control,
     InHandler, Holds, Kept
<1>13. ASSUME NEW o \in Orders, DropUnlinked(s, o) PROVE References'
  BY <1>0, <1>13, SessionLifetimeAssumption
  DEF DropUnlinked, SessionLifetimeAssumption, TypeOK, Goto, linkVars,
     bookVars, References, SoleHandler, ReferredAlive, CalledKept,
     DyingAlone, HandlerPrivate, Private, Refers, Dying, SameThread, Control,
     InHandler, Holds, Kept
<1>14. ASSUME NEW o \in Orders, DropLinked(s, o) PROVE References'
  <2>1. SoleHandler'
    BY <1>0, <1>14, SessionLifetimeAssumption
    DEF DropLinked, SessionLifetimeAssumption, TypeOK, Goto, linkVars,
       bookVars, SameThread, References, SoleHandler, ReferredAlive, CalledKept
  <2>2. ReferredAlive'
    BY <1>0, <1>14, SessionLifetimeAssumption
    DEF DropLinked, SessionLifetimeAssumption, TypeOK, Goto, linkVars,
       bookVars, SameThread, References, SoleHandler, ReferredAlive, Kept
  <2>3. CalledKept'
    BY <1>0, <1>14, SessionLifetimeAssumption
    DEF DropLinked, SessionLifetimeAssumption, TypeOK, Goto, linkVars,
       bookVars, SameThread, References, SoleHandler, ReferredAlive,
       CalledKept, Refers, Control, Holds
  <2>4. DyingAlone'
    BY <1>0, <1>14, SessionLifetimeAssumption
    DEF DropLinked, SessionLifetimeAssumption, TypeOK, Goto, linkVars,
       bookVars, SameThread, References, SoleHandler, ReferredAlive,
       DyingAlone, Dying, Private, Kept, Control
  <2>5. HandlerPrivate'
    BY <1>0, <1>14, SessionLifetimeAssumption
    DEF DropLinked, SessionLifetimeAssumption, TypeOK, Goto, linkVars,
       bookVars, SameThread, References, SoleHandler, ReferredAlive,
       HandlerPrivate, Private, Control
  <2> QED BY <2>1, <2>2, <2>3, <2>4, <2>5 DEF References
<1>15. ASSUME Unlock(s) PROVE References'
  BY <1>0, <1>15, SessionLifetimeAssumption
  DEF Unlock, SessionLifetimeAssumption, TypeOK, Goto, linkVars, bookVars,
     References, SoleHandler, ReferredAlive, CalledKept, DyingAlone,
     HandlerPrivate, Private, Refers, Dying, SameThread, Control, InHandler,
     Holds, Kept
<1>16. ASSUME Return(s) PROVE References'
  <2>1. SoleHandler'
    BY <1>0, <1>16, SessionLifetimeAssumption
    DEF Return, SessionLifetimeAssumption, TypeOK, Goto, linkVars, bookVars,
       SameThread, References, SoleHandler, ReferredAlive, CalledKept
  <2>2. ReferredAlive'
    BY <1>0, <1>16, SessionLifetimeAssumption
    DEF Return, SessionLifetimeAssumption, TypeOK, Goto, linkVars, bookVars,
       SameThread, References, SoleHandler, ReferredAlive, Kept
  <2>3. CalledKept'
    BY <1>0, <1>16, SessionLifetimeAssumption
    DEF Return, SessionLifetimeAssumption, TypeOK, Goto, linkVars, bookVars,
       SameThread, References, SoleHandler, ReferredAlive, CalledKept,
       Refers, Control, Holds
  <2>4. DyingAlone'
    <3>1. /\ at' = [at EXCEPT ![s] = "dropping"] /\ at[s] = "returning"
          /\ drops' = [drops EXCEPT ![s] = {ord[s]}]
          /\ ord' = [ord EXCEPT ![s] = None] /\ ord[s] # None
          /\ UNCHANGED <<life, resting, about, walk>>
      BY <1>0, <1>16 DEF Return, Goto, linkVars, bookVars, Control, InHandler
    <3>2. ASSUME NEW u \in Sessions, Dying(u)' PROVE Dying(u) /\ u # s
      BY <1>0, <3>1, <3>2 DEF Dying, TypeOK
    <3>3. ASSUME NEW u \in Sessions, Dying(u)', NEW v \in Sessions
          PROVE  about'[u] \notin drops'[v] /\ ord'[v] # about'[u]
      <4>1. Dying(u) /\ about[u] \in Orders /\ about[u] # ord[s]
        BY <1>0, <3>2, <3>3
           DEF References, DyingAlone, Control, InMethod, Dying
      <4>2. about[u] \notin drops[v] /\ ord[v] # about[u]
        BY <1>0, <3>3, <4>1 DEF References, DyingAlone, Private
      <4> QED
        BY <1>0, <3>1, <4>1, <4>2, SessionLifetimeAssumption
        DEF TypeOK, SessionLifetimeAssumption
    <3> QED
      BY <1>0, <3>1, <3>2, <3>3 DEF References, DyingAlone, Private
  <2>5. HandlerPrivate'
    BY <1>0, <1>16, SessionLifetimeAssumption
    DEF Return, SessionLifetimeAssumption, TypeOK, Goto, linkVars, bookVars,
       SameThread, References, SoleHandler, ReferredAlive, HandlerPrivate,
       Private, Control
  <2> QED BY <2>1, <2>2, <2>3, <2>4, <2>5 DEF References
<1>17. ASSUME Returned(s) PROVE References'
  BY <1>0, <1>17, SessionLifetimeAssumption
  DEF Returned, SessionLifetimeAssumption, TypeOK, Goto, linkVars, bookVars,
     References, SoleHandler, ReferredAlive, CalledKept, DyingAlone,
     HandlerPrivate, Private, Refers, Dying, SameThread, Control, InHandler,
     Holds, Kept
<1>18. ASSUME NEW o \in Orders, WalkUnlinked(s, o) PROVE References'
  BY <1>0, <1>18, SessionLifetimeAssumption
  DEF WalkUnlinked, SessionLifetimeAssumption, TypeOK, Goto, linkVars,
     bookVars, References, SoleHandler, ReferredAlive, CalledKept,
     DyingAlone, HandlerPrivate, Private, Refers, Dying, SameThread, Control,
     InHandler, Holds, Kept
<1>19. ASSUME NEW o \in Orders, WalkLinked(s, o) PROVE References'
  <2>1. SoleHandler'
    BY <1>0, <1>19, SessionLifetimeAssumption
    DEF WalkLinked, SessionLifetimeAssumption, TypeOK, Goto, linkVars,
       bookVars, SameThread, References, SoleHandler, ReferredAlive, CalledKept
  <2>2. ReferredAlive'
    BY <1>0, <1>19, SessionLifetimeAssumption
    DEF WalkLinked, SessionLifetimeAssumption, TypeOK, Goto, linkVars,
       bookVars, SameThread, References, SoleHandler, ReferredAlive, Kept
  <2>3. CalledKept'
    BY <1>0, <1>19, SessionLifetimeAssumption
    DEF WalkLinked, SessionLifetimeAssumption, TypeOK, Goto, linkVars,
       bookVars, SameThread, References, SoleHandler, ReferredAlive,
       CalledKept, Refers, Control, Holds
  <2>4. DyingAlone'
    BY <1>0, <1>19, SessionLifetimeAssumption
    DEF WalkLinked, SessionLifetimeAssumption, TypeOK, Goto, linkVars,
       bookVars, SameThread, References, SoleHandler, ReferredAlive,
       DyingAlone, Dying, Private, Kept, Control
  <2>5. HandlerPrivate'
    BY <1>0, <1>19, SessionLifetimeAssumption
    DEF WalkLinked, SessionLifetimeAssumption, TypeOK, Goto, linkVars,
       bookVars, SameThread, References, SoleHandler, ReferredAlive,
       HandlerPrivate, Private, Control
  <2> QED BY <2>1, <2>2, <2>3, <2>4, <2>5 DEF References
<1>20. ASSUME Unsubscribe(s) PROVE References'
  BY <1>0, <1>20, SessionLifetimeAssumption
  DEF Unsubscribe, SessionLifetimeAssumption, TypeOK, Goto, linkVars,
     bookVars, References, SoleHandler, ReferredAlive, CalledKept,
     DyingAlone, HandlerPrivate, Private, Refers, Dying, SameThread, Control,
     InHandler, Holds, Kept
<1>21. ASSUME EraseDestroyed(s) PROVE References'
  <2>1. SoleHandler'
    BY <1>0, <1>21, SessionLifetimeAssumption
    DEF EraseDestroyed, SessionLifetimeAssumption, TypeOK, Goto, linkVars,
       bookVars, SameThread, References, SoleHandler, ReferredAlive, CalledKept
  <2>2. ReferredAlive'
    BY <1>0, <1>21, SessionLifetimeAssumption
    DEF EraseDestroyed, SessionLifetimeAssumption, TypeOK, Goto, linkVars,
       bookVars, SameThread, References, SoleHandler, ReferredAlive,
       DyingAlone, Dying, Private
  <2>3. CalledKept'
    BY <1>0, <1>21, SessionLifetimeAssumption
    DEF EraseDestroyed, SessionLifetimeAssumption, TypeOK, Goto, linkVars,
       bookVars, SameThread, References, SoleHandler, ReferredAlive,
       CalledKept, Refers, Control, Holds
  <2>4. DyingAlone'
    BY <1>0, <1>21, SessionLifetimeAssumption
    DEF EraseDestroyed, SessionLifetimeAssumption, TypeOK, Goto, linkVars,
       bookVars, SameThread, References, SoleHandler, ReferredAlive,
       DyingAlone, Dying, Private, Kept, Control
  <2>5. HandlerPrivate'
    BY <1>0, <1>21, SessionLifetimeAssumption
    DEF EraseDestroyed, SessionLifetimeAssumption, TypeOK, Goto, linkVars,
       bookVars, SameThread, References, SoleHandler, ReferredAlive,
       HandlerPrivate, Private, Control
  <2> QED BY <2>1, <2>2, <2>3, <2>4, <2>5 DEF References
<1>22. ASSUME EraseUnlinked(s) PROVE References'
  BY <1>0, <1>22, SessionLifetimeAssumption
  DEF EraseUnlinked, SessionLifetimeAssumption, TypeOK, Goto, linkVars,
     bookVars, References, SoleHandler, ReferredAlive, CalledKept,
     DyingAlone, HandlerPrivate, Private, Refers, Dying, SameThread, Control,
     InHandler, Holds, Kept
<1>23. ASSUME Assign(s) PROVE References'
  BY <1>0, <1>23, SessionLifetimeAssumption
  DEF Assign, SessionLifetimeAssumption, TypeOK, Goto, linkVars, bookVars,
     References, SoleHandler, ReferredAlive, CalledKept, DyingAlone,
     HandlerPrivate, Private, Refers, Dying, SameThread, Control, InHandler,
     Holds, Kept
<1>24. ASSUME RefusedReturns(s) PROVE References'
  BY <1>0, <1>24, SessionLifetimeAssumption
  DEF RefusedReturns, SessionLifetimeAssumption, TypeOK, Goto, linkVars,
     bookVars, References, SoleHandler, ReferredAlive, CalledKept,
     DyingAlone, HandlerPrivate, Private, Refers, Dying, SameThread, Control,
     InHandler, Holds, Kept
<1>25. ASSUME SessionGone(s) PROVE References'
  BY <1>0, <1>25, SessionLifetimeAssumption
  DEF SessionGone, SessionLifetimeAssumption, TypeOK, Goto, linkVars,
     bookVars, References, SoleHandler, ReferredAlive, CalledKept,
     DyingAlone, HandlerPrivate, Private, Refers, Dying, SameThread, Control,
     InHandler, Holds, Kept
<1> QED
  BY <1>1, <1>2, <1>3, <1>4, <1>5, <1>6, <1>7, <1>8, <1>9, <1>10, <1>11,
     <1>12, <1>13, <1>14, <1>15, <1>16, <1>17, <1>18, <1>19, <1>20, <1>21,
     <1>22, <1>23, <1>24, <1>25 DEF Moves, Step

LEMMA RefInit == Init => RefInv
<1> SUFFICES ASSUME Init PROVE RefInv
  OBVIOUS
<1>1. TypeOK
  BY TypeInit
<1>2. ASSUME NEW s \in Sessions PROVE Control(s)
  BY DEF Init, Control, InHandler, Quiescent, InMethod, InWalk, Holds, Dying
<1>3. References
  BY DEF Init, References, SoleHandler, ReferredAlive, CalledKept, DyingAlone,
         HandlerPrivate, Private, Dying
<1> QED
  BY <1>1, <1>2, <1>3 DEF Init, RefInv

LEMMA EachMoves == Next => \E s \in Sessions : Moves(s)
  BY DEF Next, Moves

(* server_ is written by NewOrderSingle and Assign only.                   *)
LEMMA UnbornStep ==
  ASSUME RefInv, NEW s \in Sessions, Moves(s)
  PROVE  \A o \in Orders : life'[o] = "unborn" => server'[o] = None
<1> USE DEF RefInv, TypeOK, linkVars
<1>1. ASSUME NEW o \in Orders, NewOrderSingle(s, o)
      PROVE  \A p \in Orders : life'[p] = "unborn" => server'[p] = None
  BY <1>1 DEF NewOrderSingle
<1>2. ASSUME Assign(s)
      PROVE  \A p \in Orders : life'[p] = "unborn" => server'[p] = None
  BY <1>2 DEF Assign
<1>3. ASSUME NEW o \in Orders, DropUnlinked(s, o)
      PROVE  \A p \in Orders : life'[p] = "unborn" => server'[p] = None
  BY <1>3 DEF DropUnlinked
<1>4. ASSUME EraseDestroyed(s)
      PROVE  \A p \in Orders : life'[p] = "unborn" => server'[p] = None
  BY <1>4 DEF EraseDestroyed
<1>5. CASE UNCHANGED <<life, server>>
  BY <1>5
<1> QED
  BY <1>1, <1>2, <1>3, <1>4, <1>5
  DEF Moves, Step, EndSession, Subscribe, AppendOrder, AddRefused, GetBook,
      AddOrder, OnFilled, NextExecId, Send, Called, DropShared, DropLinked,
      Unlock, Return, Returned, WalkUnlinked, WalkLinked, Unsubscribe,
      EraseUnlinked, RefusedReturns, SessionGone

LEMMA RefStep == RefInv /\ [Next]_vars => RefInv'
<1> SUFFICES ASSUME RefInv, [Next]_vars PROVE RefInv'
  OBVIOUS
<1>1. CASE Next
  <2>1. PICK s \in Sessions : Moves(s)
    BY <1>1, EachMoves
  <2>2. TypeOK'
    BY TypeStep DEF RefInv
  <2> QED
    BY <2>1, <2>2, ControlStep, UnbornStep, ReferencesStep DEF RefInv
<1>2. CASE UNCHANGED vars
  BY <1>2
  DEF vars, linkVars, bookVars, threadVars, RefInv, TypeOK, Control, InHandler,
      Quiescent, InMethod, InWalk, Holds, Dying, References, SoleHandler,
      ReferredAlive, CalledKept, DyingAlone, HandlerPrivate, Private, Refers
<1> QED
  BY <1>1, <1>2

-----------------------------------------------------------------------------
(* Links, while no two threads overlap.                                    *)

LEMMA EachWatches ==
  ASSUME NEW s \in Sessions, Moves(s) PROVE Watch
  BY DEF Moves, Step, NewOrderSingle, EndSession, Subscribe, AppendOrder,
         AddRefused, GetBook, AddOrder, OnFilled, NextExecId, Send, Called,
         DropShared, DropUnlinked, DropLinked, Unlock, Return, Returned,
         WalkUnlinked, WalkLinked, Unsubscribe, EraseDestroyed, EraseUnlinked,
         Assign, RefusedReturns, SessionGone

(* What it means for the threads not to overlap.                           *)
Apart ==
  \A u, v \in Sessions : u # v =>
    /\ at[u] \in {"subscribing", "appending", "walking"} \/ walk[u] # {} =>
         ~(at[v] \in {"erasing", "erased"} /\ server[about[v]] = u)
    /\ at[u] \in {"erasing", "erased"} /\ at[v] \in {"erasing", "erased"} =>
         server[about[u]] # server[about[v]] \/ server[about[u]] = None
    /\ Closing(u) /\ at[v] \in {"stamping", "sending"} => server[about[v]] # u

LEMMA NoOverlap == ~Overlap => Apart
  BY SessionLifetimeAssumption
  DEF SessionLifetimeAssumption, Overlap, Apart, Changing, Sending, LinkOf

LEMMA UnsharedStep ==
  ASSUME RefInv, Apart, Unshared, NEW s \in Sessions, Moves(s), RefInv', Apart'
  PROVE  Unshared'
<1>0. /\ TypeOK /\ TypeOK'
      /\ \A u \in Sessions : Control(u) /\ Control(u)'
      /\ References
      /\ \A u \in Sessions : u # s => SameThread(u)
      /\ \A o \in Orders : life[o] = "unborn" => server[o] = None
  BY OtherThreads DEF RefInv
<1>1. ASSUME NEW o \in Orders, NewOrderSingle(s, o) PROVE Unshared'
  BY <1>0, <1>1, SessionLifetimeAssumption
  DEF NewOrderSingle, SessionLifetimeAssumption, TypeOK, Goto, linkVars,
     bookVars, SameThread, Unshared, Listed, Linked, NewLinked, ReadFresh,
     Walked, MethodLinked, Unlisted, ClosingWalks, UseOrder, UseServer,
     Closing, Apart, Control
<1>2. ASSUME EndSession(s) PROVE Unshared'
  BY <1>0, <1>2, SessionLifetimeAssumption
  DEF EndSession, SessionLifetimeAssumption, TypeOK, Goto, linkVars,
     bookVars, SameThread, Unshared, Listed, Linked, NewLinked, ReadFresh,
     Walked, MethodLinked, Unlisted, ClosingWalks, UseOrder, UseServer,
     Closing, Apart, Control
<1>3. ASSUME Subscribe(s) PROVE Unshared'
  BY <1>0, <1>3, SessionLifetimeAssumption
  DEF Subscribe, SessionLifetimeAssumption, TypeOK, Goto, linkVars, bookVars,
     SameThread, Unshared, Listed, Linked, NewLinked, ReadFresh, Walked,
     MethodLinked, Unlisted, ClosingWalks, UseOrder, UseServer, Closing,
     Apart, Control
<1>4. ASSUME AppendOrder(s) PROVE Unshared'
  <2>1. ~misused'
    BY <1>0, <1>4, SessionLifetimeAssumption
    DEF AppendOrder, SessionLifetimeAssumption, TypeOK, Goto, linkVars,
       bookVars, SameThread, Unshared, UseOrder, UseServer, Linked, Walked,
       MethodLinked, Control, References, ReferredAlive, CalledKept, Refers,
       DyingAlone, Dying
  <2>2. Listed'
    BY <1>0, <1>4, SessionLifetimeAssumption
    DEF AppendOrder, SessionLifetimeAssumption, TypeOK, Goto, linkVars,
       bookVars, SameThread, Unshared, Listed, NewLinked, ReadFresh, Walked,
       Unlisted, MethodLinked, LinkOf, Erased, Control, Dying, References,
       ReferredAlive
  <2>3. Linked'
    BY <1>0, <1>4, SessionLifetimeAssumption
    DEF AppendOrder, SessionLifetimeAssumption, TypeOK, Goto, linkVars,
       bookVars, SameThread, Unshared, Listed, Linked, NewLinked, ReadFresh,
       Walked, ClosingWalks, Closing, MethodLinked, LinkOf, Erased, Control
  <2>4. NewLinked'
    BY <1>0, <1>4, SessionLifetimeAssumption
    DEF AppendOrder, SessionLifetimeAssumption, TypeOK, Goto, linkVars,
       bookVars, SameThread, Unshared, NewLinked, Walked, Control, InHandler
  <2>5. ReadFresh'
    BY <1>0, <1>4, SessionLifetimeAssumption
    DEF AppendOrder, SessionLifetimeAssumption, TypeOK, Goto, linkVars,
       bookVars, SameThread, Unshared, ReadFresh, Apart, LinkOf, Erased,
       Walked, MethodLinked, Control
  <2>6. Walked'
    BY <1>0, <1>4, SessionLifetimeAssumption
    DEF AppendOrder, SessionLifetimeAssumption, TypeOK, Goto, linkVars,
       bookVars, SameThread, Unshared, Walked, Listed, NewLinked, Apart,
       MethodLinked, Control, Dying, InWalk, InHandler, References,
       ReferredAlive
  <2>7. MethodLinked'
    BY <1>0, <1>4, SessionLifetimeAssumption
    DEF AppendOrder, SessionLifetimeAssumption, TypeOK, Goto, linkVars,
       bookVars, SameThread, Unshared, MethodLinked, Apart, Walked, Closing,
       References, CalledKept, Refers, HandlerPrivate, Private, Control,
       InMethod
  <2>8. Unlisted'
    BY <1>0, <1>4, SessionLifetimeAssumption
    DEF AppendOrder, SessionLifetimeAssumption, TypeOK, Goto, linkVars,
       bookVars, SameThread, Unshared, Unlisted, Apart, LinkOf, Erased,
       Walked, Control
  <2>9. ClosingWalks'
    BY <1>0, <1>4, SessionLifetimeAssumption
    DEF AppendOrder, SessionLifetimeAssumption, TypeOK, Goto, linkVars,
       bookVars, SameThread, Unshared, ClosingWalks, Linked, Closing, Listed,
       Control, Walked, Quiescent
  <2> QED BY <2>1, <2>2, <2>3, <2>4, <2>5, <2>6, <2>7, <2>8, <2>9 DEF Unshared
<1>5. ASSUME AddRefused(s) PROVE Unshared'
  <2>1. ~misused'
    BY <1>0, <1>5, SessionLifetimeAssumption
    DEF AddRefused, SessionLifetimeAssumption, TypeOK, Goto, linkVars,
       bookVars, SameThread, Unshared, UseOrder, UseServer, Linked, Walked,
       MethodLinked, Control, References, ReferredAlive, CalledKept, Refers,
       DyingAlone, Dying
  <2>2. Listed'
    BY <1>0, <1>5, SessionLifetimeAssumption
    DEF AddRefused, SessionLifetimeAssumption, TypeOK, Goto, linkVars,
       bookVars, SameThread, Unshared, Listed, NewLinked, ReadFresh, Walked,
       Unlisted, MethodLinked, LinkOf, Erased, Control, Dying, References,
       ReferredAlive
  <2>3. Linked'
    BY <1>0, <1>5, SessionLifetimeAssumption
    DEF AddRefused, SessionLifetimeAssumption, TypeOK, Goto, linkVars,
       bookVars, SameThread, Unshared, Listed, Linked, NewLinked, ReadFresh,
       Walked, ClosingWalks, Closing, MethodLinked, LinkOf, Erased, Control
  <2>4. NewLinked'
    BY <1>0, <1>5, SessionLifetimeAssumption
    DEF AddRefused, SessionLifetimeAssumption, TypeOK, Goto, linkVars,
       bookVars, SameThread, Unshared, NewLinked, Walked, Control, InHandler
  <2>5. ReadFresh'
    BY <1>0, <1>5, SessionLifetimeAssumption
    DEF AddRefused, SessionLifetimeAssumption, TypeOK, Goto, linkVars,
       bookVars, SameThread, Unshared, ReadFresh, Apart, LinkOf, Erased,
       Walked, MethodLinked, Control
  <2>6. Walked'
    BY <1>0, <1>5, SessionLifetimeAssumption
    DEF AddRefused, SessionLifetimeAssumption, TypeOK, Goto, linkVars,
       bookVars, SameThread, Unshared, Walked, Listed, NewLinked, Apart,
       MethodLinked, Control, Dying, InWalk, InHandler, References,
       ReferredAlive
  <2>7. MethodLinked'
    BY <1>0, <1>5, SessionLifetimeAssumption
    DEF AddRefused, SessionLifetimeAssumption, TypeOK, Goto, linkVars,
       bookVars, SameThread, Unshared, MethodLinked, Apart, Walked, Closing,
       References, CalledKept, Refers, HandlerPrivate, Private, Control,
       InMethod
  <2>8. Unlisted'
    BY <1>0, <1>5, SessionLifetimeAssumption
    DEF AddRefused, SessionLifetimeAssumption, TypeOK, Goto, linkVars,
       bookVars, SameThread, Unshared, Unlisted, Apart, LinkOf, Erased,
       Walked, Control
  <2>9. ClosingWalks'
    BY <1>0, <1>5, SessionLifetimeAssumption
    DEF AddRefused, SessionLifetimeAssumption, TypeOK, Goto, linkVars,
       bookVars, SameThread, Unshared, ClosingWalks, Linked, Closing, Listed,
       Control, Walked, Quiescent
  <2> QED BY <2>1, <2>2, <2>3, <2>4, <2>5, <2>6, <2>7, <2>8, <2>9 DEF Unshared
<1>6. ASSUME NEW b \in Books, GetBook(s, b) PROVE Unshared'
  BY <1>0, <1>6, SessionLifetimeAssumption
  DEF GetBook, SessionLifetimeAssumption, TypeOK, Goto, linkVars, bookVars,
     SameThread, Unshared, Listed, Linked, NewLinked, ReadFresh, Walked,
     MethodLinked, Unlisted, ClosingWalks, UseOrder, UseServer, Closing,
     Apart, Control
<1>7. ASSUME NEW b \in Books, AddOrder(s, b) PROVE Unshared'
  BY <1>0, <1>7, SessionLifetimeAssumption
  DEF AddOrder, SessionLifetimeAssumption, TypeOK, Goto, linkVars, bookVars,
     SameThread, Unshared, Listed, Linked, NewLinked, ReadFresh, Walked,
     MethodLinked, Unlisted, ClosingWalks, UseOrder, UseServer, Closing,
     Apart, Control
<1>8. ASSUME NEW o \in Orders, OnFilled(s, o) PROVE Unshared'
  <2>1. ~misused'
    BY <1>0, <1>8, SessionLifetimeAssumption
    DEF OnFilled, SessionLifetimeAssumption, TypeOK, Goto, linkVars,
       bookVars, SameThread, Unshared, UseOrder, UseServer, Linked, Walked,
       MethodLinked, Control, References, ReferredAlive, CalledKept, Refers,
       DyingAlone, Dying
  <2>2. Listed'
    BY <1>0, <1>8, SessionLifetimeAssumption
    DEF OnFilled, SessionLifetimeAssumption, TypeOK, Goto, linkVars,
       bookVars, SameThread, Unshared, Listed, NewLinked, ReadFresh, Walked,
       Unlisted, MethodLinked, LinkOf, Erased, Control, Dying, References,
       ReferredAlive
  <2>3. Linked'
    BY <1>0, <1>8, SessionLifetimeAssumption
    DEF OnFilled, SessionLifetimeAssumption, TypeOK, Goto, linkVars,
       bookVars, SameThread, Unshared, Listed, Linked, NewLinked, ReadFresh,
       Walked, ClosingWalks, Closing, MethodLinked, LinkOf, Erased, Control
  <2>4. NewLinked'
    BY <1>0, <1>8, SessionLifetimeAssumption
    DEF OnFilled, SessionLifetimeAssumption, TypeOK, Goto, linkVars,
       bookVars, SameThread, Unshared, NewLinked, Walked, Control, InHandler
  <2>5. ReadFresh'
    BY <1>0, <1>8, SessionLifetimeAssumption
    DEF OnFilled, SessionLifetimeAssumption, TypeOK, Goto, linkVars,
       bookVars, SameThread, Unshared, ReadFresh, Apart, LinkOf, Erased,
       Walked, MethodLinked, Control
  <2>6. Walked'
    BY <1>0, <1>8, SessionLifetimeAssumption
    DEF OnFilled, SessionLifetimeAssumption, TypeOK, Goto, linkVars,
       bookVars, SameThread, Unshared, Walked, Listed, NewLinked, Apart,
       MethodLinked, Control, Dying, InWalk, InHandler, References,
       ReferredAlive
  <2>7. MethodLinked'
    BY <1>0, <1>8, SessionLifetimeAssumption
    DEF OnFilled, SessionLifetimeAssumption, TypeOK, Goto, linkVars,
       bookVars, SameThread, Unshared, MethodLinked, Apart, Walked, Closing,
       References, CalledKept, Refers, HandlerPrivate, Private, Control,
       InMethod
  <2>8. Unlisted'
    BY <1>0, <1>8, SessionLifetimeAssumption
    DEF OnFilled, SessionLifetimeAssumption, TypeOK, Goto, linkVars,
       bookVars, SameThread, Unshared, Unlisted, Apart, LinkOf, Erased,
       Walked, Control
  <2>9. ClosingWalks'
    BY <1>0, <1>8, SessionLifetimeAssumption
    DEF OnFilled, SessionLifetimeAssumption, TypeOK, Goto, linkVars,
       bookVars, SameThread, Unshared, ClosingWalks, Linked, Closing, Listed,
       Control, Walked, Quiescent
  <2> QED BY <2>1, <2>2, <2>3, <2>4, <2>5, <2>6, <2>7, <2>8, <2>9 DEF Unshared
<1>9. ASSUME NextExecId(s) PROVE Unshared'
  <2>1. ~misused'
    BY <1>0, <1>9, SessionLifetimeAssumption
    DEF NextExecId, SessionLifetimeAssumption, TypeOK, Goto, linkVars,
       bookVars, SameThread, Unshared, UseOrder, UseServer, Linked, Walked,
       MethodLinked, Control, References, ReferredAlive, CalledKept, Refers,
       DyingAlone, Dying
  <2>2. Listed'
    BY <1>0, <1>9, SessionLifetimeAssumption
    DEF NextExecId, SessionLifetimeAssumption, TypeOK, Goto, linkVars,
       bookVars, SameThread, Unshared, Listed, NewLinked, ReadFresh, Walked,
       Unlisted, MethodLinked, LinkOf, Erased, Control, Dying, References,
       ReferredAlive
  <2>3. Linked'
    BY <1>0, <1>9, SessionLifetimeAssumption
    DEF NextExecId, SessionLifetimeAssumption, TypeOK, Goto, linkVars,
       bookVars, SameThread, Unshared, Listed, Linked, NewLinked, ReadFresh,
       Walked, ClosingWalks, Closing, MethodLinked, LinkOf, Erased, Control
  <2>4. NewLinked'
    BY <1>0, <1>9, SessionLifetimeAssumption
    DEF NextExecId, SessionLifetimeAssumption, TypeOK, Goto, linkVars,
       bookVars, SameThread, Unshared, NewLinked, Walked, Control, InHandler
  <2>5. ReadFresh'
    BY <1>0, <1>9, SessionLifetimeAssumption
    DEF NextExecId, SessionLifetimeAssumption, TypeOK, Goto, linkVars,
       bookVars, SameThread, Unshared, ReadFresh, Apart, LinkOf, Erased,
       Walked, MethodLinked, Control
  <2>6. Walked'
    BY <1>0, <1>9, SessionLifetimeAssumption
    DEF NextExecId, SessionLifetimeAssumption, TypeOK, Goto, linkVars,
       bookVars, SameThread, Unshared, Walked, Listed, NewLinked, Apart,
       MethodLinked, Control, Dying, InWalk, InHandler, References,
       ReferredAlive
  <2>7. MethodLinked'
    BY <1>0, <1>9, SessionLifetimeAssumption
    DEF NextExecId, SessionLifetimeAssumption, TypeOK, Goto, linkVars,
       bookVars, SameThread, Unshared, MethodLinked, Apart, Walked, Closing,
       References, CalledKept, Refers, HandlerPrivate, Private, Control,
       InMethod
  <2>8. Unlisted'
    BY <1>0, <1>9, SessionLifetimeAssumption
    DEF NextExecId, SessionLifetimeAssumption, TypeOK, Goto, linkVars,
       bookVars, SameThread, Unshared, Unlisted, Apart, LinkOf, Erased,
       Walked, Control
  <2>9. ClosingWalks'
    BY <1>0, <1>9, SessionLifetimeAssumption
    DEF NextExecId, SessionLifetimeAssumption, TypeOK, Goto, linkVars,
       bookVars, SameThread, Unshared, ClosingWalks, Linked, Closing, Listed,
       Control, Walked, Quiescent
  <2> QED BY <2>1, <2>2, <2>3, <2>4, <2>5, <2>6, <2>7, <2>8, <2>9 DEF Unshared
<1>10. ASSUME Send(s) PROVE Unshared'
  <2>1. ~misused'
    BY <1>0, <1>10, SessionLifetimeAssumption
    DEF Send, SessionLifetimeAssumption, TypeOK, Goto, linkVars, bookVars,
       SameThread, Unshared, UseOrder, UseServer, Linked, Walked,
       MethodLinked, Control, References, ReferredAlive, CalledKept, Refers,
       DyingAlone, Dying
  <2>2. Listed'
    BY <1>0, <1>10, SessionLifetimeAssumption
    DEF Send, SessionLifetimeAssumption, TypeOK, Goto, linkVars, bookVars,
       SameThread, Unshared, Listed, NewLinked, ReadFresh, Walked, Unlisted,
       MethodLinked, LinkOf, Erased, Control, Dying, References, ReferredAlive
  <2>3. Linked'
    BY <1>0, <1>10, SessionLifetimeAssumption
    DEF Send, SessionLifetimeAssumption, TypeOK, Goto, linkVars, bookVars,
       SameThread, Unshared, Listed, Linked, NewLinked, ReadFresh, Walked,
       ClosingWalks, Closing, MethodLinked, LinkOf, Erased, Control
  <2>4. NewLinked'
    BY <1>0, <1>10, SessionLifetimeAssumption
    DEF Send, SessionLifetimeAssumption, TypeOK, Goto, linkVars, bookVars,
       SameThread, Unshared, NewLinked, Walked, Control, InHandler
  <2>5. ReadFresh'
    BY <1>0, <1>10, SessionLifetimeAssumption
    DEF Send, SessionLifetimeAssumption, TypeOK, Goto, linkVars, bookVars,
       SameThread, Unshared, ReadFresh, Apart, LinkOf, Erased, Walked,
       MethodLinked, Control
  <2>6. Walked'
    BY <1>0, <1>10, SessionLifetimeAssumption
    DEF Send, SessionLifetimeAssumption, TypeOK, Goto, linkVars, bookVars,
       SameThread, Unshared, Walked, Listed, NewLinked, Apart, MethodLinked,
       Control, Dying, InWalk, InHandler, References, ReferredAlive
  <2>7. MethodLinked'
    BY <1>0, <1>10, SessionLifetimeAssumption
    DEF Send, SessionLifetimeAssumption, TypeOK, Goto, linkVars, bookVars,
       SameThread, Unshared, MethodLinked, Apart, Walked, Closing,
       References, CalledKept, Refers, HandlerPrivate, Private, Control,
       InMethod
  <2>8. Unlisted'
    BY <1>0, <1>10, SessionLifetimeAssumption
    DEF Send, SessionLifetimeAssumption, TypeOK, Goto, linkVars, bookVars,
       SameThread, Unshared, Unlisted, Apart, LinkOf, Erased, Walked, Control
  <2>9. ClosingWalks'
    BY <1>0, <1>10, SessionLifetimeAssumption
    DEF Send, SessionLifetimeAssumption, TypeOK, Goto, linkVars, bookVars,
       SameThread, Unshared, ClosingWalks, Linked, Closing, Listed, Control,
       Walked, Quiescent
  <2> QED BY <2>1, <2>2, <2>3, <2>4, <2>5, <2>6, <2>7, <2>8, <2>9 DEF Unshared
<1>11. ASSUME Called(s) PROVE Unshared'
  BY <1>0, <1>11, SessionLifetimeAssumption
  DEF Called, SessionLifetimeAssumption, TypeOK, Goto, linkVars, bookVars,
     SameThread, Unshared, Listed, Linked, NewLinked, ReadFresh, Walked,
     MethodLinked, Unlisted, ClosingWalks, UseOrder, UseServer, Closing,
     Apart, Control
<1>12. ASSUME NEW o \in Orders, DropShared(s, o) PROVE Unshared'
  BY <1>0, <1>12, SessionLifetimeAssumption
  DEF DropShared, SessionLifetimeAssumption, TypeOK, Goto, linkVars,
     bookVars, SameThread, Unshared, Listed, Linked, NewLinked, ReadFresh,
     Walked, MethodLinked, Unlisted, ClosingWalks, UseOrder, UseServer,
     Closing, Apart, Control
<1>13. ASSUME NEW o \in Orders, DropUnlinked(s, o) PROVE Unshared'
  <2>1. ~misused'
    BY <1>0, <1>13, SessionLifetimeAssumption
    DEF DropUnlinked, SessionLifetimeAssumption, TypeOK, Goto, linkVars,
       bookVars, SameThread, Unshared, UseOrder, UseServer, Linked, Walked,
       MethodLinked, Control, References, ReferredAlive, CalledKept, Refers,
       DyingAlone, Dying
  <2>2. Listed'
    BY <1>0, <1>13, SessionLifetimeAssumption
    DEF DropUnlinked, SessionLifetimeAssumption, TypeOK, Goto, linkVars,
       bookVars, SameThread, Unshared, Listed, NewLinked, ReadFresh, Walked,
       Unlisted, MethodLinked, LinkOf, Erased, Control, Dying, References,
       ReferredAlive
  <2>3. Linked'
    BY <1>0, <1>13, SessionLifetimeAssumption
    DEF DropUnlinked, SessionLifetimeAssumption, TypeOK, Goto, linkVars,
       bookVars, SameThread, Unshared, Listed, Linked, NewLinked, ReadFresh,
       Walked, ClosingWalks, Closing, MethodLinked, LinkOf, Erased, Control
  <2>4. NewLinked'
    BY <1>0, <1>13, SessionLifetimeAssumption
    DEF DropUnlinked, SessionLifetimeAssumption, TypeOK, Goto, linkVars,
       bookVars, SameThread, Unshared, NewLinked, Walked, Control, InHandler
  <2>5. ReadFresh'
    BY <1>0, <1>13, SessionLifetimeAssumption
    DEF DropUnlinked, SessionLifetimeAssumption, TypeOK, Goto, linkVars,
       bookVars, SameThread, Unshared, ReadFresh, Apart, LinkOf, Erased,
       Walked, MethodLinked, Control
  <2>6. Walked'
    BY <1>0, <1>13, SessionLifetimeAssumption
    DEF DropUnlinked, SessionLifetimeAssumption, TypeOK, Goto, linkVars,
       bookVars, SameThread, Unshared, Walked, Listed, NewLinked, Apart,
       MethodLinked, Control, Dying, InWalk, InHandler, References,
       ReferredAlive
  <2>7. MethodLinked'
    BY <1>0, <1>13, SessionLifetimeAssumption
    DEF DropUnlinked, SessionLifetimeAssumption, TypeOK, Goto, linkVars,
       bookVars, SameThread, Unshared, MethodLinked, Apart, Walked, Closing,
       References, CalledKept, Refers, HandlerPrivate, Private, Control,
       InMethod
  <2>8. Unlisted'
    BY <1>0, <1>13, SessionLifetimeAssumption
    DEF DropUnlinked, SessionLifetimeAssumption, TypeOK, Goto, linkVars,
       bookVars, SameThread, Unshared, Unlisted, Apart, LinkOf, Erased,
       Walked, Control
  <2>9. ClosingWalks'
    BY <1>0, <1>13, SessionLifetimeAssumption
    DEF DropUnlinked, SessionLifetimeAssumption, TypeOK, Goto, linkVars,
       bookVars, SameThread, Unshared, ClosingWalks, Linked, Closing, Listed,
       Control, Walked, Quiescent
  <2> QED BY <2>1, <2>2, <2>3, <2>4, <2>5, <2>6, <2>7, <2>8, <2>9 DEF Unshared
<1>14. ASSUME NEW o \in Orders, DropLinked(s, o) PROVE Unshared'
  <2>1. ~misused'
    BY <1>0, <1>14, SessionLifetimeAssumption
    DEF DropLinked, SessionLifetimeAssumption, TypeOK, Goto, linkVars,
       bookVars, SameThread, Unshared, UseOrder, UseServer, Linked, Walked,
       MethodLinked, Control, References, ReferredAlive, CalledKept, Refers,
       DyingAlone, Dying
  <2>2. Listed'
    BY <1>0, <1>14, SessionLifetimeAssumption
    DEF DropLinked, SessionLifetimeAssumption, TypeOK, Goto, linkVars,
       bookVars, SameThread, Unshared, Listed, NewLinked, ReadFresh, Walked,
       Unlisted, MethodLinked, LinkOf, Erased, Control, Dying, References,
       ReferredAlive
  <2>3. Linked'
    BY <1>0, <1>14, SessionLifetimeAssumption
    DEF DropLinked, SessionLifetimeAssumption, TypeOK, Goto, linkVars,
       bookVars, SameThread, Unshared, Listed, Linked, NewLinked, ReadFresh,
       Walked, ClosingWalks, Closing, MethodLinked, LinkOf, Erased, Control
  <2>4. NewLinked'
    BY <1>0, <1>14, SessionLifetimeAssumption
    DEF DropLinked, SessionLifetimeAssumption, TypeOK, Goto, linkVars,
       bookVars, SameThread, Unshared, NewLinked, Walked, Control, InHandler
  <2>5. ReadFresh'
    BY <1>0, <1>14, SessionLifetimeAssumption
    DEF DropLinked, SessionLifetimeAssumption, TypeOK, Goto, linkVars,
       bookVars, SameThread, Unshared, ReadFresh, Apart, LinkOf, Erased,
       Walked, MethodLinked, Control
  <2>6. Walked'
    BY <1>0, <1>14, SessionLifetimeAssumption
    DEF DropLinked, SessionLifetimeAssumption, TypeOK, Goto, linkVars,
       bookVars, SameThread, Unshared, Walked, Listed, NewLinked, Apart,
       MethodLinked, Control, Dying, InWalk, InHandler, References,
       ReferredAlive
  <2>7. MethodLinked'
    BY <1>0, <1>14, SessionLifetimeAssumption
    DEF DropLinked, SessionLifetimeAssumption, TypeOK, Goto, linkVars,
       bookVars, SameThread, Unshared, MethodLinked, Apart, Walked, Closing,
       References, CalledKept, Refers, HandlerPrivate, Private, Control,
       InMethod
  <2>8. Unlisted'
    BY <1>0, <1>14, SessionLifetimeAssumption
    DEF DropLinked, SessionLifetimeAssumption, TypeOK, Goto, linkVars,
       bookVars, SameThread, Unshared, Unlisted, Apart, LinkOf, Erased,
       Walked, Control
  <2>9. ClosingWalks'
    BY <1>0, <1>14, SessionLifetimeAssumption
    DEF DropLinked, SessionLifetimeAssumption, TypeOK, Goto, linkVars,
       bookVars, SameThread, Unshared, ClosingWalks, Linked, Closing, Listed,
       Control, Walked, Quiescent
  <2> QED BY <2>1, <2>2, <2>3, <2>4, <2>5, <2>6, <2>7, <2>8, <2>9 DEF Unshared
<1>15. ASSUME Unlock(s) PROVE Unshared'
  BY <1>0, <1>15, SessionLifetimeAssumption
  DEF Unlock, SessionLifetimeAssumption, TypeOK, Goto, linkVars, bookVars,
     SameThread, Unshared, Listed, Linked, NewLinked, ReadFresh, Walked,
     MethodLinked, Unlisted, ClosingWalks, UseOrder, UseServer, Closing,
     Apart, Control
<1>16. ASSUME Return(s) PROVE Unshared'
  <2>1. ~misused'
    BY <1>0, <1>16, SessionLifetimeAssumption
    DEF Return, SessionLifetimeAssumption, TypeOK, Goto, linkVars, bookVars,
       SameThread, Unshared, UseOrder, UseServer, Linked, Walked,
       MethodLinked, Control, References, ReferredAlive, CalledKept, Refers,
       DyingAlone, Dying
  <2>2. Listed'
    BY <1>0, <1>16, SessionLifetimeAssumption
    DEF Return, SessionLifetimeAssumption, TypeOK, Goto, linkVars, bookVars,
       SameThread, Unshared, Listed, NewLinked, ReadFresh, Walked, Unlisted,
       MethodLinked, LinkOf, Erased, Control, Dying, References, ReferredAlive
  <2>3. Linked'
    BY <1>0, <1>16, SessionLifetimeAssumption
    DEF Return, SessionLifetimeAssumption, TypeOK, Goto, linkVars, bookVars,
       SameThread, Unshared, Listed, Linked, NewLinked, ReadFresh, Walked,
       ClosingWalks, Closing, MethodLinked, LinkOf, Erased, Control
  <2>4. NewLinked'
    BY <1>0, <1>16, SessionLifetimeAssumption
    DEF Return, SessionLifetimeAssumption, TypeOK, Goto, linkVars, bookVars,
       SameThread, Unshared, NewLinked, Walked, Control, InHandler
  <2>5. ReadFresh'
    BY <1>0, <1>16, SessionLifetimeAssumption
    DEF Return, SessionLifetimeAssumption, TypeOK, Goto, linkVars, bookVars,
       SameThread, Unshared, ReadFresh, Apart, LinkOf, Erased, Walked,
       MethodLinked, Control
  <2>6. Walked'
    BY <1>0, <1>16, SessionLifetimeAssumption
    DEF Return, SessionLifetimeAssumption, TypeOK, Goto, linkVars, bookVars,
       SameThread, Unshared, Walked, Listed, NewLinked, Apart, MethodLinked,
       Control, Dying, InWalk, InHandler, References, ReferredAlive
  <2>7. MethodLinked'
    BY <1>0, <1>16, SessionLifetimeAssumption
    DEF Return, SessionLifetimeAssumption, TypeOK, Goto, linkVars, bookVars,
       SameThread, Unshared, MethodLinked, Apart, Walked, Closing,
       References, CalledKept, Refers, HandlerPrivate, Private, Control,
       InMethod
  <2>8. Unlisted'
    BY <1>0, <1>16, SessionLifetimeAssumption
    DEF Return, SessionLifetimeAssumption, TypeOK, Goto, linkVars, bookVars,
       SameThread, Unshared, Unlisted, Apart, LinkOf, Erased, Walked, Control
  <2>9. ClosingWalks'
    BY <1>0, <1>16, SessionLifetimeAssumption
    DEF Return, SessionLifetimeAssumption, TypeOK, Goto, linkVars, bookVars,
       SameThread, Unshared, ClosingWalks, Linked, Closing, Listed, Control,
       Walked, Quiescent, InWalk
  <2> QED BY <2>1, <2>2, <2>3, <2>4, <2>5, <2>6, <2>7, <2>8, <2>9 DEF Unshared
<1>17. ASSUME Returned(s) PROVE Unshared'
  BY <1>0, <1>17, SessionLifetimeAssumption
  DEF Returned, SessionLifetimeAssumption, TypeOK, Goto, linkVars, bookVars,
     SameThread, Unshared, Listed, Linked, NewLinked, ReadFresh, Walked,
     MethodLinked, Unlisted, ClosingWalks, UseOrder, UseServer, Closing,
     Apart, Control
<1>18. ASSUME NEW o \in Orders, WalkUnlinked(s, o) PROVE Unshared'
  BY <1>0, <1>18, SessionLifetimeAssumption
  DEF WalkUnlinked, SessionLifetimeAssumption, TypeOK, Goto, linkVars,
     bookVars, SameThread, Unshared, Listed, Linked, NewLinked, ReadFresh,
     Walked, MethodLinked, Unlisted, ClosingWalks, UseOrder, UseServer,
     Closing, Apart, Control
<1>19. ASSUME NEW o \in Orders, WalkLinked(s, o) PROVE Unshared'
  BY <1>0, <1>19, SessionLifetimeAssumption
  DEF WalkLinked, SessionLifetimeAssumption, TypeOK, Goto, linkVars,
     bookVars, SameThread, Unshared, Listed, Linked, NewLinked, ReadFresh,
     Walked, MethodLinked, Unlisted, ClosingWalks, UseOrder, UseServer,
     Closing, Apart, Control
<1>20. ASSUME Unsubscribe(s) PROVE Unshared'
  <2>1. ~misused'
    <3>1. at[s] = "erasing" /\ UseServer(about[s]) /\ about[s] \in Orders
      BY <1>0, <1>20 DEF Unsubscribe, Control, InMethod
    <3>2. server[about[s]] \in Sessions /\ server[about[s]] # None
      BY <3>1, SessionLifetimeAssumption
      DEF Unshared, MethodLinked, SessionLifetimeAssumption
    <3>3. life[about[s]] = "alive"
      BY <1>0, <3>1
         DEF Control, Unshared, Walked, References, DyingAlone, Dying
    <3>4. at[server[about[s]]] # "gone"
      BY <3>1, <3>2, <3>3 DEF Unshared, Linked
    <3> QED
      BY <3>1, <3>2, <3>3, <3>4 DEF UseServer, Unshared
  <2>2. Listed'
    BY <1>0, <1>20, SessionLifetimeAssumption
    DEF Unsubscribe, SessionLifetimeAssumption, TypeOK, Goto, linkVars,
       bookVars, SameThread, Unshared, Listed, NewLinked, ReadFresh, Walked,
       Unlisted, MethodLinked, LinkOf, Erased, Control, Dying, References,
       ReferredAlive
  <2>3. Linked'
    BY <1>0, <1>20, SessionLifetimeAssumption
    DEF Unsubscribe, SessionLifetimeAssumption, TypeOK, Goto, linkVars,
       bookVars, SameThread, Unshared, Listed, Linked, NewLinked, ReadFresh,
       Walked, ClosingWalks, Closing, MethodLinked, LinkOf, Erased, Control
  <2>4. NewLinked'
    BY <1>0, <1>20, SessionLifetimeAssumption
    DEF Unsubscribe, SessionLifetimeAssumption, TypeOK, Goto, linkVars,
       bookVars, SameThread, Unshared, NewLinked, Walked, Control, InHandler
  <2>5. ReadFresh'
    <3>1. /\ at[s] = "erasing" /\ server[about[s]] \in Sessions
          /\ server[about[s]] # None
          /\ at' = [at EXCEPT ![s] = "erased"]
          /\ UNCHANGED <<server, subscribed, about>>
          /\ read' = [read EXCEPT ![s] = UNION {subscribed[x] : x \in LinkOf(about[s])}]
      BY <1>20, SessionLifetimeAssumption
      DEF Unsubscribe, Goto, linkVars, Unshared, MethodLinked,
          SessionLifetimeAssumption
    <3>2. LinkOf(about[s]) = {server[about[s]]}
      BY <3>1 DEF LinkOf
    <3>3. read' = [read EXCEPT ![s] = subscribed[server[about[s]]]]
      BY <3>1, <3>2
    <3>4. ASSUME NEW u \in Sessions
          PROVE  at'[u] = "appending" => read'[u] = subscribed'[u]
      BY <1>0, <3>1 DEF TypeOK, SameThread, Unshared, ReadFresh
    <3>5. ASSUME NEW u \in Sessions, at'[u] = "erased"
          PROVE  read'[u] = subscribed'[server'[about'[u]]]
      <4>1. CASE u = s
        BY <1>0, <3>1, <3>3, <4>1 DEF TypeOK
      <4>2. CASE u # s
        BY <1>0, <3>1, <3>5, <4>2 DEF TypeOK, SameThread, Unshared, ReadFresh
      <4> QED BY <4>1, <4>2
    <3> QED
      BY <3>4, <3>5 DEF ReadFresh
  <2>6. Walked'
    BY <1>0, <1>20, SessionLifetimeAssumption
    DEF Unsubscribe, SessionLifetimeAssumption, TypeOK, Goto, linkVars,
       bookVars, SameThread, Unshared, Walked, Listed, NewLinked, Apart,
       MethodLinked, Control, Dying, InWalk, InHandler, References,
       ReferredAlive
  <2>7. MethodLinked'
    BY <1>0, <1>20, SessionLifetimeAssumption
    DEF Unsubscribe, SessionLifetimeAssumption, TypeOK, Goto, linkVars,
       bookVars, SameThread, Unshared, MethodLinked, Apart, Walked, Closing,
       References, CalledKept, Refers, HandlerPrivate, Private, Control,
       InMethod
  <2>8. Unlisted'
    BY <1>0, <1>20, SessionLifetimeAssumption
    DEF Unsubscribe, SessionLifetimeAssumption, TypeOK, Goto, linkVars,
       bookVars, SameThread, Unshared, Unlisted, Apart, LinkOf, Erased,
       Walked, Control
  <2>9. ClosingWalks'
    BY <1>0, <1>20, SessionLifetimeAssumption
    DEF Unsubscribe, SessionLifetimeAssumption, TypeOK, Goto, linkVars,
       bookVars, SameThread, Unshared, ClosingWalks, Linked, Closing, Listed,
       Control, Walked, Quiescent
  <2> QED BY <2>1, <2>2, <2>3, <2>4, <2>5, <2>6, <2>7, <2>8, <2>9 DEF Unshared
<1>21. ASSUME EraseDestroyed(s) PROVE Unshared'
  <2>1. ~misused'
    BY <1>0, <1>21, SessionLifetimeAssumption
    DEF EraseDestroyed, SessionLifetimeAssumption, TypeOK, Goto, linkVars,
       bookVars, SameThread, Unshared, UseOrder, UseServer, Linked, Walked,
       MethodLinked, Control, References, ReferredAlive, CalledKept, Refers,
       DyingAlone, Dying
  <2>2. Listed'
    BY <1>0, <1>21, SessionLifetimeAssumption
    DEF EraseDestroyed, SessionLifetimeAssumption, TypeOK, Goto, linkVars,
       bookVars, SameThread, Unshared, Listed, NewLinked, ReadFresh, Walked,
       Unlisted, MethodLinked, LinkOf, Erased, Control, Dying, References,
       ReferredAlive
  <2>3. Linked'
    BY <1>0, <1>21, SessionLifetimeAssumption
    DEF EraseDestroyed, SessionLifetimeAssumption, TypeOK, Goto, linkVars,
       bookVars, SameThread, Unshared, Listed, Linked, NewLinked, ReadFresh,
       Walked, ClosingWalks, Closing, MethodLinked, LinkOf, Erased, Control
  <2>4. NewLinked'
    BY <1>0, <1>21, SessionLifetimeAssumption
    DEF EraseDestroyed, SessionLifetimeAssumption, TypeOK, Goto, linkVars,
       bookVars, SameThread, Unshared, NewLinked, Walked, Control, InHandler
  <2>5. ReadFresh'
    BY <1>0, <1>21, SessionLifetimeAssumption
    DEF EraseDestroyed, SessionLifetimeAssumption, TypeOK, Goto, linkVars,
       bookVars, SameThread, Unshared, ReadFresh, Apart, LinkOf, Erased,
       Walked, MethodLinked, Control
  <2>6. Walked'
    BY <1>0, <1>21, SessionLifetimeAssumption
    DEF EraseDestroyed, SessionLifetimeAssumption, TypeOK, Goto, linkVars,
       bookVars, SameThread, Unshared, Walked, Listed, NewLinked, Apart,
       MethodLinked, Control, Dying, InWalk, InHandler, References,
       ReferredAlive
  <2>7. MethodLinked'
    BY <1>0, <1>21, SessionLifetimeAssumption
    DEF EraseDestroyed, SessionLifetimeAssumption, TypeOK, Goto, linkVars,
       bookVars, SameThread, Unshared, MethodLinked, Apart, Walked, Closing,
       References, CalledKept, Refers, HandlerPrivate, Private, Control,
       InMethod
  <2>8. Unlisted'
    BY <1>0, <1>21, SessionLifetimeAssumption
    DEF EraseDestroyed, SessionLifetimeAssumption, TypeOK, Goto, linkVars,
       bookVars, SameThread, Unshared, Unlisted, Apart, LinkOf, Erased,
       Walked, Control
  <2>9. ClosingWalks'
    BY <1>0, <1>21, SessionLifetimeAssumption
    DEF EraseDestroyed, SessionLifetimeAssumption, TypeOK, Goto, linkVars,
       bookVars, SameThread, Unshared, ClosingWalks, Linked, Closing, Listed,
       Control, Walked, Quiescent
  <2> QED BY <2>1, <2>2, <2>3, <2>4, <2>5, <2>6, <2>7, <2>8, <2>9 DEF Unshared
<1>22. ASSUME EraseUnlinked(s) PROVE Unshared'
  <2>1. ~misused'
    BY <1>0, <1>22, SessionLifetimeAssumption
    DEF EraseUnlinked, SessionLifetimeAssumption, TypeOK, Goto, linkVars,
       bookVars, SameThread, Unshared, UseOrder, UseServer, Linked, Walked,
       MethodLinked, Control, References, ReferredAlive, CalledKept, Refers,
       DyingAlone, Dying
  <2>2. Listed'
    BY <1>0, <1>22, SessionLifetimeAssumption
    DEF EraseUnlinked, SessionLifetimeAssumption, TypeOK, Goto, linkVars,
       bookVars, SameThread, Unshared, Listed, NewLinked, ReadFresh, Walked,
       Unlisted, MethodLinked, LinkOf, Erased, Control, Dying, References,
       ReferredAlive
  <2>3. Linked'
    BY <1>0, <1>22, SessionLifetimeAssumption
    DEF EraseUnlinked, SessionLifetimeAssumption, TypeOK, Goto, linkVars,
       bookVars, SameThread, Unshared, Listed, Linked, NewLinked, ReadFresh,
       Walked, ClosingWalks, Closing, MethodLinked, LinkOf, Erased, Control
  <2>4. NewLinked'
    BY <1>0, <1>22, SessionLifetimeAssumption
    DEF EraseUnlinked, SessionLifetimeAssumption, TypeOK, Goto, linkVars,
       bookVars, SameThread, Unshared, NewLinked, Walked, Control, InHandler
  <2>5. ReadFresh'
    BY <1>0, <1>22, SessionLifetimeAssumption
    DEF EraseUnlinked, SessionLifetimeAssumption, TypeOK, Goto, linkVars,
       bookVars, SameThread, Unshared, ReadFresh, Apart, LinkOf, Erased,
       Walked, MethodLinked, Control
  <2>6. Walked'
    BY <1>0, <1>22, SessionLifetimeAssumption
    DEF EraseUnlinked, SessionLifetimeAssumption, TypeOK, Goto, linkVars,
       bookVars, SameThread, Unshared, Walked, Listed, NewLinked, Apart,
       MethodLinked, Control, Dying, InWalk, InHandler, References,
       ReferredAlive
  <2>7. MethodLinked'
    BY <1>0, <1>22, SessionLifetimeAssumption
    DEF EraseUnlinked, SessionLifetimeAssumption, TypeOK, Goto, linkVars,
       bookVars, SameThread, Unshared, MethodLinked, Apart, Walked, Closing,
       References, CalledKept, Refers, HandlerPrivate, Private, Control,
       InMethod
  <2>8. Unlisted'
    BY <1>0, <1>22, SessionLifetimeAssumption
    DEF EraseUnlinked, SessionLifetimeAssumption, TypeOK, Goto, linkVars,
       bookVars, SameThread, Unshared, Unlisted, Apart, LinkOf, Erased,
       Walked, Control
  <2>9. ClosingWalks'
    BY <1>0, <1>22, SessionLifetimeAssumption
    DEF EraseUnlinked, SessionLifetimeAssumption, TypeOK, Goto, linkVars,
       bookVars, SameThread, Unshared, ClosingWalks, Linked, Closing, Listed,
       Control, Walked, Quiescent
  <2> QED BY <2>1, <2>2, <2>3, <2>4, <2>5, <2>6, <2>7, <2>8, <2>9 DEF Unshared
<1>23. ASSUME Assign(s) PROVE Unshared'
  <2>1. ~misused'
    BY <1>0, <1>23, SessionLifetimeAssumption
    DEF Assign, SessionLifetimeAssumption, TypeOK, Goto, linkVars, bookVars,
       SameThread, Unshared, UseOrder, UseServer, Linked, Walked,
       MethodLinked, Control, References, ReferredAlive, CalledKept, Refers,
       DyingAlone, Dying
  <2>2. Listed'
    BY <1>0, <1>23, SessionLifetimeAssumption
    DEF Assign, SessionLifetimeAssumption, TypeOK, Goto, linkVars, bookVars,
       SameThread, Unshared, Listed, NewLinked, ReadFresh, Walked, Unlisted,
       MethodLinked, LinkOf, Erased, Control, Dying, References, ReferredAlive
  <2>3. Linked'
    BY <1>0, <1>23, SessionLifetimeAssumption
    DEF Assign, SessionLifetimeAssumption, TypeOK, Goto, linkVars, bookVars,
       SameThread, Unshared, Listed, Linked, NewLinked, ReadFresh, Walked,
       ClosingWalks, Closing, MethodLinked, LinkOf, Erased, Control
  <2>4. NewLinked'
    BY <1>0, <1>23, SessionLifetimeAssumption
    DEF Assign, SessionLifetimeAssumption, TypeOK, Goto, linkVars, bookVars,
       SameThread, Unshared, NewLinked, Walked, Control, InHandler
  <2>5. ReadFresh'
    BY <1>0, <1>23, SessionLifetimeAssumption
    DEF Assign, SessionLifetimeAssumption, TypeOK, Goto, linkVars, bookVars,
       SameThread, Unshared, ReadFresh, Apart, LinkOf, Erased, Walked,
       MethodLinked, Control
  <2>6. Walked'
    BY <1>0, <1>23, SessionLifetimeAssumption
    DEF Assign, SessionLifetimeAssumption, TypeOK, Goto, linkVars, bookVars,
       SameThread, Unshared, Walked, Listed, NewLinked, Apart, MethodLinked,
       Control, Dying, InWalk, InHandler, References, ReferredAlive
  <2>7. MethodLinked'
    <3> SUFFICES ASSUME NEW u \in Sessions,
                        at'[u] \in {"stamping", "sending", "erasing", "erased"}
                 PROVE  server'[about'[u]] \in Sessions
      BY DEF MethodLinked
    <3>1. /\ at[s] = "assigning" /\ about[s] \in walk[s] /\ about[s] \in Orders
          /\ server[about[s]] = s
          /\ server' = [server EXCEPT ![about[s]] = None]
          /\ at' = [at EXCEPT ![s] = "walking"] /\ about' = [about EXCEPT ![s] = None]
      BY <1>0, <1>23 DEF Assign, Goto, Control, InMethod, Unshared, Walked
    <3>2. /\ u # s /\ at'[u] = at[u] /\ about'[u] = about[u]
          /\ about[u] \in Orders /\ server[about[u]] \in Sessions
      BY <1>0, <3>1
         DEF TypeOK, SameThread, Unshared, MethodLinked, Control, InMethod
    <3>3. CASE about[u] = about[s]
      <4>1. at[u] \notin {"erasing", "erased"}
        BY <3>1, <3>2, <3>3 DEF Apart
      <4>2. ord[s] # None
        BY <3>1, <3>2, <3>3, <4>1 DEF Apart, Closing
      <4>3. about[u] = ord[s] /\ Private(ord[s])
        BY <1>0, <3>1, <3>3, <4>2 DEF Control, References, HandlerPrivate
      <4>4. Refers(u, about[u])
        BY <1>0, <3>2, <4>1 DEF References, CalledKept
      <4> QED
        BY <4>3, <4>4 DEF Refers, Private
    <3>4. CASE about[u] # about[s]
      BY <1>0, <3>1, <3>2, <3>4 DEF TypeOK
    <3> QED BY <3>3, <3>4
  <2>8. Unlisted'
    BY <1>0, <1>23, SessionLifetimeAssumption
    DEF Assign, SessionLifetimeAssumption, TypeOK, Goto, linkVars, bookVars,
       SameThread, Unshared, Unlisted, Apart, LinkOf, Erased, Walked, Control
  <2>9. ClosingWalks'
    BY <1>0, <1>23, SessionLifetimeAssumption
    DEF Assign, SessionLifetimeAssumption, TypeOK, Goto, linkVars, bookVars,
       SameThread, Unshared, ClosingWalks, Linked, Closing, Listed, Control,
       Walked, Quiescent
  <2> QED BY <2>1, <2>2, <2>3, <2>4, <2>5, <2>6, <2>7, <2>8, <2>9 DEF Unshared
<1>24. ASSUME RefusedReturns(s) PROVE Unshared'
  BY <1>0, <1>24, SessionLifetimeAssumption
  DEF RefusedReturns, SessionLifetimeAssumption, TypeOK, Goto, linkVars,
     bookVars, SameThread, Unshared, Listed, Linked, NewLinked, ReadFresh,
     Walked, MethodLinked, Unlisted, ClosingWalks, UseOrder, UseServer,
     Closing, Apart, Control
<1>25. ASSUME SessionGone(s) PROVE Unshared'
  BY <1>0, <1>25, SessionLifetimeAssumption
  DEF SessionGone, SessionLifetimeAssumption, TypeOK, Goto, linkVars,
     bookVars, SameThread, Unshared, Listed, Linked, NewLinked, ReadFresh,
     Walked, MethodLinked, Unlisted, ClosingWalks, UseOrder, UseServer,
     Closing, Apart, Control
<1> QED
  BY <1>1, <1>2, <1>3, <1>4, <1>5, <1>6, <1>7, <1>8, <1>9, <1>10, <1>11,
     <1>12, <1>13, <1>14, <1>15, <1>16, <1>17, <1>18, <1>19, <1>20, <1>21,
     <1>22, <1>23, <1>24, <1>25 DEF Moves, Step

-----------------------------------------------------------------------------
LEMMA LinkInit == Init => LinkInv
<1> SUFFICES ASSUME Init PROVE LinkInv
  OBVIOUS
<1>1. ~Overlap
  BY DEF Init, Overlap, Changing, Sending, Closing
<1>2. Unshared
  BY SessionLifetimeAssumption
  DEF SessionLifetimeAssumption, Init, Unshared, Listed, Linked, NewLinked,
      ReadFresh, Walked, MethodLinked, Unlisted, ClosingWalks
<1> QED
  BY <1>1, <1>2, RefInit DEF LinkInv

LEMMA LinkStep == LinkInv /\ [Next]_vars => LinkInv'
<1> SUFFICES ASSUME LinkInv, [Next]_vars PROVE LinkInv'
  OBVIOUS
<1>1. RefInv /\ RefInv'
  BY RefStep DEF LinkInv
<1>2. CASE Next
  <2>1. PICK s \in Sessions : Moves(s)
    BY <1>2, EachMoves
  <2>2. overlapped' = (overlapped \/ Overlap')
    BY <2>1, EachWatches DEF Watch
  <2>3. ASSUME ~overlapped' PROVE Unshared'
    <3>1. Apart /\ Apart' /\ Unshared
      <4>1. ~overlapped /\ ~Overlap'
        BY <2>2, <2>3
      <4>2. ~Overlap /\ Unshared
        BY <4>1 DEF LinkInv
      <4> QED
        BY <4>1, <4>2, NoOverlap, PTL
    <3> QED
      BY <1>1, <2>1, <3>1, UnsharedStep
  <2> QED
    BY <1>1, <2>2, <2>3 DEF LinkInv
<1>3. CASE UNCHANGED vars
  <2>1. Overlap' = Overlap /\ overlapped' = overlapped
    BY <1>3
       DEF vars, linkVars, bookVars, threadVars, Overlap, Changing, Sending,
                Closing, LinkOf
  <2>2. Unshared => Unshared'
    BY <1>3
    DEF vars, linkVars, bookVars, threadVars, Unshared, Listed, Linked,
       NewLinked,
        ReadFresh, Walked, MethodLinked, Unlisted, ClosingWalks, Closing
  <2> QED
    BY <1>1, <2>1, <2>2 DEF LinkInv
<1> QED
  BY <1>2, <1>3

(* Every variable has its type.                                            *)
THEOREM TypeCorrect == Spec => []TypeOK
<1>1. RefInv => TypeOK
  BY DEF RefInv
<1> QED
  BY <1>1, RefInit, RefStep, PTL DEF Spec

(* As long as no two threads work on one session's links at once, nobody   *)
(* uses an order or a session that was destroyed, or a null server_.       *)
THEOREM NothingMisused == Spec => []MisusedAfterOverlap
<1>1. LinkInv => MisusedAfterOverlap
  BY DEF LinkInv, Unshared, MisusedAfterOverlap
<1> QED
  BY <1>1, LinkInit, LinkStep, PTL DEF Spec

(* As long as no two threads overlap, orders and sessions list each other. *)
THEOREM LinksAlwaysAgree == Spec => []LinksAgree
<1>1. LinkInv => LinksAgree
  BY DEF LinkInv, Unshared, Listed, Linked, LinksAgree
<1> QED
  BY <1>1, LinkInit, LinkStep, PTL DEF Spec

-----------------------------------------------------------------------------
(* The promise of SessionLinks.                                            *)

LEMMA LinksInit == Init => Links!Init
  BY DEF Init, Links!Init

LEMMA LinksStep ==
  ASSUME LinkInv, NEW s \in Sessions, Moves(s), ~overlapped'
  PROVE  Links!Next \/ UNCHANGED Links!vars
<1> DEFINE open == {x \in Sessions : at[x] # "gone"}
           linked == [o \in Orders |-> IF life[o] = "alive" THEN server[o] ELSE None]
<1>0. /\ TypeOK /\ Unshared /\ Control(s)
      /\ References
  <2>1. ~overlapped
    BY EachWatches DEF Watch
  <2> QED
    BY <2>1 DEF LinkInv, RefInv
<1> USE SessionLifetimeAssumption DEF SessionLifetimeAssumption
<1>1. ASSUME NEW o \in Orders, NewOrderSingle(s, o) PROVE Links!Next
  <2>1. /\ life[o] = "unborn" /\ life' = [life EXCEPT ![o] = "alive"]
        /\ server' = [server EXCEPT ![o] = s]
        /\ at' = [at EXCEPT ![s] = "subscribing"] /\ at[s] = "idle"
    BY <1>1 DEF NewOrderSingle, Goto
  <2>2. s \in open /\ open' = open
    BY <1>0, <2>1 DEF TypeOK
  <2>3. linked' = [linked EXCEPT ![o] = s]
    BY <1>0, <2>1 DEF TypeOK
  <2>4. Links!Link(o, s)
    BY <2>1, <2>2, <2>3 DEF Links!Link
  <2> QED
    BY <2>4 DEF Links!Next
<1>2. ASSUME NEW o \in Orders, DropUnlinked(s, o) PROVE Links!Next
  <2>1. /\ life[o] = "alive" /\ life' = [life EXCEPT ![o] = "destroyed"]
        /\ server' = server /\ at' = at
    BY <1>0, <1>2 DEF DropUnlinked, References, ReferredAlive
  <2>2. linked' = [linked EXCEPT ![o] = None] /\ open' = open
    BY <1>0, <2>1 DEF TypeOK
  <2>3. Links!Destroy(o)
    BY <2>1, <2>2 DEF Links!Destroy
  <2> QED
    BY <2>3 DEF Links!Next
<1>3. ASSUME EraseDestroyed(s) PROVE Links!Next
  <2>1. /\ about[s] \in Orders /\ life[about[s]] = "alive"
        /\ life' = [life EXCEPT ![about[s]] = "destroyed"]
        /\ server' = server
        /\ at' = [at EXCEPT ![s] = "dropping"] /\ at[s] = "erased"
    BY <1>0, <1>3
    DEF EraseDestroyed, Goto, References, DyingAlone, Dying, Control, InMethod
  <2>2. linked' = [linked EXCEPT ![about[s]] = None] /\ open' = open
    BY <1>0, <2>1 DEF TypeOK
  <2>3. PICK o \in Orders : o = about[s]
    BY <2>1
  <2>4. Links!Destroy(o)
    BY <2>1, <2>2, <2>3 DEF Links!Destroy
  <2> QED
    BY <2>4 DEF Links!Next
<1>4. ASSUME Assign(s) PROVE Links!Next
  <2>1. /\ about[s] \in Orders /\ life[about[s]] = "alive"
        /\ life' = life
        /\ server' = [server EXCEPT ![about[s]] = None]
        /\ at' = [at EXCEPT ![s] = "walking"] /\ at[s] = "assigning"
    BY <1>0, <1>4 DEF Assign, Goto, Unshared, Walked, Control, InMethod
  <2>2. linked' = [linked EXCEPT ![about[s]] = None] /\ open' = open
    BY <1>0, <2>1 DEF TypeOK
  <2>3. PICK o \in Orders : o = about[s]
    BY <2>1
  <2>4. Links!Unlink(o)
    BY <2>1, <2>2, <2>3 DEF Links!Unlink
  <2> QED
    BY <2>4 DEF Links!Next
<1>5. ASSUME SessionGone(s) PROVE Links!Next
  <2>1. /\ at[s] = "walking" /\ walk[s] = {} /\ ord[s] = None
        /\ at' = [at EXCEPT ![s] = "gone"]
        /\ life' = life /\ server' = server
    BY <1>5 DEF SessionGone, Goto, linkVars
  <2>2. \A o \in Orders : linked[o] # s
    BY <1>0, <2>1 DEF Unshared, ClosingWalks, Closing
  <2>3. open' = open \ {s} /\ linked' = linked
    BY <1>0, <2>1 DEF TypeOK
  <2>4. Links!Close(s)
    BY <2>1, <2>2, <2>3 DEF Links!Close
  <2> QED
    BY <2>4 DEF Links!Next
<1>6. ASSUME life' = life, server' = server,
             \A u \in Sessions : at'[u] = "gone" <=> at[u] = "gone"
      PROVE  UNCHANGED Links!vars
  BY <1>6 DEF Links!vars
<1>7. ASSUME NEW o \in Orders,
             OnFilled(s, o) \/ DropShared(s, o) \/ DropLinked(s, o)
               \/ WalkUnlinked(s, o) \/ WalkLinked(s, o)
      PROVE  UNCHANGED Links!vars
  BY <1>0, <1>6, <1>7
  DEF OnFilled, DropShared, DropLinked, WalkUnlinked, WalkLinked, linkVars,
     Goto,
      TypeOK
<1>8. ASSUME NEW b \in Books, GetBook(s, b) \/ AddOrder(s, b)
      PROVE  UNCHANGED Links!vars
  BY <1>0, <1>6, <1>8 DEF GetBook, AddOrder, linkVars, Goto, TypeOK
<1>9. ASSUME \/ EndSession(s) \/ Subscribe(s) \/ AppendOrder(s) \/ AddRefused(s)
             \/ NextExecId(s) \/ Send(s) \/ Called(s) \/ Unlock(s) \/ Return(s)
             \/ Returned(s) \/ Unsubscribe(s) \/ EraseUnlinked(s)
             \/ RefusedReturns(s)
      PROVE  UNCHANGED Links!vars
  BY <1>0, <1>6, <1>9
  DEF EndSession, Subscribe, AppendOrder, AddRefused, NextExecId, Send, Called,
      Unlock, Return, Returned, Unsubscribe, EraseUnlinked, RefusedReturns,
      linkVars, Goto, TypeOK
<1> QED
  BY <1>1, <1>2, <1>3, <1>4, <1>5, <1>7, <1>8, <1>9 DEF Moves, Step

(* Until threads overlap, SessionLifetime implements SessionLinks: no      *)
(* session is destroyed while an order is linked to it.                    *)
THEOREM LinksKept == Spec => KeepsLinks
<1>1. LinkInv /\ [Next]_vars => [Links!Next \/ overlapped']_(Links!vars)
  <2> SUFFICES ASSUME LinkInv, [Next]_vars, ~overlapped'
               PROVE  Links!Next \/ UNCHANGED Links!vars
    OBVIOUS
  <2>1. CASE Next
    BY <2>1, EachMoves, LinksStep
  <2>2. CASE UNCHANGED vars
    BY <2>2 DEF vars, linkVars, threadVars, Links!vars
  <2> QED
    BY <2>1, <2>2
<1> QED
  BY <1>1, LinkInit, LinkStep, LinksInit, PTL DEF Spec, KeepsLinks
=============================================================================
