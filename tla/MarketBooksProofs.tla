-------------------------- MODULE MarketBooksProofs --------------------------
(***************************************************************************)
(* Theorems about MarketBooks, for any number of threads, symbols and      *)
(* orders.                                                                 *)
(***************************************************************************)
EXTENDS MarketBooks, TLAPS

(* What holds of a thread inside the market: it knows its symbol, it has   *)
(* books_mutex_ while it creates a book, the book it is about to link is   *)
(* not there yet, and the one whose listeners it sets has some to go.      *)
Creating(t) ==
  /\ pc[t] # "idle" => sym[t] \in Symbols /\ op[t] # "none"
  /\ op[t] \in {"add_order", "unlocked"} => ord[t] \in Orders
  /\ pc[t] \in {"link", "wire"} => booksMutex = t
  /\ pc[t] = "link" => sym[t] \notin books
  /\ pc[t] = "wire" => sym[t] \in books /\ wired[sym[t]] < AllListeners

(* The two flags and the two histories of calls.                           *)
FlagsOK ==
  /\ asNeeded \in BOOLEAN /\ raced \in BOOLEAN
  /\ early \subseteq Orders /\ unmade \subseteq early

(* The inductive invariant behind TypeOK and CreatedOnce.                  *)
CreationInv ==
  /\ TypeOK
  /\ \A t \in Threads : Creating(t)
  /\ \A s \in Symbols : s \notin books => wired[s] = 0

LEMMA FlagsInit == Init => FlagsOK
  BY Zenon DEF Init, FlagsOK

LEMMA EachStepWatches ==
  ASSUME NEW t \in Threads, Call(t) \/ Step(t)
  PROVE  Watch
<1>1. ASSUME Call(t) PROVE Watch
  BY <1>1 DEF Call, CallAddOrder, CallAddBook, CallUnlocked, Begin
<1>2. BookFound(t) => Watch
  BY DEF BookFound, Return, Goto
<1>3. ASSUME NEW m, HaveMutex(t, m) PROVE Watch
  BY <1>2, <1>3 DEF HaveMutex, Goto
<1>4. ASSUME Step(t) PROVE Watch
  BY <1>2, <1>3, <1>4
  DEF Step, GetBookFound, GetBookMissing, AddBookFound, AddBookMissing,
      CreateBook, ThrowUnrecognized, ReturnRefused, TryAgainFound, TryAgainMissing, LinkBook, SetListener,
      MutexFound, MutexMissing, LinkMutex, LockBook, AddToBook, LeaveUnlocked,
      Goto, Return
<1> QED
  BY <1>1, <1>4

LEMMA EachStepAsks ==
  ASSUME FlagsOK, NEW t \in Threads, Call(t) \/ Step(t)
  PROVE  early' \subseteq Orders /\ unmade' \subseteq early'
<1> DEFINE Asks == early' \subseteq Orders /\ unmade' \subseteq early'
<1>1. UNCHANGED askedVars => Asks
  BY DEF FlagsOK, askedVars
<1>2. Return(t) => Asks
  BY DEF FlagsOK, Return
<1>3. ASSUME NEW o \in Orders, CallAddOrder(t, o) PROVE Asks
  BY <1>3 DEF FlagsOK, CallAddOrder
<1>4. Call(t) => Asks
  BY <1>1, <1>3 DEF Call, CallAddBook, CallUnlocked
<1>5. ASSUME NEW l, Goto(t, l) PROVE Asks
  BY <1>1, <1>5 DEF Goto, askedVars
<1>6. BookFound(t) => Asks
  BY <1>2, <1>5 DEF BookFound
<1>7. ASSUME NEW m, HaveMutex(t, m) PROVE Asks
  BY <1>5, <1>6, <1>7 DEF HaveMutex
<1>8. Step(t) => Asks
  BY <1>2, <1>5, <1>6, <1>7
  DEF Step, GetBookFound, GetBookMissing, AddBookFound, AddBookMissing,
      CreateBook, ThrowUnrecognized, ReturnRefused, TryAgainFound,
      TryAgainMissing, LinkBook, SetListener, MutexFound, MutexMissing,
      LinkMutex, LockBook, AddToBook, LeaveUnlocked
<1> QED
  BY <1>4, <1>8

LEMMA FlagsStep == FlagsOK /\ [Next]_vars => FlagsOK'
<1>1. ASSUME FlagsOK, NEW t \in Threads, Call(t) \/ Step(t) PROVE FlagsOK'
  <2>1. Watch
    BY <1>1, EachStepWatches
  <2>2. (asNeeded \in BOOLEAN)' /\ (raced \in BOOLEAN)'
    BY <1>1, <2>1, Zenon DEF FlagsOK, Watch
  <2> QED
    BY <1>1, <2>2, EachStepAsks DEF FlagsOK
<1>2. ASSUME FlagsOK, NEW in \in BOOLEAN, SetAddBooksAsNeeded(in)
      PROVE  FlagsOK'
  <2>1. (asNeeded \in BOOLEAN)' /\ (raced \in BOOLEAN)'
    BY <1>2, Zenon DEF FlagsOK, SetAddBooksAsNeeded
  <2>2. early' \subseteq Orders /\ unmade' \subseteq early'
    BY <1>2 DEF FlagsOK, SetAddBooksAsNeeded
  <2> QED
    BY <2>1, <2>2 DEF FlagsOK
<1>3. ASSUME FlagsOK, UNCHANGED vars PROVE FlagsOK'
  BY <1>3 DEF FlagsOK, vars, callVars, askedVars
<1> QED
  BY <1>1, <1>2, <1>3 DEF Next

LEMMA CreationInit == Init => CreationInv
  BY MarketBooksAssumption, FlagsInit
  DEF Init, CreationInv, TypeOK, FlagsOK, Creating, Locations, AllListeners

(* A thread that has found its book touches no map and no mutex.           *)
LEMMA BookFoundKeeps ==
  ASSUME CreationInv, FlagsOK', NEW t \in Threads, pc[t] # "idle", pc[t] # "wire",
         pc[t] # "link", BookFound(t),
         UNCHANGED <<bookVars, mutexVars, orderVars>>
  PROVE  CreationInv'
  BY MarketBooksAssumption
  DEF CreationInv, TypeOK, Creating, Locations, AllListeners, BookFound,
     Return,
      Goto, FlagsOK, bookVars, mutexVars, orderVars

LEMMA CreationStep == CreationInv /\ [Next]_vars => CreationInv'
<1> SUFFICES ASSUME CreationInv, [Next]_vars
             PROVE  CreationInv'
  OBVIOUS
<1>0. FlagsOK'
  BY FlagsStep DEF CreationInv, TypeOK, FlagsOK
<1> USE <1>0, MarketBooksAssumption DEF CreationInv, TypeOK, Creating, Locations,
      AllListeners, FlagsOK, bookVars, mutexVars, orderVars
<1>1. ASSUME NEW t \in Threads, NEW o \in Orders, CallAddOrder(t, o)
      PROVE  CreationInv'
  BY <1>1 DEF CallAddOrder, Begin
<1>2. ASSUME NEW t \in Threads, NEW o \in Orders, CallUnlocked(t, o)
      PROVE  CreationInv'
  BY <1>2 DEF CallUnlocked, Begin
<1>3. ASSUME NEW t \in Threads, NEW s \in Symbols, CallAddBook(t, s)
      PROVE  CreationInv'
  BY <1>3 DEF CallAddBook, Begin
<1>4. ASSUME NEW t \in Threads, GetBookFound(t) PROVE CreationInv'
  BY <1>4, BookFoundKeeps DEF GetBookFound
<1>5. ASSUME NEW t \in Threads, GetBookMissing(t) PROVE CreationInv'
  BY <1>5 DEF GetBookMissing, Goto
<1>6. ASSUME NEW t \in Threads, AddBookFound(t) PROVE CreationInv'
  BY <1>6, BookFoundKeeps DEF AddBookFound
<1>7. ASSUME NEW t \in Threads, CreateBook(t) \/ ThrowUnrecognized(t)
      PROVE  CreationInv'
  BY <1>7 DEF CreateBook, ThrowUnrecognized, Goto
<1>8. ASSUME NEW t \in Threads, AddBookMissing(t) PROVE CreationInv'
  BY <1>8 DEF AddBookMissing, Goto
<1>9. ASSUME NEW t \in Threads, TryAgainFound(t) PROVE CreationInv'
  BY <1>9, BookFoundKeeps DEF TryAgainFound
<1>10. ASSUME NEW t \in Threads, TryAgainMissing(t) PROVE CreationInv'
  BY <1>10 DEF TryAgainMissing, Goto
<1>11. ASSUME NEW t \in Threads, LinkBook(t) PROVE CreationInv'
  BY <1>11 DEF LinkBook, Goto
<1>12. ASSUME NEW t \in Threads, SetListener(t) PROVE CreationInv'
  BY <1>12 DEF SetListener, Goto
<1>13. ASSUME NEW t \in Threads, MutexFound(t) PROVE CreationInv'
  BY <1>13 DEF MutexFound, HaveMutex, BookFound, Return, Goto
<1>14. ASSUME NEW t \in Threads, MutexMissing(t) PROVE CreationInv'
  BY <1>14 DEF MutexMissing, Goto
<1>15. ASSUME NEW t \in Threads, LinkMutex(t) PROVE CreationInv'
  BY <1>15 DEF LinkMutex, HaveMutex, BookFound, Return, Goto
<1>16. ASSUME NEW t \in Threads, LockBook(t) PROVE CreationInv'
  BY <1>16 DEF LockBook, Goto
<1>17. ASSUME NEW t \in Threads, AddToBook(t) PROVE CreationInv'
  BY <1>17 DEF AddToBook, Return
<1>18. ASSUME NEW t \in Threads, LeaveUnlocked(t) PROVE CreationInv'
  BY <1>18 DEF LeaveUnlocked, Return
<1>19. ASSUME NEW in \in BOOLEAN, SetAddBooksAsNeeded(in) PROVE CreationInv'
  BY <1>19 DEF SetAddBooksAsNeeded
<1>21. ASSUME NEW t \in Threads, ReturnRefused(t) PROVE CreationInv'
  BY <1>21 DEF ReturnRefused, Return
<1>20. CASE UNCHANGED vars
  BY <1>20 DEF vars, callVars
<1> QED
  BY <1>1, <1>2, <1>3, <1>4, <1>5, <1>6, <1>7, <1>8, <1>9, <1>10, <1>11, <1>12,
     <1>13, <1>14, <1>15, <1>16, <1>17, <1>18, <1>19, <1>20, <1>21 DEF Next, Call, Step

(* Every variable of the book registry has its type and no book gets more  *)
(* than its three listeners, whatever the threads do and however their     *)
(* lookups race.                                                           *)
THEOREM TypeCorrect == Spec => []TypeOK
<1>1. CreationInv => TypeOK
  BY DEF CreationInv
<1> QED
  BY <1>1, CreationInit, CreationStep, PTL DEF Spec

(* The second find of add_book, under books_mutex_, is enough: a book is   *)
(* never created twice.                                                    *)
THEOREM BooksCreatedOnce == Spec => []CreatedOnce
<1>1. CreationInv => CreatedOnce
  BY DEF CreationInv, Creating, CreatedOnce
<1> QED
  BY <1>1, CreationInit, CreationStep, PTL DEF Spec

-----------------------------------------------------------------------------
(* The market as long as no calls have raced.                              *)

Ready(s) == Complete(s) /\ mutexOf[s] = 1

(* What a thread knows: the creator of a book has it to itself until its   *)
(* mutex is made; any other thread past the finds has a complete book, and *)
(* a reference to the one mutex of it.                                     *)
Working(t) ==
  /\ pc[t] = "idle" <=> op[t] = "none"
  /\ op[t] = "add_order" => /\ sym[t] = SymbolOf[ord[t]]
                            /\ result[ord[t]] # "true"
  /\ booksMutex = t =>
       /\ pc[t] \in {"link", "wire", "mutex_entry", "mutex_link"}
       /\ mutexOf[sym[t]] = 0 /\ mutexes[sym[t]] = 0
       /\ pc[t] # "link" => sym[t] \in books
       /\ pc[t] \in {"mutex_entry", "mutex_link"} => wired[sym[t]] = AllListeners
  /\ booksMutex # t =>
       /\ pc[t] \notin {"link", "wire", "mutex_link"}
       /\ pc[t] \in {"mutex_entry", "lock"} => op[t] = "add_order"
       /\ pc[t] = "in_book" => op[t] \in {"add_order", "unlocked"}
       /\ pc[t] \in {"mutex_entry", "lock", "in_book"} => Ready(sym[t])
       /\ pc[t] \in {"lock", "in_book"} /\ op[t] = "add_order" => mine[t] = 1

(* What is known of the call of an order: if the book was not complete     *)
(* when it began, whether it has met a market that makes no books; only    *)
(* such a call gets past a miss of both finds, and only if it has met that *)
(* market to the exception.                                                *)
Asking(t) ==
  /\ op[t] # "add_order" => ord[t] \notin early
  /\ op[t] = "add_order" =>
       /\ ord[t] \notin early => Complete(sym[t])
       /\ ord[t] \in early /\ ~asNeeded => ord[t] \in unmade
       /\ pc[t] \in {"may_create", "thrown"} => ord[t] \in early
       /\ pc[t] = "thrown" => ord[t] \in unmade

AllAsking ==
  /\ \A t \in Threads : Asking(t)
  /\ early \subseteq Asked

OneCallPerOrder ==
  \A t, u \in Threads :
    op[t] = "add_order" /\ op[u] = "add_order" /\ ord[t] = ord[u] => t = u

(* Nothing exists of a book that is not linked, and a linked one is        *)
(* complete or has its creator at work.                                    *)
Quiet ==
  /\ \A s \in Symbols : s \notin books => mutexOf[s] = 0 /\ mutexes[s] = 0
  /\ \A s \in books : Ready(s) \/ \E t \in Threads : booksMutex = t /\ sym[t] = s
  /\ \A t \in Threads : Working(t)
  /\ OneCallPerOrder
  /\ BookExclusive
  /\ AddedIsHeard

(* The inductive invariant: after a race only CreationInv is left.         *)
UntilRace == CreationInv /\ (raced \/ (Quiet /\ AllAsking))

LEMMA QuietInit == Init => UntilRace
<1> SUFFICES ASSUME Init PROVE UntilRace
  OBVIOUS
<1>1. CreationInv
  BY CreationInit
<1>2. Quiet
  BY MarketBooksAssumption
  DEF Init, Quiet, Complete, Ready, Working, OneCallPerOrder, BookExclusive,
      AddedIsHeard
<1>3. AllAsking
  BY DEF Init, AllAsking, Asking
<1> QED
  BY <1>1, <1>2, <1>3 DEF UntilRace

(* A step after which nothing has raced starts where nothing races.        *)
LEMMA WatchQuiet ==
  ASSUME UntilRace, Watch, ~raced'
  PROVE  ~Race /\ ~raced /\ Quiet /\ AllAsking
  BY Zenon DEF UntilRace, Watch

(* While nothing races, the finds of a thread tell it the truth, and what  *)
(* they find is complete.                                                  *)
LEMMA QuietFinds ==
  ASSUME CreationInv, Quiet, ~Race, NEW t \in Threads, Reading(t), booksMutex # t
  PROVE  /\ MayMiss(t) => sym[t] \notin books
         /\ MayFind(t) => Ready(sym[t])
         /\ booksMutex = None
         /\ Others(t, "mutex_link") = {}
<1>1. \A u \in Threads : u # t => ~Building(u)
  BY DEF Race
<1>2. booksMutex = None
  BY <1>1 DEF Building, CreationInv, TypeOK
<1>3. Others(t, "link") = {}
  BY <1>1 DEF Others, Building
<1>4. Others(t, "mutex_link") = {}
  BY <1>2, MarketBooksAssumption DEF Others, Quiet, Working
<1>5. sym[t] \in books => Ready(sym[t])
  BY <1>2, MarketBooksAssumption DEF Quiet
<1> QED
  BY <1>2, <1>3, <1>4, <1>5 DEF MayMiss, MayFind

(* A thread that has found a complete book may go on with it.              *)
LEMMA BookFoundQuiet ==
  ASSUME CreationInv, Quiet, ~Race, NEW t \in Threads, op[t] # "none",
         booksMutex # t, Ready(sym[t]), BookFound(t),
         UNCHANGED <<bookVars, mutexVars, orderVars>>,
         pc[t] \notin {"lock", "in_book"}
  PROVE  Quiet'
<1> USE MarketBooksAssumption
    DEF CreationInv, TypeOK, Creating, Quiet, Working, Complete, Ready,
        OneCallPerOrder, BookExclusive, AddedIsHeard, Return, Goto, Race,
        bookVars, mutexVars, orderVars
<1>1. CASE op[t] = "add_book" /\ Return(t)
  BY <1>1
<1>2. CASE op[t] = "add_order" /\ Goto(t, "mutex_entry")
  BY <1>2
<1>3. CASE op[t] = "unlocked" /\ Goto(t, "in_book")
  BY <1>3
<1> QED
  BY <1>1, <1>2, <1>3 DEF BookFound

LEMMA QuietThread ==
  ASSUME CreationInv, Quiet, ~Race, NEW t \in Threads, Call(t) \/ Step(t)
  PROVE  Quiet'
<1> USE MarketBooksAssumption DEF CreationInv, TypeOK, Creating, Quiet, Working,
      Complete, Ready, OneCallPerOrder, BookExclusive, AddedIsHeard, Race,
      bookVars, mutexVars, orderVars
<1>1. ASSUME NEW o \in Orders, CallAddOrder(t, o) PROVE Quiet'
  BY <1>1 DEF CallAddOrder, Begin
<1>2. ASSUME NEW o \in Orders, CallUnlocked(t, o) PROVE Quiet'
  BY <1>2 DEF CallUnlocked, Begin
<1>3. ASSUME NEW s \in Symbols, CallAddBook(t, s) PROVE Quiet'
  BY <1>3 DEF CallAddBook, Begin
<1>4. ASSUME GetBookFound(t) \/ AddBookFound(t) PROVE Quiet'
  BY <1>4, QuietFinds, BookFoundQuiet DEF GetBookFound, AddBookFound, Reading
<1>5. ASSUME \/ GetBookMissing(t) \/ AddBookMissing(t)
             \/ CreateBook(t) \/ ThrowUnrecognized(t)
      PROVE  Quiet'
  BY <1>5 DEF GetBookMissing, AddBookMissing, CreateBook, ThrowUnrecognized, Goto
<1>6. ASSUME ReturnRefused(t) PROVE Quiet'
  BY <1>6 DEF ReturnRefused, Return
<1>7. ASSUME TryAgainFound(t) PROVE Quiet'
  <2>1. booksMutex # t /\ Ready(sym[t])
    BY <1>7 DEF TryAgainFound
  <2> QED
    BY <1>7, <2>1, BookFoundQuiet DEF TryAgainFound
<1>8. ASSUME TryAgainMissing(t) PROVE Quiet'
  BY <1>8 DEF TryAgainMissing, Goto
<1>9. ASSUME LinkBook(t) PROVE Quiet'
  BY <1>9 DEF LinkBook, Goto
<1>10. ASSUME SetListener(t) PROVE Quiet'
  BY <1>10 DEF SetListener, Goto, AllListeners
<1>11. ASSUME MutexFound(t) PROVE Quiet'
  BY <1>11, QuietFinds DEF MutexFound, HaveMutex, Reading, Goto
<1>12. ASSUME MutexMissing(t) PROVE Quiet'
  BY <1>12, QuietFinds DEF MutexMissing, Reading, Goto
<1>13. ASSUME LinkMutex(t) PROVE Quiet'
  BY <1>13, SMTT(20) DEF LinkMutex, HaveMutex, Others, BookFound, Return, Goto
<1>14. ASSUME LockBook(t) PROVE Quiet'
  BY <1>14 DEF LockBook, Held, Goto
<1>15. ASSUME AddToBook(t) PROVE Quiet'
  BY <1>15 DEF AddToBook, Return
<1>16. ASSUME LeaveUnlocked(t) PROVE Quiet'
  BY <1>16 DEF LeaveUnlocked, Return
<1> QED
  BY <1>1, <1>2, <1>3, <1>4, <1>5, <1>6, <1>7, <1>8, <1>9, <1>10, <1>11, <1>12,
     <1>13, <1>14, <1>15, <1>16 DEF Call, Step

(* A complete book stays complete.                                         *)
LEMMA CompleteKept ==
  ASSUME CreationInv, NEW t \in Threads, Call(t) \/ Step(t), NEW s \in Symbols,
         Complete(s)
  PROVE  Complete(s)'
<1>1. CASE SetListener(t)
  BY <1>1 DEF SetListener, Complete, CreationInv, Creating, TypeOK
<1>2. CASE LinkBook(t)
  BY <1>2 DEF LinkBook, Complete
<1>3. CASE ~SetListener(t) /\ ~LinkBook(t)
  BY <1>3
  DEF Complete, Call, CallAddOrder, CallAddBook, CallUnlocked, Begin, Step,
      GetBookFound, GetBookMissing, AddBookFound, AddBookMissing, CreateBook,
      ThrowUnrecognized, ReturnRefused, TryAgainFound, TryAgainMissing,
      MutexFound, MutexMissing, LinkMutex, LockBook, AddToBook, LeaveUnlocked,
      bookVars
<1> QED
  BY <1>1, <1>2, <1>3

(* Calls, steps inside a call, and returns, as far as Asking is concerned. *)
LEMMA AskingGoto ==
  ASSUME CreationInv, Quiet, AllAsking, NEW t \in Threads, Step(t), NEW l,
         Goto(t, l),
         op[t] = "add_order" =>
           /\ l \in {"may_create", "thrown"} => ord[t] \in early
           /\ l = "thrown" => ord[t] \in unmade
  PROVE  AllAsking'
<1>1. UNCHANGED <<op, sym, ord, early, unmade, asNeeded>>
  BY DEF Goto, Watch, askedVars
<1>2. ASSUME NEW u \in Threads PROVE Asking(u)'
  <2>1. op[u] = "add_order" => sym[u] \in Symbols
    BY DEF CreationInv, Creating, Quiet, Working
  <2>2. pc'[u] = IF u = t THEN l ELSE pc[u]
    BY DEF Goto, CreationInv, TypeOK
  <2> QED
    BY <1>1, <2>1, <2>2, CompleteKept DEF AllAsking, Asking
<1> QED
  BY <1>1, <1>2 DEF AllAsking, Asked

LEMMA AskingReturn ==
  ASSUME CreationInv, Quiet, AllAsking, NEW t \in Threads, Step(t), Return(t)
  PROVE  AllAsking'
<1>1. /\ early' = early \ {ord[t]} /\ unmade' = unmade \ {ord[t]}
      /\ UNCHANGED asNeeded
      /\ \A u \in Threads :
           /\ pc'[u] = IF u = t THEN "idle" ELSE pc[u]
           /\ op'[u] = IF u = t THEN "none" ELSE op[u]
           /\ sym'[u] = IF u = t THEN None ELSE sym[u]
           /\ ord'[u] = IF u = t THEN None ELSE ord[u]
  BY DEF Return, Watch, CreationInv, TypeOK
<1>2. None \notin early
  BY MarketBooksAssumption DEF CreationInv, TypeOK
<1>3. ASSUME NEW u \in Threads, u # t PROVE Asking(u)'
  <2>1. op[u] = "add_order" => sym[u] \in Symbols
    BY DEF CreationInv, Creating, Quiet, Working
  <2>2. op[u] = "add_order" /\ ord[u] = ord[t] => ord[u] \notin early
    BY <1>3 DEF AllAsking, Asking, Quiet, OneCallPerOrder
  <2> QED
    BY <1>1, <1>3, <2>1, <2>2, CompleteKept DEF AllAsking, Asking
<1>4. Asking(t)'
  BY <1>1, <1>2 DEF Asking
<1>5. early' \subseteq Asked'
  BY <1>1 DEF AllAsking, Asked
<1> QED
  BY <1>3, <1>4, <1>5 DEF AllAsking

LEMMA AskingFound ==
  ASSUME CreationInv, Quiet, AllAsking, NEW t \in Threads, Step(t), BookFound(t)
  PROVE  AllAsking'
  BY AskingGoto, AskingReturn DEF BookFound

LEMMA AskingCall ==
  ASSUME CreationInv, Quiet, AllAsking, NEW t \in Threads, Call(t)
  PROVE  AllAsking'
<1>0. \A s \in Symbols : Complete(s) => Complete(s)'
  BY CompleteKept
<1> USE DEF CreationInv, TypeOK
<1>1. ASSUME NEW u \in Threads \ {t}, op[u] = "add_order", Complete(sym[u])
      PROVE  sym[u] \in Symbols /\ Complete(sym[u])'
  <2>1. sym[u] \in Symbols
    BY <1>1 DEF Creating, Quiet, Working
  <2>2. UNCHANGED sym[u]
    BY <1>1 DEF Call, CallAddOrder, CallAddBook, CallUnlocked, Begin
  <2> QED
    BY <1>0, <1>1, <2>1, <2>2 DEF Complete
<1>2. ASSUME NEW o \in Orders, CallAddOrder(t, o) PROVE AllAsking'
  <2>1. SymbolOf[o] \in Symbols
    BY MarketBooksAssumption
  <2>2. Complete(SymbolOf[o]) => Complete(SymbolOf[o])'
    BY <1>0, <2>1
  <2>3. ASSUME NEW u \in Threads, u # t PROVE Asking(u)'
    BY <1>1, <1>2, <2>3 DEF CallAddOrder, Begin, Watch, AllAsking, Asking
  <2>4. Asking(t)'
    BY <1>2, <2>2 DEF CallAddOrder, Begin, Watch, AllAsking, Asking, Asked
  <2>5. early' \subseteq Asked'
    BY <1>2 DEF CallAddOrder, Begin, AllAsking, Asked, Quiet, Working
  <2> QED
    BY <2>3, <2>4, <2>5 DEF AllAsking
<1>3. ASSUME \/ \E s \in Symbols : CallAddBook(t, s)
             \/ \E o \in Orders : CallUnlocked(t, o)
      PROVE  AllAsking'
  <2>1. /\ UNCHANGED <<early, unmade, asNeeded>>
        /\ op[t] = "none" /\ op'[t] # "add_order"
        /\ \A u \in Threads \ {t} : /\ pc'[u] = pc[u] /\ op'[u] = op[u]
                                     /\ sym'[u] = sym[u] /\ ord'[u] = ord[u]
    BY <1>3 DEF CallAddBook, CallUnlocked, Begin, Watch, askedVars, Quiet, Working
  <2>2. ord'[t] \notin early
    BY <1>3, MarketBooksAssumption
    DEF CallAddBook, CallUnlocked, Begin, AllAsking, Asked, Quiet, Working
  <2>3. ASSUME NEW u \in Threads, u # t PROVE Asking(u)'
    BY <1>1, <2>1, <2>3 DEF AllAsking, Asking
  <2>4. Asking(t)'
    BY <2>1, <2>2 DEF Asking
  <2>5. early' \subseteq Asked'
    BY <2>1 DEF AllAsking, Asked
  <2> QED
    BY <2>3, <2>4, <2>5 DEF AllAsking
<1> QED
  BY <1>2, <1>3 DEF Call

(* A thread that misses its book twice was called before the book was      *)
(* complete; one that throws has met a market that makes no books.         *)
LEMMA AskingStep ==
  ASSUME CreationInv, Quiet, AllAsking, ~Race, NEW t \in Threads, Step(t)
  PROVE  AllAsking'
<1>1. ASSUME AddBookMissing(t) PROVE AllAsking'
  <2>1. booksMutex # t /\ Reading(t)
    BY <1>1 DEF AddBookMissing, Quiet, Working, Reading
  <2>2. ~Complete(sym[t])
    BY <1>1, <2>1, QuietFinds DEF AddBookMissing, Complete
  <2> QED
    BY <1>1, <2>2, AskingGoto DEF AddBookMissing, AllAsking, Asking
<1>2. ASSUME ThrowUnrecognized(t) PROVE AllAsking'
  BY <1>2, AskingGoto DEF ThrowUnrecognized, MayCreate, AllAsking, Asking
<1>3. ASSUME ReturnRefused(t) \/ AddToBook(t) \/ LeaveUnlocked(t) PROVE AllAsking'
  BY <1>3, AskingReturn DEF ReturnRefused, AddToBook, LeaveUnlocked
<1>4. ASSUME NEW m, HaveMutex(t, m) PROVE AllAsking'
  BY <1>4, AskingFound, AskingGoto DEF HaveMutex
<1>5. ASSUME GetBookFound(t) \/ AddBookFound(t) \/ TryAgainFound(t) PROVE AllAsking'
  BY <1>5, AskingFound DEF GetBookFound, AddBookFound, TryAgainFound
<1>6. ASSUME MutexFound(t) \/ LinkMutex(t) PROVE AllAsking'
  BY <1>4, <1>6 DEF MutexFound, LinkMutex
<1>7. ASSUME \/ GetBookMissing(t) \/ CreateBook(t) \/ TryAgainMissing(t)
             \/ LinkBook(t) \/ SetListener(t) \/ MutexMissing(t) \/ LockBook(t)
      PROVE  AllAsking'
  BY <1>7, AskingGoto
  DEF GetBookMissing, CreateBook, TryAgainMissing, LinkBook, SetListener,
      MutexMissing, LockBook
<1> QED
  BY <1>1, <1>2, <1>3, <1>5, <1>6, <1>7 DEF Step

LEMMA QuietOthers ==
  ASSUME Quiet, AllAsking, UntilRace,
         \/ \E in \in BOOLEAN : SetAddBooksAsNeeded(in)
         \/ UNCHANGED vars
  PROVE  Quiet' /\ AllAsking'
<1>1. UNCHANGED <<pc, op, sym, ord, books, wired, booksMutex, mutexOf, mutexes,
                  mine, result, heard, early>>
  BY DEF SetAddBooksAsNeeded, vars, callVars, bookVars, mutexVars, orderVars,
     askedVars
<1>2. Quiet'
  BY <1>1
  DEF Quiet, Working, Complete, Ready, OneCallPerOrder, BookExclusive, AddedIsHeard
<1>3. /\ \A o \in early : ~asNeeded' => o \in unmade' \/ (~asNeeded /\ unmade' = unmade)
      /\ unmade \subseteq early
      /\ unmade' = unmade \/ unmade' = early
  BY DEF SetAddBooksAsNeeded, vars, callVars, askedVars, UntilRace, CreationInv, TypeOK
<1>4. AllAsking'
  BY <1>1, <1>3 DEF AllAsking, Asking, Asked, Complete
<1> QED
  BY <1>2, <1>4

LEMMA UntilRaceStep == UntilRace /\ [Next]_vars => UntilRace'
<1> SUFFICES ASSUME UntilRace, [Next]_vars
             PROVE  UntilRace'
  OBVIOUS
<1>1. CreationInv'
  BY CreationStep DEF UntilRace
<1>2. ASSUME NEW t \in Threads, Call(t) \/ Step(t), ~raced'
      PROVE  Quiet' /\ AllAsking'
  <2>1. ~Race /\ Quiet /\ AllAsking /\ CreationInv
    BY <1>2, EachStepWatches, WatchQuiet DEF UntilRace
  <2> QED
    BY <1>2, <2>1, QuietThread, AskingCall, AskingStep
<1>3. ASSUME \/ \E in \in BOOLEAN : SetAddBooksAsNeeded(in)
             \/ UNCHANGED vars
      PROVE  raced' = raced /\ (Quiet /\ AllAsking => Quiet' /\ AllAsking')
  BY <1>3, QuietOthers DEF SetAddBooksAsNeeded, vars, callVars
<1> QED
  BY <1>1, <1>2, <1>3 DEF UntilRace, Next

(* Whatever was added when and by whom: as long as no calls race, the      *)
(* mutex of a book does its job ...                                        *)
THEOREM MutexWorksUntilRace == Spec => []ExclusiveUntilRace
<1>1. UntilRace => ExclusiveUntilRace
  BY Zenon DEF UntilRace, Quiet, ExclusiveUntilRace
<1> QED
  BY <1>1, QuietInit, UntilRaceStep, PTL DEF Spec

(* ... and every order add_order returned true for was announced.          *)
THEOREM AnnouncedUntilRace == Spec => []HeardUntilRace
<1>1. UntilRace => HeardUntilRace
  BY Zenon DEF UntilRace, Quiet, HeardUntilRace
<1> QED
  BY <1>1, QuietInit, UntilRaceStep, PTL DEF Spec

-----------------------------------------------------------------------------
(* The market as it is when every book has been added before the first     *)
(* session starts: no race can happen at all.                              *)

Warm == Preloaded = Symbols /\ UnlockedCallers = {}

WarmInv ==
  /\ UntilRace
  /\ ~raced
  /\ books = Symbols
  /\ booksMutex = None
  /\ \A t \in Threads : op[t] # "unlocked"

LEMMA WarmInit == ASSUME Warm, Init PROVE WarmInv
  BY QuietInit DEF Warm, WarmInv, Init

LEMMA WarmStep == ASSUME Warm, WarmInv, [Next]_vars PROVE WarmInv'
<1>1. UntilRace'
  BY UntilRaceStep DEF WarmInv
<1>2. CreationInv /\ Quiet
  BY Zenon DEF WarmInv, UntilRace
<1>3. ~Race
  BY <1>2, MarketBooksAssumption
  DEF WarmInv, Race, Building, Quiet, Working, CreationInv, TypeOK
<1>4. ASSUME NEW t \in Threads, Call(t) \/ Step(t) PROVE ~raced'
  BY <1>3, <1>4, EachStepWatches, Zenon DEF WarmInv, Watch
<1>5. ~raced'
  BY <1>4 DEF Next, SetAddBooksAsNeeded, WarmInv, vars, callVars
<1>6. \A t \in Threads : /\ pc[t] \notin {"link", "wire", "mutex_link"}
                         /\ pc[t] # "idle" => sym[t] \in books
  BY <1>2, MarketBooksAssumption
  DEF WarmInv, Quiet, Working, CreationInv, Creating
<1>7. UNCHANGED <<books, booksMutex>>
  BY <1>6, MarketBooksAssumption
  DEF WarmInv, Next, Call, CallAddOrder, CallAddBook, CallUnlocked, Begin,
     Step,
      GetBookFound, GetBookMissing, AddBookFound, AddBookMissing, CreateBook,
      ThrowUnrecognized, ReturnRefused,
      TryAgainFound, TryAgainMissing, LinkBook, SetListener, MutexFound, HaveMutex,
      MutexMissing, LinkMutex, LockBook, AddToBook, LeaveUnlocked,
      SetAddBooksAsNeeded, vars, bookVars
<1>8. ASSUME NEW t \in Threads PROVE op'[t] # "unlocked"
  BY <1>2, <1>8
  DEF Warm, WarmInv, Next, Call, CallAddOrder, CallAddBook, CallUnlocked,
     Begin,
      Step, GetBookFound, GetBookMissing, AddBookFound, AddBookMissing,
      CreateBook, ThrowUnrecognized, ReturnRefused, TryAgainFound, TryAgainMissing, LinkBook, SetListener,
      MutexFound, HaveMutex, MutexMissing, LinkMutex, LockBook, AddToBook,
      LeaveUnlocked, SetAddBooksAsNeeded, BookFound, Goto, Return, vars, callVars,
      CreationInv, TypeOK
<1> QED
  BY <1>1, <1>5, <1>7, <1>8 DEF WarmInv

(* Adding all books at startup cures every race of the registry: with      *)
(* Warm the other theorems hold without their exception.                   *)
THEOREM WarmNeverRaces == ASSUME Warm PROVE Spec => []~raced
<1>1. WarmInv => ~raced
  BY DEF WarmInv
<1> QED
  BY <1>1, WarmInit, WarmStep, PTL DEF Spec

THEOREM WarmBookExclusive == ASSUME Warm PROVE Spec => []BookExclusive
<1>1. ~raced /\ ExclusiveUntilRace => BookExclusive
  BY Zenon DEF ExclusiveUntilRace
<1> QED
  BY <1>1, WarmNeverRaces, MutexWorksUntilRace, PTL

THEOREM WarmAddedIsHeard == ASSUME Warm PROVE Spec => []AddedIsHeard
<1>1. ~raced /\ HeardUntilRace => AddedIsHeard
  BY Zenon DEF HeardUntilRace
<1> QED
  BY <1>1, WarmNeverRaces, AnnouncedUntilRace, PTL

-----------------------------------------------------------------------------
(* Until calls race the market implements MarketPromise.                   *)

(* What MarketPromise sees: the orders inside each book, and the books     *)
(* that are complete.                                                      *)
InsideOf(y) == {ord[t] : t \in {u \in Threads : /\ pc[u] = "in_book"
                                               /\ op[u] = "add_order"
                                               /\ sym[u] = y}}

Inside == [y \in Symbols |-> InsideOf(y)]

Open == {s \in books : Complete(s)}

LEMMA PromiseInit == ASSUME Init PROVE Promise!Init
<1>1. Open = Preloaded
  BY MarketBooksAssumption DEF Init, Open, Complete, AllListeners
<1>2. ASSUME NEW y \in Symbols PROVE InsideOf(y) = {}
  BY DEF InsideOf, Init
<1> QED
  BY <1>1, <1>2 DEF Promise!Init, InsideOf, Open, Asked, Init

(* A step that lets no thread into a book or out of it does not change     *)
(* what is inside.                                                         *)
LEMMA InsideKept ==
  ASSUME \A t \in Threads :
           (pc[t] = "in_book" /\ op[t] = "add_order")
             \/ (pc'[t] = "in_book" /\ op'[t] = "add_order") =>
           pc'[t] = pc[t] /\ op'[t] = op[t] /\ sym'[t] = sym[t] /\ ord'[t] = ord[t]
  PROVE  Inside' = Inside
<1>1. ASSUME NEW y \in Symbols PROVE InsideOf(y)' = InsideOf(y)
  BY DEF InsideOf
<1> QED
  BY <1>1 DEF Inside

(* LockBook enters the book of the promise ...                             *)
LEMMA PromiseEnter ==
  ASSUME CreationInv, Quiet, NEW t \in Threads, LockBook(t)
  PROVE  \E o \in Orders : Promise!Enter(o)
<1>1. PICK o \in Orders, y \in Symbols :
        /\ o = ord[t] /\ y = sym[t] /\ y = SymbolOf[o]
        /\ op[t] = "add_order"
  BY MarketBooksAssumption DEF LockBook, Quiet, Working, CreationInv, Creating
<1>2. y \in Open
  BY <1>1 DEF LockBook, Quiet, Working, Complete, Ready, Open
<1>3. \A u \in Threads : ~(pc[u] = "in_book" /\ op[u] = "add_order" /\ sym[u] = y)
  BY <1>1 DEF LockBook, Held, Quiet, Working
<1>4. InsideOf(y) = {}
  BY <1>3 DEF InsideOf
<1>5. /\ pc \in [Threads -> Locations]
      /\ pc' = [pc EXCEPT ![t] = "in_book"]
      /\ UNCHANGED <<op, sym, ord, result, asNeeded, books, wired, early, unmade>>
  BY DEF LockBook, Goto, Watch, orderVars, bookVars, askedVars, CreationInv, TypeOK
<1>6. InsideOf(y)' = {o}
  BY <1>1, <1>3, <1>5 DEF InsideOf
<1>7. ASSUME NEW z \in Symbols, z # y PROVE InsideOf(z)' = InsideOf(z)
  BY <1>1, <1>5, <1>7 DEF InsideOf
<1>8. Inside' = [Inside EXCEPT ![y] = {o}] /\ Inside[y] = {}
  BY <1>4, <1>6, <1>7 DEF Inside
<1>9. o \in Asked /\ Asked' = Asked /\ Open' = Open
  BY <1>1, <1>5 DEF Asked, Open, Complete
<1>10. Promise!Enter(o)
  BY <1>1, <1>2, <1>5, <1>8, <1>9 DEF Promise!Enter, Inside, InsideOf, Open, Asked
<1> QED
  BY <1>10

(* ... and AddToBook leaves it.                                            *)
LEMMA PromiseLeave ==
  ASSUME CreationInv, Quiet, NEW t \in Threads, AddToBook(t)
  PROVE  \E o \in Orders : Promise!Leave(o)
<1>1. PICK o \in Orders, y \in Symbols :
        o = ord[t] /\ y = sym[t] /\ y = SymbolOf[o]
  BY MarketBooksAssumption DEF AddToBook, Quiet, Working, CreationInv, Creating
<1>2. \A u \in Threads : u # t => ~(pc[u] = "in_book" /\ sym[u] = y)
  BY <1>1 DEF AddToBook, Quiet, BookExclusive
<1>3. o \in InsideOf(y)
  BY <1>1 DEF InsideOf, AddToBook
<1>4. /\ pc \in [Threads -> Locations] /\ DOMAIN op = Threads
      /\ DOMAIN sym = Threads /\ DOMAIN ord = Threads
      /\ pc' = [pc EXCEPT ![t] = "idle"]
      /\ op' = [op EXCEPT ![t] = "none"]
      /\ sym' = [sym EXCEPT ![t] = None]
      /\ ord' = [ord EXCEPT ![t] = None]
      /\ result' = [result EXCEPT ![o] = "true"]
      /\ early' = early \ {o} /\ unmade' = unmade \ {o}
      /\ UNCHANGED <<asNeeded, books, wired>>
  BY <1>1 DEF AddToBook, Return, Watch, bookVars, CreationInv, TypeOK
<1>5. InsideOf(y)' = {}
  BY <1>2, <1>4 DEF InsideOf
<1>6. ASSUME NEW z \in Symbols, z # y PROVE InsideOf(z)' = InsideOf(z)
  BY <1>1, <1>4, <1>6 DEF InsideOf
<1>7. Inside' = [Inside EXCEPT ![y] = {}] /\ o \in Inside[y]
  BY <1>3, <1>5, <1>6 DEF Inside
<1>8. Asked' = Asked \ {o} /\ Open' = Open
  BY <1>1, <1>4 DEF AddToBook, Asked, Open, Complete, Quiet, OneCallPerOrder
<1>9. Promise!Leave(o)
  BY <1>1, <1>4, <1>7, <1>8
  DEF Promise!Leave, Promise!Answer, Inside, InsideOf, Open, Asked
<1> QED
  BY <1>9

(* The third listener opens the book, the first two change nothing.        *)
LEMMA PromiseOpen ==
  ASSUME CreationInv, Quiet, NEW t \in Threads, SetListener(t)
  PROVE  Promise!Next \/ UNCHANGED Promise!vars
<1>1. Inside' = Inside
  BY InsideKept DEF SetListener, Goto, CreationInv, TypeOK
<1>2. sym[t] \in books /\ sym[t] \in Symbols
  BY DEF SetListener, CreationInv, Creating
<1>3. /\ UNCHANGED <<books, asNeeded, result, op, ord, early, unmade>>
      /\ wired' = [wired EXCEPT ![sym[t]] = @ + 1]
      /\ wired \in [Symbols -> 0..AllListeners]
  BY DEF SetListener, Goto, Watch, orderVars, askedVars, CreationInv, TypeOK
<1>4. wired[sym[t]] < AllListeners
  BY DEF SetListener, CreationInv, Creating
<1>5. Open' = Open \/ Open' = Open \cup {sym[t]}
  BY <1>2, <1>3, <1>4 DEF Open, Complete, AllListeners, CreationInv, TypeOK
<1> QED
  BY <1>1, <1>2, <1>3, <1>5
  DEF Promise!Next, Promise!Open, Promise!vars, Inside, InsideOf, Open, Asked

(* A call of add_order begins, and may end with a refusal.                 *)
LEMMA PromiseAsk ==
  ASSUME CreationInv, Quiet, NEW t \in Threads, NEW o \in Orders,
         CallAddOrder(t, o)
  PROVE  Promise!Ask(o)
<1>1. Inside' = Inside
  BY InsideKept DEF CallAddOrder, Begin, CreationInv, TypeOK
<1>2. UNCHANGED <<books, wired, asNeeded, result>> /\ op[t] = "none"
  BY DEF CallAddOrder, Begin, Watch, bookVars, orderVars, Quiet, Working
<1>3. SymbolOf[o] \in Open <=> Complete(SymbolOf[o])
  BY DEF Open, Complete
<1>4. o \notin Asked
  BY DEF CallAddOrder, Asked
<1>5. Asked' = Asked \cup {o}
  BY <1>2 DEF CallAddOrder, Begin, Asked, CreationInv, TypeOK
<1>6. Open' = Open
  BY <1>2 DEF Open, Complete
<1> QED
  BY <1>1, <1>2, <1>3, <1>4, <1>5, <1>6
  DEF CallAddOrder, Promise!Ask, Inside, InsideOf, Open, Asked

LEMMA PromiseRefuse ==
  ASSUME CreationInv, Quiet, AllAsking, NEW t \in Threads, ReturnRefused(t)
  PROVE  Promise!Next \/ UNCHANGED Promise!vars
<1>1. Inside' = Inside
  BY InsideKept DEF ReturnRefused, Return, CreationInv, TypeOK
<1>2. UNCHANGED <<books, wired, asNeeded>>
  BY DEF ReturnRefused, Return, Watch, bookVars
<1>3. Open' = Open
  BY <1>2 DEF Open, Complete
<1>4. op' = [op EXCEPT ![t] = "none"] /\ ord' = [ord EXCEPT ![t] = None]
      /\ early' = early \ {ord[t]} /\ unmade' = unmade \ {ord[t]}
      /\ op \in [Threads -> {"none", "add_order", "add_book", "unlocked"}]
      /\ ord \in [Threads -> Orders \cup {None}]
  BY DEF ReturnRefused, Return, CreationInv, TypeOK
<1>5. CASE op[t] = "add_order"
  <2>1. PICK o \in Orders : o = ord[t] /\ o \in unmade
    BY <1>5 DEF ReturnRefused, CreationInv, Creating, AllAsking, Asking
  <2>2. result' = [result EXCEPT ![o] = "false"]
    BY <1>5, <2>1 DEF ReturnRefused
  <2>3. o \notin InsideOf(SymbolOf[o])
    BY <1>5, <2>1 DEF InsideOf, ReturnRefused, Quiet, OneCallPerOrder
  <2>4. Asked' = Asked \ {o}
    BY <1>4, <1>5, <2>1 DEF Asked, Quiet, OneCallPerOrder
  <2>5. SymbolOf[o] \in Symbols
    BY MarketBooksAssumption
  <2>6. Promise!Refuse(o)
    BY <1>1, <1>2, <1>3, <1>4, <2>1, <2>2, <2>3, <2>4, <2>5
    DEF Promise!Refuse, Promise!Answer, Inside, InsideOf, Open, Asked
  <2> QED
    BY <2>6 DEF Promise!Next
<1>6. CASE op[t] # "add_order"
  <2>1. Asked' = Asked
    BY <1>4, <1>6 DEF Asked
  <2>2. ord[t] \notin early /\ unmade \subseteq early
    BY <1>6 DEF AllAsking, Asking, CreationInv, TypeOK
  <2> QED
    BY <1>1, <1>2, <1>3, <1>4, <1>6, <2>1, <2>2
    DEF ReturnRefused, Promise!vars, Inside, InsideOf, Open, Asked
<1> QED
  BY <1>5, <1>6

(* All other steps of a thread change nothing the promise sees.            *)
LEMMA PromiseStutters ==
  ASSUME CreationInv, Quiet, AllAsking, NEW t \in Threads, Call(t) \/ Step(t),
         ~(LockBook(t) \/ AddToBook(t) \/ SetListener(t) \/ ReturnRefused(t)),
         \A o \in Orders : ~CallAddOrder(t, o)
  PROVE  UNCHANGED Promise!vars
<1> USE DEF CreationInv, TypeOK
<1>0. /\ \A u \in Threads \ {t} : /\ pc'[u] = pc[u] /\ op'[u] = op[u]
                                  /\ sym'[u] = sym[u] /\ ord'[u] = ord[u]
      /\ ~(pc[t] = "in_book" /\ op[t] = "add_order")
      /\ ~(pc'[t] = "in_book" /\ op'[t] = "add_order")
  BY DEF Call, CallAddBook, CallUnlocked, Begin, Step, GetBookFound,
    GetBookMissing, AddBookFound, AddBookMissing, CreateBook, ThrowUnrecognized,
    TryAgainFound, TryAgainMissing, LinkBook, MutexFound, MutexMissing, LinkMutex,
    LeaveUnlocked, HaveMutex, BookFound, Goto, Return
<1>1. Inside' = Inside
  BY <1>0, InsideKept
<1>2. UNCHANGED <<asNeeded, result, wired>>
  BY EachStepWatches
  DEF Call, CallAddBook, CallUnlocked, Begin, Step, GetBookFound,
      GetBookMissing, AddBookFound, AddBookMissing, CreateBook, ThrowUnrecognized,
      TryAgainFound, TryAgainMissing, LinkBook, MutexFound, MutexMissing,
      LinkMutex, LeaveUnlocked, Watch, bookVars, orderVars
<1>3. UNCHANGED books \/ LinkBook(t)
  BY DEF Call, CallAddBook, CallUnlocked, Begin, Step, GetBookFound,
      GetBookMissing, AddBookFound, AddBookMissing, CreateBook, ThrowUnrecognized,
      TryAgainFound, TryAgainMissing, LinkBook, MutexFound, MutexMissing,
      LinkMutex, LeaveUnlocked, bookVars
<1>4. LinkBook(t) => books' = books \cup {sym[t]} /\ wired[sym[t]] = 0
  BY DEF LinkBook, Creating
<1>5. Open' = Open
  BY <1>2, <1>3, <1>4 DEF Open, Complete, AllListeners
<1>6. (op[t] = "add_order" \/ op'[t] = "add_order") =>
        op'[t] = op[t] /\ ord'[t] = ord[t]
  BY DEF Call, CallAddBook, CallUnlocked, Begin, Step, GetBookFound,
    GetBookMissing, AddBookFound, AddBookMissing, CreateBook, ThrowUnrecognized,
    TryAgainFound, TryAgainMissing, LinkBook, MutexFound, MutexMissing, LinkMutex,
    LeaveUnlocked, HaveMutex, BookFound, Goto, Return, Quiet, Working
<1>7. Asked' = Asked
  BY <1>0, <1>6 DEF Asked
<1>8. UNCHANGED <<early, unmade>> \/ (op[t] # "add_order" /\ Return(t))
  BY DEF Call, CallAddBook, CallUnlocked, Begin, Step, GetBookFound,
    GetBookMissing, AddBookFound, AddBookMissing, CreateBook, ThrowUnrecognized,
    TryAgainFound, TryAgainMissing, LinkBook, MutexFound, MutexMissing, LinkMutex,
    LeaveUnlocked, HaveMutex, BookFound, Goto, askedVars
<1>9. op[t] # "add_order" => ord[t] \notin early /\ ord[t] \notin unmade
  BY DEF AllAsking, Asking
<1>10. Return(t) => early' = early \ {ord[t]} /\ unmade' = unmade \ {ord[t]}
  BY DEF Return
<1>11. UNCHANGED <<early, unmade>>
  BY <1>8, <1>9, <1>10
<1> QED
  BY <1>1, <1>2, <1>5, <1>7, <1>11
  DEF Promise!vars, Inside, InsideOf, Open, Asked

LEMMA PromiseStep ==
  ASSUME UntilRace, [Next]_vars
  PROVE  [Promise!Next \/ raced']_(Promise!vars)
<1>1. CreationInv
  BY DEF UntilRace
<1>2. ASSUME NEW t \in Threads, Call(t) \/ Step(t), ~raced'
      PROVE  Promise!Next \/ UNCHANGED Promise!vars
  <2>1. Quiet /\ AllAsking
    BY <1>2, EachStepWatches, WatchQuiet
  <2>2. LockBook(t) => Promise!Next
    BY <1>1, <2>1, PromiseEnter DEF Promise!Next
  <2>3. AddToBook(t) => Promise!Next
    BY <1>1, <2>1, PromiseLeave DEF Promise!Next
  <2>4. \A o \in Orders : CallAddOrder(t, o) => Promise!Next
    BY <1>1, <2>1, PromiseAsk DEF Promise!Next
  <2> QED
    BY <1>1, <1>2, <2>1, <2>2, <2>3, <2>4, PromiseOpen, PromiseRefuse,
       PromiseStutters
<1>3. ASSUME NEW in \in BOOLEAN, SetAddBooksAsNeeded(in) PROVE Promise!Next
  <2>1. Inside' = Inside
    BY <1>3, InsideKept DEF SetAddBooksAsNeeded
  <2>2. Promise!SetOnDemand(in)
    BY <1>3, <2>1
    DEF SetAddBooksAsNeeded, Promise!SetOnDemand, Inside, InsideOf, Open, Asked,
        Complete, bookVars, orderVars
  <2> QED
    BY <2>2 DEF Promise!Next
<1>4. CASE UNCHANGED vars
  <2>1. Inside' = Inside
    BY <1>4, InsideKept DEF vars, callVars
  <2> QED
    BY <1>4, <2>1
    DEF vars, callVars, bookVars, orderVars, askedVars, Promise!vars, Inside,
        InsideOf, Open, Asked, Complete
<1> QED
  BY <1>2, <1>3, <1>4, Zenon DEF Next

(* Until calls race the market keeps its promise, for any number of        *)
(* threads, symbols and orders; and a warm market keeps it always, by      *)
(* WarmNeverRaces.                                                         *)
THEOREM PromiseKeptUntilRace == Spec => KeepsPromise
<1>1. Init => Promise!Init
  BY PromiseInit
<1>2. UntilRace /\ [Next]_vars => [Promise!Next \/ raced']_(Promise!vars)
  BY PromiseStep
<1> QED
  BY <1>1, <1>2, QuietInit, UntilRaceStep, PTL DEF Spec, KeepsPromise
=============================================================================
