----------------------------- MODULE MarketBooks -----------------------------
(***************************************************************************)
(* The book registry of latinex::Market (src/src/market.h): how the        *)
(* threads of the exchange find, create, lock and enter the order book of  *)
(* a symbol.  A thread executes one call at a time:                        *)
(*                                                                         *)
(*   "add_order"  Market::add_order, from a FIX session thread             *)
(*   "add_book"   Market::add_book(symbol, true), from                     *)
(*                ExchangeServer::add_book                                 *)
(*   "unlocked"   Market::cancel_order or modify_order, which enter the    *)
(*                book without its mutex; the exchange itself never calls  *)
(*                them, so only UnlockedCallers do                         *)
(*                                                                         *)
(* Granularity: one action per access to shared state.  books_mutex_ is    *)
(* taken around the creation of a book only: the two books_.find calls     *)
(* before it, and every operator[] on book_mutexes_ made by add_order, run *)
(* without it.  A lookup that overlaps an insertion into the same std::map *)
(* is a data race; its result is left open (it may miss any key while the  *)
(* tree is being relinked), and two insertions that overlap may leave      *)
(* either node in the map.  Corruption beyond that is not represented.     *)
(*                                                                         *)
(* What happens to an order inside its book is modelled in Exchange; here  *)
(* a book is known by how many of its three listeners are set.             *)
(***************************************************************************)
EXTENDS Naturals

CONSTANTS
  Threads,           \* threads that call the market
  Symbols,           \* symbols orders are sent for
  Orders,            \* orders, passed to add_order until one call returns true
  SymbolOf,          \* the Symbol field of each order
  Preloaded,         \* symbols whose book is complete before the threads run
  UnlockedCallers,   \* threads that call cancel_order or modify_order
  None               \* no thread, no order, no symbol

ASSUME MarketBooksAssumption ==
  /\ SymbolOf \in [Orders -> Symbols]
  /\ Preloaded \subseteq Symbols
  /\ UnlockedCallers \subseteq Threads
  /\ None \notin Threads \cup Orders \cup Symbols

VARIABLES
  asNeeded,    \* Market::addBooksAsNeeded
  pc,          \* where each thread is inside market.h
  op,          \* the call each thread executes
  sym,         \* the symbol of that call
  ord,         \* its order, None for add_book
  books,       \* keys linked into books_
  wired,       \* listeners set on each book, in the order of add_book: 0..3
  booksMutex,  \* owner of books_mutex_
  mutexOf,     \* the mutex object book_mutexes_ holds for a symbol, 0 if none
  mutexes,     \* mutex objects ever made for a symbol
  mine,        \* the mutex object a thread's reference `mut` names
  result,      \* what add_order returned for each order
  heard,       \* listeners the book called back when it took the order
  early,       \* history: orders whose add_order began before their book was complete
  unmade,      \* history: those whose call has met addBooksAsNeeded = false
  raced        \* history: a call was made that races with another

callVars == <<asNeeded, pc, op, sym, ord, raced>>
bookVars == <<books, wired, booksMutex>>
mutexVars == <<mutexOf, mutexes, mine>>
orderVars == <<result, heard>>
askedVars == <<early, unmade>>
vars == <<callVars, bookVars, mutexVars, orderVars, askedVars>>

(* The order listener, the trade listener and the order book listener.     *)
AllListeners == 3

Init ==
  /\ asNeeded = FALSE
  /\ raced = FALSE
  /\ pc = [t \in Threads |-> "idle"]
  /\ op = [t \in Threads |-> "none"]
  /\ sym = [t \in Threads |-> None]
  /\ ord = [t \in Threads |-> None]
  /\ books = Preloaded
  /\ wired = [s \in Symbols |-> IF s \in Preloaded THEN AllListeners ELSE 0]
  /\ booksMutex = None
  /\ mutexOf = [s \in Symbols |-> IF s \in Preloaded THEN 1 ELSE 0]
  /\ mutexes = [s \in Symbols |-> IF s \in Preloaded THEN 1 ELSE 0]
  /\ mine = [t \in Threads |-> 0]
  /\ result = [o \in Orders |-> "none"]
  /\ heard = [o \in Orders |-> 0]
  /\ early = {}
  /\ unmade = {}

-----------------------------------------------------------------------------
(* std::map under concurrent use.                                          *)

Others(t, l) == {u \in Threads \ {t} : pc[u] = l}

(* What an unlocked books_.find of the symbol of thread t may see.         *)
MayFind(t) ==
  \/ sym[t] \in books
  \/ \E u \in Others(t, "link") : sym[u] = sym[t]

MayMiss(t) ==
  \/ sym[t] \notin books
  \/ Others(t, "link") # {}

(* Two threads are about to touch the same data without a common lock:     *)
(* one is creating a book while another is at an unlocked access to        *)
(* books_ or book_mutexes_, or one is in a call of cancel_order or         *)
(* modify_order while another is in any call.                              *)
Building(t) == pc[t] \in {"link", "wire"} \/ booksMutex = t

Reading(t) == pc[t] \in {"get_book", "add_book", "mutex_entry", "mutex_link"}

Race ==
  \E t, u \in Threads :
    /\ t # u
    /\ \/ Building(t) /\ Reading(u)
       \/ op[t] = "unlocked" /\ op[u] # "none"

(* Every step of a thread is one of these three.                           *)
Watch == /\ raced' = (raced \/ Race)
         /\ UNCHANGED asNeeded

Goto(t, l) == /\ pc' = [pc EXCEPT ![t] = l]
              /\ UNCHANGED <<op, sym, ord, askedVars>>
              /\ Watch

Begin(t, l, call, s, o) ==
  /\ pc[t] = "idle"
  /\ pc' = [pc EXCEPT ![t] = l]
  /\ op' = [op EXCEPT ![t] = call]
  /\ sym' = [sym EXCEPT ![t] = s]
  /\ ord' = [ord EXCEPT ![t] = o]
  /\ Watch
  /\ UNCHANGED <<bookVars, mutexVars, orderVars>>

Return(t) ==
  /\ pc' = [pc EXCEPT ![t] = "idle"]
  /\ op' = [op EXCEPT ![t] = "none"]
  /\ sym' = [sym EXCEPT ![t] = None]
  /\ ord' = [ord EXCEPT ![t] = None]
  /\ early' = early \ {ord[t]}
  /\ unmade' = unmade \ {ord[t]}
  /\ Watch

-----------------------------------------------------------------------------
(* Calls.                                                                  *)

Complete(s) == s \in books /\ wired[s] = AllListeners

(* A refused order may be added again, as the unit test does.              *)
CallAddOrder(t, o) ==
  /\ result[o] # "true"
  /\ \A u \in Threads : ord[u] # o
  /\ Begin(t, "get_book", "add_order", SymbolOf[o], o)
  /\ early' = IF Complete(SymbolOf[o]) THEN early ELSE early \cup {o}
  /\ unmade' = IF asNeeded \/ Complete(SymbolOf[o]) THEN unmade ELSE unmade \cup {o}

(* The orders that add_order is being called for.                          *)
Asked == {o \in Orders : \E t \in Threads : op[t] = "add_order" /\ ord[t] = o}

(* add_books_as_needed, which the constructor of ExchangeServer calls once  *)
(* and the unit test in between.                                           *)
SetAddBooksAsNeeded(in) ==
  /\ asNeeded' = in
  /\ unmade' = IF in THEN unmade ELSE early
  /\ UNCHANGED <<pc, op, sym, ord, raced, bookVars, mutexVars, orderVars, early>>

CallAddBook(t, s) == /\ Begin(t, "add_book", "add_book", s, None)
                     /\ UNCHANGED askedVars

CallUnlocked(t, o) ==
  /\ t \in UnlockedCallers
  /\ result[o] = "true"
  /\ Begin(t, "get_book", "unlocked", SymbolOf[o], o)
  /\ UNCHANGED askedVars

(* Mutant: add_order looks the book up again after it has found it.        *)
BookFoundRetry(t) ==
  IF op[t] = "add_order" THEN Goto(t, "get_book") ELSE Return(t)

(* The thread has a reference to the book: add_book is done, add_order     *)
(* goes on to the book's mutex, the unlocked calls to the book itself.     *)
BookFound(t) ==
  \/ op[t] = "add_book"  /\ Return(t)
  \/ op[t] = "add_order" /\ Goto(t, "mutex_entry")
  \/ op[t] = "unlocked"  /\ Goto(t, "in_book")

(* get_book: an unlocked find; on a miss, add_book(symbol).                *)
GetBookFound(t) ==
  /\ pc[t] = "get_book"
  /\ MayFind(t)
  /\ BookFound(t)
  /\ UNCHANGED <<bookVars, mutexVars, orderVars>>

GetBookMissing(t) ==
  /\ pc[t] = "get_book"
  /\ MayMiss(t)
  /\ Goto(t, "add_book")
  /\ UNCHANGED <<bookVars, mutexVars, orderVars>>

(* add_book up to books_mutex_: the book is there ("evidently someone else *)
(* added it"), or the thread goes on with the end of the map, whatever is  *)
(* added meanwhile, to the test of `force' and addBooksAsNeeded.           *)
AddBookFound(t) ==
  /\ pc[t] = "add_book"
  /\ MayFind(t)
  /\ BookFound(t)
  /\ UNCHANGED <<bookVars, mutexVars, orderVars>>

AddBookMissing(t) ==
  /\ pc[t] = "add_book"
  /\ MayMiss(t)
  /\ Goto(t, "may_create")
  /\ UNCHANGED <<bookVars, mutexVars, orderVars>>

MayCreate(t) == op[t] = "add_book" \/ asNeeded

CreateBook(t) ==
  /\ pc[t] = "may_create"
  /\ MayCreate(t)
  /\ Goto(t, "books_mutex")
  /\ UNCHANGED <<bookVars, mutexVars, orderVars>>

(* invalid_argument, on its way to the handler in add_order.               *)
ThrowUnrecognized(t) ==
  /\ pc[t] = "may_create"
  /\ ~MayCreate(t)
  /\ Goto(t, "thrown")
  /\ UNCHANGED <<bookVars, mutexVars, orderVars>>

(* add_order makes a rejected order of the exception and returns false;    *)
(* cancel_order and modify_order pass it on.                               *)
ReturnRefused(t) ==
  /\ pc[t] = "thrown"
  /\ result' = IF op[t] = "add_order" THEN [result EXCEPT ![ord[t]] = "false"]
                                      ELSE result
  /\ Return(t)
  /\ UNCHANGED <<bookVars, mutexVars, heard>>

(* "try again with lock": no insertion overlaps the second find.           *)
TryAgainFound(t) ==
  /\ pc[t] = "books_mutex"
  /\ booksMutex = None
  /\ sym[t] \in books
  /\ BookFound(t)
  /\ UNCHANGED <<bookVars, mutexVars, orderVars>>

(* Mutant: the lock is taken but the book is not searched again.           *)
TryAgainMissingUnchecked(t) ==
  /\ pc[t] = "books_mutex"
  /\ booksMutex = None
  /\ booksMutex' = t
  /\ Goto(t, "link")
  /\ UNCHANGED <<books, wired, mutexVars, orderVars>>

TryAgainMissing(t) ==
  /\ pc[t] = "books_mutex"
  /\ booksMutex = None
  /\ sym[t] \notin books
  /\ booksMutex' = t
  /\ Goto(t, "link")
  /\ UNCHANGED <<books, wired, mutexVars, orderVars>>

(* books_[symbol]: while a thread is at "link" the tree is being relinked. *)
LinkBook(t) ==
  /\ pc[t] = "link"
  /\ books' = books \cup {sym[t]}
  /\ Goto(t, "wire")
  /\ UNCHANGED <<wired, booksMutex, mutexVars, orderVars>>

(* Mutants: one listener too few, one too many.                            *)
SetListenerTooFew(t) ==
  /\ pc[t] = "wire"
  /\ wired' = [wired EXCEPT ![sym[t]] = @ + 1]
  /\ Goto(t, IF wired[sym[t]] + 2 < AllListeners THEN "wire" ELSE "mutex_entry")
  /\ UNCHANGED <<books, booksMutex, mutexVars, orderVars>>

SetListenerTooMany(t) ==
  /\ pc[t] = "wire"
  /\ wired' = [wired EXCEPT ![sym[t]] = @ + 1]
  /\ Goto(t, IF wired[sym[t]] < AllListeners THEN "wire" ELSE "mutex_entry")
  /\ UNCHANGED <<books, booksMutex, mutexVars, orderVars>>

(* set_order_listener, set_trade_listener, set_order_book_listener.        *)
SetListener(t) ==
  /\ pc[t] = "wire"
  /\ wired' = [wired EXCEPT ![sym[t]] = @ + 1]
  /\ Goto(t, IF wired[sym[t]] + 1 < AllListeners THEN "wire" ELSE "mutex_entry")
  /\ UNCHANGED <<books, booksMutex, mutexVars, orderVars>>

-----------------------------------------------------------------------------
(* book_mutexes_[symbol], by the creator of the book inside add_book and   *)
(* by every add_order afterwards.                                          *)

(* The creator discards the reference and leaves add_book, which releases  *)
(* books_mutex_; add_order keeps a reference to mutex object m.            *)
HaveMutex(t, m) ==
  \/ /\ booksMutex = t
     /\ booksMutex' = None
     /\ BookFound(t)
     /\ UNCHANGED mine
  \/ /\ booksMutex # t
     /\ mine' = [mine EXCEPT ![t] = m]
     /\ Goto(t, "lock")
     /\ UNCHANGED booksMutex

(* Mutant: add_order locks a mutex of its own, not a reference to the      *)
(* book's.                                                                 *)
MutexFoundCopied(t) ==
  /\ pc[t] = "mutex_entry"
  /\ mutexOf[sym[t]] # 0
  /\ mutexes' = [mutexes EXCEPT ![sym[t]] = @ + 1]
  /\ HaveMutex(t, mutexes[sym[t]] + 1)
  /\ UNCHANGED <<books, wired, mutexOf, orderVars>>

MutexFound(t) ==
  /\ pc[t] = "mutex_entry"
  /\ mutexOf[sym[t]] # 0
  /\ HaveMutex(t, mutexOf[sym[t]])
  /\ UNCHANGED <<books, wired, mutexOf, mutexes, orderVars>>

(* The key is absent, or missed because another thread is linking a node.  *)
MutexMissing(t) ==
  /\ pc[t] = "mutex_entry"
  /\ mutexOf[sym[t]] = 0 \/ Others(t, "mutex_link") # {}
  /\ Goto(t, "mutex_link")
  /\ UNCHANGED <<bookVars, mutexVars, orderVars>>

(* A new node is linked.  It may be lost to one that was linked since the  *)
(* search, or to a link that overlaps this one.                            *)
LinkMutex(t) ==
  LET s == sym[t]
      m == mutexes[s] + 1
      contended == mutexOf[s] # 0 \/ Others(t, "mutex_link") # {}
  IN  /\ pc[t] = "mutex_link"
      /\ mutexes' = [mutexes EXCEPT ![s] = m]
      /\ \/ mutexOf' = [mutexOf EXCEPT ![s] = m]
         \/ contended /\ UNCHANGED mutexOf
      /\ HaveMutex(t, m)
      /\ UNCHANGED <<books, wired, orderVars>>

-----------------------------------------------------------------------------
(* lock_guard on the book's mutex, then book.add.                          *)

Held(s, m) == \E t \in Threads : /\ pc[t] = "in_book" /\ op[t] = "add_order"
                                 /\ sym[t] = s /\ mine[t] = m

(* Mutant: the lock is not taken.                                          *)
LockBookUnlocked(t) ==
  /\ pc[t] = "lock"
  /\ Goto(t, "in_book")
  /\ UNCHANGED <<bookVars, mutexVars, orderVars>>

LockBook(t) ==
  /\ pc[t] = "lock"
  /\ ~Held(sym[t], mine[t])
  /\ Goto(t, "in_book")
  /\ UNCHANGED <<bookVars, mutexVars, orderVars>>

(* book.add ends by calling the listeners the book has, and only those.    *)
AddToBook(t) ==
  /\ pc[t] = "in_book"
  /\ op[t] = "add_order"
  /\ heard' = [heard EXCEPT ![ord[t]] = wired[sym[t]]]
  /\ result' = [result EXCEPT ![ord[t]] = "true"]
  /\ mine' = [mine EXCEPT ![t] = 0]
  /\ Return(t)
  /\ UNCHANGED <<bookVars, mutexOf, mutexes>>

LeaveUnlocked(t) ==
  /\ pc[t] = "in_book"
  /\ op[t] = "unlocked"
  /\ Return(t)
  /\ UNCHANGED <<bookVars, mutexVars, orderVars>>

-----------------------------------------------------------------------------
Step(t) ==
  \/ GetBookFound(t) \/ GetBookMissing(t)
  \/ AddBookFound(t) \/ AddBookMissing(t)
  \/ CreateBook(t) \/ ThrowUnrecognized(t) \/ ReturnRefused(t)
  \/ TryAgainFound(t) \/ TryAgainMissing(t)
  \/ LinkBook(t) \/ SetListener(t)
  \/ MutexFound(t) \/ MutexMissing(t) \/ LinkMutex(t)
  \/ LockBook(t) \/ AddToBook(t) \/ LeaveUnlocked(t)

Call(t) == \/ \E o \in Orders : CallAddOrder(t, o) \/ CallUnlocked(t, o)
           \/ \E s \in Symbols : CallAddBook(t, s)

Next == \/ \E t \in Threads : Call(t) \/ Step(t)
        \/ \E in \in BOOLEAN : SetAddBooksAsNeeded(in)

Spec == Init /\ [][Next]_vars

(* A thread inside the market keeps running; nobody has to call it.        *)
FairSpec == Spec /\ \A t \in Threads : WF_vars(Step(t))

-----------------------------------------------------------------------------
(* Properties.                                                             *)

Locations == {"idle", "get_book", "add_book", "may_create", "thrown",
              "books_mutex", "link", "wire", "mutex_entry", "mutex_link",
              "lock", "in_book"}

(* Every variable has its type; a book never has more than its three       *)
(* listeners.                                                              *)
TypeOK ==
  /\ asNeeded \in BOOLEAN
  /\ raced \in BOOLEAN
  /\ pc \in [Threads -> Locations]
  /\ op \in [Threads -> {"none", "add_order", "add_book", "unlocked"}]
  /\ sym \in [Threads -> Symbols \cup {None}]
  /\ ord \in [Threads -> Orders \cup {None}]
  /\ books \subseteq Symbols
  /\ wired \in [Symbols -> 0..AllListeners]
  /\ booksMutex \in Threads \cup {None}
  /\ mutexOf \in [Symbols -> Nat]
  /\ mutexes \in [Symbols -> Nat]
  /\ mine \in [Threads -> Nat]
  /\ result \in [Orders -> {"none", "true", "false"}]
  /\ heard \in [Orders -> 0..AllListeners]
  /\ early \subseteq Orders /\ unmade \subseteq early

(* The double-checked creation of add_book: a thread about to execute      *)
(* books_[symbol] finds no book under that symbol, so the book of a symbol *)
(* is created, and its listeners set, once.                                *)
CreatedOnce == \A t \in Threads : pc[t] = "link" => sym[t] \notin books

(* book_mutexes_ does its job: two threads are never inside the book of    *)
(* the same symbol at the same time.                                       *)
BookExclusive ==
  \A t, u \in Threads :
    pc[t] = "in_book" /\ pc[u] = "in_book" /\ sym[t] = sym[u] => t = u

(* An order add_order returned true for was announced to the market: all   *)
(* listeners of the book were called.                                      *)
AddedIsHeard ==
  \A o \in Orders : result[o] = "true" => heard[o] = AllListeners

(* The same two, as long as no calls have raced: locks and unlocked reads   *)
(* are enough for threads whose calls do not overlap the creation of a     *)
(* book, whoever created it and whenever.                                  *)
ExclusiveUntilRace == raced \/ BookExclusive

HeardUntilRace == raced \/ AddedIsHeard

(* The implementation of MarketPromise: a book counts as open once its      *)
(* third listener is set, an order is in the book from LockBook on.        *)
Promise ==
  INSTANCE MarketPromise WITH
    onDemand <- asNeeded,
    complete <- {s \in books : Complete(s)},
    asked <- Asked,
    inside <- [s \in Symbols |->
                 {ord[t] : t \in {u \in Threads : /\ pc[u] = "in_book"
                                                 /\ op[u] = "add_order"
                                                 /\ sym[u] = s}}],
    outcome <- result

(* The market keeps its promise until calls race: every step of its        *)
(* threads is a step of MarketPromise or changes nothing a caller could    *)
(* tell.                                                                   *)
KeepsPromise ==
  /\ Promise!Init
  /\ [][Promise!Next \/ raced']_(Promise!vars)

(* No lock order deadlock and no lost wake-up: every call of the market    *)
(* returns.                                                                *)
CallsReturn ==
  \A t \in Threads : pc[t] # "idle" ~> pc[t] = "idle"
=============================================================================
