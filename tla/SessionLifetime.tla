--------------------------- MODULE SessionLifetime ---------------------------
(***************************************************************************)
(* The two-way link between a latinex::Order (src/src/order.cpp) and the   *)
(* LatinexSessionServer it came by (src/src/server.cpp): the order keeps a *)
(* raw pointer server_ to the session, the session a vector                *)
(* subscribed_orders_ of raw pointers to orders, and neither side has a    *)
(* lock.  Each session has one thread: it handles its NewOrderSingles and, *)
(* once the session is over, runs its destructor (server_process stops the *)
(* session's reader before `inst` is destroyed).  An order is kept alive   *)
(* by shared_ptrs: the local one of the handler, the one in the book and,  *)
(* while the book calls back, the ones in its list of callbacks.  So an    *)
(* order of one session may be called back, and destroyed, by the thread   *)
(* of another.                                                             *)
(*                                                                         *)
(* Granularity: one action per access to server_ or subscribed_orders_; an *)
(* emplace_back or an erase reads the vector and writes it in two steps,   *)
(* so that two that overlap lose the effect of one.  A use of a destroyed  *)
(* object sets `misused` and goes on as if the object were intact, one of  *)
(* the outcomes of what is undefined.  No statement is made about what     *)
(* follows an overlap: the history variable `overlapped` marks it.         *)
(* Left out: the callbacks of an order from its own handler (on_submitted, *)
(* and on_accepted, on_filled or on_rejected of the incoming order), which *)
(* run on the thread of a session that is alive; quantities and prices.    *)
(***************************************************************************)
EXTENDS Naturals, FiniteSets

CONSTANTS
  Sessions,   \* sessions, each with a thread
  Orders,     \* Order objects that may be made
  Books,      \* order books, each with its mutex
  None        \* nullptr

ASSUME SessionLifetimeAssumption == None \notin Sessions \cup Orders \cup Books

VARIABLES
  life,         \* "unborn", "alive" or "destroyed", for each order
  server,       \* Order::server_
  subscribed,   \* LatinexSessionServer::subscribed_orders_
  resting,      \* orders each book holds
  holder,       \* owner of each book's mutex
  at,           \* where the thread of each session is
  ord,          \* the local `ord` of the NewOrderSingle handler
  book,         \* the book add_order has found for it
  about,        \* the order whose method the thread executes
  read,         \* the vector as subscribe or unsubscribe has read it
  calls,        \* orders the book still has to call back
  drops,        \* shared_ptrs the thread still has to release
  walk,         \* orders still to be given on_fix_server_changed(nullptr)
  misused,      \* a destroyed order or session was used
  overlapped    \* history: two threads worked on one session's links at once

linkVars == <<life, server, subscribed>>
bookVars == <<resting, holder>>
threadVars == <<at, ord, book, about, read, calls, drops, walk>>
vars == <<linkVars, bookVars, threadVars, misused, overlapped>>

Places == {"idle", "subscribing", "appending", "adding", "locking", "calling",
           "stamping", "sending", "dropping", "returning", "walking",
           "erasing", "erased", "assigning", "gone"}

Init ==
  /\ life = [o \in Orders |-> "unborn"]
  /\ server = [o \in Orders |-> None]
  /\ subscribed = [s \in Sessions |-> {}]
  /\ resting = [b \in Books |-> {}]
  /\ holder = [b \in Books |-> None]
  /\ at = [s \in Sessions |-> "idle"]
  /\ ord = [s \in Sessions |-> None]
  /\ book = [s \in Sessions |-> None]
  /\ about = [s \in Sessions |-> None]
  /\ read = [s \in Sessions |-> {}]
  /\ calls = [s \in Sessions |-> {}]
  /\ drops = [s \in Sessions |-> {}]
  /\ walk = [s \in Sessions |-> {}]
  /\ misused = FALSE
  /\ overlapped = FALSE

-----------------------------------------------------------------------------
(* Who works on whose links.                                               *)

(* The destructor of the session runs.                                     *)
Closing(s) == ord[s] = None /\ (at[s] = "walking" \/ walk[s] # {})

(* The session an order is linked to, as a set.                            *)
LinkOf(o) == {server[o]} \ {None}

(* The sessions to whose links thread s is making a change.                *)
Changing(s) ==
  {x \in {s} : at[s] \in {"subscribing", "appending", "walking"} \/ walk[s] # {}}
    \cup (IF at[s] \in {"erasing", "erased"} THEN LinkOf(about[s]) ELSE {})

(* The sessions thread s is sending a report through.                      *)
Sending(s) == IF at[s] \in {"stamping", "sending"} THEN LinkOf(about[s]) ELSE {}

Overlap ==
  \E s, t \in Sessions :
    /\ s # t
    /\ \/ Changing(s) \cap Changing(t) # {}
       \/ Closing(s) /\ s \in Sending(t)

Watch == overlapped' = (overlapped \/ Overlap')

(* Besides the shared_ptr thread s releases, another one keeps the order.  *)
Kept(s, o) ==
  \/ \E b \in Books : o \in resting[b]
  \/ \E t \in Sessions : ord[t] = o \/ (t # s /\ o \in drops[t])

Goto(s, place) == at' = [at EXCEPT ![s] = place]

(* A method of order o is called, or its server_ is read.                  *)
UseOrder(o) == misused' = (misused \/ life[o] # "alive")

(* server_ of order o is dereferenced.                                     *)
UseServer(o) ==
  misused' = (misused \/ life[o] # "alive" \/ server[o] = None
                      \/ \E s \in Sessions : server[o] = s /\ at[s] = "gone")

-----------------------------------------------------------------------------
(* TexRouterServer::operator()(NewOrderSingle) and what it calls.          *)

(* The order is made and on_fix_server_changed(&server) called: server_ is *)
(* null, so the session is only assigned.                                  *)
NewOrderSingle(s, o) ==
  /\ at[s] = "idle"
  /\ life[o] = "unborn"
  /\ life' = [life EXCEPT ![o] = "alive"]
  /\ server' = [server EXCEPT ![o] = s]
  /\ ord' = [ord EXCEPT ![s] = o]
  /\ Goto(s, "subscribing")
  /\ UNCHANGED <<subscribed, bookVars, book, about, read, calls, drops, walk,
                 misused>>
  /\ Watch

(* subscribe_to_fix_events, in two steps.                                  *)
Subscribe(s) ==
  /\ at[s] = "subscribing"
  /\ read' = [read EXCEPT ![s] = subscribed[s]]
  /\ Goto(s, "appending")
  /\ UNCHANGED <<linkVars, bookVars, ord, book, about, calls, drops, walk,
                 misused>>
  /\ Watch

AppendOrder(s) ==
  /\ at[s] = "appending"
  /\ subscribed' = [subscribed EXCEPT ![s] = read[s] \cup {ord[s]}]
  /\ read' = [read EXCEPT ![s] = {}]
  /\ Goto(s, "adding")
  /\ UNCHANGED <<life, server, bookVars, ord, book, about, calls, drops,
                 walk, misused>>
  /\ Watch

(* add_order returns false: on_fix_server_changed(nullptr).                *)
AddRefused(s) ==
  /\ at[s] = "adding"
  /\ walk' = [walk EXCEPT ![s] = {ord[s]}]
  /\ Goto(s, "walking")
  /\ UNCHANGED <<linkVars, bookVars, ord, book, about, read, calls, drops,
                 misused>>
  /\ Watch

(* add_order finds the book of the order's symbol.                         *)
GetBook(s, b) ==
  /\ at[s] = "adding"
  /\ book' = [book EXCEPT ![s] = b]
  /\ Goto(s, "locking")
  /\ UNCHANGED <<linkVars, bookVars, ord, about, read, calls, drops, walk, misused>>
  /\ Watch

(* book.add: the order is matched with `matched`; the ones filled leave    *)
(* the book, at most one is filled in part, and the incoming order rests   *)
(* only if it used up all it met.  It does not rest when it is filled or   *)
(* refused by the book.  The matched orders are then called back.          *)
Match(s, b, matched, filled, rests) ==
  /\ Cardinality(matched \ filled) <= 1
  /\ rests => filled = matched
  /\ resting' = [resting EXCEPT ![b] =
                   (@ \ filled) \cup {o \in {ord[s]} : rests}]
  /\ calls' = [calls EXCEPT ![s] = matched]
  /\ drops' = [drops EXCEPT ![s] = filled]

(* add_order takes the mutex of the book and adds the order to it.         *)
AddOrder(s, b) ==
  /\ at[s] = "locking"
  /\ book[s] = b
  /\ holder[b] = None
  /\ holder' = [holder EXCEPT ![b] = s]
  /\ \E matched \in SUBSET resting[b], rests \in BOOLEAN :
     \E filled \in SUBSET matched : Match(s, b, matched, filled, rests)
  /\ Goto(s, "calling")
  /\ UNCHANGED <<linkVars, ord, book, about, read, walk, misused>>
  /\ Watch

-----------------------------------------------------------------------------
(* Order::on_filled of an order the incoming one met.                      *)

(* "if (server_ != nullptr)": there is no report without a session.        *)
OnFilled(s, o) ==
  /\ at[s] = "calling"
  /\ o \in calls[s]
  /\ calls' = [calls EXCEPT ![s] = @ \ {o}]
  /\ IF server[o] = None
     THEN UNCHANGED <<at, about>>
     ELSE /\ about' = [about EXCEPT ![s] = o]
          /\ Goto(s, "stamping")
  /\ UseOrder(o)
  /\ UNCHANGED <<linkVars, bookVars, ord, book, read, drops, walk>>
  /\ Watch

(* build_execution_report: server_ is tested again and asked for an id.    *)
NextExecId(s) ==
  /\ at[s] = "stamping"
  /\ IF server[about[s]] = None THEN UseOrder(about[s]) ELSE UseServer(about[s])
  /\ Goto(s, "sending")
  /\ UNCHANGED <<linkVars, bookVars, ord, book, about, read, calls, drops,
                 walk>>
  /\ Watch

(* server_->send, with no test of its own.                                 *)
Send(s) ==
  /\ at[s] = "sending"
  /\ UseServer(about[s])
  /\ about' = [about EXCEPT ![s] = None]
  /\ Goto(s, "calling")
  /\ UNCHANGED <<linkVars, bookVars, ord, book, read, calls, drops, walk>>
  /\ Watch

(* The book has called back every order it matched.                        *)
Called(s) ==
  /\ at[s] = "calling"
  /\ calls[s] = {}
  /\ Goto(s, "dropping")
  /\ UNCHANGED <<linkVars, bookVars, ord, book, about, read, calls, drops,
                 walk, misused>>
  /\ Watch

-----------------------------------------------------------------------------
(* shared_ptrs are released; the last one of an order runs ~Order.         *)

DropShared(s, o) ==
  /\ at[s] = "dropping"
  /\ o \in drops[s]
  /\ Kept(s, o)
  /\ drops' = [drops EXCEPT ![s] = @ \ {o}]
  /\ UNCHANGED <<linkVars, bookVars, at, ord, book, about, read, calls, walk,
                 misused>>
  /\ Watch

(* A mutant: ~Order does not look at server_.                              *)
DropUntold(s, o) ==
  /\ at[s] = "dropping"
  /\ o \in drops[s]
  /\ ~Kept(s, o)
  /\ UseOrder(o)
  /\ life' = [life EXCEPT ![o] = "destroyed"]
  /\ drops' = [drops EXCEPT ![s] = @ \ {o}]
  /\ UNCHANGED <<server, subscribed, bookVars, at, ord, book, about, read,
                 calls, walk>>
  /\ Watch

(* ~Order with no session to tell.                                         *)
DropUnlinked(s, o) ==
  /\ at[s] = "dropping"
  /\ o \in drops[s]
  /\ ~Kept(s, o)
  /\ server[o] = None
  /\ UseOrder(o)
  /\ life' = [life EXCEPT ![o] = "destroyed"]
  /\ drops' = [drops EXCEPT ![s] = @ \ {o}]
  /\ UNCHANGED <<server, subscribed, bookVars, at, ord, book, about, read,
                 calls, walk>>
  /\ Watch

(* ~Order calls server_->unsubscribe_from_fix_events(this).                *)
DropLinked(s, o) ==
  /\ at[s] = "dropping"
  /\ o \in drops[s]
  /\ ~Kept(s, o)
  /\ server[o] # None
  /\ UseOrder(o)
  /\ about' = [about EXCEPT ![s] = o]
  /\ drops' = [drops EXCEPT ![s] = @ \ {o}]
  /\ Goto(s, "erasing")
  /\ UNCHANGED <<linkVars, bookVars, ord, book, read, calls, walk>>
  /\ Watch

(* A mutant: the mutex is not given back.                                  *)
UnlockForgotten(s) ==
  /\ at[s] = "dropping"
  /\ drops[s] = {}
  /\ ord[s] # None
  /\ book' = [book EXCEPT ![s] = None]
  /\ Goto(s, "returning")
  /\ UNCHANGED <<linkVars, bookVars, ord, about, read, calls, drops,
                 walk, misused>>
  /\ Watch

(* add_order gives the mutex back and returns true.                        *)
Unlock(s) ==
  /\ at[s] = "dropping"
  /\ drops[s] = {}
  /\ ord[s] # None
  /\ holder' = [holder EXCEPT ![book[s]] = None]
  /\ book' = [book EXCEPT ![s] = None]
  /\ Goto(s, "returning")
  /\ UNCHANGED <<linkVars, resting, ord, about, read, calls, drops,
                 walk, misused>>
  /\ Watch

(* A mutant: `ord` is reset before it is handed on.                        *)
ReturnResetFirst(s) ==
  /\ at[s] = "returning"
  /\ ord' = [ord EXCEPT ![s] = None]
  /\ drops' = [drops EXCEPT ![s] = {ord'[s]}]
  /\ Goto(s, "dropping")
  /\ UNCHANGED <<linkVars, bookVars, book, about, read, calls, walk, misused>>
  /\ Watch

(* The handler returns; its `ord` is released.                             *)
Return(s) ==
  /\ at[s] = "returning"
  /\ drops' = [drops EXCEPT ![s] = {ord[s]}]
  /\ ord' = [ord EXCEPT ![s] = None]
  /\ Goto(s, "dropping")
  /\ UNCHANGED <<linkVars, bookVars, book, about, read, calls, walk, misused>>
  /\ Watch

Returned(s) ==
  /\ at[s] = "dropping"
  /\ drops[s] = {}
  /\ ord[s] = None
  /\ Goto(s, "idle")
  /\ UNCHANGED <<linkVars, bookVars, ord, book, about, read, calls, drops,
                 walk, misused>>
  /\ Watch

-----------------------------------------------------------------------------
(* on_fix_server_changed(nullptr), for the order refused or, from          *)
(* ~LatinexSessionServer, for every order in a copy of the vector.         *)

(* A mutant: a session without a destructor of its own.                    *)
EndSessionUnwalked(s) ==
  /\ at[s] = "idle"
  /\ Goto(s, "walking")
  /\ UNCHANGED <<linkVars, bookVars, ord, book, about, read, calls, drops,
                 walk, misused>>
  /\ Watch

EndSession(s) ==
  /\ at[s] = "idle"
  /\ walk' = [walk EXCEPT ![s] = subscribed[s]]
  /\ Goto(s, "walking")
  /\ UNCHANGED <<linkVars, bookVars, ord, book, about, read, calls, drops,
                 misused>>
  /\ Watch

WalkUnlinked(s, o) ==
  /\ at[s] = "walking"
  /\ o \in walk[s]
  /\ server[o] = None
  /\ UseOrder(o)
  /\ walk' = [walk EXCEPT ![s] = @ \ {o}]
  /\ UNCHANGED <<linkVars, bookVars, at, ord, book, about, read, calls, drops>>
  /\ Watch

WalkLinked(s, o) ==
  /\ at[s] = "walking"
  /\ o \in walk[s]
  /\ server[o] # None
  /\ UseOrder(o)
  /\ about' = [about EXCEPT ![s] = o]
  /\ Goto(s, "erasing")
  /\ UNCHANGED <<linkVars, bookVars, ord, book, read, calls, drops, walk>>
  /\ Watch

(* unsubscribe_from_fix_events, in two steps.                              *)
Unsubscribe(s) ==
  /\ at[s] = "erasing"
  /\ UseServer(about[s])
  /\ read' = [read EXCEPT ![s] = UNION {subscribed[x] : x \in LinkOf(about[s])}]
  /\ Goto(s, "erased")
  /\ UNCHANGED <<linkVars, bookVars, ord, book, about, calls, drops, walk>>
  /\ Watch

Erased(s) ==
  subscribed' = [x \in Sessions |-> IF x \in LinkOf(about[s])
                                    THEN read[s] \ {about[s]}
                                    ELSE subscribed[x]]

(* ... called by ~Order                                                    *)
EraseDestroyed(s) ==
  /\ at[s] = "erased"
  /\ walk[s] = {}
  /\ UseServer(about[s])
  /\ Erased(s)
  /\ life' = [life EXCEPT ![about[s]] = "destroyed"]
  /\ about' = [about EXCEPT ![s] = None]
  /\ read' = [read EXCEPT ![s] = {}]
  /\ Goto(s, "dropping")
  /\ UNCHANGED <<server, bookVars, ord, book, calls, drops, walk>>
  /\ Watch

(* ... called by on_fix_server_changed                                     *)
EraseUnlinked(s) ==
  /\ at[s] = "erased"
  /\ walk[s] # {}
  /\ UseServer(about[s])
  /\ Erased(s)
  /\ read' = [read EXCEPT ![s] = {}]
  /\ Goto(s, "assigning")
  /\ UNCHANGED <<life, server, bookVars, ord, book, about, calls, drops, walk>>
  /\ Watch

(* A mutant: server_ is left as it was.                                    *)
AssignForgotten(s) ==
  /\ at[s] = "assigning"
  /\ UseOrder(about[s])
  /\ walk' = [walk EXCEPT ![s] = @ \ {about[s]}]
  /\ about' = [about EXCEPT ![s] = None]
  /\ Goto(s, "walking")
  /\ UNCHANGED <<linkVars, bookVars, ord, book, read, calls, drops>>
  /\ Watch

(* "server_ = server", which is null.                                      *)
Assign(s) ==
  /\ at[s] = "assigning"
  /\ UseOrder(about[s])
  /\ server' = [server EXCEPT ![about[s]] = None]
  /\ walk' = [walk EXCEPT ![s] = @ \ {about[s]}]
  /\ about' = [about EXCEPT ![s] = None]
  /\ Goto(s, "walking")
  /\ UNCHANGED <<life, subscribed, bookVars, ord, book, read, calls, drops>>
  /\ Watch

RefusedReturns(s) ==
  /\ at[s] = "walking"
  /\ walk[s] = {}
  /\ ord[s] # None
  /\ Goto(s, "returning")
  /\ UNCHANGED <<linkVars, bookVars, ord, book, about, read, calls, drops,
                 walk, misused>>
  /\ Watch

(* The session object is gone.                                             *)
SessionGone(s) ==
  /\ at[s] = "walking"
  /\ walk[s] = {}
  /\ ord[s] = None
  /\ Goto(s, "gone")
  /\ UNCHANGED <<linkVars, bookVars, ord, book, about, read, calls, drops,
                 walk, misused>>
  /\ Watch

-----------------------------------------------------------------------------
(* What the thread of a session does once it has begun.                    *)
Step(s) ==
  \/ Subscribe(s) \/ AppendOrder(s) \/ AddRefused(s)
  \/ \E b \in Books : GetBook(s, b) \/ AddOrder(s, b)
  \/ \E o \in Orders : OnFilled(s, o)
  \/ NextExecId(s) \/ Send(s) \/ Called(s)
  \/ \E o \in Orders : DropShared(s, o) \/ DropUnlinked(s, o) \/ DropLinked(s, o)
  \/ Unlock(s) \/ Return(s) \/ Returned(s)
  \/ \E o \in Orders : WalkUnlinked(s, o) \/ WalkLinked(s, o)
  \/ Unsubscribe(s) \/ EraseDestroyed(s) \/ EraseUnlinked(s) \/ Assign(s)
  \/ RefusedReturns(s) \/ SessionGone(s)

Next == \E s \in Sessions :
          \/ \E o \in Orders : NewOrderSingle(s, o)
          \/ EndSession(s)
          \/ Step(s)

Spec == Init /\ [][Next]_vars

(* Every thread goes on with what it has begun; clients need not send      *)
(* orders, and sessions need not end.                                      *)
FairSpec == Spec /\ \A s \in Sessions : WF_vars(Step(s))

-----------------------------------------------------------------------------
(* Type invariant.                                                         *)
TypeOK ==
  /\ life \in [Orders -> {"unborn", "alive", "destroyed"}]
  /\ server \in [Orders -> Sessions \cup {None}]
  /\ subscribed \in [Sessions -> SUBSET Orders]
  /\ resting \in [Books -> SUBSET Orders]
  /\ holder \in [Books -> Sessions \cup {None}]
  /\ at \in [Sessions -> Places]
  /\ ord \in [Sessions -> Orders \cup {None}]
  /\ book \in [Sessions -> Books \cup {None}]
  /\ about \in [Sessions -> Orders \cup {None}]
  /\ read \in [Sessions -> SUBSET Orders]
  /\ calls \in [Sessions -> SUBSET Orders]
  /\ drops \in [Sessions -> SUBSET Orders]
  /\ walk \in [Sessions -> SUBSET Orders]
  /\ misused \in BOOLEAN
  /\ overlapped \in BOOLEAN

(* No thread uses a destroyed order or session, or sends through a null    *)
(* server_, unless two threads have worked on the links of one session at  *)
(* once: the copy in ~LatinexSessionServer and the shared_ptrs are enough  *)
(* as long as the calls do not overlap.                                    *)
MisusedAfterOverlap == misused => overlapped

(* Until two threads have worked on the links of one session at once, both *)
(* sides of the link agree: a session lists living orders that point to    *)
(* it, and a living order points to a session that exists and lists it,    *)
(* but for the order whose link a thread is changing.                      *)
LinksAgree ==
  overlapped \/
  \A s \in Sessions, o \in Orders :
    /\ o \in subscribed[s] => life[o] = "alive" /\ server[o] = s
    /\ life[o] = "alive" /\ server[o] = s =>
         /\ at[s] # "gone"
         /\ \/ o \in subscribed[s]
            \/ at[s] \in {"subscribing", "appending"} /\ ord[s] = o
            \/ at[s] = "assigning" /\ about[s] = o

(* Refinement: a destroyed order is linked to no session.                  *)
Links == INSTANCE SessionLinks WITH
  open <- {s \in Sessions : at[s] # "gone"},
  linked <- [o \in Orders |-> IF life[o] = "alive" THEN server[o] ELSE None]

(* Until threads overlap, orders and sessions keep the promise of          *)
(* SessionLinks: an order is linked to one session, which stays until it   *)
(* has unlinked the order.                                                 *)
KeepsLinks == Links!Init /\ [][Links!Next \/ overlapped']_(Links!vars)

(* A handler returns and a destructor that runs ends, overlapped or not:   *)
(* the session's thread gets back to its connection, or the session is     *)
(* gone.                                                                   *)
CallsEnd == \A s \in Sessions :
  at[s] \notin {"idle", "gone"} ~> at[s] \in {"idle", "gone"}
=============================================================================
