---------------------------- MODULE ExchangeServer ----------------------------
(***************************************************************************)
(* The life of an ExchangeServer (src/src/exchange_server.cpp): the thread *)
(* of run(), which starts a thread of server_process for each connection,  *)
(* those threads, and the destructor, which main calls on SIGINT.          *)
(*                                                                         *)
(* Fix8 is modelled from its use: poll tells that a connection waits on    *)
(* the listening socket, create_server_instance takes one off it and       *)
(* blocks while there is none, is_shutdown becomes true when the client    *)
(* has left.  connectionThreads is shared by run() and the destructor      *)
(* without a lock: an emplace_back inside the destructor's loop moves the  *)
(* threads the loop's iterators point at, which may end the program or go  *)
(* unnoticed.  Corruption beyond that is not represented.                  *)
(***************************************************************************)
EXTENDS Naturals, FiniteSets

CONSTANTS
  Clients,         \* each connects once
  MaxConnections,  \* bound: connections made in a behaviour
  MaxThreads       \* bound: threads of server_process

ASSUME ExchangeServerAssumption == MaxConnections \in Nat /\ MaxThreads \in Nat

VARIABLES
  client,      \* "away", "waiting" on the socket, "in" or "left"
  acceptor,    \* where message_thread is in run()
  started,     \* threads of server_process started so far
  thread,      \* where each of them is
  serves,      \* the client each of them serves, a set of at most one
  vector,      \* the threads in connectionThreads
  joined,      \* the threads that have been joined
  dtor,        \* where the destructor is
  walk,        \* the threads its loop has still to join
  late,        \* history: a thread was started after that loop had begun
  threw,       \* history: an exception has left server_process
  terminated   \* std::terminate, or undefined behaviour that ended it all

shuttingDown == dtor # "alive"

threadVars == <<started, thread, serves>>
dtorVars == <<joined, dtor, walk>>
endVars == <<late, threw, terminated>>
vars == <<client, acceptor, threadVars, vector, dtorVars, endVars>>

ThreadIds == 1..MaxThreads
Waiting == {c \in Clients : client[c] = "waiting"}

Init ==
  /\ client = [c \in Clients |-> "away"]
  /\ acceptor = "loop"
  /\ started = 0
  /\ thread = [t \in ThreadIds |-> "none"]
  /\ serves = [t \in ThreadIds |-> {}]
  /\ vector = {}
  /\ joined = {}
  /\ dtor = "alive"
  /\ walk = {}
  /\ late = FALSE
  /\ threw = FALSE
  /\ terminated = FALSE

-----------------------------------------------------------------------------
(* Clients, as far as the server sees them.                                *)

Connect(c) ==
  /\ ~terminated
  /\ client[c] = "away"
  /\ Cardinality({d \in Clients : client[d] # "away"}) < MaxConnections
  /\ dtor \notin {"members", "done"}
  /\ client' = [client EXCEPT ![c] = "waiting"]
  /\ UNCHANGED <<acceptor, threadVars, vector, dtorVars, endVars>>

Leave(c) ==
  /\ ~terminated
  /\ client[c] = "in"
  /\ client' = [client EXCEPT ![c] = "left"]
  /\ UNCHANGED <<acceptor, threadVars, vector, dtorVars, endVars>>

-----------------------------------------------------------------------------
(* run().                                                                  *)

AcceptorGoes(l) ==
  /\ ~terminated
  /\ acceptor' = l
  /\ UNCHANGED <<client, threadVars, vector, dtorVars, endVars>>

LoopEnds == acceptor = "loop" /\ shuttingDown /\ AcceptorGoes("ended")

Poll == /\ acceptor = "loop"
        /\ ~shuttingDown
        /\ Waiting # {}
        /\ AcceptorGoes("polled")

(* poll throws: the exception is caught outside the loop.                  *)
RunThrows == acceptor = "loop" /\ ~shuttingDown /\ AcceptorGoes("ended")

(* Mutant: one connection and no more.                                     *)
CheckAgainOnce ==
  /\ acceptor = "polled"
  /\ AcceptorGoes(IF shuttingDown \/ started > 0 THEN "loop" ELSE "emplace")

(* shutting_down is read again after poll, and not again after that.       *)
CheckAgain ==
  /\ acceptor = "polled"
  /\ AcceptorGoes(IF shuttingDown THEN "loop" ELSE "emplace")

(* connectionThreads.emplace_back(&ExchangeServer::server_process ...).    *)
Emplace ==
  LET t == started + 1
  IN  /\ ~terminated
      /\ acceptor = "emplace"
      /\ t \in ThreadIds
      /\ started' = t
      /\ thread' = [thread EXCEPT ![t] = "create"]
      /\ vector' = vector \cup {t}
      /\ \/ UNCHANGED terminated
         \/ walk # {} /\ terminated' = TRUE
      /\ late' = (late \/ dtor \notin {"alive", "flagged"})
      /\ acceptor' = "sleep"
      /\ UNCHANGED <<client, serves, threw, dtorVars>>

(* The 100 ms of run() are over, whatever the new thread has done in them. *)
Wake == acceptor = "sleep" /\ AcceptorGoes("loop")

-----------------------------------------------------------------------------
(* server_process.                                                         *)

ThreadGoes(t, l) ==
  /\ ~terminated
  /\ thread' = [thread EXCEPT ![t] = l]
  /\ UNCHANGED <<acceptor, started, vector, dtorVars, endVars>>

(* Mutant: the connection stays on the socket for the next thread, too.    *)
TakeConnectionKeeps(t) ==
  /\ thread[t] = "create"
  /\ \E c \in Waiting : serves' = [serves EXCEPT ![t] = {c}]
  /\ ThreadGoes(t, "serve")
  /\ UNCHANGED client

(* create_server_instance and start.                                       *)
TakeConnection(t) ==
  /\ thread[t] = "create"
  /\ \E c \in Waiting : /\ client' = [client EXCEPT ![c] = "in"]
                        /\ serves' = [serves EXCEPT ![t] = {c}]
  /\ ThreadGoes(t, "serve")

(* One of them throws, and nothing in server_process catches it.           *)
ProcessThrows(t) ==
  /\ ~terminated
  /\ thread[t] = "create"
  /\ threw' = TRUE
  /\ terminated' = TRUE
  /\ UNCHANGED <<client, acceptor, threadVars, vector, dtorVars, late>>

(* is_shutdown is seen, the instance is stopped and destroyed.             *)
FinishServing(t) ==
  /\ thread[t] = "serve"
  /\ \A c \in serves[t] : client[c] = "left"
  /\ ThreadGoes(t, "ended")
  /\ UNCHANGED <<client, serves>>

-----------------------------------------------------------------------------
(* ~ExchangeServer.                                                        *)

DtorGoes(l) ==
  /\ ~terminated
  /\ dtor' = l
  /\ UNCHANGED <<client, acceptor, threadVars, late, threw>>

(* Mutant: fix8Server is released before the threads are joined.           *)
DestroyReleases ==
  /\ dtor = "alive"
  /\ DtorGoes("members")
  /\ UNCHANGED <<vector, joined, walk, terminated>>

(* shutting_down = true.                                                   *)
Destroy ==
  /\ dtor = "alive"
  /\ DtorGoes("flagged")
  /\ UNCHANGED <<vector, joined, walk, terminated>>

(* Mutant: the loop passes over the threads.                               *)
StartWalkEmpty ==
  /\ dtor = "flagged"
  /\ walk' = {}
  /\ DtorGoes("join")
  /\ UNCHANGED <<vector, joined, terminated>>

(* The loop's begin and end are taken: later threads are not seen by it.   *)
StartWalk ==
  /\ dtor = "flagged"
  /\ walk' = vector
  /\ DtorGoes("join")
  /\ UNCHANGED <<vector, joined, terminated>>

JoinConnection ==
  /\ dtor = "join"
  /\ \E t \in walk : /\ \A u \in walk : t <= u
                     /\ thread[t] = "ended"
                     /\ joined' = joined \cup {t}
                     /\ walk' = walk \ {t}
  /\ DtorGoes("join")
  /\ UNCHANGED <<vector, terminated>>

EndWalk ==
  /\ dtor = "join"
  /\ walk = {}
  /\ DtorGoes("clear")
  /\ UNCHANGED <<vector, joined, walk, terminated>>

(* A std::thread that is destroyed without having been joined calls        *)
(* std::terminate.                                                         *)
DestroyThreads ==
  /\ terminated' = ~(vector \subseteq joined)
  /\ vector' = {}

(* Mutant: the threads are detached when the vector is emptied.            *)
ClearDetaches ==
  /\ dtor = "clear"
  /\ vector' = {}
  /\ DtorGoes("acceptor")
  /\ UNCHANGED <<joined, walk, terminated>>

(* connectionThreads = std::vector<std::thread>().                         *)
Clear ==
  /\ dtor = "clear"
  /\ DestroyThreads
  /\ DtorGoes("acceptor")
  /\ UNCHANGED <<joined, walk>>

(* message_thread.join().                                                  *)
JoinAcceptor ==
  /\ dtor = "acceptor"
  /\ acceptor = "ended"
  /\ DtorGoes("release")
  /\ UNCHANGED <<vector, joined, walk, terminated>>

(* fix8Server = nullptr.                                                   *)
Release ==
  /\ dtor = "release"
  /\ DtorGoes("members")
  /\ UNCHANGED <<vector, joined, walk, terminated>>

(* The members are destroyed, connectionThreads first.                     *)
DestroyMembers ==
  /\ dtor = "members"
  /\ DestroyThreads
  /\ DtorGoes("done")
  /\ UNCHANGED <<joined, walk>>

-----------------------------------------------------------------------------
Acceptor == LoopEnds \/ Poll \/ CheckAgain \/ Emplace \/ Wake
Serve(t) == TakeConnection(t) \/ FinishServing(t)
DtorStep == StartWalk \/ JoinConnection \/ EndWalk \/ Clear \/ JoinAcceptor
            \/ Release \/ DestroyMembers

Next ==
  \/ \E c \in Clients : Connect(c) \/ Leave(c)
  \/ Acceptor \/ RunThrows
  \/ \E t \in ThreadIds : Serve(t) \/ ProcessThrows(t)
  \/ Destroy \/ DtorStep

Spec == Init /\ [][Next]_vars

-----------------------------------------------------------------------------
(* Properties.                                                             *)

(* Every variable has its type; no more than one thread serves a client.   *)
TypeOK ==
  /\ client \in [Clients -> {"away", "waiting", "in", "left"}]
  /\ acceptor \in {"loop", "polled", "emplace", "sleep", "ended"}
  /\ started \in 0..MaxThreads
  /\ thread \in [ThreadIds -> {"none", "create", "serve", "ended"}]
  /\ serves \in [ThreadIds -> SUBSET Clients]
  /\ \A t, u \in ThreadIds : serves[t] \cap serves[u] # {} => t = u
  /\ vector \subseteq ThreadIds
  /\ joined \subseteq ThreadIds
  /\ dtor \in {"alive", "flagged", "join", "clear", "acceptor", "release",
               "members", "done"}
  /\ walk \subseteq ThreadIds
  /\ late \in BOOLEAN /\ threw \in BOOLEAN /\ terminated \in BOOLEAN

(* The destructor joins what run() has started: a thread object is         *)
(* destroyed, or moved under the destructor's hands, while its thread may  *)
(* still run only if run() started it after the loop had begun.  (An       *)
(* exception that leaves server_process ends the program by itself.)       *)
JoinsEarlierThreads == ~late /\ ~threw => ~terminated

(* The same of all threads: the destructor's "Joining connection threads". *)
JoinsAllThreads == ~threw => ~terminated

(* Nobody uses the Fix8 server after it was released: neither poll in      *)
(* run() nor, unless it was started late, the thread of a connection.      *)
UsesLiveServer ==
  dtor \in {"members", "done"} =>
    /\ acceptor = "ended"
    /\ ~late => \A t \in ThreadIds : thread[t] # "create"

(* When the destructor is through (and has not ended the program), no      *)
(* thread is left that uses the server's members.                          *)
NoThreadOutlives ==
  dtor = "done" /\ ~terminated =>
    /\ acceptor = "ended"
    /\ \A t \in ThreadIds : thread[t] \in {"none", "ended"}

(* Who connects to a server that goes on listening is served: a client     *)
(* connects once, and time and again nobody waits.                         *)
ClientsServed == []<>(Waiting = {} \/ acceptor = "ended" \/ terminated)
=============================================================================
