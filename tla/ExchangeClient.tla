---------------------------- MODULE ExchangeClient ----------------------------
(***************************************************************************)
(* A program with an ExchangeClient (src/src/exchange_client.cpp) among    *)
(* the clients of an ExchangeServer: its message_thread, which runs        *)
(* client_process, and its destructor.                                     *)
(*                                                                         *)
(* Fix8's ReliableClientSession is modelled from its use: session_ptr() is *)
(* null until there is a session, a session that was shut down may be      *)
(* replaced by a new one at any time, a session is shut down by stop, by   *)
(* an answered Logout or by the loss of its connection, and the destructor *)
(* of the base class ends what is left.  Each session makes one connection *)
(* to the server.  The memory of a session that was replaced is taken to   *)
(* keep the state the session ended with.                                  *)
(***************************************************************************)
EXTENDS ExchangeServer, Sequences

CONSTANT Sessions   \* the connections of the program, one after another

Own == {Sessions[i] : i \in DOMAIN Sessions}

ASSUME ExchangeClientAssumption ==
  /\ Sessions \in Seq(Clients)
  /\ \A i, j \in DOMAIN Sessions : Sessions[i] = Sessions[j] => i = j

VARIABLES
  session,      \* what session_ptr() is: a place in Sessions, 0 for null
  connection,   \* ExchangeClient::connection, likewise
  poller,       \* where message_thread is in client_process
  program,      \* "running"; "destroyed" when ~ExchangeClient has begun
  shut          \* the program's sessions that are shut down

clientVars == <<session, connection, poller, program, shut>>
venueVars == <<vars, clientVars>>

Current == Sessions[session]

ClientInit ==
  /\ Init
  /\ session = 0
  /\ connection = 0
  /\ poller = "loop"
  /\ program = "running"
  /\ shut = {}

-----------------------------------------------------------------------------
(* Fix8.                                                                   *)

Lives == program \in {"running", "destroyed"}

NewSession ==
  /\ Lives
  /\ session < Len(Sessions)
  /\ session # 0 => Current \in shut
  /\ session' = session + 1
  /\ UNCHANGED <<vars, connection, poller, program, shut>>

ConnectSession ==
  /\ Lives
  /\ session # 0
  /\ Current \notin shut
  /\ Connect(Current)
  /\ UNCHANGED clientVars

(* The connection is lost, or a Logout was answered.                       *)
Lose ==
  /\ Lives
  /\ session # 0
  /\ Current \notin shut
  /\ client[Current] # "away"
  /\ shut' = shut \cup {Current}
  /\ UNCHANGED <<vars, session, connection, poller, program>>

(* The server learns that a session is over.                               *)
Closed(c) == c \in shut /\ Leave(c) /\ UNCHANGED clientVars

-----------------------------------------------------------------------------
(* client_process.                                                         *)

PollerGoes(l) ==
  /\ Lives
  /\ poller' = l
  /\ UNCHANGED <<vars, session, connection, program>>

(* Mutant: the test of `connection' is the wrong way round.                *)
SetConnectionSwapped ==
  /\ Lives
  /\ poller = "loop"
  /\ connection # 0
  /\ session # 0
  /\ connection' = session
  /\ UNCHANGED <<vars, session, poller, program, shut>>

(* shutting_down may have been set since the loop tested it.               *)
SetConnection ==
  /\ Lives
  /\ poller = "loop"
  /\ connection = 0
  /\ session # 0
  /\ connection' = session
  /\ UNCHANGED <<vars, session, poller, program, shut>>

(* Mutant: the loop goes on until the session is logged in.                *)
LoopLeftLoggedIn ==
  /\ poller = "loop"
  /\ program = "destroyed"
  /\ session # 0
  /\ client[Current] = "in"
  /\ PollerGoes("test")
  /\ UNCHANGED shut

LoopLeft ==
  /\ poller = "loop"
  /\ program = "destroyed"
  /\ PollerGoes("test")
  /\ UNCHANGED shut

(* session_ptr()->is_shutdown() with a null session_ptr().                 *)
NullSession ==
  /\ poller = "test"
  /\ session = 0
  /\ program' = "crashed"
  /\ UNCHANGED <<vars, session, connection, poller, shut>>

(* is_shutdown() before the Logout is sent, and again 2 s after it.        *)
IsShut ==
  /\ poller \in {"test", "wait"}
  /\ session # 0
  /\ Current \in shut
  /\ PollerGoes("ended")
  /\ UNCHANGED shut

IsNotShut ==
  /\ poller \in {"test", "wait"}
  /\ session # 0
  /\ Current \notin shut
  /\ PollerGoes(IF poller = "test" THEN "logout" ELSE "stop")
  /\ UNCHANGED shut

(* Whether the Logout was sent is logged.                                  *)
SendLogout == poller = "logout" /\ PollerGoes("wait") /\ UNCHANGED shut

(* "catch (...)".                                                          *)
Throws ==
  /\ poller \in {"logout", "stop"}
  /\ PollerGoes("ended")
  /\ UNCHANGED shut

(* Mutant: instead of being stopped, the session is waited for.            *)
StopWaits ==
  /\ poller = "stop"
  /\ Current \in shut
  /\ PollerGoes("ended")
  /\ UNCHANGED shut

Stop ==
  /\ poller = "stop"
  /\ shut' = shut \cup {Current}
  /\ PollerGoes("ended")

-----------------------------------------------------------------------------
(* ~ExchangeClient.                                                        *)

(* shutting_down = true.                                                   *)
DestroyClient ==
  /\ program = "running"
  /\ program' = "destroyed"
  /\ UNCHANGED <<vars, session, connection, poller, shut>>

(* message_thread.join(), and ~ReliableClientSession.                      *)
ClientGone ==
  /\ program = "destroyed"
  /\ poller = "ended"
  /\ program' = "ended"
  /\ shut' = {Sessions[i] : i \in 1..session}
  /\ UNCHANGED <<vars, session, connection, poller>>

-----------------------------------------------------------------------------
Fix8 == NewSession \/ ConnectSession \/ Lose
Poller == SetConnection \/ LoopLeft \/ NullSession \/ IsShut \/ IsNotShut
          \/ SendLogout \/ Stop

ClientNext ==
  \/ Acceptor /\ UNCHANGED clientVars
  \/ RunThrows /\ UNCHANGED clientVars
  \/ \E t \in ThreadIds : (Serve(t) \/ ProcessThrows(t)) /\ UNCHANGED clientVars
  \/ Destroy /\ UNCHANGED clientVars
  \/ DtorStep /\ UNCHANGED clientVars
  \/ \E c \in Clients \ Own : (Connect(c) \/ Leave(c)) /\ UNCHANGED clientVars
  \/ \E c \in Own : Closed(c)
  \/ Fix8 \/ Poller \/ Throws
  \/ DestroyClient \/ ClientGone

ClientSpec == ClientInit /\ [][ClientNext]_venueVars

(* The threads of server and client run and the server learns of sessions  *)
(* that are over; whether Fix8 makes and loses sessions, whether and when  *)
(* other clients come and go, and whether client and server are destroyed  *)
(* is left open.  (Each thread of server_process takes two steps at most,  *)
(* so that fairness of them together is fairness of each.)                 *)
ClientFairSpec ==
  /\ ClientSpec
  /\ WF_venueVars(Acceptor /\ UNCHANGED clientVars)
  /\ WF_venueVars(DtorStep /\ UNCHANGED clientVars)
  /\ WF_venueVars((\E t \in ThreadIds : Serve(t)) /\ UNCHANGED clientVars)
  /\ WF_venueVars(Poller \/ ClientGone)
  /\ WF_venueVars(\E c \in Own : Closed(c))

-----------------------------------------------------------------------------
(* Type invariant, with that of the server.                                *)
ClientTypeOK ==
  /\ TypeOK
  /\ session \in 0..Len(Sessions)
  /\ connection \in 0..session
  /\ poller \in {"loop", "test", "logout", "wait", "stop", "ended"}
  /\ program \in {"running", "destroyed", "crashed", "ended"}
  /\ shut \subseteq {Sessions[i] : i \in 1..session}

(* is_logged_in().                                                         *)
LoggedIn ==
  /\ connection # 0
  /\ client[Sessions[connection]] = "in"
  /\ Sessions[connection] \notin shut

(* The first login is seen: message_thread finds the session Fix8 made, so *)
(* that is_logged_in() answers yes while it is logged in.  (`connection'   *)
(* stays with that session: a login after a reconnection is not seen.)     *)
LoginSeen ==
  client[Sessions[1]] = "in" ~>
    LoggedIn \/ client[Sessions[1]] = "left" \/ Sessions[1] \in shut \/ ~Lives

(* The destructor of a client returns, whatever becomes of the session     *)
(* while message_thread logs out and stops it, once there was a session.   *)
ClientEnds == program = "destroyed" /\ session # 0 ~> program = "ended"

(* A client can be destroyed when it has not connected to anybody, as the  *)
(* test createClient does: client_process, which tests session_ptr()       *)
(* before it sets `connection', never uses a null one.                     *)
ClientNeverCrashes == program # "crashed"

(* The 100 ms that run() sleeps are enough for the thread it has started   *)
(* to take its connection.                                                 *)
Prompt == acceptor # "sleep" => \A t \in ThreadIds : thread[t] # "create"

(* The server's destructor, which joins the threads of connections that    *)
(* nothing asks to end, returns if the ExchangeClient is destroyed, too,   *)
(* the other clients leave, and every thread was prompt: one that was not  *)
(* leaves a thread without a connection, which the destructor waits for.   *)
VenueShutsDown ==
  /\ []Prompt
  /\ []<>(\A c \in Clients \ Own : client[c] # "in")
  /\ <>(program # "running")
  => (shuttingDown ~> dtor = "done" \/ terminated)
=============================================================================
