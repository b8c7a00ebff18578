------------------------- MODULE ExchangeClientProofs -------------------------
(***************************************************************************)
(* Theorems about an ExchangeServer with an ExchangeClient among its       *)
(* clients, for any clients, any number of reconnections and any bounds.   *)
(***************************************************************************)
EXTENDS ExchangeClient, ExchangeServerProofs

LEMMA OwnClients == \A i \in DOMAIN Sessions : Sessions[i] \in Clients
  BY ExchangeClientAssumption DEF ExchangeClientAssumption

(* What the program does is what the server allows its clients.            *)
LEMMA ServerStep ==
  ASSUME ClientTypeOK, [ClientNext]_venueVars
  PROVE  [Next]_vars
<1>1. CASE Acceptor \/ RunThrows \/ Destroy \/ DtorStep
  BY <1>1 DEF Next
<1>2. CASE \E t \in ThreadIds : Serve(t) \/ ProcessThrows(t)
  BY <1>2 DEF Next
<1>3. CASE \E c \in Clients \ Own : Connect(c) \/ Leave(c)
  BY <1>3 DEF Next
<1>4. CASE \E c \in Own : Closed(c)
  BY <1>4, OwnClients DEF Next, Own, Closed
<1>5. CASE ConnectSession
  <2>1. Current \in Clients
    BY <1>5, OwnClients, ExchangeClientAssumption
    DEF ConnectSession, Current, ClientTypeOK, ExchangeClientAssumption
  <2> QED
    BY <1>5, <2>1 DEF ConnectSession, Next
<1>6. CASE NewSession \/ Lose
  BY <1>6 DEF NewSession, Lose
<1>7. CASE Poller \/ Throws
  BY <1>7 DEF Poller, Throws, SetConnection, LoopLeft, NullSession, IsShut,
     IsNotShut, SendLogout, Stop, PollerGoes
<1>8. CASE DestroyClient \/ ClientGone
  BY <1>8 DEF DestroyClient, ClientGone
<1>9. CASE UNCHANGED venueVars
  BY <1>9 DEF venueVars
<1> QED
  BY <1>1, <1>2, <1>3, <1>4, <1>5, <1>6, <1>7, <1>8, <1>9 DEF ClientNext, Fix8

(* The types of both; message_thread gets beyond its test of the session   *)
(* only if there is one.                                                   *)
ClientInv ==
  /\ ServeInv
  /\ ClientTypeOK
  /\ poller \in {"logout", "wait", "stop"} => session # 0

LEMMA ClientStarts == ClientInit => ClientInv
<1> SUFFICES ASSUME ClientInit
             PROVE  ClientInv
  OBVIOUS
<1>1. ServeInv /\ TypeOK
  BY ServeInit DEF ClientInit, ServeInv
<1>2. Len(Sessions) \in Nat
  BY ExchangeClientAssumption DEF ExchangeClientAssumption
<1> QED
  BY <1>1, <1>2 DEF ClientInit, ClientInv, ClientTypeOK

LEMMA ClientStep == ClientInv /\ [ClientNext]_venueVars => ClientInv'
<1> SUFFICES ASSUME ClientInv, [ClientNext]_venueVars
             PROVE  ClientInv'
  OBVIOUS
<1>1. ServeInv' /\ TypeOK'
  BY ServerStep, ServeStep DEF ClientInv, ServeInv
<1>2. Len(Sessions) \in Nat
  BY ExchangeClientAssumption DEF ExchangeClientAssumption
<1> USE <1>1, <1>2 DEF ClientInv, ClientTypeOK, clientVars, Lives, Current
<1>3. CASE UNCHANGED clientVars
  BY <1>3
<1>4. CASE NewSession
  <2>1. session' \in 0..Len(Sessions) /\ session' = session + 1
    BY <1>4 DEF NewSession
  <2>2. \A i \in 1..session : i \in 1..session'
    BY <2>1
  <2>3. shut' \subseteq {Sessions[i] : i \in 1..session'}
    BY <1>4, <2>2 DEF NewSession
  <2>4. program # "crashed" /\ UNCHANGED <<connection, poller, program>>
    BY <1>4 DEF NewSession
  <2>5. connection' \in 0..session'
    BY <2>1, <2>4
  <2>6. /\ poller' \in {"loop", "test", "logout", "wait", "stop", "ended"}
        /\ program' \in {"running", "destroyed", "ended"}
    BY <2>4
  <2>7. ClientTypeOK'
    BY <2>1, <2>3, <2>5, <2>6
  <2> QED
    BY <2>1, <2>6, <2>7
<1>5. CASE Lose
  BY <1>5 DEF Lose
<1>6. CASE SetConnection
  BY <1>6 DEF SetConnection
<1>7. CASE LoopLeft \/ IsShut \/ IsNotShut \/ SendLogout \/ Throws
  BY <1>7 DEF LoopLeft, IsShut, IsNotShut, SendLogout, Throws, PollerGoes
<1>8. CASE NullSession
  BY <1>8 DEF NullSession
<1>9. CASE Stop
  BY <1>9 DEF Stop, PollerGoes
<1>10. CASE DestroyClient
  BY <1>10 DEF DestroyClient
<1>11. CASE ClientGone
  BY <1>11 DEF ClientGone
<1> QED
  BY <1>3, <1>4, <1>5, <1>6, <1>7, <1>8, <1>9, <1>10, <1>11
  DEF ClientNext, Fix8, Poller, ConnectSession, Closed, venueVars

(* Every reachable state of server and client is well typed.               *)
THEOREM ClientTypeCorrect == ClientSpec => []ClientTypeOK
<1>1. ClientInv => ClientTypeOK
  BY DEF ClientInv
<1> QED
  BY <1>1, ClientStarts, ClientStep, PTL DEF ClientSpec

(* Server and client together implement the specification of the server    *)
(* with arbitrary clients.                                                 *)
THEOREM VenueImplementsServer == ClientSpec => Spec
<1>1. ClientInit => Init
  BY DEF ClientInit
<1>2. ClientInv /\ [ClientNext]_venueVars => [Next]_vars
  BY ServerStep DEF ClientInv
<1> QED
  BY <1>1, <1>2, ClientStarts, ClientStep, PTL DEF ClientSpec, Spec

(* So what holds of any clients holds with an ExchangeClient: its logout,  *)
(* stops and reconnections leave no thread behind, and only threads that   *)
(* are started late go unjoined or use the released Fix8 server.           *)
THEOREM VenueSafe ==
  ClientSpec => [](NoThreadOutlives /\ JoinsEarlierThreads /\ UsesLiveServer)
<1>1. Spec => [](NoThreadOutlives /\ JoinsEarlierThreads /\ UsesLiveServer)
  BY NoThreadLeft, EarlierThreadsJoined, LiveServerUsed, PTL
<1> QED
  BY <1>1, VenueImplementsServer
=============================================================================
