------------------------- MODULE ExchangeServerProofs -------------------------
(***************************************************************************)
(* Theorems about ExchangeServer, for any clients and any number of        *)
(* threads, whenever connections come in.                                  *)
(***************************************************************************)
EXTENDS ExchangeServer, TLAPS

Late == {"release", "members", "done"}

(* Every thread that was started is in connectionThreads or has been       *)
(* joined, and only ended threads are joined: the vector is never emptied  *)
(* of others without ending the program.                                   *)
ThreadsInv ==
  /\ started \in Nat
  /\ thread \in [ThreadIds -> {"none", "create", "serve", "ended"}]
  /\ vector \cup walk \cup joined \subseteq ThreadIds
  /\ \A t \in joined : thread[t] = "ended"
  /\ \A t \in ThreadIds : t > started => thread[t] = "none"
  /\ ~terminated =>
       \A t \in ThreadIds : thread[t] # "none" => t \in vector \cup joined
  /\ dtor \in Late => acceptor = "ended"
  /\ dtor = "done" => vector = {}

LEMMA ThreadsInit == Init => ThreadsInv
  BY ExchangeServerAssumption
  DEF ExchangeServerAssumption, Init, ThreadsInv, ThreadIds, Late

LEMMA ThreadsStep == ThreadsInv /\ [Next]_vars => ThreadsInv'
<1> SUFFICES ASSUME ThreadsInv, [Next]_vars
             PROVE  ThreadsInv'
  OBVIOUS
<1> USE ExchangeServerAssumption
        DEF ExchangeServerAssumption, ThreadsInv, ThreadIds, Late, threadVars,
            dtorVars, endVars
(* Clients and run(): only Emplace makes a thread.                         *)
<1>1. ASSUME NEW c \in Clients, Connect(c) \/ Leave(c) PROVE ThreadsInv'
  BY <1>1 DEF Connect, Leave
<1>2. CASE LoopEnds \/ RunThrows
  BY <1>2 DEF LoopEnds, RunThrows, AcceptorGoes, shuttingDown
<1>3. CASE Poll
  BY <1>3 DEF Poll, AcceptorGoes, shuttingDown
<1>4. CASE CheckAgain
  BY <1>4 DEF CheckAgain, AcceptorGoes, shuttingDown
<1>5. CASE Emplace
  <2>1. /\ started + 1 \in ThreadIds
        /\ started' = started + 1
        /\ thread' = [thread EXCEPT ![started + 1] = "create"]
        /\ vector' = vector \cup {started + 1}
        /\ dtor' = dtor /\ joined' = joined /\ walk' = walk
        /\ dtor \notin Late
    BY <1>5 DEF Emplace
  <2>2. thread[started + 1] = "none"
    BY <2>1
  <2>3. \A t \in ThreadIds :
          thread'[t] = IF t = started + 1 THEN "create" ELSE thread[t]
    BY <2>1
  <2>4. \A t \in joined' : thread'[t] = "ended"
    BY <2>1, <2>2, <2>3
  <2>5. \A t \in ThreadIds : thread'[t] # "none" => t \in vector' \cup joined'
    BY <1>5, <2>1, <2>3 DEF Emplace
  <2> QED BY <2>1, <2>2, <2>3, <2>4, <2>5
<1>6. CASE Wake
  BY <1>6 DEF Wake, AcceptorGoes
(* The threads of the connections end, and stay what they are otherwise.   *)
<1>7. ASSUME NEW t \in ThreadIds, TakeConnection(t) PROVE ThreadsInv'
  BY <1>7 DEF TakeConnection, ThreadGoes
<1>8. ASSUME NEW t \in ThreadIds, FinishServing(t) PROVE ThreadsInv'
  BY <1>8 DEF FinishServing, ThreadGoes
<1>18. ASSUME NEW t \in ThreadIds, ProcessThrows(t) PROVE ThreadsInv'
  BY <1>18 DEF ProcessThrows
(* The destructor.                                                         *)
<1>9. CASE Destroy
  BY <1>9 DEF Destroy, DtorGoes
<1>10. CASE StartWalk
  BY <1>10 DEF StartWalk, DtorGoes
<1>11. CASE JoinConnection
  BY <1>11 DEF JoinConnection, DtorGoes
<1>12. CASE EndWalk
  BY <1>12 DEF EndWalk, DtorGoes
<1>13. CASE Clear
  BY <1>13 DEF Clear, DestroyThreads, DtorGoes
<1>14. CASE JoinAcceptor
  BY <1>14 DEF JoinAcceptor, DtorGoes
<1>15. CASE Release
  BY <1>15 DEF Release, DtorGoes
<1>16. CASE DestroyMembers
  BY <1>16 DEF DestroyMembers, DestroyThreads, DtorGoes
<1>17. CASE UNCHANGED vars
  BY <1>17 DEF vars
<1> QED
  BY <1>1, <1>2, <1>3, <1>4, <1>5, <1>6, <1>7, <1>8, <1>9, <1>10, <1>11, <1>12,
     <1>13, <1>14, <1>15, <1>16, <1>17, <1>18
  DEF Next, Acceptor, Serve, DtorStep

(* However connections and shutdown race, a destructor that comes to its   *)
(* end leaves no thread behind that could use the destroyed server.        *)
THEOREM NoThreadLeft == Spec => []NoThreadOutlives
<1>1. ThreadsInv => NoThreadOutlives
  BY DEF ThreadsInv, NoThreadOutlives, Late
<1> QED
  BY <1>1, ThreadsInit, ThreadsStep, PTL DEF Spec

-----------------------------------------------------------------------------
(* Unless a thread is started after the destructor's loop has begun, the   *)
(* loop joins all threads there are, and they have ended when it is over.  *)
LoopInv ==
  /\ ThreadsInv
  /\ ~late /\ ~threw => ~terminated
  /\ ~late =>
       /\ dtor \in {"alive", "flagged"} => walk = {}
       /\ dtor = "join" => vector \subseteq walk \cup joined
       /\ dtor \in {"clear", "acceptor"} \cup Late =>
            /\ vector \subseteq joined
            /\ \A t \in ThreadIds : thread[t] \in {"none", "ended"}

LEMMA LoopInit == Init => LoopInv
<1>1. Init => ThreadsInv
  BY ThreadsInit
<1>2. Init => ~terminated
  BY DEF Init
<1> QED
  BY <1>1, <1>2 DEF Init, LoopInv, Late

LEMMA LoopStep == LoopInv /\ [Next]_vars => LoopInv'
<1> SUFFICES ASSUME LoopInv, [Next]_vars
             PROVE  LoopInv'
  OBVIOUS
<1>0. ThreadsInv'
  BY ThreadsStep DEF LoopInv
<1> USE <1>0 DEF LoopInv, Late, threadVars, dtorVars, endVars
<1>1. ASSUME NEW c \in Clients, Connect(c) \/ Leave(c) PROVE LoopInv'
  BY <1>1 DEF Connect, Leave
<1>2. CASE LoopEnds \/ RunThrows \/ Poll \/ CheckAgain \/ Wake
  BY <1>2 DEF LoopEnds, RunThrows, Poll, CheckAgain, Wake, AcceptorGoes
<1>12. CASE Emplace
  <2>1. ~late' => ~late /\ dtor \in {"alive", "flagged"}
    BY <1>12 DEF Emplace
  <2>2. /\ dtor' = dtor /\ walk' = walk /\ joined' = joined /\ threw' = threw
        /\ walk = {} => terminated' = terminated
    BY <1>12 DEF Emplace
  <2> QED BY <2>1, <2>2
<1>3. ASSUME NEW t \in ThreadIds, Serve(t) PROVE LoopInv'
  <2>1. /\ thread[t] \notin {"none", "ended"}
        /\ UNCHANGED <<started, vector, dtorVars, endVars>>
    BY <1>3 DEF Serve, TakeConnection, FinishServing, ThreadGoes
  <2> QED BY <2>1
<1>13. ASSUME NEW t \in ThreadIds, ProcessThrows(t) PROVE LoopInv'
  BY <1>13 DEF ProcessThrows
<1>4. CASE Destroy
  BY <1>4 DEF Destroy, DtorGoes
<1>5. CASE StartWalk
  BY <1>5 DEF StartWalk, DtorGoes
<1>6. CASE JoinConnection
  BY <1>6 DEF JoinConnection, DtorGoes
<1>7. CASE EndWalk
  <2>1. /\ dtor = "join" /\ dtor' = "clear" /\ walk = {} /\ ~terminated
        /\ UNCHANGED <<started, thread, vector, joined, walk, late, threw, terminated>>
    BY <1>7 DEF EndWalk, DtorGoes
  <2>2. ~late => \A t \in ThreadIds : thread[t] \in {"none", "ended"}
    BY <2>1 DEF ThreadsInv
  <2> QED BY <2>1, <2>2
<1>8. CASE Clear
  BY <1>8 DEF Clear, DestroyThreads, DtorGoes
<1>9. CASE JoinAcceptor \/ Release
  BY <1>9 DEF JoinAcceptor, Release, DtorGoes
<1>10. CASE DestroyMembers
  BY <1>10 DEF DestroyMembers, DestroyThreads, DtorGoes
<1>11. CASE UNCHANGED vars
  BY <1>11 DEF vars
<1> QED
  BY <1>1, <1>2, <1>3, <1>4, <1>5, <1>6, <1>7, <1>8, <1>9, <1>10, <1>11, <1>12,
     <1>13
  DEF Next, Acceptor, DtorStep

(* The destructor's threads end the program only if run() started one of   *)
(* them after the destructor's loop had begun.                             *)
THEOREM EarlierThreadsJoined == Spec => []JoinsEarlierThreads
<1>1. LoopInv => JoinsEarlierThreads
  BY DEF LoopInv, JoinsEarlierThreads
<1> QED
  BY <1>1, LoopInit, LoopStep, PTL DEF Spec

(* Nor does any other thread use the Fix8 server after it was released.    *)
THEOREM LiveServerUsed == Spec => []UsesLiveServer
<1>1. LoopInv => UsesLiveServer
  BY DEF LoopInv, ThreadsInv, UsesLiveServer, Late
<1> QED
  BY <1>1, LoopInit, LoopStep, PTL DEF Spec

-----------------------------------------------------------------------------
(* Types.  A thread serves a client that is in or has left, and none until *)
(* it has taken one from those that wait: no two serve the same.           *)
ServeInv ==
  /\ TypeOK
  /\ \A t \in ThreadIds : \A c \in serves[t] : client[c] \in {"in", "left"}
  /\ \A t \in ThreadIds : thread[t] \in {"none", "create"} => serves[t] = {}
  /\ \A t \in ThreadIds : t > started => thread[t] = "none"

LEMMA ServeInit == Init => ServeInv
<1> SUFFICES ASSUME Init
             PROVE  ServeInv
  OBVIOUS
<1>1. /\ client \in [Clients -> {"away", "waiting", "in", "left"}]
      /\ started \in 0..MaxThreads
      /\ thread \in [ThreadIds -> {"none", "create", "serve", "ended"}]
      /\ serves \in [ThreadIds -> SUBSET Clients]
  BY ExchangeServerAssumption DEF ExchangeServerAssumption, Init
<1>2. \A t \in ThreadIds : serves[t] = {} /\ thread[t] = "none"
  BY DEF Init
<1>3. \A t, u \in ThreadIds : serves[t] \cap serves[u] = {}
  BY <1>2
<1> QED
  BY <1>1, <1>2, <1>3 DEF Init, ServeInv, TypeOK

LEMMA ServeStep == ServeInv /\ [Next]_vars => ServeInv'
<1> SUFFICES ASSUME ServeInv, [Next]_vars
             PROVE  ServeInv'
  OBVIOUS
<1> USE ExchangeServerAssumption
        DEF ExchangeServerAssumption, ServeInv, TypeOK, ThreadIds, threadVars,
            dtorVars, endVars
<1>1. ASSUME NEW c \in Clients, Connect(c) PROVE ServeInv'
  BY <1>1 DEF Connect
<1>2. ASSUME NEW c \in Clients, Leave(c) PROVE ServeInv'
  BY <1>2 DEF Leave
<1>3. CASE LoopEnds \/ RunThrows \/ Poll \/ CheckAgain \/ Wake
  BY <1>3 DEF LoopEnds, RunThrows, Poll, CheckAgain, Wake, AcceptorGoes
<1>4. CASE Emplace
  <2>1. /\ started + 1 \in ThreadIds
        /\ started' = started + 1
        /\ thread' = [thread EXCEPT ![started + 1] = "create"]
        /\ vector' = vector \cup {started + 1}
        /\ acceptor' = "sleep"
        /\ late' \in BOOLEAN /\ threw' \in BOOLEAN /\ terminated' \in BOOLEAN
        /\ UNCHANGED <<client, serves, joined, dtor, walk>>
    BY <1>4 DEF Emplace
  <2>2. thread[started + 1] = "none" /\ serves[started + 1] = {}
    BY <2>1
  <2> QED BY <2>1, <2>2
<1>5. ASSUME NEW t \in ThreadIds, TakeConnection(t) PROVE ServeInv'
  <2>1. PICK c \in Waiting : /\ client' = [client EXCEPT ![c] = "in"]
                             /\ serves' = [serves EXCEPT ![t] = {c}]
    BY <1>5 DEF TakeConnection
  <2>2. /\ thread' = [thread EXCEPT ![t] = "serve"]
        /\ thread[t] = "create"
        /\ UNCHANGED <<acceptor, started, vector, joined, dtor, walk, late,
                       threw, terminated>>
    BY <1>5 DEF TakeConnection, ThreadGoes
  <2>3. c \in Clients /\ \A u \in ThreadIds : c \notin serves[u]
    BY DEF Waiting
  <2> QED BY <2>1, <2>2, <2>3
<1>6. ASSUME NEW t \in ThreadIds, FinishServing(t) PROVE ServeInv'
  BY <1>6 DEF FinishServing, ThreadGoes
<1>10. ASSUME NEW t \in ThreadIds, ProcessThrows(t) PROVE ServeInv'
  BY <1>10 DEF ProcessThrows
<1>7. CASE Destroy \/ StartWalk \/ JoinConnection \/ EndWalk
  BY <1>7 DEF Destroy, StartWalk, JoinConnection, EndWalk, DtorGoes
<1>8. CASE Clear \/ JoinAcceptor \/ Release \/ DestroyMembers
  BY <1>8 DEF Clear, JoinAcceptor, Release, DestroyMembers, DestroyThreads, DtorGoes
<1>9. CASE UNCHANGED vars
  BY <1>9 DEF vars
<1> QED
  BY <1>1, <1>2, <1>3, <1>4, <1>5, <1>6, <1>7, <1>8, <1>9, <1>10
  DEF Next, Acceptor, Serve, DtorStep

(* Every reachable state is well typed, and two threads never serve the    *)
(* same connection.                                                        *)
THEOREM TypeCorrect == Spec => []TypeOK
<1>1. ServeInv => TypeOK
  BY DEF ServeInv
<1> QED
  BY <1>1, ServeInit, ServeStep, PTL DEF Spec
=============================================================================
