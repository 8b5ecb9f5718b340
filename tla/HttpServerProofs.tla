------------------------- MODULE HttpServerProofs -------------------------
(***************************************************************************)
(* Proofs about HttpServer, for every set of connections and handles and   *)
(* every limit. The invariants are proved in layers, each of which is      *)
(* inductive given the ones before it: who holds which handle, what the    *)
(* registries name, where responses went; then where Start() and Stop()    *)
(* are, how many tasks there are, and that the server implements Admission.*)
(***************************************************************************)
EXTENDS HttpServer, FiniteSetTheorems, TLAPS

\* The accept loop holds a connection exactly between accept() and the end of
\* that round, and is the only one to hold it until the task is spawned.
AcceptorHolds ==
  /\ accepted # None <=> acceptor \in {"admit", "check", "insert", "spawn",
                                       "enroll"}
  /\ \A c \in Conns :
       pc[c] = "accepted" <=> c = accepted /\ acceptor # "enroll"

HandlesUnique ==
  \A c, d \in Conns : socket[c] = socket[d] /\ socket[c] # None => c = d

Holding == /\ DataOK /\ AcceptorHolds
           /\ HandlesFollowTasks /\ HandlesUnique

LEMMA FlagsStep == FlagsOK /\ [Next]_vars => FlagsOK'
<1> SUFFICES ASSUME FlagsOK, [Next]_vars PROVE FlagsOK'
  OBVIOUS
<1> USE DEF FlagsOK, lifecycle
<1>1. CASE Start
  BY <1>1 DEF Start, StartListen, StartFails, StartPublish, StartLaunch,
     StartLaunchFails, StartTerminates
<1>2. CASE Stop
  BY <1>2 DEF Stop, StopCloseListen, StopShutdown, StopJoin, StopDrain,
     StopClearActive, StopClearSse, StopWithdraw
<1>3. CASE StopBegin \/ Unload
  BY <1>3 DEF StopBegin, Unload
<1>4. CASE AcceptorAdvances \/ AcceptFails
  BY <1>4 DEF AcceptorAdvances, AcceptorLoop, AcceptorLeaves, AcceptFails,
     Refuse, Admit, CheckRunning, CheckStopped, Insert, Spawn, SpawnFails,
     Enroll
<1>5. ASSUME NEW c \in Conns,
             TaskAdvances(c) \/ PeerCloses(c) \/ Throws(c) \/ Connect(c)
      PROVE  FlagsOK'
  BY <1>5 DEF TaskAdvances, PeerCloses, Throws, Connect, Answer, OpenStream,
     OpenFails, RegisterSse, RegisterStream, StreamStops, Unregister, Post,
     PostToSession, CallReturns, Push, LeaveActive, Close
<1>6. ASSUME NEW c \in Conns, NEW s \in Sockets, Accept(c, s)
      PROVE  FlagsOK'
  BY <1>6 DEF Accept
<1>7. CASE BroadcastBegin \/ BroadcastAdvances
  BY <1>7 DEF BroadcastBegin, BroadcastAdvances, BroadcastRegistry,
     BroadcastSend, BroadcastEnd
<1>8. CASE UNCHANGED vars
  BY <1>8 DEF vars
<1> QED
  BY <1>1, <1>2, <1>3, <1>4, <1>5, <1>6, <1>7, <1>8 DEF Next, Over

LEMMA HoldingStep == Holding /\ [Next]_vars => Holding'
<1> SUFFICES ASSUME Holding, [Next]_vars PROVE Holding'
  OBVIOUS
<1> USE NoneAssumption DEF Holding, DataOK, AcceptorHolds,
        HandlesFollowTasks, HandlesUnique, ControlStates, AcceptorStates,
        ConnStates, TaskStates, StreamStates, lifecycle, accepting, futures,
        registries, handles, posts, notifier
<1>1. CASE StartListen \/ StartFails \/ StartPublish
  BY <1>1 DEF StartListen, StartFails, StartPublish
<1>2. CASE StartLaunch
  BY <1>2 DEF StartLaunch
<1>3. CASE StartLaunchFails \/ StartTerminates
  BY <1>3 DEF StartLaunchFails, StartTerminates
<1>4. CASE StopBegin \/ Unload
  BY <1>4 DEF StopBegin, Unload
<1>5. CASE StopCloseListen
  BY <1>5 DEF StopCloseListen
<1>6. CASE StopShutdown \/ StopDrain
  BY <1>6 DEF StopShutdown, StopDrain
<1>7. CASE StopJoin
  BY <1>7 DEF StopJoin
<1>8. CASE StopClearActive \/ StopClearSse \/ StopWithdraw
  BY <1>8 DEF StopClearActive, StopClearSse, StopWithdraw
<1>9. CASE AcceptorLoop \/ AcceptorLeaves \/ AcceptFails
  BY <1>9 DEF AcceptorLoop, AcceptorLeaves, AcceptFails, Unfinished
<1>10. CASE Refuse
  BY <1>10 DEF Refuse, DropAccepted, Unfinished
<1>11. CASE Admit \/ CheckRunning
  BY <1>11 DEF Admit, CheckRunning, Unfinished
<1>12. CASE CheckStopped
  BY <1>12 DEF CheckStopped, DropAccepted
<1>13. CASE Insert
  BY <1>13 DEF Insert
<1>14. CASE Spawn
  BY <1>14 DEF Spawn
<1>15. CASE SpawnFails
  BY <1>15 DEF SpawnFails, DropAccepted
<1>16. CASE Enroll
  BY <1>16 DEF Enroll
<1>17. ASSUME NEW c \in Conns, NEW s \in Sockets, Accept(c, s)
       PROVE  Holding'
  BY <1>17 DEF Accept, OpenSockets
<1>18. ASSUME NEW c \in Conns,
              \/ Answer(c) \/ OpenStream(c) \/ OpenFails(c) \/ Post(c)
              \/ CallReturns(c) \/ Throws(c) \/ Connect(c)
       PROVE  Holding'
  BY <1>18 DEF Answer, OpenStream, OpenFails, Post, CallReturns, Throws,
     Connect, Goto
<1>19. ASSUME NEW c \in Conns, RegisterSse(c) \/ RegisterStream(c)
       PROVE  Holding'
  BY <1>19 DEF RegisterSse, RegisterStream, Goto
<1>20. ASSUME NEW c \in Conns, Unregister(c)
       PROVE  Holding'
  BY <1>20 DEF Unregister, Goto
<1>21. ASSUME NEW c \in Conns, NEW d \in Conns, PostToSession(c, d)
       PROVE  Holding'
  BY <1>21 DEF PostToSession, Goto
<1>22. ASSUME NEW c \in Conns, Push(c)
       PROVE  Holding'
  BY <1>22 DEF Push, Goto
<1>23. ASSUME NEW c \in Conns, LeaveActive(c)
       PROVE  Holding'
  BY <1>23 DEF LeaveActive, Goto
<1>24. ASSUME NEW c \in Conns, Close(c)
       PROVE  Holding'
  BY <1>24 DEF Close, SessionsWithout, Goto
<1>25. CASE BroadcastBegin \/ BroadcastAdvances
  BY <1>25 DEF BroadcastBegin, BroadcastAdvances, BroadcastRegistry,
     BroadcastSend, BroadcastEnd
<1>26. CASE UNCHANGED vars
  BY <1>26 DEF vars
<1> QED
  BY <1>1, <1>2, <1>3, <1>4, <1>5, <1>6, <1>7, <1>8, <1>9, <1>10, <1>11,
     <1>12, <1>13, <1>14, <1>15, <1>16, <1>17, <1>18, <1>19, <1>20, <1>21,
     <1>22, <1>23, <1>24, <1>25, <1>26
  DEF Next, Over, Start, Stop, AcceptorAdvances, TaskAdvances, StreamStops,
      PeerCloses

-----------------------------------------------------------------------------
\* What the registries name. The lock makes the last conjunct matter: nothing
\* is closed while a broadcast still has sockets to write to.
Registered ==
  /\ NoStaleTarget /\ SessionIsItsConnection /\ ActiveSocketsAreOpen
  /\ pending # {} => broadcast = "sending"

LEMMA RegisteredStep ==
  Holding /\ Registered /\ [Next]_vars => Registered'
<1> SUFFICES ASSUME Holding, Registered, [Next]_vars PROVE Registered'
  OBVIOUS
<1> USE NoneAssumption DEF Holding, DataOK, AcceptorHolds,
        HandlesFollowTasks, HandlesUnique, Registered, NoStaleTarget,
        SessionIsItsConnection, ActiveSocketsAreOpen, TaskStates,
        StreamStates, lifecycle, accepting, futures, registries, handles,
        posts, notifier
<1>1. CASE Start
  BY <1>1 DEF Start, StartListen, StartFails, StartPublish, StartLaunch,
     StartLaunchFails, StartTerminates
<1>2. CASE StopBegin \/ Unload
  BY <1>2 DEF StopBegin, Unload
<1>3. CASE StopCloseListen
  BY <1>3 DEF StopCloseListen
<1>4. CASE StopShutdown \/ StopJoin \/ StopDrain
  BY <1>4 DEF StopShutdown, StopJoin, StopDrain
<1>5. CASE StopClearActive \/ StopClearSse \/ StopWithdraw
  BY <1>5 DEF StopClearActive, StopClearSse, StopWithdraw, RegistryFree
<1>6. CASE AcceptorLoop \/ AcceptorLeaves \/ AcceptFails
  BY <1>6 DEF AcceptorLoop, AcceptorLeaves, AcceptFails
<1>7. CASE Refuse
  BY <1>7 DEF Refuse, DropAccepted
<1>8. CASE Admit \/ CheckRunning
  BY <1>8 DEF Admit, CheckRunning
<1>9. CASE CheckStopped
  BY <1>9 DEF CheckStopped, DropAccepted
<1>10. CASE Insert
  BY <1>10 DEF Insert
<1>11. CASE Spawn
  BY <1>11 DEF Spawn
<1>12. CASE SpawnFails
  BY <1>12 DEF SpawnFails, DropAccepted
<1>13. CASE Enroll
  BY <1>13 DEF Enroll
<1>14. ASSUME NEW c \in Conns, NEW s \in Sockets, Accept(c, s)
       PROVE  Registered'
  BY <1>14 DEF Accept, OpenSockets
<1>15. ASSUME NEW c \in Conns,
              \/ Answer(c) \/ OpenStream(c) \/ OpenFails(c) \/ Post(c)
              \/ CallReturns(c) \/ Throws(c) \/ Connect(c)
       PROVE  Registered'
  BY <1>15 DEF Answer, OpenStream, OpenFails, Post, CallReturns, Throws,
     Connect, Goto
<1>16. ASSUME NEW c \in Conns, RegisterSse(c) \/ RegisterStream(c)
       PROVE  Registered'
  BY <1>16 DEF RegisterSse, RegisterStream, Goto
<1>17. ASSUME NEW c \in Conns, Unregister(c)
       PROVE  Registered'
  BY <1>17 DEF Unregister, Goto
<1>18. ASSUME NEW c \in Conns, NEW d \in Conns, PostToSession(c, d)
       PROVE  Registered'
  BY <1>18 DEF PostToSession, Goto
<1>19. ASSUME NEW c \in Conns, Push(c)
       PROVE  Registered'
  BY <1>19 DEF Push, Goto
<1>20. ASSUME NEW c \in Conns, LeaveActive(c)
       PROVE  Registered'
  BY <1>20 DEF LeaveActive, Goto
<1>21. ASSUME NEW c \in Conns, Close(c)
       PROVE  Registered'
  BY <1>21 DEF Close, SessionsWithout, Goto, RegistryFree
<1>22. CASE BroadcastBegin \/ BroadcastAdvances
  BY <1>22 DEF BroadcastBegin, BroadcastAdvances, BroadcastRegistry,
     BroadcastSend, BroadcastEnd
<1>23. CASE UNCHANGED vars
  BY <1>23 DEF vars
<1> QED
  BY <1>1, <1>2, <1>3, <1>4, <1>5, <1>6, <1>7, <1>8, <1>9, <1>10, <1>11,
     <1>12, <1>13, <1>14, <1>15, <1>16, <1>17, <1>18, <1>19, <1>20, <1>21,
     <1>22, <1>23
  DEF Next, Over, Stop, AcceptorAdvances, TaskAdvances, StreamStops,
      PeerCloses

\* Where responses went: only a task that is past its call has delivered, and
\* it keeps the session it named.
Delivered ==
  /\ ResponseReachesItsSession
  /\ \A p \in delivered : pc[p[1]] \in {"leave", "close", "done"}
  /\ \A c \in Conns : target[c] # None => Origin[target[c]] = Origin[c]
  /\ \A c \in Conns : pc[c] = "push" => target[c] # None

LEMMA DeliveredStep ==
  Holding /\ Registered /\ Delivered /\ [Next]_vars => Delivered'
<1> SUFFICES ASSUME Holding, Registered, Delivered, [Next]_vars
             PROVE  Delivered'
  OBVIOUS
<1> USE NoneAssumption DEF Holding, DataOK, AcceptorHolds, Delivered,
        ResponseReachesItsSession, lifecycle, accepting, futures, registries,
        handles, posts, notifier
<1>1. CASE Start \/ Stop \/ StopBegin \/ Unload
  BY <1>1 DEF Start, StartListen, StartFails, StartPublish, StartLaunch,
     StartLaunchFails, StartTerminates, Stop, StopCloseListen, StopShutdown,
     StopJoin, StopDrain, StopClearActive, StopClearSse, StopWithdraw,
     StopBegin, Unload
<1>2. CASE AcceptorAdvances \/ AcceptFails
  BY <1>2 DEF AcceptorAdvances, AcceptorLoop, AcceptorLeaves, AcceptFails,
     Refuse, Admit, CheckRunning, CheckStopped, Insert, Spawn, SpawnFails,
     Enroll, DropAccepted
<1>3. ASSUME NEW c \in Conns, NEW s \in Sockets, Accept(c, s)
      PROVE  Delivered'
  BY <1>3 DEF Accept
<1>4. ASSUME NEW c \in Conns,
             \/ Answer(c) \/ OpenStream(c) \/ OpenFails(c) \/ Post(c)
             \/ CallReturns(c) \/ Throws(c) \/ Connect(c) \/ RegisterSse(c)
             \/ RegisterStream(c) \/ Unregister(c) \/ LeaveActive(c)
             \/ Close(c)
      PROVE  Delivered'
  BY <1>4 DEF Answer, OpenStream, OpenFails, Post, CallReturns, Throws,
     Connect, RegisterSse, RegisterStream, Unregister, LeaveActive, Close,
     Goto
<1>5. ASSUME NEW c \in Conns, NEW d \in Conns, PostToSession(c, d)
      PROVE  Delivered'
  BY <1>5 DEF PostToSession, SessionAccepts, Goto
<1>6. ASSUME NEW c \in Conns, Push(c)
      PROVE  Delivered'
  <2>1. \A d \in Conns :
          socket[d] # None /\ socket[d] = legacySessions[target[c]]
            => d = target[c]
    BY <1>6 DEF Push, Goto, Registered, SessionIsItsConnection,
       HandlesUnique
  <2> QED
    BY <1>6, <2>1 DEF Push, Goto
<1>7. CASE BroadcastBegin \/ BroadcastAdvances
  BY <1>7 DEF BroadcastBegin, BroadcastAdvances, BroadcastRegistry,
     BroadcastSend, BroadcastEnd
<1>8. CASE UNCHANGED vars
  BY <1>8 DEF vars
<1> QED
  BY <1>1, <1>2, <1>3, <1>4, <1>5, <1>6, <1>7, <1>8
  DEF Next, Over, TaskAdvances, StreamStops, PeerCloses

-----------------------------------------------------------------------------
LEMMA RegistryInitial == Init => FlagsOK /\ Holding /\ Registered /\ Delivered
  BY NoneAssumption DEF Init, FlagsOK, Holding, DataOK, AcceptorHolds,
     HandlesFollowTasks, HandlesUnique, Registered, NoStaleTarget,
     SessionIsItsConnection, ActiveSocketsAreOpen, Delivered,
     ResponseReachesItsSession, ControlStates, AcceptorStates, ConnStates,
     TaskStates, StreamStates

LEMMA RegistryInvariant ==
  Spec => [](FlagsOK /\ Holding /\ Registered /\ Delivered)
<1>1. FlagsOK /\ Holding /\ Registered /\ Delivered /\ [Next]_vars
        => (FlagsOK /\ Holding /\ Registered /\ Delivered)'
  BY FlagsStep, HoldingStep, RegisteredStep, DeliveredStep
<1> QED
  BY RegistryInitial, <1>1, PTL DEF Spec

\* Every variable of the server keeps its type.
THEOREM TypeCorrect == Spec => []TypeOK
<1>1. FlagsOK /\ Holding => TypeOK
  BY DEF Holding, TypeOK
<1> QED
  BY RegistryInvariant, <1>1, PTL

\* The handle of a connection is open exactly while the accept loop or its
\* task has it: none leaks and none is closed twice.
THEOREM HandlesAreClosed == Spec => []HandlesFollowTasks
<1>1. Holding => HandlesFollowTasks
  BY DEF Holding
<1> QED
  BY RegistryInvariant, <1>1, PTL

\* A broadcast writes to no handle that was closed or handed out again, a
\* legacy session leads to the connection that opened it, and Stop() shuts
\* down no handle that was closed in the meantime.
THEOREM RegistriesAreCurrent == Spec => []RegistriesNameOpenSockets
<1>1. Registered => RegistriesNameOpenSockets
  BY DEF Registered, RegistriesNameOpenSockets
<1> QED
  BY RegistryInvariant, <1>1, PTL

\* A response reaches the session its POST was accepted for, however long the
\* call took and whatever was closed and accepted meanwhile.
THEOREM ResponsesReachTheirSession == Spec => []ResponseReachesItsSession
<1>1. Delivered => ResponseReachesItsSession
  BY DEF Delivered
<1> QED
  BY RegistryInvariant, <1>1, PTL

-----------------------------------------------------------------------------
(* Start(), Stop() and the number of tasks: no client escapes Stop(),      *)
(* nothing is left after it, and the tasks stay within the limit.          *)

StopStates == {"close", "shutdown", "join", "drain", "clear", "clearSse",
               "withdraw"}
AfterListener == (StopStates \ {"close"}) \cup {"unloaded"}
AfterJoin == {"drain", "clear", "clearSse", "withdraw", "unloaded"}

\* What Stop() has achieved at each of its steps, and which of it still holds
\* when no accept thread exists.
Stopping ==
  /\ control \in StopStates \cup {"unloaded"} => ~running
  /\ control \in AfterListener => ~listening
  /\ control \in AfterListener \ {"shutdown"} => acceptor # "insert"
  /\ control \in AfterJoin => acceptor = "none"
  /\ draining # {} => control = "drain"
  /\ Live \subseteq clientTasks \cup draining
                      \cup (IF acceptor = "enroll" THEN {accepted} ELSE {})
  /\ acceptor = "none" => clientTasks = {}
  /\ acceptor = "none" /\ running => control \in {"publish", "launch"}
  /\ acceptor = "none" /\ listening => control \in {"publish", "launch", "close"}
  /\ acceptor = "none" /\ activeInstance => control \in {"launch"} \cup StopStates
  /\ broadcast # "idle" => activeInstance
  /\ NoClientEscapesStop

LEMMA StoppingStep ==
  FlagsOK /\ Holding /\ Registered /\ Stopping /\ [Next]_vars => Stopping'
<1> SUFFICES ASSUME FlagsOK, Holding, Registered, Stopping, [Next]_vars
             PROVE  Stopping'
  OBVIOUS
<1> USE NoneAssumption DEF FlagsOK, Holding, DataOK, AcceptorHolds,
        HandlesFollowTasks, Stopping, StopStates, AfterListener, AfterJoin,
        NoClientEscapesStop, Live, TaskStates, StreamStates, ControlStates,
        AcceptorStates, lifecycle, accepting, futures, registries, handles,
        posts, notifier
<1>1. CASE StartListen \/ StartFails
  BY <1>1 DEF StartListen, StartFails
<1>2. CASE StartPublish \/ StartLaunch
  BY <1>2 DEF StartPublish, StartLaunch
<1>3. CASE StartLaunchFails \/ StartTerminates
  BY <1>3 DEF StartLaunchFails, StartTerminates
<1>4. CASE StopBegin \/ Unload
  BY <1>4 DEF StopBegin, Unload, Inert
<1>5. CASE StopCloseListen
  BY <1>5 DEF StopCloseListen
<1>6. CASE StopShutdown
  BY <1>6 DEF StopShutdown, ActiveFree
<1>7. CASE StopJoin
  BY <1>7 DEF StopJoin
<1>8. CASE StopDrain
  BY <1>8 DEF StopDrain, Drained
<1>9. CASE StopClearActive \/ StopClearSse \/ StopWithdraw
  BY <1>9 DEF StopClearActive, StopClearSse, StopWithdraw
<1>10. CASE AcceptorLoop \/ AcceptorLeaves
  BY <1>10 DEF AcceptorLoop, AcceptorLeaves, Unfinished
<1>11. CASE AcceptFails
  BY <1>11 DEF AcceptFails
<1>12. CASE Refuse
  BY <1>12 DEF Refuse, DropAccepted, Unfinished
<1>13. CASE Admit \/ CheckRunning
  BY <1>13 DEF Admit, CheckRunning, Unfinished
<1>14. CASE CheckStopped
  BY <1>14 DEF CheckStopped, DropAccepted
<1>15. CASE Insert
  BY <1>15 DEF Insert
<1>16. CASE Spawn
  BY <1>16 DEF Spawn
<1>17. CASE SpawnFails
  BY <1>17 DEF SpawnFails, DropAccepted
<1>18. CASE Enroll
  BY <1>18 DEF Enroll
<1>19. ASSUME NEW c \in Conns, NEW s \in Sockets, Accept(c, s)
       PROVE  Stopping'
  BY <1>19 DEF Accept, OpenSockets, Registered, ActiveSocketsAreOpen
<1>20. ASSUME NEW c \in Conns,
              \/ Answer(c) \/ OpenStream(c) \/ OpenFails(c) \/ Post(c)
              \/ CallReturns(c) \/ Throws(c) \/ Connect(c)
       PROVE  Stopping'
  BY <1>20 DEF Answer, OpenStream, OpenFails, Post, CallReturns, Throws,
     Connect, Goto
<1>21. ASSUME NEW c \in Conns,
              RegisterSse(c) \/ RegisterStream(c) \/ Unregister(c)
       PROVE  Stopping'
  BY <1>21 DEF RegisterSse, RegisterStream, Unregister, Goto
<1>22. ASSUME NEW c \in Conns, NEW d \in Conns, PostToSession(c, d)
       PROVE  Stopping'
  BY <1>22 DEF PostToSession, Goto
<1>23. ASSUME NEW c \in Conns, Push(c) \/ LeaveActive(c)
       PROVE  Stopping'
  BY <1>23 DEF Push, LeaveActive, Goto
<1>24. ASSUME NEW c \in Conns, Close(c)
       PROVE  Stopping'
  BY <1>24 DEF Close, Goto
<1>25. CASE BroadcastBegin \/ BroadcastAdvances
  BY <1>25 DEF BroadcastBegin, BroadcastAdvances, BroadcastRegistry,
     BroadcastSend, BroadcastEnd
<1>26. CASE UNCHANGED vars
  BY <1>26 DEF vars
<1> QED
  BY <1>1, <1>2, <1>3, <1>4, <1>5, <1>6, <1>7, <1>8, <1>9, <1>10, <1>11,
     <1>12, <1>13, <1>14, <1>15, <1>16, <1>17, <1>18, <1>19, <1>20, <1>21,
     <1>22, <1>23, <1>24, <1>25, <1>26
  DEF Next, Over, Start, Stop, AcceptorAdvances, TaskAdvances, StreamStops,
      PeerCloses

-----------------------------------------------------------------------------
LEMMA OneMore ==
  ASSUME NEW S, NEW x, IsFiniteSet(S)
  PROVE  /\ IsFiniteSet(S \cup {x})
         /\ Cardinality(S) \in Nat /\ Cardinality(S \cup {x}) \in Nat
         /\ Cardinality(S \cup {x}) <= Cardinality(S) + 1
<1>1. /\ IsFiniteSet(S \cup {x})
      /\ Cardinality(S \cup {x}) =
           IF x \in S THEN Cardinality(S) ELSE Cardinality(S) + 1
  BY FS_AddElement
<1>2. Cardinality(S) \in Nat
  BY FS_CardinalityType
<1> QED
  BY <1>1, <1>2

\* The futures stay within the limit, with room for one more from the check
\* until the new one is enrolled: only the accept loop adds to them.
Bounded ==
  /\ IsFiniteSet(clientTasks) /\ Cardinality(clientTasks) <= MaxConnections
  /\ IsFiniteSet(draining) /\ Cardinality(draining) <= MaxConnections
  /\ acceptor \in {"check", "insert", "spawn", "enroll"}
       => Cardinality(clientTasks) < MaxConnections

LEMMA BoundedStep ==
  FlagsOK /\ Holding /\ Bounded /\ [Next]_vars => Bounded'
<1> SUFFICES ASSUME FlagsOK, Holding, Bounded, [Next]_vars PROVE Bounded'
  OBVIOUS
<1> USE MaxAssumption DEF Bounded, lifecycle, accepting, futures
<1>1. IsFiniteSet({}) /\ Cardinality({}) <= MaxConnections
  BY FS_EmptySet
<1>2. IsFiniteSet(Unfinished)
      /\ Cardinality(Unfinished) <= Cardinality(clientTasks)
      /\ Cardinality(Unfinished) \in Nat /\ Cardinality(clientTasks) \in Nat
  <2>1. Unfinished \in SUBSET clientTasks
    BY DEF Unfinished
  <2> QED
    BY <2>1, FS_Subset, FS_CardinalityType
<1>3. CASE Start \/ StopBegin \/ Unload
  BY <1>3 DEF Start, StartListen, StartFails, StartPublish, StartLaunch,
     StartLaunchFails, StartTerminates, StopBegin, Unload
<1>4. CASE Stop
  BY <1>4, <1>1 DEF Stop, StopCloseListen, StopShutdown, StopJoin, StopDrain,
     StopClearActive, StopClearSse, StopWithdraw
<1>5. CASE AcceptorLoop \/ AcceptorLeaves \/ AcceptFails
  BY <1>5, <1>2 DEF AcceptorLoop, AcceptorLeaves, AcceptFails
<1>6. CASE Refuse \/ Admit
  BY <1>6, <1>2 DEF Refuse, Admit, Full
<1>7. CASE CheckRunning \/ CheckStopped \/ Insert \/ Spawn \/ SpawnFails
  BY <1>7 DEF CheckRunning, CheckStopped, Insert, Spawn, SpawnFails
<1>8. CASE Enroll
  <2>1. /\ IsFiniteSet(clientTasks \cup {accepted})
        /\ Cardinality(clientTasks \cup {accepted}) \in Nat
        /\ Cardinality(clientTasks \cup {accepted})
             <= Cardinality(clientTasks) + 1
    BY OneMore
  <2>2. acceptor = "enroll" /\ acceptor' = "loop"
        /\ clientTasks' = clientTasks \cup {accepted} /\ draining' = draining
    BY <1>8 DEF Enroll
  <2> QED
    BY <1>2, <2>1, <2>2
<1>9. ASSUME NEW c \in Conns, NEW s \in Sockets, Accept(c, s)
      PROVE  Bounded'
  BY <1>9 DEF Accept
<1>10. ASSUME NEW c \in Conns,
              TaskAdvances(c) \/ PeerCloses(c) \/ Throws(c) \/ Connect(c)
       PROVE  Bounded'
  BY <1>10 DEF TaskAdvances, PeerCloses, Throws, Connect, Answer, OpenStream,
     OpenFails, RegisterSse, RegisterStream, StreamStops, Unregister, Post,
     PostToSession, CallReturns, Push, LeaveActive, Close
<1>11. CASE BroadcastBegin \/ BroadcastAdvances
  BY <1>11 DEF BroadcastBegin, BroadcastAdvances, BroadcastRegistry,
     BroadcastSend, BroadcastEnd
<1>12. CASE UNCHANGED vars
  BY <1>12 DEF vars
<1> QED
  BY <1>3, <1>4, <1>5, <1>6, <1>7, <1>8, <1>9, <1>10, <1>11, <1>12
  DEF Next, Over, AcceptorAdvances

-----------------------------------------------------------------------------
ServerInv == /\ FlagsOK /\ Holding /\ Registered /\ Delivered
             /\ Stopping /\ Bounded

LEMMA ServerInvariant == Spec => []ServerInv
<1>1. Init => Stopping /\ Bounded
  <2>1. Init => Bounded
    BY FS_EmptySet, MaxAssumption DEF Init, Bounded
  <2>2. Init => Stopping
    BY NoneAssumption DEF Init, Stopping, StopStates, AfterListener,
       AfterJoin, Live, TaskStates, StreamStates, NoClientEscapesStop
  <2> QED
    BY <2>1, <2>2
<1>2. ServerInv /\ [Next]_vars => ServerInv'
  BY FlagsStep, HoldingStep, RegisteredStep, DeliveredStep, StoppingStep,
     BoundedStep DEF ServerInv
<1> QED
  BY RegistryInitial, <1>1, <1>2, PTL DEF Spec, ServerInv

\* Stop() reaches every connection: one is dropped by the accept loop or is
\* among the active sockets when they are shut down.
THEOREM StopReachesEveryClient == Spec => []NoClientEscapesStop
<1>1. ServerInv => NoClientEscapesStop
  BY DEF ServerInv, Stopping
<1> QED
  BY ServerInvariant, <1>1, PTL

\* Nothing of the server outlives Stop() or the unload of the plugin.
THEOREM StopLeavesNothing == Spec => []StoppedIsQuiescent
<1>1. ServerInv => StoppedIsQuiescent
  <2> SUFFICES ASSUME ServerInv, control \in {"idle", "unloaded"},
                      acceptor = "none"
               PROVE  StoppedIsQuiescent
    BY DEF StoppedIsQuiescent
  <2>1. Live = {} /\ clientTasks = {}
    BY DEF ServerInv, Stopping
  <2>2. ~running /\ ~listening /\ ~activeInstance
    BY DEF ServerInv, Stopping, StopStates
  <2>3. broadcast = "idle"
    BY <2>2 DEF ServerInv, Stopping
  <2>4. \A c \in Conns : socket[c] = None
    BY <2>1, NoneAssumption DEF ServerInv, Holding, HandlesFollowTasks,
       AcceptorHolds, Live
  <2>5. OpenSockets = {} /\ activeClientSockets = {} /\ sseClientSockets = {}
    BY <2>4, NoneAssumption DEF ServerInv, Holding, DataOK, Registered,
       ActiveSocketsAreOpen, NoStaleTarget, OpenSockets
  <2>6. \A c \in Conns : legacySessions[c] = None
    BY <2>4 DEF ServerInv, Registered, SessionIsItsConnection
  <2> QED
    BY <2>1, <2>2, <2>3, <2>5, <2>6 DEF StoppedIsQuiescent
<1> QED
  BY ServerInvariant, <1>1, PTL

\* The tasks serving clients are futures the limit counts, or the one that the
\* accept loop found room for and is about to enroll.
LEMMA LiveWithinLimit ==
  ASSUME ServerInv
  PROVE  /\ IsFiniteSet(Live) /\ Cardinality(Live) \in Nat
         /\ Cardinality(Live) <= MaxConnections
         /\ acceptor = "spawn" => Cardinality(Live) < MaxConnections
<1> USE MaxAssumption
<1>1. CASE acceptor = "none"
  <2>1. Live \in SUBSET draining
    BY <1>1 DEF ServerInv, Stopping
  <2> QED
    BY <1>1, <2>1, FS_Subset, FS_CardinalityType DEF ServerInv, Bounded
<1>2. CASE acceptor = "enroll"
  <2>1. draining = {}
    BY <1>2 DEF ServerInv, Stopping, AfterJoin
  <2>2. Live \in SUBSET (clientTasks \cup {accepted})
    BY <1>2, <2>1 DEF ServerInv, Stopping
  <2>3. /\ IsFiniteSet(clientTasks \cup {accepted})
        /\ Cardinality(clientTasks) \in Nat
        /\ Cardinality(clientTasks \cup {accepted})
              <= Cardinality(clientTasks) + 1
    BY OneMore DEF ServerInv, Bounded
  <2>4. Cardinality(clientTasks) < MaxConnections
    BY <1>2 DEF ServerInv, Bounded
  <2> QED
    BY <1>2, <2>2, <2>3, <2>4, FS_Subset, FS_CardinalityType
<1>3. CASE acceptor \notin {"none", "enroll"}
  <2>1. draining = {}
    BY <1>3 DEF ServerInv, Stopping, AfterJoin
  <2>2. Live \in SUBSET clientTasks
    BY <1>3, <2>1 DEF ServerInv, Stopping
  <2> QED
    BY <1>3, <2>2, FS_Subset, FS_CardinalityType DEF ServerInv, Bounded
<1> QED
  BY <1>1, <1>2, <1>3

\* No more clients are served at a time than server.max_connections allows.
THEOREM ConnectionLimit == Spec => []LiveTasksBounded
<1>1. ServerInv => LiveTasksBounded
  BY LiveWithinLimit DEF LiveTasksBounded
<1> QED
  BY ServerInvariant, <1>1, PTL

LEMMA SameCardinality == \A S : Abstract!Cardinality(S) = Cardinality(S)
  BY DEF Abstract!Cardinality, Cardinality, Abstract!IsFiniteSet, IsFiniteSet

\* The server implements Admission: each of its steps takes one client on,
\* finishes one, opens, shuts, or changes nothing that Admission speaks of.
THEOREM AdmissionImplemented == Spec => ImplementsAdmission
<1> USE DEF Abstract!Open, Abstract!TakeOn, Abstract!Finish, Abstract!Shut,
        Abstract!AdmissionNext, Abstract!admissionVars, Live, TaskStates,
        StreamStates, lifecycle, accepting, futures, registries, handles,
        posts, notifier
<1>1. Init => Abstract!AdmissionInit
  BY DEF Init, Abstract!AdmissionInit
<1>2. ServerInv /\ [Next]_vars =>
        [Abstract!AdmissionNext]_Abstract!admissionVars
  <2> SUFFICES ASSUME ServerInv, [Next]_vars
               PROVE  [Abstract!AdmissionNext]_Abstract!admissionVars
    OBVIOUS
  <2>0. DataOK /\ AcceptorHolds
    BY DEF ServerInv, Holding
  <2> USE <2>0, NoneAssumption DEF DataOK, AcceptorHolds, ConnStates
  <2>1. CASE StartLaunch
    <3>1. Live = {}
      BY <2>1 DEF StartLaunch, ServerInv, Stopping
    <3> QED
      BY <2>1, <3>1 DEF StartLaunch
  <2>2. CASE \/ StartListen \/ StartFails \/ StartPublish
             \/ StartLaunchFails \/ StartTerminates \/ StopBegin \/ Unload
    BY <2>2 DEF StartListen, StartFails, StartPublish, StartLaunchFails,
       StartTerminates, StopBegin, Unload
  <2>3. CASE StopCloseListen
    BY <2>3 DEF StopCloseListen
  <2>4. CASE \/ StopShutdown \/ StopJoin \/ StopDrain \/ StopClearActive
             \/ StopClearSse \/ StopWithdraw
    BY <2>4 DEF StopShutdown, StopJoin, StopDrain, StopClearActive,
       StopClearSse, StopWithdraw
  <2>5. CASE AcceptorLoop \/ AcceptorLeaves \/ AcceptFails
    BY <2>5 DEF AcceptorLoop, AcceptorLeaves, AcceptFails
  <2>6. CASE Refuse \/ CheckStopped \/ SpawnFails
    BY <2>6 DEF Refuse, CheckStopped, SpawnFails, DropAccepted
  <2>7. CASE Admit \/ CheckRunning \/ Insert \/ Enroll
    BY <2>7 DEF Admit, CheckRunning, Insert, Enroll
  <2>8. CASE Spawn
    <3>1. Cardinality(Live) < MaxConnections
      BY <2>8, LiveWithinLimit DEF Spawn
    <3>2. accepted \in Conns /\ pc[accepted] = "accepted"
      BY <2>8 DEF Spawn
    <3>3. Live' = Live \cup {accepted}
      BY <2>8, <3>2 DEF Spawn
    <3>4. {c \in Conns : pc[c] \in TaskStates \cup {"done"}}'
            = {c \in Conns : pc[c] \in TaskStates \cup {"done"}}
                \cup {accepted}
      BY <2>8, <3>2 DEF Spawn
    <3>5. acceptor = "spawn" /\ acceptor' = "enroll"
      BY <2>8 DEF Spawn
    <3>6. Abstract!TakeOn(accepted)
      <4>1. acceptor \notin {"none", "exited"}
        BY <3>5
      <4>2. accepted \notin {c \in Conns : pc[c] \in TaskStates \cup {"done"}}
        BY <3>2
      <4>3. UNCHANGED (acceptor \notin {"none", "exited"})
        BY <3>5
      <4>4. Abstract!Cardinality(Live) < MaxConnections
        BY <3>1, SameCardinality
      <4> QED
        BY ONLY <3>3, <3>4, <4>1, <4>2, <4>3, <4>4 DEF Abstract!TakeOn
    <3> QED
      BY <3>2, <3>6
  <2>9. ASSUME NEW c \in Conns, NEW s \in Sockets, Accept(c, s)
        PROVE  [Abstract!AdmissionNext]_Abstract!admissionVars
    BY <2>9 DEF Accept
  <2>10. ASSUME NEW c \in Conns,
                \/ Answer(c) \/ OpenStream(c) \/ OpenFails(c) \/ Post(c)
                \/ CallReturns(c) \/ Throws(c) \/ Connect(c)
                \/ RegisterSse(c) \/ RegisterStream(c) \/ Unregister(c)
                \/ Push(c) \/ LeaveActive(c)
                \/ \E d \in Conns : PostToSession(c, d)
         PROVE  [Abstract!AdmissionNext]_Abstract!admissionVars
    BY <2>10 DEF Answer, OpenStream, OpenFails, Post, CallReturns, Throws,
       Connect, RegisterSse, RegisterStream, Unregister, Push, LeaveActive,
       PostToSession, Goto
  <2>11. ASSUME NEW c \in Conns, Close(c)
         PROVE  [Abstract!AdmissionNext]_Abstract!admissionVars
    BY <2>11 DEF Close, Goto
  <2>12. CASE BroadcastBegin \/ BroadcastAdvances
    BY <2>12 DEF BroadcastBegin, BroadcastAdvances, BroadcastRegistry,
       BroadcastSend, BroadcastEnd
  <2>13. CASE UNCHANGED vars
    BY <2>13 DEF vars
  <2> QED
    BY <2>1, <2>2, <2>3, <2>4, <2>5, <2>6, <2>7, <2>8, <2>9, <2>10, <2>11,
       <2>12, <2>13
    DEF Next, Over, Start, Stop, AcceptorAdvances, TaskAdvances, StreamStops,
        PeerCloses
<1> QED
  BY ServerInvariant, <1>1, <1>2, PTL
  DEF Spec, ImplementsAdmission, Abstract!AdmissionSpec
=============================================================================
