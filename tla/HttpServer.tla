---------------------------- MODULE HttpServer ----------------------------
(***************************************************************************)
(* The life of MCPHttpServer (src/src/communication/MCPHttpServer.cpp):    *)
(* Start and Stop on the thread that owns the server, the accept loop on   *)
(* its own thread, one task per admitted connection, the registries of     *)
(* active sockets, event streams and legacy sessions, and the debugger     *)
(* thread that broadcasts notifications to the registered streams.         *)
(*                                                                         *)
(* A SOCKET is a handle that the operating system hands out again as soon  *)
(* as closesocket() returned it, so there are fewer Sockets than Conns:    *)
(* a registry that keeps a handle too long would name another connection.  *)
(* What a request asks for is not modelled here; it only decides whether   *)
(* the task answers at once, opens a stream, or runs a call.               *)
(***************************************************************************)
EXTENDS Naturals, FiniteSets

CONSTANTS
  Conns,            \* connections that clients may open, each used once
  Sockets,          \* SOCKET handles
  Origins,          \* values of the Origin header
  Origin,           \* the origin from which each connection is opened
  MaxConnections,   \* m_maxConnections
  None              \* neither a connection nor a socket

ASSUME NoneAssumption == None \notin Conns /\ None \notin Sockets
ASSUME OriginAssumption == Origin \in [Conns -> Origins]
ASSUME MaxAssumption == MaxConnections \in Nat \ {0}

VARIABLES
  running,              \* m_running
  listening,            \* m_listenSocket # INVALID_SOCKET
  activeInstance,       \* s_activeInstance = this
  control,              \* where Start() or Stop() is on the owning thread
  unloading,            \* plugstop() has begun: no Start() can follow
  acceptor,             \* where ServerLoop() is; "none": not joinable
  accepted,             \* the connection ServerLoop() has just accepted
  clientTasks,          \* m_clientTasks: the connection of each future
  draining,             \* the futures Stop() swapped out and waits for
  activeClientSockets,  \* m_activeClientSockets
  sseClientSockets,     \* m_sseClientSockets
  legacySessions,       \* m_legacySessions: the socket of the session that
                        \* a connection opened, None when there is none
  pc,                   \* where each connection's task is
  socket,               \* the open handle of each connection, or None
  target,               \* the session a POST names, by the connection of it
  shut,                 \* connections on which Stop() called shutdown()
  delivered,            \* <<poster, receiver>> of the responses pushed
  broadcast,            \* where BroadcastNotification() is
  pending               \* sockets it has yet to write to

lifecycle  == <<running, listening, activeInstance, control, unloading>>
accepting  == <<acceptor, accepted>>
futures    == <<clientTasks, draining>>
registries == <<activeClientSockets, sseClientSockets, legacySessions>>
handles    == <<socket, shut>>
posts      == <<target, delivered>>
notifier   == <<broadcast, pending>>

vars == <<lifecycle, accepting, futures, registries, pc, handles, posts,
          notifier>>

ControlStates == {"idle", "publish", "launch", "close", "shutdown", "join",
                  "drain", "clear", "clearSse", "withdraw", "unloaded",
                  "terminated"}
AcceptorStates == {"none", "loop", "accept", "admit", "check", "insert",
                   "spawn", "enroll", "exited"}
StreamStates == {"stream", "leave", "close"}
TaskStates == {"receive", "openSse", "openStream", "call", "push"}
                 \cup StreamStates
ConnStates == {"new", "backlog", "accepted", "done", "rejected"}
                 \cup TaskStates

Live == {c \in Conns : pc[c] \in TaskStates}
OpenSockets == {s \in Sockets : \E c \in Conns : socket[c] = s}

\* The two registry mutexes are held across steps only while the accept loop
\* is between its check of m_running and the insertion, and while a broadcast
\* is sending; every other critical section is one step.
InsertUnlocked == TRUE
ActiveFree == acceptor # "insert"
RegistryFree == broadcast # "sending"

Init ==
  /\ running = FALSE /\ listening = FALSE /\ activeInstance = FALSE
  /\ control = "idle" /\ unloading = FALSE
  /\ acceptor = "none" /\ accepted = None
  /\ clientTasks = {} /\ draining = {}
  /\ activeClientSockets = {} /\ sseClientSockets = {}
  /\ legacySessions = [c \in Conns |-> None]
  /\ pc = [c \in Conns |-> "new"]
  /\ socket = [c \in Conns |-> None]
  /\ target = [c \in Conns |-> None]
  /\ shut = {} /\ delivered = {}
  /\ broadcast = "idle" /\ pending = {}
-----------------------------------------------------------------------------
(* Start(), from the menu or from the auto-start of the plugin.            *)

\* The sockets calls succeed: the listener is open and m_running is set.
StartListen ==
  /\ control = "idle" /\ ~running
  /\ running' = TRUE /\ listening' = TRUE /\ control' = "publish"
  /\ UNCHANGED <<activeInstance, unloading, accepting, futures, registries,
                 pc, handles, posts, notifier>>

\* bind() or listen() fails: the new listener is closed again.
StartFails ==
  /\ control = "idle" /\ ~running
  /\ listening' = FALSE
  /\ UNCHANGED <<running, activeInstance, control, unloading, accepting,
                 futures, registries, pc, handles, posts, notifier>>

\* s_activeInstance = this, under s_activeInstanceMutex.
StartPublish ==
  /\ control = "publish" /\ broadcast = "idle"
  /\ activeInstance' = TRUE /\ control' = "launch"
  /\ UNCHANGED <<running, listening, unloading, accepting, futures,
                 registries, pc, handles, posts, notifier>>

\* m_serverThread = std::thread(...) over an empty std::thread.
StartLaunch ==
  /\ control = "launch" /\ acceptor = "none"
  /\ acceptor' = "loop" /\ control' = "idle"
  /\ UNCHANGED <<running, listening, activeInstance, unloading, accepted,
                 futures, registries, pc, handles, posts, notifier>>

\* The thread cannot be created: Start() calls Stop() and returns false.
StartLaunchFails ==
  /\ control = "launch"
  /\ running' = FALSE /\ control' = "close"
  /\ UNCHANGED <<listening, activeInstance, unloading, accepting, futures,
                 registries, pc, handles, posts, notifier>>

\* Assigning to a std::thread that is still joinable calls std::terminate.
StartTerminates ==
  /\ control = "launch" /\ acceptor # "none"
  /\ control' = "terminated"
  /\ UNCHANGED <<running, listening, activeInstance, unloading, accepting,
                 futures, registries, pc, handles, posts, notifier>>
-----------------------------------------------------------------------------
(* Stop(), from the menu, from plugstop() and the destructor, or from a    *)
(* Start() that could not create its thread.                               *)

\* The menu entry calls Stop() only while IsRunning().
StopBegin ==
  /\ control = "idle" /\ running
  /\ running' = FALSE /\ control' = "close"
  /\ UNCHANGED <<listening, activeInstance, unloading, accepting, futures,
                 registries, pc, handles, posts, notifier>>

\* The early return of Stop(): nothing was left behind.
Inert == /\ ~running /\ ~listening /\ acceptor = "none"
         /\ clientTasks = {} /\ activeClientSockets = {}

\* plugstop() stops a running server; the destructor stops it in any case.
Unload ==
  /\ control = "idle"
  /\ unloading' = TRUE /\ running' = FALSE
  /\ control' = IF Inert THEN "unloaded" ELSE "close"
  /\ UNCHANGED <<listening, activeInstance, accepting, futures, registries,
                 pc, handles, posts, notifier>>

\* Closing the listener resets the connections that wait to be accepted.
StopCloseListen ==
  /\ control = "close"
  /\ listening' = FALSE /\ control' = "shutdown"
  /\ pc' = [c \in Conns |-> IF pc[c] = "backlog" THEN "rejected" ELSE pc[c]]
  /\ UNCHANGED <<running, activeInstance, unloading, accepting, futures,
                 registries, handles, posts, notifier>>

StopShutdown ==
  /\ control = "shutdown" /\ ActiveFree
  /\ shut' = shut \cup {c \in Conns : socket[c] \in activeClientSockets}
  /\ control' = "join"
  /\ UNCHANGED <<running, listening, activeInstance, unloading, accepting,
                 futures, registries, pc, socket, posts, notifier>>

StopJoin ==
  /\ control = "join" /\ acceptor \in {"none", "exited"}
  /\ acceptor' = "none" /\ control' = "drain"
  /\ draining' = clientTasks /\ clientTasks' = {}
  /\ UNCHANGED <<running, listening, activeInstance, unloading, accepted,
                 registries, pc, handles, posts, notifier>>

\* task.get() of every future.
DrainedLeaving == \A c \in draining : pc[c] \in {"leave", "close", "done"}
Drained == \A c \in draining : pc[c] = "done"

StopDrain ==
  /\ control = "drain" /\ Drained
  /\ draining' = {} /\ control' = "clear"
  /\ UNCHANGED <<running, listening, activeInstance, unloading, accepting,
                 clientTasks, registries, pc, handles, posts, notifier>>

StopClearActive ==
  /\ control = "clear" /\ ActiveFree
  /\ activeClientSockets' = {} /\ control' = "clearSse"
  /\ UNCHANGED <<running, listening, activeInstance, unloading, accepting,
                 futures, sseClientSockets, legacySessions, pc, handles,
                 posts, notifier>>

StopClearSse ==
  /\ control = "clearSse" /\ RegistryFree
  /\ sseClientSockets' = {}
  /\ legacySessions' = [c \in Conns |-> None]
  /\ control' = "withdraw"
  /\ UNCHANGED <<running, listening, activeInstance, unloading, accepting,
                 futures, activeClientSockets, pc, handles, posts, notifier>>

StopWithdraw ==
  /\ control = "withdraw" /\ broadcast = "idle"
  /\ activeInstance' = FALSE
  /\ control' = IF unloading THEN "unloaded" ELSE "idle"
  /\ UNCHANGED <<running, listening, unloading, accepting, futures,
                 registries, pc, handles, posts, notifier>>
-----------------------------------------------------------------------------
(* ServerLoop(), the accept thread.                                        *)

\* CleanupFinishedClientTasks(): the futures that are not ready yet.
Unfinished == {c \in clientTasks : pc[c] # "done"}

AcceptorLoop ==
  /\ acceptor = "loop" /\ running
  /\ clientTasks' = Unfinished /\ acceptor' = "accept"
  /\ UNCHANGED <<lifecycle, accepted, draining, registries, pc, handles,
                 posts, notifier>>

AcceptorLeaves ==
  /\ acceptor = "loop" /\ ~running
  /\ acceptor' = "exited"
  /\ UNCHANGED <<lifecycle, accepted, futures, registries, pc, handles,
                 posts, notifier>>

\* accept() returns a handle that no connection holds open.
Accept(c, s) ==
  /\ acceptor = "accept" /\ listening
  /\ pc[c] = "backlog" /\ s \notin OpenSockets
  /\ pc' = [pc EXCEPT ![c] = "accepted"]
  /\ socket' = [socket EXCEPT ![c] = s]
  /\ accepted' = c /\ acceptor' = "admit"
  /\ UNCHANGED <<lifecycle, futures, registries, shut, posts, notifier>>

\* accept() fails, because Stop() closed the listener or for a reason of its
\* own; in the second case the loop itself clears m_running.
AcceptFails ==
  /\ acceptor = "accept"
  /\ acceptor' = "exited" /\ running' = FALSE
  /\ UNCHANGED <<listening, activeInstance, control, unloading, accepted,
                 futures, registries, pc, handles, posts, notifier>>

\* m_clientTasks.size() >= m_maxConnections, after the cleanup.
FullAbove == Cardinality(Unfinished) > MaxConnections
Full == Cardinality(Unfinished) >= MaxConnections

\* The accepted handle is closed without becoming a client.
ForgetAccepted ==
  /\ pc' = [pc EXCEPT ![accepted] = "rejected"]
  /\ accepted' = None
  /\ UNCHANGED socket

DropAccepted ==
  /\ pc' = [pc EXCEPT ![accepted] = "rejected"]
  /\ socket' = [socket EXCEPT ![accepted] = None]
  /\ accepted' = None

Refuse ==
  /\ acceptor = "admit" /\ Full
  /\ clientTasks' = Unfinished /\ acceptor' = "loop"
  /\ DropAccepted
  /\ UNCHANGED <<lifecycle, draining, registries, shut, posts, notifier>>

Admit ==
  /\ acceptor = "admit" /\ ~Full
  /\ clientTasks' = Unfinished /\ acceptor' = "check"
  /\ UNCHANGED <<lifecycle, accepted, draining, registries, pc, handles,
                 posts, notifier>>

\* Under m_activeClientSocketsMutex: m_running is read once more ...
CheckRunning ==
  /\ acceptor = "check" /\ running
  /\ acceptor' = "insert"
  /\ UNCHANGED <<lifecycle, accepted, futures, registries, pc, handles,
                 posts, notifier>>

CheckStopped ==
  /\ acceptor = "check" /\ ~running
  /\ acceptor' = "exited"
  /\ DropAccepted
  /\ UNCHANGED <<lifecycle, futures, registries, shut, posts, notifier>>

\* ... and the handle inserted before the mutex is released.
Insert ==
  /\ acceptor = "insert"
  /\ activeClientSockets' = activeClientSockets \cup {socket[accepted]}
  /\ acceptor' = "spawn"
  /\ UNCHANGED <<lifecycle, accepted, futures, sseClientSockets,
                 legacySessions, pc, handles, posts, notifier>>

Spawn ==
  /\ acceptor = "spawn"
  /\ pc' = [pc EXCEPT ![accepted] = "receive"]
  /\ acceptor' = "enroll"
  /\ UNCHANGED <<lifecycle, accepted, futures, registries, handles, posts,
                 notifier>>

\* std::async throws: the handle is withdrawn and closed.
SpawnFails ==
  /\ acceptor = "spawn"
  /\ activeClientSockets' = activeClientSockets \ {socket[accepted]}
  /\ acceptor' = "loop"
  /\ DropAccepted
  /\ UNCHANGED <<lifecycle, futures, sseClientSockets, legacySessions, shut,
                 posts, notifier>>

EnrollMoved ==
  /\ acceptor = "enroll"
  /\ accepted' = None /\ acceptor' = "loop"
  /\ clientTasks' = clientTasks \cup {accepted'}
  /\ UNCHANGED <<lifecycle, draining, registries, pc, handles, posts,
                 notifier>>

Enroll ==
  /\ acceptor = "enroll"
  /\ clientTasks' = clientTasks \cup {accepted}
  /\ accepted' = None /\ acceptor' = "loop"
  /\ UNCHANGED <<lifecycle, draining, registries, pc, handles, posts,
                 notifier>>
-----------------------------------------------------------------------------
(* HandleClient(), the task of connection c.                               *)

Goto(c, from, to) == pc[c] = from /\ pc' = [pc EXCEPT ![c] = to]

\* The request is not received in time, is refused, or is answered at once.
Answer(c) ==
  /\ Goto(c, "receive", "leave")
  /\ UNCHANGED <<lifecycle, accepting, futures, registries, handles, posts,
                 notifier>>

\* GET /sse and GET /mcp: the headers of an event stream are sent.
OpenStream(c) ==
  /\ \/ Goto(c, "receive", "openSse")
     \/ Goto(c, "receive", "openStream")
  /\ UNCHANGED <<lifecycle, accepting, futures, registries, handles, posts,
                 notifier>>

\* A send or the random number generator fails before or while registering;
\* a failed endpoint event takes the registration back in the same section.
OpenFails(c) ==
  /\ \/ Goto(c, "openSse", "leave")
     \/ Goto(c, "openStream", "leave")
  /\ UNCHANGED <<lifecycle, accepting, futures, registries, handles, posts,
                 notifier>>

RegisterSse(c) ==
  /\ RegistryFree /\ Goto(c, "openSse", "stream")
  /\ sseClientSockets' = sseClientSockets \cup {socket[c]}
  /\ legacySessions' = [legacySessions EXCEPT ![c] = socket[c]]
  /\ UNCHANGED <<lifecycle, accepting, futures, activeClientSockets, handles,
                 posts, notifier>>

RegisterStream(c) ==
  /\ RegistryFree /\ Goto(c, "openStream", "stream")
  /\ sseClientSockets' = sseClientSockets \cup {socket[c]}
  /\ UNCHANGED <<lifecycle, accepting, futures, activeClientSockets,
                 legacySessions, handles, posts, notifier>>

\* The stream's loop ends and takes its registration back.
Unregister(c) ==
  /\ RegistryFree /\ Goto(c, "stream", "leave")
  /\ sseClientSockets' = sseClientSockets \ {socket[c]}
  /\ legacySessions' = [legacySessions EXCEPT ![c] = None]
  /\ UNCHANGED <<lifecycle, accepting, futures, activeClientSockets, handles,
                 posts, notifier>>

StreamNeverStops(c) == control = "unloaded" /\ Unregister(c)
StreamStops(c) == ~running /\ Unregister(c)
PeerCloses(c) == Unregister(c)

\* POST without a session: the response goes back on the same connection.
Post(c) ==
  /\ Goto(c, "receive", "call")
  /\ UNCHANGED <<lifecycle, accepting, futures, registries, handles, posts,
                 notifier>>

\* The session that connection d opened exists, and c has the same origin.
SessionExists(c, d) == legacySessions[d] # None
SessionAccepts(c, d) == legacySessions[d] # None /\ Origin[d] = Origin[c]

\* POST to a session; without one that accepts it the answer is 404.
PostToSession(c, d) ==
  /\ RegistryFree /\ Goto(c, "receive", "call")
  /\ SessionAccepts(c, d)
  /\ target' = [target EXCEPT ![c] = d]
  /\ UNCHANGED <<lifecycle, accepting, futures, registries, handles,
                 delivered, notifier>>

\* The call returns. A notification, or a POST without a session, is answered
\* on the connection itself; a request of a session is acknowledged first.
CallReturns(c) ==
  /\ \/ Goto(c, "call", "leave")
     \/ target[c] # None /\ Goto(c, "call", "push")
  /\ UNCHANGED <<lifecycle, accepting, futures, registries, handles, posts,
                 notifier>>

\* The session is looked up again, and the response written to its socket.
Push(c) ==
  /\ RegistryFree /\ Goto(c, "push", "leave")
  /\ delivered' = delivered \cup
       {<<c, d>> : d \in {d \in Conns : /\ socket[d] # None
                                        /\ socket[d] = legacySessions[target[c]]}}
  /\ UNCHANGED <<lifecycle, accepting, futures, registries, handles, target,
                 notifier>>

\* An exception leaves the handler; a stream has not taken itself back then.
Throws(c) ==
  /\ pc[c] \in {"receive", "openSse", "openStream", "call", "push", "stream"}
  /\ pc' = [pc EXCEPT ![c] = "leave"]
  /\ UNCHANGED <<lifecycle, accepting, futures, registries, handles, posts,
                 notifier>>

LeaveActive(c) ==
  /\ ActiveFree /\ Goto(c, "leave", "close")
  /\ activeClientSockets' = activeClientSockets \ {socket[c]}
  /\ UNCHANGED <<lifecycle, accepting, futures, sseClientSockets,
                 legacySessions, handles, posts, notifier>>

\* m_legacySessions without the entries that hold handle s.
AllSessions(s) == legacySessions
SessionsWithout(s) ==
  [d \in Conns |-> IF legacySessions[d] = s THEN None ELSE legacySessions[d]]

\* The last section of the task: whatever names the handle is removed before
\* the handle is closed, under one lock.
Close(c) ==
  /\ RegistryFree /\ Goto(c, "close", "done")
  /\ sseClientSockets' = sseClientSockets \ {socket[c]}
  /\ legacySessions' = SessionsWithout(socket[c])
  /\ socket' = [socket EXCEPT ![c] = None]
  /\ UNCHANGED <<lifecycle, accepting, futures, activeClientSockets, shut,
                 posts, notifier>>
-----------------------------------------------------------------------------
(* Clients, and BroadcastNotification() on the debugger's thread.          *)

Connect(c) ==
  /\ listening /\ Goto(c, "new", "backlog")
  /\ UNCHANGED <<lifecycle, accepting, futures, registries, handles, posts,
                 notifier>>

\* s_activeInstanceMutex is taken and held until the broadcast is over.
BroadcastBegin ==
  /\ broadcast = "idle" /\ activeInstance /\ running
  /\ broadcast' = "locked"
  /\ UNCHANGED <<lifecycle, accepting, futures, registries, pc, handles,
                 posts, pending>>

BroadcastRegistry ==
  /\ broadcast = "locked"
  /\ broadcast' = "sending" /\ pending' = sseClientSockets
  /\ UNCHANGED <<lifecycle, accepting, futures, registries, pc, handles,
                 posts>>

BroadcastSend(s) ==
  /\ broadcast = "sending" /\ s \in pending
  /\ pending' = pending \ {s}
  /\ UNCHANGED <<lifecycle, accepting, futures, registries, pc, handles,
                 posts, broadcast>>

BroadcastEnd ==
  /\ broadcast = "sending" /\ pending = {}
  /\ broadcast' = "idle"
  /\ UNCHANGED <<lifecycle, accepting, futures, registries, pc, handles,
                 posts, pending>>
-----------------------------------------------------------------------------
Start == \/ StartListen \/ StartFails \/ StartPublish \/ StartLaunch
         \/ StartLaunchFails \/ StartTerminates

Stop == \/ StopCloseListen \/ StopShutdown \/ StopJoin \/ StopDrain
        \/ StopClearActive \/ StopClearSse \/ StopWithdraw

\* Once started, these finish: the steps of Start() and Stop() ...
ControlAdvances == \/ StartPublish \/ StartLaunch \/ StartTerminates \/ Stop

\* ... of the accept loop, whose accept() returns when the listener closes ...
AcceptorAdvances ==
  \/ AcceptorLoop \/ AcceptorLeaves
  \/ (~listening /\ AcceptFails)
  \/ Refuse \/ Admit \/ CheckRunning \/ CheckStopped
  \/ Insert \/ Spawn \/ SpawnFails \/ Enroll

\* ... of a task, whose receive has a deadline and whose calls return ...
TaskAdvances(c) ==
  \/ Answer(c) \/ OpenStream(c) \/ OpenFails(c)
  \/ RegisterSse(c) \/ RegisterStream(c) \/ StreamStops(c)
  \/ Post(c) \/ (\E d \in Conns : PostToSession(c, d))
  \/ CallReturns(c) \/ Push(c) \/ LeaveActive(c) \/ Close(c)

\* ... and of a broadcast.
BroadcastAdvances ==
  \/ BroadcastRegistry \/ (\E s \in Sockets : BroadcastSend(s))
  \/ BroadcastEnd

\* The thread that owned the server does no more after the unload, nor after
\* std::terminate, which the others outlive until the process is gone.
Over ==
  /\ control \in {"unloaded", "terminated"}
  /\ UNCHANGED vars

Next ==
  \/ Start \/ Stop \/ StopBegin \/ Unload
  \/ AcceptorAdvances \/ AcceptFails
  \/ \E c \in Conns : \/ TaskAdvances(c) \/ PeerCloses(c) \/ Throws(c)
                      \/ Connect(c)
                      \/ \E s \in Sockets : Accept(c, s)
  \/ BroadcastBegin \/ BroadcastAdvances
  \/ Over

Spec == Init /\ [][Next]_vars

Fairness ==
  /\ WF_vars(ControlAdvances)
  /\ WF_vars(AcceptorAdvances)
  /\ \A c \in Conns : WF_vars(TaskAdvances(c))
  /\ WF_vars(BroadcastAdvances)

FairSpec == Spec /\ Fairness
-----------------------------------------------------------------------------
(* Every variable keeps its type.                                          *)
FlagsOK ==
  /\ running \in BOOLEAN /\ listening \in BOOLEAN
  /\ activeInstance \in BOOLEAN /\ unloading \in BOOLEAN

DataOK ==
  /\ control \in ControlStates
  /\ acceptor \in AcceptorStates /\ accepted \in Conns \cup {None}
  /\ clientTasks \subseteq Conns /\ draining \subseteq Conns
  /\ activeClientSockets \subseteq Sockets
  /\ sseClientSockets \subseteq Sockets
  /\ legacySessions \in [Conns -> Sockets \cup {None}]
  /\ pc \in [Conns -> ConnStates]
  /\ socket \in [Conns -> Sockets \cup {None}]
  /\ target \in [Conns -> Conns \cup {None}]
  /\ shut \subseteq Conns /\ delivered \subseteq Conns \X Conns
  /\ broadcast \in {"idle", "locked", "sending"}
  /\ pending \subseteq Sockets

TypeOK == FlagsOK /\ DataOK

(* "A closed socket must never be reused as a target" (BroadcastSSEEvent): *)
(* each handle in the stream registry, and each that a broadcast is about  *)
(* to write to, is held open by a connection that did open a stream.       *)
NoStaleTarget ==
  \A s \in sseClientSockets \cup pending :
    \E c \in Conns : socket[c] = s /\ pc[c] \in StreamStates

(* A session leads to the connection that opened it, although handles are  *)
(* handed out again: as long as the entry exists it holds that connection's*)
(* own open handle.                                                        *)
SessionIsItsConnection ==
  \A d \in Conns : legacySessions[d] # None =>
    legacySessions[d] = socket[d] /\ pc[d] \in StreamStates

(* A response pushed after the call reaches the stream of the session that *)
(* the POST named before the call, which has the origin of the POST, and   *)
(* no other client.                                                        *)
ResponseReachesItsSession ==
  \A p \in delivered : p[2] = target[p[1]] /\ Origin[p[1]] = Origin[p[2]]

(* Stop() calls shutdown() only on handles that a client still holds: each *)
(* active socket is open, and neither its task nor the accept loop is about*)
(* to close it.                                                            *)
ActiveSocketsAreOpen ==
  \A s \in activeClientSockets :
    \E c \in Conns : /\ socket[c] = s /\ pc[c] # "close"
                     /\ pc[c] = "accepted" => acceptor = "spawn"

(* The registry of streams, the sessions and the active sockets hold open  *)
(* handles of the clients they are meant for, although handle numbers are  *)
(* used again.                                                             *)
RegistriesNameOpenSockets ==
  NoStaleTarget /\ SessionIsItsConnection /\ ActiveSocketsAreOpen

(* A connection that is being accepted while Stop() runs is either dropped *)
(* or shut down: once Stop() has gone through the active sockets, no task  *)
(* is left that it did not reach.                                          *)
NoClientEscapesStop ==
  control \in {"join", "drain"} =>
    \A c \in Conns : socket[c] \in activeClientSockets => c \in shut

(* At no time do more than MaxConnections tasks serve a client.            *)
LiveTasksBounded == Cardinality(Live) <= MaxConnections

(* After Stop(), and before the plugin is unloaded, nothing is left of the *)
(* server: no task, thread, broadcast, open handle or registered entry.    *)
StoppedIsQuiescent ==
  control \in {"idle", "unloaded"} /\ acceptor = "none" =>
    /\ Live = {} /\ OpenSockets = {} /\ broadcast = "idle"
    /\ ~running /\ ~listening /\ ~activeInstance
    /\ clientTasks = {} /\ activeClientSockets = {} /\ sseClientSockets = {}
    /\ \A c \in Conns : legacySessions[c] = None

(* Every handle that accept() returned is closed exactly when its task or  *)
(* the accept loop is done with it.                                        *)
HandlesFollowTasks ==
  \A c \in Conns : socket[c] # None <=> pc[c] \in TaskStates \cup {"accepted"}

(* The server implements Admission: clients are served within the bound,   *)
(* each once, and a restart finds none of an earlier run.                  *)
Abstract == INSTANCE Admission WITH
  open    <- acceptor \notin {"none", "exited"},
  serving <- Live,
  served  <- {c \in Conns : pc[c] \in TaskStates \cup {"done"}}

ImplementsAdmission == Abstract!AdmissionSpec

(* Stop() returns, whatever the clients do.                                *)
StopReturns == control = "close" ~> control \in {"idle", "unloaded"}

(* Start() returns or fails; it does not end the debugger's process.       *)
StartNeverTerminates == control # "terminated"
=============================================================================
