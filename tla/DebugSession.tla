---------------------------- MODULE DebugSession ----------------------------
(***************************************************************************)
(* The sessions of DebugController (src/src/business/DebugController.cpp): *)
(* init, restart and attach, called by concurrent HTTP tasks. They hold    *)
(* m_operationMutex, but only queue commands: x64dbg's command thread runs *)
(* them later, mcpattach and mcpdetach (src/src/PluginEntry.cpp) without   *)
(* that mutex. A launched process is named after the call that launched it.*)
(***************************************************************************)
EXTENDS Sequences, FiniteSets

CONSTANTS
  Ops,      \* calls of init, restart and attach
  Kind,     \* which of them each call is
  Target,   \* the path that an init may give, the pid of an attach
  Polite,   \* the attach calls with detach_first = false
  Pids,     \* processes that run before the calls
  Image,    \* the path of each of them
  Patient,  \* no deadline passes before the command thread is through
  None

Kinds == {"init", "restart", "attach"}
Paths == {Image[p] : p \in Pids} \cup
         {Target[o] : o \in {u \in Ops : Kind[u] = "init"}}

ASSUME KindAssumption == Kind \in [Ops -> Kinds] /\ Polite \subseteq Ops
ASSUME TargetAssumption ==
  /\ DOMAIN Target = Ops /\ DOMAIN Image = Pids
  /\ \A o \in Ops : Kind[o] = "attach" => Target[o] \in Pids
ASSUME NoneAssumption == None \notin Ops \cup Pids \cup Paths
ASSUME PidAssumption == Ops \cap Pids = {}
ASSUME PatientAssumption == Patient \in BOOLEAN

VARIABLES
  pc,           \* where each call is
  holder,       \* the call that holds m_operationMutex
  path,         \* the program that each init or restart launches
  lastPath,     \* m_lastDebuggedPath
  reported,     \* the process that each successful attach found debugged
  queue,        \* the commands of DbgCmdExec() that wait
  command,      \* the one that the command thread runs, or None
  thread,       \* where the command thread is
  session,      \* the process that is debugged, or None
  created,      \* CB_CreateProcess() of the session: "pending" or "reported"
  alive,        \* processes of Pids that still run
  lastStarted,  \* the program of the last session
  rejected      \* programs that x64dbg failed to launch since

caller   == <<pc, holder, path, reported>>
debugger == <<command, thread, session, created, alive, lastStarted, rejected>>
vars == <<caller, lastPath, queue, debugger>>

PCs == {"called", "resolved", "choose", "enqueue", "cache",
        "probe", "busy", "compare", "detach", "leave", "attach", "join",
        "ok", "failed"}

Commands == [name : {"init", "mcpattach", "mcpdetach"}, op : Ops]

Init ==
  /\ pc = [o \in Ops |-> "called"] /\ holder = None
  /\ path = [o \in Ops |-> None] /\ reported = [o \in Ops |-> None]
  /\ lastPath = None /\ queue = <<>> /\ command = None /\ thread = "idle"
  /\ session = None /\ created = "reported" /\ alive = Pids
  /\ lastStarted = None /\ rejected = {}

IsDebugging == session # None
SessionPath == IF session \in Pids THEN Image[session] ELSE path[session]
CommandThreadIsThrough == queue = <<>> /\ thread = "idle"
-----------------------------------------------------------------------------
(* The calls.                                                              *)

Goto(o, from, to) == pc[o] = from /\ pc' = [pc EXCEPT ![o] = to]

\* The call returns and releases the mutex.
Return(o, from, result) == Goto(o, from, result) /\ holder' = None

AnyPath(p) == TRUE
Known(p) == p # None

\* The handler of init takes the path that it is given, or looks for the
\* cached one before the controller is called.
ResolvePath(o) ==
  /\ Kind[o] = "init"
  /\ \E given \in {Target[o], lastPath} :
       \/ Known(given) /\ Goto(o, "called", "resolved")
            /\ path' = [path EXCEPT ![o] = given]
       \/ ~Known(given) /\ Goto(o, "called", "failed") /\ UNCHANGED path
  /\ UNCHANGED <<holder, reported, lastPath, queue, debugger>>

MutexIgnored == TRUE
MutexFree == holder = None

Lock(o) ==
  /\ MutexFree /\ holder' = o
  /\ \/ Kind[o] = "init" /\ Goto(o, "resolved", "enqueue")
     \/ Kind[o] = "restart" /\ Goto(o, "called", "choose")
     \/ Kind[o] = "attach" /\ Goto(o, "called", "probe")
  /\ UNCHANGED <<path, reported, lastPath, queue, debugger>>

\* Restart() takes the main module's path, or the cached one when there is no
\* session or none of its modules is known yet, and calls Init().
ChoosePath(o) ==
  LET current == IF IsDebugging /\ created = "reported"
                   THEN SessionPath ELSE lastPath IN
  /\ \/ Known(current) /\ Goto(o, "choose", "enqueue")
          /\ path' = [path EXCEPT ![o] = current] /\ UNCHANGED holder
     \/ ~Known(current) /\ Return(o, "choose", "failed") /\ UNCHANGED path
  /\ UNCHANGED <<reported, lastPath, queue, debugger>>

\* ExecuteCommand(): DbgCmdExec() queues a command, or refuses it.
Enqueue(o, name, from, to) ==
  /\ \/ /\ Goto(o, from, to) /\ UNCHANGED holder
        /\ queue' = Append(queue, [name |-> name, op |-> o])
     \/ Return(o, from, "failed") /\ UNCHANGED queue
  /\ UNCHANGED <<path, reported, lastPath, debugger>>

EnqueueInit(o) == Enqueue(o, "init", "enqueue", "cache")

CachePath(o) ==
  /\ Return(o, "cache", "ok") /\ lastPath' = path[o]
  /\ UNCHANGED <<path, reported, queue, debugger>>

\* A process that has exited is not attached to; one that cannot be opened is.
Probe(o) ==
  /\ \/ Target[o] \notin alive /\ Return(o, "probe", "failed")
     \/ Goto(o, "probe", "busy") /\ UNCHANGED holder
  /\ UNCHANGED <<path, reported, lastPath, queue, debugger>>

CheckBusy(o) ==
  /\ Goto(o, "busy", IF IsDebugging THEN "compare" ELSE "attach")
  /\ UNCHANGED <<holder, path, reported, lastPath, queue, debugger>>

\* GetDebuggeeProcessId(), which is 0 when the session has ended meanwhile.
ComparePid(o) ==
  /\ \/ /\ session = Target[o] /\ Return(o, "compare", "ok")
        /\ reported' = [reported EXCEPT ![o] = session]
     \/ /\ session # Target[o] /\ o \in Polite
        /\ Return(o, "compare", "failed") /\ UNCHANGED reported
     \/ /\ session # Target[o] /\ o \notin Polite
        /\ Goto(o, "compare", "detach") /\ UNCHANGED <<holder, reported>>
  /\ UNCHANGED <<path, lastPath, queue, debugger>>

EnqueueDetach(o) == Enqueue(o, "mcpdetach", "detach", "leave")

DetachNotAwaited == TRUE
DetachSeen == ~IsDebugging

Left(o) ==
  /\ DetachSeen /\ Goto(o, "leave", "attach")
  /\ UNCHANGED <<holder, path, reported, lastPath, queue, debugger>>

EnqueueAttach(o) == Enqueue(o, "mcpattach", "attach", "join")

\* WaitForDebugging(): any session will do. WaitForPause() changes nothing.
Joined(o) ==
  /\ IsDebugging /\ Return(o, "join", "ok")
  /\ reported' = [reported EXCEPT ![o] = session]
  /\ UNCHANGED <<path, lastPath, queue, debugger>>

\* A deadline passes; what was queued stays queued.
NoDeadline(o) == FALSE
TimesOut(o) ==
  /\ Patient => CommandThreadIsThrough
  /\ Return(o, "leave", "failed") \/ Return(o, "join", "failed")
  /\ UNCHANGED <<path, reported, lastPath, queue, debugger>>
-----------------------------------------------------------------------------
(* x64dbg's command thread.                                                *)

Perform(to) == thread' = to /\ UNCHANGED command
Finish == thread' = "idle" /\ command' = None

Take ==
  /\ thread = "idle" /\ queue # <<>>
  /\ command' = Head(queue) /\ queue' = Tail(queue)
  /\ thread' = IF Head(queue).name = "init" THEN "launch" ELSE "look"
  /\ UNCHANGED <<caller, lastPath, session, created, alive, lastStarted,
                 rejected>>

\* The session ends once its creation was reported; a killed process is gone.
EndSession == created = "reported" /\ session' = None /\ UNCHANGED created
Kill == EndSession /\ alive' = alive \ {session}

StartSession(s, program) ==
  /\ session' = s /\ created' = "pending"
  /\ lastStarted' = program /\ rejected' = {}

\* `init` ends the session that there is, and then launches the program.
InitEndsSession ==
  /\ thread = "launch" /\ IsDebugging /\ Kill
  /\ UNCHANGED <<caller, lastPath, queue, command, thread, lastStarted,
                 rejected>>

InitLaunches ==
  /\ thread = "launch" /\ ~IsDebugging /\ Finish
  /\ StartSession(command.op, path[command.op])
  /\ UNCHANGED <<caller, lastPath, queue, alive>>

InitFails ==
  /\ thread = "launch" /\ Finish
  /\ rejected' = rejected \cup {path[command.op]}
  /\ UNCHANGED <<caller, lastPath, queue, session, created, alive,
                 lastStarted>>

\* AttachProcessCore(), which both commands enter with detachFirst, and
\* DetachProcessCore().
Look ==
  /\ thread = "look"
  /\ \/ /\ IsDebugging /\ Perform("detach")
        /\ command.name = "mcpattach" => session # Target[command.op]
     \/ ~IsDebugging /\ command.name = "mcpattach" /\ Perform("connect")
     \/ ~IsDebugging /\ command.name = "mcpdetach" /\ Finish
     \/ IsDebugging /\ command.name = "mcpattach"
          /\ session = Target[command.op] /\ Finish
  /\ UNCHANGED <<caller, lastPath, queue, session, created, alive, lastStarted,
                 rejected>>

\* `detach` leaves the process running; it may fail, or take effect too late.
Detach ==
  /\ thread = "detach" /\ Perform("stop")
  /\ EndSession \/ UNCHANGED <<session, created>>
  /\ UNCHANGED <<caller, lastPath, queue, alive, lastStarted, rejected>>

\* What is still debugged 200 ms later is stopped, which may fail, too.
StopRest ==
  /\ thread = "stop"
  /\ \/ ~IsDebugging /\ UNCHANGED <<session, created, alive>>
     \/ IsDebugging /\ Kill
     \/ IsDebugging /\ UNCHANGED <<session, created, alive>>
  /\ IF command.name = "mcpattach" /\ session' = None
       THEN Perform("connect") ELSE Finish
  /\ UNCHANGED <<caller, lastPath, queue, lastStarted, rejected>>

Connect ==
  /\ thread = "connect" /\ ~IsDebugging /\ Finish
  /\ \/ /\ Target[command.op] \in alive
        /\ StartSession(Target[command.op], Image[Target[command.op]])
     \/ UNCHANGED <<session, created, lastStarted, rejected>>
  /\ UNCHANGED <<caller, lastPath, queue, alive>>
-----------------------------------------------------------------------------
(* The debug loop and the processes.                                       *)

\* CB_CreateProcess() and NotifyDebugSessionStarted().
CreateProcess ==
  /\ created = "pending" /\ created' = "reported" /\ lastPath' = SessionPath
  /\ UNCHANGED <<caller, queue, command, thread, session, alive, lastStarted,
                 rejected>>

DebuggeeExits ==
  /\ IsDebugging /\ Kill
  /\ UNCHANGED <<caller, lastPath, queue, command, thread, lastStarted,
                 rejected>>

ProcessExits(p) ==
  /\ p \in alive /\ p # session /\ alive' = alive \ {p}
  /\ UNCHANGED <<caller, lastPath, queue, command, thread, session, created,
                 lastStarted, rejected>>

Launching(o) ==
  ResolvePath(o) \/ ChoosePath(o) \/ EnqueueInit(o) \/ CachePath(o)

Attaching(o) ==
  \/ Probe(o) \/ CheckBusy(o) \/ ComparePid(o) \/ EnqueueDetach(o) \/ Left(o)
  \/ EnqueueAttach(o) \/ Joined(o) \/ TimesOut(o)

CommandThread ==
  \/ Take \/ InitEndsSession \/ InitLaunches \/ InitFails
  \/ Look \/ Detach \/ StopRest \/ Connect

Debuggees ==
  CreateProcess \/ DebuggeeExits \/ \E p \in Pids : ProcessExits(p)

Next ==
  \/ \E o \in Ops : Lock(o) \/ Launching(o) \/ Attaching(o)
  \/ CommandThread \/ Debuggees

Spec == Init /\ [][Next]_vars

\* Calls and the command thread go on, the creation of a process is reported,
\* and a thread gets the mutex when it stays free; no process owes an exit.
Fairness ==
  /\ \A o \in Ops : WF_vars(Lock(o)) /\ WF_vars(Launching(o) \/ Attaching(o))
  /\ WF_vars(CommandThread) /\ WF_vars(CreateProcess)

FairSpec == Spec /\ Fairness
-----------------------------------------------------------------------------
(* Every variable keeps its type.                                          *)
TypeOK ==
  /\ pc \in [Ops -> PCs] /\ holder \in Ops \cup {None}
  /\ path \in [Ops -> Paths \cup {None}]
  /\ reported \in [Ops -> Pids \cup Ops \cup {None}]
  /\ lastPath \in Paths \cup {None}
  /\ queue \in Seq(Commands)
  /\ command \in Commands \cup {None}
  /\ thread \in {"idle", "launch", "look", "detach", "stop", "connect"}
  /\ session \in Pids \cup Ops \cup {None}
  /\ created \in {"pending", "reported"}
  /\ alive \subseteq Pids
  /\ lastStarted \in Paths \cup {None} /\ rejected \subseteq Paths

(* When the calls and their commands are through, m_lastDebuggedPath, which*)
(* a restart launches, is the program of the last session, or one that     *)
(* x64dbg failed to launch since, although both Init() and                 *)
(* CB_CreateProcess() write it, on different threads.                      *)
CacheNamesLastProgram ==
  holder = None /\ CommandThreadIsThrough /\ created = "reported"
    => lastPath = lastStarted \/ lastPath \in rejected

(* An attach that succeeds found the process it was asked for, and not just *)
(* any session (DebugController.h:102-103: it is to be used in place of an *)
(* attach by script, which does not wait and falsely succeeds).            *)
AttachReachesTarget ==
  \A o \in Ops : Kind[o] = "attach" /\ pc[o] = "ok" => reported[o] = Target[o]

(* An attach with detach_first = false never detaches or stops a session   *)
(* that is there (MCPToolRegistry.cpp:255).                                *)
PoliteNeverDetaches ==
  thread \in {"detach", "stop"} => command.op \notin Polite

(* Every call returns, even when neither detach nor stop has an effect.    *)
CallsReturn ==
  \A o \in Ops : pc[o] = "called" ~> pc[o] \in {"ok", "failed"}
=============================================================================
