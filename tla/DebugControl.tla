--------------------------- MODULE DebugControl ---------------------------
(***************************************************************************)
(* The execution operations of DebugController                             *)
(* (src/src/business/DebugController.cpp): steps, run-to-address, run,     *)
(* pause and stop, called by concurrent HTTP tasks, serialised by          *)
(* m_operationMutex, and waiting for the debugger to stop again.           *)
(*                                                                         *)
(* The debugger is external and runs on threads of its own. A stop becomes *)
(* visible (DbgIsRunning() turns false) before its pause callback reaches  *)
(* the plugin, when LateCallback; and a command that DbgCmdExecDirect()    *)
(* accepted takes effect before the call returns, unless DelayedStart: then*)
(* the old stop stays visible for a while. tests/DebugExecutionTests.cpp   *)
(* plays a debugger that does both.                                        *)
(***************************************************************************)
EXTENDS Integers, FiniteSets

CONSTANTS
  Ops,           \* calls of the controller's operations
  Kind,          \* the operation that each of them calls
  MaxStops,      \* the debuggee stops at most so often, and then runs on
  LateCallback,  \* the pause callback may come after the stop is visible
  DelayedStart,  \* an accepted command may start after the call returned
  Undisturbed,   \* no deadline passes and only Ops resume the debuggee
  None           \* not one of Ops

Kinds == {"step", "runTo", "run", "pause", "stop"}

ASSUME KindAssumption == Kind \in [Ops -> Kinds]
ASSUME NoneAssumption == None \notin Ops
ASSUME StopsAssumption == MaxStops \in Nat
ASSUME FlagsAssumption == /\ LateCallback \in BOOLEAN
                          /\ DelayedStart \in BOOLEAN
                          /\ Undisturbed \in BOOLEAN

VARIABLES
  pc,             \* where each operation is
  holder,         \* the operation that holds m_operationMutex
  sequence,       \* the m_pauseSequence that each operation read
  pauseSequence,  \* m_pauseSequence
  session,        \* DbgIsDebugging(): "debugging" or "ended"
  visible,        \* what DbgIsRunning() shows: "paused" or "running"
  debugThread,    \* the debug loop: "callback", "waiting", "executing"
  starting,       \* accepted commands that did not start yet
  commander,      \* the operation that resumed the debuggee, or None
  stops,          \* stops of the debuggee so far: where it stands
  atTarget,       \* "yes" when it stands at the address of the run-to calls
  issued,         \* operations whose command was accepted
  completed,      \* operations whose command ran to a stop
  seen            \* the stop that each operation returned

operation == <<pc, holder, sequence, seen>>
debuggee  == <<visible, debugThread, starting, commander, stops, atTarget,
               completed>>

vars == <<operation, pauseSequence, session, debuggee, issued>>

Waiting == {"wait", "confirm", "fetch"}
Inside == {"check", "validate", "read", "issue", "poll"} \cup Waiting
PCs == {"called", "ok", "failed"} \cup Inside

IsDebugging == session = "debugging"
IsPaused == IsDebugging /\ visible = "paused"

Init ==
  /\ pc = [o \in Ops |-> "called"] /\ holder = None
  /\ sequence = [o \in Ops |-> 0] /\ seen = [o \in Ops |-> 0]
  /\ pauseSequence = 0
  /\ session = "debugging" /\ visible = "paused"
  /\ debugThread \in IF LateCallback THEN {"callback", "waiting"} ELSE {"waiting"}
  /\ starting = {} /\ commander = None
  /\ stops = 0 /\ atTarget \in {"yes", "no"}
  /\ issued = {} /\ completed = {}
-----------------------------------------------------------------------------
(* The operations.                                                         *)

Goto(o, from, to) == pc[o] = from /\ pc' = [pc EXCEPT ![o] = to]

\* The operation returns or throws, and releases the mutex.
Return(o, from, result) == Goto(o, from, result) /\ holder' = None

MutexIgnored == TRUE
MutexFree == holder = None

Lock(o) ==
  /\ MutexFree /\ Goto(o, "called", "check") /\ holder' = o
  /\ UNCHANGED <<sequence, seen, pauseSequence, session, debuggee, issued>>

\* StepCommand() and RunToAddress() throw unless the debugger is paused.
CheckPaused(o) ==
  /\ \/ /\ IsPaused /\ Kind[o] = "step" /\ Goto(o, "check", "read")
        /\ UNCHANGED holder
     \/ /\ IsPaused /\ Kind[o] = "runTo" /\ Goto(o, "check", "validate")
        /\ UNCHANGED holder
     \/ ~IsPaused /\ Kind[o] \in {"step", "runTo"}
        /\ Return(o, "check", "failed")
  /\ UNCHANGED <<sequence, seen, pauseSequence, session, debuggee, issued>>

\* The address may be invalid, or the place where the debuggee stands.
Validate(o) ==
  /\ \/ Return(o, "validate", "failed")
     \/ IsDebugging /\ atTarget = "yes" /\ Return(o, "validate", "ok")
     \/ /\ IsDebugging /\ atTarget = "no" /\ Goto(o, "validate", "read")
        /\ UNCHANGED holder
  /\ UNCHANGED <<sequence, seen, pauseSequence, session, debuggee, issued>>

SequenceBefore == pauseSequence - 1
CurrentSequence == pauseSequence

ReadSequence(o) ==
  /\ Goto(o, "read", "issue")
  /\ sequence' = [sequence EXCEPT ![o] = CurrentSequence]
  /\ UNCHANGED <<holder, seen, pauseSequence, session, debuggee, issued>>

\* DbgCmdExecDirect() of a command that resumes the debuggee: accepted only
\* at a stop; what it accepts starts now, or after the call when DelayedStart.
Accept(o) ==
  /\ IsPaused /\ issued' = issued \cup {o}
  /\ \/ /\ visible' = "running" /\ commander' = o
        /\ UNCHANGED starting
     \/ /\ DelayedStart /\ starting' = starting \cup {o}
        /\ UNCHANGED <<visible, commander>>
  /\ UNCHANGED <<debugThread, stops, atTarget, completed>>

Issue(o) ==
  /\ Goto(o, "issue", "wait") /\ Accept(o)
  /\ UNCHANGED <<holder, sequence, seen, pauseSequence, session>>

IssueFails(o) ==
  /\ Return(o, "issue", "failed")
  /\ UNCHANGED <<sequence, seen, pauseSequence, session, debuggee, issued>>

\* WaitForNewPause(): the session is looked at first ...
WaitEnds(o) ==
  /\ ~IsDebugging /\ Return(o, "wait", "failed")
  /\ UNCHANGED <<sequence, seen, pauseSequence, session, debuggee, issued>>

\* ... then the sequence, and then whether the debugger is paused.
AnySequence(o) == TRUE
SequenceMoved(o) == pauseSequence # sequence[o]

WaitSequence(o) ==
  /\ IsDebugging /\ SequenceMoved(o) /\ Goto(o, "wait", "confirm")
  /\ UNCHANGED <<holder, sequence, seen, pauseSequence, session, debuggee,
                 issued>>

AlreadyConfirmed == IsDebugging
PauseConfirmed == IsPaused

WaitConfirm(o) ==
  /\ \/ PauseConfirmed /\ Goto(o, "confirm", "fetch")
     \/ ~PauseConfirmed /\ Goto(o, "confirm", "wait")
  /\ UNCHANGED <<holder, sequence, seen, pauseSequence, session, debuggee,
                 issued>>

NoDeadline == FALSE
DeadlineMayPass == ~Undisturbed

\* The deadline passes; the command that was accepted stays in effect.
WaitTimesOut(o) ==
  /\ DeadlineMayPass
  /\ Return(o, "wait", "failed") \/ Return(o, "poll", "failed")
  /\ UNCHANGED <<sequence, seen, pauseSequence, session, debuggee, issued>>

\* GetInstructionPointer(): a step returns it, run-to compares it.
Fetch(o) ==
  /\ \/ /\ IsDebugging /\ (Kind[o] = "step" \/ atTarget = "yes")
        /\ Return(o, "fetch", "ok") /\ seen' = [seen EXCEPT ![o] = stops]
     \/ /\ ~IsDebugging \/ (Kind[o] = "runTo" /\ atTarget = "no")
        /\ Return(o, "fetch", "failed") /\ UNCHANGED seen
  /\ UNCHANGED <<sequence, pauseSequence, session, debuggee, issued>>

\* Run() does not wait, and needs no stop to be tried.
Run(o) ==
  /\ Kind[o] = "run" /\ Return(o, "check", "ok") /\ Accept(o)
  /\ UNCHANGED <<sequence, seen, pauseSequence, session>>

RunFails(o) ==
  /\ Kind[o] = "run" /\ Return(o, "check", "failed")
  /\ UNCHANGED <<sequence, seen, pauseSequence, session, debuggee, issued>>

\* Pause(): throws without a session, returns at once at a stop; otherwise
\* the break is requested, which may fail, and the stop awaited.
Pause(o) ==
  /\ Kind[o] = "pause"
  /\ \/ IsPaused /\ Return(o, "check", "ok")
     \/ ~IsPaused /\ Return(o, "check", "failed")
     \/ /\ IsDebugging /\ ~IsPaused /\ Goto(o, "check", "poll")
        /\ UNCHANGED holder
  /\ UNCHANGED <<sequence, seen, pauseSequence, session, debuggee, issued>>

\* WaitForPause() does not notice that the session ended.
PollPaused(o) ==
  /\ IsPaused /\ Return(o, "poll", "ok")
  /\ UNCHANGED <<sequence, seen, pauseSequence, session, debuggee, issued>>

Stop(o) ==
  /\ Kind[o] = "stop"
  /\ \/ Return(o, "check", "ok") /\ session' = "ended"
     \/ IsDebugging /\ Return(o, "check", "failed") /\ UNCHANGED session
  /\ UNCHANGED <<sequence, seen, pauseSequence, debuggee, issued>>
-----------------------------------------------------------------------------
(* The debugger, its user, and CB_PauseDebug().                            *)

StartDelayed(o) ==
  /\ IsPaused /\ o \in starting
  /\ starting' = starting \ {o}
  /\ visible' = "running" /\ commander' = o
  /\ UNCHANGED <<operation, pauseSequence, session, debugThread, stops,
                 atTarget, completed, issued>>

UserResumes ==
  /\ ~Undisturbed /\ IsPaused
  /\ visible' = "running" /\ commander' = None
  /\ UNCHANGED <<operation, pauseSequence, session, debugThread, starting,
                 stops, atTarget, completed, issued>>

\* NotifyPaused(), then the debug loop waits to be resumed.
Callback ==
  /\ IsDebugging /\ debugThread = "callback"
  /\ pauseSequence' = pauseSequence + 1 /\ debugThread' = "waiting"
  /\ UNCHANGED <<operation, session, visible, starting, commander, stops,
                 atTarget, completed, issued>>

Execute ==
  /\ IsDebugging /\ debugThread = "waiting" /\ visible = "running"
  /\ debugThread' = "executing"
  /\ UNCHANGED <<operation, pauseSequence, session, visible, starting,
                 commander, stops, atTarget, completed, issued>>

\* A step, breakpoint, exception or pause request stops the debuggee.
StopDebuggee ==
  /\ IsDebugging /\ debugThread = "executing" /\ stops < MaxStops
  /\ visible' = "paused" /\ stops' = stops + 1
  /\ atTarget' \in {"yes", "no"}
  /\ completed' = completed \cup ({commander} \ {None})
  /\ commander' = None
  /\ IF LateCallback
       THEN debugThread' = "callback" /\ UNCHANGED pauseSequence
       ELSE debugThread' = "waiting" /\ pauseSequence' = pauseSequence + 1
  /\ UNCHANGED <<operation, session, starting, issued>>

DebuggeeExits ==
  /\ IsDebugging /\ session' = "ended"
  /\ UNCHANGED <<operation, pauseSequence, debuggee, issued>>

DebuggerActs ==
  \/ \E o \in Ops : StartDelayed(o)
  \/ UserResumes \/ Callback \/ Execute \/ StopDebuggee \/ DebuggeeExits

Advance(o) ==
  \/ CheckPaused(o) \/ Validate(o) \/ ReadSequence(o)
  \/ Issue(o) \/ IssueFails(o)
  \/ WaitEnds(o) \/ WaitSequence(o) \/ WaitConfirm(o) \/ WaitTimesOut(o)
  \/ Fetch(o) \/ Run(o) \/ RunFails(o) \/ Pause(o) \/ PollPaused(o) \/ Stop(o)

Next == DebuggerActs \/ \E o \in Ops : Lock(o) \/ Advance(o)

Spec == Init /\ [][Next]_vars

\* A thread gets the mutex when it stays free, a call that runs goes on, and
\* its deadline passes at last (strongly fair: the loop of WaitForNewPause()
\* leaves "wait" and comes back to it); the debuggee owes nothing.
Fairness ==
  \A o \in Ops : /\ WF_vars(Lock(o)) /\ WF_vars(Advance(o))
                 /\ SF_vars(WaitTimesOut(o))

FairSpec == Spec /\ Fairness
-----------------------------------------------------------------------------
(* Every variable keeps its type.                                          *)
TypeOK ==
  /\ pc \in [Ops -> PCs] /\ holder \in Ops \cup {None}
  /\ sequence \in [Ops -> Nat] /\ seen \in [Ops -> Nat]
  /\ pauseSequence \in Nat
  /\ session \in {"debugging", "ended"}
  /\ visible \in {"paused", "running"}
  /\ debugThread \in {"callback", "waiting", "executing"}
  /\ starting \subseteq Ops /\ commander \in Ops \cup {None}
  /\ stops \in Nat /\ atTarget \in {"yes", "no"}
  /\ issued \subseteq Ops /\ completed \subseteq Ops

(* A step or a run-to that resumed the debuggee reports success only after *)
(* its own command ran to a stop: never on the stop it started from, nor   *)
(* on one that another command or a late callback announced (R05, R06 of   *)
(* docs/review-fixes-2026-10-28.md).                                       *)
SuccessIsOwnStop ==
  \A o \in Ops : pc[o] = "ok" /\ Kind[o] \in {"step", "runTo"} /\ o \in issued
                   => o \in completed

(* Two steps called at the same time return two different stops, as        *)
(* tests/DebugExecutionTests.cpp expects of StepInto() and StepOver().     *)
StepsReturnDistinctStops ==
  \A a, b \in Ops :
    /\ a # b /\ Kind[a] = "step" /\ Kind[b] = "step"
    /\ pc[a] = "ok" /\ pc[b] = "ok"
    => seen[a] # seen[b]

(* Every call returns, whether the debuggee stops, runs on or exits.       *)
CallsReturn ==
  \A o \in Ops : pc[o] = "called" ~> pc[o] \in {"ok", "failed"}
=============================================================================
