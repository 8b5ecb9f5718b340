------------------------ MODULE DebugControlProofs ------------------------
(* Theorems about DebugControl. Types hold for every debugger. What a      *)
(* successful step says of the debuggee holds for a debugger that resumes  *)
(* it before DbgCmdExecDirect() returns (~DelayedStart), however late the  *)
(* pause callbacks come, whatever the user does and whichever deadline     *)
(* passes. When commands may start late, success is proved for calls that  *)
(* all wait, undisturbed, with prompt callbacks.                           *)
EXTENDS DebugControl, TLAPS

(* No step of the operations or of the debugger leaves a variable's type.  *)
LEMMA TypesStep ==
  ASSUME TypeOK, [Next]_vars
  PROVE  TypeOK'
<1> USE NoneAssumption, KindAssumption, StopsAssumption, FlagsAssumption
<1> USE DEF TypeOK, PCs, Inside, Waiting, Goto, Return, operation, debuggee
<1>1. CASE UNCHANGED vars
  BY <1>1 DEF vars
<1>2. CASE DebuggerActs
  <2>1. ASSUME NEW o \in Ops, StartDelayed(o) PROVE TypeOK'
    BY <2>1 DEF StartDelayed
  <2>2. CASE UserResumes
    BY <2>2 DEF UserResumes
  <2>3. CASE Callback
    BY <2>3 DEF Callback
  <2>4. CASE Execute
    BY <2>4 DEF Execute
  <2>5. CASE StopDebuggee
    BY <2>5 DEF StopDebuggee
  <2>6. CASE DebuggeeExits
    BY <2>6 DEF DebuggeeExits
  <2> QED
    BY <1>2, <2>1, <2>2, <2>3, <2>4, <2>5, <2>6 DEF DebuggerActs
<1>3. ASSUME NEW o \in Ops, Lock(o) PROVE TypeOK'
  BY <1>3 DEF Lock
<1>4. ASSUME NEW o \in Ops, Advance(o) PROVE TypeOK'
  <2>1. CASE CheckPaused(o) \/ Validate(o) \/ IssueFails(o)
    BY <2>1 DEF CheckPaused, Validate, IssueFails
  <2>2. CASE ReadSequence(o)
    BY <2>2 DEF ReadSequence, CurrentSequence
  <2>3. CASE Issue(o) \/ Run(o)
    BY <2>3 DEF Issue, Run, Accept
  <2>4. CASE WaitEnds(o) \/ WaitSequence(o) \/ WaitConfirm(o) \/ WaitTimesOut(o)
    BY <2>4 DEF WaitEnds, WaitSequence, WaitConfirm, WaitTimesOut
  <2>5. CASE Fetch(o)
    BY <2>5 DEF Fetch
  <2>6. CASE RunFails(o) \/ Pause(o) \/ PollPaused(o) \/ Stop(o)
    BY <2>6 DEF RunFails, Pause, PollPaused, Stop
  <2> QED
    BY <1>4, <2>1, <2>2, <2>3, <2>4, <2>5, <2>6 DEF Advance
<1> QED
  BY <1>1, <1>2, <1>3, <1>4 DEF Next

(* The program starts with every variable in its type.                     *)
LEMMA TypesInit == Init => TypeOK
BY NoneAssumption, StopsAssumption DEF Init, TypeOK, PCs

(* Every variable keeps its type, for any calls and any debugger.          *)
THEOREM TypeCorrect == Spec => []TypeOK
BY TypesInit, TypesStep, PTL DEF Spec
-----------------------------------------------------------------------------
(* The inductive invariant of a prompt debugger.                           *)

\* Who is inside an operation holds m_operationMutex.
Exclusive == \A o \in Ops : pc[o] \in Inside => holder = o

\* Only accepted commands resume the debuggee or come to a stop.
CommandsAreIssued ==
  /\ starting = {} /\ completed \subseteq issued
  /\ commander = None \/ commander \in issued
  /\ \A o \in Ops :
       pc[o] \in {"called", "check", "validate", "read", "issue"}
         => o \notin issued

\* Only a run-to validates an address, and only a pause polls.
BranchesByKind ==
  \A o \in Ops : /\ pc[o] = "validate" => Kind[o] = "runTo"
                 /\ pc[o] = "poll" => Kind[o] = "pause"

\* Until its command stops, the debuggee runs on behalf of who waits.
WaitersRunOrStopped ==
  \A o \in Ops :
    /\ pc[o] \in {"wait", "confirm"}
         => o \in completed \/ (commander = o /\ visible = "running")
    /\ pc[o] = "fetch" => o \in completed

\* The stop that a waiter may return is newer than all that were returned.
StopsAreNew ==
  /\ \A a \in Ops : seen[a] <= stops
  /\ \A o, a \in Ops :
       pc[o] \in Waiting /\ o \in completed /\ pc[a] = "ok" /\ Kind[a] = "step"
         => seen[a] < stops

OwnershipInvariant ==
  /\ TypeOK /\ CommandsAreIssued /\ BranchesByKind /\ WaitersRunOrStopped
  /\ SuccessIsOwnStop

(* Nothing is issued at the start.                                         *)
LEMMA OwnershipInit == Init => OwnershipInvariant
BY TypesInit DEF Init, OwnershipInvariant, CommandsAreIssued, BranchesByKind,
                 WaitersRunOrStopped, SuccessIsOwnStop

(* While a command runs nobody can take the debuggee from its owner: a     *)
(* command is accepted, and the user resumes, only at a stop, which is the *)
(* owner's. That the deadline passed or the callback is late plays no part.*)
LEMMA OwnershipStep ==
  ASSUME ~DelayedStart, OwnershipInvariant, [Next]_vars
  PROVE  OwnershipInvariant'
<1>1. TypeOK'
  BY TypesStep DEF OwnershipInvariant
<1> SUFFICES /\ CommandsAreIssued' /\ BranchesByKind'
             /\ WaitersRunOrStopped' /\ SuccessIsOwnStop'
  BY <1>1 DEF OwnershipInvariant
<1> USE NoneAssumption, KindAssumption
    DEF OwnershipInvariant, CommandsAreIssued, BranchesByKind,
        WaitersRunOrStopped, SuccessIsOwnStop, TypeOK, Goto, Return,
        operation, debuggee
<1>2. CASE UNCHANGED vars
  BY <1>2 DEF vars
<1>3. CASE DebuggerActs
  <2>1. ASSUME NEW o \in Ops, StartDelayed(o) PROVE FALSE
    BY <2>1 DEF StartDelayed
  <2>2. CASE UserResumes
    BY <2>2 DEF UserResumes, IsPaused
  <2>3. CASE Callback \/ Execute \/ DebuggeeExits
    BY <2>3 DEF Callback, Execute, DebuggeeExits
  <2>4. CASE StopDebuggee
    BY <2>4 DEF StopDebuggee
  <2> QED
    BY <1>3, <2>1, <2>2, <2>3, <2>4 DEF DebuggerActs
<1>4. ASSUME NEW o \in Ops, Lock(o)
      PROVE  /\ CommandsAreIssued' /\ BranchesByKind'
             /\ WaitersRunOrStopped' /\ SuccessIsOwnStop'
  BY <1>4 DEF Lock
<1>5. ASSUME NEW o \in Ops, Advance(o)
      PROVE  /\ CommandsAreIssued' /\ BranchesByKind'
             /\ WaitersRunOrStopped' /\ SuccessIsOwnStop'
  <2>1. CASE CheckPaused(o) \/ Validate(o) \/ ReadSequence(o) \/ IssueFails(o)
    BY <2>1 DEF CheckPaused, Validate, ReadSequence, IssueFails
  <2>2. CASE Issue(o)
    BY <2>2 DEF Issue, Accept, IsPaused
  <2>3. CASE Run(o)
    BY <2>3 DEF Run, Accept, IsPaused
  <2>4. CASE WaitEnds(o) \/ WaitSequence(o) \/ WaitTimesOut(o)
    BY <2>4 DEF WaitEnds, WaitSequence, WaitTimesOut
  <2>5. CASE WaitConfirm(o)
    BY <2>5 DEF WaitConfirm, PauseConfirmed, IsPaused
  <2>6. CASE Fetch(o)
    BY <2>6 DEF Fetch
  <2>7. CASE RunFails(o) \/ Pause(o) \/ PollPaused(o) \/ Stop(o)
    BY <2>7 DEF RunFails, Pause, PollPaused, Stop
  <2> QED
    BY <1>5, <2>1, <2>2, <2>3, <2>4, <2>5, <2>6, <2>7 DEF Advance
<1> QED
  BY <1>2, <1>3, <1>4, <1>5 DEF Next

(* Under a debugger that starts accepted commands at once, a step or a     *)
(* run-to reports success only after its own command came to a stop.       *)
THEOREM SuccessIsOwned ==
  ASSUME ~DelayedStart
  PROVE  Spec => []SuccessIsOwnStop
<1>1. OwnershipInvariant /\ [Next]_vars => OwnershipInvariant'
  BY OwnershipStep
<1>2. OwnershipInvariant => SuccessIsOwnStop
  BY DEF OwnershipInvariant
<1> QED
  BY OwnershipInit, <1>1, <1>2, PTL DEF Spec
-----------------------------------------------------------------------------
(* Two steps.                                                              *)

NoveltyInvariant ==
  OwnershipInvariant /\ Exclusive /\ StopsAreNew /\ StepsReturnDistinctStops

(* Every stop that is returned is newer than all returned before it: the   *)
(* command was issued at the newest of them, ran to another one, and the   *)
(* mutex kept every other step from returning meanwhile.                   *)
LEMMA NoveltyStep ==
  ASSUME ~DelayedStart, NoveltyInvariant, [Next]_vars
  PROVE  NoveltyInvariant'
<1>1. OwnershipInvariant'
  BY OwnershipStep DEF NoveltyInvariant
<1> SUFFICES Exclusive' /\ StopsAreNew' /\ StepsReturnDistinctStops'
  BY <1>1 DEF NoveltyInvariant
<1> USE NoneAssumption, KindAssumption
    DEF NoveltyInvariant, OwnershipInvariant, CommandsAreIssued,
        BranchesByKind, WaitersRunOrStopped, Exclusive, StopsAreNew,
        StepsReturnDistinctStops, TypeOK, Goto, Return, operation, debuggee,
        Inside, Waiting
<1>2. CASE UNCHANGED vars
  BY <1>2 DEF vars
<1>3. CASE DebuggerActs
  <2>1. ASSUME NEW o \in Ops, StartDelayed(o) PROVE FALSE
    BY <2>1 DEF StartDelayed
  <2>2. CASE UserResumes \/ Callback \/ Execute \/ DebuggeeExits
    BY <2>2 DEF UserResumes, Callback, Execute, DebuggeeExits
  <2>3. CASE StopDebuggee
    BY <2>3 DEF StopDebuggee
  <2> QED
    BY <1>3, <2>1, <2>2, <2>3 DEF DebuggerActs
<1>4. ASSUME NEW o \in Ops, Lock(o)
      PROVE  Exclusive' /\ StopsAreNew' /\ StepsReturnDistinctStops'
  BY <1>4 DEF Lock, MutexFree
<1>5. ASSUME NEW o \in Ops, Advance(o)
      PROVE  Exclusive' /\ StopsAreNew' /\ StepsReturnDistinctStops'
  <2>1. CASE CheckPaused(o) \/ Validate(o)
    BY <2>1 DEF CheckPaused, Validate
  <2>2. CASE ReadSequence(o) \/ IssueFails(o)
    BY <2>2 DEF ReadSequence, IssueFails
  <2>3. CASE Issue(o) \/ Run(o)
    BY <2>3 DEF Issue, Run, Accept
  <2>4. CASE WaitEnds(o) \/ WaitSequence(o) \/ WaitTimesOut(o)
    BY <2>4 DEF WaitEnds, WaitSequence, WaitTimesOut
  <2>5. CASE WaitConfirm(o)
    BY <2>5 DEF WaitConfirm
  <2>6. CASE Fetch(o)
    BY <2>6 DEF Fetch
  <2>7. CASE RunFails(o) \/ Pause(o) \/ PollPaused(o) \/ Stop(o)
    BY <2>7 DEF RunFails, Pause, PollPaused, Stop
  <2> QED
    BY <1>5, <2>1, <2>2, <2>3, <2>4, <2>5, <2>6, <2>7 DEF Advance
<1> QED
  BY <1>2, <1>3, <1>4, <1>5 DEF Next

(* Under such a debugger two concurrent steps never return the same stop.  *)
THEOREM DistinctStops ==
  ASSUME ~DelayedStart
  PROVE  Spec => []StepsReturnDistinctStops
<1>1. Init => NoveltyInvariant
  BY OwnershipInit
  DEF Init, NoveltyInvariant, Exclusive, StopsAreNew, Inside, Waiting,
      StepsReturnDistinctStops
<1>2. NoveltyInvariant /\ [Next]_vars => NoveltyInvariant'
  BY NoveltyStep
<1>3. NoveltyInvariant => StepsReturnDistinctStops
  BY DEF NoveltyInvariant
<1> QED
  BY <1>1, <1>2, <1>3, PTL DEF Spec
-----------------------------------------------------------------------------
(* Commands that start late.                                               *)

\* Debugging, the debuggee runs only for the operation that has the mutex and
\* waits; a stop and its callback are one step.
OneCommandAtATime ==
  /\ debugThread # "callback"
  /\ session = "debugging" =>
       /\ debugThread = "executing" => visible = "running"
       /\ visible = "running" =>
            /\ starting = {} /\ commander = holder
            /\ commander \in Ops \ completed /\ pc[commander] = "wait"
       /\ \A o \in starting : pc[o] = "wait" /\ o \notin completed

\* The sequence moves only when the command of who waits came to a stop.
SequenceTellsCompletion ==
  session = "debugging" =>
    \A o \in Ops :
      /\ pc[o] = "issue" => sequence[o] = pauseSequence
      /\ pc[o] = "wait" => o \in completed \/ sequence[o] = pauseSequence
      /\ pc[o] \in {"confirm", "fetch"} => o \in completed

CommandsByPlace ==
  /\ completed \subseteq issued
  /\ \A o \in Ops :
       /\ pc[o] \in {"called", "check", "validate", "read", "issue"}
            => o \notin issued
       /\ pc[o] \in Waiting => o \in issued

SerialInvariant ==
  /\ TypeOK /\ Exclusive /\ BranchesByKind /\ CommandsByPlace
  /\ OneCommandAtATime /\ SequenceTellsCompletion /\ SuccessIsOwnStop

(* With the mutex held from the check to the result, the first increment of*)
(* m_pauseSequence after a command was issued is that of its own stop.     *)
LEMMA SerialStep ==
  ASSUME ~LateCallback, Undisturbed, \A o \in Ops : Kind[o] # "run",
         SerialInvariant, [Next]_vars
  PROVE  SerialInvariant'
<1>1. TypeOK'
  BY TypesStep DEF SerialInvariant
<1> DEFINE Rest == /\ Exclusive /\ BranchesByKind /\ CommandsByPlace
                   /\ OneCommandAtATime /\ SequenceTellsCompletion /\ SuccessIsOwnStop
<1> SUFFICES Rest'
  BY <1>1 DEF SerialInvariant
<1> USE NoneAssumption, KindAssumption
    DEF SerialInvariant, Exclusive, BranchesByKind, CommandsByPlace,
        OneCommandAtATime, SequenceTellsCompletion, SuccessIsOwnStop, TypeOK, Goto, Return,
        operation, debuggee, Inside, Waiting
<1>2. CASE UNCHANGED vars
  BY <1>2 DEF vars
<1>3. CASE DebuggerActs
  <2>1. ASSUME NEW o \in Ops, StartDelayed(o) PROVE Rest'
    BY <2>1 DEF StartDelayed, IsPaused, IsDebugging
  <2>2. CASE UserResumes \/ Callback
    BY <2>2 DEF UserResumes, Callback
  <2>3. CASE Execute \/ DebuggeeExits
    BY <2>3 DEF Execute, DebuggeeExits, IsDebugging
  <2>4. CASE StopDebuggee
    BY <2>4 DEF StopDebuggee, IsDebugging
  <2> QED
    BY <1>3, <2>1, <2>2, <2>3, <2>4 DEF DebuggerActs
<1>4. ASSUME NEW o \in Ops, Lock(o) PROVE Rest'
  BY <1>4 DEF Lock, MutexFree
<1>5. ASSUME NEW o \in Ops, Advance(o) PROVE Rest'
  <2>1. CASE CheckPaused(o) \/ Validate(o)
    BY <2>1 DEF CheckPaused, Validate
  <2>2. CASE ReadSequence(o) \/ IssueFails(o)
    BY <2>2 DEF ReadSequence, CurrentSequence, IssueFails
  <2>3. CASE Issue(o)
    BY <2>3 DEF Issue, Accept, IsPaused, IsDebugging
  <2>4. CASE WaitEnds(o) \/ WaitSequence(o) \/ WaitTimesOut(o)
    BY <2>4 DEF WaitEnds, WaitSequence, WaitTimesOut, SequenceMoved,
                DeadlineMayPass, IsDebugging
  <2>5. CASE WaitConfirm(o)
    BY <2>5 DEF WaitConfirm, PauseConfirmed
  <2>6. CASE Fetch(o)
    BY <2>6 DEF Fetch, IsDebugging
  <2>7. CASE Run(o) \/ RunFails(o) \/ Pause(o) \/ PollPaused(o) \/ Stop(o)
    BY <2>7 DEF Run, RunFails, Pause, PollPaused, Stop
  <2> QED
    BY <1>5, <2>1, <2>2, <2>3, <2>4, <2>5, <2>6, <2>7 DEF Advance
<1> QED
  BY <1>2, <1>3, <1>4, <1>5 DEF Next

(* Steps, run-tos, pauses and stops that meet no deadline, no user and no  *)
(* debug.run, with prompt callbacks: a step or a run-to reports success    *)
(* only after its own command came to a stop, although commands may start  *)
(* late and the old stop is visible until then.                            *)
THEOREM SuccessIsOwnedAlthoughDelayed ==
  ASSUME ~LateCallback, Undisturbed, \A o \in Ops : Kind[o] # "run"
  PROVE  Spec => []SuccessIsOwnStop
<1>1. Init => SerialInvariant
  BY TypesInit
  DEF Init, SerialInvariant, Exclusive, BranchesByKind, CommandsByPlace,
      OneCommandAtATime, SequenceTellsCompletion, SuccessIsOwnStop, Inside, Waiting
<1>2. SerialInvariant /\ [Next]_vars => SerialInvariant'
  BY SerialStep
<1>3. SerialInvariant => SuccessIsOwnStop
  BY DEF SerialInvariant
<1> QED
  BY <1>1, <1>2, <1>3, PTL DEF Spec
=============================================================================
