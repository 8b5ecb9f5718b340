------------------------ MODULE DebugSessionProofs ------------------------
(***************************************************************************)
(* For all calls, processes and programs: the types of DebugSession, that  *)
(* the cached path names the program of the last session, and where        *)
(* attaches alone end.                                                     *)
(***************************************************************************)
EXTENDS DebugSession, SequenceTheorems, TLAPS

Inside == PCs \ {"called", "resolved", "ok", "failed"}

\* The init of call o waits at place i, or runs.
WaitsAt(i, o) == i \in DOMAIN queue /\ queue[i] = [name |-> "init", op |-> o]
Runs(o) == thread = "launch" /\ command.op = o
Outstanding(o) == Runs(o) \/ \E i \in DOMAIN queue : WaitsAt(i, o)

\* A call inside its operation holds the mutex.
InsideHolds == \A o \in Ops : pc[o] \in Inside => holder = o

\* The command thread has a command unless it is idle.
ThreadRuns == thread # "idle" => command \in Commands

\* The path of a launch is settled once its command is queued.
Settled(o) == pc[o] \in {"cache", "ok"} /\ path[o] \in Paths
LaunchesSettled == \A o \in Ops : Outstanding(o) => Settled(o)
PathsKnown == \A o \in Ops : pc[o] \in {"enqueue", "cache", "resolved"}
                              => path[o] \in Paths
SessionSettled ==
  /\ session \in Ops => Settled(session)
  /\ IsDebugging => SessionPath = lastStarted
  /\ created = "pending" => IsDebugging

IsLast(o) == queue # <<>> /\ WaitsAt(Len(queue), o)

\* Nothing is queued behind the command of a call that is about to cache its
\* path; once that command has run, its program is started or rejected.
OwnIsLast(o) ==
    \/ IsLast(o)
    \/ queue = <<>> /\ Runs(o)
    \/ queue = <<>> /\ thread = "idle"
         /\ (path[o] = lastStarted \/ path[o] \in rejected)
CachingIsLast == \A o \in Ops : pc[o] = "cache" => OwnIsLast(o)

\* Why the cached path may differ from the last program for a while.
CacheExplained ==
  \/ lastPath = lastStarted \/ lastPath \in rejected \/ created = "pending"
  \/ \E o \in Ops : pc[o] = "cache"
  \/ \E o \in Ops : Outstanding(o) /\ path[o] = lastPath

CacheInv ==
  /\ InsideHolds /\ ThreadRuns /\ LaunchesSettled /\ PathsKnown /\ SessionSettled
  /\ CachingIsLast /\ CacheExplained

IInv == TypeOK /\ CacheInv
-----------------------------------------------------------------------------
(* What the steps do to the queue.                                         *)

\* A command that is queued comes last, and the others stay outstanding.
LEMMA QueuedComesLast ==
  ASSUME TypeOK, NEW c \in Commands, NEW o \in Ops,
         queue' = Append(queue, c), command' = command, thread' = thread
  PROVE  /\ queue' \in Seq(Commands) /\ queue' # <<>>
         /\ Outstanding(o)' <=> Outstanding(o) \/ c = [name |-> "init", op |-> o]
         /\ IsLast(o)' <=> c = [name |-> "init", op |-> o]
<1>1. /\ queue' \in Seq(Commands) /\ Len(queue') = Len(queue) + 1
      /\ \A i \in 1..Len(queue) : queue'[i] = queue[i]
      /\ queue'[Len(queue) + 1] = c /\ Len(queue) \in Nat
  BY AppendProperties DEF TypeOK
<1>2. DOMAIN queue = 1..Len(queue) /\ DOMAIN queue' = 1..(Len(queue) + 1)
  BY <1>1, LenProperties DEF TypeOK
<1>3. \A i : i \in DOMAIN queue' <=> i \in DOMAIN queue \/ i = Len(queue) + 1
  BY <1>1, <1>2
<1>4. \A i : i \in DOMAIN queue => queue'[i] = queue[i]
  BY <1>1, <1>2
<1>5. queue' # <<>>
  BY <1>1, EmptySeq
<1>6. Runs(o)' <=> Runs(o)
  BY DEF Runs
<1>7. Outstanding(o)' <=> Outstanding(o) \/ c = [name |-> "init", op |-> o]
  BY <1>1, <1>3, <1>4, <1>6 DEF Outstanding, WaitsAt
<1>8. IsLast(o)' <=> c = [name |-> "init", op |-> o]
  BY <1>1, <1>3, <1>5 DEF IsLast, WaitsAt
<1> QED BY <1>1, <1>5, <1>7, <1>8

\* A command that is taken runs; the others stay where they are.
LEMMA TakenRuns ==
  ASSUME TypeOK, NEW o \in Ops, Take
  PROVE  /\ queue' \in Seq(Commands) /\ command' \in Commands
         /\ Outstanding(o)' <=> Outstanding(o)
         /\ IsLast(o) => IsLast(o)' \/ (queue' = <<>> /\ Runs(o)')
<1>1. /\ queue' \in Seq(Commands) /\ command' \in Commands
      /\ Len(queue') = Len(queue) - 1 /\ Len(queue) \in Nat \ {0}
      /\ command' = queue[1]
      /\ \A i \in 1..Len(queue') : queue'[i] = queue[i + 1]
  BY HeadTailProperties, EmptySeq, LenProperties DEF TypeOK, Take
<1>2. DOMAIN queue = 1..Len(queue) /\ DOMAIN queue' = 1..(Len(queue) - 1)
  BY <1>1, LenProperties DEF TypeOK
<1>3. ~Runs(o) /\ (Runs(o)' <=> command' = [name |-> "init", op |-> o])
  <2>1. /\ thread = "idle"
        /\ thread' = IF command'.name = "init" THEN "launch" ELSE "look"
    BY DEF Take
  <2>2. command' = [name |-> "init", op |-> o]
          <=> command'.name = "init" /\ command'.op = o
    BY <1>1 DEF Commands
  <2> QED BY <2>1, <2>2 DEF Runs
<1>4. \A i : i \in DOMAIN queue <=> i = 1 \/ \E j \in DOMAIN queue' : i = j + 1
  <2>1. ASSUME NEW i \in DOMAIN queue, i # 1
        PROVE  i - 1 \in DOMAIN queue' /\ i = (i - 1) + 1
    BY <1>1, <1>2, <2>1
  <2> QED BY <1>1, <1>2, <2>1
<1>5. \A j \in DOMAIN queue' : queue'[j] = queue[j + 1] /\ j + 1 \in DOMAIN queue
  BY <1>1, <1>2
<1>6. Outstanding(o)' <=> Outstanding(o)
  <2> DEFINE r == [name |-> "init", op |-> o]
  <2>1. Outstanding(o) <=> \E i \in DOMAIN queue : queue[i] = r
    BY <1>3 DEF Outstanding, WaitsAt
  <2>2. Outstanding(o)' <=> queue[1] = r \/ \E j \in DOMAIN queue' : queue[j + 1] = r
    BY <1>1, <1>3, <1>5 DEF Outstanding, WaitsAt
  <2> HIDE DEF r
  <2> QED BY <2>1, <2>2, <1>4
<1>7. ASSUME IsLast(o) PROVE IsLast(o)' \/ (queue' = <<>> /\ Runs(o)')
  <2>1. CASE Len(queue) = 1
    BY <1>1, <1>3, <1>7, <2>1, EmptySeq DEF IsLast, WaitsAt
  <2>2. CASE Len(queue) # 1
    BY <1>1, <1>2, <1>7, <2>2, EmptySeq DEF IsLast, WaitsAt
  <2> QED BY <2>1, <2>2
<1> QED BY <1>1, <1>6, <1>7

\* What is outstanding when the queue is left alone.
LEMMA QueueLeftAlone ==
  ASSUME NEW o \in Ops, queue' = queue,
         (thread' = thread /\ command' = command) \/ thread' # "launch"
  PROVE  /\ Outstanding(o)' => Outstanding(o)
         /\ Outstanding(o) => Outstanding(o)' \/ (Runs(o) /\ thread' # thread)
         /\ IsLast(o)' <=> IsLast(o)
         /\ thread' = thread => (Runs(o)' <=> Runs(o))
BY DEF Outstanding, WaitsAt, Runs, IsLast

\* The programs that the steps handle are programs.
LEMMA Programs ==
  ASSUME IInv
  PROVE  /\ None \notin Paths
         /\ \A p \in Pids : Image[p] \in Paths
         /\ \A o \in Ops : Kind[o] = "init" => Target[o] \in Paths
         /\ IsDebugging => SessionPath \in Paths
         /\ thread # "idle" => command.op \in Ops
         /\ thread = "launch" => Outstanding(command.op)
<1>1. None \notin Paths /\ \A p \in Pids : Image[p] \in Paths
  BY NoneAssumption DEF Paths
<1>2. \A o \in Ops : Kind[o] = "init" => Target[o] \in Paths
  BY DEF Paths
<1>3. IsDebugging => SessionPath \in Paths
  BY <1>1 DEF IInv, CacheInv, SessionSettled, Settled, SessionPath,
    IsDebugging, TypeOK
<1>4. thread # "idle" => command.op \in Ops
  BY DEF IInv, CacheInv, ThreadRuns, Commands
<1>5. thread = "launch" => Outstanding(command.op)
  BY DEF Outstanding, Runs
<1> QED BY <1>1, <1>2, <1>3, <1>4, <1>5

-----------------------------------------------------------------------------
(* The steps, one by one.                                                  *)

\* The invariant holds initially.
LEMMA InitOK ==
  ASSUME Init PROVE IInv
<1>1. queue \in Seq(Commands) /\ DOMAIN queue = {}
  BY EmptySeq, LenProperties DEF Init
<1>2. \A o \in Ops : pc[o] = "called" /\ path[o] = None /\ reported[o] = None
  BY DEF Init
<1>3. TypeOK
  BY <1>1 DEF Init, TypeOK, PCs
<1>4. \A o \in Ops : ~Outstanding(o)
  BY <1>1 DEF Init, Outstanding, WaitsAt, Runs
<1>5. session = None /\ None \notin Ops
  BY NoneAssumption DEF Init
<1> QED
  BY <1>2, <1>3, <1>4, <1>5 DEF Init, IInv, CacheInv, InsideHolds, ThreadRuns,
    LaunchesSettled, PathsKnown, SessionSettled, CachingIsLast, CacheExplained,
    IsDebugging, Inside, PCs

\* Every step keeps the types.
LEMMA TypesStep ==
  ASSUME IInv, [Next]_vars PROVE TypeOK'
<1> USE DEF IInv, TypeOK, caller, debugger, PCs
<1>1. ASSUME NEW o \in Ops, ResolvePath(o) PROVE TypeOK'
  BY <1>1, Programs DEF ResolvePath, Goto, Known
<1>2. ASSUME NEW o \in Ops, Lock(o) PROVE TypeOK'
  BY <1>2 DEF Lock, Goto, Return
<1>3. ASSUME NEW o \in Ops, ChoosePath(o) PROVE TypeOK'
  BY <1>3, Programs DEF ChoosePath, Goto, Return, Known
<1>4. ASSUME NEW o \in Ops, EnqueueInit(o) PROVE TypeOK'
  <2>1. queue' \in Seq(Commands) \/ queue' = queue
    <3>1. [name |-> "init", op |-> o] \in Commands
      BY DEF Commands
    <3> QED BY <1>4, <3>1, AppendProperties DEF EnqueueInit, Enqueue
  <2> QED BY <1>4, <2>1 DEF EnqueueInit, Enqueue, Goto, Return
<1>5. ASSUME NEW o \in Ops, CachePath(o) \/ Probe(o) \/ CheckBusy(o) \/
               ComparePid(o)
      PROVE  TypeOK'
  BY <1>5 DEF CachePath, Probe, CheckBusy, ComparePid, Goto, Return
<1>6. ASSUME NEW o \in Ops, EnqueueDetach(o) PROVE TypeOK'
  <2>1. queue' \in Seq(Commands) \/ queue' = queue
    <3>1. [name |-> "mcpdetach", op |-> o] \in Commands
      BY DEF Commands
    <3> QED BY <1>6, <3>1, AppendProperties DEF EnqueueDetach, Enqueue
  <2> QED BY <1>6, <2>1 DEF EnqueueDetach, Enqueue, Goto, Return
<1>7. ASSUME NEW o \in Ops, Left(o) PROVE TypeOK'
  BY <1>7 DEF Left, Goto
<1>8. ASSUME NEW o \in Ops, EnqueueAttach(o) PROVE TypeOK'
  <2>1. queue' \in Seq(Commands) \/ queue' = queue
    <3>1. [name |-> "mcpattach", op |-> o] \in Commands
      BY DEF Commands
    <3> QED BY <1>8, <3>1, AppendProperties DEF EnqueueAttach, Enqueue
  <2> QED BY <1>8, <2>1 DEF EnqueueAttach, Enqueue, Goto, Return
<1>9. ASSUME NEW o \in Ops, Joined(o) \/ TimesOut(o) PROVE TypeOK'
  BY <1>9 DEF Joined, TimesOut, Goto, Return
<1>10. ASSUME Take \/ InitEndsSession PROVE TypeOK'
  BY <1>10 DEF Take, InitEndsSession, Kill, EndSession
<1>11. ASSUME InitLaunches PROVE TypeOK'
  BY <1>11, Programs DEF InitLaunches, Finish, StartSession, CacheInv,
    LaunchesSettled, Settled
<1>12. ASSUME InitFails PROVE TypeOK'
  BY <1>12, Programs DEF InitFails, Finish, CacheInv, LaunchesSettled, Settled
<1>13. ASSUME Look \/ Detach \/ StopRest PROVE TypeOK'
  BY <1>13 DEF Look, Detach, StopRest, Finish, Perform, EndSession, Kill
<1>14. ASSUME Connect PROVE TypeOK'
  BY <1>14, Programs DEF Connect, Finish, StartSession
<1>15. ASSUME CreateProcess PROVE TypeOK'
  BY <1>15, Programs DEF CreateProcess, CacheInv, SessionSettled
<1>16. ASSUME DebuggeeExits PROVE TypeOK'
  BY <1>16 DEF DebuggeeExits, Kill, EndSession
<1>17. ASSUME NEW p \in Pids, ProcessExits(p) PROVE TypeOK'
  BY <1>17 DEF ProcessExits
<1>18. CASE UNCHANGED vars
  BY <1>18 DEF vars
<1> QED
  BY <1>1, <1>2, <1>3, <1>4, <1>5, <1>6, <1>7, <1>8, <1>9, <1>10, <1>11,
    <1>12, <1>13, <1>14, <1>15, <1>16, <1>17, <1>18
  DEF Next, Launching, Attaching, CommandThread, Debuggees

\* Only the call that took the mutex goes on.
LEMMA HoldsStep ==
  ASSUME IInv, [Next]_vars PROVE InsideHolds'
<1> USE DEF IInv, TypeOK, caller, debugger, PCs, CacheInv, InsideHolds, Inside
<1>1. ASSUME NEW o \in Ops, ResolvePath(o) PROVE InsideHolds'
  BY <1>1 DEF ResolvePath, Goto, Known
<1>2. ASSUME NEW o \in Ops, Lock(o) PROVE InsideHolds'
  BY <1>2, NoneAssumption DEF Lock, MutexFree, Goto
<1>3. ASSUME NEW o \in Ops, ChoosePath(o) \/ EnqueueInit(o) \/ CachePath(o) \/
               Probe(o) \/ CheckBusy(o) \/ ComparePid(o) \/ EnqueueDetach(o)
      PROVE  InsideHolds'
  BY <1>3 DEF ChoosePath, EnqueueInit, CachePath, Probe, CheckBusy,
    ComparePid, EnqueueDetach, Goto, Return, Known, Enqueue
<1>4. ASSUME NEW o \in Ops, Left(o) \/ EnqueueAttach(o) \/ Joined(o) \/
               TimesOut(o)
      PROVE  InsideHolds'
  BY <1>4 DEF Left, EnqueueAttach, Joined, TimesOut, Goto, Return, Enqueue
<1>5. ASSUME Take \/ InitEndsSession \/ InitLaunches \/ InitFails \/ Look \/
               Detach \/ StopRest
      PROVE  InsideHolds'
  BY <1>5 DEF Take, InitEndsSession, InitLaunches, InitFails, Look, Detach,
    StopRest, Kill, EndSession, Finish, StartSession, Perform
<1>6. ASSUME Connect \/ CreateProcess \/ DebuggeeExits PROVE InsideHolds'
  BY <1>6 DEF Connect, CreateProcess, DebuggeeExits, Finish, StartSession,
    Kill, EndSession
<1>7. ASSUME NEW p \in Pids, ProcessExits(p) PROVE InsideHolds'
  BY <1>7 DEF ProcessExits
<1>8. CASE UNCHANGED vars
  BY <1>8 DEF vars
<1> QED
  BY <1>1, <1>2, <1>3, <1>4, <1>5, <1>6, <1>7, <1>8
  DEF Next, Launching, Attaching, CommandThread, Debuggees

\* A command stays until it is finished.
LEMMA RunsStep ==
  ASSUME IInv, [Next]_vars PROVE ThreadRuns'
<1> USE DEF IInv, TypeOK, caller, debugger, PCs, CacheInv, ThreadRuns
<1>1. ASSUME NEW o \in Ops, ResolvePath(o) \/ Lock(o) \/ ChoosePath(o) \/
               EnqueueInit(o) \/ CachePath(o) \/ Probe(o) \/ CheckBusy(o)
      PROVE  ThreadRuns'
  BY <1>1 DEF ResolvePath, Lock, ChoosePath, EnqueueInit, CachePath, Probe,
    CheckBusy, Goto, Known, Return, Enqueue
<1>2. ASSUME NEW o \in Ops, ComparePid(o) \/ EnqueueDetach(o) \/ Left(o) \/
               EnqueueAttach(o) \/ Joined(o) \/ TimesOut(o)
      PROVE  ThreadRuns'
  BY <1>2 DEF ComparePid, EnqueueDetach, Left, EnqueueAttach, Joined,
    TimesOut, Goto, Return, Enqueue
<1>3. ASSUME Take PROVE ThreadRuns'
  BY <1>3, HeadTailProperties DEF Take
<1>4. ASSUME InitEndsSession \/ InitLaunches \/ InitFails \/ Look \/ Detach \/
               StopRest \/ Connect
      PROVE  ThreadRuns'
  BY <1>4 DEF InitEndsSession, InitLaunches, InitFails, Look, Detach,
    StopRest, Connect, Kill, EndSession, Finish, StartSession, Perform
<1>5. ASSUME CreateProcess \/ DebuggeeExits PROVE ThreadRuns'
  BY <1>5 DEF CreateProcess, DebuggeeExits, Kill, EndSession
<1>6. ASSUME NEW p \in Pids, ProcessExits(p) PROVE ThreadRuns'
  BY <1>6 DEF ProcessExits
<1>7. CASE UNCHANGED vars
  BY <1>7 DEF vars
<1> QED
  BY <1>1, <1>2, <1>3, <1>4, <1>5, <1>6, <1>7
  DEF Next, Launching, Attaching, CommandThread, Debuggees

\* A settled path stays, as the call is done with it.
LEMMA SettledStays ==
  ASSUME IInv, [Next]_vars, NEW u \in Ops, Settled(u)
  PROVE  Settled(u)' /\ path'[u] = path[u]
<1> USE DEF IInv, TypeOK, caller, debugger, Settled
<1>1. ASSUME NEW o \in Ops, ResolvePath(o) \/ Lock(o) \/ ChoosePath(o) \/
               EnqueueInit(o) \/ CachePath(o) \/ Probe(o) \/ CheckBusy(o)
      PROVE  Settled(u)' /\ path'[u] = path[u]
  BY <1>1 DEF ResolvePath, Lock, ChoosePath, EnqueueInit, CachePath, Probe,
    CheckBusy, Goto, Known, Return, Enqueue
<1>2. ASSUME NEW o \in Ops, ComparePid(o) \/ EnqueueDetach(o) \/ Left(o) \/
               EnqueueAttach(o) \/ Joined(o) \/ TimesOut(o)
      PROVE  Settled(u)' /\ path'[u] = path[u]
  BY <1>2 DEF ComparePid, EnqueueDetach, Left, EnqueueAttach, Joined,
    TimesOut, Goto, Return, Enqueue
<1>3. ASSUME Take \/ InitEndsSession \/ InitLaunches \/ InitFails \/ Look \/
               Detach \/ StopRest
      PROVE  Settled(u)' /\ path'[u] = path[u]
  BY <1>3 DEF Take, InitEndsSession, InitLaunches, InitFails, Look, Detach,
    StopRest, Kill, EndSession, Finish, StartSession, Perform
<1>4. ASSUME Connect \/ CreateProcess \/ DebuggeeExits
      PROVE  Settled(u)' /\ path'[u] = path[u]
  BY <1>4 DEF Connect, CreateProcess, DebuggeeExits, Finish, StartSession,
    Kill, EndSession
<1>5. ASSUME NEW p \in Pids, ProcessExits(p)
      PROVE  Settled(u)' /\ path'[u] = path[u]
  BY <1>5 DEF ProcessExits
<1>6. CASE UNCHANGED vars
  BY <1>6 DEF vars
<1> QED
  BY <1>1, <1>2, <1>3, <1>4, <1>5, <1>6
  DEF Next, Launching, Attaching, CommandThread, Debuggees

\* Only a call that settled its path gets a command outstanding.
LEMMA NewlyOutstanding ==
  ASSUME IInv, [Next]_vars, NEW u \in Ops
  PROVE  Outstanding(u)' => Outstanding(u) \/ Settled(u)'
<1> USE DEF IInv, TypeOK, caller, debugger, Settled
<1>1. ASSUME NEW o \in Ops, ResolvePath(o) \/ Lock(o) \/ ChoosePath(o)
      PROVE  Outstanding(u)' => Outstanding(u) \/ Settled(u)'
  BY <1>1, QueueLeftAlone DEF ResolvePath, Lock, ChoosePath, Goto, Known,
    Return
<1>2. ASSUME NEW o \in Ops, EnqueueInit(o)
      PROVE  Outstanding(u)' => Outstanding(u) \/ Settled(u)'
  <2>1. [name |-> "init", op |-> o] \in Commands
    BY DEF Commands
  <2>2. CASE queue' = Append(queue, [name |-> "init", op |-> o])
    <3>1. Outstanding(u)' => Outstanding(u)
            \/ [name |-> "init", op |-> o] = [name |-> "init", op |-> u]
      BY <1>2, <2>1, <2>2, QueuedComesLast DEF EnqueueInit, Enqueue
    <3> QED BY <1>2, <2>2, <3>1 DEF EnqueueInit, Enqueue, Goto, Return,
      CacheInv, PathsKnown
  <2>3. CASE queue' = queue
    BY <1>2, <2>3, QueueLeftAlone DEF EnqueueInit, Enqueue
  <2> QED BY <1>2, <2>2, <2>3 DEF EnqueueInit, Enqueue
<1>3. ASSUME NEW o \in Ops, CachePath(o) \/ Probe(o) \/ CheckBusy(o) \/
               ComparePid(o)
      PROVE  Outstanding(u)' => Outstanding(u) \/ Settled(u)'
  BY <1>3, QueueLeftAlone DEF CachePath, Probe, CheckBusy, ComparePid, Goto,
    Return
<1>4. ASSUME NEW o \in Ops, EnqueueDetach(o)
      PROVE  Outstanding(u)' => Outstanding(u) \/ Settled(u)'
  <2>1. [name |-> "mcpdetach", op |-> o] \in Commands
    BY DEF Commands
  <2>2. CASE queue' = Append(queue, [name |-> "mcpdetach", op |-> o])
    <3>1. Outstanding(u)' => Outstanding(u)
            \/ [name |-> "mcpdetach", op |-> o] = [name |-> "init", op |-> u]
      BY <1>4, <2>1, <2>2, QueuedComesLast DEF EnqueueDetach, Enqueue
    <3> QED BY <1>4, <2>2, <3>1 DEF EnqueueDetach, Enqueue, Goto, Return,
      CacheInv, PathsKnown
  <2>3. CASE queue' = queue
    BY <1>4, <2>3, QueueLeftAlone DEF EnqueueDetach, Enqueue
  <2> QED BY <1>4, <2>2, <2>3 DEF EnqueueDetach, Enqueue
<1>5. ASSUME NEW o \in Ops, Left(o)
      PROVE  Outstanding(u)' => Outstanding(u) \/ Settled(u)'
  BY <1>5, QueueLeftAlone DEF Left, Goto
<1>6. ASSUME NEW o \in Ops, EnqueueAttach(o)
      PROVE  Outstanding(u)' => Outstanding(u) \/ Settled(u)'
  <2>1. [name |-> "mcpattach", op |-> o] \in Commands
    BY DEF Commands
  <2>2. CASE queue' = Append(queue, [name |-> "mcpattach", op |-> o])
    <3>1. Outstanding(u)' => Outstanding(u)
            \/ [name |-> "mcpattach", op |-> o] = [name |-> "init", op |-> u]
      BY <1>6, <2>1, <2>2, QueuedComesLast DEF EnqueueAttach, Enqueue
    <3> QED BY <1>6, <2>2, <3>1 DEF EnqueueAttach, Enqueue, Goto, Return,
      CacheInv, PathsKnown
  <2>3. CASE queue' = queue
    BY <1>6, <2>3, QueueLeftAlone DEF EnqueueAttach, Enqueue
  <2> QED BY <1>6, <2>2, <2>3 DEF EnqueueAttach, Enqueue
<1>7. ASSUME NEW o \in Ops, Joined(o) \/ TimesOut(o)
      PROVE  Outstanding(u)' => Outstanding(u) \/ Settled(u)'
  BY <1>7, QueueLeftAlone DEF Joined, TimesOut, Goto, Return
<1>8. ASSUME Take PROVE Outstanding(u)' => Outstanding(u) \/ Settled(u)'
  BY <1>8, TakenRuns DEF Take
<1>9. ASSUME InitEndsSession \/ InitLaunches \/ InitFails \/ Look \/ Detach \/
               StopRest \/ Connect
      PROVE  Outstanding(u)' => Outstanding(u) \/ Settled(u)'
  BY <1>9, QueueLeftAlone DEF InitEndsSession, InitLaunches, InitFails, Look,
    Detach, StopRest, Connect, Kill, EndSession, Finish, StartSession, Perform
<1>10. ASSUME CreateProcess \/ DebuggeeExits
      PROVE  Outstanding(u)' => Outstanding(u) \/ Settled(u)'
  BY <1>10, QueueLeftAlone DEF CreateProcess, DebuggeeExits, Kill, EndSession
<1>11. ASSUME NEW p \in Pids, ProcessExits(p)
      PROVE  Outstanding(u)' => Outstanding(u) \/ Settled(u)'
  BY <1>11, QueueLeftAlone DEF ProcessExits
<1>12. CASE UNCHANGED vars
  BY <1>12, QueueLeftAlone DEF vars
<1> QED
  BY <1>1, <1>2, <1>3, <1>4, <1>5, <1>6, <1>7, <1>8, <1>9, <1>10, <1>11, <1>12
  DEF Next, Launching, Attaching, CommandThread, Debuggees

\* The path of a launch stays settled.
LEMMA LaunchesStep ==
  ASSUME IInv, [Next]_vars PROVE LaunchesSettled'
<1>1. \A u \in Ops : Settled(u) => Settled(u)'
  BY SettledStays
<1>2. \A u \in Ops : Outstanding(u)' => Outstanding(u) \/ Settled(u)'
  BY NewlyOutstanding
<1> QED BY <1>1, <1>2 DEF IInv, CacheInv, LaunchesSettled

\* A launch that is resolved has a program.
LEMMA PathsStep ==
  ASSUME IInv, [Next]_vars PROVE PathsKnown'
<1> USE DEF IInv, TypeOK, caller, debugger, CacheInv, PathsKnown
<1>1. ASSUME NEW o \in Ops, ResolvePath(o) PROVE PathsKnown'
  BY <1>1, Programs DEF ResolvePath, Goto, Known
<1>2. ASSUME NEW o \in Ops, Lock(o) PROVE PathsKnown'
  BY <1>2 DEF Lock, Goto, Return
<1>3. ASSUME NEW o \in Ops, ChoosePath(o) PROVE PathsKnown'
  BY <1>3, Programs DEF ChoosePath, Goto, Return, Known
<1>4. ASSUME NEW o \in Ops, EnqueueInit(o) \/ CachePath(o) \/ Probe(o) \/
               CheckBusy(o) \/ ComparePid(o) \/ EnqueueDetach(o) \/ Left(o)
      PROVE  PathsKnown'
  BY <1>4 DEF EnqueueInit, CachePath, Probe, CheckBusy, ComparePid,
    EnqueueDetach, Left, Goto, Return, Enqueue
<1>5. ASSUME NEW o \in Ops, EnqueueAttach(o) \/ Joined(o) \/ TimesOut(o)
      PROVE  PathsKnown'
  BY <1>5 DEF EnqueueAttach, Joined, TimesOut, Goto, Return, Enqueue
<1>6. ASSUME Take \/ InitEndsSession \/ InitLaunches \/ InitFails \/ Look \/
               Detach \/ StopRest
      PROVE  PathsKnown'
  BY <1>6 DEF Take, InitEndsSession, InitLaunches, InitFails, Look, Detach,
    StopRest, Kill, EndSession, Finish, StartSession, Perform
<1>7. ASSUME Connect \/ CreateProcess \/ DebuggeeExits PROVE PathsKnown'
  BY <1>7 DEF Connect, CreateProcess, DebuggeeExits, Finish, StartSession,
    Kill, EndSession
<1>8. ASSUME NEW p \in Pids, ProcessExits(p) PROVE PathsKnown'
  BY <1>8 DEF ProcessExits
<1>9. CASE UNCHANGED vars
  BY <1>9 DEF vars
<1> QED
  BY <1>1, <1>2, <1>3, <1>4, <1>5, <1>6, <1>7, <1>8, <1>9
  DEF Next, Launching, Attaching, CommandThread, Debuggees

\* The program of the session is the one last started.
LEMMA SessionStep ==
  ASSUME IInv, [Next]_vars PROVE SessionSettled'
<1> USE DEF IInv, TypeOK, caller, debugger, CacheInv, SessionSettled,
      SessionPath, IsDebugging
<1>0. /\ \A u \in Ops : Settled(u) => Settled(u)' /\ path'[u] = path[u]
      /\ session \in Ops \cup Pids \cup {None} /\ None \notin Ops \cup Pids
  BY SettledStays, NoneAssumption
<1>1. ASSUME NEW o \in Ops, ResolvePath(o) \/ Lock(o) \/ ChoosePath(o) \/
               EnqueueInit(o) \/ CachePath(o) \/ Probe(o) \/ CheckBusy(o)
      PROVE  SessionSettled'
  BY <1>1, <1>0 DEF ResolvePath, Lock, ChoosePath, EnqueueInit, CachePath,
    Probe, CheckBusy, Goto, Known, Return, Enqueue
<1>2. ASSUME NEW o \in Ops, ComparePid(o) \/ EnqueueDetach(o) \/ Left(o) \/
               EnqueueAttach(o) \/ Joined(o) \/ TimesOut(o)
      PROVE  SessionSettled'
  BY <1>2, <1>0 DEF ComparePid, EnqueueDetach, Left, EnqueueAttach, Joined,
    TimesOut, Goto, Return, Enqueue
<1>3. ASSUME Take \/ InitEndsSession PROVE SessionSettled'
  BY <1>3, <1>0 DEF Take, InitEndsSession, Kill, EndSession
<1>4. ASSUME InitLaunches PROVE SessionSettled'
  <2>1. Settled(command.op) /\ command.op \in Ops
    BY <1>4, Programs DEF InitLaunches, LaunchesSettled
  <2>2. session' = command.op /\ lastStarted' = path[command.op] /\ path' = path
    BY <1>4 DEF InitLaunches, StartSession
  <2>3. Settled(session)'
    BY <2>1, <2>2, <1>4, SettledStays DEF InitLaunches
  <2> QED BY <2>1, <2>2, <2>3, PidAssumption, NoneAssumption
<1>5. ASSUME InitFails \/ Look \/ Detach \/ StopRest PROVE SessionSettled'
  BY <1>5, <1>0 DEF InitFails, Look, Detach, StopRest, Finish, Perform,
    EndSession, Kill
<1>6. ASSUME Connect PROVE SessionSettled'
  BY <1>6, <1>0, NoneAssumption, PidAssumption DEF Connect, Finish, StartSession
<1>7. ASSUME CreateProcess \/ DebuggeeExits PROVE SessionSettled'
  BY <1>7, <1>0 DEF CreateProcess, DebuggeeExits, Kill, EndSession
<1>8. ASSUME NEW p \in Pids, ProcessExits(p) PROVE SessionSettled'
  BY <1>8, <1>0 DEF ProcessExits
<1>9. CASE UNCHANGED vars
  BY <1>9, <1>0 DEF vars
<1> QED
  BY <1>1, <1>2, <1>3, <1>4, <1>5, <1>6, <1>7, <1>8, <1>9
  DEF Next, Launching, Attaching, CommandThread, Debuggees

\* The call that caches its path queued the last command.
LEMMA CachingStep ==
  ASSUME IInv, [Next]_vars PROVE CachingIsLast'
<1> USE DEF IInv, TypeOK, caller, debugger, CacheInv, CachingIsLast
<1>1. ASSUME NEW o \in Ops, ResolvePath(o) \/ Lock(o) \/ ChoosePath(o)
      PROVE  CachingIsLast'
  <2>1. \A u \in Ops : pc'[u] = "cache" => pc[u] = "cache" /\ path'[u] = path[u]
    BY <1>1 DEF ResolvePath, Lock, ChoosePath, Goto, Known, Return
  <2>2. \A u \in Ops : (IsLast(u)' <=> IsLast(u)) /\ (Runs(u)' <=> Runs(u))
    BY <1>1, QueueLeftAlone DEF ResolvePath, Lock, ChoosePath, Goto, Known,
      Return
  <2> QED BY <1>1, <2>1, <2>2 DEF ResolvePath, Lock, ChoosePath, Goto, Known,
    Return, OwnIsLast
<1>2. ASSUME NEW o \in Ops, EnqueueInit(o) PROVE CachingIsLast'
  <2>1. \A u \in Ops : u # o => pc'[u] # "cache"
    BY <1>2 DEF EnqueueInit, Enqueue, Goto, Return, InsideHolds, Inside
  <2>2. CASE queue' = queue
    BY <1>2, <2>1, <2>2 DEF EnqueueInit, Enqueue, Goto, Return
  <2>3. CASE queue' = Append(queue, [name |-> "init", op |-> o])
    <3>1. [name |-> "init", op |-> o] \in Commands
      BY DEF Commands
    <3>2. IsLast(o)'
      BY <1>2, <2>3, <3>1, QueuedComesLast DEF EnqueueInit, Enqueue
    <3> QED BY <2>1, <3>2 DEF OwnIsLast
  <2> QED BY <1>2, <2>2, <2>3 DEF EnqueueInit, Enqueue
<1>3. ASSUME NEW o \in Ops, CachePath(o) \/ Probe(o) \/ CheckBusy(o) \/
               ComparePid(o)
      PROVE  CachingIsLast'
  <2>1. \A u \in Ops : pc'[u] = "cache" => pc[u] = "cache" /\ path'[u] = path[u]
    BY <1>3 DEF CachePath, Probe, CheckBusy, ComparePid, Goto, Return
  <2>2. \A u \in Ops : (IsLast(u)' <=> IsLast(u)) /\ (Runs(u)' <=> Runs(u))
    BY <1>3, QueueLeftAlone DEF CachePath, Probe, CheckBusy, ComparePid, Goto,
      Return
  <2> QED BY <1>3, <2>1, <2>2 DEF CachePath, Probe, CheckBusy, ComparePid, Goto,
    Return, OwnIsLast
<1>4. ASSUME NEW o \in Ops, EnqueueDetach(o) PROVE CachingIsLast'
  <2>1. \A u \in Ops : u # o => pc'[u] # "cache"
    BY <1>4 DEF EnqueueDetach, Enqueue, Goto, Return, InsideHolds, Inside
  <2>2. CASE queue' = queue
    BY <1>4, <2>1, <2>2 DEF EnqueueDetach, Enqueue, Goto, Return
  <2>3. CASE queue' = Append(queue, [name |-> "mcpdetach", op |-> o])
    BY <1>4, <2>1, <2>3 DEF EnqueueDetach, Enqueue, Goto, Return
  <2> QED BY <1>4, <2>2, <2>3 DEF EnqueueDetach, Enqueue
<1>5. ASSUME NEW o \in Ops, Left(o) PROVE CachingIsLast'
  <2>1. \A u \in Ops : pc'[u] = "cache" => pc[u] = "cache" /\ path'[u] = path[u]
    BY <1>5 DEF Left, Goto
  <2>2. \A u \in Ops : (IsLast(u)' <=> IsLast(u)) /\ (Runs(u)' <=> Runs(u))
    BY <1>5, QueueLeftAlone DEF Left, Goto
  <2> QED BY <1>5, <2>1, <2>2 DEF Left, Goto, OwnIsLast
<1>6. ASSUME NEW o \in Ops, EnqueueAttach(o) PROVE CachingIsLast'
  <2>1. \A u \in Ops : u # o => pc'[u] # "cache"
    BY <1>6 DEF EnqueueAttach, Enqueue, Goto, Return, InsideHolds, Inside
  <2>2. CASE queue' = queue
    BY <1>6, <2>1, <2>2 DEF EnqueueAttach, Enqueue, Goto, Return
  <2>3. CASE queue' = Append(queue, [name |-> "mcpattach", op |-> o])
    BY <1>6, <2>1, <2>3 DEF EnqueueAttach, Enqueue, Goto, Return
  <2> QED BY <1>6, <2>2, <2>3 DEF EnqueueAttach, Enqueue
<1>7. ASSUME NEW o \in Ops, Joined(o) \/ TimesOut(o) PROVE CachingIsLast'
  <2>1. \A u \in Ops : pc'[u] = "cache" => pc[u] = "cache" /\ path'[u] = path[u]
    BY <1>7 DEF Joined, TimesOut, Goto, Return
  <2>2. \A u \in Ops : (IsLast(u)' <=> IsLast(u)) /\ (Runs(u)' <=> Runs(u))
    BY <1>7, QueueLeftAlone DEF Joined, TimesOut, Goto, Return
  <2> QED BY <1>7, <2>1, <2>2 DEF Joined, TimesOut, Goto, Return, OwnIsLast
<1>8. ASSUME Take PROVE CachingIsLast'
  <2>1. ASSUME NEW u \in Ops, pc[u] = "cache" PROVE OwnIsLast(u)'
    <3>1. IsLast(u)
      BY <1>8, <2>1 DEF Take, OwnIsLast, Runs
    <3> QED BY <1>8, <3>1, TakenRuns DEF OwnIsLast
  <2> QED BY <1>8, <2>1 DEF Take
<1>9. ASSUME InitEndsSession PROVE CachingIsLast'
  <2>1. \A u \in Ops : pc'[u] = "cache" => pc[u] = "cache" /\ path'[u] = path[u]
    BY <1>9 DEF InitEndsSession, Kill, EndSession
  <2>2. \A u \in Ops : (IsLast(u)' <=> IsLast(u)) /\ (Runs(u)' <=> Runs(u))
    BY <1>9, QueueLeftAlone DEF InitEndsSession, Kill, EndSession
  <2> QED BY <1>9, <2>1, <2>2 DEF InitEndsSession, Kill, EndSession, OwnIsLast
<1>10. ASSUME InitLaunches PROVE CachingIsLast'
  <2>1. \A u \in Ops : IsLast(u)' <=> IsLast(u)
    BY <1>10, QueueLeftAlone DEF InitLaunches, Finish
  <2>2. ASSUME NEW u \in Ops, pc[u] = "cache" PROVE OwnIsLast(u)'
    BY <1>10, <2>1, <2>2 DEF InitLaunches, Finish, StartSession, OwnIsLast, Runs
  <2> QED BY <1>10, <2>2 DEF InitLaunches
<1>11. ASSUME InitFails PROVE CachingIsLast'
  <2>1. \A u \in Ops : IsLast(u)' <=> IsLast(u)
    BY <1>11, QueueLeftAlone DEF InitFails, Finish
  <2>2. ASSUME NEW u \in Ops, pc[u] = "cache" PROVE OwnIsLast(u)'
    BY <1>11, <2>1, <2>2 DEF InitFails, Finish, OwnIsLast, Runs
  <2> QED BY <1>11, <2>2 DEF InitFails
<1>12. ASSUME Look \/ Detach \/ StopRest \/ Connect PROVE CachingIsLast'
  <2>1. \A u \in Ops : pc[u] = "cache" => IsLast(u)
    BY <1>12 DEF Look, Detach, StopRest, Connect, Finish, Perform, EndSession,
      Kill, StartSession, OwnIsLast, Runs
  <2>2. \A u \in Ops : IsLast(u)' <=> IsLast(u)
    BY <1>12, QueueLeftAlone DEF Look, Detach, StopRest, Connect, Finish, Perform,
      EndSession, Kill, StartSession
  <2> QED BY <1>12, <2>1, <2>2 DEF Look, Detach, StopRest, Connect, Finish,
    Perform, EndSession, Kill, StartSession, OwnIsLast
<1>13. ASSUME CreateProcess \/ DebuggeeExits PROVE CachingIsLast'
  <2>1. \A u \in Ops : pc'[u] = "cache" => pc[u] = "cache" /\ path'[u] = path[u]
    BY <1>13 DEF CreateProcess, DebuggeeExits, Kill, EndSession
  <2>2. \A u \in Ops : (IsLast(u)' <=> IsLast(u)) /\ (Runs(u)' <=> Runs(u))
    BY <1>13, QueueLeftAlone DEF CreateProcess, DebuggeeExits, Kill, EndSession
  <2> QED BY <1>13, <2>1, <2>2 DEF CreateProcess, DebuggeeExits, Kill, EndSession,
    OwnIsLast
<1>14. ASSUME NEW p \in Pids, ProcessExits(p) PROVE CachingIsLast'
  <2>1. \A u \in Ops : pc'[u] = "cache" => pc[u] = "cache" /\ path'[u] = path[u]
    BY <1>14 DEF ProcessExits
  <2>2. \A u \in Ops : (IsLast(u)' <=> IsLast(u)) /\ (Runs(u)' <=> Runs(u))
    BY <1>14, QueueLeftAlone DEF ProcessExits
  <2> QED BY <1>14, <2>1, <2>2 DEF ProcessExits, OwnIsLast
<1>15. CASE UNCHANGED vars
  BY <1>15, QueueLeftAlone DEF OwnIsLast, vars
<1> QED
  BY <1>1, <1>2, <1>3, <1>4, <1>5, <1>6, <1>7, <1>8, <1>9, <1>10, <1>11,
    <1>12, <1>13, <1>14, <1>15
  DEF Next, Launching, Attaching, CommandThread, Debuggees

\* A difference between cache and session is always explained.
LEMMA ExplainedStep ==
  ASSUME IInv, [Next]_vars PROVE CacheExplained'
<1> USE DEF IInv, TypeOK, caller, debugger, CacheInv, CacheExplained
<1>1. ASSUME NEW o \in Ops, ResolvePath(o) \/ Lock(o) \/ ChoosePath(o)
      PROVE  CacheExplained'
  <2>1. \A u \in Ops : Outstanding(u) => Outstanding(u)' /\ path'[u] = path[u]
    BY <1>1, QueueLeftAlone, SettledStays DEF ResolvePath, Lock, ChoosePath,
      Goto, Known, Return, LaunchesSettled, Runs
  <2> QED BY <1>1, <2>1 DEF ResolvePath, Lock, ChoosePath, Goto, Known, Return
<1>2. ASSUME NEW o \in Ops, EnqueueInit(o) PROVE CacheExplained'
  <2>1. \A u \in Ops : Outstanding(u) => Outstanding(u)'
    <3>1. [name |-> "init", op |-> o] \in Commands
      BY DEF Commands
    <3> QED BY <1>2, <3>1, QueuedComesLast, QueueLeftAlone
      DEF EnqueueInit, Enqueue
  <2>2. \A u \in Ops : pc[u] = "cache" => pc'[u] = "cache"
    BY <1>2 DEF EnqueueInit, Enqueue, Goto, Return
  <2> QED BY <1>2, <2>1, <2>2 DEF EnqueueInit, Enqueue
<1>3. ASSUME NEW o \in Ops, CachePath(o) PROVE CacheExplained'
  <2>1. OwnIsLast(o)
    BY <1>3 DEF CachePath, Return, Goto, CachingIsLast
  <2>2. IsLast(o) \/ Runs(o) => Outstanding(o)
    BY DEF IsLast, WaitsAt, Outstanding
  <2>3. Outstanding(o) => Outstanding(o)'
    BY <1>3, QueueLeftAlone DEF CachePath
  <2> QED BY <1>3, <2>1, <2>2, <2>3 DEF CachePath, OwnIsLast
<1>4. ASSUME NEW o \in Ops, Probe(o) \/ CheckBusy(o) \/ ComparePid(o)
      PROVE  CacheExplained'
  <2>1. \A u \in Ops : Outstanding(u) => Outstanding(u)' /\ path'[u] = path[u]
    BY <1>4, QueueLeftAlone, SettledStays DEF Probe, CheckBusy, ComparePid, Goto,
      Return, LaunchesSettled, Runs
  <2> QED BY <1>4, <2>1 DEF Probe, CheckBusy, ComparePid, Goto, Return
<1>5. ASSUME NEW o \in Ops, EnqueueDetach(o) PROVE CacheExplained'
  <2>1. \A u \in Ops : Outstanding(u) => Outstanding(u)'
    <3>1. [name |-> "mcpdetach", op |-> o] \in Commands
      BY DEF Commands
    <3> QED BY <1>5, <3>1, QueuedComesLast, QueueLeftAlone
      DEF EnqueueDetach, Enqueue
  <2>2. \A u \in Ops : pc[u] = "cache" => pc'[u] = "cache"
    BY <1>5 DEF EnqueueDetach, Enqueue, Goto, Return
  <2> QED BY <1>5, <2>1, <2>2 DEF EnqueueDetach, Enqueue
<1>6. ASSUME NEW o \in Ops, Left(o) PROVE CacheExplained'
  <2>1. \A u \in Ops : Outstanding(u) => Outstanding(u)' /\ path'[u] = path[u]
    BY <1>6, QueueLeftAlone, SettledStays DEF Left, Goto, LaunchesSettled, Runs
  <2> QED BY <1>6, <2>1 DEF Left, Goto
<1>7. ASSUME NEW o \in Ops, EnqueueAttach(o) PROVE CacheExplained'
  <2>1. \A u \in Ops : Outstanding(u) => Outstanding(u)'
    <3>1. [name |-> "mcpattach", op |-> o] \in Commands
      BY DEF Commands
    <3> QED BY <1>7, <3>1, QueuedComesLast, QueueLeftAlone
      DEF EnqueueAttach, Enqueue
  <2>2. \A u \in Ops : pc[u] = "cache" => pc'[u] = "cache"
    BY <1>7 DEF EnqueueAttach, Enqueue, Goto, Return
  <2> QED BY <1>7, <2>1, <2>2 DEF EnqueueAttach, Enqueue
<1>8. ASSUME NEW o \in Ops, Joined(o) \/ TimesOut(o) PROVE CacheExplained'
  <2>1. \A u \in Ops : Outstanding(u) => Outstanding(u)' /\ path'[u] = path[u]
    BY <1>8, QueueLeftAlone, SettledStays DEF Joined, TimesOut, Goto, Return,
      LaunchesSettled, Runs
  <2> QED BY <1>8, <2>1 DEF Joined, TimesOut, Goto, Return
<1>9. ASSUME Take PROVE CacheExplained'
  <2>1. \A u \in Ops : Outstanding(u)' <=> Outstanding(u)
    BY <1>9, TakenRuns
  <2> QED BY <1>9, <2>1 DEF Take
<1>10. ASSUME InitEndsSession PROVE CacheExplained'
  <2>1. \A u \in Ops : Outstanding(u) => Outstanding(u)' /\ path'[u] = path[u]
    BY <1>10, QueueLeftAlone, SettledStays DEF InitEndsSession, Kill, EndSession,
      LaunchesSettled, Runs
  <2> QED BY <1>10, <2>1 DEF InitEndsSession, Kill, EndSession
<1>11. ASSUME InitLaunches PROVE CacheExplained'
  BY <1>11 DEF InitLaunches, StartSession
<1>12. ASSUME InitFails PROVE CacheExplained'
  <2>1. \A u \in Ops : Outstanding(u) => Outstanding(u)' \/ u = command.op
    BY <1>12, QueueLeftAlone DEF InitFails, Finish, Runs
  <2> QED BY <1>12, <2>1 DEF InitFails
<1>13. ASSUME Look \/ Detach \/ StopRest \/ Connect PROVE CacheExplained'
  <2>1. \A u \in Ops : Outstanding(u) => Outstanding(u)' /\ path'[u] = path[u]
    BY <1>13, QueueLeftAlone, SettledStays DEF Look, Detach, StopRest, Connect,
      Finish, Perform, EndSession, Kill, StartSession, LaunchesSettled, Runs
  <2> QED BY <1>13, <2>1 DEF Look, Detach, StopRest, Connect, Finish, Perform,
    EndSession, Kill, StartSession
<1>14. ASSUME CreateProcess PROVE CacheExplained'
  BY <1>14 DEF CreateProcess, SessionSettled
<1>15. ASSUME DebuggeeExits PROVE CacheExplained'
  <2>1. \A u \in Ops : Outstanding(u) => Outstanding(u)' /\ path'[u] = path[u]
    BY <1>15, QueueLeftAlone, SettledStays DEF DebuggeeExits, Kill, EndSession,
      LaunchesSettled, Runs
  <2> QED BY <1>15, <2>1 DEF DebuggeeExits, Kill, EndSession
<1>16. ASSUME NEW p \in Pids, ProcessExits(p) PROVE CacheExplained'
  <2>1. \A u \in Ops : Outstanding(u) => Outstanding(u)' /\ path'[u] = path[u]
    BY <1>16, QueueLeftAlone, SettledStays DEF ProcessExits, LaunchesSettled, Runs
  <2> QED BY <1>16, <2>1 DEF ProcessExits
<1>17. CASE UNCHANGED vars
  BY <1>17, QueueLeftAlone DEF vars
<1> QED
  BY <1>1, <1>2, <1>3, <1>4, <1>5, <1>6, <1>7, <1>8, <1>9, <1>10, <1>11,
    <1>12, <1>13, <1>14, <1>15, <1>16, <1>17
  DEF Next, Launching, Attaching, CommandThread, Debuggees

-----------------------------------------------------------------------------
(* The queue, the cache and the session agree in every reachable state, as *)
(* the conjuncts of IInv say.                                              *)
THEOREM InvariantHolds == Spec => []IInv
<1>1. Init => IInv
  BY InitOK
<1>2. IInv /\ [Next]_vars => IInv'
  BY TypesStep, HoldsStep, RunsStep, LaunchesStep, PathsStep, SessionStep,
    CachingStep, ExplainedStep DEF IInv, CacheInv
<1> QED BY <1>1, <1>2, PTL DEF Spec

(* Every variable of DebugSession keeps its type: in particular x64dbg     *)
(* never gets a launch without a program to reject, also when Init() and   *)
(* Restart() find the cache empty.                                         *)
THEOREM TypeCorrect == Spec => []TypeOK
BY InvariantHolds, PTL DEF IInv

(* When calls and commands are through, m_lastDebuggedPath is the program  *)
(* of the last session or of a launch that failed since.                   *)
THEOREM CacheIsLast == Spec => []CacheNamesLastProgram
<1>1. IInv => CacheNamesLastProgram
  <2> SUFFICES ASSUME IInv, holder = None, CommandThreadIsThrough,
                      created = "reported"
               PROVE  lastPath = lastStarted \/ lastPath \in rejected
    BY DEF CacheNamesLastProgram
  <2>1. \A o \in Ops : ~Outstanding(o)
    <3>1. DOMAIN queue = {}
      BY EmptySeq, LenProperties DEF CommandThreadIsThrough, IInv, TypeOK
    <3> QED BY <3>1 DEF Outstanding, WaitsAt, Runs, CommandThreadIsThrough
  <2>2. \A o \in Ops : pc[o] # "cache"
    BY NoneAssumption DEF IInv, CacheInv, InsideHolds, Inside, PCs
  <2> QED BY <2>1, <2>2 DEF IInv, CacheInv, CacheExplained
<1> QED BY <1>1, InvariantHolds, PTL

-----------------------------------------------------------------------------
(* Attaches alone, however many, when no deadline passes before x64dbg's   *)
(* command thread is through: each that succeeds has reached its process,  *)
(* and none with detach_first = false detaches another session.  Beside an *)
(* init, or with a command that outlives its call, neither holds.          *)

AttachesAlone == Patient /\ \A o \in Ops : Kind[o] = "attach"

\* The call that queued an attach waits for it, and nothing is debugged yet.
Awaited(o) == holder = o /\ pc[o] = "join" /\ session = None

\* A queued attach is the last command, behind detaches that came too late.
QueueInv == \A i \in DOMAIN queue :
    /\ queue[i].name # "init"
    /\ queue[i].name = "mcpattach" => i = Len(queue) /\ Awaited(queue[i].op)
    /\ queue[i].name = "mcpdetach" => queue[i].op \notin Polite

ThreadInv == thread # "idle" =>
    /\ thread # "launch" /\ command.name # "init"
    /\ command.name = "mcpattach" =>
          queue = <<>> /\ Awaited(command.op) /\ thread \in {"look", "connect"}
    /\ command.name = "mcpdetach" => command.op \notin Polite /\ thread # "connect"

CallInv == \A o \in Ops :
    /\ pc[o] \notin {"resolved", "choose", "enqueue", "cache"}
    /\ pc[o] \in {"detach", "leave"} => o \notin Polite
    /\ pc[o] = "attach" => session = None
    /\ pc[o] = "join" /\ session # None => session = Target[o]
    /\ pc[o] = "ok" => reported[o] = Target[o]

AttachInv == IInv /\ QueueInv /\ ThreadInv /\ CallInv

\* What is known of a place in the queue.
LEMMA Places ==
  ASSUME AttachInv
  PROVE  /\ Len(queue) \in Nat /\ DOMAIN queue = 1..Len(queue)
         /\ \A i \in DOMAIN queue : queue[i] \in Commands
         /\ queue # <<>> => Len(queue) # 0
  BY LenProperties, EmptySeq, ElementOfSeq DEF AttachInv, IInv, TypeOK

\* A call that looks on, or is refused, leaves the commands alone.
LEMMA LooksStep ==
  ASSUME AttachesAlone, AttachInv, NEW o \in Ops,
         \/ Lock(o) \/ Probe(o) \/ CheckBusy(o) \/ ComparePid(o) \/ Left(o)
         \/ Joined(o) \/ TimesOut(o)
  PROVE  QueueInv' /\ ThreadInv' /\ CallInv'
<1> USE NoneAssumption DEF AttachInv, IInv, TypeOK, CacheInv, InsideHolds, Inside, PCs
<1>1. UNCHANGED <<queue, thread, command, session>>
  BY DEF Lock, Probe, CheckBusy, ComparePid, Left, Joined, TimesOut, debugger
<1>2. \A u \in Ops \ {o} : pc'[u] = pc[u] /\ reported'[u] = reported[u]
  BY DEF Lock, Probe, CheckBusy, ComparePid, Left, Joined, TimesOut, Goto, Return
<1>3. CallInv'
  <2>1. /\ pc'[o] \notin {"resolved", "choose", "enqueue", "cache"}
        /\ pc'[o] \in {"detach", "leave"} => o \notin Polite
        /\ pc'[o] = "attach" => session = None
        /\ pc'[o] = "join" => pc[o] = "join"
        /\ pc'[o] = "ok" => reported'[o] = Target[o]
    BY DEF AttachesAlone, CallInv, Lock, Probe, CheckBusy, ComparePid, Left, Joined, TimesOut,
       Goto, Return, DetachSeen, IsDebugging
  <2> QED
    BY <1>1, <1>2, <2>1 DEF CallInv
\* No attach is pending unless its call waits at "join".
<1>4. ASSUME NEW u \in Ops, Awaited(u),
             thread # "idle" \/ queue # <<>>
      PROVE  Awaited(u)'
  <2>1. u # o
    BY <1>4 DEF AttachesAlone, Awaited, Lock, Probe, CheckBusy, ComparePid, Left, Joined, TimesOut,
       Goto, Return, MutexFree, IsDebugging, CommandThreadIsThrough
  <2>2. holder' = holder
    BY <1>4, <2>1 DEF AttachesAlone, Awaited, Lock, Probe, CheckBusy, ComparePid, Left, Joined,
       TimesOut, Goto, Return, MutexFree
  <2> QED
    BY <1>1, <1>2, <1>4, <2>1, <2>2 DEF Awaited
<1>5. QueueInv'
  BY <1>1, <1>4, Places, EmptySeq DEF QueueInv, Commands
<1>6. ThreadInv'
  BY <1>1, <1>4 DEF ThreadInv, ThreadRuns, Commands
<1> QED
  BY <1>3, <1>5, <1>6

\* A command is queued: no attach is pending then, as its call would wait.
LEMMA EnqueueStep ==
  ASSUME AttachesAlone, AttachInv, NEW o \in Ops, EnqueueDetach(o) \/ EnqueueAttach(o)
  PROVE  QueueInv' /\ ThreadInv' /\ CallInv'
<1> USE NoneAssumption DEF AttachInv, IInv, TypeOK, CacheInv, InsideHolds, Inside, PCs
<1>1. UNCHANGED <<thread, command, session, reported>> /\ pc[o] \in {"detach", "attach"}
      /\ \A u \in Ops \ {o} : pc'[u] = pc[u]
  BY DEF EnqueueDetach, EnqueueAttach, Enqueue, debugger, Goto, Return
<1>2. holder = o /\ \A u \in Ops : ~Awaited(u)
  BY <1>1 DEF Awaited
<1>3. CallInv'
  BY <1>1 DEF CallInv, EnqueueDetach, EnqueueAttach, Enqueue, Goto, Return
<1>4. ThreadInv'
  BY <1>1, <1>2 DEF ThreadInv, ThreadRuns, Commands
<1>5. QueueInv'
  <2>1. CASE queue' = queue
    BY <2>1, <1>2, Places DEF QueueInv, Commands
  <2>2. CASE EnqueueDetach(o) /\ queue' = Append(queue, [name |-> "mcpdetach", op |-> o])
    <3> DEFINE c == [name |-> "mcpdetach", op |-> o]
    <3>1. c \in Commands /\ c.name = "mcpdetach" /\ c.op = o /\ o \notin Polite
      BY <2>2 DEF Commands, CallInv, EnqueueDetach, Enqueue, Goto, Return
    <3> HIDE DEF c
    <3>2. /\ Len(queue') = Len(queue) + 1 /\ queue'[Len(queue) + 1] = c
          /\ \A i \in 1..Len(queue) : queue'[i] = queue[i]
          /\ DOMAIN queue' = 1..(Len(queue) + 1)
      BY <2>2, <3>1, AppendProperties, LenProperties DEF c
    <3> QED
      BY <3>1, <3>2, <1>2, Places DEF QueueInv, Commands
  <2>3. CASE EnqueueAttach(o) /\ queue' = Append(queue, [name |-> "mcpattach", op |-> o])
    <3> DEFINE c == [name |-> "mcpattach", op |-> o]
    <3>1. c \in Commands /\ c.name = "mcpattach" /\ c.op = o
      BY DEF Commands
    <3>2. Awaited(o)' \/ queue' = queue
      BY <2>3, <1>1, <1>2 DEF Awaited, CallInv, EnqueueAttach, Enqueue, Goto, Return
    <3> HIDE DEF c
    <3>3. /\ Len(queue') = Len(queue) + 1 /\ queue'[Len(queue) + 1] = c
          /\ \A i \in 1..Len(queue) : queue'[i] = queue[i]
          /\ DOMAIN queue' = 1..(Len(queue) + 1)
      BY <2>3, <3>1, AppendProperties, LenProperties DEF c
    <3> QED
      BY <3>1, <3>2, <3>3, <1>2, <2>1, Places DEF QueueInv, Commands
  <2> QED
    BY <2>1, <2>2, <2>3 DEF EnqueueDetach, EnqueueAttach, Enqueue
<1> QED
  BY <1>3, <1>4, <1>5

\* The oldest command is taken: an attach is the only one left.
LEMMA TakeStep ==
  ASSUME AttachesAlone, AttachInv, Take
  PROVE  QueueInv' /\ ThreadInv' /\ CallInv'
<1> USE DEF AttachInv, IInv, TypeOK, CacheInv
<1>1. /\ Len(queue') = Len(queue) - 1 /\ Len(queue) \in Nat \ {0}
      /\ command' = queue[1] /\ queue' \in Seq(Commands)
      /\ \A i \in 1..Len(queue') : queue'[i] = queue[i + 1]
      /\ DOMAIN queue' = 1..(Len(queue) - 1) /\ 1 \in DOMAIN queue
  BY HeadTailProperties, EmptySeq, LenProperties, Places DEF Take
<1>2. UNCHANGED <<caller, session>> /\ \A u : Awaited(u)' <=> Awaited(u)
  BY DEF Take, caller, Awaited
<1>3. CallInv'
  BY <1>2 DEF CallInv, caller
<1>4. QueueInv'
  <2> SUFFICES ASSUME NEW i \in DOMAIN queue'
               PROVE  /\ queue'[i].name # "init"
                      /\ queue'[i].name = "mcpattach" => i = Len(queue') /\ Awaited(queue[i].op)'
                      /\ queue'[i].name = "mcpdetach" => queue'[i].op \notin Polite
    BY DEF QueueInv
  <2>1. queue'[i] = queue[i + 1] /\ i + 1 \in DOMAIN queue /\ i \in Nat
    BY <1>1, Places
  <2> QED
    BY <2>1, <1>1, <1>2 DEF QueueInv
<1>5. ThreadInv'
  <2>1. command'.name # "init" /\ thread' = "look"
    BY <1>1 DEF QueueInv, Take
  <2>2. command'.name = "mcpattach" => queue' = <<>> /\ Awaited(command.op)'
    BY <1>1, <1>2, EmptySeq DEF QueueInv
  <2>3. command'.name = "mcpdetach" => command'.op \notin Polite
    BY <1>1 DEF QueueInv
  <2> QED
    BY <2>1, <2>2, <2>3 DEF ThreadInv
<1> QED
  BY <1>3, <1>4, <1>5

\* The command thread, and what happens to processes.
LEMMA RunStep ==
  ASSUME AttachesAlone, AttachInv,
         Look \/ Detach \/ StopRest \/ Connect \/ Debuggees
  PROVE  QueueInv' /\ ThreadInv' /\ CallInv'
<1> USE NoneAssumption DEF AttachInv, IInv, TypeOK, CacheInv
<1>1. UNCHANGED <<caller, queue>>
  BY DEF Look, Detach, StopRest, Connect, Debuggees, CreateProcess, DebuggeeExits, ProcessExits, caller
<1>2. CASE session' # session /\ session' # None
  <2>1. Connect /\ session' = Target[command.op] /\ thread' = "idle"
    BY <1>2 DEF Look, Detach, StopRest, Connect, Debuggees, CreateProcess, DebuggeeExits,
       ProcessExits, StartSession, EndSession, Kill, Finish
  <2>2. command \in Commands /\ command.name = "mcpattach"
    BY <2>1 DEF Connect, ThreadRuns, ThreadInv, Commands
  <2>3. queue = <<>> /\ Awaited(command.op) /\ command.op \in Ops
    BY <2>1, <2>2 DEF Connect, ThreadInv, Commands
  <2>4. QueueInv' /\ ThreadInv'
    BY <1>1, <2>1, <2>3, EmptySeq DEF QueueInv, ThreadInv
  <2>5. CallInv'
    BY <1>1, <2>1, <2>3 DEF CallInv, Awaited, InsideHolds, Inside, PCs, caller
  <2> QED
    BY <2>4, <2>5
<1>3. CASE session' = session \/ session' = None
  <2>1. \A u : Awaited(u) => Awaited(u)'
    BY <1>1, <1>3 DEF Awaited, caller
  <2>2. QueueInv'
    BY <1>1, <2>1 DEF QueueInv
  <2>3. CallInv'
    BY <1>1, <1>3 DEF CallInv, caller
  <2>4. ThreadInv'
    <3>1. CASE Debuggees
      BY <3>1, <1>1, <2>1 DEF ThreadInv, Debuggees, CreateProcess, DebuggeeExits, ProcessExits, Kill,
         EndSession
    <3>2. CASE Look
      BY <3>2, <1>1, <2>1 DEF ThreadInv, ThreadRuns, Commands, Look, Perform, Finish, IsDebugging, Awaited
    <3>3. CASE Detach \/ StopRest \/ Connect
      BY <3>3, <1>1, <2>1 DEF ThreadInv, ThreadRuns, Commands, Detach, StopRest, Connect, Perform,
         Finish
    <3> QED
      BY <3>1, <3>2, <3>3
  <2> QED
    BY <2>2, <2>3, <2>4
<1> QED
  BY <1>2, <1>3

LEMMA AttachStep ==
  ASSUME AttachesAlone, AttachInv, [Next]_vars
  PROVE  QueueInv' /\ ThreadInv' /\ CallInv'
<1>1. ASSUME NEW o \in Ops PROVE ~Launching(o)
  BY DEF AttachesAlone, AttachInv, CallInv, Launching, ResolvePath, ChoosePath, EnqueueInit, Enqueue,
     CachePath, Goto, Return
<1>2. ~(InitEndsSession \/ InitLaunches \/ InitFails)
  BY DEF AttachInv, ThreadInv, InitEndsSession, InitLaunches, InitFails
<1>3. CASE UNCHANGED vars
  BY <1>3 DEF vars, caller, debugger, AttachInv, QueueInv, ThreadInv, CallInv, Awaited
<1> QED
  BY <1>1, <1>2, <1>3, LooksStep, EnqueueStep, TakeStep, RunStep
  DEF Next, Attaching, CommandThread

LEMMA AttachInvariant == AttachesAlone => (Spec => []AttachInv)
<1> SUFFICES ASSUME AttachesAlone PROVE Spec => []AttachInv
  OBVIOUS
<1>1. Init => QueueInv /\ ThreadInv /\ CallInv
  BY EmptySeq, LenProperties DEF Init, QueueInv, ThreadInv, CallInv
<1>2. IInv /\ (QueueInv /\ ThreadInv /\ CallInv) /\ [Next]_vars
        => (QueueInv /\ ThreadInv /\ CallInv)'
  BY AttachStep DEF AttachInv
<1> QED
  BY <1>1, <1>2, InvariantHolds, PTL DEF Spec, AttachInv

\* Every attach that succeeds found the process that it was asked for.
THEOREM AttachesReachTheirTargets == AttachesAlone => (Spec => []AttachReachesTarget)
<1> SUFFICES ASSUME AttachesAlone PROVE Spec => []AttachReachesTarget
  OBVIOUS
<1>1. AttachInv => AttachReachesTarget
  BY DEF AttachInv, CallInv, AttachReachesTarget
<1> QED
  BY <1>1, AttachInvariant, PTL

\* No attach with detach_first = false ends a session that is there.
THEOREM PoliteAttachesAreKind == AttachesAlone => (Spec => []PoliteNeverDetaches)
<1> SUFFICES ASSUME AttachesAlone PROVE Spec => []PoliteNeverDetaches
  OBVIOUS
<1>1. AttachInv => PoliteNeverDetaches
  BY DEF AttachInv, ThreadInv, PoliteNeverDetaches, IInv, CacheInv, ThreadRuns, Commands
<1> QED
  BY <1>1, AttachInvariant, PTL
=============================================================================
