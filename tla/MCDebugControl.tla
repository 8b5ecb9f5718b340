-------------------------- MODULE MCDebugControl --------------------------
(* Calls made at the same time: two steps with the others that resume the  *)
(* debuggee, two steps with the calls that do not or that wait for it, and *)
(* the mixtures that single questions need.                                *)
EXTENDS DebugControl, TLC

CONSTANTS step1, step2, runTo, run, pause, stop

MCResuming == {step1, step2, runTo, run}
MCWaiting == {step1, step2, runTo, pause, stop}
MCRunStep == {run, step1}
MCMixed == {step1, runTo, pause}

KindOf(o) == CASE o \in {step1, step2} -> "step"
               [] o = runTo -> "runTo"
               [] o = run   -> "run"
               [] o = pause -> "pause"
               [] o = stop  -> "stop"
MCKind == [o \in Ops |-> KindOf(o)]

MCSymmetry == Permutations({step1, step2})

\* The stop that the calls find at first has been reported already, so that
\* a callback that is late belongs to the stop of one of the calls.
ReportedSpec == debugThread = "waiting" /\ Spec
=============================================================================
