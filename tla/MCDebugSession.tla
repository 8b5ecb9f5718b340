-------------------------- MODULE MCDebugSession --------------------------
(* Two processes of different programs: attach calls alone, launches with  *)
(* two attaches to one process, and the pairs that single questions need.  *)
EXTENDS DebugSession, TLC

CONSTANTS attach1, attach2, again, polite, init, restart, p1, p2, A, B

MCPids == {p1, p2}
MCImage == (p1 :> A) @@ (p2 :> B)
MCPolite == {polite} \cap Ops

MCAttaches == {attach1, attach2, again, polite}
MCMixed == {init, restart, attach2, polite}
MCInitAttach == {init, attach2}
MCInitPolite == {init, polite}

KindOf(o) == CASE o \in {attach1, attach2, again, polite} -> "attach"
               [] o = init    -> "init"
               [] o = restart -> "restart"
TargetOf(o) == CASE o \in {attach1, again}   -> p1
                 [] o \in {attach2, polite}  -> p2
                 [] o = init                 -> A
                 [] o = restart              -> None
MCKind == [o \in Ops |-> KindOf(o)]
MCTarget == [o \in Ops |-> TargetOf(o)]
=============================================================================
