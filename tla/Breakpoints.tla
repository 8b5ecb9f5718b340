---------------------------- MODULE Breakpoints ----------------------------
(* One breakpoint request of a client, executed by BreakpointHandler and   *)
(* BreakpointManager against x64dbg's breakpoint list, while the rest of   *)
(* the world (the user, the debuggee, the other clients) changes that list *)
(* between any two SDK calls.  Nothing serializes these requests.          *)
EXTENDS Naturals, Sequences, FiniteSets

CONSTANTS Addrs,        \* addresses requests name
          HwConds,      \* hardware conditions, "execute" among them
          HwSizes,      \* watch sizes the architecture supports
          MemSizes,     \* memory breakpoint sizes
          MaxAddress,   \* largest target address
          MaxHits,      \* bound on the hit counter
          None

ASSUME AddressAssumption == Addrs \subseteq Nat /\ Addrs # {}
ASSUME BoundAssumption == MaxAddress \in Nat /\ MaxHits \in Nat
ASSUME SizeAssumption == HwSizes \subseteq Nat \ {0} /\ MemSizes \subseteq Nat

VARIABLES bpTable,      \* x64dbg's list: type and address to entry or None
          bpDebugging,  \* DebugController::IsDebugging()
          bpAllowed,    \* the permissions in force
          bpCall,       \* the request being executed
          bpBefore,     \* the list when it began, None once disturbed
          bpRemoved     \* how many entries its own steps have removed

breakpointVars == <<bpTable, bpDebugging, bpAllowed, bpCall, bpBefore, bpRemoved>>

Priority == <<"software", "hardware", "memory">>
BreakpointTypes == {"software", "hardware", "memory"}
Keys == Addrs \X BreakpointTypes
HwConfigs == [cond : HwConds, size : HwSizes]
MemConfigs == [size : MemSizes]
ConfigsOf(t) == CASE t = "software" -> {None}
                  [] t = "hardware" -> HwConfigs
                  [] t = "memory"   -> MemConfigs
Configs == {None} \cup HwConfigs \cup MemConfigs
Texts == {"name", "condition", "log"}
Entry == [enabled : BOOLEAN, config : Configs, hits : 0..MaxHits, texts : SUBSET Texts]
ASSUME NoneAssumption == None \notin Entry \cup BreakpointTypes
NewEntry(config) == [enabled |-> TRUE, config |-> config, hits |-> 0, texts |-> {}]

Operations == {"set", "delete", "delete_all", "enable", "disable", "toggle",
               "set_condition", "set_log", "reset_hitcount", "get", "list"}
Steps == {"idle", "command", "verify", "undo", "choose", "write", "snapshot",
          "remove", "list", "check", "find", "switch", "confirm", "ok", "failed"}
BreakpointCalls == [step : Steps, op : Operations, addr : Addrs,
                    type : BreakpointTypes \cup {None}, config : Configs,
                    fields : Seq(Texts \cup {"hits"}), asked : SUBSET Texts,
                    got : BreakpointTypes \cup {None}, enable : BOOLEAN,
                    todo : SUBSET Keys, good : BOOLEAN, count : Nat]

\* What x64dbg's list holds for an address, and the type that goes first.
TypesAt(a) == {t \in BreakpointTypes : bpTable[<<a, t>>] # None}
PreferredOf(types) ==
    IF types = {} THEN None
    ELSE LET i == CHOOSE i \in 1..3 : /\ Priority[i] \in types
                                      /\ \A j \in 1..(i - 1) : Priority[j] \notin types
         IN Priority[i]
GetBreakpoint(a, t) == PreferredOf(IF t = None THEN TypesAt(a) ELSE TypesAt(a) \cap {t})
ListBreakpoints(t) == {k \in Keys : bpTable[k] # None /\ (t = None \/ k[2] = t)}

IsHardwareBreakpointRequestValid(a, config) ==
    /\ a <= MaxAddress
    /\ config.cond = "execute" => config.size = 1
    /\ a % config.size = 0
IsMemoryBreakpointRequestValid(a, size) ==
    size > 0 /\ size - 1 <= MaxAddress /\ a <= MaxAddress - (size - 1)

RequestValid(a, t, config) ==
    CASE t = "software" -> TRUE
      [] t = "hardware" -> IsHardwareBreakpointRequestValid(a, config)
      [] t = "memory"   -> IsMemoryBreakpointRequestValid(a, config.size)

\* What x64dbg may hold under a key: any configuration the processor takes.
PossibleConfigs(k) == {config \in ConfigsOf(k[2]) : RequestValid(k[1], k[2], config)}

BreakpointInit ==
    /\ bpTable \in [Keys -> {None}]
    /\ bpDebugging = TRUE
    /\ bpAllowed \in [modify : BOOLEAN, script : BOOLEAN]
    /\ bpCall = [step |-> "idle", op |-> "set", addr |-> CHOOSE a \in Addrs : TRUE,
                 type |-> None, config |-> None, fields |-> <<>>, asked |-> {},
                 got |-> None, enable |-> TRUE, todo |-> {}, good |-> TRUE, count |-> 0]
    /\ bpBefore = None
    /\ bpRemoved = 0

-----------------------------------------------------------------------------
(* The rest of the world.                                                  *)

Disturb == bpBefore' = None /\ UNCHANGED <<bpAllowed, bpCall, bpRemoved>>

\* Somebody else sets, removes, enables or disables a breakpoint.
OtherChange(k) ==
    /\ bpDebugging
    /\ \/ \E config \in PossibleConfigs(k) :
             bpTable[k] = None /\ bpTable' = [bpTable EXCEPT ![k] = NewEntry(config)]
       \/ bpTable[k] # None /\ bpTable' = [bpTable EXCEPT ![k] = None]
       \/ /\ bpTable[k] # None
          /\ bpTable' = [bpTable EXCEPT ![k].enabled = ~@]
    /\ Disturb
    /\ UNCHANGED bpDebugging

\* The debuggee runs into a breakpoint.
Hit(k) ==
    /\ bpDebugging
    /\ bpTable[k] # None /\ bpTable[k].enabled /\ bpTable[k].hits < MaxHits
    /\ bpTable' = [bpTable EXCEPT ![k].hits = @ + 1]
    /\ Disturb
    /\ UNCHANGED bpDebugging

\* The debuggee goes away; x64dbg's list stays.
DebuggeeGone ==
    /\ bpDebugging /\ bpDebugging' = FALSE
    /\ Disturb
    /\ UNCHANGED bpTable

-----------------------------------------------------------------------------
(* The handlers: permissions and parameters, then the manager's first step. *)

Quiet == UNCHANGED <<bpDebugging, bpAllowed, bpBefore>>
Unchanged == UNCHANGED <<bpTable, bpRemoved>>
At(step) == bpCall.step = step
Goto(step) == bpCall' = [bpCall EXCEPT !.step = step]
MyKey == <<bpCall.addr, bpCall.type>>
GotKey == <<bpCall.addr, bpCall.got>>

\* Every request starts here; one that may not run fails without a step.
Enter(call) ==
    /\ bpCall' = call
    /\ bpBefore' = bpTable
    /\ UNCHANGED <<bpTable, bpDebugging, bpAllowed, bpRemoved>>
StepIf(may, step) == IF may /\ bpDebugging THEN step ELSE "failed"

\* The fields that a set writes, in their order.
FieldsOf(asked) ==
    (IF "name" \in asked THEN <<"name">> ELSE <<>>)
      \o (IF "condition" \in asked THEN <<"condition">> ELSE <<>>)

\* Mutant: the permission for scripts is not asked for.
BreakpointSetUnchecked(a, t, config, asked) ==
    /\ config \in ConfigsOf(t)
    /\ Enter([bpCall EXCEPT
          !.step = StepIf(bpAllowed.modify /\ RequestValid(a, t, config), "command"),
          !.op = "set", !.addr = a, !.type = t, !.config = config, !.asked = asked,
          !.fields = FieldsOf(asked)])

\* A condition runs x64dbg expressions, so a set with one needs both
\* permissions, and needs them before anything is created.
BreakpointSet(a, t, config, asked) ==
    /\ config \in ConfigsOf(t)
    /\ Enter([bpCall EXCEPT
          !.step = StepIf(/\ bpAllowed.modify
                          /\ "condition" \in asked => bpAllowed.script
                          /\ RequestValid(a, t, config), "command"),
          !.op = "set", !.addr = a, !.type = t, !.config = config, !.asked = asked,
          !.fields = FieldsOf(asked)])

BreakpointDelete(a, t) ==
    Enter([bpCall EXCEPT !.op = "delete", !.addr = a, !.type = t,
                         !.step = StepIf(bpAllowed.modify, "snapshot")])
BreakpointDeleteAll(t) ==
    Enter([bpCall EXCEPT !.op = "delete_all", !.type = t,
                         !.step = StepIf(bpAllowed.modify, "list")])
BreakpointSwitch(op, a, t) ==
    Enter([bpCall EXCEPT !.op = op, !.addr = a, !.type = t,
                         !.step = StepIf(bpAllowed.modify, "find")])

\* One field of the entry at an address: a condition, a log text, the hits.
BreakpointText(op, a) ==
    Enter([bpCall EXCEPT !.op = op, !.addr = a,
              !.fields = IF op = "set_log" THEN <<"log">> ELSE <<"condition">>,
              !.step = StepIf(bpAllowed.modify /\ bpAllowed.script, "choose")])
BreakpointResetHitCount(a) ==
    Enter([bpCall EXCEPT !.op = "reset_hitcount", !.addr = a, !.fields = <<"hits">>,
                         !.step = StepIf(bpAllowed.modify, "choose")])

\* Reading needs no permission.
BreakpointGet(a, t) ==
    Enter([bpCall EXCEPT !.op = "get", !.addr = a, !.type = t,
              !.got = IF bpDebugging THEN GetBreakpoint(a, t) ELSE None,
              !.step = StepIf(GetBreakpoint(a, t) # None, "ok")])
BreakpointList(t) ==
    Enter([bpCall EXCEPT !.op = "list", !.type = t,
              !.todo = IF bpDebugging THEN ListBreakpoints(t) ELSE {},
              !.step = StepIf(TRUE, "ok")])

(* Any SDK call that changes something may be refused by x64dbg.            *)
Refused(step) ==
    /\ bpBefore' = None
    /\ Goto(step)
    /\ UNCHANGED <<bpTable, bpDebugging, bpAllowed, bpRemoved>>

-----------------------------------------------------------------------------
(* Set: the command, the read-back of hardware and memory breakpoints, and  *)
(* the deletion of what does not match; then the name and the condition.    *)

AfterSet == IF bpCall.fields = <<>> THEN "ok" ELSE "choose"

\* x64dbg leaves an existing breakpoint as configured, and may place one
\* that is not what was asked for.
SetCommand ==
    /\ At("command")
    /\ \/ /\ bpTable[MyKey] = None
          /\ \E config \in PossibleConfigs(MyKey) :
                bpTable' = [bpTable EXCEPT ![MyKey] = NewEntry(config)]
       \/ /\ bpTable[MyKey] # None
          /\ \E on \in {TRUE, bpTable[MyKey].enabled} :
                bpTable' = [bpTable EXCEPT ![MyKey].enabled = on]
    /\ Goto(IF bpCall.type = "software" THEN AfterSet ELSE "verify")
    /\ Quiet /\ UNCHANGED bpRemoved

SetCommandRefused == At("command") /\ Refused("failed")

MatchesRequest ==
    bpTable[MyKey] # None /\ bpTable[MyKey].config = bpCall.config

\* Mutant: the read-back is skipped.
SetVerifyBlindly ==
    At("verify") /\ Goto(AfterSet) /\ Quiet /\ Unchanged

SetVerify ==
    /\ At("verify")
    /\ Goto(IF MatchesRequest THEN AfterSet ELSE "undo")
    /\ Quiet /\ Unchanged

\* The outcome of this deletion is not looked at.
SetUndo ==
    /\ At("undo")
    /\ \/ bpTable' = [bpTable EXCEPT ![MyKey] = None] /\ Quiet
       \/ UNCHANGED <<bpTable, bpDebugging, bpAllowed>> /\ bpBefore' = None
    /\ bpRemoved' = bpRemoved + IF bpTable'[MyKey] # bpTable[MyKey] THEN 1 ELSE 0
    /\ Goto("failed")

-----------------------------------------------------------------------------
(* RenameBreakpoint, SetCondition, SetLogBreakpoint, ResetHitCount: the     *)
(* type is looked up by address, then the field of that entry is written.   *)
(* A set goes on when the name cannot be written, unless by an exception.   *)

Field == Head(bpCall.fields)
FieldDone == IF Tail(bpCall.fields) = <<>> THEN "ok" ELSE "choose"
FieldFailed == IF bpCall.op = "set" /\ Field = "name" THEN FieldDone ELSE "failed"
NextField(step) ==
    bpCall' = [bpCall EXCEPT !.step = step, !.fields = Tail(@)]

ChooseEntry ==
    /\ At("choose")
    /\ IF ~bpDebugging THEN Goto("failed")
       ELSE IF TypesAt(bpCall.addr) = {} THEN NextField(FieldFailed)
       ELSE bpCall' = [bpCall EXCEPT !.got = PreferredOf(TypesAt(bpCall.addr)),
                                     !.step = "write"]
    /\ Quiet /\ Unchanged

WriteField ==
    /\ At("write")
    /\ IF bpTable[GotKey] = None
       THEN NextField(FieldFailed) /\ UNCHANGED bpTable
       ELSE /\ NextField(FieldDone)
            /\ bpTable' = IF Field = "hits" THEN [bpTable EXCEPT ![GotKey].hits = 0]
                          ELSE [bpTable EXCEPT ![GotKey].texts = @ \cup {Field}]
    /\ Quiet /\ UNCHANGED bpRemoved

WriteRefused ==
    /\ At("write")
    /\ bpBefore' = None
    /\ NextField(FieldFailed)
    /\ UNCHANGED <<bpTable, bpDebugging, bpAllowed, bpRemoved>>

-----------------------------------------------------------------------------
(* Delete and delete_all.  A delete without a type takes every type the     *)
(* snapshot shows; delete_all looks each listed entry up again, and counts  *)
(* the deletions that succeed.                                              *)

Deletes == {k \in Keys : k[1] = bpCall.addr /\ k[2] \in TypesAt(bpCall.addr)}

DeleteSnapshot ==
    /\ At("snapshot")
    /\ LET keys == IF bpCall.type = None THEN Deletes
                   ELSE {k \in Deletes : k[2] = bpCall.type} IN
       bpCall' = [bpCall EXCEPT !.todo = keys,
                                !.step = IF keys = {} THEN "failed" ELSE "remove"]
    /\ Quiet /\ Unchanged

\* Mutants: skipped entries are counted; the list is read again.
AfterRemoveCountAll(k, removed) ==
    LET rest == bpCall.todo \ {k} IN
    bpCall' = [bpCall EXCEPT !.todo = rest, !.count = @ + 1,
                  !.step = IF rest = {} THEN "ok"
                           ELSE IF bpCall.op = "delete" THEN "remove" ELSE "check"]
AfterRemoveListAgain(k, removed) ==
    LET rest == ListBreakpoints(bpCall.type) \ {k} IN
    bpCall' = [bpCall EXCEPT
        !.todo = IF bpCall.op = "delete_all" THEN rest ELSE bpCall.todo \ {k},
        !.count = IF bpCall.op = "delete_all" /\ removed THEN @ + 1 ELSE @,
        !.step = IF bpCall.op = "delete_all" THEN (IF rest = {} THEN "ok" ELSE "check")
                 ELSE IF bpCall.todo # {k} THEN "remove"
                 ELSE IF removed THEN "ok" ELSE "failed"]

\* The step after entry k has been dealt with.
AfterRemove(k, removed) ==
    LET rest == bpCall.todo \ {k}
        good == bpCall.good /\ removed IN
    bpCall' = [bpCall EXCEPT
        !.todo = rest,
        !.good = good,
        !.count = IF bpCall.op = "delete_all" /\ removed THEN @ + 1 ELSE @,
        !.step = IF bpCall.op = "delete_all" THEN (IF rest = {} THEN "ok" ELSE "check")
                 ELSE IF rest # {} THEN "remove"
                 ELSE IF good THEN "ok" ELSE "failed"]

\* The snapshot's order for delete_all is x64dbg's; delete goes by type.
NextEntry(k) ==
    /\ k \in bpCall.todo
    /\ IF bpCall.op = "delete" THEN k[2] = PreferredOf({j[2] : j \in bpCall.todo})
       ELSE k = GotKey

RemoveEntry(k) ==
    /\ At("remove") /\ NextEntry(k)
    /\ AfterRemove(k, bpTable[k] # None)
    /\ bpRemoved' = bpRemoved + IF bpTable[k] # None THEN 1 ELSE 0
    /\ bpTable' = [bpTable EXCEPT ![k] = None]
    /\ Quiet

RemoveRefused(k) ==
    /\ At("remove") /\ NextEntry(k)
    /\ AfterRemove(k, FALSE)
    /\ bpBefore' = None
    /\ UNCHANGED <<bpTable, bpDebugging, bpAllowed, bpRemoved>>

DeleteAllList ==
    /\ At("list")
    /\ LET keys == ListBreakpoints(bpCall.type) IN
       IF bpDebugging
       THEN bpCall' = [bpCall EXCEPT !.todo = keys,
                                     !.step = IF keys = {} THEN "ok" ELSE "check"]
       ELSE Goto("failed")
    /\ Quiet /\ Unchanged

\* An entry that is gone, or a session that is, is skipped.
DeleteAllCheck(k) ==
    /\ At("check") /\ k \in bpCall.todo
    /\ IF bpDebugging /\ k[2] \in TypesAt(k[1])
       THEN bpCall' = [bpCall EXCEPT !.addr = k[1], !.got = k[2], !.step = "remove"]
       ELSE AfterRemove(k, FALSE)
    /\ Quiet /\ Unchanged

-----------------------------------------------------------------------------
(* Enable, disable, toggle: find the entry, issue the command of its type,  *)
(* and read the entry back.  A toggle sets a software breakpoint when there *)
(* is none.                                                                 *)

FindEntry ==
    /\ At("find")
    /\ LET t == GetBreakpoint(bpCall.addr, bpCall.type) IN
       IF ~bpDebugging THEN Goto("failed")
       ELSE IF t # None
       THEN bpCall' = [bpCall EXCEPT
               !.got = t, !.step = "switch",
               !.enable = IF bpCall.op = "toggle" THEN ~bpTable[<<bpCall.addr, t>>].enabled
                          ELSE bpCall.op = "enable"]
       ELSE IF bpCall.op = "toggle" /\ bpCall.type \in {None, "software"}
       THEN bpCall' = [bpCall EXCEPT !.type = "software", !.step = "command"]
       ELSE Goto("failed")
    /\ Quiet /\ Unchanged

SwitchEntry ==
    /\ At("switch")
    /\ IF bpTable[GotKey] = None THEN Goto("failed") /\ UNCHANGED bpTable
       ELSE /\ Goto("confirm")
            /\ bpTable' = [bpTable EXCEPT ![GotKey].enabled = bpCall.enable]
    /\ Quiet /\ UNCHANGED bpRemoved

SwitchRefused == At("switch") /\ Refused("failed")

ConfirmEntry ==
    /\ At("confirm")
    /\ Goto(IF /\ bpDebugging
               /\ bpTable[GotKey] # None
               /\ bpTable[GotKey].enabled = bpCall.enable
            THEN "ok" ELSE "failed")
    /\ Quiet /\ Unchanged

-----------------------------------------------------------------------------
CallStep ==
    \/ SetCommand \/ SetCommandRefused \/ SetVerify \/ SetUndo
    \/ ChooseEntry \/ WriteField \/ WriteRefused
    \/ DeleteSnapshot \/ DeleteAllList
    \/ \E k \in Keys : RemoveEntry(k) \/ RemoveRefused(k) \/ DeleteAllCheck(k)
    \/ FindEntry \/ SwitchEntry \/ SwitchRefused \/ ConfirmEntry

\* The model ends with the request's answer.
WorldStep ==
    /\ bpCall.step \notin {"ok", "failed"}
    /\ DebuggeeGone \/ \E k \in Keys : OtherChange(k) \/ Hit(k)

BeginStep ==
    /\ At("idle")
    /\ \E t \in BreakpointTypes \cup {None} :
          \/ BreakpointDeleteAll(t) \/ BreakpointList(t)
          \/ \E a \in Addrs :
                \/ BreakpointDelete(a, t) \/ BreakpointGet(a, t)
                \/ \E op \in {"enable", "disable", "toggle"} : BreakpointSwitch(op, a, t)
                \/ \E op \in {"set_condition", "set_log"} : BreakpointText(op, a)
                \/ BreakpointResetHitCount(a)
                \/ /\ t # None
                   /\ \E config \in Configs, asked \in SUBSET {"name", "condition"} :
                         BreakpointSet(a, t, config, asked)

BreakpointNext == BeginStep \/ CallStep \/ WorldStep

BreakpointSpec == BreakpointInit /\ [][BreakpointNext]_breakpointVars
BreakpointFairSpec == BreakpointSpec /\ WF_breakpointVars(CallStep)

-----------------------------------------------------------------------------
(* Properties.                                                              *)

BreakpointTypeOK ==
    /\ bpTable \in [Keys -> Entry \cup {None}]
    /\ bpDebugging \in BOOLEAN
    /\ bpAllowed \in [modify : BOOLEAN, script : BOOLEAN]
    /\ bpCall \in BreakpointCalls
    /\ bpBefore \in [Keys -> Entry \cup {None}] \cup {None}
    /\ bpRemoved \in Nat

Bare(entry) == IF entry = None THEN None ELSE <<entry.enabled, entry.config>>
SameBut(changed) == \A k \in Keys \ changed : bpTable[k] = bpBefore[k]
BeforeAt(a) == {t \in BreakpointTypes : bpBefore[<<a, t>>] # None}
FirstBefore == <<bpCall.addr, PreferredOf(BeforeAt(bpCall.addr))>>

\* What a request that nothing disturbed must have done to the list.
Contract ==
    CASE bpCall.op = "set" ->
           /\ bpTable[MyKey] # None /\ bpTable[MyKey].config = bpCall.config
           /\ \A k \in Keys \ {MyKey} : Bare(bpTable[k]) = Bare(bpBefore[k])
      [] bpCall.op = "delete" ->
           LET gone == {k \in Keys : /\ k[1] = bpCall.addr
                                     /\ bpCall.type \in {None, k[2]}} IN
           SameBut(gone) /\ \A k \in gone : bpTable[k] = None
      [] bpCall.op = "delete_all" ->
           LET gone == {k \in Keys : bpCall.type \in {None, k[2]}} IN
           /\ SameBut(gone) /\ \A k \in gone : bpTable[k] = None
           /\ bpCall.count = Cardinality({k \in gone : bpBefore[k] # None})
      [] bpCall.op \in {"enable", "disable"} ->
           /\ bpTable[GotKey] = [bpBefore[GotKey] EXCEPT !.enabled = bpCall.op = "enable"]
           /\ bpCall.type = None => GotKey = FirstBefore
           /\ SameBut({GotKey})
      [] bpCall.op = "toggle" ->
           LET key == IF BeforeAt(bpCall.addr) = {} THEN <<bpCall.addr, "software">>
                      ELSE IF bpCall.got # None THEN GotKey ELSE MyKey IN
           /\ bpTable[key] = IF bpBefore[key] = None THEN NewEntry(None)
                             ELSE [bpBefore[key] EXCEPT !.enabled = ~@]
           /\ SameBut({key})
      [] bpCall.op \in {"set_condition", "set_log"} ->
           /\ bpTable[FirstBefore] =
                [bpBefore[FirstBefore] EXCEPT
                    !.texts = @ \cup {IF bpCall.op = "set_log" THEN "log" ELSE "condition"}]
           /\ SameBut({FirstBefore})
      [] bpCall.op = "reset_hitcount" ->
           /\ bpTable[FirstBefore] = [bpBefore[FirstBefore] EXCEPT !.hits = 0]
           /\ SameBut({FirstBefore})
      [] OTHER -> bpTable = bpBefore

\* A request that reports success, while nobody else touched the list and
\* x64dbg refused nothing, has done to it exactly what it was asked: the
\* commands, read-backs and lookups of the manager add up to its contract.
QuietSuccessMeetsContract ==
    At("ok") /\ bpBefore # None => Contract

\* A request that reports failure in the same conditions has added nothing:
\* every entry left was there before, as it is now.  In particular a
\* hardware or memory breakpoint that x64dbg placed differently is gone.
QuietFailureAddsNothing ==
    At("failed") /\ bpBefore # None =>
        \A k \in Keys : bpTable[k] # None => Bare(bpTable[k]) = Bare(bpBefore[k])

\* Both: where nobody else changes the list, a request does what it answers.
QuietRequestsMeetContract == QuietSuccessMeetsContract /\ QuietFailureAddsNothing

\* Deletions are counted once and by whom they succeeded for: delete_all
\* reports what its own steps removed, whatever others removed, set again or
\* added since it took its snapshot.
CountIsOwnRemovals ==
    bpCall.op = "delete_all" => bpCall.count = bpRemoved

\* Conditions and log texts are expressions x64dbg runs: no request brings
\* one in without the permission for scripts, through breakpoint.set either,
\* and none changes the list without the permission for breakpoints.
TextsNeedPermission ==
    /\ ~bpAllowed.script =>
          \A k \in Keys : bpTable[k] # None => bpTable[k].texts \subseteq {"name"}
    /\ ~bpAllowed.modify /\ bpBefore # None => bpTable = bpBefore

\* delete_all works on a snapshot: it returns even if breakpoints are added
\* as fast as it deletes them.
BreakpointCallsReturn == (bpCall.step # "idle") ~> (bpCall.step \in {"ok", "failed"})

\* BreakpointHandler reports "Breakpoint created but condition could not be
\* applied" when it could not: a success means that the breakpoint that was
\* set carries the condition.
ConditionOnOwnBreakpoint ==
    /\ At("ok") /\ bpBefore # None
    /\ bpCall.op = "set" /\ "condition" \in bpCall.asked
    => "condition" \in bpTable[MyKey].texts

=============================================================================
