---------------------------- MODULE DebuggeeProofs ----------------------------
(***************************************************************************)
(* The breakpoints, the dumps and the memory of a debuggee.                *)
(*                                                                         *)
(* For every set of addresses, sizes and conditions, whatever others do to *)
(* x64dbg's list between two steps of a request: the types of Breakpoints, *)
(* that no expression comes in without the permission for scripts, that    *)
(* delete_all counts what it removed itself, and that a request which      *)
(* nobody disturbs does what it answers.                                   *)
(*                                                                         *)
(* For every image, alignment and length of what was read: a rebuilt dump   *)
(* keeps its sections inside its file, only rewrites headers it has, and    *)
(* carries the entry point its answer names; a detected entry point leaves   *)
(* the packer's stub, and a dump that succeeds is on disk.                   *)
(*                                                                         *)
(* For every memory map, chunk size, pattern, window and limit, whatever    *)
(* the debuggee does to its protections meanwhile: a search reports every   *)
(* match of what it could read, once and in order, and a read returns bytes *)
(* of the debuggee only.                                                   *)
(***************************************************************************)
EXTENDS Breakpoints, ModuleDump, DebuggeeMemory, FiniteSetTheorems, SequenceTheorems,
        WellFoundedInduction, TLAPS

Tables == [Keys -> Entry \cup {None}]

\* What a step relies on: an address and a type, or a field to write.
Prepared ==
    /\ bpCall.step \in {"command", "verify", "undo"} => bpCall.type # None
    /\ bpCall.step \in {"write", "switch", "confirm"} => bpCall.got # None
    /\ bpCall.step \in {"choose", "write"} => bpCall.fields # <<>>

\* The fields that a call may write are those it has the permission for.
Permitted ==
    /\ ~bpAllowed.script =>
          /\ bpCall.step \notin {"ok", "failed"} =>
                \A i \in DOMAIN bpCall.fields : bpCall.fields[i] \notin {"condition", "log"}
          /\ \A k \in Keys : bpTable[k] # None => bpTable[k].texts \subseteq {"name"}
    /\ ~bpAllowed.modify =>
          /\ bpCall.step \in {"idle", "ok", "failed"}
          /\ bpBefore # None => bpTable = bpBefore

Counted ==
    /\ bpCall.step = "idle" => bpCall.count = 0 /\ bpRemoved = 0
    /\ bpCall.op = "delete_all" =>
          /\ bpCall.step \in {"list", "check", "remove", "ok", "failed"}
          /\ bpCall.count = bpRemoved

BreakpointInv == BreakpointTypeOK /\ Prepared /\ Permitted /\ Counted

LEMMA EntriesApart == None \notin Entry /\ None \notin BreakpointTypes
  BY NoneAssumption

\* Of the types at an address one goes first.
LEMMA PreferredIsOne ==
  ASSUME NEW types \in SUBSET BreakpointTypes
  PROVE  /\ PreferredOf(types) \in types \cup {None}
         /\ types # {} => PreferredOf(types) \in types
<1> DEFINE First(i) == Priority[i] \in types /\ \A j \in 1..(i - 1) : Priority[j] \notin types
<1>1. /\ Priority[1] = "software" /\ Priority[2] = "hardware" /\ Priority[3] = "memory"
  BY DEF Priority
<1>2. types # {} => \E i \in 1..3 : First(i)
  <2>1. CASE "software" \in types
    BY <2>1, <1>1
  <2>2. CASE "software" \notin types /\ "hardware" \in types
    <3>1. First(2)
      BY <2>2, <1>1
    <3> QED
      BY <3>1
  <2>3. CASE "software" \notin types /\ "hardware" \notin types /\ "memory" \in types
    <3>1. First(3)
      BY <2>3, <1>1
    <3> QED
      BY <3>1
  <2> QED
    BY <2>1, <2>2, <2>3 DEF BreakpointTypes
<1> QED
  BY <1>2 DEF PreferredOf

LEMMA KeysArePairs ==
  /\ \A a \in Addrs, t \in BreakpointTypes : <<a, t>> \in Keys
  /\ \A k \in Keys : k[1] \in Addrs /\ k[2] \in BreakpointTypes
  BY DEF Keys

LEMMA NewEntryIsEntry ==
  ASSUME NEW config \in Configs
  PROVE  NewEntry(config) \in Entry /\ NewEntry(config).texts = {} /\ NewEntry(config) # None
<1>1. NewEntry(config) \in Entry /\ NewEntry(config).texts = {}
  BY BoundAssumption DEF NewEntry, Entry, Texts
<1> QED
  BY <1>1, EntriesApart

LEMMA PossibleIsConfig ==
  ASSUME NEW k \in Keys, NEW config \in PossibleConfigs(k)
  PROVE  config \in Configs
  BY KeysArePairs DEF PossibleConfigs, ConfigsOf, Configs, BreakpointTypes

\* A change of one entry keeps the table a table.
LEMMA EntryChange ==
  ASSUME bpTable \in Tables, NEW k \in Keys, NEW entry \in Entry \cup {None},
         bpTable' = [bpTable EXCEPT ![k] = entry]
  PROVE  /\ bpTable' \in Tables /\ bpTable'[k] = entry
         /\ \A j \in Keys \ {k} : bpTable'[j] = bpTable[j]
  BY DEF Tables

LEMMA InitialInv == BreakpointInit => BreakpointInv
<1> SUFFICES ASSUME BreakpointInit PROVE BreakpointInv
  OBVIOUS
<1>1. (CHOOSE a \in Addrs : TRUE) \in Addrs
  BY AddressAssumption
<1>2. bpTable \in Tables /\ \A k \in Keys : bpTable[k] = None
  BY DEF BreakpointInit, Tables
<1>3. <<>> \in Seq(Texts \cup {"hits"}) /\ DOMAIN <<>> = {}
  BY EmptySeq
<1>4. bpCall \in BreakpointCalls
  BY <1>1, <1>3 DEF BreakpointInit, BreakpointCalls, Steps, Operations, Configs
<1>5. /\ bpCall.step = "idle" /\ bpCall.op = "set" /\ bpCall.count = 0 /\ bpCall.fields = <<>>
      /\ bpBefore = None /\ bpRemoved = 0
  BY DEF BreakpointInit
<1>6. BreakpointTypeOK
  BY <1>2, <1>4, <1>5 DEF BreakpointInit, BreakpointTypeOK, Tables
<1> QED
  BY <1>2, <1>3, <1>5, <1>6 DEF BreakpointInv, Prepared, Permitted, Counted

-----------------------------------------------------------------------------
(* A request comes in.                                                     *)

\* What every beginning has in common: the table stays, and is remembered.
LEMMA EnterStep ==
  ASSUME BreakpointInv, At("idle"), NEW call \in BreakpointCalls, Enter(call),
         call.step \in {"choose"} => call.fields # <<>>,
         call.step \in {"command"} => call.type # None,
         call.step \notin {"idle", "verify", "undo", "write", "switch", "confirm"},
         call.count = bpCall.count,
         call.op = "delete_all" => call.step \in {"list", "failed"},
         ~bpAllowed.modify => call.step \in {"ok", "failed"},
         ~bpAllowed.script /\ call.step \notin {"ok", "failed"} =>
            \A i \in DOMAIN call.fields : call.fields[i] \notin {"condition", "log"}
  PROVE  BreakpointInv'
  BY DEF BreakpointInv, BreakpointTypeOK, Prepared, Permitted, Counted, Enter, At

\* A list of fields holds what was asked for.
LEMMA FieldsAsked ==
  ASSUME NEW asked \in SUBSET {"name", "condition"}
  PROVE  /\ FieldsOf(asked) \in Seq(Texts \cup {"hits"})
         /\ \A i \in DOMAIN FieldsOf(asked) : FieldsOf(asked)[i] \in asked
<1> DEFINE names == IF "name" \in asked THEN <<"name">> ELSE <<>>
           conditions == IF "condition" \in asked THEN <<"condition">> ELSE <<>>
<1>1. /\ names \in Seq(asked) /\ conditions \in Seq(asked)
      /\ names \in Seq(Texts \cup {"hits"}) /\ conditions \in Seq(Texts \cup {"hits"})
  BY DEF Texts
<1> HIDE DEF names, conditions
<1>2. names \o conditions \in Seq(asked) /\ names \o conditions \in Seq(Texts \cup {"hits"})
  BY <1>1, ConcatProperties
<1>3. FieldsOf(asked) \in Seq(asked)
  BY <1>2 DEF FieldsOf, names, conditions
<1>4. \A i \in DOMAIN FieldsOf(asked) : FieldsOf(asked)[i] \in asked
  BY <1>3
<1>5. FieldsOf(asked) \in Seq(Texts \cup {"hits"})
  BY <1>2 DEF FieldsOf, names, conditions
<1> QED
  BY <1>4, <1>5

LEMMA BeginInv == BreakpointInv /\ BeginStep => BreakpointInv'
<1> SUFFICES ASSUME BreakpointInv, BeginStep PROVE BreakpointInv'
  OBVIOUS
<1>0. /\ bpCall \in BreakpointCalls /\ At("idle") /\ bpCall.step = "idle"
      /\ bpTable \in Tables /\ bpAllowed \in [modify : BOOLEAN, script : BOOLEAN]
      /\ ~bpAllowed.script =>
            \A i \in DOMAIN bpCall.fields : bpCall.fields[i] \notin {"condition", "log"}
  BY DEF BreakpointInv, BreakpointTypeOK, BeginStep, At, Tables, Permitted
<1>1. ASSUME NEW t \in BreakpointTypes \cup {None}, BreakpointDeleteAll(t)
      PROVE  BreakpointInv'
  <2> DEFINE call == [bpCall EXCEPT !.op = "delete_all", !.type = t,
                                    !.step = StepIf(bpAllowed.modify, "list")]
  <2>1. /\ call \in BreakpointCalls /\ call.step \in {"list", "failed"}
        /\ call.step = "list" => bpAllowed.modify
        /\ call.count = bpCall.count /\ call.fields = bpCall.fields
    BY <1>0 DEF BreakpointCalls, Steps, Operations, StepIf
  <2>2. Enter(call)
    BY <1>1 DEF BreakpointDeleteAll
  <2> HIDE DEF call
  <2> QED
    BY <2>1, <2>2, <1>0, EnterStep
<1>2. ASSUME NEW t \in BreakpointTypes \cup {None}, BreakpointList(t)
      PROVE  BreakpointInv'
  <2> DEFINE todo == IF bpDebugging THEN ListBreakpoints(t) ELSE {}
             call == [bpCall EXCEPT !.op = "list", !.type = t, !.todo = todo,
                                    !.step = StepIf(TRUE, "ok")]
  <2>1. todo \in SUBSET Keys
    BY DEF ListBreakpoints
  <2>2. Enter(call)
    BY <1>2 DEF BreakpointList
  <2> HIDE DEF todo
  <2>3. /\ call \in BreakpointCalls /\ call.step \in {"ok", "failed"} /\ call.op = "list"
        /\ call.count = bpCall.count
    BY <2>1, <1>0 DEF BreakpointCalls, Steps, Operations, StepIf
  <2> HIDE DEF call
  <2> QED
    BY <2>2, <2>3, <1>0, EnterStep
<1>3. ASSUME NEW t \in BreakpointTypes \cup {None}, NEW a \in Addrs, BreakpointDelete(a, t)
      PROVE  BreakpointInv'
  <2> DEFINE call == [bpCall EXCEPT !.op = "delete", !.addr = a, !.type = t,
                                    !.step = StepIf(bpAllowed.modify, "snapshot")]
  <2>1. /\ call \in BreakpointCalls /\ call.step \in {"snapshot", "failed"} /\ call.op = "delete"
        /\ call.step = "snapshot" => bpAllowed.modify
        /\ call.count = bpCall.count /\ call.fields = bpCall.fields
    BY <1>0 DEF BreakpointCalls, Steps, Operations, StepIf
  <2>2. Enter(call)
    BY <1>3 DEF BreakpointDelete
  <2> HIDE DEF call
  <2> QED
    BY <2>1, <2>2, <1>0, EnterStep
<1>4. ASSUME NEW t \in BreakpointTypes \cup {None}, NEW a \in Addrs,
             NEW op \in {"enable", "disable", "toggle"}, BreakpointSwitch(op, a, t)
      PROVE  BreakpointInv'
  <2> DEFINE call == [bpCall EXCEPT !.op = op, !.addr = a, !.type = t,
                                    !.step = StepIf(bpAllowed.modify, "find")]
  <2>1. /\ call \in BreakpointCalls /\ call.step \in {"find", "failed"} /\ call.op = op
        /\ call.step = "find" => bpAllowed.modify
        /\ call.count = bpCall.count /\ call.fields = bpCall.fields
    BY <1>0 DEF BreakpointCalls, Steps, Operations, StepIf
  <2>2. Enter(call)
    BY <1>4 DEF BreakpointSwitch
  <2> HIDE DEF call
  <2> QED
    BY <2>1, <2>2, <1>0, EnterStep
<1>5. ASSUME NEW t \in BreakpointTypes \cup {None}, NEW a \in Addrs, BreakpointGet(a, t)
      PROVE  BreakpointInv'
  <2> DEFINE found == GetBreakpoint(a, t)
             got == IF bpDebugging THEN found ELSE None
             call == [bpCall EXCEPT !.op = "get", !.addr = a, !.type = t, !.got = got,
                                    !.step = StepIf(found # None, "ok")]
  <2>1. found \in BreakpointTypes \cup {None}
    BY PreferredIsOne DEF GetBreakpoint, TypesAt
  <2>2. Enter(call)
    BY <1>5 DEF BreakpointGet
  <2> HIDE DEF found
  <2>3. /\ call \in BreakpointCalls /\ call.step \in {"ok", "failed"} /\ call.op = "get"
        /\ call.count = bpCall.count
    BY <2>1, <1>0 DEF BreakpointCalls, Steps, Operations, StepIf
  <2> HIDE DEF call
  <2> QED
    BY <2>2, <2>3, <1>0, EnterStep
<1>6. ASSUME NEW a \in Addrs, NEW op \in {"reset_hitcount", "set_condition", "set_log"},
             NEW field \in {"hits", "condition", "log"}, NEW may \in BOOLEAN,
             may => bpAllowed.modify /\ (field # "hits" => bpAllowed.script),
             Enter([bpCall EXCEPT !.op = op, !.addr = a, !.fields = <<field>>,
                                  !.step = StepIf(may, "choose")])
      PROVE  BreakpointInv'
  <2> DEFINE fields == <<field>>
             call == [bpCall EXCEPT !.op = op, !.addr = a, !.fields = fields,
                                    !.step = StepIf(may, "choose")]
  <2>1. /\ fields \in Seq(Texts \cup {"hits"}) /\ fields # <<>>
        /\ \A i \in DOMAIN fields : fields[i] = field
    BY DEF Texts
  <2>2. Enter(call)
    BY <1>6
  <2> HIDE DEF fields
  <2>3. /\ call \in BreakpointCalls /\ call.step \in {"choose", "failed"} /\ call.op = op
        /\ call.step = "choose" => bpAllowed.modify /\ (field # "hits" => bpAllowed.script)
        /\ call.count = bpCall.count /\ call.fields = fields
    BY <2>1, <1>0, <1>6 DEF BreakpointCalls, Steps, Operations, StepIf
  <2> HIDE DEF call
  <2> QED
    BY <2>1, <2>2, <2>3, <1>0, EnterStep
<1>7. ASSUME NEW t \in BreakpointTypes, NEW a \in Addrs, NEW config \in Configs,
             NEW asked \in SUBSET {"name", "condition"}, BreakpointSet(a, t, config, asked)
      PROVE  BreakpointInv'
  <2> DEFINE fields == FieldsOf(asked)
             may == /\ bpAllowed.modify
                    /\ "condition" \in asked => bpAllowed.script
                    /\ RequestValid(a, t, config)
             step == StepIf(may, "command")
             call == [bpCall EXCEPT !.step = step, !.op = "set", !.addr = a, !.type = t,
                         !.config = config, !.asked = asked, !.fields = fields]
  <2>1. /\ fields \in Seq(Texts \cup {"hits"}) /\ \A i \in DOMAIN fields : fields[i] \in asked
        /\ asked \in SUBSET Texts
    BY FieldsAsked DEF Texts
  <2>2. Enter(call)
    BY <1>7 DEF BreakpointSet
  <2>3. /\ step \in {"command", "failed"}
        /\ step = "command" => bpAllowed.modify /\ ("condition" \in asked => bpAllowed.script)
    BY DEF StepIf
  <2> HIDE DEF fields, step
  <2>4. /\ call \in BreakpointCalls /\ call.step = step /\ call.op = "set" /\ call.type = t
        /\ call.count = bpCall.count /\ call.fields = fields
    BY <2>1, <2>3, <1>0 DEF BreakpointCalls, Steps, Operations
  <2> HIDE DEF call
  <2> QED
    BY <2>1, <2>2, <2>3, <2>4, <1>0, EnterStep, EntriesApart
<1>8. ASSUME NEW a \in Addrs, BreakpointResetHitCount(a) PROVE BreakpointInv'
  BY <1>0, <1>8, <1>6 DEF BreakpointResetHitCount
<1>9. ASSUME NEW a \in Addrs, NEW op \in {"set_condition", "set_log"}, BreakpointText(op, a)
      PROVE  BreakpointInv'
  <2> DEFINE may == bpAllowed.modify /\ bpAllowed.script
  <2>1. may \in BOOLEAN /\ (may => bpAllowed.modify /\ bpAllowed.script)
    OBVIOUS
  <2>2. CASE op = "set_log"
    BY <2>1, <2>2, <1>9, <1>6 DEF BreakpointText
  <2>3. CASE op = "set_condition"
    BY <2>1, <2>3, <1>9, <1>6 DEF BreakpointText
  <2> QED
    BY <2>2, <2>3
<1> QED
  BY <1>1, <1>2, <1>3, <1>4, <1>5, <1>7, <1>8, <1>9, EntriesApart DEF BeginStep

-----------------------------------------------------------------------------
(* The steps of a request.                                                 *)

\* A step that goes on to another one, or to the end, and leaves the fields.
LEMMA MovesOn ==
  ASSUME BreakpointInv, bpCall.step \notin {"idle", "ok", "failed"},
         NEW call \in BreakpointCalls, bpCall' = call,
         bpTable' \in Tables, UNCHANGED <<bpDebugging, bpAllowed>>, bpBefore' \in {bpBefore, None},
         bpRemoved' \in Nat,
         call.fields = bpCall.fields, call.op = bpCall.op,
         call.step # "idle",
         call.step \in {"command", "verify", "undo"} => call.type # None,
         call.step \in {"write", "switch", "confirm"} => call.got # None,
         call.step \in {"choose", "write"} => call.fields # <<>>,
         call.op = "delete_all" => /\ call.step \in {"list", "check", "remove", "ok", "failed"}
                                   /\ call.count = bpRemoved',
         \A k \in Keys : bpTable'[k] # None /\ bpTable'[k] # bpTable[k] =>
            \/ bpTable'[k].texts = {}
            \/ bpTable[k] # None /\ bpTable'[k].texts = bpTable[k].texts
  PROVE  BreakpointInv'
<1> USE DEF BreakpointInv
<1>1. bpAllowed.modify
  BY DEF Permitted
<1>2. Permitted'
  BY <1>1 DEF Permitted
<1>3. BreakpointTypeOK'
  BY DEF BreakpointTypeOK, Tables
<1>4. Prepared' /\ Counted'
  BY DEF Prepared, Counted
<1> QED
  BY <1>2, <1>3, <1>4

LEMMA SetInv ==
  ASSUME BreakpointInv, SetCommand \/ SetCommandRefused \/ SetVerify \/ SetUndo
  PROVE  BreakpointInv'
<1>0. /\ bpCall \in BreakpointCalls /\ bpTable \in Tables /\ bpRemoved \in Nat
      /\ bpCall.step \in {"command", "verify", "undo"}
      /\ MyKey \in Keys /\ bpCall.type # None /\ bpCall.op # "delete_all"
  BY DEF BreakpointInv, BreakpointTypeOK, Tables, Prepared, Counted, SetCommand, SetCommandRefused,
     SetVerify, SetUndo, At, MyKey, Keys, BreakpointCalls
<1>1. CASE SetCommand
  <2>1. PICK step \in {"ok", "choose", "verify"} :
           /\ bpCall' = [bpCall EXCEPT !.step = step]
           /\ step = "choose" => bpCall.fields # <<>>
    BY <1>1 DEF SetCommand, Goto, AfterSet
  <2> DEFINE call == [bpCall EXCEPT !.step = step]
  <2>2. /\ call \in BreakpointCalls /\ call.step = step /\ call.type = bpCall.type
        /\ call.fields = bpCall.fields /\ call.op = bpCall.op
    BY <1>0, <2>1 DEF BreakpointCalls, Steps
  <2>3. PICK entry \in Entry :
           /\ bpTable' = [bpTable EXCEPT ![MyKey] = entry]
           /\ entry.texts = {} \/ (bpTable[MyKey] # None /\ entry.texts = bpTable[MyKey].texts)
    <3>1. ASSUME NEW config \in PossibleConfigs(MyKey),
                 bpTable' = [bpTable EXCEPT ![MyKey] = NewEntry(config)]
          PROVE  \E entry \in Entry : /\ bpTable' = [bpTable EXCEPT ![MyKey] = entry]
                                      /\ entry.texts = {}
      BY <3>1, <1>0, NewEntryIsEntry, PossibleIsConfig
    <3>2. ASSUME bpTable[MyKey] # None, NEW on \in {TRUE, bpTable[MyKey].enabled},
                 bpTable' = [bpTable EXCEPT ![MyKey] = [bpTable[MyKey] EXCEPT !.enabled = on]]
          PROVE  \E entry \in Entry : /\ bpTable' = [bpTable EXCEPT ![MyKey] = entry]
                                      /\ entry.texts = bpTable[MyKey].texts
      <4>1. bpTable[MyKey] \in Entry
        BY <1>0, <3>2 DEF Tables
      <4>2. /\ [bpTable[MyKey] EXCEPT !.enabled = on] \in Entry
            /\ [bpTable[MyKey] EXCEPT !.enabled = on].texts = bpTable[MyKey].texts
        BY <4>1, <3>2 DEF Entry
      <4> QED
        BY <4>2, <3>2
    <3> QED
      BY <1>1, <3>1, <3>2 DEF SetCommand
  <2>4. /\ bpTable' \in Tables /\ bpTable'[MyKey] = entry
        /\ \A j \in Keys \ {MyKey} : bpTable'[j] = bpTable[j]
    BY <2>3, <1>0, EntryChange
  <2>5. UNCHANGED <<bpDebugging, bpAllowed, bpBefore, bpRemoved>> /\ bpCall' = call
    BY <1>1, <2>1 DEF SetCommand, Quiet
  <2> HIDE DEF call
  <2> QED
    BY <1>0, <2>1, <2>2, <2>3, <2>4, <2>5, MovesOn
<1>2. CASE SetCommandRefused \/ SetVerify
  <2>1. PICK step \in {"ok", "choose", "undo", "failed"} :
           /\ bpCall' = [bpCall EXCEPT !.step = step]
           /\ step = "choose" => bpCall.fields # <<>>
    BY <1>2 DEF SetCommandRefused, SetVerify, Refused, Goto, AfterSet
  <2> DEFINE call == [bpCall EXCEPT !.step = step]
  <2>2. /\ call \in BreakpointCalls /\ call.step = step /\ call.type = bpCall.type
        /\ call.fields = bpCall.fields /\ call.op = bpCall.op
    BY <1>0, <2>1 DEF BreakpointCalls, Steps
  <2>3. /\ UNCHANGED <<bpTable, bpDebugging, bpAllowed, bpRemoved>> /\ bpBefore' \in {bpBefore, None}
        /\ bpCall' = call
    BY <1>2, <2>1 DEF SetCommandRefused, SetVerify, Refused, Quiet, Unchanged
  <2> HIDE DEF call
  <2> QED
    BY <1>0, <2>1, <2>2, <2>3, MovesOn
<1>3. CASE SetUndo
  <2> DEFINE call == [bpCall EXCEPT !.step = "failed"]
  <2>1. /\ call \in BreakpointCalls /\ call.step = "failed"
        /\ call.fields = bpCall.fields /\ call.op = bpCall.op
    BY <1>0 DEF BreakpointCalls, Steps
  <2>2. \/ bpTable' = [bpTable EXCEPT ![MyKey] = None]
        \/ bpTable' = bpTable
    BY <1>3 DEF SetUndo
  <2>3. bpTable' \in Tables /\ \A j \in Keys : bpTable'[j] \in {bpTable[j], None}
    BY <2>2, <1>0 DEF Tables
  <2>4. /\ UNCHANGED <<bpDebugging, bpAllowed>> /\ bpBefore' \in {bpBefore, None}
        /\ bpCall' = call /\ bpRemoved' \in Nat
    BY <1>0, <1>3 DEF SetUndo, Quiet, Goto
  <2> HIDE DEF call
  <2> QED
    BY <1>0, <2>1, <2>3, <2>4, MovesOn
<1> QED
  BY <1>1, <1>2, <1>3

\* The name, the condition, the log text and the hits of an entry.
LEMMA FieldsInv ==
  ASSUME BreakpointInv, ChooseEntry \/ WriteField \/ WriteRefused
  PROVE  BreakpointInv'
<1> USE DEF BreakpointInv
<1>0. /\ bpCall \in BreakpointCalls /\ bpTable \in Tables /\ bpRemoved \in Nat
      /\ bpCall.step \in {"choose", "write"} /\ bpCall.op # "delete_all"
      /\ bpCall.fields \in Seq(Texts \cup {"hits"}) /\ bpCall.fields # <<>>
      /\ bpAllowed.modify /\ bpAllowed \in [modify : BOOLEAN, script : BOOLEAN]
  BY DEF BreakpointTypeOK, Tables, Prepared, Counted, Permitted, ChooseEntry, WriteField,
     WriteRefused, At, BreakpointCalls
<1>1. /\ Tail(bpCall.fields) \in Seq(Texts \cup {"hits"})
      /\ Field \in Texts \cup {"hits"} /\ Field = bpCall.fields[1] /\ 1 \in DOMAIN bpCall.fields
      /\ \A i \in DOMAIN Tail(bpCall.fields) :
            i + 1 \in DOMAIN bpCall.fields /\ Tail(bpCall.fields)[i] = bpCall.fields[i + 1]
  BY <1>0, HeadTailProperties, EmptySeq, LenProperties DEF Field
<1>2. ~bpAllowed.script => Field \notin {"condition", "log"}
  BY <1>0, <1>1 DEF Permitted
<1>3. ASSUME NEW step \in {"choose", "ok", "failed"}, NextField(step),
             step = "choose" => Tail(bpCall.fields) # <<>>,
             UNCHANGED <<bpDebugging, bpAllowed, bpRemoved>>, bpBefore' \in {bpBefore, None},
             bpTable' \in Tables,
             \A k \in Keys : bpTable'[k] # None =>
                bpTable[k] # None /\ bpTable'[k].texts \subseteq bpTable[k].texts \cup ({Field} \cap Texts)
      PROVE  BreakpointInv'
  <2> DEFINE fields == Tail(bpCall.fields)
             call == [bpCall EXCEPT !.step = step, !.fields = fields]
  <2>1. bpCall' = call
    BY <1>3 DEF NextField
  <2>2. /\ call \in BreakpointCalls /\ call.step = step /\ call.fields = fields
        /\ call.op = bpCall.op
    BY <1>0, <1>1, <1>3 DEF BreakpointCalls, Steps
  <2>3. fields = Tail(bpCall.fields)
    OBVIOUS
  <2> HIDE DEF call, fields
  <2>4. ~bpAllowed.script => \A i \in DOMAIN fields : fields[i] \notin {"condition", "log"}
    BY <1>0, <1>1, <2>3 DEF Permitted
  <2>5. Permitted'
    BY <1>0, <1>2, <1>3, <2>1, <2>2, <2>4 DEF Permitted, Texts
  <2>6. BreakpointTypeOK'
    BY <1>3, <2>1, <2>2 DEF BreakpointTypeOK, Tables
  <2>7. Prepared' /\ Counted'
    BY <1>0, <1>3, <2>1, <2>2, <2>3 DEF Prepared, Counted
  <2> QED
    BY <2>5, <2>6, <2>7
<1>4. FieldDone \in {"ok", "choose"} /\ FieldFailed \in {"ok", "choose", "failed"}
      /\ (FieldDone = "choose" => Tail(bpCall.fields) # <<>>)
      /\ (FieldFailed = "choose" => Tail(bpCall.fields) # <<>>)
  BY DEF FieldDone, FieldFailed
<1>5. CASE ChooseEntry
  <2>1. UNCHANGED <<bpTable, bpDebugging, bpAllowed, bpBefore, bpRemoved>>
    BY <1>5 DEF ChooseEntry, Quiet, Unchanged
  <2>2. CASE NextField(FieldFailed)
    BY <2>1, <2>2, <1>0, <1>3, <1>4
  <2>3. CASE Goto("failed")
    <3> DEFINE call == [bpCall EXCEPT !.step = "failed"]
    <3>1. /\ call \in BreakpointCalls /\ call.step = "failed"
          /\ call.fields = bpCall.fields /\ call.op = bpCall.op
      BY <1>0 DEF BreakpointCalls, Steps
    <3>2. bpCall' = call
      BY <2>3 DEF Goto
    <3> HIDE DEF call
    <3> QED
      BY <1>0, <2>1, <3>1, <3>2, MovesOn
  <2>4. CASE TypesAt(bpCall.addr) # {}
             /\ bpCall' = [bpCall EXCEPT !.got = PreferredOf(TypesAt(bpCall.addr)), !.step = "write"]
    <3> DEFINE got == PreferredOf(TypesAt(bpCall.addr))
               call == [bpCall EXCEPT !.got = got, !.step = "write"]
    <3>1. got \in BreakpointTypes /\ got # None
      BY <2>4, PreferredIsOne, EntriesApart DEF TypesAt
    <3>2. bpCall' = call
      BY <2>4
    <3> HIDE DEF got
    <3>3. /\ call \in BreakpointCalls /\ call.step = "write" /\ call.got = got
          /\ call.fields = bpCall.fields /\ call.op = bpCall.op
      BY <1>0, <3>1 DEF BreakpointCalls, Steps
    <3> HIDE DEF call
    <3> QED
      BY <1>0, <2>1, <3>1, <3>2, <3>3, MovesOn
  <2> QED
    BY <1>5, <2>2, <2>3, <2>4 DEF ChooseEntry
<1>6. CASE WriteRefused
  BY <1>0, <1>3, <1>4, <1>6 DEF WriteRefused
<1>7. CASE WriteField
  <2>1. GotKey \in Keys
    BY <1>7 DEF WriteField, At, Prepared, BreakpointTypeOK, BreakpointCalls, GotKey, Keys
  <2>2. UNCHANGED <<bpDebugging, bpAllowed, bpBefore, bpRemoved>>
    BY <1>7 DEF WriteField, Quiet
  <2>3. CASE bpTable[GotKey] = None
    BY <1>0, <1>3, <1>4, <1>7, <2>2, <2>3 DEF WriteField
  <2>4. CASE bpTable[GotKey] # None /\ Field = "hits"
    <3> DEFINE entry == [bpTable[GotKey] EXCEPT !.hits = 0]
    <3>1. bpTable[GotKey] \in Entry
      BY <1>0, <2>1, <2>4 DEF Tables
    <3>2. entry \in Entry /\ entry.texts = bpTable[GotKey].texts
      BY <3>1, BoundAssumption DEF Entry
    <3>3. bpTable' = [bpTable EXCEPT ![GotKey] = entry] /\ NextField(FieldDone)
      BY <1>7, <2>4 DEF WriteField
    <3> HIDE DEF entry
    <3>4. /\ bpTable' \in Tables /\ bpTable'[GotKey] = entry
          /\ \A j \in Keys \ {GotKey} : bpTable'[j] = bpTable[j]
      BY <3>2, <3>3, <1>0, <2>1, EntryChange
    <3> QED
      BY <1>0, <1>3, <1>4, <2>2, <2>4, <3>2, <3>3, <3>4
  <2>5. CASE bpTable[GotKey] # None /\ Field # "hits"
    <3> DEFINE entry == [bpTable[GotKey] EXCEPT !.texts = bpTable[GotKey].texts \cup {Field}]
    <3>1. bpTable[GotKey] \in Entry
      BY <1>0, <2>1, <2>5 DEF Tables
    <3>2. entry \in Entry /\ entry.texts = bpTable[GotKey].texts \cup ({Field} \cap Texts)
      BY <3>1, <1>1, <2>5 DEF Entry
    <3>3. bpTable' = [bpTable EXCEPT ![GotKey] = entry] /\ NextField(FieldDone)
      BY <1>7, <2>5 DEF WriteField
    <3> HIDE DEF entry
    <3>4. /\ bpTable' \in Tables /\ bpTable'[GotKey] = entry
          /\ \A j \in Keys \ {GotKey} : bpTable'[j] = bpTable[j]
      BY <3>2, <3>3, <1>0, <2>1, EntryChange
    <3> QED
      BY <1>0, <1>3, <1>4, <2>2, <2>5, <3>2, <3>3, <3>4
  <2> QED
    BY <2>3, <2>4, <2>5
<1> QED
  BY <1>5, <1>6, <1>7

\* delete and delete_all.
LEMMA DeleteInv ==
  ASSUME BreakpointInv,
         \/ DeleteSnapshot \/ DeleteAllList
         \/ \E k \in Keys : RemoveEntry(k) \/ RemoveRefused(k) \/ DeleteAllCheck(k)
  PROVE  BreakpointInv'
<1>0. /\ bpCall \in BreakpointCalls /\ bpTable \in Tables /\ bpRemoved \in Nat
      /\ bpCall.step \in {"snapshot", "list", "remove", "check"}
      /\ bpCall.op = "delete_all" => bpCall.step # "snapshot" /\ bpCall.count = bpRemoved
      /\ bpCall.todo \in SUBSET Keys /\ bpCall.count \in Nat /\ bpCall.good \in BOOLEAN
  BY DEF BreakpointInv, BreakpointTypeOK, Tables, Counted, DeleteSnapshot, DeleteAllList,
     RemoveEntry, RemoveRefused, DeleteAllCheck, At, BreakpointCalls
<1>1. CASE DeleteSnapshot
  <2> DEFINE keys == IF bpCall.type = None THEN Deletes ELSE {k \in Deletes : k[2] = bpCall.type}
             step == IF keys = {} THEN "failed" ELSE "remove"
             call == [bpCall EXCEPT !.todo = keys, !.step = step]
  <2>1. keys \in SUBSET Keys /\ step \in {"failed", "remove"}
    BY DEF Deletes
  <2>2. /\ UNCHANGED <<bpTable, bpDebugging, bpAllowed, bpBefore, bpRemoved>> /\ bpCall' = call
        /\ bpCall.step = "snapshot"
    BY <1>1 DEF DeleteSnapshot, Quiet, Unchanged, At
  <2> HIDE DEF keys, step
  <2>3. /\ call \in BreakpointCalls /\ call.step = step /\ call.fields = bpCall.fields
        /\ call.op = bpCall.op
    BY <1>0, <2>1 DEF BreakpointCalls, Steps
  <2> HIDE DEF call
  <2> QED
    BY <1>0, <2>1, <2>2, <2>3, MovesOn
<1>2. CASE DeleteAllList
  <2>1. PICK todo \in SUBSET Keys, step \in {"ok", "check", "failed"} :
           bpCall' = [bpCall EXCEPT !.todo = todo, !.step = step]
    <3>1. ListBreakpoints(bpCall.type) \in SUBSET Keys
      BY DEF ListBreakpoints
    <3>2. [bpCall EXCEPT !.step = "failed"] = [bpCall EXCEPT !.todo = bpCall.todo, !.step = "failed"]
      BY <1>0 DEF BreakpointCalls
    <3> QED
      BY <1>0, <1>2, <3>1, <3>2 DEF DeleteAllList, Goto
  <2> DEFINE call == [bpCall EXCEPT !.todo = todo, !.step = step]
  <2>2. /\ call \in BreakpointCalls /\ call.step = step /\ call.fields = bpCall.fields
        /\ call.op = bpCall.op /\ call.count = bpCall.count
    BY <1>0, <2>1 DEF BreakpointCalls, Steps
  <2>3. /\ UNCHANGED <<bpTable, bpDebugging, bpAllowed, bpBefore, bpRemoved>> /\ bpCall' = call
    BY <1>2, <2>1 DEF DeleteAllList, Quiet, Unchanged
  <2> HIDE DEF call
  <2> QED
    BY <1>0, <2>1, <2>2, <2>3, MovesOn
\* What AfterRemove() makes of the call.
<1>3. ASSUME NEW k \in Keys, NEW removed \in BOOLEAN, AfterRemove(k, removed)
      PROVE  /\ bpCall' \in BreakpointCalls /\ bpCall'.step \in {"ok", "check", "remove", "failed"}
             /\ bpCall'.fields = bpCall.fields /\ bpCall'.op = bpCall.op
             /\ bpCall.op = "delete_all" =>
                   bpCall'.count = bpCall.count + IF removed THEN 1 ELSE 0
  <2> DEFINE rest == bpCall.todo \ {k}
             good == bpCall.good /\ removed
             count == IF bpCall.op = "delete_all" /\ removed THEN bpCall.count + 1 ELSE bpCall.count
             step == IF bpCall.op = "delete_all" THEN (IF rest = {} THEN "ok" ELSE "check")
                     ELSE IF rest # {} THEN "remove"
                     ELSE IF good THEN "ok" ELSE "failed"
             call == [bpCall EXCEPT !.todo = rest, !.good = good, !.count = count, !.step = step]
  <2>1. /\ rest \in SUBSET Keys /\ good \in BOOLEAN /\ count \in Nat
        /\ step \in {"ok", "check", "remove", "failed"}
        /\ bpCall.op = "delete_all" => count = bpCall.count + IF removed THEN 1 ELSE 0
    BY <1>0
  <2>2. bpCall' = call
    BY <1>3 DEF AfterRemove
  <2> HIDE DEF rest, good, count, step
  <2>3. /\ call \in BreakpointCalls /\ call.step = step /\ call.fields = bpCall.fields
        /\ call.op = bpCall.op /\ call.count = count
    BY <1>0, <2>1 DEF BreakpointCalls, Steps
  <2> QED
    BY <2>1, <2>2, <2>3
<1>4. ASSUME NEW k \in Keys, RemoveEntry(k) PROVE BreakpointInv'
  <2>1. /\ AfterRemove(k, bpTable[k] # None) /\ (bpTable[k] # None) \in BOOLEAN
        /\ bpRemoved' = bpRemoved + IF bpTable[k] # None THEN 1 ELSE 0
        /\ bpTable' = [bpTable EXCEPT ![k] = None]
        /\ UNCHANGED <<bpDebugging, bpAllowed, bpBefore>>
    BY <1>4 DEF RemoveEntry, Quiet
  <2>2. bpTable' \in Tables /\ \A j \in Keys : bpTable'[j] \in {bpTable[j], None}
    BY <2>1, <1>0 DEF Tables
  <2>3. /\ bpCall' \in BreakpointCalls /\ bpCall'.step \in {"ok", "check", "remove", "failed"}
        /\ bpCall'.fields = bpCall.fields /\ bpCall'.op = bpCall.op
        /\ bpCall.op = "delete_all" =>
              bpCall'.count = bpCall.count + IF bpTable[k] # None THEN 1 ELSE 0
    BY <2>1, <1>3
  <2>4. bpRemoved' \in Nat /\ (bpCall.op = "delete_all" => bpCall'.count = bpRemoved')
    BY <1>0, <2>1, <2>3
  <2> QED
    BY <1>0, <2>1, <2>2, <2>3, <2>4, MovesOn
<1>5. ASSUME NEW k \in Keys, RemoveRefused(k) PROVE BreakpointInv'
  <2>1. /\ AfterRemove(k, FALSE) /\ UNCHANGED <<bpTable, bpDebugging, bpAllowed, bpRemoved>>
        /\ bpBefore' = None
    BY <1>5 DEF RemoveRefused
  <2>2. /\ bpCall' \in BreakpointCalls /\ bpCall'.step \in {"ok", "check", "remove", "failed"}
        /\ bpCall'.fields = bpCall.fields /\ bpCall'.op = bpCall.op
        /\ bpCall.op = "delete_all" => bpCall'.count = bpCall.count + IF FALSE THEN 1 ELSE 0
    BY <1>3, <2>1, Zenon
  <2>3. bpCall.op = "delete_all" => bpCall'.count = bpRemoved'
    BY <1>0, <2>1, <2>2
  <2> QED
    BY <1>0, <2>1, <2>2, <2>3, MovesOn
<1>6. ASSUME NEW k \in Keys, DeleteAllCheck(k) PROVE BreakpointInv'
  <2>1. UNCHANGED <<bpTable, bpDebugging, bpAllowed, bpBefore, bpRemoved>>
    BY <1>6 DEF DeleteAllCheck, Quiet, Unchanged
  <2>2. CASE AfterRemove(k, FALSE)
    <3>1. /\ bpCall' \in BreakpointCalls /\ bpCall'.step \in {"ok", "check", "remove", "failed"}
          /\ bpCall'.fields = bpCall.fields /\ bpCall'.op = bpCall.op
          /\ bpCall.op = "delete_all" => bpCall'.count = bpCall.count + IF FALSE THEN 1 ELSE 0
      BY <1>3, <2>2, Zenon
    <3>2. bpCall.op = "delete_all" => bpCall'.count = bpRemoved'
      BY <1>0, <2>1, <3>1
    <3> QED
      BY <1>0, <2>1, <3>1, <3>2, MovesOn
  <2>3. CASE bpCall' = [bpCall EXCEPT !.addr = k[1], !.got = k[2], !.step = "remove"]
    <3> DEFINE call == [bpCall EXCEPT !.addr = k[1], !.got = k[2], !.step = "remove"]
    <3>1. /\ call \in BreakpointCalls /\ call.step = "remove" /\ call.fields = bpCall.fields
          /\ call.op = bpCall.op /\ call.count = bpCall.count
      BY <1>0, KeysArePairs DEF BreakpointCalls, Steps
    <3>2. bpCall' = call
      BY <2>3
    <3> HIDE DEF call
    <3> QED
      BY <1>0, <2>1, <3>1, <3>2, MovesOn
  <2> QED
    BY <1>6, <2>2, <2>3 DEF DeleteAllCheck
<1> QED
  BY <1>1, <1>2, <1>4, <1>5, <1>6

\* enable, disable and toggle.
LEMMA SwitchInv ==
  ASSUME BreakpointInv, FindEntry \/ SwitchEntry \/ SwitchRefused \/ ConfirmEntry
  PROVE  BreakpointInv'
<1>0. /\ bpCall \in BreakpointCalls /\ bpTable \in Tables /\ bpRemoved \in Nat
      /\ bpCall.step \in {"find", "switch", "confirm"} /\ bpCall.op # "delete_all"
      /\ bpCall.step \in {"switch", "confirm"} => bpCall.got # None
  BY DEF BreakpointInv, BreakpointTypeOK, Tables, Prepared, Counted, FindEntry, SwitchEntry,
     SwitchRefused, ConfirmEntry, At
<1>1. ASSUME NEW step \in {"ok", "failed"}, Goto(step),
             UNCHANGED <<bpTable, bpDebugging, bpAllowed, bpRemoved>>, bpBefore' \in {bpBefore, None}
      PROVE  BreakpointInv'
  <2> DEFINE call == [bpCall EXCEPT !.step = step]
  <2>1. /\ call \in BreakpointCalls /\ call.step = step /\ call.fields = bpCall.fields
        /\ call.op = bpCall.op
    BY <1>0, <1>1 DEF BreakpointCalls, Steps
  <2>2. bpCall' = call
    BY <1>1 DEF Goto
  <2> HIDE DEF call
  <2> QED
    BY <1>0, <1>1, <2>1, <2>2, MovesOn
<1>2. CASE SwitchRefused \/ ConfirmEntry
  BY <1>1, <1>2 DEF SwitchRefused, ConfirmEntry, Refused, Quiet, Unchanged
<1>3. CASE SwitchEntry
  <2>1. GotKey \in Keys /\ bpCall.step = "switch"
    BY <1>0, <1>3 DEF SwitchEntry, At, BreakpointCalls, GotKey, Keys
  <2>2. UNCHANGED <<bpDebugging, bpAllowed, bpBefore, bpRemoved>>
    BY <1>3 DEF SwitchEntry, Quiet
  <2>3. CASE bpTable[GotKey] = None
    BY <1>1, <1>3, <2>2, <2>3 DEF SwitchEntry
  <2>4. CASE bpTable[GotKey] # None
    <3> DEFINE entry == [bpTable[GotKey] EXCEPT !.enabled = bpCall.enable]
               call == [bpCall EXCEPT !.step = "confirm"]
    <3>1. bpTable[GotKey] \in Entry /\ bpCall.enable \in BOOLEAN
      BY <1>0, <2>1, <2>4 DEF Tables, BreakpointCalls
    <3>2. entry \in Entry /\ entry.texts = bpTable[GotKey].texts
      BY <3>1 DEF Entry
    <3>3. bpTable' = [bpTable EXCEPT ![GotKey] = entry] /\ bpCall' = call
      BY <1>3, <2>4 DEF SwitchEntry, Goto
    <3>4. /\ call \in BreakpointCalls /\ call.step = "confirm" /\ call.fields = bpCall.fields
          /\ call.op = bpCall.op /\ call.got = bpCall.got
      BY <1>0 DEF BreakpointCalls, Steps
    <3> HIDE DEF entry, call
    <3>5. /\ bpTable' \in Tables /\ bpTable'[GotKey] = entry
          /\ \A j \in Keys \ {GotKey} : bpTable'[j] = bpTable[j]
      BY <3>2, <3>3, <1>0, <2>1, EntryChange
    <3> QED
      BY <1>0, <2>1, <2>2, <2>4, <3>2, <3>3, <3>4, <3>5, MovesOn
  <2> QED
    BY <2>3, <2>4
<1>4. CASE FindEntry
  <2>1. UNCHANGED <<bpTable, bpDebugging, bpAllowed, bpBefore, bpRemoved>>
    BY <1>4 DEF FindEntry, Quiet, Unchanged
  <2> DEFINE t == GetBreakpoint(bpCall.addr, bpCall.type)
             enable == IF bpCall.op = "toggle" THEN ~bpTable[<<bpCall.addr, t>>].enabled
                       ELSE bpCall.op = "enable"
  <2>2. t \in BreakpointTypes \cup {None}
    BY PreferredIsOne DEF GetBreakpoint, TypesAt
  <2>3. CASE Goto("failed")
    BY <1>1, <2>1, <2>3
  <2>4. CASE t # None /\ bpCall' = [bpCall EXCEPT !.got = t, !.step = "switch", !.enable = enable]
    <3> DEFINE call == [bpCall EXCEPT !.got = t, !.step = "switch", !.enable = enable]
    <3>1. enable \in BOOLEAN /\ bpCall' = call /\ t # None
      BY <2>4
    <3> HIDE DEF t, enable
    <3>2. /\ call \in BreakpointCalls /\ call.step = "switch" /\ call.fields = bpCall.fields
          /\ call.op = bpCall.op /\ call.got = t
      BY <1>0, <2>2, <3>1 DEF BreakpointCalls, Steps
    <3> HIDE DEF call
    <3> QED
      BY <1>0, <2>1, <3>1, <3>2, MovesOn
  <2>5. CASE bpCall' = [bpCall EXCEPT !.type = "software", !.step = "command"]
    <3> DEFINE call == [bpCall EXCEPT !.type = "software", !.step = "command"]
    <3>1. /\ call \in BreakpointCalls /\ call.step = "command" /\ call.fields = bpCall.fields
          /\ call.op = bpCall.op /\ call.type = "software" /\ "software" # None
      BY <1>0, EntriesApart DEF BreakpointCalls, Steps, BreakpointTypes
    <3>2. bpCall' = call
      BY <2>5
    <3> HIDE DEF call
    <3> QED
      BY <1>0, <2>1, <3>1, <3>2, MovesOn
  <2> QED
    BY <1>4, <2>3, <2>4, <2>5 DEF FindEntry
<1> QED
  BY <1>2, <1>3, <1>4

-----------------------------------------------------------------------------
(* Others change the list, or the debuggee does.                           *)
LEMMA WorldInv ==
  ASSUME BreakpointInv, WorldStep
  PROVE  BreakpointInv'
<1> USE DEF BreakpointInv
<1>0. /\ bpTable \in Tables /\ UNCHANGED <<bpAllowed, bpCall, bpRemoved>> /\ bpBefore' = None
      /\ bpDebugging' \in BOOLEAN
  BY DEF BreakpointTypeOK, Tables, WorldStep, DebuggeeGone, OtherChange, Hit, Disturb
<1>1. /\ bpTable' \in Tables
      /\ \A k \in Keys : bpTable'[k] # None =>
            \/ bpTable'[k].texts = {}
            \/ bpTable[k] # None /\ bpTable'[k].texts = bpTable[k].texts
  <2>1. CASE DebuggeeGone
    BY <1>0, <2>1 DEF DebuggeeGone
  <2>2. ASSUME NEW k \in Keys, OtherChange(k) \/ Hit(k)
        PROVE  \E entry \in Entry \cup {None} :
                  /\ bpTable' = [bpTable EXCEPT ![k] = entry]
                  /\ entry # None => \/ entry.texts = {}
                                     \/ bpTable[k] # None /\ entry.texts = bpTable[k].texts
    <3>1. CASE \E config \in PossibleConfigs(k) : bpTable' = [bpTable EXCEPT ![k] = NewEntry(config)]
      BY <3>1, PossibleIsConfig, NewEntryIsEntry
    <3>2. CASE bpTable' = [bpTable EXCEPT ![k] = None]
      BY <3>2
    <3>3. CASE bpTable[k] # None
               /\ bpTable' = [bpTable EXCEPT ![k] = [bpTable[k] EXCEPT !.enabled = ~bpTable[k].enabled]]
      <4>1. bpTable[k] \in Entry
        BY <1>0, <3>3 DEF Tables
      <4>2. /\ [bpTable[k] EXCEPT !.enabled = ~bpTable[k].enabled] \in Entry
            /\ [bpTable[k] EXCEPT !.enabled = ~bpTable[k].enabled].texts = bpTable[k].texts
        BY <4>1 DEF Entry
      <4> QED
        BY <4>2, <3>3
    <3>4. CASE bpTable[k] # None /\ bpTable[k].hits < MaxHits
               /\ bpTable' = [bpTable EXCEPT ![k] = [bpTable[k] EXCEPT !.hits = bpTable[k].hits + 1]]
      <4>1. bpTable[k] \in Entry
        BY <1>0, <3>4 DEF Tables
      <4>2. /\ [bpTable[k] EXCEPT !.hits = bpTable[k].hits + 1] \in Entry
            /\ [bpTable[k] EXCEPT !.hits = bpTable[k].hits + 1].texts = bpTable[k].texts
        BY <4>1, <3>4, BoundAssumption DEF Entry
      <4> QED
        BY <4>2, <3>4
    <3> QED
      BY <2>2, <3>1, <3>2, <3>3, <3>4 DEF OtherChange, Hit
  <2>3. ASSUME NEW k \in Keys, NEW entry \in Entry \cup {None},
               bpTable' = [bpTable EXCEPT ![k] = entry],
               entry # None => \/ entry.texts = {}
                               \/ bpTable[k] # None /\ entry.texts = bpTable[k].texts
        PROVE  /\ bpTable' \in Tables
               /\ \A j \in Keys : bpTable'[j] # None =>
                     \/ bpTable'[j].texts = {}
                     \/ bpTable[j] # None /\ bpTable'[j].texts = bpTable[j].texts
    BY <2>3, <1>0, EntryChange
  <2> QED
    BY <2>1, <2>2, <2>3 DEF WorldStep
<1>2. BreakpointTypeOK'
  BY <1>0, <1>1 DEF BreakpointTypeOK, Tables
<1>3. Permitted'
  BY <1>0, <1>1 DEF Permitted
<1>4. Prepared' /\ Counted'
  BY <1>0 DEF Prepared, Counted
<1> QED
  BY <1>2, <1>3, <1>4

-----------------------------------------------------------------------------
(* What follows for every behaviour.                                       *)

LEMMA BreakpointInvariant == BreakpointSpec => []BreakpointInv
<1>1. BreakpointInv /\ BreakpointNext => BreakpointInv'
  BY BeginInv, SetInv, FieldsInv, DeleteInv, SwitchInv, WorldInv DEF BreakpointNext, CallStep
<1>2. BreakpointInv /\ UNCHANGED breakpointVars => BreakpointInv'
  BY DEF BreakpointInv, BreakpointTypeOK, Prepared, Permitted, Counted, breakpointVars
<1> QED
  BY <1>1, <1>2, InitialInv, PTL DEF BreakpointSpec

\* The variables of a request and x64dbg's list keep their types.
THEOREM BreakpointsTypeCorrect == BreakpointSpec => []BreakpointTypeOK
  BY BreakpointInvariant, PTL DEF BreakpointInv

\* No condition or log text comes in without the permission for scripts, and
\* nothing is changed without the one for breakpoints.
THEOREM TextsArePermitted == BreakpointSpec => []TextsNeedPermission
<1>1. BreakpointInv => TextsNeedPermission
  BY DEF BreakpointInv, Permitted, TextsNeedPermission
<1> QED
  BY <1>1, BreakpointInvariant, PTL

\* delete_all reports what its own steps have removed.
THEOREM OwnRemovalsAreCounted == BreakpointSpec => []CountIsOwnRemovals
<1>1. BreakpointInv => CountIsOwnRemovals
  BY DEF BreakpointInv, Counted, CountIsOwnRemovals
<1> QED
  BY <1>1, BreakpointInvariant, PTL

-----------------------------------------------------------------------------
(* A request that nobody disturbs and x64dbg refuses nothing: how far it    *)
(* has come with what it is there to do, operation by operation.            *)

Untouched == bpTable = bpBefore
AddsNothing == \A k \in Keys : bpTable[k] # None => Bare(bpTable[k]) = Bare(bpBefore[k])

\* An entry has a configuration of its type.
TablesFit == \A k \in Keys : bpTable[k] # None => bpTable[k].config \in ConfigsOf(k[2])

AtFirst ==
    bpCall.step = "idle" =>
        bpBefore = None /\ bpCall.got = None /\ bpCall.fields = <<>> /\ bpCall.count = 0

SetQuiet == bpCall.op = "set" =>
    /\ bpCall.step \in {"command", "verify", "undo", "choose", "write", "ok", "failed"}
    /\ bpCall.type \in BreakpointTypes /\ bpCall.config \in ConfigsOf(bpCall.type)
    /\ bpCall.step = "command" => Untouched
    /\ bpCall.step \in {"verify", "undo"} => SameBut({MyKey})
    /\ bpCall.step \in {"choose", "write", "ok"} =>
          /\ MatchesRequest
          /\ \A k \in Keys \ {MyKey} : Bare(bpTable[k]) = Bare(bpBefore[k])
    /\ bpCall.step = "write" => bpTable[GotKey] # None
    /\ bpCall.step = "failed" => AddsNothing

TextOperations == {"set_condition", "set_log", "reset_hitcount"}
FieldOf(op) ==
    IF op = "set_log" THEN "log" ELSE IF op = "reset_hitcount" THEN "hits" ELSE "condition"
TextQuiet == bpCall.op \in TextOperations =>
    /\ bpCall.step \in {"choose", "write", "ok", "failed"}
    /\ bpCall.step # "ok" => Untouched
    /\ bpCall.step \in {"choose", "write"} => bpCall.fields = <<FieldOf(bpCall.op)>>
    /\ bpCall.step = "write" => bpTable[GotKey] # None /\ GotKey = FirstBefore
    /\ bpCall.step = "ok" => Contract

GoneAt == {k \in Keys : k[1] = bpCall.addr /\ bpCall.type \in {None, k[2]}}
DeleteQuiet == bpCall.op = "delete" =>
    /\ bpCall.step \in {"snapshot", "remove", "ok", "failed"}
    /\ bpCall.step = "snapshot" => Untouched
    /\ SameBut(GoneAt)
    /\ \A k \in GoneAt : bpTable[k] \in {bpBefore[k], None}
    /\ bpCall.step = "remove" =>
          bpCall.todo \subseteq GoneAt /\ \A k \in GoneAt \ bpCall.todo : bpTable[k] = None
    /\ bpCall.step = "ok" => \A k \in GoneAt : bpTable[k] = None

\* Addresses need not be finitely many; what was removed is.
GoneAll == {k \in Keys : bpCall.type \in {None, k[2]}}
Taken == {k \in GoneAll : bpBefore[k] # None /\ bpTable[k] = None}
DeleteAllQuiet == bpCall.op = "delete_all" =>
    /\ bpCall.step \in {"list", "check", "remove", "ok", "failed"}
    /\ bpCall.step \in {"list", "failed"} => Untouched
    /\ bpCall.step = "list" => bpCall.count = 0
    /\ bpCall.step \in {"check", "remove", "ok"} =>
          SameBut(GoneAll) /\ IsFiniteSet(Taken) /\ bpCall.count = Cardinality(Taken)
    /\ bpCall.step \in {"check", "remove"} =>
          /\ bpCall.todo \subseteq GoneAll
          /\ \A k \in GoneAll : bpTable[k] = IF k \in bpCall.todo THEN bpBefore[k] ELSE None
          /\ \A k \in bpCall.todo : bpBefore[k] # None
    /\ bpCall.step = "ok" => \A k \in GoneAll : bpTable[k] = None

\* The entry that is switched, and one that a toggle sets instead.
EntryFound ==
    /\ bpCall.got \in BreakpointTypes /\ bpBefore[GotKey] # None
    /\ bpCall.type = None => GotKey = FirstBefore
    /\ bpCall.enable = IF bpCall.op = "toggle" THEN ~bpBefore[GotKey].enabled
                       ELSE bpCall.op = "enable"
EntrySwitched ==
    /\ bpTable[GotKey] = [bpBefore[GotKey] EXCEPT !.enabled = bpCall.enable]
    /\ SameBut({GotKey})
EntryLacking ==
    /\ bpCall.op = "toggle" /\ bpCall.got = None /\ bpCall.type = "software"
    /\ bpBefore[MyKey] = None
Switches == {"enable", "disable", "toggle"}
SwitchQuiet == bpCall.op \in Switches =>
    /\ bpCall.step \in {"find", "switch", "confirm", "command", "ok", "failed"}
    /\ bpCall.step \in {"find", "switch", "command", "failed"} => Untouched
    /\ bpCall.step \in {"find", "command"} => bpCall.fields = <<>>
    /\ bpCall.step = "find" => bpCall.got = None
    /\ bpCall.step \in {"switch", "confirm"} => EntryFound
    /\ bpCall.step = "confirm" => EntrySwitched
    /\ bpCall.step = "command" => EntryLacking
    /\ bpCall.step = "ok" =>
          \/ EntryFound /\ EntrySwitched
          \/ EntryLacking /\ bpTable[MyKey] = NewEntry(None) /\ SameBut({MyKey})

ReadQuiet == bpCall.op \in {"get", "list"} => bpCall.step \in {"ok", "failed"} /\ Untouched

QuietCall ==
    /\ bpCall.step \notin {"ok", "failed"} => bpDebugging
    /\ SetQuiet /\ TextQuiet /\ DeleteQuiet /\ DeleteAllQuiet /\ SwitchQuiet /\ ReadQuiet

QuietInv == TablesFit /\ AtFirst /\ (bpBefore # None => QuietCall)

\* What the invariant is for.
LEMMA QuietInvMeetsContract ==
  ASSUME BreakpointInv, QuietInv PROVE QuietRequestsMeetContract
<1>0. bpCall.op \in Operations
  BY DEF BreakpointInv, BreakpointTypeOK, BreakpointCalls
<1>1. ASSUME At("ok"), bpBefore # None PROVE Contract
  <2>1. bpCall.step = "ok" /\ QuietCall
    BY <1>1 DEF QuietInv, At
  <2>2. CASE bpCall.op = "set"
    BY <2>1, <2>2 DEF QuietCall, SetQuiet, MatchesRequest, Contract
  <2>3. CASE bpCall.op \in TextOperations
    BY <2>1, <2>3 DEF QuietCall, TextQuiet
  <2>4. CASE bpCall.op = "delete"
    BY <2>1, <2>4 DEF QuietCall, DeleteQuiet, Contract, GoneAt
  <2>5. CASE bpCall.op = "delete_all"
    <3>1. /\ SameBut(GoneAll) /\ bpCall.count = Cardinality(Taken)
          /\ \A k \in GoneAll : bpTable[k] = None
      BY <2>1, <2>5 DEF QuietCall, DeleteAllQuiet
    <3>2. Taken = {k \in GoneAll : bpBefore[k] # None}
      BY <3>1 DEF Taken
    <3> QED
      BY <2>5, <3>1, <3>2 DEF Contract, GoneAll
  <2>6. CASE bpCall.op \in {"enable", "disable"}
    <3>1. EntryFound /\ EntrySwitched
      BY <2>1, <2>6 DEF QuietCall, SwitchQuiet, Switches, EntryLacking
    <3>2. bpCall.enable = (bpCall.op = "enable")
      BY <2>6, <3>1 DEF EntryFound
    <3> QED
      BY <2>6, <3>1, <3>2 DEF Contract, EntryFound, EntrySwitched
  <2>7. CASE bpCall.op = "toggle"
    <3> DEFINE key == IF BeforeAt(bpCall.addr) = {} THEN <<bpCall.addr, "software">>
                      ELSE IF bpCall.got # None THEN GotKey ELSE MyKey
    <3>1. CASE EntryFound /\ EntrySwitched
      <4>1. bpCall.got # None /\ BeforeAt(bpCall.addr) # {}
        BY <3>1, EntriesApart DEF EntryFound, BeforeAt, GotKey
      <4>2. key = GotKey
        BY <4>1
      <4> HIDE DEF key
      <4>3. bpTable[key] = [bpBefore[key] EXCEPT !.enabled = ~bpBefore[key].enabled]
        BY <2>7, <3>1, <4>2 DEF EntryFound, EntrySwitched
      <4>4. bpBefore[key] # None /\ SameBut({key})
        BY <3>1, <4>2 DEF EntryFound, EntrySwitched
      <4> QED
        BY <2>7, <4>3, <4>4 DEF Contract, key
    <3>2. CASE EntryLacking /\ bpTable[MyKey] = NewEntry(None) /\ SameBut({MyKey})
      <4>1. key = MyKey
        BY <3>2 DEF EntryLacking, MyKey
      <4> HIDE DEF key
      <4>2. bpBefore[key] = None /\ bpTable[key] = NewEntry(None) /\ SameBut({key})
        BY <3>2, <4>1 DEF EntryLacking
      <4> QED
        BY <2>7, <4>2 DEF Contract, key
    <3> QED
      BY <2>1, <2>7, <3>1, <3>2 DEF QuietCall, SwitchQuiet, Switches
  <2>8. CASE bpCall.op \in {"get", "list"}
    BY <2>1, <2>8 DEF QuietCall, ReadQuiet, Untouched, Contract
  <2> QED
    BY <1>0, <2>2, <2>3, <2>4, <2>5, <2>6, <2>7, <2>8 DEF Operations, TextOperations
<1>2. ASSUME At("failed"), bpBefore # None PROVE AddsNothing
  <2>1. bpCall.step = "failed" /\ QuietCall
    BY <1>2 DEF QuietInv, At
  <2>2. CASE bpCall.op = "set"
    BY <2>1, <2>2 DEF QuietCall, SetQuiet
  <2>3. CASE bpCall.op = "delete"
    BY <2>1, <2>3 DEF QuietCall, DeleteQuiet, SameBut, AddsNothing
  <2>4. CASE bpCall.op \notin {"set", "delete"}
    <3>1. Untouched
      BY <1>0, <2>1, <2>4 DEF QuietCall, TextQuiet, DeleteAllQuiet, SwitchQuiet, ReadQuiet,
         Operations, TextOperations, Switches
    <3> QED
      BY <3>1 DEF Untouched, AddsNothing
  <2> QED
    BY <2>2, <2>3, <2>4
<1> QED
  BY <1>1, <1>2 DEF QuietRequestsMeetContract, QuietSuccessMeetsContract,
     QuietFailureAddsNothing, AddsNothing

\* A call that goes to another step, and one that has written a field.
LEMMA GotoIs ==
  ASSUME bpCall \in BreakpointCalls, NEW step, Goto(step)
  PROVE  /\ bpCall'.step = step /\ bpCall'.op = bpCall.op /\ bpCall'.addr = bpCall.addr
         /\ bpCall'.type = bpCall.type /\ bpCall'.config = bpCall.config
         /\ bpCall'.fields = bpCall.fields /\ bpCall'.got = bpCall.got
         /\ bpCall'.enable = bpCall.enable /\ bpCall'.todo = bpCall.todo
         /\ bpCall'.count = bpCall.count
  BY DEF Goto, BreakpointCalls

LEMMA NextFieldIs ==
  ASSUME bpCall \in BreakpointCalls, NEW step, NextField(step)
  PROVE  /\ bpCall'.step = step /\ bpCall'.op = bpCall.op /\ bpCall'.addr = bpCall.addr
         /\ bpCall'.type = bpCall.type /\ bpCall'.config = bpCall.config
         /\ bpCall'.fields = Tail(bpCall.fields) /\ bpCall'.got = bpCall.got
  BY DEF NextField, BreakpointCalls

\* The command of a set leaves one entry that is there, and fits.
LEMMA CommandSets ==
  ASSUME BreakpointInv, TablesFit, SetCommand
  PROVE  /\ MyKey \in Keys /\ bpTable'[MyKey] # None
         /\ \A k \in Keys \ {MyKey} : bpTable'[k] = bpTable[k]
         /\ bpTable'[MyKey].config \in ConfigsOf(MyKey[2])
         /\ bpTable[MyKey] = None =>
               \E config \in ConfigsOf(MyKey[2]) : bpTable'[MyKey] = NewEntry(config)
<1>0. /\ bpCall \in BreakpointCalls /\ bpTable \in Tables /\ MyKey \in Keys
      /\ bpCall.type # None
  BY DEF BreakpointInv, BreakpointTypeOK, Tables, Prepared, SetCommand, At, MyKey, Keys,
     BreakpointCalls
<1>1. ASSUME NEW config \in PossibleConfigs(MyKey), bpTable[MyKey] = None,
             bpTable' = [bpTable EXCEPT ![MyKey] = NewEntry(config)]
      PROVE  /\ bpTable'[MyKey] # None
             /\ \A k \in Keys \ {MyKey} : bpTable'[k] = bpTable[k]
             /\ bpTable'[MyKey] = NewEntry(config) /\ config \in ConfigsOf(MyKey[2])
             /\ bpTable'[MyKey].config \in ConfigsOf(MyKey[2])
  <2>1. NewEntry(config) \in Entry /\ NewEntry(config) # None
    BY <1>0, NewEntryIsEntry, PossibleIsConfig
  <2>2. /\ bpTable'[MyKey] = NewEntry(config)
        /\ \A k \in Keys \ {MyKey} : bpTable'[k] = bpTable[k]
    BY <1>0, <1>1, <2>1, EntryChange
  <2>3. config \in ConfigsOf(MyKey[2]) /\ NewEntry(config).config = config
    BY DEF PossibleConfigs, NewEntry
  <2> QED
    BY <2>1, <2>2, <2>3
<1>2. ASSUME bpTable[MyKey] # None, NEW on \in {TRUE, bpTable[MyKey].enabled},
             bpTable' = [bpTable EXCEPT ![MyKey] = [bpTable[MyKey] EXCEPT !.enabled = on]]
      PROVE  /\ bpTable'[MyKey] # None
             /\ \A k \in Keys \ {MyKey} : bpTable'[k] = bpTable[k]
             /\ bpTable'[MyKey].config \in ConfigsOf(MyKey[2])
  <2> DEFINE entry == [bpTable[MyKey] EXCEPT !.enabled = on]
  <2>1. bpTable[MyKey] \in Entry
    BY <1>0, <1>2 DEF Tables
  <2>2. entry \in Entry /\ entry.config = bpTable[MyKey].config
    BY <2>1, <1>2 DEF Entry
  <2>3. bpTable' = [bpTable EXCEPT ![MyKey] = entry]
    BY <1>2
  <2> HIDE DEF entry
  <2>4. bpTable'[MyKey] = entry /\ \A k \in Keys \ {MyKey} : bpTable'[k] = bpTable[k]
    BY <1>0, <2>2, <2>3, EntryChange
  <2> QED
    BY <1>0, <1>2, <2>2, <2>4, EntriesApart DEF TablesFit
<1> QED
  BY <1>0, <1>1, <1>2 DEF SetCommand

\* Writing a field of an entry leaves all that Bare() keeps.
LEMMA WriteKeepsBare ==
  ASSUME BreakpointInv, WriteField
  PROVE  /\ GotKey \in Keys
         /\ \A k \in Keys : /\ bpTable'[k] = None <=> bpTable[k] = None
                            /\ bpTable'[k].config = bpTable[k].config
                            /\ Bare(bpTable'[k]) = Bare(bpTable[k])
         /\ \A k \in Keys \ {GotKey} : bpTable'[k] = bpTable[k]
<1>0. /\ bpCall \in BreakpointCalls /\ bpTable \in Tables /\ GotKey \in Keys
  BY DEF BreakpointInv, BreakpointTypeOK, Tables, Prepared, WriteField, At, GotKey, Keys,
     BreakpointCalls
<1>1. CASE bpTable[GotKey] = None
  <2>1. bpTable' = bpTable
    BY <1>1 DEF WriteField
  <2> QED
    BY <1>0, <2>1
<1>2. CASE bpTable[GotKey] # None
  <2>1. bpTable[GotKey] \in Entry
    BY <1>0, <1>2 DEF Tables
  <2>2. PICK entry : /\ bpTable' = [bpTable EXCEPT ![GotKey] = entry]
                     /\ \/ entry = [bpTable[GotKey] EXCEPT !.hits = 0]
                        \/ /\ Field # "hits"
                           /\ entry = [bpTable[GotKey] EXCEPT !.texts = @ \cup {Field}]
    BY <1>2 DEF WriteField
  <2>3. Field \in Texts \cup {"hits"}
    BY <1>0, HeadTailProperties DEF BreakpointInv, Prepared, WriteField, At, BreakpointCalls, Field
  <2>4. entry.config = bpTable[GotKey].config /\ entry.enabled = bpTable[GotKey].enabled
    BY <2>1, <2>2 DEF Entry
  <2>5. bpTable'[GotKey] = entry /\ \A k \in Keys \ {GotKey} : bpTable'[k] = bpTable[k]
    BY <1>0, <2>2 DEF Tables
  <2>6. entry \in Entry
    BY <2>1, <2>2, <2>3, BoundAssumption DEF Entry
  <2> QED
    BY <1>0, <1>2, <2>4, <2>5, <2>6, EntriesApart DEF Bare
<1> QED
  BY <1>1, <1>2

LEMMA TablesStayFit ==
  ASSUME BreakpointInv, TablesFit, BreakpointNext PROVE TablesFit'
<1>0. bpTable \in Tables
  BY DEF BreakpointInv, BreakpointTypeOK, Tables
<1>1. ASSUME NEW k \in Keys, NEW entry, bpTable' = [bpTable EXCEPT ![k] = entry],
             entry # None => entry.config \in ConfigsOf(k[2])
      PROVE  TablesFit'
  <2>1. bpTable'[k] = entry /\ \A j \in Keys \ {k} : bpTable'[j] = bpTable[j]
    BY <1>0, <1>1 DEF Tables
  <2> QED
    BY <1>1, <2>1 DEF TablesFit
<1>2. ASSUME bpTable' = bpTable PROVE TablesFit'
  BY <1>2 DEF TablesFit
<1>3. ASSUME NEW k \in Keys, NEW on, bpTable[k] # None,
             bpTable' = [bpTable EXCEPT ![k] = [bpTable[k] EXCEPT !.enabled = on]]
      PROVE  TablesFit'
  <2>1. bpTable[k] \in Entry
    BY <1>0, <1>3 DEF Tables
  <2>2. [bpTable[k] EXCEPT !.enabled = on].config = bpTable[k].config
    BY <2>1 DEF Entry
  <2> QED
    BY <1>1, <1>3, <2>2 DEF TablesFit
<1>4. CASE BeginStep
  <2>1. bpTable' = bpTable
    BY <1>4 DEF BeginStep, BreakpointDeleteAll, BreakpointList, BreakpointDelete, BreakpointGet,
       BreakpointSwitch, BreakpointText, BreakpointResetHitCount, BreakpointSet, Enter
  <2> QED
    BY <1>2, <2>1
<1>5. CASE SetCommand
  BY <1>5, CommandSets DEF TablesFit
<1>6. CASE SetUndo
  <2>1. MyKey \in Keys
    BY <1>6 DEF SetUndo, At, BreakpointInv, BreakpointTypeOK, BreakpointCalls, Prepared, MyKey, Keys
  <2> QED
    BY <1>1, <1>2, <1>6, <2>1 DEF SetUndo
<1>7. CASE WriteField
  BY <1>7, WriteKeepsBare DEF TablesFit
<1>8. ASSUME NEW k \in Keys, RemoveEntry(k) PROVE TablesFit'
  BY <1>1, <1>8 DEF RemoveEntry
<1>9. CASE SwitchEntry
  <2>1. GotKey \in Keys
    BY <1>9 DEF SwitchEntry, At, BreakpointInv, BreakpointTypeOK, BreakpointCalls, Prepared,
       GotKey, Keys
  <2>2. CASE bpTable' = bpTable
    BY <1>2, <2>2
  <2>3. CASE /\ bpTable[GotKey] # None
             /\ bpTable' = [bpTable EXCEPT ![GotKey] =
                               [bpTable[GotKey] EXCEPT !.enabled = bpCall.enable]]
    BY <1>3, <2>1, <2>3
  <2> QED
    BY <1>9, <2>2, <2>3 DEF SwitchEntry
<1>10. CASE WorldStep
  <2>1. CASE DebuggeeGone
    BY <1>2, <2>1 DEF DebuggeeGone
  <2>2. ASSUME NEW k \in Keys, Hit(k) PROVE TablesFit'
    <3>1. bpTable[k] \in Entry
      BY <1>0, <2>2 DEF Hit, Tables
    <3>2. [bpTable[k] EXCEPT !.hits = bpTable[k].hits + 1].config = bpTable[k].config
      BY <3>1 DEF Entry
    <3>3. /\ bpTable[k] # None
          /\ bpTable' = [bpTable EXCEPT ![k] = [bpTable[k] EXCEPT !.hits = bpTable[k].hits + 1]]
      BY <2>2 DEF Hit
    <3> QED
      BY <1>1, <3>2, <3>3 DEF TablesFit
  <2>3. ASSUME NEW k \in Keys, OtherChange(k) PROVE TablesFit'
    <3>1. CASE \E config \in PossibleConfigs(k) : bpTable' = [bpTable EXCEPT ![k] = NewEntry(config)]
      <4>1. PICK config \in PossibleConfigs(k) :
               bpTable' = [bpTable EXCEPT ![k] = NewEntry(config)]
        BY <3>1
      <4>2. NewEntry(config).config \in ConfigsOf(k[2])
        BY DEF NewEntry, PossibleConfigs
      <4> QED
        BY <1>1, <4>1, <4>2
    <3>2. CASE bpTable' = [bpTable EXCEPT ![k] = None]
      BY <1>1, <3>2
    <3>3. CASE bpTable[k] # None
               /\ bpTable' = [bpTable EXCEPT ![k] = [bpTable[k] EXCEPT !.enabled = ~bpTable[k].enabled]]
      BY <1>3, <3>3
    <3> QED
      BY <2>3, <3>1, <3>2, <3>3 DEF OtherChange
  <2> QED
    BY <1>10, <2>1, <2>2, <2>3 DEF WorldStep
<1>11. CASE \/ SetCommandRefused \/ SetVerify \/ ChooseEntry \/ WriteRefused \/ DeleteSnapshot
            \/ DeleteAllList \/ FindEntry \/ SwitchRefused \/ ConfirmEntry
            \/ \E k \in Keys : RemoveRefused(k) \/ DeleteAllCheck(k)
  <2>1. bpTable' = bpTable
    BY <1>11 DEF SetCommandRefused, SetVerify, ChooseEntry, WriteRefused, DeleteSnapshot,
       DeleteAllList, FindEntry, SwitchRefused, ConfirmEntry, RemoveRefused, DeleteAllCheck,
       Refused, Unchanged
  <2> QED
    BY <1>2, <2>1
<1> QED
  BY <1>4, <1>5, <1>6, <1>7, <1>8, <1>9, <1>10, <1>11 DEF BreakpointNext, CallStep

\* A step of the request that nothing disturbs.
QuietStep ==
    /\ bpBefore # None /\ bpBefore' = bpBefore /\ bpDebugging
    /\ bpCall.step \notin {"ok", "failed"}
    /\ CallStep

LEMMA QuietStepIs ==
  ASSUME BreakpointInv, QuietStep
  PROVE  /\ bpCall \in BreakpointCalls /\ bpTable \in Tables /\ bpDebugging' = bpDebugging
         /\ \/ SetCommand \/ SetVerify \/ SetUndo \/ ChooseEntry \/ WriteField
            \/ DeleteSnapshot \/ DeleteAllList \/ FindEntry \/ SwitchEntry \/ ConfirmEntry
            \/ \E k \in Keys : RemoveEntry(k) \/ DeleteAllCheck(k)
<1>1. ~SetCommandRefused /\ ~WriteRefused /\ ~SwitchRefused /\ ~\E k \in Keys : RemoveRefused(k)
  BY DEF QuietStep, SetCommandRefused, WriteRefused, SwitchRefused, RemoveRefused, Refused
<1>2. bpDebugging' = bpDebugging
  BY DEF QuietStep, CallStep, SetCommand, SetCommandRefused, SetVerify, SetUndo, ChooseEntry,
     WriteField, WriteRefused, DeleteSnapshot, DeleteAllList, RemoveEntry, RemoveRefused,
     DeleteAllCheck, FindEntry, SwitchEntry, SwitchRefused, ConfirmEntry, Refused, Quiet
<1> QED
  BY <1>1, <1>2 DEF QuietStep, CallStep, BreakpointInv, BreakpointTypeOK, Tables

LEMMA SetStaysQuiet ==
  ASSUME BreakpointInv, TablesFit, QuietStep, SetQuiet, bpCall.op = "set"
  PROVE  SetQuiet' /\ bpCall'.op = "set"
<1>0. /\ bpCall \in BreakpointCalls /\ bpTable \in Tables /\ MyKey \in Keys
      /\ bpCall.type \in BreakpointTypes /\ bpCall.type # None
      /\ bpCall.step \in {"command", "verify", "undo", "choose", "write"}
      /\ bpBefore # None /\ bpBefore' = bpBefore /\ bpDebugging
  BY QuietStepIs, EntriesApart DEF QuietStep, SetQuiet, BreakpointCalls, MyKey, Keys
<1>1. \/ SetCommand \/ SetVerify \/ SetUndo \/ ChooseEntry \/ WriteField
  BY <1>0, QuietStepIs DEF DeleteSnapshot, DeleteAllList, FindEntry, SwitchEntry, ConfirmEntry,
     RemoveEntry, DeleteAllCheck, At
<1>2. \A entry1, entry2 : entry1 = entry2 => Bare(entry1) = Bare(entry2)
  OBVIOUS
<1>3. CASE SetCommand
  <2>1. /\ bpTable'[MyKey] # None /\ \A k \in Keys \ {MyKey} : bpTable'[k] = bpTable[k]
        /\ bpTable'[MyKey].config \in ConfigsOf(bpCall.type)
    BY <1>3, CommandSets DEF MyKey
  <2>2. \A k \in Keys \ {MyKey} : bpTable'[k] = bpBefore[k]
    BY <1>3, <2>1 DEF SetQuiet, SetCommand, At, Untouched
  <2>3. CASE bpCall.type # "software"
    <3>1. /\ bpCall'.step = "verify" /\ bpCall'.op = bpCall.op /\ bpCall'.addr = bpCall.addr
          /\ bpCall'.type = bpCall.type /\ bpCall'.config = bpCall.config
      BY <1>0, <1>3, <2>3, GotoIs DEF SetCommand
    <3> QED
      BY <1>0, <2>2, <3>1 DEF SetQuiet, SameBut, MyKey
  <2>4. CASE bpCall.type = "software"
    <3>1. /\ bpCall'.step \in {"ok", "choose"} /\ bpCall'.op = bpCall.op
          /\ bpCall'.addr = bpCall.addr /\ bpCall'.type = bpCall.type
          /\ bpCall'.config = bpCall.config
      BY <1>0, <1>3, <2>4, GotoIs DEF SetCommand, AfterSet
    <3>2. bpTable'[MyKey].config = bpCall.config
      BY <2>1, <2>4 DEF SetQuiet, ConfigsOf
    <3>3. MyKey' = MyKey
      BY <3>1 DEF MyKey
    <3>4. MatchesRequest'
      BY <2>1, <3>1, <3>2, <3>3 DEF MatchesRequest
    <3>5. \A k \in Keys \ {MyKey} : Bare(bpTable'[k]) = Bare(bpBefore'[k])
      BY <1>0, <2>2
    <3> QED
      BY <1>0, <3>1, <3>3, <3>4, <3>5 DEF SetQuiet
  <2> QED
    BY <2>3, <2>4
<1>4. CASE SetVerify
  <2>1. /\ bpTable' = bpTable /\ SameBut({MyKey})
        /\ Goto(IF MatchesRequest THEN AfterSet ELSE "undo")
    BY <1>4 DEF SetVerify, Unchanged, SetQuiet, At
  <2>2. /\ bpCall'.op = bpCall.op /\ bpCall'.addr = bpCall.addr
        /\ bpCall'.type = bpCall.type /\ bpCall'.config = bpCall.config
        /\ IF MatchesRequest THEN bpCall'.step \in {"ok", "choose"} ELSE bpCall'.step = "undo"
    BY <1>0, <2>1, GotoIs DEF AfterSet
  <2>3. MyKey' = MyKey /\ MatchesRequest' = MatchesRequest /\ SameBut({MyKey})'
    BY <1>0, <2>1, <2>2 DEF MyKey, MatchesRequest, SameBut
  <2>4. \A k \in Keys \ {MyKey} : Bare(bpTable'[k]) = Bare(bpBefore'[k])
    BY <1>0, <2>1 DEF SameBut
  <2> QED
    BY <1>0, <2>2, <2>3, <2>4 DEF SetQuiet
<1>5. CASE SetUndo
  <2>1. bpTable' = [bpTable EXCEPT ![MyKey] = None] /\ Goto("failed") /\ SameBut({MyKey})
    BY <1>0, <1>5 DEF SetUndo, SetQuiet, At
  <2>2. bpTable'[MyKey] = None /\ \A k \in Keys \ {MyKey} : bpTable'[k] = bpBefore[k]
    BY <1>0, <2>1, EntryChange DEF SameBut
  <2>3. /\ bpCall'.op = bpCall.op /\ bpCall'.type = bpCall.type
        /\ bpCall'.config = bpCall.config /\ bpCall'.step = "failed"
    BY <1>0, <2>1, GotoIs
  <2>4. AddsNothing'
    BY <1>0, <2>2 DEF AddsNothing
  <2> QED
    BY <1>0, <2>3, <2>4 DEF SetQuiet
<1>6. CASE ChooseEntry
  <2>1. /\ bpTable' = bpTable /\ MatchesRequest
        /\ \A k \in Keys \ {MyKey} : Bare(bpTable[k]) = Bare(bpBefore[k])
    BY <1>6 DEF ChooseEntry, Unchanged, SetQuiet, At
  <2>2. bpCall.type \in TypesAt(bpCall.addr)
    BY <1>0, <2>1 DEF MatchesRequest, TypesAt, MyKey
  <2> DEFINE got == PreferredOf(TypesAt(bpCall.addr))
  <2>3. bpCall' = [bpCall EXCEPT !.got = got, !.step = "write"]
    BY <1>0, <1>6, <2>2 DEF ChooseEntry
  <2>4. got \in TypesAt(bpCall.addr)
    BY <2>2, PreferredIsOne DEF TypesAt
  <2> HIDE DEF got
  <2>5. /\ bpCall'.op = bpCall.op /\ bpCall'.addr = bpCall.addr /\ bpCall'.type = bpCall.type
        /\ bpCall'.config = bpCall.config /\ bpCall'.step = "write" /\ bpCall'.got = got
    BY <1>0, <2>3 DEF BreakpointCalls
  <2>6. MyKey' = MyKey /\ MatchesRequest' /\ bpTable'[GotKey'] # None
    BY <2>1, <2>4, <2>5 DEF MyKey, GotKey, MatchesRequest, TypesAt
  <2> QED
    BY <1>0, <2>1, <2>5, <2>6 DEF SetQuiet
<1>7. CASE WriteField
  <2>1. /\ MatchesRequest /\ bpTable[GotKey] # None
        /\ \A k \in Keys \ {MyKey} : Bare(bpTable[k]) = Bare(bpBefore[k])
    BY <1>7 DEF WriteField, SetQuiet, At
  <2>2. NextField(FieldDone)
    BY <1>7, <2>1 DEF WriteField
  <2>3. /\ bpCall'.op = bpCall.op /\ bpCall'.addr = bpCall.addr /\ bpCall'.type = bpCall.type
        /\ bpCall'.config = bpCall.config /\ bpCall'.step \in {"ok", "choose"}
    BY <1>0, <2>2, NextFieldIs DEF FieldDone
  <2>4. \A k \in Keys : /\ bpTable'[k] = None <=> bpTable[k] = None
                        /\ bpTable'[k].config = bpTable[k].config
                        /\ Bare(bpTable'[k]) = Bare(bpTable[k])
    BY <1>7, WriteKeepsBare
  <2>5. MyKey' = MyKey /\ MatchesRequest'
    BY <1>0, <2>1, <2>3, <2>4 DEF MyKey, MatchesRequest
  <2>6. \A k \in Keys \ {MyKey} : Bare(bpTable'[k]) = Bare(bpBefore'[k])
    BY <1>0, <2>1, <2>4
  <2> QED
    BY <1>0, <2>3, <2>5, <2>6 DEF SetQuiet
<1> QED
  BY <1>1, <1>3, <1>4, <1>5, <1>6, <1>7, GotoIs DEF SetQuiet

LEMMA TextStaysQuiet ==
  ASSUME BreakpointInv, QuietStep, TextQuiet, bpCall.op \in TextOperations
  PROVE  TextQuiet' /\ bpCall'.op = bpCall.op
<1>0. /\ bpCall \in BreakpointCalls /\ bpTable \in Tables /\ bpCall.step \in {"choose", "write"}
      /\ bpBefore # None /\ bpBefore' = bpBefore /\ bpDebugging
      /\ Untouched /\ bpCall.fields = <<FieldOf(bpCall.op)>>
  BY QuietStepIs DEF QuietStep, TextQuiet
<1>1. ChooseEntry \/ WriteField
  BY <1>0, QuietStepIs DEF DeleteSnapshot, DeleteAllList, FindEntry, SwitchEntry, ConfirmEntry,
     RemoveEntry, DeleteAllCheck, At, SetCommand, SetVerify, SetUndo
<1>2. bpCall.op # "set" /\ Field = FieldOf(bpCall.op) /\ Tail(bpCall.fields) = <<>>
  BY <1>0 DEF TextOperations, Field, FieldOf
<1>3. TypesAt(bpCall.addr) = BeforeAt(bpCall.addr)
  BY <1>0 DEF Untouched, TypesAt, BeforeAt
<1>4. CASE ChooseEntry
  <2>1. bpTable' = bpTable
    BY <1>4 DEF ChooseEntry, Unchanged
  <2>2. CASE TypesAt(bpCall.addr) = {}
    <3>1. NextField("failed")
      BY <1>0, <1>2, <1>4, <2>2 DEF ChooseEntry, FieldFailed
    <3>2. bpCall'.step = "failed" /\ bpCall'.op = bpCall.op
      BY <1>0, <3>1, NextFieldIs
    <3> QED
      BY <1>0, <2>1, <3>2 DEF TextQuiet, Untouched
  <2>3. CASE TypesAt(bpCall.addr) # {}
    <3> DEFINE got == PreferredOf(TypesAt(bpCall.addr))
    <3>1. bpCall' = [bpCall EXCEPT !.got = got, !.step = "write"]
      BY <1>0, <1>4, <2>3 DEF ChooseEntry
    <3>2. got \in TypesAt(bpCall.addr) /\ <<bpCall.addr, got>> = FirstBefore
      BY <1>3, <2>3, PreferredIsOne DEF TypesAt, FirstBefore
    <3> HIDE DEF got
    <3>3. /\ bpCall'.op = bpCall.op /\ bpCall'.addr = bpCall.addr /\ bpCall'.step = "write"
          /\ bpCall'.fields = bpCall.fields /\ bpCall'.got = got
      BY <1>0, <3>1 DEF BreakpointCalls
    <3>4. GotKey' = FirstBefore /\ FirstBefore' = FirstBefore /\ bpTable[<<bpCall.addr, got>>] # None
      BY <1>0, <3>2, <3>3 DEF GotKey, FirstBefore, BeforeAt, TypesAt
    <3>5. GotKey' = FirstBefore' /\ bpTable'[GotKey'] # None
      BY <2>1, <3>2, <3>4
    <3> QED
      BY <1>0, <2>1, <3>3, <3>5 DEF TextQuiet, Untouched
  <2> QED
    BY <2>2, <2>3
<1>5. CASE WriteField
  <2>1. bpTable[GotKey] # None /\ GotKey = FirstBefore
    BY <1>5 DEF WriteField, TextQuiet, At
  <2>2. NextField("ok") /\ GotKey \in Keys
    BY <1>2, <1>5, <2>1, WriteKeepsBare DEF WriteField, FieldDone
  <2>3. bpCall'.step = "ok" /\ bpCall'.op = bpCall.op /\ bpCall'.addr = bpCall.addr
    BY <1>0, <2>2, NextFieldIs
  <2>4. FirstBefore' = FirstBefore
    BY <1>0, <2>3 DEF FirstBefore, BeforeAt
  <2>5. SameBut({FirstBefore})'
    BY <1>0, <1>5, <2>1, <2>4, WriteKeepsBare DEF SameBut, Untouched
  <2>6. bpTable[GotKey] = bpBefore[FirstBefore] /\ bpTable[GotKey] \in Entry
    BY <1>0, <2>1, <2>2 DEF Untouched, Tables
  <2>7. CASE bpCall.op = "reset_hitcount"
    <3>1. bpTable' = [bpTable EXCEPT ![GotKey] = [bpTable[GotKey] EXCEPT !.hits = 0]]
      BY <1>2, <1>5, <2>1, <2>7 DEF WriteField, FieldOf
    <3>2. bpTable'[FirstBefore] = [bpBefore[FirstBefore] EXCEPT !.hits = 0]
      BY <1>0, <2>1, <2>2, <2>6, <3>1 DEF Tables
    <3>3. Contract'
      BY <1>0, <2>3, <2>4, <2>5, <2>7, <3>2 DEF Contract
    <3> QED
      BY <1>0, <2>3, <3>3 DEF TextQuiet
  <2>8. CASE bpCall.op \in {"set_condition", "set_log"}
    <3> DEFINE field == IF bpCall.op = "set_log" THEN "log" ELSE "condition"
    <3>1. Field = field /\ Field # "hits"
      BY <1>2, <2>8 DEF FieldOf
    <3>2. bpTable' = [bpTable EXCEPT ![GotKey] =
                         [bpTable[GotKey] EXCEPT !.texts = bpTable[GotKey].texts \cup {field}]]
      BY <1>5, <2>1, <3>1 DEF WriteField
    <3>3. bpTable'[FirstBefore] =
             [bpBefore[FirstBefore] EXCEPT !.texts = bpBefore[FirstBefore].texts \cup {field}]
      BY <1>0, <2>1, <2>2, <2>6, <3>2 DEF Tables
    <3>4. Contract'
      BY <1>0, <2>3, <2>4, <2>5, <2>8, <3>3 DEF Contract
    <3> QED
      BY <1>0, <2>3, <3>4 DEF TextQuiet
  <2> QED
    BY <2>7, <2>8 DEF TextOperations
<1> QED
  BY <1>1, <1>4, <1>5

\* An entry is removed, and the call goes on to the next.
LEMMA AfterRemoveIs ==
  ASSUME bpCall \in BreakpointCalls, NEW k \in Keys, NEW removed \in BOOLEAN,
         AfterRemove(k, removed)
  PROVE  /\ bpCall'.op = bpCall.op /\ bpCall'.addr = bpCall.addr /\ bpCall'.type = bpCall.type
         /\ bpCall'.todo = bpCall.todo \ {k}
         /\ bpCall'.count = IF bpCall.op = "delete_all" /\ removed THEN bpCall.count + 1
                            ELSE bpCall.count
         /\ bpCall.op = "delete_all" =>
               bpCall'.step = IF bpCall'.todo = {} THEN "ok" ELSE "check"
         /\ bpCall.op = "delete" =>
               IF bpCall'.todo # {} THEN bpCall'.step = "remove"
               ELSE bpCall'.step \in {"ok", "failed"}
<1> DEFINE rest == bpCall.todo \ {k}
           good == bpCall.good /\ removed
           count == IF bpCall.op = "delete_all" /\ removed THEN bpCall.count + 1 ELSE bpCall.count
           step == IF bpCall.op = "delete_all" THEN (IF rest = {} THEN "ok" ELSE "check")
                   ELSE IF rest # {} THEN "remove"
                   ELSE IF good THEN "ok" ELSE "failed"
<1>1. bpCall' = [bpCall EXCEPT !.todo = rest, !.good = good, !.count = count, !.step = step]
  BY DEF AfterRemove
<1>2. /\ bpCall.op = "delete_all" => step = IF rest = {} THEN "ok" ELSE "check"
      /\ bpCall.op = "delete" => IF rest # {} THEN step = "remove" ELSE step \in {"ok", "failed"}
  OBVIOUS
<1> HIDE DEF step, good, rest, count
<1>3. /\ bpCall'.op = bpCall.op /\ bpCall'.addr = bpCall.addr /\ bpCall'.type = bpCall.type
      /\ bpCall'.todo = rest /\ bpCall'.count = count /\ bpCall'.step = step
  BY <1>1 DEF BreakpointCalls
<1> QED
  BY <1>2, <1>3 DEF rest, count

LEMMA DeleteStaysQuiet ==
  ASSUME BreakpointInv, QuietStep, DeleteQuiet, bpCall.op = "delete"
  PROVE  DeleteQuiet' /\ bpCall'.op = "delete"
<1>0. /\ bpCall \in BreakpointCalls /\ bpTable \in Tables /\ bpCall.step \in {"snapshot", "remove"}
      /\ bpBefore # None /\ bpBefore' = bpBefore /\ bpDebugging
      /\ SameBut(GoneAt) /\ \A k \in GoneAt : bpTable[k] \in {bpBefore[k], None}
  BY QuietStepIs DEF QuietStep, DeleteQuiet
<1>1. DeleteSnapshot \/ \E k \in Keys : RemoveEntry(k)
  BY <1>0, QuietStepIs DEF ChooseEntry, WriteField, DeleteAllList, FindEntry, SwitchEntry,
     ConfirmEntry, DeleteAllCheck, At, SetCommand, SetVerify, SetUndo
<1>2. CASE DeleteSnapshot
  <2> DEFINE keys == IF bpCall.type = None THEN Deletes
                     ELSE {k \in Deletes : k[2] = bpCall.type}
             step == IF keys = {} THEN "failed" ELSE "remove"
  <2>1. bpCall' = [bpCall EXCEPT !.todo = keys, !.step = step] /\ bpTable' = bpTable
    BY <1>2 DEF DeleteSnapshot, Unchanged
  <2>2. keys \subseteq GoneAt /\ \A k \in GoneAt \ keys : bpTable[k] = None
    <3>1. \A k \in Keys : k[2] \in BreakpointTypes /\ k = <<k[1], k[2]>>
      BY DEF Keys
    <3> QED
      BY <3>1 DEF Deletes, GoneAt, TypesAt
  <2>3. step \in {"failed", "remove"}
    OBVIOUS
  <2> HIDE DEF keys, step
  <2>4. /\ bpCall'.op = "delete" /\ bpCall'.addr = bpCall.addr /\ bpCall'.type = bpCall.type
        /\ bpCall'.todo = keys /\ bpCall'.step = step
    BY <1>0, <2>1 DEF BreakpointCalls
  <2>5. GoneAt' = GoneAt
    BY <2>4 DEF GoneAt
  <2> QED
    BY <1>0, <2>1, <2>2, <2>3, <2>4, <2>5 DEF DeleteQuiet, SameBut
<1>3. ASSUME NEW k \in Keys, RemoveEntry(k) PROVE DeleteQuiet' /\ bpCall'.op = "delete"
  <2>1. /\ bpCall.todo \subseteq GoneAt /\ \A j \in GoneAt \ bpCall.todo : bpTable[j] = None
        /\ k \in bpCall.todo
    BY <1>3 DEF RemoveEntry, NextEntry, DeleteQuiet, At
  <2>2. bpTable'[k] = None /\ \A j \in Keys \ {k} : bpTable'[j] = bpTable[j]
    BY <1>0, <1>3, EntryChange DEF RemoveEntry
  <2>3. /\ bpCall'.op = "delete" /\ bpCall'.addr = bpCall.addr /\ bpCall'.type = bpCall.type
        /\ bpCall'.todo = bpCall.todo \ {k}
        /\ IF bpCall'.todo # {} THEN bpCall'.step = "remove" ELSE bpCall'.step \in {"ok", "failed"}
    BY <1>0, <1>3, AfterRemoveIs DEF RemoveEntry
  <2>4. GoneAt' = GoneAt /\ GoneAt \subseteq Keys
    BY <2>3 DEF GoneAt
  <2>5. /\ \A j \in GoneAt : bpTable'[j] \in {bpBefore[j], None}
        /\ \A j \in Keys \ GoneAt : bpTable'[j] = bpBefore[j]
    BY <1>0, <2>1, <2>2, <2>4 DEF SameBut
  <2>6. bpCall'.todo \subseteq GoneAt /\ \A j \in GoneAt \ bpCall'.todo : bpTable'[j] = None
    BY <2>1, <2>2, <2>3, <2>4
  <2> QED
    BY <1>0, <2>3, <2>4, <2>5, <2>6 DEF DeleteQuiet, SameBut
<1> QED
  BY <1>1, <1>2, <1>3

LEMMA DeleteAllStaysQuiet ==
  ASSUME BreakpointInv, QuietStep, DeleteAllQuiet, bpCall.op = "delete_all"
  PROVE  DeleteAllQuiet' /\ bpCall'.op = "delete_all"
<1>0. /\ bpCall \in BreakpointCalls /\ bpTable \in Tables /\ bpCall.step \in {"list", "check", "remove"}
      /\ bpBefore # None /\ bpBefore' = bpBefore /\ bpDebugging
  BY QuietStepIs DEF QuietStep, DeleteAllQuiet
<1>1. DeleteAllList \/ \E k \in Keys : RemoveEntry(k) \/ DeleteAllCheck(k)
  BY <1>0, QuietStepIs DEF ChooseEntry, WriteField, DeleteSnapshot, FindEntry, SwitchEntry,
     ConfirmEntry, At, SetCommand, SetVerify, SetUndo
<1>2. GoneAll \subseteq Keys
  BY DEF GoneAll
<1>3. CASE DeleteAllList
  <2> DEFINE keys == ListBreakpoints(bpCall.type)
             step == IF keys = {} THEN "ok" ELSE "check"
  <2>1. bpCall' = [bpCall EXCEPT !.todo = keys, !.step = step] /\ bpTable' = bpTable
    BY <1>0, <1>3 DEF DeleteAllList, Unchanged
  <2>2. /\ keys \subseteq GoneAll /\ \A k \in GoneAll \ keys : bpTable[k] = None
        /\ \A k \in keys : bpTable[k] # None
    BY DEF ListBreakpoints, GoneAll
  <2>3. step \in {"ok", "check"} /\ (step = "ok" => keys = {})
    OBVIOUS
  <2> HIDE DEF keys, step
  <2>4. /\ bpCall'.op = "delete_all" /\ bpCall'.type = bpCall.type /\ bpCall'.count = bpCall.count
        /\ bpCall'.todo = keys /\ bpCall'.step = step
    BY <1>0, <2>1 DEF BreakpointCalls
  <2>5. GoneAll' = GoneAll
    BY <2>4 DEF GoneAll
  <2>6. bpTable = bpBefore /\ bpCall.count = 0
    BY <1>3 DEF DeleteAllList, At, DeleteAllQuiet, Untouched
  <2>7. Taken' = {}
    BY <1>0, <2>1, <2>5, <2>6 DEF Taken
  <2>8. IsFiniteSet(Taken') /\ bpCall'.count = Cardinality(Taken')
    BY <2>4, <2>6, <2>7, FS_EmptySet
  <2>9. SameBut(GoneAll)'
    BY <1>0, <2>1, <2>6 DEF SameBut
  <2>10. /\ bpCall'.todo \subseteq GoneAll'
         /\ \A k \in GoneAll' : bpTable'[k] = IF k \in bpCall'.todo THEN bpBefore'[k] ELSE None
         /\ \A k \in bpCall'.todo : bpBefore'[k] # None
         /\ bpCall'.step = "ok" => \A k \in GoneAll' : bpTable'[k] = None
    BY <1>0, <2>1, <2>2, <2>3, <2>4, <2>5, <2>6
  <2> QED
    BY <2>3, <2>4, <2>8, <2>9, <2>10 DEF DeleteAllQuiet
<1>4. ASSUME NEW k \in Keys, DeleteAllCheck(k)
      PROVE  DeleteAllQuiet' /\ bpCall'.op = "delete_all"
  <2>1. /\ bpCall.todo \subseteq GoneAll /\ bpTable[k] = bpBefore[k] /\ bpBefore[k] # None
        /\ k \in bpCall.todo /\ bpTable' = bpTable
    BY <1>4 DEF DeleteAllCheck, DeleteAllQuiet, At, Unchanged
  <2>2. k[2] \in TypesAt(k[1])
    BY <2>1 DEF TypesAt, Keys
  <2>3. bpCall' = [bpCall EXCEPT !.addr = k[1], !.got = k[2], !.step = "remove"]
    BY <1>0, <1>4, <2>2 DEF DeleteAllCheck
  <2>4. /\ bpCall'.op = "delete_all" /\ bpCall'.type = bpCall.type /\ bpCall'.count = bpCall.count
        /\ bpCall'.todo = bpCall.todo /\ bpCall'.step = "remove"
    BY <1>0, <2>3 DEF BreakpointCalls
  <2>5. GoneAll' = GoneAll /\ Taken' = Taken /\ SameBut(GoneAll)' = SameBut(GoneAll)
    BY <1>0, <2>1, <2>4 DEF GoneAll, Taken, SameBut
  <2>6. bpCall.step = "check"
    BY <1>4 DEF DeleteAllCheck, At
  <2>7. /\ SameBut(GoneAll) /\ IsFiniteSet(Taken) /\ bpCall.count = Cardinality(Taken)
        /\ \A j \in GoneAll : bpTable[j] = IF j \in bpCall.todo THEN bpBefore[j] ELSE None
        /\ \A j \in bpCall.todo : bpBefore[j] # None
    BY <2>6 DEF DeleteAllQuiet
  <2> QED
    BY <1>0, <2>1, <2>4, <2>5, <2>7 DEF DeleteAllQuiet
<1>5. ASSUME NEW k \in Keys, RemoveEntry(k)
      PROVE  DeleteAllQuiet' /\ bpCall'.op = "delete_all"
  <2>1. /\ bpCall.todo \subseteq GoneAll /\ k \in bpCall.todo
        /\ SameBut(GoneAll) /\ IsFiniteSet(Taken) /\ bpCall.count = Cardinality(Taken)
        /\ \A j \in GoneAll : bpTable[j] = IF j \in bpCall.todo THEN bpBefore[j] ELSE None
        /\ \A j \in bpCall.todo : bpBefore[j] # None
    BY <1>5 DEF RemoveEntry, NextEntry, DeleteAllQuiet, At
  <2>2. bpTable'[k] = None /\ \A j \in Keys \ {k} : bpTable'[j] = bpTable[j]
    BY <1>0, <1>5, EntryChange DEF RemoveEntry
  <2>3. AfterRemove(k, TRUE)
    BY <1>5, <2>1 DEF RemoveEntry
  <2>4. /\ bpCall'.op = "delete_all" /\ bpCall'.type = bpCall.type
        /\ bpCall'.todo = bpCall.todo \ {k} /\ bpCall'.count = bpCall.count + 1
        /\ bpCall'.step = IF bpCall'.todo = {} THEN "ok" ELSE "check"
    BY <1>0, <2>3, AfterRemoveIs
  <2>5. GoneAll' = GoneAll
    BY <2>4 DEF GoneAll
  <2>6. k \in GoneAll /\ k \notin Taken /\ Taken' = Taken \cup {k}
    BY <1>0, <1>2, <2>1, <2>2, <2>5 DEF Taken
  <2>7. IsFiniteSet(Taken') /\ Cardinality(Taken') = Cardinality(Taken) + 1
    BY <2>1, <2>6, FS_AddElement
  <2>8. bpCall'.count = Cardinality(Taken')
    BY <2>1, <2>4, <2>7
  <2>9. SameBut(GoneAll)'
    BY <1>0, <2>1, <2>2, <2>5, <2>6 DEF SameBut
  <2>10. /\ bpCall'.todo \subseteq GoneAll'
         /\ \A j \in GoneAll' : bpTable'[j] = IF j \in bpCall'.todo THEN bpBefore'[j] ELSE None
         /\ \A j \in bpCall'.todo : bpBefore'[j] # None
    BY <1>0, <1>2, <2>1, <2>2, <2>4, <2>5
  <2>11. bpCall'.step \in {"ok", "check"} /\ (bpCall'.step = "ok" => bpCall'.todo = {})
    BY <2>4
  <2> QED
    BY <2>4, <2>7, <2>8, <2>9, <2>10, <2>11 DEF DeleteAllQuiet
<1> QED
  BY <1>1, <1>3, <1>4, <1>5

LEMMA SwitchStaysQuiet ==
  ASSUME BreakpointInv, TablesFit, QuietStep, SwitchQuiet, bpCall.op \in Switches
  PROVE  SwitchQuiet' /\ bpCall'.op = bpCall.op
<1>0. /\ bpCall \in BreakpointCalls /\ bpTable \in Tables
      /\ bpCall.step \in {"find", "switch", "confirm", "command"}
      /\ bpBefore # None /\ bpBefore' = bpBefore /\ bpDebugging /\ bpCall.op \notin {"set"}
  BY QuietStepIs DEF QuietStep, SwitchQuiet, Switches
<1>1. FindEntry \/ SwitchEntry \/ ConfirmEntry \/ SetCommand
  BY <1>0, QuietStepIs DEF ChooseEntry, WriteField, DeleteSnapshot, DeleteAllList, RemoveEntry,
     DeleteAllCheck, At, SetVerify, SetUndo
<1>2. CASE FindEntry
  <2>1. bpTable' = bpTable /\ bpTable = bpBefore /\ bpCall.fields = <<>> /\ bpCall.got = None
    BY <1>2 DEF FindEntry, Unchanged, SwitchQuiet, At, Untouched
  <2> DEFINE t == GetBreakpoint(bpCall.addr, bpCall.type)
  <2>2. CASE t # None
    <3> DEFINE enable == IF bpCall.op = "toggle" THEN ~bpTable[<<bpCall.addr, t>>].enabled
                         ELSE bpCall.op = "enable"
    <3>1. bpCall' = [bpCall EXCEPT !.got = t, !.step = "switch", !.enable = enable]
      BY <1>0, <1>2, <2>2 DEF FindEntry
    <3>2. t \in TypesAt(bpCall.addr) /\ (bpCall.type = None => t = PreferredOf(TypesAt(bpCall.addr)))
      <4>1. TypesAt(bpCall.addr) \subseteq BreakpointTypes
        BY DEF TypesAt
      <4>2. CASE bpCall.type = None
        BY <2>2, <4>1, <4>2, PreferredIsOne DEF GetBreakpoint
      <4>3. CASE bpCall.type # None
        <5>1. TypesAt(bpCall.addr) \cap {bpCall.type} \in SUBSET BreakpointTypes
          BY <4>1
        <5>2. t = PreferredOf(TypesAt(bpCall.addr) \cap {bpCall.type})
          BY <4>3 DEF GetBreakpoint
        <5> QED
          BY <2>2, <4>3, <5>1, <5>2, PreferredIsOne
      <4> QED
        BY <4>2, <4>3
    <3> DEFINE got == t
    <3>3. /\ got \in TypesAt(bpCall.addr)
          /\ bpCall.type = None => got = PreferredOf(TypesAt(bpCall.addr))
          /\ bpCall' = [bpCall EXCEPT !.got = got, !.step = "switch", !.enable = enable]
          /\ enable = IF bpCall.op = "toggle" THEN ~bpTable[<<bpCall.addr, got>>].enabled
                      ELSE bpCall.op = "enable"
      BY <3>1, <3>2
    <3> HIDE DEF got, enable
    <3>4. /\ bpCall'.op = bpCall.op /\ bpCall'.addr = bpCall.addr /\ bpCall'.type = bpCall.type
          /\ bpCall'.step = "switch" /\ bpCall'.got = got /\ bpCall'.enable = enable
      BY <1>0, <3>3 DEF BreakpointCalls
    <3>5. GotKey' = <<bpCall.addr, got>> /\ FirstBefore' = <<bpCall.addr, PreferredOf(TypesAt(bpCall.addr))>>
      BY <1>0, <2>1, <3>4 DEF GotKey, FirstBefore, BeforeAt, TypesAt
    <3>6. EntryFound'
      BY <1>0, <2>1, <3>3, <3>4, <3>5 DEF EntryFound, TypesAt
    <3> QED
      BY <1>0, <2>1, <3>4, <3>6 DEF SwitchQuiet, Untouched, Switches
  <2>3. CASE t = None /\ bpCall.op = "toggle" /\ bpCall.type \in {None, "software"}
    <3>1. bpCall' = [bpCall EXCEPT !.type = "software", !.step = "command"]
      BY <1>0, <1>2, <2>3 DEF FindEntry
    <3>2. /\ bpCall'.op = bpCall.op /\ bpCall'.addr = bpCall.addr /\ bpCall'.type = "software"
          /\ bpCall'.step = "command" /\ bpCall'.got = None /\ bpCall'.fields = <<>>
      BY <1>0, <2>1, <3>1 DEF BreakpointCalls
    <3>3. "software" \notin TypesAt(bpCall.addr)
      <4>1. TypesAt(bpCall.addr) \subseteq BreakpointTypes
        BY DEF TypesAt
      <4>2. TypesAt(bpCall.addr) \cap {"software"} \in SUBSET BreakpointTypes
        BY <4>1
      <4>3. \A types \in SUBSET BreakpointTypes : PreferredOf(types) = None => types = {}
        BY PreferredIsOne, EntriesApart
      <4>4. PreferredOf(IF bpCall.type = None THEN TypesAt(bpCall.addr)
                        ELSE TypesAt(bpCall.addr) \cap {bpCall.type}) = None
        BY <2>3 DEF GetBreakpoint
      <4>5. CASE bpCall.type = None
        BY <4>1, <4>3, <4>4, <4>5
      <4>6. CASE bpCall.type # None
        BY <2>3, <4>2, <4>3, <4>4, <4>6
      <4> QED
        BY <4>5, <4>6
    <3>4. bpTable[<<bpCall.addr, "software">>] = None
      BY <3>3 DEF TypesAt, BreakpointTypes
    <3>5. EntryLacking'
      BY <1>0, <2>1, <2>3, <3>2, <3>4 DEF EntryLacking, MyKey
    <3> QED
      BY <1>0, <2>1, <3>2, <3>5 DEF SwitchQuiet, Untouched, Switches
  <2>4. CASE t = None /\ ~(bpCall.op = "toggle" /\ bpCall.type \in {None, "software"})
    <3>1. Goto("failed")
      BY <1>0, <1>2, <2>4 DEF FindEntry
    <3>2. bpCall'.step = "failed" /\ bpCall'.op = bpCall.op
      BY <1>0, <3>1, GotoIs
    <3> QED
      BY <1>0, <2>1, <3>2 DEF SwitchQuiet, Untouched
  <2> QED
    BY <2>2, <2>3, <2>4
<1>3. CASE SwitchEntry
  <2>1. bpTable = bpBefore /\ EntryFound
    BY <1>3 DEF SwitchEntry, SwitchQuiet, At, Untouched
  <2>2. /\ GotKey \in Keys /\ bpTable[GotKey] # None /\ bpTable[GotKey] \in Entry
    BY <1>0, <2>1 DEF EntryFound, GotKey, Keys, BreakpointCalls, Tables
  <2>3. Goto("confirm") /\ bpTable' = [bpTable EXCEPT ![GotKey] =
                                          [bpTable[GotKey] EXCEPT !.enabled = bpCall.enable]]
    BY <1>3, <2>2 DEF SwitchEntry
  <2>4. /\ bpCall'.op = bpCall.op /\ bpCall'.addr = bpCall.addr /\ bpCall'.type = bpCall.type
        /\ bpCall'.step = "confirm" /\ bpCall'.got = bpCall.got /\ bpCall'.enable = bpCall.enable
    BY <1>0, <2>3, GotoIs
  <2>5. EntryFound' /\ GotKey' = GotKey
    BY <1>0, <2>1, <2>4 DEF EntryFound, GotKey, FirstBefore, BeforeAt
  <2>6. /\ bpTable'[GotKey] = [bpBefore[GotKey] EXCEPT !.enabled = bpCall.enable]
        /\ \A k \in Keys \ {GotKey} : bpTable'[k] = bpBefore[k]
    BY <1>0, <2>1, <2>2, <2>3 DEF Tables
  <2>7. EntrySwitched'
    BY <1>0, <2>4, <2>5, <2>6 DEF EntrySwitched, SameBut
  <2> QED
    BY <1>0, <2>4, <2>5, <2>7 DEF SwitchQuiet, Switches
<1>4. CASE ConfirmEntry
  <2>1. bpTable' = bpTable /\ EntryFound /\ EntrySwitched
    BY <1>4 DEF ConfirmEntry, SwitchQuiet, At, Unchanged
  <2>2. GotKey \in Keys /\ bpBefore[GotKey] \in Entry
    BY <1>0, <2>1 DEF EntryFound, GotKey, Keys, BreakpointCalls, BreakpointInv, BreakpointTypeOK
  <2>3. bpTable[GotKey] # None /\ bpTable[GotKey].enabled = bpCall.enable
    <3>1. bpTable[GotKey].enabled = bpCall.enable
      BY <2>1, <2>2 DEF EntrySwitched, Entry
    <3>2. bpCall.enable \in BOOLEAN
      BY <1>0 DEF BreakpointCalls
    <3>3. bpTable[GotKey] \in Entry
      BY <2>1, <2>2, <3>2 DEF EntrySwitched, Entry
    <3> QED
      BY <3>1, <3>3, EntriesApart
  <2>4. Goto("ok")
    BY <1>0, <1>4, <2>3 DEF ConfirmEntry
  <2>5. /\ bpCall'.op = bpCall.op /\ bpCall'.addr = bpCall.addr /\ bpCall'.type = bpCall.type
        /\ bpCall'.step = "ok" /\ bpCall'.got = bpCall.got /\ bpCall'.enable = bpCall.enable
    BY <1>0, <2>4, GotoIs
  <2>6. EntryFound' /\ GotKey' = GotKey
    BY <1>0, <2>1, <2>5 DEF EntryFound, GotKey, FirstBefore, BeforeAt
  <2>7. EntrySwitched'
    BY <1>0, <2>1, <2>5, <2>6 DEF EntrySwitched, SameBut
  <2> QED
    BY <1>0, <2>5, <2>6, <2>7 DEF SwitchQuiet
<1>5. CASE SetCommand
  <2>1. bpTable = bpBefore /\ EntryLacking /\ bpCall.fields = <<>>
    BY <1>5 DEF SetCommand, SwitchQuiet, At, Untouched
  <2>2. bpCall.type = "software" /\ bpTable[MyKey] = None /\ MyKey \in Keys /\ MyKey[2] = "software"
    BY <1>0, <2>1 DEF EntryLacking, MyKey, Keys, BreakpointCalls, BreakpointTypes
  <2>3. /\ \A k \in Keys \ {MyKey} : bpTable'[k] = bpTable[k]
        /\ \E config \in ConfigsOf(MyKey[2]) : bpTable'[MyKey] = NewEntry(config)
    BY <1>5, <2>2, CommandSets
  <2>4. ConfigsOf("software") = {None}
    BY DEF ConfigsOf
  <2>5. bpTable'[MyKey] = NewEntry(None)
    BY <2>2, <2>3, <2>4
  <2>6. Goto("ok")
    BY <1>5, <2>1, <2>2 DEF SetCommand, AfterSet
  <2>7. /\ bpCall'.op = bpCall.op /\ bpCall'.addr = bpCall.addr /\ bpCall'.type = bpCall.type
        /\ bpCall'.step = "ok" /\ bpCall'.got = bpCall.got
    BY <1>0, <2>6, GotoIs
  <2>8. MyKey' = MyKey /\ EntryLacking' /\ SameBut({MyKey})'
    BY <1>0, <2>1, <2>3, <2>7 DEF MyKey, EntryLacking, SameBut
  <2> QED
    BY <1>0, <2>5, <2>7, <2>8 DEF SwitchQuiet
<1> QED
  BY <1>1, <1>2, <1>3, <1>4, <1>5

\* A call that has begun is never again at the beginning.
LEMMA CallGoesOn ==
  ASSUME BreakpointInv, CallStep PROVE bpCall'.step # "idle"
<1>0. bpCall \in BreakpointCalls
  BY DEF BreakpointInv, BreakpointTypeOK
<1>1. ASSUME NEW step, step # "idle", Goto(step) \/ NextField(step) PROVE bpCall'.step # "idle"
  BY <1>0, <1>1, GotoIs, NextFieldIs
<1>2. AfterSet # "idle" /\ FieldDone # "idle" /\ FieldFailed # "idle"
  BY DEF AfterSet, FieldDone, FieldFailed
<1>3. CASE SetCommand \/ SetCommandRefused \/ SetVerify \/ SetUndo
  <2>1. \E step : step # "idle" /\ Goto(step)
    BY <1>2, <1>3 DEF SetCommand, SetCommandRefused, SetVerify, SetUndo, Refused
  <2> QED
    BY <1>1, <2>1
<1>4. CASE ChooseEntry
  <2> DEFINE got == PreferredOf(TypesAt(bpCall.addr))
  <2>1. \/ \E step : step # "idle" /\ (Goto(step) \/ NextField(step))
        \/ bpCall' = [bpCall EXCEPT !.got = got, !.step = "write"]
    BY <1>2, <1>4 DEF ChooseEntry
  <2> HIDE DEF got
  <2> QED
    BY <1>0, <1>1, <2>1 DEF BreakpointCalls
<1>5. CASE WriteField \/ WriteRefused
  <2>1. \E step : step # "idle" /\ NextField(step)
    BY <1>2, <1>5 DEF WriteField, WriteRefused
  <2> QED
    BY <1>1, <2>1
<1>6. ASSUME NEW todo, NEW step \in {"failed", "remove", "ok", "check"},
             bpCall' = [bpCall EXCEPT !.todo = todo, !.step = step]
      PROVE  bpCall'.step # "idle"
  BY <1>0, <1>6 DEF BreakpointCalls
<1>7. CASE DeleteSnapshot
  <2> DEFINE keys == IF bpCall.type = None THEN Deletes ELSE {k \in Deletes : k[2] = bpCall.type}
             step == IF keys = {} THEN "failed" ELSE "remove"
  <2>1. bpCall' = [bpCall EXCEPT !.todo = keys, !.step = step] /\ step \in {"failed", "remove"}
    BY <1>7 DEF DeleteSnapshot
  <2> HIDE DEF keys, step
  <2> QED
    BY <1>6, <2>1
<1>8. CASE DeleteAllList
  <2> DEFINE keys == ListBreakpoints(bpCall.type)
             step == IF keys = {} THEN "ok" ELSE "check"
  <2>1. /\ Goto("failed") \/ bpCall' = [bpCall EXCEPT !.todo = keys, !.step = step]
        /\ step \in {"ok", "check"}
    BY <1>8 DEF DeleteAllList
  <2> HIDE DEF keys, step
  <2> QED
    BY <1>1, <1>6, <2>1
<1>9. ASSUME NEW k \in Keys, NEW removed \in BOOLEAN, AfterRemove(k, removed)
      PROVE  bpCall'.step # "idle"
  <2> DEFINE rest == bpCall.todo \ {k}
             good == bpCall.good /\ removed
             count == IF bpCall.op = "delete_all" /\ removed THEN bpCall.count + 1 ELSE bpCall.count
             step == IF bpCall.op = "delete_all" THEN (IF rest = {} THEN "ok" ELSE "check")
                     ELSE IF rest # {} THEN "remove"
                     ELSE IF good THEN "ok" ELSE "failed"
  <2>1. /\ bpCall' = [bpCall EXCEPT !.todo = rest, !.good = good, !.count = count, !.step = step]
        /\ step # "idle"
    BY <1>9 DEF AfterRemove
  <2> HIDE DEF step, good, rest, count
  <2> QED
    BY <1>0, <2>1 DEF BreakpointCalls
<1>10. ASSUME NEW k \in Keys, RemoveEntry(k) \/ RemoveRefused(k) \/ DeleteAllCheck(k)
       PROVE  bpCall'.step # "idle"
  <2>1. \/ \E removed \in BOOLEAN : AfterRemove(k, removed)
        \/ bpCall' = [bpCall EXCEPT !.addr = k[1], !.got = k[2], !.step = "remove"]
    BY <1>10 DEF RemoveEntry, RemoveRefused, DeleteAllCheck
  <2> QED
    BY <1>0, <1>9, <2>1 DEF BreakpointCalls
<1>11. CASE FindEntry
  <2> DEFINE t == GetBreakpoint(bpCall.addr, bpCall.type)
             enable == IF bpCall.op = "toggle" THEN ~bpTable[<<bpCall.addr, t>>].enabled
                       ELSE bpCall.op = "enable"
  <2>1. \/ Goto("failed")
        \/ bpCall' = [bpCall EXCEPT !.got = t, !.step = "switch", !.enable = enable]
        \/ bpCall' = [bpCall EXCEPT !.type = "software", !.step = "command"]
    BY <1>11 DEF FindEntry
  <2> HIDE DEF t, enable
  <2> QED
    BY <1>0, <1>1, <2>1 DEF BreakpointCalls
<1>12. CASE SwitchEntry \/ SwitchRefused \/ ConfirmEntry
  <2>1. \E step : step # "idle" /\ Goto(step)
    BY <1>12 DEF SwitchEntry, SwitchRefused, ConfirmEntry, Refused
  <2> QED
    BY <1>1, <2>1
<1> QED
  BY <1>3, <1>4, <1>5, <1>7, <1>8, <1>10, <1>11, <1>12 DEF CallStep

\* A request that comes in finds the list as it remembers it.
LEMMA EnterQuiet ==
  ASSUME TablesFit, NEW call \in BreakpointCalls, Enter(call),
         call.step # "idle", call.step \notin {"ok", "failed"} => bpDebugging,
         call.op = "set" => /\ call.step \in {"command", "failed"} /\ call.type \in BreakpointTypes
                            /\ call.config \in ConfigsOf(call.type),
         call.op \in TextOperations =>
            call.step \in {"choose", "failed"} /\ call.fields = <<FieldOf(call.op)>>,
         call.op = "delete" => call.step \in {"snapshot", "failed"},
         call.op = "delete_all" => call.step \in {"list", "failed"} /\ call.count = 0,
         call.op \in Switches =>
            call.step \in {"find", "failed"} /\ call.got = None /\ call.fields = <<>>,
         call.op \in {"get", "list"} => call.step \in {"ok", "failed"}
  PROVE  QuietInv'
<1>1. bpCall' = call /\ bpBefore' = bpTable /\ bpTable' = bpTable /\ bpDebugging' = bpDebugging
  BY DEF Enter
<1>2. Untouched' /\ AddsNothing' /\ TablesFit' /\ AtFirst'
  BY <1>1 DEF Untouched, AddsNothing, TablesFit, AtFirst
<1>3. SetQuiet' /\ TextQuiet'
  BY <1>1, <1>2 DEF SetQuiet, TextQuiet
<1>4. DeleteQuiet'
  <2>1. \A changed : SameBut(changed)'
    BY <1>1 DEF SameBut
  <2> QED
    BY <1>1, <1>2 DEF DeleteQuiet, GoneAt, SameBut
<1>5. DeleteAllQuiet' /\ SwitchQuiet' /\ ReadQuiet'
  BY <1>1, <1>2 DEF DeleteAllQuiet, SwitchQuiet, ReadQuiet
<1> QED
  BY <1>1, <1>2, <1>3, <1>4, <1>5 DEF QuietInv, QuietCall

LEMMA BeginQuiet ==
  ASSUME BreakpointInv, QuietInv, BeginStep PROVE QuietInv'
<1>0. /\ bpCall \in BreakpointCalls /\ TablesFit /\ bpDebugging \in BOOLEAN
      /\ bpAllowed \in [modify : BOOLEAN, script : BOOLEAN]
      /\ bpCall.got = None /\ bpCall.fields = <<>> /\ bpCall.count = 0
  BY DEF BreakpointInv, BreakpointTypeOK, BeginStep, At, QuietInv, AtFirst
<1>1. ASSUME NEW t \in BreakpointTypes \cup {None}, BreakpointDeleteAll(t)
      PROVE  QuietInv'
  <2> DEFINE step == StepIf(bpAllowed.modify, "list")
             call == [bpCall EXCEPT !.op = "delete_all", !.type = t, !.step = step]
  <2>1. Enter(call)
    BY <1>1 DEF BreakpointDeleteAll
  <2>2. step \in {"list", "failed"} /\ (step = "list" => bpDebugging)
    BY DEF StepIf
  <2> HIDE DEF step
  <2>4. /\ call \in BreakpointCalls /\ call.step = step /\ call.op = "delete_all" /\ call.count = 0
    BY <1>0, <2>2 DEF BreakpointCalls, Steps, Operations
  <2> HIDE DEF call
  <2> QED
    BY <1>0, <2>1, <2>2, <2>4, EnterQuiet DEF TextOperations, Switches
<1>2. ASSUME NEW t \in BreakpointTypes \cup {None}, BreakpointList(t)
      PROVE  QuietInv'
  <2> DEFINE step == StepIf(TRUE, "ok")
             todo == IF bpDebugging THEN ListBreakpoints(t) ELSE {}
             call == [bpCall EXCEPT !.op = "list", !.type = t, !.todo = todo, !.step = step]
  <2>1. Enter(call)
    BY <1>2 DEF BreakpointList
  <2>2. step \in {"ok", "failed"}
    BY DEF StepIf
  <2>3. todo \in SUBSET Keys
    BY DEF ListBreakpoints
  <2> HIDE DEF step, todo
  <2>4. /\ call \in BreakpointCalls /\ call.step = step /\ call.op = "list"
    BY <1>0, <2>2, <2>3 DEF BreakpointCalls, Steps, Operations
  <2> HIDE DEF call
  <2> QED
    BY <1>0, <2>1, <2>2, <2>3, <2>4, EnterQuiet DEF TextOperations, Switches
<1>3. ASSUME NEW t \in BreakpointTypes \cup {None}, NEW a \in Addrs, BreakpointDelete(a, t)
      PROVE  QuietInv'
  <2> DEFINE step == StepIf(bpAllowed.modify, "snapshot")
             call == [bpCall EXCEPT !.op = "delete", !.addr = a, !.type = t, !.step = step]
  <2>1. Enter(call)
    BY <1>3 DEF BreakpointDelete
  <2>2. step \in {"snapshot", "failed"} /\ (step = "snapshot" => bpDebugging)
    BY DEF StepIf
  <2> HIDE DEF step
  <2>4. /\ call \in BreakpointCalls /\ call.step = step /\ call.op = "delete"
    BY <1>0, <2>2 DEF BreakpointCalls, Steps, Operations
  <2> HIDE DEF call
  <2> QED
    BY <1>0, <2>1, <2>2, <2>4, EnterQuiet DEF TextOperations, Switches
<1>4. ASSUME NEW t \in BreakpointTypes \cup {None}, NEW a \in Addrs,
             NEW op \in Switches, BreakpointSwitch(op, a, t)
      PROVE  QuietInv'
  <2> DEFINE step == StepIf(bpAllowed.modify, "find")
             call == [bpCall EXCEPT !.op = op, !.addr = a, !.type = t, !.step = step]
  <2>1. Enter(call)
    BY <1>4 DEF BreakpointSwitch
  <2>2. step \in {"find", "failed"} /\ (step = "find" => bpDebugging)
    BY DEF StepIf
  <2> HIDE DEF step
  <2>4. /\ call \in BreakpointCalls /\ call.step = step /\ call.op = op
        /\ call.got = None /\ call.fields = <<>>
    BY <1>0, <2>2 DEF BreakpointCalls, Steps, Operations, Switches
  <2> HIDE DEF call
  <2> QED
    BY <1>0, <2>1, <2>2, <2>4, EnterQuiet DEF TextOperations, Switches
<1>5. ASSUME NEW t \in BreakpointTypes \cup {None}, NEW a \in Addrs, BreakpointGet(a, t)
      PROVE  QuietInv'
  <2> DEFINE step == StepIf(GetBreakpoint(a, t) # None, "ok")
             got == IF bpDebugging THEN GetBreakpoint(a, t) ELSE None
             call == [bpCall EXCEPT !.op = "get", !.addr = a, !.type = t, !.got = got,
                                    !.step = step]
  <2>1. Enter(call)
    BY <1>5 DEF BreakpointGet
  <2>2. step \in {"ok", "failed"}
    BY DEF StepIf
  <2>3. got \in BreakpointTypes \cup {None}
    BY PreferredIsOne DEF GetBreakpoint, TypesAt
  <2> HIDE DEF step, got
  <2>4. /\ call \in BreakpointCalls /\ call.step = step /\ call.op = "get"
    BY <1>0, <2>2, <2>3 DEF BreakpointCalls, Steps, Operations
  <2> HIDE DEF call
  <2> QED
    BY <1>0, <2>1, <2>2, <2>3, <2>4, EnterQuiet DEF TextOperations, Switches
<1>6. ASSUME NEW a \in Addrs, NEW op \in TextOperations, NEW may \in BOOLEAN,
             Enter([bpCall EXCEPT !.op = op, !.addr = a, !.fields = <<FieldOf(op)>>,
                                  !.step = StepIf(may, "choose")])
      PROVE  QuietInv'
  <2> DEFINE step == StepIf(may, "choose")
             fields == <<FieldOf(op)>>
             call == [bpCall EXCEPT !.op = op, !.addr = a, !.fields = fields, !.step = step]
  <2>1. Enter(call)
    BY <1>6
  <2>2. step \in {"choose", "failed"} /\ (step = "choose" => bpDebugging)
    BY DEF StepIf
  <2>3. fields \in Seq(Texts \cup {"hits"}) /\ fields = <<FieldOf(op)>>
    BY DEF Texts, FieldOf
  <2> HIDE DEF step, fields
  <2>4. /\ call \in BreakpointCalls /\ call.step = step /\ call.op = op /\ call.fields = fields
    BY <1>0, <2>2, <2>3 DEF BreakpointCalls, Steps, Operations, TextOperations
  <2> HIDE DEF call
  <2> QED
    BY <1>0, <2>1, <2>2, <2>3, <2>4, EnterQuiet DEF TextOperations, Switches
<1>7. ASSUME NEW t \in BreakpointTypes, NEW a \in Addrs, NEW config \in Configs,
             NEW asked \in SUBSET {"name", "condition"}, BreakpointSet(a, t, config, asked)
      PROVE  QuietInv'
  <2> DEFINE fields == FieldsOf(asked)
             may == /\ bpAllowed.modify
                    /\ "condition" \in asked => bpAllowed.script
                    /\ RequestValid(a, t, config)
             step == StepIf(may, "command")
             call == [bpCall EXCEPT !.step = step, !.op = "set", !.addr = a, !.type = t,
                         !.config = config, !.asked = asked, !.fields = fields]
  <2>1. fields \in Seq(Texts \cup {"hits"}) /\ asked \in SUBSET Texts
    BY FieldsAsked DEF Texts
  <2>2. Enter(call) /\ config \in ConfigsOf(t)
    BY <1>7 DEF BreakpointSet
  <2>3. step \in {"command", "failed"} /\ (step = "command" => bpDebugging)
    BY DEF StepIf
  <2> HIDE DEF fields, step
  <2>4. /\ call \in BreakpointCalls /\ call.step = step /\ call.op = "set" /\ call.type = t
        /\ call.config = config
    BY <1>0, <2>1, <2>3 DEF BreakpointCalls, Steps, Operations
  <2> HIDE DEF call
  <2> QED
    BY <1>0, <2>2, <2>3, <2>4, EnterQuiet DEF TextOperations, Switches
<1>8. ASSUME NEW a \in Addrs, BreakpointResetHitCount(a) PROVE QuietInv'
  <2>1. FieldOf("reset_hitcount") = "hits" /\ "reset_hitcount" \in TextOperations
    BY DEF FieldOf, TextOperations
  <2>2. bpAllowed.modify \in BOOLEAN
    BY DEF BreakpointInv, BreakpointTypeOK
  <2> QED
    BY <1>6, <1>8, <2>1, <2>2 DEF BreakpointResetHitCount
<1>9. ASSUME NEW a \in Addrs, NEW op \in {"set_condition", "set_log"}, BreakpointText(op, a)
      PROVE  QuietInv'
  <2> DEFINE may == bpAllowed.modify /\ bpAllowed.script
  <2>1. may \in BOOLEAN /\ op \in TextOperations
    BY DEF TextOperations
  <2>2. CASE op = "set_log"
    BY <1>6, <1>9, <2>1, <2>2 DEF BreakpointText, FieldOf
  <2>3. CASE op = "set_condition"
    BY <1>6, <1>9, <2>1, <2>3 DEF BreakpointText, FieldOf
  <2> QED
    BY <2>2, <2>3
<1> QED
  BY <1>1, <1>2, <1>3, <1>4, <1>5, <1>7, <1>8, <1>9, EntriesApart DEF BeginStep, Switches

\* Every step of a request that nothing disturbs brings it further.
LEMMA StaysQuiet ==
  ASSUME BreakpointInv, QuietInv, QuietStep PROVE QuietCall'
<1>0. /\ bpCall.op \in Operations /\ TablesFit /\ bpDebugging' /\ SetQuiet /\ TextQuiet
      /\ DeleteQuiet /\ DeleteAllQuiet /\ SwitchQuiet /\ ReadQuiet
      /\ bpCall.step \notin {"ok", "failed"}
  BY QuietStepIs DEF QuietInv, QuietCall, QuietStep, BreakpointCalls
<1>1. CASE bpCall.op = "set"
  <2>1. SetQuiet' /\ bpCall'.op = "set"
    BY <1>0, <1>1, SetStaysQuiet
  <2> QED
    BY <1>0, <2>1 DEF QuietCall, TextQuiet, DeleteQuiet, DeleteAllQuiet, SwitchQuiet, ReadQuiet,
       TextOperations, Switches
<1>2. CASE bpCall.op \in TextOperations
  <2>1. TextQuiet' /\ bpCall'.op \in TextOperations
    BY <1>0, <1>2, TextStaysQuiet
  <2> QED
    BY <1>0, <2>1 DEF QuietCall, SetQuiet, DeleteQuiet, DeleteAllQuiet, SwitchQuiet, ReadQuiet,
       TextOperations, Switches
<1>3. CASE bpCall.op = "delete"
  <2>1. DeleteQuiet' /\ bpCall'.op = "delete"
    BY <1>0, <1>3, DeleteStaysQuiet
  <2> QED
    BY <1>0, <2>1 DEF QuietCall, SetQuiet, TextQuiet, DeleteAllQuiet, SwitchQuiet, ReadQuiet,
       TextOperations, Switches
<1>4. CASE bpCall.op = "delete_all"
  <2>1. DeleteAllQuiet' /\ bpCall'.op = "delete_all"
    BY <1>0, <1>4, DeleteAllStaysQuiet
  <2> QED
    BY <1>0, <2>1 DEF QuietCall, SetQuiet, TextQuiet, DeleteQuiet, SwitchQuiet, ReadQuiet,
       TextOperations, Switches
<1>5. CASE bpCall.op \in Switches
  <2>1. SwitchQuiet' /\ bpCall'.op \in Switches
    BY <1>0, <1>5, SwitchStaysQuiet
  <2> QED
    BY <1>0, <2>1 DEF QuietCall, SetQuiet, TextQuiet, DeleteQuiet, DeleteAllQuiet, ReadQuiet,
       TextOperations, Switches
<1> QED
  BY <1>0, <1>1, <1>2, <1>3, <1>4, <1>5 DEF Operations, TextOperations, Switches, ReadQuiet

LEMMA QuietInvStep ==
  ASSUME BreakpointInv, QuietInv, BreakpointNext PROVE QuietInv'
<1>1. TablesFit'
  BY TablesStayFit DEF QuietInv
<1>2. CASE BeginStep
  BY <1>2, BeginQuiet
<1>3. CASE CallStep
  <2>1. AtFirst'
    BY <1>3, CallGoesOn DEF AtFirst
  <2>2. CASE bpBefore' = None
    BY <1>1, <2>1, <2>2 DEF QuietInv
  <2>3. CASE bpBefore' # None
    <3>1. bpBefore' = bpBefore
      BY <1>3, <2>3 DEF CallStep, SetCommand, SetCommandRefused, SetVerify, SetUndo, ChooseEntry,
         WriteField, WriteRefused, DeleteSnapshot, DeleteAllList, RemoveEntry, RemoveRefused,
         DeleteAllCheck, FindEntry, SwitchEntry, SwitchRefused, ConfirmEntry, Refused, Quiet
    <3>2. bpCall.step \notin {"ok", "failed"}
      BY <1>3 DEF CallStep, SetCommand, SetCommandRefused, SetVerify, SetUndo, ChooseEntry,
         WriteField, WriteRefused, DeleteSnapshot, DeleteAllList, RemoveEntry, RemoveRefused,
         DeleteAllCheck, FindEntry, SwitchEntry, SwitchRefused, ConfirmEntry, At
    <3>3. QuietStep
      BY <1>3, <2>3, <3>1, <3>2 DEF QuietStep, QuietInv, QuietCall
    <3> QED
      BY <1>1, <2>1, <3>3, StaysQuiet DEF QuietInv
  <2> QED
    BY <2>2, <2>3
<1>4. CASE WorldStep
  <2>1. bpBefore' = None /\ bpCall' = bpCall
    BY <1>4 DEF WorldStep, DebuggeeGone, OtherChange, Hit, Disturb
  <2> QED
    BY <1>1, <2>1 DEF QuietInv, AtFirst
<1> QED
  BY <1>2, <1>3, <1>4 DEF BreakpointNext

\* Where nobody else changes the list and x64dbg refuses nothing, a request
\* that reports success has done all it was asked, and one that fails has
\* added nothing: for any addresses, configurations and list.
THEOREM QuietContractKept == BreakpointSpec => []QuietRequestsMeetContract
<1>1. BreakpointInit => QuietInv
  <2> SUFFICES ASSUME BreakpointInit PROVE QuietInv
    OBVIOUS
  <2>1. /\ \A k \in Keys : bpTable[k] = None
        /\ bpCall.got = None /\ bpCall.fields = <<>> /\ bpCall.count = 0 /\ bpBefore = None
    BY DEF BreakpointInit
  <2> QED
    BY <2>1 DEF QuietInv, TablesFit, AtFirst
<1>2. BreakpointInv /\ QuietInv /\ UNCHANGED breakpointVars => QuietInv'
  <2> SUFFICES ASSUME QuietInv, UNCHANGED breakpointVars PROVE QuietInv'
    OBVIOUS
  <2>1. bpTable' = bpTable /\ bpDebugging' = bpDebugging /\ bpCall' = bpCall /\ bpBefore' = bpBefore
    BY DEF breakpointVars
  <2>2. /\ (TablesFit' <=> TablesFit) /\ (AtFirst' <=> AtFirst)
        /\ (SetQuiet' <=> SetQuiet) /\ (ReadQuiet' <=> ReadQuiet)
    BY <2>1 DEF TablesFit, AtFirst, SetQuiet, ReadQuiet, Untouched, AddsNothing, SameBut,
       MatchesRequest, MyKey, GotKey
  <2>3. Contract' <=> Contract
    BY <2>1 DEF Contract, SameBut, MyKey, GotKey, FirstBefore, BeforeAt
  <2>4. TextQuiet' <=> TextQuiet
    BY <2>1, <2>3 DEF TextQuiet, Untouched, GotKey, FirstBefore, BeforeAt
  <2>5. (DeleteQuiet' <=> DeleteQuiet) /\ (DeleteAllQuiet' <=> DeleteAllQuiet)
    BY <2>1 DEF DeleteQuiet, DeleteAllQuiet, Untouched, SameBut, GoneAt, GoneAll, Taken
  <2>6. SwitchQuiet' <=> SwitchQuiet
    BY <2>1 DEF SwitchQuiet, Untouched, SameBut, EntryFound, EntrySwitched, EntryLacking, MyKey,
       GotKey, FirstBefore, BeforeAt
  <2> QED
    BY <2>1, <2>2, <2>4, <2>5, <2>6 DEF QuietInv, QuietCall
<1>3. BreakpointInv /\ QuietInv /\ [BreakpointNext]_breakpointVars => QuietInv'
  BY <1>2, QuietInvStep
<1> QED
  BY <1>1, <1>3, BreakpointInvariant, QuietInvMeetsContract, PTL DEF BreakpointSpec

-----------------------------------------------------------------------------
(* The arithmetic of PEDump.cpp and PEValidation.h.                          *)

\* Rounding up never makes a section smaller, unless 32 bits do not hold it.
LEMMA AlignUpCovers ==
    ASSUME NEW v \in Number32, NEW a \in Nat \ {0}
    PROVE  AlignUp(v, a) \in Number32 /\ AlignUp(v, a) >= v
<1> DEFINE q == (v + a - 1) \div a
           r == (v + a - 1) % a
<1>1. v \in Nat /\ v <= Max32 /\ Max32 \in Nat
  BY PEAssumption DEF Number32
<1>2. q \in Nat /\ r \in 0..(a - 1) /\ v + a - 1 = q * a + r
  BY <1>1, Z3
<1>3. q * a \in Nat
  BY <1>2, Z3
<1> HIDE DEF q, r
<1>4. q * a >= v
  BY <1>1, <1>2, <1>3
<1>5. AlignUp(v, a) = Lesser(q * a, Max32)
  BY DEF AlignUp, q
<1> QED
  BY <1>1, <1>3, <1>4, <1>5 DEF Lesser, Number32

\* AlignPESections: one section of a dump of len bytes.
LEMMA AlignSectionFits ==
    ASSUME NEW s \in Section, NEW len \in Nat, NEW a \in Nat \ {0}
    PROVE  LET t == AlignSection(s, len, a) IN
           /\ t \in Section
           /\ t.rawPointer + t.rawSize <= len
           /\ s.virtualAddress < len =>
                 /\ t.rawPointer = s.virtualAddress
                 /\ t.rawSize >= Lesser(ImageSize(s), len - s.virtualAddress)
<1>1. ImageSize(s) \in Number32 /\ s.virtualAddress \in Nat /\ 0 \in Number32
  BY PEAssumption DEF Section, ImageSize, Number32
<1>2. AlignUp(ImageSize(s), a) \in Number32 /\ AlignUp(ImageSize(s), a) >= ImageSize(s)
  BY <1>1, AlignUpCovers
<1>3. CASE s.virtualAddress >= len
  <2>1. AlignSection(s, len, a) = [s EXCEPT !.rawPointer = 0, !.rawSize = 0]
    BY <1>3 DEF AlignSection
  <2>2. AlignSection(s, len, a) \in Section
    BY <1>1, <2>1 DEF Section
  <2>3. AlignSection(s, len, a).rawPointer = 0 /\ AlignSection(s, len, a).rawSize = 0
    BY <2>1 DEF Section
  <2> QED
    BY <1>1, <1>3, <2>2, <2>3
<1>4. CASE ~(s.virtualAddress >= len)
  <2> DEFINE raw == Lesser(AlignUp(ImageSize(s), a), len - s.virtualAddress)
  <2>1. raw \in Number32 /\ raw <= len - s.virtualAddress
        /\ raw >= Lesser(ImageSize(s), len - s.virtualAddress)
    BY <1>1, <1>2, <1>4, PEAssumption DEF Lesser, Number32
  <2> HIDE DEF raw
  <2>2. AlignSection(s, len, a) = [s EXCEPT !.rawPointer = s.virtualAddress, !.rawSize = raw]
    BY <1>4 DEF AlignSection, raw
  <2>3. AlignSection(s, len, a) \in Section
    BY <1>1, <2>1, <2>2 DEF Section
  <2>4. /\ AlignSection(s, len, a).rawPointer = s.virtualAddress
        /\ AlignSection(s, len, a).rawSize = raw
    BY <2>2 DEF Section
  <2>5. raw \in Int
    BY <2>1, PEAssumption DEF Number32
  <2> QED
    BY <1>1, <1>4, <2>1, <2>3, <2>4, <2>5
<1> QED
  BY <1>3, <1>4

\* A rebuilt buffer is as long as before, has its header where it was and its
\* sections inside, and takes the new entry point.
LEMMA RebuildFits ==
    ASSUME NEW b \in Buffer, NEW base \in Nat, NEW e \in Number32 \cup {NoEntry},
           CanRebuild(b, e)
    PROVE  LET c == RebuildPEHeaders(b, base, e) IN
           /\ c \in Buffer /\ c.len = b.len
           /\ c.header.lfanew = b.header.lfanew
           /\ c.header.optionalSize = b.header.optionalSize
           /\ DOMAIN c.header.sections = DOMAIN b.header.sections
           /\ Len(c.header.sections) = Len(b.header.sections)
           /\ \A i \in DOMAIN b.header.sections :
                 c.header.sections[i] =
                    AlignSection(b.header.sections[i], b.len, FileAlignment(b.header))
           /\ e # NoEntry => c.header.entry = e /\ e < b.len
<1> DEFINE h == b.header
           new == IF e = -1 THEN h.entry ELSE e
           g == [h EXCEPT !.imageBase = base, !.entry = new]
           n == Len(h.sections)
           secs == [i \in DOMAIN h.sections |->
                      AlignSection(h.sections[i], b.len, FileAlignment(h))]
           c == RebuildPEHeaders(b, base, e)
<1>1. h \in Header /\ b.len \in Nat /\ h.sections \in Seq(Section)
  BY DEF Buffer, Header
<1>2. new \in Number32
  BY <1>1 DEF Header, NoEntry
<1>3. FileAlignment(h) \in Nat \ {0}
  BY <1>1, PEAssumption DEF FileAlignment, Header, Number32
<1>4. n \in Nat /\ DOMAIN h.sections = 1..n /\ \A i \in 1..n : h.sections[i] \in Section
  BY <1>1
<1>5. \A i \in 1..n : AlignSection(h.sections[i], b.len, FileAlignment(h)) \in Section
  BY <1>1, <1>3, <1>4, AlignSectionFits
<1> HIDE DEF h, new, n
<1>6. secs \in [1..n -> Section]
  BY <1>4, <1>5
<1>7. secs \in Seq(Section) /\ Len(secs) = n
  <2> HIDE DEF secs
  <2> QED
    BY <1>4, <1>6
<1>8. /\ g.sections = h.sections /\ g.fileAlignment = h.fileAlignment
      /\ g.lfanew = h.lfanew /\ g.optionalSize = h.optionalSize /\ g.entry = new
      /\ g \in Header
  BY <1>1, <1>2 DEF Header
<1>9. FileAlignment(g) = FileAlignment(h)
  BY <1>8 DEF FileAlignment
<1>10. c = AlignPESections([len |-> b.len, header |-> g])
  BY DEF RebuildPEHeaders, h, new
<1> HIDE DEF g, c
<1>11. c = [len |-> b.len, header |-> [g EXCEPT !.sections = secs]]
  BY <1>8, <1>9, <1>10 DEF AlignPESections
<1> HIDE DEF secs
<1>12. /\ [g EXCEPT !.sections = secs] \in Header
       /\ [g EXCEPT !.sections = secs].sections = secs
       /\ [g EXCEPT !.sections = secs].lfanew = h.lfanew
       /\ [g EXCEPT !.sections = secs].optionalSize = h.optionalSize
       /\ [g EXCEPT !.sections = secs].entry = new
  BY <1>7, <1>8 DEF Header
<1>13. /\ c \in Buffer /\ c.len = b.len /\ c.header.sections = secs
       /\ c.header.lfanew = h.lfanew /\ c.header.optionalSize = h.optionalSize
       /\ c.header.entry = new
  BY <1>1, <1>11, <1>12 DEF Buffer
<1>14. \A i \in DOMAIN h.sections :
          secs[i] = AlignSection(h.sections[i], b.len, FileAlignment(h))
  BY DEF secs
<1>15. DOMAIN secs = DOMAIN h.sections /\ Len(secs) = Len(h.sections)
  BY <1>4, <1>6, <1>7 DEF n
<1>16. e # NoEntry => new = e /\ e < b.len
  BY DEF CanRebuild, new, NoEntry
<1> QED
  BY <1>13, <1>14, <1>15, <1>16 DEF c, h

\* ValidatePELayout: the whole header is in the buffer.
LEMMA ValidHeaderInside ==
    ASSUME NEW b \in Buffer, ValidatePELayout(b)
    PROVE  HeaderInside(b)
<1>1. b.len \in Nat /\ b.header.lfanew \in Int /\ b.header.optionalSize \in Nat
      /\ b.header.sections \in Seq(Section)
  BY DEF Buffer, Header
<1>2. /\ NtOffset(b.header) \in Int /\ SectionsOffset(b.header) \in Int
      /\ Len(b.header.sections) \in Nat
  <2>1. AsSize(b.header.lfanew) \in Int
    BY <1>1, PEAssumption DEF AsSize
  <2>2. Len(b.header.sections) \in Nat
    BY <1>1
  <2> QED
    BY <1>1, <2>1, <2>2, PEAssumption DEF NtOffset, OptionalOffset, SectionsOffset
<1> DEFINE table == Len(b.header.sections) * SectionSize
<1>3. table \in Nat
  BY <1>2, PEAssumption, Z3
<1>4. DosSize <= NtOffset(b.header) /\ InBuffer(b.len, SectionsOffset(b.header), table)
  <2>1. AsSize(b.header.lfanew) >= DosSize /\ InBuffer(b.len, SectionsOffset(b.header), table)
    BY DEF ValidatePELayout
  <2> QED
    BY <1>2, <2>1, PEAssumption DEF NtOffset
<1> HIDE DEF table
<1>5. SectionsOffset(b.header) + table <= b.len
  BY <1>1, <1>2, <1>3, <1>4 DEF InBuffer
<1> QED
  BY <1>4, <1>5 DEF HeaderInside, table

\* The checksum is not looked at by what the properties are about.
LEMMA ChecksumKeeps ==
    ASSUME NEW b \in Buffer
    PROVE  /\ FixPEChecksum(b) \in Buffer
           /\ FixPEChecksum(b).len = b.len
           /\ FixPEChecksum(b).header.lfanew = b.header.lfanew
           /\ FixPEChecksum(b).header.optionalSize = b.header.optionalSize
           /\ FixPEChecksum(b).header.sections = b.header.sections
           /\ FixPEChecksum(b).header.entry = b.header.entry
BY DEF FixPEChecksum, Buffer, Header

-----------------------------------------------------------------------------
(* The invariant.                                                            *)

\* RebuildPEHeaders over what was read of the module.
LEMMA RebuildKeeps ==
    ASSUME NEW b \in Buffer, b.header = dumpImage.header, NEW e \in Number32 \cup {NoEntry},
           NEW base \in Nat, CanRebuild(b, e)
    PROVE  LET c == RebuildPEHeaders(b, base, e) IN
           /\ c \in Buffer /\ SectionsInside(c) /\ HeaderInside(c)
           /\ e # NoEntry => c.header.entry = e /\ e < c.len
<1> DEFINE c == RebuildPEHeaders(b, base, e)
<1>1. /\ c \in Buffer /\ c.len = b.len
      /\ c.header.lfanew = b.header.lfanew
      /\ c.header.optionalSize = b.header.optionalSize
      /\ DOMAIN c.header.sections = DOMAIN b.header.sections
      /\ Len(c.header.sections) = Len(b.header.sections)
      /\ \A i \in DOMAIN b.header.sections :
            c.header.sections[i] =
               AlignSection(b.header.sections[i], b.len, FileAlignment(b.header))
      /\ e # NoEntry => c.header.entry = e /\ e < b.len
  BY RebuildFits
<1> HIDE DEF c
<1>2. HeaderInside(c)
  <2>1. ValidatePELayout(b)
    BY DEF CanRebuild
  <2>2. HeaderInside(b)
    BY <2>1, ValidHeaderInside
  <2> QED
    BY <1>1, <2>2 DEF HeaderInside, NtOffset, SectionsOffset, OptionalOffset
<1>3. SectionsInside(c)
  <2>1. FileAlignment(b.header) \in Nat \ {0} /\ b.len \in Nat
    BY PEAssumption DEF FileAlignment, Buffer, Header, Number32
  <2>2. ASSUME NEW i \in DOMAIN c.header.sections
        PROVE  /\ c.header.sections[i].rawPointer + c.header.sections[i].rawSize <= c.len
               /\ b.header.sections[i].virtualAddress < c.len =>
                    /\ c.header.sections[i].rawPointer = b.header.sections[i].virtualAddress
                    /\ c.header.sections[i].rawSize >=
                         Lesser(ImageSize(b.header.sections[i]),
                                c.len - b.header.sections[i].virtualAddress)
    <3>1. b.header.sections \in Seq(Section) /\ i \in DOMAIN b.header.sections
      BY <1>1, <2>2 DEF Buffer, Header
    <3>2. b.header.sections[i] \in Section
      BY <3>1
    <3> DEFINE s == b.header.sections[i]
               t == AlignSection(s, b.len, FileAlignment(b.header))
    <3>3. /\ t.rawPointer + t.rawSize <= b.len
          /\ s.virtualAddress < b.len =>
                /\ t.rawPointer = s.virtualAddress
                /\ t.rawSize >= Lesser(ImageSize(s), b.len - s.virtualAddress)
      BY <2>1, <3>2, AlignSectionFits
    <3>4. c.header.sections[i] = t /\ c.len = b.len
      BY <1>1, <3>1
    <3> HIDE DEF s, t
    <3>5. s = b.header.sections[i]
      BY DEF s
    <3> QED
      BY <3>3, <3>4, <3>5
  <2> QED
    BY <2>2 DEF SectionsInside
<1> QED
  BY <1>1, <1>2, <1>3 DEF c

\* A new request, and a step of the one being executed.
LEMMA NewCall ==
    ASSUME NEW r \in DumpRequests, NEW st \in DumpSteps, NEW c,
           c = [step |-> st, request |-> r, buffer |-> NoFile, rva |-> NoEntry,
                newEP |-> NoEntry, rebuilt |-> FALSE, size |-> 0]
    PROVE  /\ c \in DumpCalls /\ c.step = st /\ c.newEP = NoEntry /\ c.rva = NoEntry
           /\ ~c.rebuilt
<1>1. NoEntry \in Int
  BY DEF NoEntry
<1>2. c.rebuilt = FALSE
  OBVIOUS
<1> QED
  BY <1>1, <1>2 DEF DumpCalls

LEMMA NextCall ==
    ASSUME NEW call \in DumpCalls, NEW st \in DumpSteps, NEW c,
           c = [call EXCEPT !.step = st]
    PROVE  /\ c \in DumpCalls /\ c.step = st /\ c.request = call.request
           /\ c.buffer = call.buffer /\ c.rva = call.rva /\ c.newEP = call.newEP
           /\ c.rebuilt = call.rebuilt /\ c.size = call.size
BY DEF DumpCalls

\* What an entry point is chosen from.
LEMMA EntriesAreNumbers ==
    ASSUME dumpImage \in Images, dumpCall \in DumpCalls
    PROVE  /\ dumpCall.request.forced \in Int /\ GetModuleEntryPoint \in Int
           /\ DetectOEPByPattern \subseteq Int
<1>1. dumpImage.header \in Header /\ dumpImage.base \in Nat
  BY ImageAssumption
<1>2. JumpTargets \subseteq Int
  BY ImageAssumption DEF JumpTargets, ScannedTransfers
<1>3. Prologue \subseteq Int
  BY <1>1, ImageAssumption DEF Prologue, FirstPrologue, ProloguesIn
<1>4. GetModuleEntryPoint \in Int
  BY <1>1 DEF GetModuleEntryPoint, Header, Number32
<1>5. dumpCall.request.forced \in Int
  BY RequestAssumption DEF DumpCalls
<1> QED
  BY <1>2, <1>3, <1>4, <1>5 DEF DetectOEPByPattern, NoEntry

\* The invariant holds at the start and after every step.
LEMMA DumpInvInit == DumpInit => DumpInv
<1> SUFFICES ASSUME DumpInit PROVE DumpInv
  OBVIOUS
<1>1. dumpCall = NoDumpCall /\ dumpImage \in Images /\ dumpFile = NoFile
  BY DEF DumpInit
<1> DEFINE none == CHOOSE r \in DumpRequests : TRUE
<1>2a. none \in DumpRequests
  BY RequestAssumption
<1> HIDE DEF none
<1>2b. dumpCall = [step |-> "idle", request |-> none, buffer |-> NoFile, rva |-> NoEntry,
                   newEP |-> NoEntry, rebuilt |-> FALSE, size |-> 0]
  BY <1>1 DEF NoDumpCall, none
<1>2. dumpCall \in DumpCalls /\ dumpCall.step = "idle" /\ ~dumpCall.rebuilt
      /\ dumpCall.rva = NoEntry /\ dumpCall.newEP = NoEntry
  BY <1>2a, <1>2b, NewCall DEF DumpSteps
<1>3. DumpTypeOK
  BY <1>1, <1>2, RightsAssumption DEF DumpInit, DumpTypeOK
<1> QED
  BY <1>1, <1>2, <1>3 DEF DumpInv, BufferIsRead, EntryIsChosen, RebuiltIsSound,
     FileIsBuffer, DumpAt

LEMMA DumpInvStep == DumpInv /\ [DumpNext]_dumpVars => DumpInv'
<1> SUFFICES ASSUME DumpInv, [DumpNext]_dumpVars PROVE DumpInv'
  OBVIOUS
<1> USE DEF DumpAt
<1>0. /\ dumpImage \in Images /\ dumpCall \in DumpCalls /\ DumpTypeOK
      /\ dumpImage.header \in Header /\ dumpImage.size \in Nat /\ dumpImage.base \in Nat
      /\ Max32 \in Nat
  BY ImageAssumption, PEAssumption DEF DumpInv, DumpTypeOK
\* A step to a state in which nothing was rebuilt and no entry was chosen.
<1>fresh. ASSUME dumpCall' \in DumpCalls, dumpImage' = dumpImage, DumpTypeOK',
                 dumpCall'.newEP = NoEntry, dumpCall'.rva = NoEntry, ~dumpCall'.rebuilt,
                 dumpCall'.step \notin {"entry", "rebuild", "checksum", "write", "write_region"},
                 dumpCall'.step \notin {"ok", "failed"} => dumpFile' = NoFile
          PROVE  DumpInv'
  BY <1>fresh DEF DumpInv, BufferIsRead, EntryIsChosen, RebuiltIsSound, FileIsBuffer
<1>1. ASSUME NEW request \in DumpRequests,
             DumpModule(request) \/ DumpMemoryRegion(request) \/ DumpQuery(request)
      PROVE  DumpInv'
  <2>1. PICK st \in {"pause", "read_region", "pause_query", "ok", "failed"} :
            dumpCall' = [step |-> st, request |-> request, buffer |-> NoFile, rva |-> NoEntry,
                         newEP |-> NoEntry, rebuilt |-> FALSE, size |-> 0]
    BY <1>1 DEF DumpModule, DumpMemoryRegion, DumpQuery, DumpStep, NoDumpCall
  <2>2. /\ dumpCall'.newEP = NoEntry /\ dumpCall'.rva = NoEntry /\ ~dumpCall'.rebuilt
        /\ dumpCall'.step = st /\ dumpCall' \in DumpCalls
    <3>1. st \in DumpSteps
      BY DEF DumpSteps
    <3> QED
      BY <2>1, <3>1, NewCall
  <2>3. dumpImage' = dumpImage /\ UNCHANGED <<dumpSession, dumpAllowed, dumpFile>> /\ dumpFile = NoFile
    BY <1>1 DEF DumpModule, DumpMemoryRegion, DumpQuery, DumpStep, DumpInv, FileIsBuffer
  <2>4. DumpTypeOK'
    BY <1>0, <2>2, <2>3 DEF DumpTypeOK
  <2> QED
    BY <2>2, <2>3, <2>4, <1>fresh
\* A step to the end of a call that rebuilt nothing.
<1>done. ASSUME DumpTypeOK', dumpCall'.step \in {"ok", "failed"}, ~dumpCall'.rebuilt
         PROVE  DumpInv'
  BY <1>done DEF DumpInv, BufferIsRead, EntryIsChosen, RebuiltIsSound, FileIsBuffer
\* A step of a call that has chosen no entry yet.
<1>plain. ASSUME NEW st \in {"prepare", "copy", "read", "ok", "failed"},
                 dumpCall.step \notin {"rebuild", "checksum", "write", "write_region",
                                       "ok", "failed"},
                 dumpCall' = [dumpCall EXCEPT !.step = st],
                 dumpSession' \in {"none", "running", "paused"},
                 UNCHANGED <<dumpImage, dumpAllowed, dumpFile>>
          PROVE  DumpInv'
  <2>1. st \in DumpSteps
    BY DEF DumpSteps
  <2>2. /\ dumpCall' \in DumpCalls /\ dumpCall'.step = st /\ dumpCall'.rva = dumpCall.rva
        /\ dumpCall'.newEP = dumpCall.newEP /\ dumpCall'.rebuilt = dumpCall.rebuilt
    BY <1>0, <1>plain, <2>1, NextCall
  <2>3. /\ dumpCall.newEP = NoEntry /\ dumpCall.rva = NoEntry /\ ~dumpCall.rebuilt
        /\ dumpFile = NoFile
    BY <1>plain DEF DumpInv, EntryIsChosen, FileIsBuffer
  <2>4. DumpTypeOK'
    BY <1>0, <1>plain, <2>2 DEF DumpTypeOK
  <2> QED
    BY <1>plain, <1>fresh, <2>2, <2>3, <2>4
<1>2. ASSUME EnsureDebuggerPausedForDump \/ PrepareDump \/ AnalyzeModule PROVE DumpInv'
  <2>1. PICK st \in {"prepare", "copy", "read", "ok", "failed"} :
            dumpCall' = [dumpCall EXCEPT !.step = st]
    BY <1>2 DEF EnsureDebuggerPausedForDump, PrepareDump, AnalyzeModule, DumpStep, DumpFailed
  <2>2. /\ dumpCall.step \in {"pause", "prepare", "pause_query"}
        /\ dumpSession' \in {"paused", dumpSession}
        /\ UNCHANGED <<dumpImage, dumpAllowed, dumpFile>>
    BY <1>2 DEF EnsureDebuggerPausedForDump, PrepareDump, AnalyzeModule, DumpStep
  <2>3. dumpSession' \in {"none", "running", "paused"}
    BY <1>0, <2>2 DEF DumpTypeOK
  <2> QED
    BY <1>plain, <2>1, <2>2, <2>3
<1>3. CASE CopyOriginal
  <2>1. CASE dumpCall' = [dumpCall EXCEPT !.step = "ok", !.newEP = GetModuleEntryPoint]
    <3>1. GetModuleEntryPoint \in Int
      BY <1>0 DEF GetModuleEntryPoint, Header, Number32
    <3>2. dumpCall' \in DumpCalls /\ dumpCall'.step = "ok" /\ dumpCall'.rebuilt = dumpCall.rebuilt
      BY <1>0, <2>1, <3>1 DEF DumpCalls, DumpSteps
    <3>3. ~dumpCall.rebuilt
      BY <1>3 DEF CopyOriginal, DumpInv, EntryIsChosen
    <3>4. DumpTypeOK'
      BY <1>0, <1>3, <3>2 DEF DumpTypeOK, CopyOriginal, DumpStep
    <3> QED
      BY <1>done, <3>2, <3>3, <3>4
  <2>2. CASE dumpCall' = DumpFailed /\ UNCHANGED dumpFile
    BY <1>0, <1>3, <1>plain, <2>2 DEF CopyOriginal, DumpFailed, DumpStep, DumpTypeOK
  <2> QED
    BY <1>3, <2>1, <2>2 DEF CopyOriginal, DumpStep
\* What can be read of a module is a buffer with the module's header.
<1>buf. ASSUME NEW n \in 1..dumpImage.size
        PROVE  BufferOf(n) \in Buffer /\ BufferOf(n).header = dumpImage.header /\ n \in Nat
  BY <1>0 DEF BufferOf, Buffer
<1>4. CASE ReadModule
  <2>0. /\ dumpCall.newEP = NoEntry /\ dumpCall.rva = NoEntry /\ dumpCall.rebuilt = FALSE
        /\ dumpFile = NoFile /\ dumpCall.step = "read"
        /\ UNCHANGED <<dumpSession, dumpImage, dumpAllowed, dumpFile>>
    BY <1>0, <1>4 DEF ReadModule, DumpStep, DumpInv, EntryIsChosen, FileIsBuffer, DumpCalls
  <2>1. ASSUME NEW n \in 1..dumpImage.size,
               dumpCall' = [dumpCall EXCEPT !.step = "entry", !.buffer = BufferOf(n), !.size = n]
        PROVE  DumpInv'
    <3>1. dumpCall' \in DumpCalls /\ dumpCall'.step = "entry" /\ dumpCall'.buffer = BufferOf(n)
          /\ dumpCall'.newEP = NoEntry /\ dumpCall'.rva = NoEntry /\ dumpCall'.rebuilt = FALSE
      BY <1>0, <1>buf, <2>0, <2>1 DEF DumpCalls, DumpSteps
    <3>2. DumpTypeOK'
      BY <1>0, <2>0, <3>1 DEF DumpTypeOK
    <3> QED
      BY <1>buf, <2>0, <3>1, <3>2
         DEF DumpInv, BufferIsRead, EntryIsChosen, RebuiltIsSound, FileIsBuffer
  <2>2. CASE dumpCall' = DumpFailed
    BY <1>0, <1>plain, <2>0, <2>2 DEF DumpFailed, DumpTypeOK
  <2> QED
    BY <1>4, <2>1, <2>2 DEF ReadModule, DumpStep
\* An entry point that fits is an offset of the module.
<1>try. ASSUME NEW a \in Int, NEW c, c = TrySetOEP(a), dumpCall.step = "entry"
        PROVE  /\ c \in DumpCalls /\ c.step = dumpCall.step /\ c.buffer = dumpCall.buffer
               /\ c.rebuilt = dumpCall.rebuilt
               /\ c.newEP # NoEntry => c.rva # NoEntry /\ c.newEP = dumpImage.base + c.rva
  <2>1. dumpCall.newEP = NoEntry
    BY <1>try DEF DumpInv, EntryIsChosen
  <2>2. CASE InModule(a) /\ a - dumpImage.base <= Max32
    <3>1. a - dumpImage.base \in Number32 /\ a - dumpImage.base # NoEntry
          /\ a = dumpImage.base + (a - dumpImage.base)
      BY <1>0, <2>2 DEF InModule, Number32, NoEntry
    <3> DEFINE rva == a - dumpImage.base
    <3> HIDE DEF rva
    <3>2. c = [dumpCall EXCEPT !.rva = rva, !.newEP = a]
      BY <1>try, <2>2 DEF TrySetOEP, rva
    <3>3. rva \in Number32 /\ rva # NoEntry /\ a = dumpImage.base + rva
      BY <3>1 DEF rva
    <3> QED
      BY <1>0, <3>2, <3>3 DEF DumpCalls
  <2>3. CASE ~(InModule(a) /\ a - dumpImage.base <= Max32)
    BY <1>0, <1>try, <2>1, <2>3 DEF TrySetOEP
  <2> QED
    BY <2>2, <2>3
\* On to the rebuilding, or past it, with the buffer as it was read.
<1>chosen. ASSUME NEW c \in DumpCalls, NEW st \in {"rebuild", "checksum"},
                  dumpCall' = [c EXCEPT !.step = st], c.buffer = dumpCall.buffer,
                  c.rebuilt = dumpCall.rebuilt, dumpCall.step = "entry",
                  c.newEP # NoEntry => c.rva # NoEntry /\ c.newEP = dumpImage.base + c.rva,
                  dumpSession' \in {"none", "running", "paused"},
                  UNCHANGED <<dumpImage, dumpAllowed, dumpFile>>
           PROVE  DumpInv'
  <2>1. st \in DumpSteps
    BY DEF DumpSteps
  <2>2. /\ dumpCall' \in DumpCalls /\ dumpCall'.step = st /\ dumpCall'.rva = c.rva
        /\ dumpCall'.newEP = c.newEP /\ dumpCall'.rebuilt = c.rebuilt
        /\ dumpCall'.buffer = c.buffer
    BY <1>chosen, <2>1, NextCall
  <2>3. /\ ~dumpCall.rebuilt /\ dumpFile = NoFile /\ dumpCall.buffer \in Buffer
        /\ dumpCall.buffer.header = dumpImage.header
    BY <1>chosen DEF DumpInv, EntryIsChosen, FileIsBuffer, BufferIsRead
  <2>4. DumpTypeOK'
    BY <1>0, <1>chosen, <2>2 DEF DumpTypeOK
  <2> QED
    BY <1>chosen, <2>2, <2>3, <2>4
       DEF DumpInv, BufferIsRead, EntryIsChosen, RebuiltIsSound, FileIsBuffer
<1>5. CASE ChooseEntryPoint
  <2>0. /\ dumpCall.step = "entry" /\ UNCHANGED <<dumpImage, dumpAllowed, dumpFile>>
        /\ dumpSession' \in {"none", "running", "paused"}
        /\ dumpCall.newEP = NoEntry
    BY <1>0, <1>5 DEF ChooseEntryPoint, DumpStep, DumpTypeOK, DumpInv, EntryIsChosen
  <2>1. \/ dumpCall' = DumpFailed
        \/ \E a \in Int : dumpCall' = [TrySetOEP(a) EXCEPT !.step = "rebuild"]
        \/ dumpCall' = [dumpCall EXCEPT !.step = "rebuild"]
        \/ dumpCall' = [dumpCall EXCEPT !.step = "checksum"]
    BY <1>0, <1>5, EntriesAreNumbers DEF ChooseEntryPoint, DumpStep
  <2>2. CASE dumpCall' = DumpFailed
    BY <1>plain, <2>0, <2>2 DEF DumpFailed
  <2>3. CASE \E a \in Int : dumpCall' = [TrySetOEP(a) EXCEPT !.step = "rebuild"]
    <3> PICK a \in Int : dumpCall' = [TrySetOEP(a) EXCEPT !.step = "rebuild"]
      BY <2>3
    <3> QED
      BY <1>try, <1>chosen, <2>0
  <2>4. CASE dumpCall' = [dumpCall EXCEPT !.step = "rebuild"]
            \/ dumpCall' = [dumpCall EXCEPT !.step = "checksum"]
    BY <1>0, <1>chosen, <2>0, <2>4
  <2> QED
    BY <2>1, <2>2, <2>3, <2>4
\* Ends of a call whose buffer may have been rebuilt.
<1>wrote. ASSUME NEW st \in {"ok", "failed"}, dumpCall.step \in {"write", "write_region"},
                 dumpCall' = [dumpCall EXCEPT !.step = st],
                 \/ dumpFile'.image = dumpCall.buffer
                 \/ st = "failed" /\ dumpFile' = dumpFile,
                 UNCHANGED <<dumpSession, dumpImage, dumpAllowed>>
          PROVE  DumpInv'
  <2>1. st \in DumpSteps
    BY DEF DumpSteps
  <2>2. /\ dumpCall' \in DumpCalls /\ dumpCall'.step = st /\ dumpCall'.rva = dumpCall.rva
        /\ dumpCall'.newEP = dumpCall.newEP /\ dumpCall'.rebuilt = dumpCall.rebuilt
        /\ dumpCall'.buffer = dumpCall.buffer
    BY <1>0, <1>wrote, <2>1, NextCall
  <2>3. RebuiltIsSound /\ dumpFile = NoFile
    BY <1>wrote DEF DumpInv, FileIsBuffer
  <2>4. DumpTypeOK'
    BY <1>0, <1>wrote, <2>2 DEF DumpTypeOK
  <2>5. RebuiltIsSound'
    BY <1>wrote, <2>2, <2>3 DEF RebuiltIsSound, SectionsInside
  <2> QED
    BY <1>wrote, <2>2, <2>3, <2>4, <2>5 DEF DumpInv, BufferIsRead, EntryIsChosen, FileIsBuffer
<1>6. CASE RebuildDump
  <2>0. /\ dumpCall.step = "rebuild" /\ dumpCall.rebuilt = FALSE /\ dumpFile = NoFile
        /\ dumpCall.buffer \in Buffer /\ dumpCall.buffer.header = dumpImage.header
        /\ dumpCall.rva \in Number32 \cup {NoEntry}
        /\ dumpCall.newEP # NoEntry =>
              dumpCall.rva # NoEntry /\ dumpCall.newEP = dumpImage.base + dumpCall.rva
        /\ UNCHANGED <<dumpSession, dumpImage, dumpAllowed, dumpFile>>
    BY <1>0, <1>6 DEF RebuildDump, DumpStep, DumpInv, EntryIsChosen, FileIsBuffer, BufferIsRead,
       DumpCalls
  <2> DEFINE can == CanRebuild(dumpCall.buffer, dumpCall.rva)
             new == RebuildPEHeaders(dumpCall.buffer, dumpImage.base, dumpCall.rva)
  <2>1. can \in BOOLEAN /\ new \in Buffer
    <3>1. can \in BOOLEAN
      BY DEF CanRebuild
    <3>2. CASE can
      BY <1>0, <2>0, <3>2, RebuildKeeps
    <3>3. CASE ~can
      <4>1. new = dumpCall.buffer
        BY <3>3 DEF RebuildPEHeaders
      <4> QED
        BY <2>0, <3>1, <4>1
    <3> QED
      BY <3>1, <3>2, <3>3
  <2>2. can => /\ SectionsInside(new) /\ HeaderInside(new)
               /\ dumpCall.rva # NoEntry =>
                     new.header.entry = dumpCall.rva /\ dumpCall.rva < new.len
    BY <1>0, <2>0, RebuildKeeps
  <2>3. dumpCall' = [dumpCall EXCEPT !.step = "checksum", !.rebuilt = can, !.buffer = new]
    BY <1>6 DEF RebuildDump, DumpStep
  <2> HIDE DEF can, new
  <2>4. /\ dumpCall' \in DumpCalls /\ dumpCall'.step = "checksum" /\ dumpCall'.rebuilt = can
        /\ dumpCall'.buffer = new /\ dumpCall'.newEP = dumpCall.newEP
    BY <1>0, <2>1, <2>3 DEF DumpCalls, DumpSteps
  <2>5. DumpTypeOK'
    BY <1>0, <2>0, <2>4 DEF DumpTypeOK
  <2>6. RebuiltIsSound'
    BY <2>0, <2>2, <2>4 DEF RebuiltIsSound, SectionsInside
  <2> QED
    BY <2>0, <2>1, <2>4, <2>5, <2>6 DEF DumpInv, BufferIsRead, EntryIsChosen, FileIsBuffer
<1>7. CASE ClearChecksum
  <2>0. /\ dumpCall.step = "checksum" /\ dumpFile = NoFile /\ dumpCall.buffer \in Buffer
        /\ RebuiltIsSound /\ UNCHANGED <<dumpSession, dumpImage, dumpAllowed, dumpFile>>
    BY <1>7 DEF ClearChecksum, DumpStep, DumpInv, FileIsBuffer, BufferIsRead
  <2> DEFINE new == IF dumpCall.request.removeCheck THEN FixPEChecksum(dumpCall.buffer)
                    ELSE dumpCall.buffer
  <2>1. /\ new \in Buffer /\ new.len = dumpCall.buffer.len
        /\ new.header.lfanew = dumpCall.buffer.header.lfanew
        /\ new.header.optionalSize = dumpCall.buffer.header.optionalSize
        /\ new.header.sections = dumpCall.buffer.header.sections
        /\ new.header.entry = dumpCall.buffer.header.entry
    BY <2>0, ChecksumKeeps
  <2>2. dumpCall' = [dumpCall EXCEPT !.step = "write", !.buffer = new]
    BY <1>7 DEF ClearChecksum, DumpStep
  <2> HIDE DEF new
  <2>3. /\ dumpCall' \in DumpCalls /\ dumpCall'.step = "write"
        /\ dumpCall'.rebuilt = dumpCall.rebuilt
        /\ dumpCall'.buffer = new /\ dumpCall'.newEP = dumpCall.newEP
    BY <1>0, <2>1, <2>2 DEF DumpCalls, DumpSteps
  <2>4. DumpTypeOK'
    BY <1>0, <2>0, <2>3 DEF DumpTypeOK
  <2>5. RebuiltIsSound'
    BY <2>0, <2>1, <2>3 DEF RebuiltIsSound, SectionsInside, HeaderInside, NtOffset,
       SectionsOffset, OptionalOffset
  <2> QED
    BY <2>0, <2>1, <2>3, <2>4, <2>5 DEF DumpInv, BufferIsRead, EntryIsChosen, FileIsBuffer
<1>8. CASE WriteDump \/ WriteRegion
  <2>1. PICK st \in {"ok", "failed"} : dumpCall' = [dumpCall EXCEPT !.step = st]
    BY <1>8 DEF WriteDump, WriteRegion, DumpStep, DumpFailed
  <2>2. /\ dumpCall.step \in {"write", "write_region"}
        /\ UNCHANGED <<dumpSession, dumpImage, dumpAllowed>>
    BY <1>8 DEF WriteDump, WriteRegion, DumpStep
  <2>3. CASE dumpCall' = DumpFailed /\ UNCHANGED dumpFile
    BY <1>wrote, <2>2, <2>3 DEF DumpFailed
  <2>4. CASE \E whole \in BOOLEAN :
               dumpFile' = [whole |-> whole, copy |-> FALSE, image |-> dumpCall.buffer]
    <3>1. dumpFile'.image = dumpCall.buffer
      BY <2>4
    <3> QED
      BY <1>wrote, <2>1, <2>2, <3>1
  <2> QED
    BY <1>8, <2>3, <2>4 DEF WriteDump, WriteRegion, DumpStep
<1>9. CASE ReadRegion
  <2>0. /\ dumpCall.newEP = NoEntry /\ dumpCall.rva = NoEntry /\ dumpCall.rebuilt = FALSE
        /\ dumpFile = NoFile /\ dumpCall.step = "read_region"
        /\ UNCHANGED <<dumpSession, dumpImage, dumpAllowed, dumpFile>>
    BY <1>0, <1>9 DEF ReadRegion, DumpStep, DumpInv, EntryIsChosen, FileIsBuffer, DumpCalls
  <2>1. CASE dumpCall' = DumpFailed
    BY <1>0, <1>plain, <2>0, <2>1 DEF DumpFailed, DumpTypeOK
  <2>2. ASSUME NEW n \in 1..dumpImage.size, NEW fix \in BOOLEAN, NEW new,
               fix => ValidatePELayout(BufferOf(n)),
               new = IF fix THEN RebuildPEHeaders(BufferOf(n), dumpImage.base, NoEntry)
                     ELSE BufferOf(n),
               dumpCall' = [dumpCall EXCEPT !.step = "write_region", !.size = n,
                               !.rebuilt = fix, !.buffer = new]
        PROVE  DumpInv'
    <3>1. new \in Buffer /\ (fix => SectionsInside(new) /\ HeaderInside(new))
      <4>1. CASE fix
        <5>1. CanRebuild(BufferOf(n), NoEntry)
          BY <2>2, <4>1 DEF CanRebuild, NoEntry
        <5> QED
          BY <1>0, <1>buf, <2>2, <4>1, <5>1, RebuildKeeps
      <4> QED
        BY <1>buf, <2>2, <4>1
    <3>2. /\ dumpCall' \in DumpCalls /\ dumpCall'.step = "write_region"
          /\ dumpCall'.rebuilt = fix /\ dumpCall'.buffer = new /\ dumpCall'.newEP = NoEntry
      BY <1>0, <1>buf, <2>0, <2>2, <3>1 DEF DumpCalls, DumpSteps
    <3>3. DumpTypeOK'
      BY <1>0, <2>0, <3>2 DEF DumpTypeOK
    <3>4. RebuiltIsSound'
      BY <2>0, <3>1, <3>2 DEF RebuiltIsSound, SectionsInside
    <3> QED
      BY <2>0, <3>1, <3>2, <3>3, <3>4 DEF DumpInv, BufferIsRead, EntryIsChosen, FileIsBuffer
  <2>3. CASE \E n \in 1..dumpImage.size :
               LET b == BufferOf(n)
                   fix == ~dumpCall.request.raw /\ ValidatePELayout(b) IN
               dumpCall' = [dumpCall EXCEPT !.step = "write_region", !.size = n,
                   !.rebuilt = fix,
                   !.buffer = IF fix THEN RebuildPEHeaders(b, dumpImage.base, NoEntry) ELSE b]
    <3> PICK n \in 1..dumpImage.size :
               LET b == BufferOf(n)
                   fix == ~dumpCall.request.raw /\ ValidatePELayout(b) IN
               dumpCall' = [dumpCall EXCEPT !.step = "write_region", !.size = n,
                   !.rebuilt = fix,
                   !.buffer = IF fix THEN RebuildPEHeaders(b, dumpImage.base, NoEntry) ELSE b]
      BY <2>3
    <3> DEFINE fix == ~dumpCall.request.raw /\ ValidatePELayout(BufferOf(n))
               new == IF fix THEN RebuildPEHeaders(BufferOf(n), dumpImage.base, NoEntry)
                      ELSE BufferOf(n)
    <3>1. fix \in BOOLEAN /\ (fix => ValidatePELayout(BufferOf(n)))
      OBVIOUS
    <3>2. dumpCall' = [dumpCall EXCEPT !.step = "write_region", !.size = n,
                               !.rebuilt = fix, !.buffer = new]
      OBVIOUS
    <3> QED
      BY <2>2, <3>1, <3>2
  <2> QED
    BY <1>9, <2>1, <2>3 DEF ReadRegion, DumpStep
<1>10. CASE DetectOEP
  <2>0. /\ dumpCall.rebuilt = FALSE /\ dumpCall.step = "pause_query"
        /\ dumpSession' \in {"none", "running", "paused"} /\ UNCHANGED <<dumpImage, dumpAllowed, dumpFile>>
    BY <1>0, <1>10 DEF DetectOEP, DumpStep, DumpInv, EntryIsChosen, DumpCalls, DumpTypeOK
  <2>1. CASE dumpCall' = DumpFailed
    BY <1>plain, <2>0, <2>1 DEF DumpFailed
  <2>2. ASSUME NEW a \in DetectOEPByPattern,
               dumpCall' = [dumpCall EXCEPT !.step = "ok", !.newEP = a]
        PROVE  DumpInv'
    <3>1. a \in Int
      BY <1>0, EntriesAreNumbers
    <3>2. dumpCall' \in DumpCalls /\ dumpCall'.step = "ok" /\ dumpCall'.rebuilt = FALSE
      BY <1>0, <2>0, <2>2, <3>1 DEF DumpCalls, DumpSteps
    <3>3. DumpTypeOK'
      BY <1>0, <2>0, <3>2 DEF DumpTypeOK
    <3> QED
      BY <1>done, <3>2, <3>3
  <2> QED
    BY <1>10, <2>1, <2>2 DEF DetectOEP, DumpStep
<1>11. CASE Resume \/ UNCHANGED dumpVars
  <2>1. /\ dumpSession' \in {"none", "running", "paused"}
        /\ UNCHANGED <<dumpImage, dumpAllowed, dumpCall, dumpFile>>
    BY <1>0, <1>11 DEF Resume, dumpVars, DumpTypeOK
  <2> QED
    BY <1>0, <2>1 DEF DumpInv, DumpTypeOK, BufferIsRead, EntryIsChosen, RebuiltIsSound,
       FileIsBuffer, SectionsInside
<1> QED
  BY <1>1, <1>2, <1>3, <1>4, <1>5, <1>6, <1>7, <1>8, <1>9, <1>10, <1>11 DEF DumpNext

-----------------------------------------------------------------------------
(* What follows for every behaviour.                                         *)

\* Types, and all that the three theorems below rest on.
LEMMA DumpInvAlways == DumpSpec => []DumpInv
BY DumpInvInit, DumpInvStep, PTL DEF DumpSpec

\* Every section of a rebuilt and written image is inside its file.
THEOREM DumpedSections == DumpSpec => []DumpedSectionsInFile
<1>1. DumpInv => DumpedSectionsInFile
  BY DEF DumpInv, DumpedSectionsInFile, FileIsBuffer, RebuiltIsSound, DumpAt
<1> QED
  BY <1>1, DumpInvAlways, PTL

\* A dump only rewrites a header that it has read completely.
THEOREM RewrittenHeaders == DumpSpec => []RewrittenHeaderWasRead
<1>1. DumpInv => RewrittenHeaderWasRead
  BY DEF DumpInv, RewrittenHeaderWasRead, RebuiltIsSound
<1> QED
  BY <1>1, DumpInvAlways, PTL

\* The entry point of a rebuilt dump is inside it and is the answered one.
THEOREM RebuiltEntries == DumpSpec => []RebuiltEntryIsAnswered
<1>1. DumpInv => RebuiltEntryIsAnswered
  BY DEF DumpInv, RebuiltEntryIsAnswered, FileIsBuffer, RebuiltIsSound, DumpAt
<1> QED
  BY <1>1, DumpInvAlways, PTL

\* What a rebuilt dump says of itself agrees with what was read and written.
THEOREM RebuiltDumps == DumpSpec => []RebuiltDumpIsConsistent
<1>1. DumpedSectionsInFile /\ RewrittenHeaderWasRead /\ RebuiltEntryIsAnswered
        => RebuiltDumpIsConsistent
  BY DEF RebuiltDumpIsConsistent
<1> QED
  BY <1>1, DumpedSections, RewrittenHeaders, RebuiltEntries, PTL

-----------------------------------------------------------------------------
(* A dump is rebuilt completely or not at all.                               *)

\* The header that a rebuild leaves has every change of it and no others.
LEMMA RebuildIsWhole ==
    ASSUME NEW b \in Buffer, NEW base \in Nat, NEW e \in Number32 \cup {NoEntry}, NEW c,
           NEW newEP \in Int, newEP = NoEntry => e = NoEntry,
           newEP # NoEntry => e # NoEntry /\ newEP = base + e,
           CanRebuild(b, e), c = RebuildPEHeaders(b, base, e)
    PROVE  /\ c.len = b.len /\ c.header.checkSum = b.header.checkSum
           /\ RebuiltFrom(b.header, c.header, base, newEP)
<1> DEFINE h == b.header
           entry == IF newEP = NoEntry THEN h.entry ELSE newEP - base
           new == c.header.sections
<1>1. h \in Header /\ h.sections \in Seq(Section)
  BY DEF Buffer, Header
<1>2. entry = IF e = -1 THEN h.entry ELSE e
  <2>1. e # NoEntry => e \in Int
    BY DEF Number32
  <2> QED
    BY <2>1 DEF NoEntry
<1>3. /\ DOMAIN new = DOMAIN h.sections
      /\ \A i \in DOMAIN h.sections :
            new[i] = AlignSection(h.sections[i], b.len, FileAlignment(h))
  BY RebuildFits
<1>4. ASSUME NEW i \in DOMAIN h.sections
      PROVE  new[i] = [h.sections[i] EXCEPT !.rawPointer = new[i].rawPointer,
                          !.rawSize = new[i].rawSize]
  <2> DEFINE s == h.sections[i]
             t == AlignSection(s, b.len, FileAlignment(h))
  <2>1. s \in Section
    BY <1>1
  <2>2. new[i] = t
    BY <1>3
  <2>3. \E p, q : t = [s EXCEPT !.rawPointer = p, !.rawSize = q]
    BY DEF AlignSection
  <2> HIDE DEF s, t
  <2>4. t = [s EXCEPT !.rawPointer = t.rawPointer, !.rawSize = t.rawSize]
    BY <2>1, <2>3 DEF Section
  <2> QED
    BY <2>2, <2>4 DEF s
<1>5. /\ c.len = b.len
      /\ \E sections : c.header = [[h EXCEPT !.imageBase = base, !.entry = entry]
                                     EXCEPT !.sections = sections]
  BY <1>2 DEF RebuildPEHeaders, AlignPESections
<1> HIDE DEF h, entry
<1>6. PICK sections : c.header = [[h EXCEPT !.imageBase = base, !.entry = entry]
                                    EXCEPT !.sections = sections]
  BY <1>5
<1>7. c.header.sections = sections /\ c.header.checkSum = h.checkSum
  BY <1>1, <1>6 DEF Header
<1>8. c.header = [h EXCEPT !.checkSum = c.header.checkSum, !.imageBase = base,
                     !.entry = entry, !.sections = c.header.sections]
  BY <1>1, <1>6, <1>7 DEF Header
<1> QED
  BY <1>3, <1>4, <1>5, <1>7, <1>8 DEF RebuiltFrom, h, entry

\* Clearing a checksum changes nothing else.
LEMMA ChecksumIsWhole ==
    ASSUME NEW b \in Buffer, NEW image, image.header \in Header, NEW call,
           WholeDump(b, image, call), NEW c, c = b \/ c = FixPEChecksum(b)
    PROVE  WholeDump(c, image, call)
<1> DEFINE h == b.header
           g == [h EXCEPT !.checkSum = FALSE]
           was == image.header
<1>0. h \in Header /\ was \in Header
  BY DEF Buffer
<1>1. CASE c = b
  BY <1>1
<1>2. CASE c = [b EXCEPT !.header.checkSum = FALSE]
  <2>1. c.header = g /\ c.len = b.len
    BY <1>2 DEF Buffer
  <2>2. g.checkSum = FALSE /\ g.sections = h.sections
    BY <1>0 DEF Header
  <2>3. ReadFrom(was, h) => ReadFrom(was, g)
    BY <1>0, <2>2 DEF ReadFrom, Header
  <2>4. ASSUME NEW base, NEW newEP, RebuiltFrom(was, h, base, newEP)
        PROVE  RebuiltFrom(was, g, base, newEP)
    <3> DEFINE entry == IF newEP = NoEntry THEN was.entry ELSE newEP - base
    <3>1. h = [was EXCEPT !.checkSum = h.checkSum, !.imageBase = base, !.entry = entry,
                  !.sections = h.sections]
      BY <2>4 DEF RebuiltFrom
    <3> HIDE DEF entry
    <3>2. g = [was EXCEPT !.checkSum = FALSE, !.imageBase = base, !.entry = entry,
                  !.sections = h.sections]
      BY <1>0, <3>1 DEF Header
    <3> QED
      BY <2>2, <2>4, <3>2 DEF RebuiltFrom, entry
  <2> HIDE DEF g, h, was
  <2>5. b.len = call.size
        /\ IF call.rebuilt THEN RebuiltFrom(was, h, image.base, call.newEP) ELSE ReadFrom(was, h)
    BY DEF WholeDump, h, was
  <2> QED
    BY <2>1, <2>2, <2>3, <2>4, <2>5 DEF WholeDump, was
<1> QED
  BY <1>1, <1>2 DEF FixPEChecksum

\* What is known of the buffer on its way to the file.
WholeInv ==
    /\ DumpAt("entry") \/ DumpAt("rebuild") => dumpCall.buffer.len = dumpCall.size
    /\ DumpAt("rebuild") /\ dumpCall.newEP = NoEntry => dumpCall.rva = NoEntry
    /\ dumpCall.step \in {"checksum", "write", "write_region"} =>
          WholeDump(dumpCall.buffer, dumpImage, dumpCall)
    /\ DumpsAreAllOrNothing

\* Neither the step nor the entry of a call is part of what it may write.
LEMMA SameCall ==
    ASSUME NEW b, NEW image, NEW call, NEW next, WholeDump(b, image, call),
           next.size = call.size, next.rebuilt = call.rebuilt, next.newEP = call.newEP
    PROVE  WholeDump(b, image, next)
BY DEF WholeDump

\* A buffer that is not rebuilt is what was read.
LEMMA ReadIsWhole ==
    ASSUME NEW b \in Buffer, NEW image, image.header \in Header, b.header = image.header,
           NEW call, b.len = call.size, call.rebuilt = FALSE
    PROVE  WholeDump(b, image, call)
<1>1. ReadFrom(image.header, b.header)
  BY DEF ReadFrom, Header
<1> QED
  BY <1>1 DEF WholeDump

LEMMA WholeInvStep == DumpInv /\ WholeInv /\ [DumpNext]_dumpVars => WholeInv'
<1> SUFFICES ASSUME DumpInv, WholeInv, [DumpNext]_dumpVars PROVE WholeInv'
  OBVIOUS
<1> USE DEF DumpAt
<1>0. /\ dumpImage \in Images /\ dumpCall \in DumpCalls
      /\ dumpImage.header \in Header /\ dumpImage.size \in Nat /\ dumpImage.base \in Nat
      /\ NoEntry \in Int
  BY ImageAssumption DEF DumpInv, DumpTypeOK, NoEntry
\* Before anything is written there is no file, and there is nothing to say of
\* the buffer until it is read.
<1>none. dumpCall.step \notin {"ok", "failed"} => dumpFile = NoFile
  BY DEF DumpInv, FileIsBuffer
<1>early. ASSUME dumpCall'.step \notin {"entry", "rebuild", "checksum", "write", "write_region"},
                 dumpFile' = NoFile
          PROVE  WholeInv'
  BY <1>early DEF WholeInv, DumpsAreAllOrNothing
<1>failed. ASSUME dumpCall' = DumpFailed, dumpFile' = NoFile PROVE WholeInv'
  <2>1. dumpCall'.step = "failed"
    BY <1>0, <1>failed DEF DumpFailed, DumpCalls
  <2> QED
    BY <1>early, <1>failed, <2>1
<1>step. ASSUME NEW st, dumpCall' = [dumpCall EXCEPT !.step = st]
         PROVE  /\ dumpCall'.step = st /\ dumpCall'.buffer = dumpCall.buffer
                /\ dumpCall'.size = dumpCall.size /\ dumpCall'.rebuilt = dumpCall.rebuilt
                /\ dumpCall'.newEP = dumpCall.newEP /\ dumpCall'.rva = dumpCall.rva
  BY <1>0, <1>step DEF DumpCalls
<1>1. ASSUME NEW request \in DumpRequests,
             DumpModule(request) \/ DumpMemoryRegion(request) \/ DumpQuery(request)
      PROVE  WholeInv'
  <2>1. PICK st \in {"pause", "read_region", "pause_query", "ok", "failed"} :
            dumpCall' = [step |-> st, request |-> request, buffer |-> NoFile, rva |-> NoEntry,
                         newEP |-> NoEntry, rebuilt |-> FALSE, size |-> 0]
    BY <1>1 DEF DumpModule, DumpMemoryRegion, DumpQuery, DumpStep, NoDumpCall
  <2>2. dumpCall'.step = st
    BY <2>1
  <2>3. dumpFile' = NoFile
    BY <1>1, <1>none DEF DumpModule, DumpMemoryRegion, DumpQuery
  <2> QED
    BY <1>early, <2>2, <2>3
<1>2. CASE EnsureDebuggerPausedForDump \/ PrepareDump \/ AnalyzeModule
  <2>1. PICK st \in {"prepare", "copy", "read", "ok", "failed"} :
            dumpCall' = [dumpCall EXCEPT !.step = st]
    BY <1>2 DEF EnsureDebuggerPausedForDump, PrepareDump, AnalyzeModule, DumpStep, DumpFailed
  <2>2. dumpFile' = NoFile
    BY <1>2, <1>none DEF EnsureDebuggerPausedForDump, PrepareDump, AnalyzeModule
  <2>3. dumpCall'.step = st
    BY <1>step, <2>1
  <2> QED
    BY <1>early, <2>2, <2>3
<1>3. CASE CopyOriginal
  <2>1. dumpFile = NoFile
    BY <1>3, <1>none DEF CopyOriginal
  <2>2. CASE /\ dumpFile' = [whole |-> TRUE, copy |-> TRUE, image |-> NoFile]
             /\ dumpCall' = [dumpCall EXCEPT !.step = "ok", !.newEP = GetModuleEntryPoint]
    <3>1. dumpCall'.step = "ok" /\ dumpFile'.copy
      BY <1>0, <2>2 DEF DumpCalls
    <3> QED
      BY <3>1 DEF WholeInv, DumpsAreAllOrNothing
  <2> QED
    BY <1>3, <1>failed, <2>1, <2>2 DEF CopyOriginal, DumpStep
<1>4. CASE ReadModule
  <2>1. dumpFile' = NoFile
    BY <1>4, <1>none DEF ReadModule
  <2>2. ASSUME NEW n \in 1..dumpImage.size,
               dumpCall' = [dumpCall EXCEPT !.step = "entry", !.buffer = BufferOf(n), !.size = n]
        PROVE  WholeInv'
    <3>1. dumpCall'.step = "entry" /\ dumpCall'.buffer = BufferOf(n) /\ dumpCall'.size = n
      BY <1>0, <2>2 DEF DumpCalls
    <3>2. BufferOf(n).len = n
      BY DEF BufferOf
    <3> QED
      BY <2>1, <3>1, <3>2 DEF WholeInv, DumpsAreAllOrNothing
  <2> QED
    BY <1>4, <1>failed, <2>1, <2>2 DEF ReadModule, DumpStep
<1>5. CASE ChooseEntryPoint
  <2>0. /\ dumpCall.step = "entry" /\ dumpFile' = NoFile /\ dumpImage' = dumpImage
        /\ dumpCall.buffer.len = dumpCall.size /\ dumpCall.newEP = NoEntry
        /\ dumpCall.rva = NoEntry /\ dumpCall.rebuilt = FALSE
        /\ dumpCall.buffer \in Buffer /\ dumpCall.buffer.header = dumpImage.header
    BY <1>0, <1>5, <1>none DEF ChooseEntryPoint, DumpStep, WholeInv, DumpInv, EntryIsChosen,
       BufferIsRead, DumpCalls
  <2>1. \/ dumpCall' = DumpFailed
        \/ \E a \in Int : dumpCall' = [TrySetOEP(a) EXCEPT !.step = "rebuild"]
        \/ dumpCall' = [dumpCall EXCEPT !.step = "rebuild"]
        \/ dumpCall' = [dumpCall EXCEPT !.step = "checksum"]
    BY <1>0, <1>5, EntriesAreNumbers DEF ChooseEntryPoint, DumpStep
  <2>2. ASSUME NEW a \in Int, dumpCall' = [TrySetOEP(a) EXCEPT !.step = "rebuild"]
        PROVE  WholeInv'
    <3>1. CASE InModule(a)
      <4>1. a # NoEntry
        BY <1>0, <3>1 DEF InModule, NoEntry
      <4>2. \/ dumpCall' = [[dumpCall EXCEPT !.rva = a - dumpImage.base, !.newEP = a]
                               EXCEPT !.step = "rebuild"]
            \/ dumpCall' = [dumpCall EXCEPT !.step = "rebuild"]
        BY <2>2 DEF TrySetOEP
      <4>3. /\ dumpCall'.step = "rebuild" /\ dumpCall'.buffer = dumpCall.buffer
            /\ dumpCall'.size = dumpCall.size
            /\ dumpCall'.newEP = NoEntry => dumpCall'.rva = NoEntry
        BY <1>0, <2>0, <4>1, <4>2 DEF DumpCalls
      <4> QED
        BY <2>0, <4>3 DEF WholeInv, DumpsAreAllOrNothing
    <3>2. CASE ~InModule(a)
      <4>1. dumpCall' = [dumpCall EXCEPT !.step = "rebuild"]
        BY <2>2, <3>2 DEF TrySetOEP
      <4> QED
        BY <1>step, <2>0, <4>1 DEF WholeInv, DumpsAreAllOrNothing
    <3> QED
      BY <3>1, <3>2
  <2>3. CASE dumpCall' = [dumpCall EXCEPT !.step = "rebuild"]
    BY <1>step, <2>0, <2>3 DEF WholeInv, DumpsAreAllOrNothing
  <2>4. CASE dumpCall' = [dumpCall EXCEPT !.step = "checksum"]
    <3>1. /\ dumpCall'.step = "checksum" /\ dumpCall'.buffer = dumpCall.buffer
          /\ dumpCall'.size = dumpCall.size /\ dumpCall'.rebuilt = FALSE
      BY <1>step, <2>0, <2>4
    <3>2. WholeDump(dumpCall.buffer, dumpImage, dumpCall')
      BY <1>0, <2>0, <3>1, ReadIsWhole
    <3> QED
      BY <2>0, <3>1, <3>2 DEF WholeInv, DumpsAreAllOrNothing
  <2> QED
    BY <1>failed, <2>0, <2>1, <2>2, <2>3, <2>4
<1>6. CASE RebuildDump
  <2>0. /\ dumpCall.step = "rebuild" /\ dumpFile' = NoFile /\ dumpImage' = dumpImage
        /\ dumpCall.buffer \in Buffer /\ dumpCall.buffer.header = dumpImage.header
        /\ dumpCall.buffer.len = dumpCall.size /\ dumpCall.newEP \in Int
        /\ dumpCall.rva \in Number32 \cup {NoEntry}
        /\ dumpCall.newEP = NoEntry => dumpCall.rva = NoEntry
        /\ dumpCall.newEP # NoEntry =>
              dumpCall.rva # NoEntry /\ dumpCall.newEP = dumpImage.base + dumpCall.rva
    BY <1>0, <1>6, <1>none DEF RebuildDump, DumpStep, WholeInv, DumpInv, EntryIsChosen,
       BufferIsRead, DumpCalls
  <2> DEFINE can == CanRebuild(dumpCall.buffer, dumpCall.rva)
             new == RebuildPEHeaders(dumpCall.buffer, dumpImage.base, dumpCall.rva)
  <2>1. dumpCall' = [dumpCall EXCEPT !.step = "checksum", !.rebuilt = can, !.buffer = new]
    BY <1>6 DEF RebuildDump, DumpStep
  <2>2. can \in BOOLEAN
    BY DEF CanRebuild
  <2>3. ~can => new = dumpCall.buffer
    BY DEF RebuildPEHeaders
  <2>4. can => /\ new.len = dumpCall.buffer.len
               /\ new.header.checkSum = dumpImage.header.checkSum
               /\ RebuiltFrom(dumpImage.header, new.header, dumpImage.base, dumpCall.newEP)
    BY <1>0, <2>0, RebuildIsWhole
  <2> HIDE DEF can, new
  <2>5. /\ dumpCall'.step = "checksum" /\ dumpCall'.rebuilt = can /\ dumpCall'.buffer = new
        /\ dumpCall'.size = dumpCall.size /\ dumpCall'.newEP = dumpCall.newEP
    BY <1>0, <2>1 DEF DumpCalls
  <2>6. WholeDump(new, dumpImage, dumpCall')
    <3>1. CASE can
      BY <2>0, <2>4, <2>5, <3>1 DEF WholeDump
    <3>2. CASE ~can
      BY <1>0, <2>0, <2>2, <2>3, <2>5, <3>2, ReadIsWhole
    <3> QED
      BY <3>1, <3>2
  <2> QED
    BY <2>0, <2>5, <2>6 DEF WholeInv, DumpsAreAllOrNothing
<1>7. CASE ClearChecksum
  <2>0. /\ dumpCall.step = "checksum" /\ dumpFile' = NoFile /\ dumpImage' = dumpImage
        /\ dumpCall.buffer \in Buffer /\ WholeDump(dumpCall.buffer, dumpImage, dumpCall)
    BY <1>7, <1>none DEF ClearChecksum, DumpStep, WholeInv, DumpInv, BufferIsRead
  <2> DEFINE new == IF dumpCall.request.removeCheck THEN FixPEChecksum(dumpCall.buffer)
                    ELSE dumpCall.buffer
  <2>1. WholeDump(new, dumpImage, dumpCall)
    BY <1>0, <2>0, ChecksumIsWhole
  <2>2. dumpCall' = [dumpCall EXCEPT !.step = "write", !.buffer = new]
    BY <1>7 DEF ClearChecksum, DumpStep
  <2> HIDE DEF new
  <2>3. /\ dumpCall'.step = "write" /\ dumpCall'.buffer = new /\ dumpCall'.size = dumpCall.size
        /\ dumpCall'.rebuilt = dumpCall.rebuilt /\ dumpCall'.newEP = dumpCall.newEP
    BY <1>0, <2>2 DEF DumpCalls
  <2>4. WholeDump(new, dumpImage, dumpCall')
    BY <2>1, <2>3, SameCall
  <2> QED
    BY <2>0, <2>3, <2>4 DEF WholeInv, DumpsAreAllOrNothing
<1>8. CASE WriteDump \/ WriteRegion
  <2>0. /\ dumpFile = NoFile /\ dumpImage' = dumpImage
        /\ WholeDump(dumpCall.buffer, dumpImage, dumpCall)
    BY <1>8, <1>none DEF WriteDump, WriteRegion, DumpStep, WholeInv
  <2>1. ASSUME NEW st \in {"ok", "failed"}, dumpCall' = [dumpCall EXCEPT !.step = st],
               dumpFile'.image = dumpCall.buffer
        PROVE  WholeInv'
    <3>1. WholeDump(dumpCall.buffer, dumpImage, dumpCall')
      BY <1>step, <2>0, <2>1, SameCall
    <3> QED
      BY <1>step, <2>0, <2>1, <3>1 DEF WholeInv, DumpsAreAllOrNothing
  <2>2. \/ dumpCall' = DumpFailed /\ dumpFile' = dumpFile
        \/ /\ dumpFile'.image = dumpCall.buffer
           /\ \E st \in {"ok", "failed"} : dumpCall' = [dumpCall EXCEPT !.step = st]
    BY <1>8 DEF WriteDump, WriteRegion, DumpStep
  <2> QED
    BY <1>failed, <2>0, <2>1, <2>2
<1>9. CASE ReadRegion
  <2>0. /\ dumpFile' = NoFile /\ dumpImage' = dumpImage /\ dumpCall.newEP = NoEntry
        /\ dumpCall.step = "read_region"
    BY <1>9, <1>none DEF ReadRegion, DumpStep, DumpInv, EntryIsChosen
  <2>1. ASSUME NEW n \in 1..dumpImage.size, NEW fix \in BOOLEAN, NEW new,
               fix => ValidatePELayout(BufferOf(n)),
               new = IF fix THEN RebuildPEHeaders(BufferOf(n), dumpImage.base, NoEntry)
                     ELSE BufferOf(n),
               dumpCall' = [dumpCall EXCEPT !.step = "write_region", !.size = n,
                               !.rebuilt = fix, !.buffer = new]
        PROVE  WholeInv'
    <3>1. /\ BufferOf(n) \in Buffer /\ BufferOf(n).header = dumpImage.header
          /\ BufferOf(n).len = n
      BY <1>0 DEF BufferOf, Buffer
    <3>2. /\ dumpCall'.step = "write_region" /\ dumpCall'.size = n /\ dumpCall'.rebuilt = fix
          /\ dumpCall'.buffer = new /\ dumpCall'.newEP = NoEntry
      BY <1>0, <2>0, <2>1 DEF DumpCalls
    <3>3. WholeDump(new, dumpImage, dumpCall')
      <4>1. CASE fix
        <5>1. CanRebuild(BufferOf(n), NoEntry)
          BY <2>1, <4>1 DEF CanRebuild, NoEntry
        <5>2. /\ new.len = n /\ new.header.checkSum = dumpImage.header.checkSum
              /\ RebuiltFrom(dumpImage.header, new.header, dumpImage.base, NoEntry)
          BY <1>0, <2>1, <3>1, <4>1, <5>1, RebuildIsWhole
        <5> QED
          BY <3>2, <4>1, <5>2 DEF WholeDump
      <4>2. CASE ~fix
        BY <1>0, <2>1, <3>1, <3>2, <4>2, ReadIsWhole
      <4> QED
        BY <4>1, <4>2
    <3> QED
      BY <2>0, <3>2, <3>3 DEF WholeInv, DumpsAreAllOrNothing
  <2>2. CASE dumpCall' # DumpFailed
    <3>1. PICK n \in 1..dumpImage.size :
             LET b == BufferOf(n)
                 fix == ~dumpCall.request.raw /\ ValidatePELayout(b) IN
             DumpStep([dumpCall EXCEPT !.step = "write_region", !.size = n, !.rebuilt = fix,
                 !.buffer = IF fix THEN RebuildPEHeaders(b, dumpImage.base, NoEntry) ELSE b])
      BY <1>9, <2>2 DEF ReadRegion, DumpStep
    <3> DEFINE fix == ~dumpCall.request.raw /\ ValidatePELayout(BufferOf(n))
               new == IF fix THEN RebuildPEHeaders(BufferOf(n), dumpImage.base, NoEntry)
                      ELSE BufferOf(n)
    <3>2. fix \in BOOLEAN /\ (fix => ValidatePELayout(BufferOf(n)))
      OBVIOUS
    <3>3. dumpCall' = [dumpCall EXCEPT !.step = "write_region", !.size = n,
                         !.rebuilt = fix, !.buffer = new]
      BY <3>1 DEF DumpStep
    <3> QED
      BY <2>1, <3>2, <3>3
  <2> QED
    BY <1>failed, <2>0, <2>2
<1>10. CASE DetectOEP
  <2>1. dumpFile' = NoFile
    BY <1>10, <1>none DEF DetectOEP
  <2>2. ASSUME NEW a, dumpCall' = [dumpCall EXCEPT !.step = "ok", !.newEP = a] PROVE WholeInv'
    <3>1. dumpCall'.step = "ok"
      BY <1>0, <2>2 DEF DumpCalls
    <3> QED
      BY <1>early, <2>1, <3>1
  <2> QED
    BY <1>10, <1>failed, <2>1, <2>2 DEF DetectOEP, DumpStep
<1>11. CASE Resume \/ UNCHANGED dumpVars
  <2>1. UNCHANGED <<dumpImage, dumpCall, dumpFile>>
    BY <1>11 DEF Resume, dumpVars
  <2> QED
    BY <2>1 DEF WholeInv, DumpsAreAllOrNothing
<1> QED
  BY <1>1, <1>2, <1>3, <1>4, <1>5, <1>6, <1>7, <1>8, <1>9, <1>10, <1>11 DEF DumpNext

\* An image that is handed to the disk was rebuilt completely or not at all.
THEOREM DumpsAreWhole == DumpSpec => []DumpsAreAllOrNothing
<1>1. DumpInit => WholeInv
  <2> SUFFICES ASSUME DumpInit PROVE WholeInv
    OBVIOUS
  <2>1. dumpCall.step = "idle" /\ dumpFile = NoFile
    BY DEF DumpInit, NoDumpCall
  <2> QED
    BY <2>1 DEF WholeInv, DumpsAreAllOrNothing, DumpAt
<1>2. WholeInv => DumpsAreAllOrNothing
  BY DEF WholeInv
<1> QED
  BY <1>1, <1>2, WholeInvStep, DumpInvAlways, PTL DEF DumpSpec

-----------------------------------------------------------------------------
(* Memory.  A search is proved by three inductions: over the places of one   *)
(* buffer (BufferIsSearched), over the chunks of a region (SearchingIn) and  *)
(* over the regions of the map (BetweenRegions).  Each says that whatever    *)
(* lies before some address is done, and nothing behind it.                  *)

\* Induction over the numbers, for sets.
LEMMA AllNumbers ==
  ASSUME NEW S \in SUBSET Nat, 0 \in S, \A n \in S : n + 1 \in S
  PROVE  S = Nat
<1>1. SUFFICES ASSUME Nat \ S # {} PROVE FALSE
  OBVIOUS
<1>2. PICK n \in Nat \ S : \A m \in Nat \ S : ~(<<m, n>> \in OpToRel(<, Nat))
  BY <1>1, NatLessThanWellFounded, WFMin
<1>3. \A m \in Nat \ S : ~(m < n)
  BY <1>2 DEF OpToRel
<1>4. n \in Nat /\ n \notin S /\ n # 0
  OBVIOUS
<1>5. n - 1 \in Nat /\ n - 1 < n
  BY <1>4
<1>6. n - 1 \in S
  BY <1>3, <1>5
<1>7. (n - 1) + 1 \in S
  BY <1>6
<1> QED
  BY <1>4, <1>7

-----------------------------------------------------------------------------
(* Memory: the regions.                                                      *)

EndOf(r) == r.base + r.size

\* The regions of the debuggee do not overlap.
RegionsApart ==
    /\ memRegions \subseteq Region
    /\ \A r \in memRegions : EndOf(r) <= LastAddress + 1
    /\ \A r, s \in memRegions : r # s => EndOf(r) <= s.base \/ EndOf(s) <= r.base

\* A search works on a copy of the map, in which protections are old.
SameRegion(q, r) == q.base = r.base /\ q.size = r.size /\ q.state = r.state
ToDo(r, regions) == \E q \in regions : SameRegion(q, r)

-----------------------------------------------------------------------------
(* Memory: what a search has found.                                          *)

\* Found, or beyond the limit.
Known(a, found, limit) ==
    \/ \E i \in DOMAIN found : found[i] = a
    \/ Len(found) = limit /\ \A i \in DOMAIN found : found[i] < a

\* Of all matches, which have a length, those that begin before f and end by
\* e were looked at.
Scanned(found, f, e, all, length, limit) ==
    /\ found \in Seq(Nat) /\ Len(found) <= limit
    /\ \A i, j \in DOMAIN found : i < j => found[i] < found[j]
    /\ \A i \in DOMAIN found : found[i] \in all /\ found[i] < f /\ found[i] + length <= e
    /\ \A a \in all : a < f /\ a + length <= e => Known(a, found, limit)

\* The end of what was searched, carried over, begins at a.
CarriedFrom(carry, a, bytes) ==
    Len(carry) \in Nat /\ carry = [i \in 1..Len(carry) |-> bytes[a + i - 1]]

MemoryFields == {"step", "addr", "size", "encoding", "buffer", "got", "pattern", "window",
                 "limit", "regions", "last", "carry", "found"}

\* What a search was asked for, and its copy of the map.
SearchTypeOK ==
    /\ memCall.pattern \in Seq(Bytes \cup {Wildcard}) /\ memCall.pattern # <<>>
    /\ memCall.window \in Nat \X Nat /\ memCall.limit \in Nat /\ memCall.size = 0
    /\ memGaps \subseteq Nat
    /\ \A q \in memCall.regions : \E r \in memRegions : SameRegion(q, r)
    /\ \A p, q \in memCall.regions : p.base = q.base => p = q

\* What begins before f was looked at, up to f, and no gap is behind it.
ScannedTo(f) ==
    /\ f \in Nat
    /\ Scanned(memCall.found, f, f, ShouldFind, Len(memCall.pattern), memCall.limit)
    /\ \A g \in memGaps : g < f

\* Before f everything is done, behind it nothing.
BetweenRegions == \E f \in Nat :
    /\ ScannedTo(f)
    /\ \A r \in memRegions :
          IF ToDo(r, memCall.regions) THEN f <= r.base ELSE EndOf(r) <= f

\* Bytes are carried over from where a match that was not seen may begin.
CarriesEnough(carry, addr, first, gaps, length) ==
    /\ Len(carry) < length /\ first <= addr - Len(carry)
    /\ \A g \in gaps : g < addr - Len(carry)
    /\ \/ Len(carry) = length - 1
       \/ first = addr - Len(carry)
       \/ addr - Len(carry) - 1 \in gaps

\* Within r everything before the next chunk is done.
SearchingIn(r) ==
    /\ ~ToDo(r, memCall.regions) /\ Searched(r, memCall.window)
    /\ memCall.last = SearchEnd(r, memCall.window)
    /\ memCall.addr \in SearchStart(r, memCall.window)..memCall.last
    /\ ScannedTo(memCall.addr)
    /\ CarriedFrom(memCall.carry, memCall.addr - Len(memCall.carry), memBytes)
    /\ CarriesEnough(memCall.carry, memCall.addr, SearchStart(r, memCall.window), memGaps,
                     Len(memCall.pattern))
    /\ \A s \in memRegions \ {r} :
          IF ToDo(s, memCall.regions) THEN EndOf(r) <= s.base ELSE EndOf(s) <= r.base

SearchInv ==
    /\ memCall.step \in {"region", "search"} => SearchTypeOK
    /\ memCall.step = "region" => BetweenRegions
    /\ memCall.step = "search" => \E r \in memRegions : SearchingIn(r)
    /\ SearchFindsEachOnce

-----------------------------------------------------------------------------
(* Memory: what a read has read.                                             *)

\* The buffer holds what was read.
Reading ==
    /\ memCall.addr \in Nat /\ memCall.size \in Nat /\ memCall.got \in 0..memCall.size
    /\ memCall.got = memCall.size \/ memCall.got % ReadChunk = 0
    /\ memCall.buffer = [i \in 1..memCall.size |-> memCall.buffer[i]]
    /\ \A i \in 1..memCall.got : memCall.buffer[i] = memBytes[memCall.addr + i - 1]
    /\ memCall.pattern = <<>>

ReadInv == (memCall.step = "read" => Reading) /\ ReadIsPrefix

NothingAsked ==
    memCall.step = "idle" => memCall = NoMemoryCall /\ memGaps = {}
MemoryInv == DOMAIN memCall = MemoryFields /\ RegionsApart /\ NothingAsked /\ SearchInv /\ ReadInv

-----------------------------------------------------------------------------
(* Memory: lemmas.                                                           *)

\* Regions are not empty, and have bases of their own.
LEMMA RegionsAre ==
  ASSUME RegionsApart, NEW r \in memRegions
  PROVE  /\ r \in Region /\ r.base \in Nat /\ r.size \in Nat /\ EndOf(r) \in Nat
         /\ r.base < EndOf(r) /\ EndOf(r) <= LastAddress + 1
         /\ \A s \in memRegions : s.base = r.base => s = r
<1>1. /\ LastAddress \in Nat /\ memRegions \subseteq Region
      /\ \A s \in memRegions : EndOf(s) <= LastAddress + 1
  BY MemoryAssumption DEF RegionsApart
<1>2. \A s \in memRegions :
         s.base \in Nat /\ s.size \in Nat /\ s.base < EndOf(s) /\ EndOf(s) \in Nat
  BY <1>1 DEF Region, Addresses, EndOf
<1> QED
  BY <1>1, <1>2 DEF RegionsApart

\* Regions have a first one.
LEMMA ForemostIs ==
  ASSUME NEW regions, regions # {}, \A q \in regions : q.base \in Nat
  PROVE  Foremost(regions) \in regions /\ \A q \in regions : Foremost(regions).base <= q.base
<1> DEFINE B == {q.base : q \in regions}
<1>1. B \subseteq Nat /\ B # {}
  OBVIOUS
<1>2. PICK b \in B : \A m \in B : ~(<<m, b>> \in OpToRel(<, Nat))
  BY <1>1, NatLessThanWellFounded, WFMin
<1> HIDE DEF B
<1>3. ASSUME NEW m \in B PROVE b <= m
  <2>1. m \in Nat /\ b \in Nat /\ ~(m < b)
    BY <1>1, <1>2 DEF OpToRel
  <2> QED
    BY <2>1
<1>4. PICK r \in regions : r.base = b
  BY DEF B
<1>5. \A q \in regions : r.base <= q.base
  BY <1>3, <1>4 DEF B
<1> QED
  BY <1>5 DEF Foremost

\* The window cuts a region.
LEMMA WindowIs ==
  ASSUME RegionsApart, NEW r \in memRegions, NEW w \in Nat \X Nat, Searched(r, w)
  PROVE  /\ SearchStart(r, w) \in Nat /\ r.base <= SearchStart(r, w)
         /\ SearchStart(r, w) < EndOf(r)
         /\ SearchEnd(r, w) \in Nat /\ SearchEnd(r, w) <= EndOf(r)
<1>1. w[1] \in Nat /\ w[2] \in Nat
  OBVIOUS
<1>2. r.base \in Nat /\ EndOf(r) \in Nat /\ r.base < EndOf(r)
  BY RegionsAre
<1> QED
  BY <1>1, <1>2 DEF Searched, SearchStart, SearchEnd, LeastOf, EndOf

\* A match lies in a region.
LEMMA MatchesAreIn ==
  ASSUME RegionsApart, SearchTypeOK, NEW a \in ShouldFind
  PROVE  /\ a \in Nat /\ MatchPattern(memBytes, a, memCall.pattern)
         /\ \A g \in memGaps : g < a \/ a + Len(memCall.pattern) <= g
         /\ \E s \in memRegions :
               /\ Searched(s, memCall.window)
               /\ SearchStart(s, memCall.window) <= a /\ s.base <= a
               /\ a + Len(memCall.pattern) <= SearchEnd(s, memCall.window)
               /\ a + Len(memCall.pattern) <= EndOf(s)
<1> DEFINE n == Len(memCall.pattern)
<1>1. a \in Nat /\ n \in Nat /\ memGaps \subseteq Nat
  BY MemoryAssumption DEF ShouldFind, Addresses, SearchTypeOK
<1>2. PICK s \in memRegions :
         /\ Searched(s, memCall.window)
         /\ a >= SearchStart(s, memCall.window)
         /\ a + n <= SearchEnd(s, memCall.window)
         /\ (a..(a + n - 1)) \cap memGaps = {}
         /\ MatchPattern(memBytes, a, memCall.pattern)
  BY DEF ShouldFind
<1>3. \A g \in memGaps : g < a \/ a + n <= g
  BY <1>1, <1>2
<1>4. /\ SearchStart(s, memCall.window) \in Nat /\ s.base <= SearchStart(s, memCall.window)
      /\ SearchEnd(s, memCall.window) \in Nat /\ SearchEnd(s, memCall.window) <= EndOf(s)
  BY <1>2, WindowIs DEF SearchTypeOK
<1>5. s.base \in Nat /\ EndOf(s) \in Nat
  BY RegionsAre
<1>6. s.base <= a /\ a + n <= EndOf(s)
  BY <1>1, <1>2, <1>4, <1>5
<1> QED
  BY <1>1, <1>2, <1>3, <1>4, <1>6

-----------------------------------------------------------------------------
(* Memory: the places of a buffer.                                           *)

\* What was found after each of the first n places.
LooksAt(f, n, buffer, a, call) ==
    /\ f = [i \in 0..n |-> f[i]]
    /\ \A i \in 0..n : f[i] = IF i = 0 THEN call.found ELSE LookAt(i, f[i - 1], buffer, a, call)

LEMMA LooksOneByOne ==
  ASSUME NEW f, NEW n \in Nat, NEW buffer, NEW a, NEW call, LooksAt(f, n, buffer, a, call)
  PROVE  f[0] = call.found /\ \A i \in 1..n : f[i] = LookAt(i, f[i - 1], buffer, a, call)
<1>1. \A i \in 0..n : f[i] = IF i = 0 THEN call.found ELSE LookAt(i, f[i - 1], buffer, a, call)
  BY DEF LooksAt
<1>2. 0 \in 0..n /\ \A i \in 1..n : i \in 0..n /\ i # 0
  OBVIOUS
<1> QED
  BY <1>1, <1>2

LEMMA LooksExist ==
  ASSUME NEW buffer, NEW a, NEW call, NEW n \in Nat
  PROVE  \E f : LooksAt(f, n, buffer, a, call)
<1> DEFINE S == {m \in Nat : \E f : LooksAt(f, m, buffer, a, call)}
<1>1. 0 \in S
  <2> DEFINE f == [i \in 0..0 |-> call.found]
  <2>1. f = [i \in 0..0 |-> f[i]] /\ \A i \in 0..0 : i = 0 /\ f[i] = call.found
    OBVIOUS
  <2> HIDE DEF f
  <2>2. LooksAt(f, 0, buffer, a, call)
    BY <2>1 DEF LooksAt
  <2> QED
    BY <2>2
<1>2. ASSUME NEW m \in S PROVE m + 1 \in S
  <2>1. m \in Nat
    OBVIOUS
  <2>2. PICK f : LooksAt(f, m, buffer, a, call)
    OBVIOUS
  <2> DEFINE g == [i \in 0..m + 1 |-> IF i = m + 1 THEN LookAt(i, f[m], buffer, a, call)
                                      ELSE f[i]]
  <2>3. g = [i \in 0..m + 1 |-> g[i]]
    OBVIOUS
  <2>4. ASSUME NEW i \in 0..m + 1
        PROVE  g[i] = IF i = 0 THEN call.found ELSE LookAt(i, g[i - 1], buffer, a, call)
    <3>1. CASE i = m + 1
      BY <2>1, <3>1
    <3>2. CASE i = 0
      BY <2>1, <2>2, <3>2, LooksOneByOne
    <3>3. CASE i \in 1..m
      <4>1. g[i] = f[i] /\ g[i - 1] = f[i - 1]
        BY <2>1, <3>3
      <4>2. f[i] = LookAt(i, f[i - 1], buffer, a, call)
        BY <2>1, <2>2, <3>3, LooksOneByOne
      <4> QED
        BY <3>3, <4>1, <4>2
    <3> QED
      BY <2>1, <3>1, <3>2, <3>3
  <2> HIDE DEF g
  <2>5. LooksAt(g, m + 1, buffer, a, call)
    BY <2>3, <2>4 DEF LooksAt
  <2> QED
    BY <2>1, <2>5
<1> HIDE DEF S
<1>3. S \in SUBSET Nat
  BY DEF S
<1>4. S = Nat
  BY <1>1, <1>2, <1>3, AllNumbers
<1> QED
  BY <1>4 DEF S

LEMMA FoundIs ==
  ASSUME NEW buffer, NEW a, NEW call, Len(buffer) \in Nat
  PROVE  \E f : LooksAt(f, Len(buffer), buffer, a, call) /\ FoundIn(buffer, a, call) = f[Len(buffer)]
<1> DEFINE Looks(f) == f = [i \in 0..Len(buffer) |->
                             IF i = 0 THEN call.found ELSE LookAt(i, f[i - 1], buffer, a, call)]
           found == CHOOSE f : Looks(f)
<1>1. PICK f : LooksAt(f, Len(buffer), buffer, a, call)
  BY LooksExist
<1>2. Looks(f)
  BY <1>1 DEF LooksAt
<1>3. Looks(found)
  BY <1>2
<1>4. FoundIn(buffer, a, call) = found[Len(buffer)]
  BY DEF FoundIn
<1> HIDE DEF found
<1>5. LooksAt(found, Len(buffer), buffer, a, call)
  BY <1>3 DEF LooksAt
<1> QED
  BY <1>4, <1>5

\* Whether a pattern that fits in behind i bytes of a buffer matches there is
\* whether a is among all matches.
Shows(buffer, i, pattern, a, all) ==
    i + Len(pattern) <= Len(buffer) =>
        /\ MatchPattern(buffer, i + 1, pattern) => a \in all
        /\ a \in all => MatchPattern(buffer, i + 1, pattern)

LEMMA PlacesBehind ==
  ASSUME NEW b \in Nat, NEW i \in Nat, NEW m \in Nat, NEW n \in Nat
  PROVE  i + m <= n <=> (b + i) + m <= b + n
  OBVIOUS

\* One more place of a buffer that begins at b.
LEMMA OnePlace ==
  ASSUME NEW all \in SUBSET Nat, NEW buffer, NEW call, NEW b \in Nat, NEW i \in Nat, NEW found,
         Len(buffer) \in Nat, Len(call.pattern) \in Nat, call.limit \in Nat,
         Scanned(found, b + i, b + Len(buffer), all, Len(call.pattern), call.limit),
         Shows(buffer, i, call.pattern, b + i, all)
  PROVE  Scanned(LookAt(i + 1, found, buffer, b, call), b + (i + 1), b + Len(buffer), all,
                 Len(call.pattern), call.limit)
<1> DEFINE n == Len(buffer)
           m == Len(call.pattern)
           x == b + i
           limit == call.limit
<1>1. /\ found \in Seq(Nat) /\ Len(found) <= limit /\ Len(found) \in Nat
      /\ \A j, k \in DOMAIN found : j < k => found[j] < found[k]
      /\ \A j \in DOMAIN found : found[j] \in all /\ found[j] < x /\ found[j] + m <= b + n
      /\ \A a \in all : a < x /\ a + m <= b + n => Known(a, found, limit)
  BY DEF Scanned
<1>2. n \in Nat /\ m \in Nat /\ x \in Nat /\ limit \in Nat /\ b + (i + 1) = x + 1
  OBVIOUS
<1>3. CASE i + m <= n /\ Len(found) < limit /\ MatchPattern(buffer, i + 1, call.pattern)
  <2> DEFINE more == Append(found, x)
  <2>1. LookAt(i + 1, found, buffer, b, call) = more
    <3>1. (i + 1) - 1 + m <= n /\ b + (i + 1) - 1 = x
      BY <1>2, <1>3
    <3> QED
      BY <1>3, <3>1 DEF LookAt
  <2>2. x \in all /\ x + m <= b + n
    <3>1. x \in all
      BY <1>3 DEF Shows
    <3>2. x + m <= b + n
      BY <1>2, <1>3, PlacesBehind
    <3> QED
      BY <3>1, <3>2
  <2>3. /\ more \in Seq(Nat) /\ Len(more) = Len(found) + 1
        /\ DOMAIN more = 1..Len(found) + 1 /\ DOMAIN found = 1..Len(found)
        /\ more[Len(found) + 1] = x /\ \A j \in DOMAIN found : more[j] = found[j]
    BY <1>1, <1>2
  <2> HIDE DEF more, x, m, n, limit
  <2>4. \A j \in DOMAIN more : \/ j \in DOMAIN found /\ more[j] = found[j]
                               \/ j = Len(found) + 1 /\ more[j] = x
    <3> SUFFICES ASSUME NEW j \in DOMAIN more
                 PROVE  \/ j \in DOMAIN found /\ more[j] = found[j]
                        \/ j = Len(found) + 1 /\ more[j] = x
      OBVIOUS
    <3>1. j \in DOMAIN found \/ j = Len(found) + 1
      <4>1. Len(found) \in Nat /\ j \in 1..Len(found) + 1
        BY <1>1, <2>3
      <4> QED
        BY <2>3, <4>1
    <3> QED
      BY <2>3, <3>1
  <2>5. \A j, k \in DOMAIN more : j < k => more[j] < more[k]
    <3> SUFFICES ASSUME NEW j \in DOMAIN more, NEW k \in DOMAIN more, j < k
                 PROVE  more[j] < more[k]
      OBVIOUS
    <3>1. j \in DOMAIN found /\ more[j] = found[j]
      BY <1>1, <2>3, <2>4
    <3> QED
      BY <1>1, <2>4, <3>1
  <2>6. \A j \in DOMAIN more : more[j] \in all /\ more[j] < x + 1 /\ more[j] + m <= b + n
    <3>1. \A j \in DOMAIN found : found[j] \in Nat /\ found[j] < x + 1
      BY <1>1, <1>2
    <3> QED
      BY <1>1, <1>2, <2>2, <2>4, <3>1
  <2>7. ASSUME NEW a \in all, a < x + 1, a + m <= b + n PROVE Known(a, more, limit)
    <3>1. CASE a = x
      <4>1. Len(found) + 1 \in DOMAIN more /\ more[Len(found) + 1] = a
        BY <1>1, <2>3, <3>1
      <4> QED
        BY <4>1 DEF Known
    <3>2. CASE a < x
      <4>1. PICK j \in DOMAIN found : found[j] = a
        BY <1>1, <1>3, <2>7, <3>2 DEF Known, limit
      <4>2. j \in DOMAIN more /\ more[j] = a
        BY <1>1, <2>3, <4>1
      <4> QED
        BY <4>2 DEF Known
    <3> QED
      BY <1>2, <2>7, <3>1, <3>2
  <2>8. Len(more) <= limit
    BY <1>1, <1>2, <1>3, <2>3 DEF limit
  <2> QED
    BY <1>2, <2>1, <2>3, <2>5, <2>6, <2>7, <2>8 DEF Scanned, m, n, limit
<1>4. CASE ~(i + m <= n /\ Len(found) < limit /\ MatchPattern(buffer, i + 1, call.pattern))
  <2>1. LookAt(i + 1, found, buffer, b, call) = found
    <3>1. (i + 1) - 1 + m = i + m
      BY <1>2
    <3> QED
      BY <1>4, <3>1 DEF LookAt
  <2>2. ASSUME NEW a \in all, a < x + 1, a + m <= b + n PROVE Known(a, found, limit)
    <3>1. CASE a < x
      BY <1>1, <2>2, <3>1
    <3>2. CASE a = x
      <4>1. i + m <= n
        <5>1. (b + i) + m <= b + n
          BY <2>2, <3>2
        <5> QED
          BY <1>2, <5>1, PlacesBehind
      <4>2. MatchPattern(buffer, i + 1, call.pattern)
        BY <3>2, <4>1 DEF Shows
      <4>3. Len(found) = limit
        BY <1>1, <1>2, <1>4, <4>1, <4>2
      <4> QED
        BY <1>1, <3>2, <4>3 DEF Known
    <3> QED
      BY <1>2, <2>2, <3>1, <3>2
  <2>3. \A j \in DOMAIN found : found[j] < x + 1
    <3>1. \A j \in DOMAIN found : found[j] \in Nat
      BY <1>1
    <3> QED
      BY <1>1, <1>2, <3>1
  <2> QED
    BY <1>1, <1>2, <2>1, <2>2, <2>3 DEF Scanned
<1> QED
  BY <1>3, <1>4

LEMMA BufferIsSearched ==
  ASSUME NEW all \in SUBSET Nat, NEW buffer, NEW call, NEW b \in Nat,
         Len(buffer) \in Nat, Len(call.pattern) \in Nat, call.limit \in Nat,
         Scanned(call.found, b, b + Len(buffer), all, Len(call.pattern), call.limit),
         \A i \in Nat : Shows(buffer, i, call.pattern, b + i, all)
  PROVE  Scanned(FoundIn(buffer, b, call), b + Len(buffer), b + Len(buffer), all,
                 Len(call.pattern), call.limit)
<1> DEFINE n == Len(buffer)
<1>1. PICK f : LooksAt(f, n, buffer, b, call) /\ FoundIn(buffer, b, call) = f[n]
  BY FoundIs
<1>2. f[0] = call.found /\ \A i \in 1..n : f[i] = LookAt(i, f[i - 1], buffer, b, call)
  <2>1. \A i \in 0..n : f[i] = IF i = 0 THEN call.found ELSE LookAt(i, f[i - 1], buffer, b, call)
    BY <1>1 DEF LooksAt
  <2> HIDE DEF n
  <2>2. n \in Nat
    BY DEF n
  <2>3. 0 \in 0..n /\ \A i \in 1..n : i \in 0..n /\ i # 0
    BY <2>2
  <2> QED
    BY <2>1, <2>3
<1> DEFINE Good(found, i) == Scanned(found, b + i, b + n, all, Len(call.pattern), call.limit)
           S == {i \in Nat : i <= n => Good(f[i], i)}
<1>3. 0 \in S
  <2>1. b + 0 = b
    OBVIOUS
  <2>2. Good(f[0], 0)
    BY <1>2, <2>1
  <2> QED
    BY <2>2
<1>4. ASSUME NEW i \in S PROVE i + 1 \in S
  <2>1. i \in Nat /\ n \in Nat
    OBVIOUS
  <2>2. SUFFICES ASSUME i + 1 <= n PROVE Good(f[i + 1], i + 1)
    BY <2>1
  <2>3. Good(f[i], i)
    BY <2>1, <2>2
  <2>4. f[i + 1] = LookAt(i + 1, f[i], buffer, b, call)
    <3>1. i + 1 \in 1..n /\ (i + 1) - 1 = i
      BY <2>1, <2>2
    <3> QED
      BY <1>2, <3>1
  <2>5. Shows(buffer, i, call.pattern, b + i, all)
    BY <2>1
  <2> QED
    BY <2>1, <2>3, <2>4, <2>5, OnePlace
<1> HIDE DEF S
<1>5. S \in SUBSET Nat
  BY DEF S
<1>6. S = Nat
  BY <1>3, <1>4, <1>5, AllNumbers
<1>7. Good(f[n], n)
  <2>1. n \in S /\ n <= n
    BY <1>6
  <2> QED
    BY <2>1 DEF S
<1> QED
  BY <1>1, <1>7

\* The bytes of a buffer are those of a region, behind all gaps.
LEMMA BytesShow ==
  ASSUME RegionsApart, SearchTypeOK, NEW r \in memRegions, Searched(r, memCall.window),
         NEW b \in Nat, NEW buffer, Len(buffer) \in Nat,
         buffer = [i \in 1..Len(buffer) |-> memBytes[b + i - 1]],
         SearchStart(r, memCall.window) <= b,
         b + Len(buffer) <= SearchEnd(r, memCall.window),
         \A g \in memGaps : g < b,
         NEW i \in Nat
  PROVE  Shows(buffer, i, memCall.pattern, b + i, ShouldFind)
<1> DEFINE p == memCall.pattern
           m == Len(memCall.pattern)
           n == Len(buffer)
           first == SearchStart(r, memCall.window)
           last == SearchEnd(r, memCall.window)
<1>1. /\ m \in Nat /\ m > 0 /\ n \in Nat /\ first \in Nat /\ last \in Nat
      /\ last <= LastAddress + 1 /\ LastAddress \in Nat /\ memGaps \subseteq Nat
  <2>1. m \in Nat /\ m > 0 /\ memGaps \subseteq Nat /\ memCall.window \in Nat \X Nat
    BY DEF SearchTypeOK
  <2>2. first \in Nat /\ last \in Nat /\ last <= EndOf(r)
    BY <2>1, WindowIs
  <2>3. EndOf(r) \in Nat /\ EndOf(r) <= LastAddress + 1 /\ LastAddress \in Nat
    BY RegionsAre, MemoryAssumption
  <2> QED
    BY <2>1, <2>2, <2>3
<1>2. first <= b /\ b + n <= last /\ \A g \in memGaps : g < b
  OBVIOUS
<1>3. \A k \in 1..n : buffer[k] = memBytes[b + k - 1]
  OBVIOUS
<1>4. SUFFICES ASSUME i + m <= n
               PROVE  /\ MatchPattern(buffer, i + 1, p) => b + i \in ShouldFind
                      /\ b + i \in ShouldFind => MatchPattern(buffer, i + 1, p)
  BY DEF Shows
<1> HIDE DEF m, n, first, last, p
<1>5. \A j \in 1..m : buffer[i + 1 + j - 1] = memBytes[b + i + j - 1]
  <2> SUFFICES ASSUME NEW j \in 1..m PROVE buffer[i + 1 + j - 1] = memBytes[b + i + j - 1]
    OBVIOUS
  <2>1. i + j \in 1..n /\ i + 1 + j - 1 = i + j /\ b + (i + j) - 1 = b + i + j - 1
    BY <1>1, <1>4
  <2> QED
    BY <1>3, <2>1
<1>6. /\ MatchPattern(buffer, i + 1, p) => MatchPattern(memBytes, b + i, p)
      /\ MatchPattern(memBytes, b + i, p) => MatchPattern(buffer, i + 1, p)
  BY <1>5 DEF MatchPattern, m, p
<1>7. ASSUME MatchPattern(memBytes, b + i, p) PROVE b + i \in ShouldFind
  <2>1. b + i \in Nat /\ b + i >= first /\ (b + i) + m <= last /\ b + i <= LastAddress
    BY <1>1, <1>2, <1>4
  <2>2. ((b + i)..((b + i) + m - 1)) \cap memGaps = {}
    BY <1>1, <1>2
  <2>3. b + i \in Addresses
    BY <1>1, <2>1 DEF Addresses
  <2> QED
    BY <1>7, <2>1, <2>2, <2>3 DEF ShouldFind, first, last, m, p
<1>8. ASSUME b + i \in ShouldFind PROVE MatchPattern(memBytes, b + i, p)
  BY <1>8, MatchesAreIn DEF p
<1> QED
  BY <1>6, <1>7, <1>8

\* Where a buffer begins, what was found so far is all of what begins before.
LEMMA BufferGoesOn ==
  ASSUME RegionsApart, SearchTypeOK, NEW r \in memRegions, SearchingIn(r),
         NEW n \in Nat, n > 0, memCall.addr + n <= memCall.last
  PROVE  LET b == memCall.addr - Len(memCall.carry)
         IN  Scanned(memCall.found, b, memCall.addr + n, ShouldFind, Len(memCall.pattern),
                     memCall.limit)
<1> DEFINE m == Len(memCall.pattern)
           c == Len(memCall.carry)
           addr == memCall.addr
           b == addr - c
           first == SearchStart(r, memCall.window)
           found == memCall.found
           limit == memCall.limit
<1>1. /\ m \in Nat /\ first \in Nat /\ addr \in Nat /\ first <= addr /\ r.base <= first
      /\ addr <= memCall.last /\ c \in Nat /\ b \in Nat /\ memGaps \subseteq Nat
      /\ memCall.last \in Nat /\ memCall.last <= EndOf(r)
  <2>1. m \in Nat /\ memGaps \subseteq Nat /\ memCall.window \in Nat \X Nat
    BY DEF SearchTypeOK
  <2>2. Searched(r, memCall.window) /\ memCall.last = SearchEnd(r, memCall.window)
    BY DEF SearchingIn
  <2>3. /\ first \in Nat /\ r.base <= first
        /\ memCall.last \in Nat /\ memCall.last <= EndOf(r)
    BY <2>1, <2>2, WindowIs
  <2>4. addr \in first..memCall.last /\ c \in Nat /\ first <= b
    BY DEF SearchingIn, CarriedFrom, CarriesEnough
  <2> QED
    BY <2>1, <2>3, <2>4
<1>2. c < m /\ (c = m - 1 \/ first = b \/ b - 1 \in memGaps)
  BY DEF SearchingIn, CarriesEnough
<1>3. /\ found \in Seq(Nat) /\ Len(found) <= limit
      /\ \A i, j \in DOMAIN found : i < j => found[i] < found[j]
      /\ \A i \in DOMAIN found : found[i] \in ShouldFind /\ found[i] + m <= addr
      /\ \A a \in ShouldFind : a < addr /\ a + m <= addr => Known(a, found, limit)
  BY DEF SearchingIn, ScannedTo, Scanned
<1>4. \A s \in memRegions \ {r} :
         IF ToDo(s, memCall.regions) THEN EndOf(r) <= s.base ELSE EndOf(s) <= r.base
  BY DEF SearchingIn
<1> HIDE DEF m, c, b, addr, first, found, limit
<1>5. b = addr - c
  BY DEF b
<1>6. \A i \in DOMAIN found : found[i] < b /\ found[i] + m <= addr + n
  <2> SUFFICES ASSUME NEW i \in DOMAIN found PROVE found[i] < b /\ found[i] + m <= addr + n
    OBVIOUS
  <2>1. found[i] \in Nat /\ found[i] + m <= addr
    BY <1>3
  <2> QED
    BY <1>1, <1>2, <1>5, <2>1
<1>7. ASSUME NEW a \in ShouldFind, a < b, a + m <= addr + n PROVE Known(a, found, limit)
  <2>1. a \in Nat /\ \A g \in memGaps : g < a \/ a + m <= g
    BY MatchesAreIn DEF m
  <2>2. a + m <= addr
    <3>1. SUFFICES ASSUME ~(a + m <= addr) PROVE FALSE
      OBVIOUS
    <3>2. a + m > addr
      BY <1>1, <2>1, <3>1
    <3>3. CASE c = m - 1
      BY <1>1, <1>5, <1>7, <2>1, <3>2, <3>3
    <3>4. CASE b - 1 \in memGaps
      <4>1. b - 1 < a \/ a + m <= b - 1
        BY <2>1, <3>4
      <4> QED
        BY <1>1, <1>5, <1>7, <2>1, <3>2, <4>1
    <3>5. CASE first = b
      <4>1. PICK s \in memRegions :
               /\ SearchStart(s, memCall.window) <= a /\ s.base <= a
               /\ a + m <= EndOf(s)
        BY MatchesAreIn DEF m
      <4>2. s # r
        BY <1>1, <1>7, <2>1, <3>5, <4>1 DEF first
      <4>3. s.base \in Nat /\ EndOf(s) \in Nat /\ r.base \in Nat /\ EndOf(r) \in Nat
        BY RegionsAre
      <4>4. CASE EndOf(r) <= s.base
        BY <1>1, <1>5, <1>7, <2>1, <4>1, <4>3, <4>4
      <4>5. CASE EndOf(s) <= r.base
        BY <1>1, <2>1, <3>2, <4>1, <4>3, <4>5
      <4> QED
        BY <1>4, <4>2, <4>4, <4>5
    <3> QED
      BY <1>2, <3>3, <3>4, <3>5
  <2>3. a < addr
    BY <1>1, <1>5, <1>7, <2>1
  <2> QED
    BY <1>3, <2>2, <2>3
<1>8. Scanned(found, b, addr + n, ShouldFind, m, limit)
  BY <1>3, <1>6, <1>7 DEF Scanned
<1> QED
  BY <1>8 DEF found, b, addr, m, limit, c

-----------------------------------------------------------------------------
(* Memory: the steps of a search.                                            *)

\* A region is looked at to its end, or the limit is reached.
LEMMA RegionEnds ==
  ASSUME MemoryInv, MemoryAt("search"),
         LeastOf(SearchChunk, memCall.last - memCall.addr) <= 0 \/ Full
  PROVE  BetweenRegions
<1> DEFINE m == Len(memCall.pattern)
           found == memCall.found
           limit == memCall.limit
           addr == memCall.addr
<1>0. RegionsApart /\ SearchTypeOK
  BY DEF MemoryInv, SearchInv, MemoryAt
<1>1. PICK r \in memRegions : SearchingIn(r)
  BY DEF MemoryInv, SearchInv, MemoryAt
<1> DEFINE f == EndOf(r)
<1>2. /\ m \in Nat /\ memCall.window \in Nat \X Nat /\ memGaps \subseteq Nat /\ limit \in Nat
      /\ m > 0
  BY <1>0 DEF SearchTypeOK
<1>3. /\ f \in Nat /\ addr \in Nat /\ addr <= memCall.last /\ memCall.last \in Nat
      /\ memCall.last <= f /\ r.base <= addr /\ r.base < f /\ r.base \in Nat
  <2>1. Searched(r, memCall.window) /\ memCall.last = SearchEnd(r, memCall.window)
    BY <1>1 DEF SearchingIn
  <2>2. /\ SearchStart(r, memCall.window) \in Nat /\ r.base <= SearchStart(r, memCall.window)
        /\ memCall.last \in Nat /\ memCall.last <= f
    BY <1>0, <1>2, <2>1, WindowIs
  <2>3. r.base \in Nat /\ f \in Nat /\ r.base < f
    BY <1>0, RegionsAre
  <2>4. addr \in SearchStart(r, memCall.window)..memCall.last
    BY <1>1 DEF SearchingIn
  <2> QED
    BY <2>2, <2>3, <2>4
<1>4. /\ found \in Seq(Nat) /\ Len(found) <= limit
      /\ \A i, j \in DOMAIN found : i < j => found[i] < found[j]
      /\ \A i \in DOMAIN found :
            found[i] \in ShouldFind /\ found[i] < addr /\ found[i] + m <= addr
      /\ \A a \in ShouldFind : a < addr /\ a + m <= addr => Known(a, found, limit)
      /\ \A g \in memGaps : g < addr
  BY <1>1 DEF SearchingIn, ScannedTo, Scanned
<1>5. \A s \in memRegions \ {r} :
         IF ToDo(s, memCall.regions) THEN f <= s.base ELSE EndOf(s) <= r.base
  BY <1>1 DEF SearchingIn
<1>6. ~ToDo(r, memCall.regions) /\ memCall.last = SearchEnd(r, memCall.window)
  BY <1>1 DEF SearchingIn
<1>7. Len(found) >= limit \/ addr = memCall.last
  <2>1. SearchChunk \in Nat \ {0}
    BY MemoryAssumption
  <2> QED
    BY <1>3, <2>1 DEF LeastOf, Full
<1> HIDE DEF f, m, found, limit, addr
<1>8. \A i \in DOMAIN found : found[i] < f /\ found[i] + m <= f
  <2> SUFFICES ASSUME NEW i \in DOMAIN found PROVE found[i] < f /\ found[i] + m <= f
    OBVIOUS
  <2>1. found[i] \in Nat /\ found[i] < addr /\ found[i] + m <= addr
    BY <1>4
  <2> QED
    BY <1>2, <1>3, <2>1
<1>9. ASSUME NEW a \in ShouldFind, a < f, a + m <= f PROVE Known(a, found, limit)
  <2>1. a \in Nat
    BY <1>0, MatchesAreIn
  <2>2. CASE a + m <= addr
    BY <1>2, <1>3, <1>4, <2>1, <2>2
  <2>3. CASE a + m > addr /\ Len(found) >= limit
    <3>1. Len(found) = limit
      BY <1>2, <1>4, <2>3
    <3>2. \A i \in DOMAIN found : found[i] < a
      <4> SUFFICES ASSUME NEW i \in DOMAIN found PROVE found[i] < a
        OBVIOUS
      <4>1. found[i] \in Nat /\ found[i] + m <= addr
        BY <1>4
      <4> QED
        BY <1>2, <1>3, <2>1, <2>3, <4>1
    <3> QED
      BY <3>1, <3>2 DEF Known
  <2>4. CASE a + m > addr /\ addr = memCall.last
    <3>1. PICK s \in memRegions :
             /\ s.base <= a /\ a + m <= SearchEnd(s, memCall.window) /\ a + m <= EndOf(s)
      BY <1>0, MatchesAreIn DEF m
    <3>2. s.base \in Nat /\ EndOf(s) \in Nat
      BY <1>0, RegionsAre
    <3>3. s # r
      BY <1>2, <1>3, <1>6, <2>1, <2>4, <3>1
    <3>4. f <= s.base \/ EndOf(s) <= r.base
      BY <1>5, <3>3
    <3> QED
      BY <1>2, <1>3, <1>9, <2>1, <2>4, <3>1, <3>2, <3>4
  <2> QED
    BY <1>2, <1>3, <1>7, <2>1, <2>2, <2>3, <2>4
<1>10. ScannedTo(f)
  <2>1. Scanned(found, f, f, ShouldFind, m, limit)
    BY <1>4, <1>8, <1>9 DEF Scanned
  <2>2. \A g \in memGaps : g < f
    BY <1>2, <1>3, <1>4
  <2> QED
    BY <1>3, <2>1, <2>2 DEF ScannedTo, found, m, limit
<1>11. ASSUME NEW s \in memRegions
       PROVE  IF ToDo(s, memCall.regions) THEN f <= s.base ELSE EndOf(s) <= f
  <2>1. CASE s = r
    BY <1>3, <1>6, <2>1 DEF f
  <2>2. CASE s # r
    <3>1. EndOf(s) \in Nat
      BY <1>0, RegionsAre
    <3> QED
      BY <1>3, <1>5, <2>2, <3>1
  <2> QED
    BY <2>1, <2>2
<1> QED
  BY <1>3, <1>10, <1>11 DEF BetweenRegions

\* What a step within a region leaves alone.
SameSearch ==
    /\ UNCHANGED <<memBytes, memRegions>>
    /\ \A k \in {"regions", "window", "pattern", "limit", "last", "size"} :
          memCall'[k] = memCall[k]

LEMMA SearchGoesOn ==
  ASSUME SearchTypeOK, SameSearch, NEW r \in memRegions, SearchingIn(r), memGaps' \subseteq Nat,
         memCall.addr \in Nat, memCall.last \in Nat, SearchStart(r, memCall.window) \in Nat,
         memCall'.addr \in memCall.addr..memCall.last,
         Scanned(memCall'.found, memCall'.addr, memCall'.addr, ShouldFind',
                 Len(memCall.pattern), memCall.limit),
         \A g \in memGaps' : g < memCall'.addr,
         CarriedFrom(memCall'.carry, memCall'.addr - Len(memCall'.carry), memBytes),
         CarriesEnough(memCall'.carry, memCall'.addr, SearchStart(r, memCall.window), memGaps',
                       Len(memCall.pattern))
  PROVE  SearchTypeOK' /\ r \in memRegions' /\ SearchingIn(r)'
<1>1. /\ memBytes' = memBytes /\ memRegions' = memRegions
      /\ memCall'.regions = memCall.regions /\ memCall'.window = memCall.window
      /\ memCall'.pattern = memCall.pattern /\ memCall'.limit = memCall.limit
      /\ memCall'.last = memCall.last /\ memCall'.size = memCall.size
  BY DEF SameSearch
<1>2. SearchTypeOK'
  BY <1>1 DEF SearchTypeOK
<1>3. ScannedTo(memCall.addr)'
  <2>1. memCall'.addr \in Nat
    OBVIOUS
  <2> QED
    BY <1>1, <2>1 DEF ScannedTo
<1>4. /\ ~ToDo(r, memCall'.regions) /\ Searched(r, memCall'.window)
      /\ memCall'.last = SearchEnd(r, memCall'.window)
      /\ \A s \in memRegions' \ {r} :
            IF ToDo(s, memCall'.regions) THEN EndOf(r) <= s.base ELSE EndOf(s) <= r.base
  BY <1>1 DEF SearchingIn
<1>5. memCall'.addr \in SearchStart(r, memCall'.window)..memCall'.last
  <2>1. SearchStart(r, memCall.window) <= memCall.addr
    BY DEF SearchingIn
  <2> QED
    BY <1>1, <2>1
<1>6. /\ CarriedFrom(memCall'.carry, memCall'.addr - Len(memCall'.carry), memBytes')
      /\ CarriesEnough(memCall'.carry, memCall'.addr, SearchStart(r, memCall'.window), memGaps',
                       Len(memCall'.pattern))
  BY <1>1
<1> QED
  BY <1>1, <1>2, <1>3, <1>4, <1>5, <1>6 DEF SearchingIn

\* The numbers of a search within a region.
LEMMA SearchingHas ==
  ASSUME RegionsApart, SearchTypeOK, NEW r \in memRegions, SearchingIn(r)
  PROVE  /\ memCall.addr \in Nat /\ memCall.last \in Nat
         /\ SearchStart(r, memCall.window) \in Nat
         /\ SearchStart(r, memCall.window) <= memCall.addr /\ memCall.addr <= memCall.last
         /\ Searched(r, memCall.window) /\ memCall.last = SearchEnd(r, memCall.window)
         /\ Len(memCall.pattern) \in Nat /\ Len(memCall.pattern) > 0
         /\ Len(memCall.carry) \in Nat /\ memCall.addr - Len(memCall.carry) \in Nat
<1>1. Len(memCall.pattern) \in Nat /\ Len(memCall.pattern) > 0 /\ memCall.window \in Nat \X Nat
  BY DEF SearchTypeOK
<1>2. Searched(r, memCall.window) /\ memCall.last = SearchEnd(r, memCall.window)
  BY DEF SearchingIn
<1>3. SearchStart(r, memCall.window) \in Nat /\ memCall.last \in Nat
  BY <1>1, <1>2, WindowIs
<1>4. memCall.addr \in SearchStart(r, memCall.window)..memCall.last
  BY DEF SearchingIn
<1>5. /\ Len(memCall.carry) \in Nat
      /\ SearchStart(r, memCall.window) <= memCall.addr - Len(memCall.carry)
  BY DEF SearchingIn, CarriedFrom, CarriesEnough
<1> QED
  BY <1>1, <1>2, <1>3, <1>4, <1>5

\* A step of a search leaves its matches alone, but for those that touch a new
\* gap.
LEMMA GapsGrow ==
  ASSUME UNCHANGED <<memBytes, memRegions>>, memCall'.window = memCall.window,
         memCall'.pattern = memCall.pattern, NEW G, memGaps' = memGaps \cup G
  PROVE  \A a : a \in ShouldFind' <=>
                a \in ShouldFind /\ (a..(a + Len(memCall.pattern) - 1)) \cap G = {}
<1> DEFINE m == Len(memCall.pattern)
           Is(a, s, gaps) ==
             /\ Searched(s, memCall.window)
             /\ a >= SearchStart(s, memCall.window)
             /\ a + m <= SearchEnd(s, memCall.window)
             /\ (a..(a + m - 1)) \cap gaps = {}
             /\ MatchPattern(memBytes, a, memCall.pattern)
<1>1. memBytes' = memBytes /\ memRegions' = memRegions
  OBVIOUS
<1>2. ShouldFind = {a \in Addresses : \E s \in memRegions : Is(a, s, memGaps)}
  BY DEF ShouldFind
<1>3. ShouldFind' = {a \in Addresses : \E s \in memRegions : Is(a, s, memGaps')}
  BY <1>1 DEF ShouldFind
<1>4. \A a, s : Is(a, s, memGaps') <=> Is(a, s, memGaps) /\ (a..(a + m - 1)) \cap G = {}
  OBVIOUS
<1> HIDE DEF Is
<1> QED
  BY <1>2, <1>3, <1>4

\* A chunk that cannot be read.
LEMMA ChunkIsGap ==
  ASSUME RegionsApart, SearchTypeOK, SameSearch, NEW r \in memRegions, SearchingIn(r),
         NEW n \in Nat, n > 0, memCall.addr + n <= memCall.last,
         memCall'.addr = memCall.addr + n, memCall'.carry = <<>>,
         memCall'.found = memCall.found,
         memGaps' = memGaps \cup (memCall.addr..(memCall.addr + n - 1))
  PROVE  SearchTypeOK' /\ r \in memRegions' /\ SearchingIn(r)'
<1> DEFINE m == Len(memCall.pattern)
           found == memCall.found
           limit == memCall.limit
           addr == memCall.addr
           first == SearchStart(r, memCall.window)
<1>1. /\ addr \in Nat /\ memCall.last \in Nat /\ first \in Nat /\ m \in Nat /\ m > 0
      /\ first <= addr
  BY SearchingHas
<1>2. memGaps \subseteq Nat /\ limit \in Nat
  BY DEF SearchTypeOK
<1>3. /\ found \in Seq(Nat) /\ Len(found) <= limit
      /\ \A i, j \in DOMAIN found : i < j => found[i] < found[j]
      /\ \A i \in DOMAIN found :
            found[i] \in ShouldFind /\ found[i] < addr /\ found[i] + m <= addr
      /\ \A a \in ShouldFind : a < addr /\ a + m <= addr => Known(a, found, limit)
      /\ \A g \in memGaps : g < addr
  BY DEF SearchingIn, ScannedTo, Scanned
<1>4. \A a : a \in ShouldFind' <=>
             a \in ShouldFind /\ (a..(a + m - 1)) \cap (addr..(addr + n - 1)) = {}
  <2>1. /\ memBytes' = memBytes /\ memRegions' = memRegions
        /\ memCall'.window = memCall.window /\ memCall'.pattern = memCall.pattern
    BY DEF SameSearch
  <2> QED
    BY <2>1, GapsGrow
<1> HIDE DEF m, found, limit, addr, first
<1>5. memGaps' \subseteq Nat /\ \A g \in memGaps' : g < addr + n
  <2> SUFFICES ASSUME NEW g \in memGaps' PROVE g \in Nat /\ g < addr + n
    OBVIOUS
  <2>1. g \in memGaps \/ g \in addr..(addr + n - 1)
    BY DEF addr
  <2>2. CASE g \in memGaps
    <3>1. g < addr
      BY <1>3, <2>2
    <3>2. g \in Nat
      BY <1>2, <2>2
    <3> QED
      BY <1>1, <3>1, <3>2
  <2>3. CASE g \in addr..(addr + n - 1)
    BY <1>1, <2>3
  <2> QED
    BY <2>1, <2>2, <2>3
<1>6. ASSUME NEW i \in DOMAIN found
      PROVE  found[i] \in ShouldFind' /\ found[i] < addr + n /\ found[i] + m <= addr + n
  <2>1. found[i] \in Nat /\ found[i] \in ShouldFind /\ found[i] < addr /\ found[i] + m <= addr
    BY <1>3
  <2>2. (found[i]..(found[i] + m - 1)) \cap (addr..(addr + n - 1)) = {}
    BY <1>1, <2>1
  <2> QED
    BY <1>1, <1>4, <2>1, <2>2
<1>7. ASSUME NEW a \in ShouldFind', a < addr + n, a + m <= addr + n PROVE Known(a, found, limit)
  <2>1. a \in ShouldFind /\ (a..(a + m - 1)) \cap (addr..(addr + n - 1)) = {}
    BY <1>4
  <2>2. a \in Nat
    BY <2>1, MatchesAreIn
  <2>3. a + m - 1 \in a..(a + m - 1)
    BY <1>1, <2>2
  <2>4. a + m - 1 \notin addr..(addr + n - 1)
    BY <2>1, <2>3
  <2>5. a < addr /\ a + m <= addr
    BY <1>1, <1>7, <2>2, <2>4
  <2> QED
    BY <1>3, <2>1, <2>5
<1>8. Scanned(found, addr + n, addr + n, ShouldFind', m, limit)
  BY <1>3, <1>6, <1>7 DEF Scanned
<1>9. Len(memCall'.carry) = 0 /\ memCall'.addr - Len(memCall'.carry) = addr + n
  BY <1>1 DEF addr
<1>10. CarriedFrom(memCall'.carry, memCall'.addr - Len(memCall'.carry), memBytes)
  BY <1>9 DEF CarriedFrom
<1>11. CarriesEnough(memCall'.carry, memCall'.addr, first, memGaps', m)
  <2>1. addr + n - 1 \in memGaps'
    BY <1>1 DEF addr
  <2> QED
    BY <1>1, <1>5, <1>9, <2>1 DEF CarriesEnough, addr
<1>12. memCall'.addr \in memCall.addr..memCall.last
  BY <1>1 DEF addr
<1> QED
  BY <1>1, <1>5, <1>8, <1>10, <1>11, <1>12, SearchGoesOn DEF addr, m, limit, first, found

\* What is carried over of a buffer that begins at b.
LEMMA CarryOverIs ==
  ASSUME NEW buffer, NEW bytes, NEW b \in Nat, NEW pattern, NEW carry,
         CarriedFrom(buffer, b, bytes),
         Len(pattern) \in Nat, Len(pattern) > 0, carry = CarryOver(buffer, pattern)
  PROVE  /\ Len(carry) = LeastOf(Len(pattern) - 1, Len(buffer))
         /\ CarriedFrom(carry, (b + Len(buffer)) - Len(carry), bytes)
<1> DEFINE n == Len(buffer)
           k == LeastOf(Len(pattern) - 1, n)
<1>0. n \in Nat /\ buffer = [i \in 1..n |-> bytes[b + i - 1]]
  BY DEF CarriedFrom
<1>1. n \in Nat /\ k \in Nat /\ k <= n
  BY <1>0 DEF LeastOf
<1>2. \A i \in 1..n : buffer[i] = bytes[b + i - 1]
  BY <1>0
<1>3. carry = SubSeq(buffer, n - k + 1, n)
  BY DEF CarryOver
<1> HIDE DEF n, k
<1> DEFINE S == {buffer[i] : i \in 1..n}
           p == n - k + 1
<1>4. p \in Int /\ p \in 1..n + 1 /\ n - p + 1 = k /\ (p <= n <=> k > 0)
  BY <1>1
<1>5. \A i \in p..n : buffer[i] \in S
  BY <1>1, <1>4
<1> HIDE DEF S, p
<1>6. /\ carry \in Seq(S) /\ Len(carry) = k
      /\ \A i \in 1..k : carry[i] = buffer[p + i - 1]
  <2>1. /\ SubSeq(buffer, p, n) \in Seq(S)
        /\ Len(SubSeq(buffer, p, n)) = IF p <= n THEN n - p + 1 ELSE 0
        /\ \A i \in 1..n - p + 1 : SubSeq(buffer, p, n)[i] = buffer[p + i - 1]
    <3>1. n \in Int /\ p \in Int
      BY <1>1, <1>4
    <3> QED
      BY <1>5, <3>1, SubSeqProperties
  <2>2. carry = SubSeq(buffer, p, n)
    BY <1>3 DEF p
  <2> QED
    BY <1>1, <1>4, <2>1, <2>2
<1>7. carry = [i \in 1..k |-> bytes[((b + n) - k) + i - 1]]
  <2>1. carry = [i \in 1..k |-> carry[i]]
    BY <1>6
  <2>2. ASSUME NEW i \in 1..k PROVE carry[i] = bytes[((b + n) - k) + i - 1]
    <3>1. p + i - 1 \in 1..n /\ b + (p + i - 1) - 1 = ((b + n) - k) + i - 1
      BY <1>1 DEF p
    <3> QED
      BY <1>2, <1>6, <3>1
  <2> QED
    BY <2>1, <2>2
<1> QED
  BY <1>1, <1>6, <1>7 DEF CarriedFrom, n, k

\* A buffer is what was carried over and the next n bytes.
\* A name for the equation, so that no prover takes it apart.
Joined(s, t, u) == s = t \o u

LEMMA BufferIs ==
  ASSUME NEW carry, NEW addr \in Nat, NEW n \in Nat, NEW b \in Nat, b = addr - Len(carry),
         CarriedFrom(carry, b, memBytes), NEW buffer, Joined(buffer, carry, BytesAt(addr, n))
  PROVE  Len(buffer) = Len(carry) + n /\ CarriedFrom(buffer, b, memBytes)
<1> DEFINE c == Len(carry)
           next == BytesAt(addr, n)
           whole == carry \o next
<1>1. c \in Nat /\ carry = [i \in 1..c |-> memBytes[b + i - 1]]
  BY DEF CarriedFrom
<1>2. next = [i \in 1..n |-> memBytes[addr + i - 1]] /\ Len(next) = n
  BY DEF BytesAt
<1> DEFINE S == {memBytes[a] : a \in Nat}
<1> HIDE DEF next, c
<1>8. carry \in Seq(S) /\ next \in Seq(S)
  <2>1. \A i \in 1..c : b + i - 1 \in Nat
    BY <1>1 DEF c
  <2>2. carry \in [1..c -> S]
    BY <1>1, <2>1
  <2>3. \A i \in 1..n : addr + i - 1 \in Nat
    OBVIOUS
  <2>4. next \in [1..n -> S]
    BY <1>2, <2>3
  <2>5. \A k \in Nat : [1..k -> S] \subseteq Seq(S)
    BY SeqDef, Zenon
  <2>6. c \in Nat /\ n \in Nat
    BY <1>1
  <2> QED
    BY <2>2, <2>4, <2>5, <2>6, Zenon
<1> HIDE DEF S
<1>3. whole = [i \in 1..(c + n) |-> IF i <= c THEN carry[i] ELSE next[i - c]]
  <2>1. /\ whole \in Seq(S) /\ Len(whole) = c + n
        /\ \A i \in 1..c + n : whole[i] = IF i <= c THEN carry[i] ELSE next[i - c]
    BY <1>2, <1>8, ConcatProperties DEF c
  <2> HIDE DEF whole
  <2>2. whole = [i \in 1..(c + n) |-> whole[i]]
    BY <2>1
  <2> QED
    BY <2>1, <2>2
<1> HIDE DEF whole
<1>4. Len(whole) = c + n
  BY <1>1, <1>3
<1>5. ASSUME NEW i \in 1..(c + n) PROVE whole[i] = memBytes[b + i - 1]
  <2>1. CASE i <= c
    <3>1. i \in 1..c
      BY <1>1, <2>1
    <3> QED
      BY <1>1, <1>3, <2>1, <3>1
  <2>2. CASE ~(i <= c)
    <3>1. i - c \in 1..n /\ addr + (i - c) - 1 = b + i - 1
      BY <1>1, <2>2
    <3> QED
      BY <1>2, <1>3, <2>2, <3>1
  <2> QED
    BY <2>1, <2>2
<1> QED
  <2>1. whole = [i \in 1..(c + n) |-> memBytes[b + i - 1]]
    BY <1>3, <1>5
  <2>2. CarriedFrom(whole, b, memBytes)
    <3>1. Len(whole) \in Nat
      BY <1>1, <1>4
    <3>2. whole = [i \in 1..Len(whole) |-> memBytes[b + i - 1]]
      BY <1>4, <2>1
    <3> QED
      BY <3>1, <3>2 DEF CarriedFrom
  <2>3. buffer = whole
    BY DEF Joined, whole, next
  <2> QED
    BY <1>4, <2>2, <2>3 DEF c

LEMMA BufferEnds ==
  ASSUME NEW addr \in Nat, NEW n \in Nat, NEW c \in Nat, NEW b, NEW size,
         b = addr - c, size = c + n
  PROVE  size \in Nat /\ b + size = addr + n
OBVIOUS

LEMMA LeastIs ==
  ASSUME NEW x \in Int, NEW y \in Int
  PROVE  \/ LeastOf(x, y) = x /\ x <= y
         \/ LeastOf(x, y) = y /\ y <= x
BY DEF LeastOf

\* k of the c bytes before a chunk and of the n bytes of the chunk.
LEMMA CarryNumbers ==
  ASSUME NEW addr \in Nat, NEW n \in Nat, NEW b \in Nat, NEW c \in Nat, NEW k \in Nat,
         b = addr - c, k <= c + n
  PROVE  /\ b <= (addr + n) - k
         /\ k = c + n => (addr + n) - k = b
OBVIOUS

LEMMA EnoughIsCarried ==
  ASSUME NEW carry, NEW end \in Nat, NEW first \in Nat, NEW gaps \in SUBSET Nat,
         NEW m \in Nat, NEW b \in Nat, NEW k \in Nat, Len(carry) = k,
         k < m, b <= end - k, first <= b, \A g \in gaps : g < b,
         \/ k = m - 1
         \/ end - k = b /\ (first = b \/ b - 1 \in gaps)
  PROVE  CarriesEnough(carry, end, first, gaps, m)
<1>1. first <= end - k
  OBVIOUS
<1>2. ASSUME NEW g \in gaps PROVE g < end - k
  <2>1. g \in Nat /\ g < b
    OBVIOUS
  <2> QED
    BY <2>1
<1>3. k = m - 1 \/ first = end - k \/ end - k - 1 \in gaps
  <2>1. CASE end - k = b /\ (first = b \/ b - 1 \in gaps)
    BY <2>1
  <2> QED
    BY <2>1
<1> QED
  BY <1>1, <1>2, <1>3 DEF CarriesEnough

\* A chunk that is read.
LEMMA ChunkIsRead ==
  ASSUME RegionsApart, SearchTypeOK, SameSearch, NEW r \in memRegions, SearchingIn(r),
         NEW n \in Nat, n > 0, memCall.addr + n <= memCall.last,
         NEW buffer, Len(buffer) = Len(memCall.carry) + n,
         CarriedFrom(buffer, memCall.addr - Len(memCall.carry), memBytes),
         memCall'.addr = memCall.addr + n,
         Len(memCall'.carry) = LeastOf(Len(memCall.pattern) - 1, Len(buffer)),
         CarriedFrom(memCall'.carry, (memCall.addr + n) - Len(memCall'.carry), memBytes),
         memCall'.found = FoundIn(buffer, memCall.addr - Len(memCall.carry), memCall),
         memGaps' = memGaps
  PROVE  SearchTypeOK' /\ r \in memRegions' /\ SearchingIn(r)'
<1> DEFINE m == Len(memCall.pattern)
           limit == memCall.limit
           addr == memCall.addr
           c == Len(memCall.carry)
           b == addr - c
           first == SearchStart(r, memCall.window)
           carry == memCall'.carry
<1>1. /\ addr \in Nat /\ memCall.last \in Nat /\ first \in Nat /\ m \in Nat /\ m > 0
      /\ first <= addr /\ c \in Nat /\ b \in Nat
      /\ Searched(r, memCall.window) /\ memCall.last = SearchEnd(r, memCall.window)
  BY SearchingHas
<1>2. memGaps \subseteq Nat /\ limit \in Nat
  BY DEF SearchTypeOK
<1>4. /\ c < m /\ first <= b /\ \A g \in memGaps : g < b
      /\ c = m - 1 \/ first = b \/ b - 1 \in memGaps
  BY DEF SearchingIn, CarriesEnough
<1>5. /\ Len(buffer) = c + n
      /\ buffer = [i \in 1..Len(buffer) |-> memBytes[b + i - 1]]
  BY DEF CarriedFrom
<1>6. Len(buffer) \in Nat /\ b + Len(buffer) = addr + n
  BY <1>1, <1>5
<1>7. ShouldFind \in SUBSET Nat
  BY MatchesAreIn
<1>8. \A i \in Nat : Shows(buffer, i, memCall.pattern, b + i, ShouldFind)
  <2>1. b + Len(buffer) <= SearchEnd(r, memCall.window)
    BY <1>1, <1>6
  <2> QED
    BY <1>1, <1>4, <1>5, <1>6, <2>1, BytesShow
<1>9. Scanned(memCall.found, b, addr + n, ShouldFind, m, limit)
  BY BufferGoesOn
<1> HIDE DEF m, limit, addr, c, b, first, carry
<1>10. Scanned(memCall'.found, addr + n, addr + n, ShouldFind, m, limit)
  <2>1. Scanned(FoundIn(buffer, b, memCall), b + Len(buffer), b + Len(buffer), ShouldFind, m, limit)
    BY <1>1, <1>2, <1>6, <1>7, <1>8, <1>9, BufferIsSearched DEF m, limit
  <2> QED
    BY <1>6, <2>1 DEF b, c, addr
<1>11. ShouldFind' = ShouldFind
  <2>1. /\ memBytes' = memBytes /\ memRegions' = memRegions
        /\ memCall'.window = memCall.window /\ memCall'.pattern = memCall.pattern
    BY DEF SameSearch
  <2> QED
    BY <2>1 DEF ShouldFind
<1>12. /\ Len(carry) = LeastOf(m - 1, c + n)
       /\ CarriedFrom(carry, (addr + n) - Len(carry), memBytes)
  BY <1>5 DEF m, carry, addr
<1>13. CarriesEnough(carry, addr + n, first, memGaps, m)
  <2> DEFINE k == Len(carry)
  <2>1. memGaps \in SUBSET Nat /\ b = addr - c /\ k = LeastOf(m - 1, c + n)
    BY <1>2, <1>12 DEF b
  <2> HIDE DEF k
  <2>2. \/ k = m - 1 /\ m - 1 <= c + n
        \/ k = c + n /\ c + n <= m - 1
    <3>1. m - 1 \in Int /\ c + n \in Int
      BY <1>1
    <3> QED
      BY <2>1, <3>1, LeastIs
  <2>3. k \in Nat /\ k < m /\ k <= c + n /\ addr + n \in Nat
    BY <1>1, <2>2
  <2>4. b <= (addr + n) - k /\ (k = c + n => (addr + n) - k = b)
    BY <1>1, <2>1, <2>3, CarryNumbers
  <2>5. k = m - 1 \/ ((addr + n) - k = b /\ (first = b \/ b - 1 \in memGaps))
    <3>1. CASE c = m - 1
      BY <1>1, <2>2, <3>1
    <3> QED
      BY <1>4, <2>2, <2>4, <3>1
  <2>6. Len(carry) = k
    BY DEF k
  <2> QED
    BY <1>1, <1>4, <2>1, <2>3, <2>4, <2>5, <2>6, EnoughIsCarried
<1>14. memCall'.addr \in memCall.addr..memCall.last /\ memCall'.addr = addr + n
  BY <1>1 DEF addr
<1>15. memGaps' \subseteq Nat /\ \A g \in memGaps' : g < addr + n
  <2> SUFFICES ASSUME NEW g \in memGaps' PROVE g \in Nat /\ g < addr + n
    OBVIOUS
  <2>1. g \in Nat /\ g < b /\ b = addr - c
    BY <1>2, <1>4 DEF b
  <2> QED
    BY <1>1, <2>1
<1>16. /\ Scanned(memCall'.found, memCall'.addr, memCall'.addr, ShouldFind', m, limit)
       /\ CarriedFrom(carry, memCall'.addr - Len(carry), memBytes)
       /\ CarriesEnough(carry, memCall'.addr, first, memGaps', m)
  <2>1. memCall'.addr = addr + n /\ memGaps' = memGaps
    BY <1>14
  <2>2. Scanned(memCall'.found, memCall'.addr, memCall'.addr, ShouldFind', m, limit)
    BY <1>10, <1>11, <2>1
  <2>3. CarriedFrom(carry, memCall'.addr - Len(carry), memBytes)
    BY <1>12, <2>1
  <2>4. CarriesEnough(carry, memCall'.addr, first, memGaps', m)
    BY <1>13, <2>1
  <2> QED
    BY <2>2, <2>3, <2>4
<1>17. \A g \in memGaps' : g < memCall'.addr
  BY <1>14, <1>15
<1> QED
  BY <1>1, <1>14, <1>15, <1>16, <1>17, SearchGoesOn DEF addr, m, limit, first, carry

\* The map and its copy see the same part of a region.
LEMMA SameWindow ==
  ASSUME NEW r, NEW q, SameRegion(r, q), NEW w
  PROVE  /\ SearchStart(r, w) = SearchStart(q, w) /\ SearchEnd(r, w) = SearchEnd(q, w)
         /\ Searched(r, w) => Searched(q, w)
         /\ Searched(q, w) => Searched(r, w)
<1>1. q.base = r.base /\ q.size = r.size /\ q.state = r.state
  BY DEF SameRegion
<1> QED
  BY <1>1 DEF SearchStart, SearchEnd, Searched

\* The next region of a search is the first of those that are to be done.
LEMMA NextRegion ==
  ASSUME RegionsApart, SearchTypeOK, memCall.regions # {}, NEW f \in Nat,
         \A s \in memRegions : IF ToDo(s, memCall.regions) THEN f <= s.base ELSE EndOf(s) <= f
  PROVE  LET r == Foremost(memCall.regions)
             later == memCall.regions \ {r}
         IN  /\ r \in memCall.regions
             /\ \E q \in memRegions :
                   /\ SameRegion(r, q) /\ f <= q.base /\ ~ToDo(q, later)
                   /\ \A s \in memRegions \ {q} :
                         IF ToDo(s, later) THEN EndOf(q) <= s.base ELSE EndOf(s) <= f
<1> DEFINE regions == memCall.regions
           r == Foremost(regions)
           later == regions \ {r}
<1>1. /\ \A p \in regions : \E s \in memRegions : SameRegion(p, s)
      /\ \A p, q \in regions : p.base = q.base => p = q
  BY DEF SearchTypeOK
<1>2. \A p \in regions : p.base \in Nat
  BY <1>1, RegionsAre DEF SameRegion
<1>3. r \in regions /\ \A p \in regions : r.base <= p.base
  BY <1>2, ForemostIs
<1> HIDE DEF r
<1>4. PICK q \in memRegions : SameRegion(r, q)
  BY <1>1, <1>3
<1>5. r.base = q.base
  BY <1>4 DEF SameRegion
<1>6. /\ q.base \in Nat /\ q.base < EndOf(q) /\ EndOf(q) \in Nat
      /\ \A s \in memRegions : s.base = q.base => s = q
  BY RegionsAre
<1>7. f <= q.base
  <2>1. ToDo(q, regions)
    BY <1>3, <1>4 DEF ToDo
  <2> QED
    BY <2>1
<1>8. ~ToDo(q, later)
  <2> SUFFICES ASSUME NEW p \in later, SameRegion(p, q) PROVE FALSE
    BY DEF ToDo
  <2>1. p.base = q.base /\ p \in regions /\ p # r
    BY DEF SameRegion
  <2> QED
    BY <1>1, <1>3, <1>5, <2>1
<1>9. ASSUME NEW s \in memRegions \ {q}
      PROVE  IF ToDo(s, later) THEN EndOf(q) <= s.base ELSE EndOf(s) <= f
  <2>1. s.base \in Nat /\ s.base < EndOf(s) /\ EndOf(s) \in Nat
    BY RegionsAre
  <2>2. CASE ToDo(s, later)
    <3>1. PICK p \in later : SameRegion(p, s)
      BY <2>2 DEF ToDo
    <3>2. p.base = s.base /\ p \in regions
      BY <3>1 DEF SameRegion
    <3>3. q.base <= s.base
      BY <1>3, <1>5, <3>2
    <3>4. EndOf(q) <= s.base \/ EndOf(s) <= q.base
      BY DEF RegionsApart
    <3>5. EndOf(q) <= s.base
      BY <1>6, <2>1, <3>3, <3>4
    <3> QED
      BY <2>2, <3>5
  <2>3. CASE ~ToDo(s, later)
    <3>1. ~ToDo(s, regions)
      <4> SUFFICES ASSUME NEW p \in regions, SameRegion(p, s) PROVE FALSE
        BY DEF ToDo
      <4>1. p = r
        BY <2>3 DEF ToDo
      <4>2. s.base = q.base
        BY <1>5, <4>1 DEF SameRegion
      <4> QED
        BY <1>6, <4>2
    <3>2. EndOf(s) <= f
      BY <3>1
    <3> QED
      BY <2>3, <3>2
  <2> QED
    BY <2>2, <2>3
<1> QED
  BY <1>3, <1>4, <1>7, <1>8, <1>9 DEF r

\* What a step from one region to the next leaves alone.
SameScan ==
    /\ UNCHANGED <<memBytes, memRegions>>
    /\ \A k \in {"window", "pattern", "limit", "size", "found"} : memCall'[k] = memCall[k]

\* The region q, which was next, is searched or passed over to its end: nothing
\* of it is to be found.
LEMMA RegionIsDone ==
  ASSUME RegionsApart, SearchTypeOK, SameScan, NEW f, ScannedTo(f), NEW q \in memRegions,
         f <= q.base, ~ToDo(q, memCall'.regions),
         \A s \in memRegions \ {q} :
            IF ToDo(s, memCall'.regions) THEN EndOf(q) <= s.base ELSE EndOf(s) <= f,
         NEW G \in SUBSET (q.base..(EndOf(q) - 1)), memGaps' = memGaps \cup G,
         Searched(q, memCall.window) =>
            G = SearchStart(q, memCall.window)..(SearchEnd(q, memCall.window) - 1)
  PROVE  BetweenRegions'
<1> DEFINE m == Len(memCall.pattern)
           found == memCall.found
           limit == memCall.limit
           e == EndOf(q)
<1>1. /\ memBytes' = memBytes /\ memRegions' = memRegions
      /\ memCall'.window = memCall.window /\ memCall'.pattern = memCall.pattern
      /\ memCall'.limit = memCall.limit /\ memCall'.found = memCall.found
  BY DEF SameScan
<1>2. /\ f \in Nat /\ found \in Seq(Nat) /\ Len(found) <= limit
      /\ \A i, j \in DOMAIN found : i < j => found[i] < found[j]
      /\ \A i \in DOMAIN found : found[i] \in ShouldFind /\ found[i] < f /\ found[i] + m <= f
      /\ \A a \in ShouldFind : a < f /\ a + m <= f => Known(a, found, limit)
      /\ \A g \in memGaps : g < f
  BY DEF ScannedTo, Scanned
<1>3. m \in Nat /\ m > 0 /\ memGaps \subseteq Nat
  BY DEF SearchTypeOK
<1>4. q.base \in Nat /\ e \in Nat /\ q.base < e /\ f < e
  BY <1>2, RegionsAre
<1>5. \A a : a \in ShouldFind' <=> a \in ShouldFind /\ (a..(a + m - 1)) \cap G = {}
  BY <1>1, GapsGrow
<1> HIDE DEF m, found, limit, e
<1>6. \A g \in G : g \in Nat /\ q.base <= g /\ g < e
  BY <1>4 DEF e
<1>7. ASSUME NEW i \in DOMAIN found
      PROVE  found[i] \in ShouldFind' /\ found[i] < e /\ found[i] + m <= e
  <2>1. found[i] \in Nat /\ found[i] \in ShouldFind /\ found[i] < f /\ found[i] + m <= f
    BY <1>2
  <2>2. (found[i]..(found[i] + m - 1)) \cap G = {}
    <3> SUFFICES ASSUME NEW g \in G, g \in found[i]..(found[i] + m - 1) PROVE FALSE
      OBVIOUS
    <3>1. g \in Nat /\ q.base <= g
      BY <1>6
    <3> QED
      BY <1>2, <1>3, <1>4, <2>1, <3>1
  <2> QED
    BY <1>2, <1>3, <1>4, <1>5, <2>1, <2>2
<1>8. ASSUME NEW a \in ShouldFind', a < e, a + m <= e PROVE Known(a, found, limit)
  <2>1. a \in ShouldFind /\ (a..(a + m - 1)) \cap G = {}
    BY <1>5
  <2>2. a \in Nat
    BY <2>1, MatchesAreIn
  <2>3. PICK s \in memRegions :
           /\ Searched(s, memCall.window) /\ SearchStart(s, memCall.window) <= a
           /\ s.base <= a /\ a + m <= SearchEnd(s, memCall.window) /\ a + m <= EndOf(s)
    BY <2>1, MatchesAreIn DEF m
  <2>4. s # q
    <3> SUFFICES ASSUME s = q PROVE FALSE
      OBVIOUS
    <3>1. G = SearchStart(q, memCall.window)..(SearchEnd(q, memCall.window) - 1)
      BY <2>3
    <3>2. /\ SearchStart(q, memCall.window) \in Nat
          /\ SearchEnd(q, memCall.window) \in Nat
      BY <2>3, WindowIs DEF SearchTypeOK
    <3>3. a \in SearchStart(q, memCall.window)..(SearchEnd(q, memCall.window) - 1)
      BY <1>3, <2>2, <2>3, <3>2
    <3>4. a \in a..(a + m - 1)
      BY <1>3, <2>2
    <3> QED
      BY <2>1, <3>1, <3>3, <3>4
  <2>5. s.base \in Nat /\ EndOf(s) \in Nat
    BY RegionsAre
  <2>6. ~(e <= s.base)
    BY <1>4, <1>8, <2>2, <2>3, <2>5
  <2>7. EndOf(s) <= f
    BY <2>4, <2>6 DEF e
  <2>8. a < f /\ a + m <= f
    BY <1>2, <1>3, <2>2, <2>3, <2>5, <2>7
  <2> QED
    BY <1>2, <2>1, <2>8
<1>9. ASSUME NEW g \in memGaps' PROVE g < e
  <2>1. CASE g \in memGaps
    BY <1>2, <1>3, <1>4, <2>1
  <2>2. CASE g \in G
    BY <1>6, <2>2
  <2> QED
    BY <2>1, <2>2
<1>10. ScannedTo(e)'
  <2>1. Scanned(found, e, e, ShouldFind', m, limit)
    BY <1>2, <1>7, <1>8 DEF Scanned
  <2> QED
    BY <1>1, <1>4, <1>9, <2>1 DEF ScannedTo, found, m, limit
<1>11. ASSUME NEW s \in memRegions
       PROVE  IF ToDo(s, memCall'.regions) THEN e <= s.base ELSE EndOf(s) <= e
  <2>1. CASE s = q
    BY <1>4, <2>1 DEF e
  <2>2. CASE s # q
    <3>1. EndOf(s) \in Nat
      BY RegionsAre
    <3> QED
      BY <1>2, <1>4, <2>2, <3>1 DEF e
  <2> QED
    BY <2>1, <2>2
<1> QED
  BY <1>1, <1>4, <1>10, <1>11 DEF BetweenRegions

\* The region q, which was next, is begun.
LEMMA RegionStarts ==
  ASSUME RegionsApart, SearchTypeOK, SameScan, NEW f, ScannedTo(f), NEW q \in memRegions,
         f <= q.base, ~ToDo(q, memCall'.regions),
         \A s \in memRegions \ {q} :
            IF ToDo(s, memCall'.regions) THEN EndOf(q) <= s.base ELSE EndOf(s) <= f,
         memGaps' = memGaps, Searched(q, memCall.window),
         memCall'.addr = SearchStart(q, memCall.window),
         memCall'.last = SearchEnd(q, memCall.window),
         SearchStart(q, memCall.window) < SearchEnd(q, memCall.window),
         memCall'.carry = <<>>
  PROVE  SearchingIn(q)'
<1> DEFINE m == Len(memCall.pattern)
           found == memCall.found
           limit == memCall.limit
           e == EndOf(q)
           first == SearchStart(q, memCall.window)
<1>1. /\ memBytes' = memBytes /\ memRegions' = memRegions
      /\ memCall'.window = memCall.window /\ memCall'.pattern = memCall.pattern
      /\ memCall'.limit = memCall.limit /\ memCall'.found = memCall.found
  BY DEF SameScan
<1>2. /\ f \in Nat /\ found \in Seq(Nat) /\ Len(found) <= limit
      /\ \A i, j \in DOMAIN found : i < j => found[i] < found[j]
      /\ \A i \in DOMAIN found : found[i] \in ShouldFind /\ found[i] < f /\ found[i] + m <= f
      /\ \A a \in ShouldFind : a < f /\ a + m <= f => Known(a, found, limit)
      /\ \A g \in memGaps : g < f
  BY DEF ScannedTo, Scanned
<1>3. m \in Nat /\ m > 0 /\ memGaps \subseteq Nat /\ memCall.window \in Nat \X Nat
  BY DEF SearchTypeOK
<1>4. /\ q.base \in Nat /\ e \in Nat /\ first \in Nat /\ memCall'.last \in Nat
      /\ f <= first /\ q.base <= first /\ first < e /\ first < memCall'.last
  <2>1. q.base \in Nat /\ e \in Nat
    BY RegionsAre
  <2>2. /\ first \in Nat /\ q.base <= first /\ first < e
        /\ SearchEnd(q, memCall.window) \in Nat
    BY <1>3, WindowIs
  <2> QED
    BY <1>2, <2>1, <2>2
<1>5. ShouldFind' = ShouldFind
  BY <1>1 DEF ShouldFind
<1> HIDE DEF m, found, limit, e, first
<1>6. ASSUME NEW i \in DOMAIN found PROVE found[i] < first /\ found[i] + m <= first
  <2>1. found[i] \in Nat /\ found[i] < f /\ found[i] + m <= f
    BY <1>2
  <2> QED
    BY <1>2, <1>3, <1>4, <2>1
<1>7. ASSUME NEW a \in ShouldFind, a < first, a + m <= first PROVE Known(a, found, limit)
  <2>1. a \in Nat
    BY MatchesAreIn
  <2>2. PICK s \in memRegions :
           /\ SearchStart(s, memCall.window) <= a /\ s.base <= a /\ a + m <= EndOf(s)
    BY MatchesAreIn DEF m
  <2>3. s # q
    BY <1>4, <1>7, <2>1, <2>2 DEF first
  <2>4. s.base \in Nat /\ EndOf(s) \in Nat
    BY RegionsAre
  <2>5. ~(e <= s.base)
    BY <1>4, <1>7, <2>1, <2>2, <2>4
  <2>6. EndOf(s) <= f
    BY <2>3, <2>5 DEF e
  <2>7. a < f /\ a + m <= f
    BY <1>2, <1>3, <2>1, <2>2, <2>4, <2>6
  <2> QED
    BY <1>2, <2>7
<1>8. ASSUME NEW g \in memGaps PROVE g < first
  BY <1>2, <1>3, <1>4
<1>9. ScannedTo(memCall.addr)'
  <2>1. Scanned(found, first, first, ShouldFind, m, limit)
    BY <1>2, <1>6, <1>7 DEF Scanned
  <2>2. first \in Nat /\ \A g \in memGaps' : g < first
    BY <1>4, <1>8
  <2>3. memCall'.found = found /\ memCall'.limit = limit /\ Len(memCall'.pattern) = m
    BY <1>1 DEF found, limit, m
  <2>4. memCall'.addr = first
    BY DEF first
  <2> QED
    BY <1>5, <2>1, <2>2, <2>3, <2>4 DEF ScannedTo
<1>10. Len(memCall'.carry) = 0 /\ memCall'.addr - Len(memCall'.carry) = first
  BY <1>4 DEF first
<1>11. CarriedFrom(memCall'.carry, memCall'.addr - Len(memCall'.carry), memBytes')
  BY <1>10 DEF CarriedFrom
<1>12. CarriesEnough(memCall'.carry, memCall'.addr, first, memGaps', m)
  BY <1>3, <1>4, <1>8, <1>10 DEF CarriesEnough
<1>13. memCall'.addr = first /\ memCall'.addr \in first..memCall'.last
  BY <1>4 DEF first
<1>14. ASSUME NEW s \in memRegions \ {q}
       PROVE  IF ToDo(s, memCall'.regions) THEN EndOf(q) <= s.base ELSE EndOf(s) <= q.base
  <2>1. EndOf(s) \in Nat
    BY RegionsAre
  <2> QED
    BY <1>2, <1>4, <2>1
<1> QED
  BY <1>1, <1>9, <1>11, <1>12, <1>13, <1>14 DEF SearchingIn, first, m

\* Nothing is left to be searched, or the limit is reached.
LEMMA SearchEnds ==
  ASSUME RegionsApart, SearchTypeOK, SameScan, NEW f, ScannedTo(f),
         \A s \in memRegions : IF ToDo(s, memCall.regions) THEN f <= s.base ELSE EndOf(s) <= f,
         memCall.regions = {} \/ Full, memGaps' = memGaps
  PROVE  SearchFindsEachOnce' /\ ReadIsPrefix'
<1> DEFINE m == Len(memCall.pattern)
           found == memCall.found
           limit == memCall.limit
<1>1. /\ memBytes' = memBytes /\ memRegions' = memRegions
      /\ memCall'.window = memCall.window /\ memCall'.pattern = memCall.pattern
      /\ memCall'.limit = memCall.limit /\ memCall'.found = memCall.found
      /\ memCall'.size = memCall.size
  BY DEF SameScan
<1>2. /\ f \in Nat /\ found \in Seq(Nat) /\ Len(found) <= limit
      /\ \A i, j \in DOMAIN found : i < j => found[i] < found[j]
      /\ \A i \in DOMAIN found : found[i] \in ShouldFind /\ found[i] < f
      /\ \A a \in ShouldFind : a < f /\ a + m <= f => Known(a, found, limit)
  BY DEF ScannedTo, Scanned
<1>3. m \in Nat /\ m > 0 /\ memCall.size = 0 /\ limit \in Nat
  BY DEF SearchTypeOK
<1>4. ShouldFind' = ShouldFind
  BY <1>1 DEF ShouldFind
<1>5. memCall.regions = {} \/ Len(found) >= limit
  BY DEF Full
<1> HIDE DEF m, found, limit
<1>6. ASSUME NEW a \in ShouldFind PROVE Known(a, found, limit)
  <2>1. a \in Nat
    BY MatchesAreIn
  <2>2. PICK s \in memRegions : s.base <= a /\ a + m <= EndOf(s)
    BY MatchesAreIn DEF m
  <2>3. s.base \in Nat /\ EndOf(s) \in Nat
    BY RegionsAre
  <2>4. CASE ToDo(s, memCall.regions)
    <3>1. f <= s.base
      BY <2>4
    <3>2. memCall.regions # {}
      BY <2>4 DEF ToDo
    <3>3. Len(found) = limit
      BY <1>2, <1>3, <1>5, <3>2
    <3>4. ASSUME NEW i \in DOMAIN found PROVE found[i] < a
      <4>1. found[i] \in Nat /\ found[i] < f
        BY <1>2
      <4> QED
        BY <1>2, <2>1, <2>2, <2>3, <3>1, <4>1
    <3> QED
      BY <3>3, <3>4 DEF Known
  <2>5. CASE ~ToDo(s, memCall.regions)
    <3>1. EndOf(s) <= f
      BY <2>5
    <3>2. a < f /\ a + m <= f
      BY <1>2, <1>3, <2>1, <2>2, <2>3, <3>1
    <3> QED
      BY <1>2, <3>2
  <2> QED
    BY <2>4, <2>5
<1>7. SearchFindsEachOnce'
  <2>1. memCall'.found = found /\ memCall'.limit = limit
    BY <1>1 DEF found, limit
  <2>2. ASSUME NEW a \in ShouldFind
        PROVE  \/ \E i \in DOMAIN found : found[i] = a
               \/ Len(found) = limit /\ \A i \in DOMAIN found : found[i] < a
    BY <1>6 DEF Known
  <2> QED
    BY <1>2, <1>4, <2>1, <2>2 DEF SearchFindsEachOnce
<1>8. ReadIsPrefix'
  BY <1>1, <1>3 DEF ReadIsPrefix
<1> QED
  BY <1>7, <1>8

LEMMA TypeGoesOn ==
  ASSUME SearchTypeOK, SameScan, memCall'.regions \subseteq memCall.regions,
         memGaps' \subseteq Nat
  PROVE  SearchTypeOK'
<1>1. /\ memRegions' = memRegions
      /\ memCall'.window = memCall.window /\ memCall'.pattern = memCall.pattern
      /\ memCall'.limit = memCall.limit /\ memCall'.size = memCall.size
  BY DEF SameScan
<1> QED
  BY <1>1 DEF SearchTypeOK

\* During a search, and once a request has its answer.
LEMMA DuringSearch ==
  ASSUME DOMAIN memCall' = MemoryFields, RegionsApart', SearchTypeOK',
         \/ memCall'.step = "region" /\ BetweenRegions'
         \/ memCall'.step = "search" /\ \E r \in memRegions' : SearchingIn(r)'
  PROVE  MemoryInv'
<1>1. memCall'.step \in {"region", "search"}
  OBVIOUS
<1>2. SearchInv'
  BY <1>1 DEF SearchInv, SearchFindsEachOnce, MemoryAt
<1>3. ReadInv'
  BY <1>1 DEF ReadInv, ReadIsPrefix, MemoryAt
<1>4. NothingAsked'
  BY <1>1 DEF NothingAsked
<1> QED
  BY <1>2, <1>3, <1>4 DEF MemoryInv

LEMMA OnceAnswered ==
  ASSUME DOMAIN memCall' = MemoryFields, RegionsApart', memCall'.step \in {"ok", "failed"},
         memCall'.step = "ok" => SearchFindsEachOnce' /\ ReadIsPrefix'
  PROVE  MemoryInv'
<1>1. SearchInv'
  BY DEF SearchInv, SearchFindsEachOnce, MemoryAt
<1>2. ReadInv'
  BY DEF ReadInv, ReadIsPrefix, MemoryAt
<1>3. NothingAsked'
  BY DEF NothingAsked
<1> QED
  BY <1>1, <1>2, <1>3 DEF MemoryInv

LEMMA MapStays ==
  ASSUME RegionsApart, memRegions' = memRegions
  PROVE  RegionsApart'
BY DEF RegionsApart, EndOf

LEMMA SearchRegionKeeps ==
  ASSUME MemoryInv, SearchRegion
  PROVE  MemoryInv'
<1> DEFINE r == Foremost(memCall.regions)
           later == memCall.regions \ {r}
           first == SearchStart(r, memCall.window)
           last == SearchEnd(r, memCall.window)
<1>1. /\ DOMAIN memCall = MemoryFields /\ RegionsApart /\ SearchTypeOK /\ BetweenRegions
      /\ memCall.step = "region"
  BY DEF MemoryInv, SearchInv, SearchRegion, MemoryAt
<1>2. memBytes' = memBytes /\ memRegions' = memRegions /\ RegionsApart'
  BY <1>1, MapStays DEF SearchRegion
<1>3. PICK f \in Nat :
         /\ ScannedTo(f)
         /\ \A s \in memRegions :
               IF ToDo(s, memCall.regions) THEN f <= s.base ELSE EndOf(s) <= f
  BY <1>1 DEF BetweenRegions
<1>4. memGaps \subseteq Nat /\ memCall.window \in Nat \X Nat
  BY <1>1 DEF SearchTypeOK
<1>5. CASE memCall.regions = {} \/ Full
  <2>1. memCall' = [memCall EXCEPT !.step = "ok"] /\ memGaps' = memGaps
    BY <1>5 DEF SearchRegion, MemoryStep
  <2>2. /\ DOMAIN memCall' = MemoryFields /\ memCall'.step = "ok"
        /\ \A k \in {"window", "pattern", "limit", "size", "found"} : memCall'[k] = memCall[k]
    BY <1>1, <2>1 DEF MemoryFields
  <2>3. SameScan
    BY <1>2, <2>2 DEF SameScan
  <2>4. SearchFindsEachOnce' /\ ReadIsPrefix'
    BY <1>1, <1>3, <1>5, <2>1, <2>3, SearchEnds
  <2> QED
    BY <1>2, <2>2, <2>4, OnceAnswered
<1>6. CASE memCall.regions # {} /\ ~Full
  <2>1. \/ /\ ~Searched(r, memCall.window)
           /\ memCall' = [memCall EXCEPT !.regions = later] /\ memGaps' = memGaps
        \/ /\ Searched(r, memCall.window)
           /\ IsReadable(first, LeastOf(ReadChunk, last - first))
           /\ memCall' = [[memCall EXCEPT !.regions = later] EXCEPT
                             !.step = "search", !.addr = first, !.last = last, !.carry = <<>>]
           /\ memGaps' = memGaps
        \/ /\ Searched(r, memCall.window)
           /\ memCall' = [memCall EXCEPT !.regions = later]
           /\ memGaps' = memGaps \cup (first..(last - 1))
    BY <1>6 DEF SearchRegion, MemoryStep
  <2>2. \E q \in memRegions :
           /\ SameRegion(r, q) /\ f <= q.base /\ ~ToDo(q, later)
           /\ \A s \in memRegions \ {q} :
                 IF ToDo(s, later) THEN EndOf(q) <= s.base ELSE EndOf(s) <= f
    BY <1>1, <1>3, <1>6, NextRegion
  <2> HIDE DEF r, later, first, last
  <2>3. PICK q \in memRegions :
           /\ SameRegion(r, q) /\ f <= q.base /\ ~ToDo(q, later)
           /\ \A s \in memRegions \ {q} :
                 IF ToDo(s, later) THEN EndOf(q) <= s.base ELSE EndOf(s) <= f
    BY <2>2
  <2>4. /\ first = SearchStart(q, memCall.window) /\ last = SearchEnd(q, memCall.window)
        /\ Searched(r, memCall.window) => Searched(q, memCall.window)
        /\ Searched(q, memCall.window) => Searched(r, memCall.window)
    BY <2>3, SameWindow DEF first, last
  <2>5. /\ DOMAIN memCall' = MemoryFields /\ memCall'.regions = later
        /\ \A k \in {"window", "pattern", "limit", "size", "found"} : memCall'[k] = memCall[k]
    BY <1>1, <2>1 DEF MemoryFields
  <2>6. SameScan /\ memCall'.regions \subseteq memCall.regions
    BY <1>2, <2>5 DEF SameScan, later
  <2>7. CASE /\ ~Searched(r, memCall.window)
             /\ memCall' = [memCall EXCEPT !.regions = later] /\ memGaps' = memGaps
    <3>1. memCall'.step = "region"
      BY <1>1, <2>7 DEF MemoryFields
    <3>2. {} \in SUBSET (q.base..(EndOf(q) - 1)) /\ memGaps' = memGaps \cup {}
          /\ ~Searched(q, memCall.window)
      BY <2>4, <2>7
    <3>3. BetweenRegions'
      BY <1>1, <1>3, <2>3, <2>5, <2>6, <3>2, RegionIsDone
    <3>4. SearchTypeOK'
      BY <1>1, <1>4, <2>6, <2>7, TypeGoesOn
    <3> QED
      BY <1>2, <2>5, <3>1, <3>3, <3>4, DuringSearch
  <2>8. CASE /\ Searched(r, memCall.window)
             /\ IsReadable(first, LeastOf(ReadChunk, last - first))
             /\ memCall' = [[memCall EXCEPT !.regions = later] EXCEPT
                               !.step = "search", !.addr = first, !.last = last, !.carry = <<>>]
             /\ memGaps' = memGaps
    <3>1. /\ memCall'.step = "search" /\ memCall'.addr = first /\ memCall'.last = last
          /\ memCall'.carry = <<>>
      BY <1>1, <2>8 DEF MemoryFields
    <3>2. first < last
      <4>1. first \in Nat /\ last \in Nat
        BY <1>1, <1>4, <2>4, <2>8, WindowIs
      <4>2. LeastOf(ReadChunk, last - first) > 0 /\ ReadChunk \in Nat
        BY <2>8, MemoryAssumption DEF IsReadable, FitsAddressRange
      <4> QED
        BY <4>1, <4>2 DEF LeastOf
    <3>3. SearchTypeOK'
      BY <1>1, <1>4, <2>6, <2>8, TypeGoesOn
    <3>4. SearchingIn(q)'
      BY <1>1, <1>3, <2>3, <2>4, <2>5, <2>6, <2>8, <3>1, <3>2, RegionStarts
    <3> QED
      BY <1>2, <2>5, <3>1, <3>3, <3>4, DuringSearch
  <2>9. CASE /\ Searched(r, memCall.window)
             /\ memCall' = [memCall EXCEPT !.regions = later]
             /\ memGaps' = memGaps \cup (first..(last - 1))
    <3>1. memCall'.step = "region"
      BY <1>1, <2>9 DEF MemoryFields
    <3> DEFINE G == first..(last - 1)
    <3>2. /\ first \in Nat /\ last \in Nat /\ q.base \in Nat /\ EndOf(q) \in Nat
          /\ q.base <= first /\ last <= EndOf(q)
      BY <1>1, <1>4, <2>4, <2>9, WindowIs, RegionsAre
    <3>3. G \in SUBSET (q.base..(EndOf(q) - 1)) /\ G \subseteq Nat
      BY <3>2
    <3>4. /\ memGaps' = memGaps \cup G
          /\ G = SearchStart(q, memCall.window)..(SearchEnd(q, memCall.window) - 1)
      BY <2>4, <2>9
    <3> HIDE DEF G
    <3>5. BetweenRegions'
      BY <1>1, <1>3, <2>3, <2>5, <2>6, <3>3, <3>4, RegionIsDone
    <3>6. SearchTypeOK'
      BY <1>1, <1>4, <2>6, <3>3, <3>4, TypeGoesOn
    <3> QED
      BY <1>2, <2>5, <3>1, <3>5, <3>6, DuringSearch
  <2> QED
    BY <2>1, <2>7, <2>8, <2>9
<1> QED
  BY <1>5, <1>6

\* The search goes from a region back to the map.
LEMMA BetweenStays ==
  ASSUME BetweenRegions, SameScan, memCall'.regions = memCall.regions, memGaps' = memGaps
  PROVE  BetweenRegions'
<1>1. /\ memBytes' = memBytes /\ memRegions' = memRegions
      /\ memCall'.window = memCall.window /\ memCall'.pattern = memCall.pattern
      /\ memCall'.limit = memCall.limit /\ memCall'.found = memCall.found
  BY DEF SameScan
<1>2. ShouldFind' = ShouldFind
  BY <1>1 DEF ShouldFind
<1> QED
  BY <1>1, <1>2 DEF BetweenRegions, ScannedTo

LEMMA SearchNextChunkKeeps ==
  ASSUME MemoryInv, SearchNextChunk
  PROVE  MemoryInv'
<1> DEFINE addr == memCall.addr
           n == LeastOf(SearchChunk, memCall.last - addr)
           old == memCall.carry
           b == addr - Len(old)
           buffer == old \o BytesAt(addr, n)
           carry == CarryOver(buffer, memCall.pattern)
           found == FoundIn(buffer, b, memCall)
           next == [memCall EXCEPT !.addr = @ + n]
<1>1. /\ DOMAIN memCall = MemoryFields /\ RegionsApart /\ SearchTypeOK
      /\ memCall.step = "search" /\ MemoryAt("search")
  BY DEF MemoryInv, SearchInv, SearchNextChunk, MemoryAt
<1>2. memBytes' = memBytes /\ memRegions' = memRegions /\ RegionsApart'
  BY <1>1, MapStays DEF SearchNextChunk
<1>3. PICK r \in memRegions : SearchingIn(r)
  BY <1>1 DEF MemoryInv, SearchInv
<1>4. /\ addr \in Nat /\ memCall.last \in Nat /\ addr <= memCall.last
      /\ Len(memCall.pattern) \in Nat /\ Len(memCall.pattern) > 0
      /\ Len(old) \in Nat /\ b \in Nat
      /\ CarriedFrom(old, b, memBytes)
  BY <1>1, <1>3, SearchingHas DEF SearchingIn
<1>5. n \in Nat /\ addr + n <= memCall.last
  <2>1. SearchChunk \in Nat
    BY MemoryAssumption
  <2> QED
    BY <1>4, <2>1 DEF LeastOf
<1>6. \/ /\ n <= 0 \/ Full
         /\ memCall' = [memCall EXCEPT !.step = "region"] /\ memGaps' = memGaps
      \/ /\ n > 0
         /\ memCall' = [next EXCEPT !.carry = <<>>]
         /\ memGaps' = memGaps \cup (addr..(addr + n - 1))
      \/ /\ n > 0
         /\ memCall' = [next EXCEPT !.carry = carry, !.found = found]
         /\ memGaps' = memGaps
  BY <1>5 DEF SearchNextChunk, MemoryStep
<1> DEFINE Same == {"regions", "window", "pattern", "limit", "last", "size"}
<1>7. CASE /\ n <= 0 \/ Full
           /\ memCall' = [memCall EXCEPT !.step = "region"] /\ memGaps' = memGaps
  <2>1. BetweenRegions
    BY <1>1, <1>7, RegionEnds
  <2>2. /\ DOMAIN memCall' = MemoryFields /\ memCall'.step = "region"
        /\ memCall'.regions = memCall.regions
        /\ \A k \in {"window", "pattern", "limit", "size", "found"} : memCall'[k] = memCall[k]
    BY <1>1, <1>7 DEF MemoryFields
  <2>3. SameScan
    BY <1>2, <2>2 DEF SameScan
  <2>4. BetweenRegions'
    BY <1>7, <2>1, <2>2, <2>3, BetweenStays
  <2>5. SearchTypeOK'
    BY <1>1, <1>7, <2>2, <2>3, TypeGoesOn DEF SearchTypeOK
  <2> QED
    BY <1>2, <2>2, <2>4, <2>5, DuringSearch
<1> HIDE DEF n, addr, old, b, buffer, carry, found
<1>8. CASE /\ n > 0 /\ memCall' = [next EXCEPT !.carry = <<>>]
           /\ memGaps' = memGaps \cup (addr..(addr + n - 1))
  <2>1. /\ DOMAIN memCall' = MemoryFields /\ memCall'.step = "search"
        /\ memCall'.addr = addr + n /\ memCall'.carry = <<>> /\ memCall'.found = memCall.found
        /\ \A k \in Same : memCall'[k] = memCall[k]
    BY <1>1, <1>8 DEF MemoryFields, addr
  <2>2. SameSearch
    BY <1>2, <2>1 DEF SameSearch
  <2>3. SearchTypeOK' /\ r \in memRegions' /\ SearchingIn(r)'
    BY <1>1, <1>3, <1>5, <1>8, <2>1, <2>2, ChunkIsGap DEF addr
  <2> QED
    BY <1>2, <2>1, <2>3, DuringSearch
<1>9. CASE /\ n > 0 /\ memCall' = [next EXCEPT !.carry = carry, !.found = found]
           /\ memGaps' = memGaps
  <2>1. /\ DOMAIN memCall' = MemoryFields /\ memCall'.step = "search"
        /\ memCall'.addr = addr + n /\ memCall'.carry = carry /\ memCall'.found = found
        /\ \A k \in Same : memCall'[k] = memCall[k]
    BY <1>1, <1>9 DEF MemoryFields, addr
  <2>2. SameSearch
    BY <1>2, <2>1 DEF SameSearch
  <2> HIDE DEF next, Same
  <2>3. Len(buffer) = Len(old) + n /\ CarriedFrom(buffer, b, memBytes)
    <3>1. Joined(buffer, old, BytesAt(addr, n)) /\ b = addr - Len(old)
      BY DEF buffer, b, Joined
    <3>2. addr \in Nat /\ n \in Nat /\ b \in Nat
      BY <1>4, <1>5
    <3>3. CarriedFrom(old, b, memBytes)
      BY <1>4
    <3> QED
      BY <3>1, <3>2, <3>3, BufferIs
  <2>4. Len(buffer) \in Nat /\ b + Len(buffer) = addr + n
    <3>1. b = addr - Len(old)
      BY DEF b
    <3>2. Len(buffer) = Len(old) + n
      BY <2>3
    <3>3. addr \in Nat /\ n \in Nat /\ Len(old) \in Nat
      BY <1>4, <1>5
    <3>4. Len(buffer) \in Nat
      BY <3>2, <3>3
    <3>5. b + Len(buffer) = addr + n
      BY <3>1, <3>2, <3>3
    <3> QED
      BY <3>4, <3>5
  <2>5. /\ Len(carry) = LeastOf(Len(memCall.pattern) - 1, Len(buffer))
        /\ CarriedFrom(carry, (addr + n) - Len(carry), memBytes)
    <3>1. carry = CarryOver(buffer, memCall.pattern)
      BY DEF carry
    <3>2. /\ Len(carry) = LeastOf(Len(memCall.pattern) - 1, Len(buffer))
          /\ CarriedFrom(carry, (b + Len(buffer)) - Len(carry), memBytes)
      <4>1. /\ b \in Nat /\ Len(buffer) \in Nat
            /\ Len(memCall.pattern) \in Nat /\ Len(memCall.pattern) > 0
        BY <1>4, <2>4
      <4>2. Len(carry) = LeastOf(Len(memCall.pattern) - 1, Len(buffer))
        BY <2>3, <3>1, <4>1, CarryOverIs
      <4>3. CarriedFrom(carry, (b + Len(buffer)) - Len(carry), memBytes)
        BY <2>3, <3>1, <4>1, CarryOverIs
      <4> QED
        BY <4>2, <4>3
    <3> QED
      BY <2>4, <3>2
  <2>6. SearchTypeOK' /\ r \in memRegions' /\ SearchingIn(r)'
    BY <1>1, <1>3, <1>5, <1>9, <2>1, <2>2, <2>3, <2>5, ChunkIsRead DEF addr, old, b, found
  <2> QED
    BY <1>2, <2>1, <2>6, DuringSearch
<1> QED
  BY <1>6, <1>7, <1>8, <1>9

-----------------------------------------------------------------------------
(* Memory: the other requests.                                               *)

LEMMA DuringRead ==
  ASSUME DOMAIN memCall' = MemoryFields, RegionsApart', memCall'.step = "read", Reading'
  PROVE  MemoryInv'
<1>1. SearchInv'
  BY DEF SearchInv, SearchFindsEachOnce, MemoryAt
<1>2. ReadInv'
  BY DEF ReadInv, ReadIsPrefix, MemoryAt
<1>3. NothingAsked'
  BY DEF NothingAsked
<1> QED
  BY <1>1, <1>2, <1>3 DEF MemoryInv

\* Requests other than reads and searches begin and end at once.
LEMMA AtIdle ==
  ASSUME MemoryInv, MemoryAt("idle")
  PROVE  /\ memCall = NoMemoryCall /\ memGaps = {} /\ RegionsApart
         /\ DOMAIN memCall = MemoryFields
         /\ memCall.pattern = <<>> /\ memCall.size = 0 /\ memCall.got = 0
         /\ memCall.carry = <<>> /\ memCall.found = <<>>
<1>1. memCall = NoMemoryCall /\ memGaps = {}
  BY DEF MemoryInv, NothingAsked, MemoryAt
<1> QED
  BY <1>1 DEF MemoryInv, NoMemoryCall

LEMMA PlainAnswer ==
  ASSUME DOMAIN memCall = MemoryFields, memCall.pattern = <<>>, memCall.size = 0, RegionsApart',
         DOMAIN memCall' = MemoryFields, memCall'.step \in {"ok", "failed"},
         memCall'.pattern = memCall.pattern, memCall'.size = memCall.size
  PROVE  MemoryInv'
<1>1. memCall'.pattern = <<>> /\ memCall'.size = 0
  OBVIOUS
<1>2. SearchFindsEachOnce' /\ ReadIsPrefix'
  BY <1>1 DEF SearchFindsEachOnce, ReadIsPrefix
<1> QED
  BY <1>2, OnceAnswered

LEMMA FailedAnswer ==
  ASSUME DOMAIN memCall = MemoryFields, RegionsApart', memCall' = Failed
  PROVE  MemoryInv'
<1>1. DOMAIN memCall' = MemoryFields /\ memCall'.step = "failed"
  BY DEF Failed, MemoryFields
<1> QED
  BY <1>1, OnceAnswered

LEMMA MemoryReadKeeps ==
  ASSUME MemoryInv, NEW a \in Nat, NEW n \in Nat, NEW e, MemoryRead(a, n, e)
  PROVE  MemoryInv'
<1> DEFINE call == [memCall EXCEPT !.addr = a, !.size = n, !.encoding = e]
<1>1. DOMAIN memCall = MemoryFields /\ memCall.pattern = <<>> /\ memCall.got = 0
  BY AtIdle DEF MemoryRead
<1>2. memBytes' = memBytes /\ memRegions' = memRegions /\ RegionsApart'
  BY AtIdle, MapStays DEF MemoryRead, MemoryIdle
<1>3. memCall' = Read(call)
  BY DEF MemoryRead, MemoryStep
<1>4. CASE memCall' = Failed
  BY <1>1, <1>2, <1>4, FailedAnswer
<1>5. CASE memCall' = [call EXCEPT !.step = "read", !.buffer = [i \in 1..call.size |-> 0]]
  <2>1. /\ DOMAIN memCall' = MemoryFields /\ memCall'.step = "read"
        /\ memCall'.addr = a /\ memCall'.size = n /\ memCall'.got = 0
        /\ memCall'.pattern = <<>> /\ call.size = n
    BY <1>1, <1>5 DEF MemoryFields
  <2>2. memCall'.buffer = [i \in 1..n |-> 0]
    BY <1>1, <1>5, <2>1 DEF MemoryFields
  <2>3. memCall'.buffer = [i \in 1..n |-> memCall'.buffer[i]]
    BY <2>2
  <2>4. 0 % ReadChunk = 0
    BY MemoryAssumption
  <2>5. Reading'
    BY <2>1, <2>3, <2>4 DEF Reading
  <2> QED
    BY <1>2, <2>1, <2>5, DuringRead
<1> QED
  BY <1>3, <1>4, <1>5 DEF Read

\* A whole number of chunks, and one more.
LEMMA WholeChunks ==
  ASSUME NEW x \in Nat, NEW c \in Nat \ {0}, x % c = 0
  PROVE  (x + c) % c = 0
<1> DEFINE q == x \div c
           p == (x + c) \div c
           rest == (x + c) % c
<1>1. q \in Int /\ x = c * q
  OBVIOUS
<1>2. p \in Int /\ rest \in 0..(c - 1) /\ x + c = c * p + rest
  OBVIOUS
<1>3. x + c = c * (q + 1)
  BY <1>1
<1> HIDE DEF q, p, rest
<1> DEFINE d == (q + 1) - p
<1>4. d \in Int /\ rest = c * d
  <2>1. c * (q + 1) - c * p = c * ((q + 1) - p)
    BY <1>1, <1>2
  <2> QED
    BY <1>1, <1>2, <1>3, <2>1
<1> HIDE DEF d
<1>5. CASE d = 0
  BY <1>4, <1>5 DEF rest
<1>6. CASE d >= 1
  BY <1>2, <1>4, <1>6
<1>7. CASE d <= -1
  BY <1>2, <1>4, <1>7
<1> QED
  BY <1>4, <1>5, <1>6, <1>7

LEMMA ReadNextChunkKeeps ==
  ASSUME MemoryInv, ReadNextChunk
  PROVE  MemoryInv'
<1> DEFINE addr == memCall.addr
           got == memCall.got
           size == memCall.size
           n == LeastOf(ReadChunk, size - got)
<1>1. DOMAIN memCall = MemoryFields /\ memCall.step = "read" /\ Reading /\ RegionsApart
  BY DEF MemoryInv, ReadInv, ReadNextChunk, MemoryAt
<1>2. memBytes' = memBytes /\ memRegions' = memRegions /\ RegionsApart'
  BY <1>1, MapStays DEF ReadNextChunk, MemoryIdle
<1>3. /\ addr \in Nat /\ size \in Nat /\ got \in Nat /\ got <= size
      /\ got = size \/ got % ReadChunk = 0
      /\ memCall.buffer = [i \in 1..size |-> memCall.buffer[i]]
      /\ \A i \in 1..got : memCall.buffer[i] = memBytes[addr + i - 1]
      /\ memCall.pattern = <<>>
  <2>1. got \in 0..size /\ size \in Nat
    BY <1>1 DEF Reading
  <2>2. got \in Nat /\ got <= size
    BY <2>1
  <2> QED
    BY <1>1, <2>2 DEF Reading
<1>4. ReadChunk \in Nat /\ ReadChunk > 0
  BY MemoryAssumption
<1>5. \/ n = ReadChunk /\ got + ReadChunk <= size
      \/ n = size - got /\ n \in Nat
  BY <1>3, <1>4 DEF LeastOf
<1>6. \/ memCall' = ReadEnds(got)
      \/ /\ n # 0
         /\ memCall' = [memCall EXCEPT !.got = @ + n,
               !.buffer = [i \in 1..size |-> IF i - got \in 1..n THEN memBytes[addr + i - 1]
                                             ELSE @[i]]]
  BY DEF ReadNextChunk, MemoryStep
<1>7. CASE memCall' = ReadEnds(got)
  <2> DEFINE call == [memCall EXCEPT !.buffer = SubSeq(@, 1, got)]
  <2>1. CASE memCall' = Failed
    BY <1>1, <1>2, <2>1, FailedAnswer
  <2>2. CASE got > 0 /\ memCall' = [call EXCEPT !.step = "ok"]
    <3>1. /\ DOMAIN memCall' = MemoryFields /\ memCall'.step = "ok"
          /\ memCall'.pattern = <<>> /\ memCall'.addr = addr /\ memCall'.size = size
          /\ memCall'.buffer = SubSeq(memCall.buffer, 1, got)
      BY <1>1, <1>3, <2>2 DEF MemoryFields
    <3> DEFINE buffer == memCall.buffer
               S == {buffer[i] : i \in 1..got}
    <3>2. \A i \in 1..got : buffer[i] \in S
      OBVIOUS
    <3> HIDE DEF S, got, size, addr
    <3>3. got \in Int /\ 1 \in Int /\ 1 <= got /\ got - 1 + 1 = got
      BY <1>3, <2>2
    <3>4. /\ SubSeq(buffer, 1, got) \in Seq(S) /\ Len(SubSeq(buffer, 1, got)) = got
          /\ \A i \in 1..got : SubSeq(buffer, 1, got)[i] = buffer[1 + i - 1]
      BY <3>2, <3>3, SubSeqProperties
    <3>5. /\ Len(memCall'.buffer) = got /\ DOMAIN memCall'.buffer = 1..got
          /\ memCall'.buffer = [i \in 1..got |-> memCall'.buffer[i]]
      BY <3>1, <3>4
    <3>6. \A i \in 1..got : memCall'.buffer[i] = memBytes[addr + i - 1]
      <4> SUFFICES ASSUME NEW i \in 1..got PROVE memCall'.buffer[i] = memBytes[addr + i - 1]
        OBVIOUS
      <4>1. 1 + i - 1 = i
        OBVIOUS
      <4>2. memCall'.buffer[i] = buffer[1 + i - 1]
        BY <3>1, <3>4
      <4>3. buffer[i] = memBytes[addr + i - 1]
        BY <1>3
      <4> QED
        BY <4>1, <4>2, <4>3
    <3>7. memCall'.buffer = [i \in 1..got |-> memBytes[addr + i - 1]]
      BY <3>5, <3>6
    <3>8. ReadIsPrefix'
      <4>1. memCall'.buffer = [i \in 1..Len(memCall'.buffer) |-> memBytes'[memCall'.addr + i - 1]]
        BY <1>2, <3>1, <3>5, <3>7
      <4>2. got = size \/ (got > 0 /\ got % ReadChunk = 0)
        BY <1>3, <2>2
      <4> QED
        BY <3>1, <3>5, <4>1, <4>2 DEF ReadIsPrefix, BytesAt
    <3>9. SearchFindsEachOnce'
      BY <3>1 DEF SearchFindsEachOnce
    <3> QED
      BY <1>2, <3>1, <3>8, <3>9, OnceAnswered
  <2>3. \/ memCall' = Failed
        \/ got > 0 /\ memCall' = [call EXCEPT !.step = "ok"]
    BY <1>3, <1>7 DEF ReadEnds, EncodeData
  <2> QED
    BY <2>1, <2>2, <2>3
<1>8. CASE /\ n # 0
           /\ memCall' = [memCall EXCEPT !.got = @ + n,
                 !.buffer = [i \in 1..size |-> IF i - got \in 1..n THEN memBytes[addr + i - 1]
                                               ELSE @[i]]]
  <2> DEFINE buffer == [i \in 1..size |-> IF i - got \in 1..n THEN memBytes[addr + i - 1]
                                          ELSE memCall.buffer[i]]
  <2> HIDE DEF n, addr, got, size
  <2>1. /\ DOMAIN memCall' = MemoryFields /\ memCall'.step = "read" /\ memCall'.pattern = <<>>
        /\ memCall'.addr = addr /\ memCall'.size = size /\ memCall'.got = got + n
        /\ memCall'.buffer = buffer
    BY <1>1, <1>3, <1>8 DEF MemoryFields, addr, got, size
  <2>2. buffer = [i \in 1..size |-> buffer[i]]
    OBVIOUS
  <2>3. n \in Nat /\ got + n \in 0..size
    BY <1>3, <1>4, <1>5
  <2>4. ASSUME NEW i \in 1..(got + n) PROVE buffer[i] = memBytes[addr + i - 1]
    <3>1. i \in 1..size
      BY <1>3, <2>3
    <3>2. CASE i - got \in 1..n
      BY <3>1, <3>2
    <3>3. CASE i - got \notin 1..n
      <4>1. i \in 1..got
        BY <1>3, <2>3, <3>3
      <4> QED
        BY <1>3, <3>1, <3>3, <4>1
    <3> QED
      BY <3>2, <3>3
  <2>5. got + n = size \/ (got + n) % ReadChunk = 0
    <3>1. CASE n = ReadChunk /\ got % ReadChunk = 0
      BY <1>3, <1>4, <3>1, WholeChunks
    <3>2. CASE n = size - got
      BY <1>3, <3>2
    <3>3. CASE n = ReadChunk /\ got = size /\ got + ReadChunk <= size
      BY <1>3, <1>4, <3>3
    <3> QED
      BY <1>3, <1>5, <3>1, <3>2, <3>3
  <2> HIDE DEF buffer
  <2>6. Reading'
    BY <1>2, <1>3, <2>1, <2>2, <2>3, <2>4, <2>5 DEF Reading
  <2> QED
    BY <1>2, <2>1, <2>6, DuringRead
<1> QED
  BY <1>6, <1>7, <1>8

LEMMA MemorySearchKeeps ==
  ASSUME MemoryInv, NEW p \in Patterns, NEW w \in Windows, NEW limit \in Limits,
         MemorySearch(p, w, limit)
  PROVE  MemoryInv'
<1>1. /\ DOMAIN memCall = MemoryFields /\ memCall.size = 0 /\ memCall.found = <<>>
      /\ memGaps = {} /\ RegionsApart
  BY AtIdle DEF MemorySearch
<1>2. /\ memBytes' = memBytes /\ memRegions' = memRegions /\ memGaps' = memGaps
      /\ RegionsApart'
  BY <1>1, MapStays DEF MemorySearch, MemoryIdle
<1>3. CASE memCall' = Failed
  BY <1>1, <1>2, <1>3, FailedAnswer
<1>4. CASE /\ p # <<>>
           /\ memCall' = [memCall EXCEPT !.step = "region", !.pattern = p, !.window = w,
                             !.limit = limit, !.regions = EnumerateRegions]
  <2>1. /\ DOMAIN memCall' = MemoryFields /\ memCall'.step = "region"
        /\ memCall'.pattern = p /\ memCall'.window = w /\ memCall'.limit = limit
        /\ memCall'.regions = memRegions /\ memCall'.size = 0 /\ memCall'.found = <<>>
    BY <1>1, <1>4 DEF MemoryFields, EnumerateRegions
  <2>2. /\ p \in Seq(Bytes \cup {Wildcard}) /\ w \in Nat \X Nat /\ limit \in Nat
        /\ Len(p) \in Nat
    BY SearchAssumption
  <2>3. /\ \A q \in memRegions : \E r \in memRegions : SameRegion(q, r)
        /\ \A q, r \in memRegions : q.base = r.base => q = r
        /\ \A r \in memRegions : ToDo(r, memRegions) /\ r.base \in Nat
    BY <1>1, RegionsAre DEF SameRegion, ToDo
  <2>4. SearchTypeOK'
    BY <1>1, <1>2, <1>4, <2>1, <2>2, <2>3 DEF SearchTypeOK
  <2>5. ShouldFind' \subseteq Nat
    BY MemoryAssumption DEF ShouldFind, Addresses
  <2>6. Scanned(<<>>, 0, 0, ShouldFind', Len(p), limit)
    <3>1. /\ <<>> \in Seq(Nat) /\ Len(<<>>) <= limit
          /\ \A i \in DOMAIN <<>> : FALSE
      BY <2>2
    <3>2. \A a \in ShouldFind' : ~(a < 0)
      BY <2>5
    <3> QED
      BY <3>1, <3>2 DEF Scanned
  <2>7. ScannedTo(0)'
    BY <1>1, <1>2, <2>1, <2>6 DEF ScannedTo
  <2>8. ASSUME NEW r \in memRegions
        PROVE  IF ToDo(r, memCall'.regions) THEN 0 <= r.base ELSE EndOf(r) <= 0
    BY <2>1, <2>3
  <2>9. BetweenRegions'
    <3>1. 0 \in Nat
      OBVIOUS
    <3> QED
      BY <1>2, <2>7, <2>8, <3>1 DEF BetweenRegions
  <2> QED
    BY <1>2, <2>1, <2>4, <2>9, DuringSearch
<1> QED
  BY <1>3, <1>4 DEF MemorySearch, MemoryStep

LEMMA ReadDeadlineKeeps ==
  ASSUME MemoryInv, ReadDeadline
  PROVE  MemoryInv'
<1>1. DOMAIN memCall = MemoryFields /\ RegionsApart' /\ memCall' = Failed
  BY MapStays DEF MemoryInv, ReadDeadline, MemoryStep, MemoryIdle
<1> QED
  BY <1>1, FailedAnswer

LEMMA MemoryGetInfoKeeps ==
  ASSUME MemoryInv, NEW a, MemoryGetInfo(a)
  PROVE  MemoryInv'
<1>1. /\ DOMAIN memCall = MemoryFields /\ memCall.pattern = <<>> /\ memCall.size = 0
      /\ RegionsApart'
  BY AtIdle, MapStays DEF MemoryGetInfo, MemoryIdle
<1>2. /\ DOMAIN memCall' = MemoryFields /\ memCall'.step \in {"ok", "failed"}
      /\ memCall'.pattern = memCall.pattern /\ memCall'.size = memCall.size
  BY <1>1 DEF MemoryGetInfo, MemoryStep, Failed, MemoryFields
<1> QED
  BY <1>1, <1>2, PlainAnswer

LEMMA MemoryEnumerateKeeps ==
  ASSUME MemoryInv, MemoryEnumerate
  PROVE  MemoryInv'
<1>1. /\ DOMAIN memCall = MemoryFields /\ memCall.pattern = <<>> /\ memCall.size = 0
      /\ RegionsApart'
  BY AtIdle, MapStays DEF MemoryEnumerate, MemoryIdle
<1>2. /\ DOMAIN memCall' = MemoryFields /\ memCall'.step \in {"ok", "failed"}
      /\ memCall'.pattern = memCall.pattern /\ memCall'.size = memCall.size
  BY <1>1 DEF MemoryEnumerate, MemoryStep, Failed, MemoryFields
<1> QED
  BY <1>1, <1>2, PlainAnswer

LEMMA MemoryWriteKeeps ==
  ASSUME MemoryInv, NEW a, NEW data, NEW e, MemoryWrite(a, data, e)
  PROVE  MemoryInv'
<1>1. /\ DOMAIN memCall = MemoryFields /\ memCall.pattern = <<>> /\ memCall.size = 0
      /\ RegionsApart'
  BY AtIdle, MapStays DEF MemoryWrite
<1>2. /\ DOMAIN memCall' = MemoryFields /\ memCall'.step \in {"ok", "failed"}
      /\ memCall'.pattern = memCall.pattern /\ memCall'.size = memCall.size
  BY <1>1 DEF MemoryWrite, Write, MemoryStep, Failed, MemoryFields
<1> QED
  BY <1>1, <1>2, PlainAnswer

\* Regions without a common cell lie one behind the other.
LEMMA CellsApart ==
  ASSUME NEW r, NEW s, r.base \in Nat, r.size \in Nat, s.base \in Nat, s.size \in Nat,
         r.size > 0, s.size > 0, CellsOf(r) \cap CellsOf(s) = {}
  PROVE  EndOf(r) <= s.base \/ EndOf(s) <= r.base
<1> SUFFICES ASSUME ~(EndOf(r) <= s.base), ~(EndOf(s) <= r.base) PROVE FALSE
  OBVIOUS
<1>1. s.base < r.base + r.size /\ r.base < s.base + s.size
  BY DEF EndOf
<1>2. CASE r.base <= s.base
  <2>1. s.base \in CellsOf(r) /\ s.base \in CellsOf(s)
    BY <1>1, <1>2 DEF CellsOf
  <2> QED
    BY <2>1
<1>3. CASE s.base <= r.base
  <2>1. r.base \in CellsOf(r) /\ r.base \in CellsOf(s)
    BY <1>1, <1>3 DEF CellsOf
  <2> QED
    BY <2>1
<1> QED
  BY <1>2, <1>3

LEMMA MemoryAllocateKeeps ==
  ASSUME MemoryInv, NEW n \in Nat, NEW a \in Nat, MemoryAllocate(n, a)
  PROVE  MemoryInv'
<1> DEFINE r == [base |-> a, size |-> n, state |-> "commit", protection |-> "readwrite"]
<1>1. /\ DOMAIN memCall = MemoryFields /\ memCall.pattern = <<>> /\ memCall.size = 0
      /\ RegionsApart
  BY AtIdle DEF MemoryAllocate
<1>2. /\ DOMAIN memCall' = MemoryFields /\ memCall'.step \in {"ok", "failed"}
      /\ memCall'.pattern = memCall.pattern /\ memCall'.size = memCall.size
  BY <1>1 DEF MemoryAllocate, Allocate, MemoryStep, Failed, MemoryFields
<1>3. \/ memRegions' = memRegions
      \/ /\ n > 0 /\ FitsAddressRange(a, n)
         /\ \A s \in memRegions : CellsOf(s) \cap CellsOf(r) = {}
         /\ memRegions' = memRegions \cup {r}
  BY DEF MemoryAllocate, Allocate, MemoryStep
<1>4. CASE memRegions' = memRegions
  BY <1>1, <1>2, <1>4, MapStays, PlainAnswer
<1>5. CASE /\ n > 0 /\ FitsAddressRange(a, n)
           /\ \A s \in memRegions : CellsOf(s) \cap CellsOf(r) = {}
           /\ memRegions' = memRegions \cup {r}
  <2>1. r.base = a /\ r.size = n
    OBVIOUS
  <2>2. /\ LastAddress \in Nat /\ a <= LastAddress /\ a + n <= LastAddress + 1
        /\ n \in 1..(LastAddress + 1) /\ a \in 0..LastAddress
    BY <1>5, MemoryAssumption DEF FitsAddressRange, FitsAddress
  <2>3. r \in Region /\ EndOf(r) <= LastAddress + 1
    BY <2>1, <2>2 DEF Region, Addresses, EndOf
  <2> HIDE DEF r
  <2>4. ASSUME NEW s \in memRegions PROVE EndOf(r) <= s.base \/ EndOf(s) <= r.base
    <3>1. s.base \in Nat /\ s.size \in Nat /\ s.base < EndOf(s)
      BY <1>1, RegionsAre
    <3>2. s.size > 0
      BY <3>1 DEF EndOf
    <3>3. CellsOf(s) \cap CellsOf(r) = {}
      BY <1>5
    <3> QED
      BY <1>5, <2>1, <3>1, <3>2, <3>3, CellsApart
  <2>5. /\ memRegions \subseteq Region /\ \A s \in memRegions : EndOf(s) <= LastAddress + 1
        /\ \A s, t \in memRegions : s # t => EndOf(s) <= t.base \/ EndOf(t) <= s.base
    BY <1>1 DEF RegionsApart
  <2>6. /\ memRegions' \subseteq Region /\ \A s \in memRegions' : EndOf(s) <= LastAddress + 1
        /\ \A s, t \in memRegions' : s # t => EndOf(s) <= t.base \/ EndOf(t) <= s.base
    BY <1>5, <2>3, <2>4, <2>5
  <2>7. RegionsApart'
    BY <2>6 DEF RegionsApart, EndOf
  <2> QED
    BY <1>1, <1>2, <2>7, PlainAnswer
<1> QED
  BY <1>3, <1>4, <1>5

LEMMA MemoryFreeKeeps ==
  ASSUME MemoryInv, NEW a, MemoryFree(a)
  PROVE  MemoryInv'
<1>1. /\ DOMAIN memCall = MemoryFields /\ memCall.pattern = <<>> /\ memCall.size = 0
      /\ RegionsApart
  BY AtIdle DEF MemoryFree
<1>2. /\ DOMAIN memCall' = MemoryFields /\ memCall'.step \in {"ok", "failed"}
      /\ memCall'.pattern = memCall.pattern /\ memCall'.size = memCall.size
  BY <1>1 DEF MemoryFree, Free, MemoryStep, Failed, MemoryFields
<1>3. memRegions' \subseteq memRegions
  BY DEF MemoryFree, Free, MemoryStep
<1>4. RegionsApart'
  BY <1>1, <1>3 DEF RegionsApart, EndOf
<1> QED
  BY <1>1, <1>2, <1>4, PlainAnswer

\* A new protection leaves the shape of the map alone.
LEMMA MapKeepsShape ==
  ASSUME RegionsApart, NEW r \in memRegions, r.state = "commit",
         NEW p \in {"noaccess", "readwrite"},
         memRegions' = (memRegions \ {r}) \cup {[r EXCEPT !.protection = p]}
  PROVE  /\ RegionsApart'
         /\ \A s \in memRegions : \E t \in memRegions' : SameRegion(s, t)
         /\ \A t \in memRegions' : \E s \in memRegions : SameRegion(t, s)
<1> DEFINE q == [r EXCEPT !.protection = p]
<1>1. r \in Region /\ LastAddress \in Nat
  BY RegionsAre, MemoryAssumption
<1>2. q \in Region /\ q.base = r.base /\ q.size = r.size /\ q.state = r.state
  BY <1>1 DEF Region
<1> HIDE DEF q
<1>3. memRegions' = (memRegions \ {r}) \cup {q}
  BY DEF q
<1>4. EndOf(q) = EndOf(r) /\ SameRegion(q, r) /\ SameRegion(r, q)
  BY <1>2 DEF EndOf, SameRegion
<1>5. \A u : SameRegion(u, u)
  BY DEF SameRegion
<1>6. /\ memRegions \subseteq Region /\ \A s \in memRegions : EndOf(s) <= LastAddress + 1
      /\ \A s, t \in memRegions : s # t => EndOf(s) <= t.base \/ EndOf(t) <= s.base
  BY DEF RegionsApart
<1>7. /\ memRegions' \subseteq Region /\ \A s \in memRegions' : EndOf(s) <= LastAddress + 1
      /\ \A s, t \in memRegions' : s # t => EndOf(s) <= t.base \/ EndOf(t) <= s.base
  BY <1>2, <1>3, <1>4, <1>6
<1>8. RegionsApart'
  BY <1>7 DEF RegionsApart, EndOf
<1>9. ASSUME NEW s \in memRegions PROVE \E t \in memRegions' : SameRegion(s, t)
  BY <1>3, <1>4, <1>5
<1>10. ASSUME NEW t \in memRegions' PROVE \E s \in memRegions : SameRegion(t, s)
  BY <1>3, <1>4, <1>5
<1> QED
  BY <1>8, <1>9, <1>10

LEMMA ProtectKeeps ==
  ASSUME MemoryInv, NEW r \in memRegions, NEW p \in {"noaccess", "readwrite"}, Protect(r, p)
  PROVE  MemoryInv'
<1>1. /\ DOMAIN memCall = MemoryFields /\ RegionsApart
      /\ memCall' = memCall /\ memBytes' = memBytes /\ memGaps' = memGaps
  BY DEF MemoryInv, Protect
<1>2. /\ RegionsApart'
      /\ \A s \in memRegions : \E t \in memRegions' : SameRegion(s, t)
      /\ \A t \in memRegions' : \E s \in memRegions : SameRegion(t, s)
  BY <1>1, MapKeepsShape DEF Protect
<1>3. CASE memCall.step = "read"
  <2>1. Reading
    BY <1>3 DEF MemoryInv, ReadInv
  <2>2. Reading'
    BY <1>1, <2>1 DEF Reading
  <2> QED
    BY <1>1, <1>2, <1>3, <2>2, DuringRead
<1>4. CASE memCall.step = "search"
  <2>1. SearchTypeOK
    BY <1>4 DEF MemoryInv, SearchInv
  <2>2. PICK s \in memRegions : SearchingIn(s)
    BY <1>4 DEF MemoryInv, SearchInv
  <2>3. PICK t \in memRegions' : SameRegion(s, t)
    BY <1>2
  <2>4. SearchTypeOK'
    <3>1. ASSUME NEW q \in memCall.regions PROVE \E u \in memRegions' : SameRegion(q, u)
      <4>1. PICK v \in memRegions : SameRegion(q, v)
        BY <2>1 DEF SearchTypeOK
      <4>2. PICK u \in memRegions' : SameRegion(v, u)
        BY <1>2
      <4>3. SameRegion(q, u)
        BY <4>1, <4>2 DEF SameRegion
      <4> QED
        BY <4>3
    <3> QED
      BY <1>1, <2>1, <3>1 DEF SearchTypeOK
  <2>5. ShouldFind' = ShouldFind
    <3> DEFINE Is(a, u) ==
          /\ Searched(u, memCall.window)
          /\ a >= SearchStart(u, memCall.window)
          /\ a + Len(memCall.pattern) <= SearchEnd(u, memCall.window)
          /\ (a..(a + Len(memCall.pattern) - 1)) \cap memGaps = {}
          /\ MatchPattern(memBytes, a, memCall.pattern)
    <3>1. ShouldFind = {a \in Addresses : \E u \in memRegions : Is(a, u)}
      BY DEF ShouldFind
    <3>2. ShouldFind' = {a \in Addresses : \E u \in memRegions' : Is(a, u)}
      BY <1>1 DEF ShouldFind
    <3>3. ASSUME NEW a, NEW u, NEW v, SameRegion(u, v), Is(a, u) PROVE Is(a, v)
      BY <3>3, SameWindow
    <3> HIDE DEF Is
    <3> QED
      BY <1>2, <3>1, <3>2, <3>3
  <2>6. \A u, v, regions : SameRegion(u, v) => ToDo(u, regions) = ToDo(v, regions)
    <3> SUFFICES ASSUME NEW u, NEW v, NEW regions, SameRegion(u, v)
                 PROVE  ToDo(u, regions) = ToDo(v, regions)
      OBVIOUS
    <3>1. \A q : SameRegion(q, u) = SameRegion(q, v)
      BY DEF SameRegion
    <3> QED
      BY <3>1 DEF ToDo
  <2>7. SearchingIn(t)'
    <3>1. /\ SearchStart(s, memCall.window) = SearchStart(t, memCall.window)
          /\ SearchEnd(s, memCall.window) = SearchEnd(t, memCall.window)
          /\ Searched(s, memCall.window) => Searched(t, memCall.window)
      BY <2>3, SameWindow
    <3>2. ToDo(s, memCall.regions) = ToDo(t, memCall.regions)
      BY <2>3, <2>6
    <3>3. s.base = t.base /\ EndOf(s) = EndOf(t)
      BY <2>3 DEF SameRegion, EndOf
    <3>4. ASSUME NEW u \in memRegions' \ {t}
          PROVE  IF ToDo(u, memCall.regions) THEN EndOf(t) <= u.base ELSE EndOf(u) <= t.base
      <4>1. PICK v \in memRegions : SameRegion(u, v)
        BY <1>2
      <4>2. v.base = u.base /\ EndOf(v) = EndOf(u)
        BY <4>1 DEF SameRegion, EndOf
      <4>3. v # s
        <5> SUFFICES ASSUME v = s PROVE FALSE
          OBVIOUS
        <5>1. EndOf(u) <= t.base \/ EndOf(t) <= u.base
          <6>1. \A x, y \in memRegions' : x # y => EndOf(x) <= y.base \/ EndOf(y) <= x.base
            BY <1>2 DEF RegionsApart, EndOf
          <6> QED
            BY <6>1
        <5>2. s.base \in Nat /\ EndOf(s) \in Nat /\ s.base < EndOf(s)
          BY <1>1, RegionsAre
        <5> QED
          BY <3>3, <4>2, <5>1, <5>2
      <4>4. ToDo(u, memCall.regions) = ToDo(v, memCall.regions)
        BY <2>6, <4>1
      <4>5. IF ToDo(v, memCall.regions) THEN EndOf(s) <= v.base ELSE EndOf(v) <= s.base
        BY <2>2, <4>3 DEF SearchingIn
      <4> QED
        BY <3>3, <4>2, <4>4, <4>5
    <3>5. ScannedTo(memCall.addr)'
      <4>1. ScannedTo(memCall.addr)
        BY <2>2 DEF SearchingIn
      <4> QED
        BY <1>1, <2>5, <4>1 DEF ScannedTo
    <3>6. /\ ~ToDo(s, memCall.regions) /\ Searched(s, memCall.window)
          /\ memCall.last = SearchEnd(s, memCall.window)
          /\ memCall.addr \in SearchStart(s, memCall.window)..memCall.last
          /\ CarriedFrom(memCall.carry, memCall.addr - Len(memCall.carry), memBytes)
          /\ CarriesEnough(memCall.carry, memCall.addr, SearchStart(s, memCall.window), memGaps,
                           Len(memCall.pattern))
      BY <2>2 DEF SearchingIn
    <3> QED
      BY <1>1, <3>1, <3>2, <3>4, <3>5, <3>6 DEF SearchingIn
  <2> QED
    BY <1>1, <1>2, <1>4, <2>4, <2>7, DuringSearch
<1> QED
  BY <1>3, <1>4 DEF Protect

-----------------------------------------------------------------------------
LEMMA MemoryStarts ==
  ASSUME MemoryInit
  PROVE  MemoryInv
<1>1. memCall = NoMemoryCall /\ memGaps = {} /\ memRegions \in StartRegions
  BY DEF MemoryInit
<1>2. DOMAIN memCall = MemoryFields /\ memCall.step = "idle"
  BY <1>1 DEF NoMemoryCall, MemoryFields
<1>3. RegionsApart
  <2>1. /\ memRegions \subseteq Region
        /\ \A r \in memRegions : FitsAddressRange(r.base, r.size)
        /\ \A r, s \in memRegions : r # s => CellsOf(r) \cap CellsOf(s) = {}
    BY <1>1, RegionsAssumption
  <2>2. ASSUME NEW r \in memRegions
        PROVE  r.base \in Nat /\ r.size \in Nat /\ r.size > 0 /\ EndOf(r) <= LastAddress + 1
    <3>1. LastAddress \in Nat /\ FitsAddressRange(r.base, r.size)
      BY <2>1, MemoryAssumption
    <3>2. r.base \in Nat /\ r.size \in Nat /\ r.size > 0
      BY <2>1, <3>1 DEF Region, Addresses
    <3> QED
      BY <3>1, <3>2 DEF FitsAddressRange, FitsAddress, EndOf
  <2>3. ASSUME NEW r \in memRegions, NEW s \in memRegions, r # s
        PROVE  EndOf(r) <= s.base \/ EndOf(s) <= r.base
    BY <2>1, <2>2, <2>3, CellsApart
  <2> QED
    BY <2>1, <2>2, <2>3 DEF RegionsApart
<1>4. NothingAsked /\ SearchInv /\ ReadInv
  BY <1>1, <1>2 DEF NothingAsked, SearchInv, ReadInv, SearchFindsEachOnce, ReadIsPrefix, MemoryAt
<1> QED
  BY <1>2, <1>3, <1>4 DEF MemoryInv

LEMMA MemoryStutters ==
  ASSUME MemoryInv, UNCHANGED memoryVars
  PROVE  MemoryInv'
<1>1. /\ memBytes' = memBytes /\ memRegions' = memRegions /\ memGaps' = memGaps
      /\ memCall' = memCall
  BY DEF memoryVars
<1>2. ShouldFind' = ShouldFind
  BY <1>1 DEF ShouldFind
<1>3. RegionsApart'
  BY <1>1, MapStays DEF MemoryInv
<1>4. SearchInv'
  BY <1>1, <1>2 DEF MemoryInv, SearchInv, SearchTypeOK, BetweenRegions, SearchingIn, ScannedTo,
     SearchFindsEachOnce, MemoryAt
<1>5. ReadInv'
  BY <1>1 DEF MemoryInv, ReadInv, Reading, ReadIsPrefix, MemoryAt, BytesAt
<1> QED
  BY <1>1, <1>3, <1>4, <1>5 DEF MemoryInv, NothingAsked

LEMMA MemoryGoesOn ==
  ASSUME MemoryInv, MemoryNext
  PROVE  MemoryInv'
<1>1. ASSUME NEW a \in 0..(LastAddress + 1),
             \/ \E n \in 0..(MaxReadSize + 1), e \in Encodings : MemoryRead(a, n, e)
             \/ \E n \in 0..(MaxWriteSize + 1), b \in Bytes, e \in Encodings :
                   MemoryWrite(a, [i \in 1..n |-> b], e)
             \/ \E n \in 0..2 : MemoryAllocate(n, a)
             \/ MemoryFree(a) \/ MemoryGetInfo(a)
      PROVE  MemoryInv'
  <2>1. a \in Nat /\ 0..(MaxReadSize + 1) \subseteq Nat /\ 0..2 \subseteq Nat
    BY MemoryAssumption
  <2> QED
    BY <1>1, <2>1, MemoryReadKeeps, MemoryWriteKeeps, MemoryAllocateKeeps, MemoryFreeKeeps,
       MemoryGetInfoKeeps
<1>2. ASSUME \E p \in Patterns, w \in Windows, limit \in Limits : MemorySearch(p, w, limit)
      PROVE  MemoryInv'
  BY <1>2, MemorySearchKeeps
<1>3. ASSUME \E r \in memRegions, p \in {"noaccess", "readwrite"} : Protect(r, p)
      PROVE  MemoryInv'
  BY <1>3, ProtectKeeps
<1> QED
  BY <1>1, <1>2, <1>3, MemoryEnumerateKeeps, ReadNextChunkKeeps, ReadDeadlineKeeps,
     SearchRegionKeeps, SearchNextChunkKeeps DEF MemoryNext

\* An answer about memory says what the memory holds, no more and no less: a
\* search reports every match of the regions it could read, once and in order,
\* and a read returns bytes of the debuggee only.
THEOREM MemoryAnswers == MemorySpec => []MemoryAnswersAreExact
<1>1. MemoryInit => MemoryInv
  BY MemoryStarts
<1>2. MemoryInv /\ [MemoryNext]_memoryVars => MemoryInv'
  BY MemoryGoesOn, MemoryStutters
<1>3. MemoryInv => MemoryAnswersAreExact
  BY DEF MemoryInv, SearchInv, ReadInv, MemoryAnswersAreExact
<1> QED
  BY <1>1, <1>2, <1>3, PTL DEF MemorySpec
=============================================================================
