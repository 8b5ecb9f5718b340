----------------------------- MODULE MCDebuggee -----------------------------
(* Requests about the debuggee: breakpoints, memory and dumps, and the texts *)
(* in them.  A behaviour is one of one component, the subject; the others   *)
(* rest in one of their initial states.  The components share no state of the plugin, so nothing *)
(* is lost by looking at one after the other.                               *)
EXTENDS Breakpoints, DebuggeeMemory, ModuleDump, Texts, TLC

VARIABLE subject

debuggeeVars == <<subject, breakpointVars, memoryVars, dumpVars, textVars>>

-----------------------------------------------------------------------------
(* Breakpoints: one address, so that all three types meet there.            *)

MCAddrs == {2}
MCHwConds == {"execute", "write"}
MCHwSizes == {1, 4}
MCMemSizes == {3}

-----------------------------------------------------------------------------
(* Memory: a readable and a writable region with a hole in between, and two *)
(* adjacent regions behind a reserved one.                                  *)

RegionAt(base, size, state, protection) ==
    [base |-> base, size |-> size, state |-> state, protection |-> protection]
MCStartRegions ==
    {{RegionAt(1, 4, "commit", "readonly"), RegionAt(5, 1, "commit", "readwrite")},
     {RegionAt(0, 2, "reserve", "noaccess"), RegionAt(2, 2, "commit", "readwrite"),
      RegionAt(4, 2, "commit", "readonly")}}
\* Empty, two equal bytes, a wildcard in the middle, longer than a chunk.
MCPatterns == {<<>>, <<0, 0>>, <<1, Wildcard, 0>>, <<0, 0, 0, 0>>}
MCWindows == {<<0, 0>>, <<2, 0>>, <<2, 4>>, <<4, 3>>}
MCLimits == {1, 9}
MCStartRights == {[session |-> "none", write |-> TRUE],
                  [session |-> "running", write |-> FALSE],
                  [session |-> "paused", write |-> TRUE]}

-----------------------------------------------------------------------------
(* Dumps: numbers have four bits, a size_t six.                             *)

SectionAt(rva, virtual, raw, writable, marker) ==
    [virtualAddress |-> rva, virtualSize |-> virtual, rawPointer |-> 0, rawSize |-> raw,
     executable |-> TRUE, writable |-> writable, marker |-> marker]
HeaderOf(lfanew, optional, entry, sizeOfImage, alignment, sections) ==
    [dosMagic |-> TRUE, lfanew |-> lfanew, signature |-> TRUE, optionalSize |-> optional,
     optionalMagic |-> TRUE, directories |-> 0, imports |-> ~sections[1].marker,
     entry |-> entry, sizeOfImage |-> sizeOfImage, fileAlignment |-> alignment,
     imageBase |-> 0, checkSum |-> TRUE, sections |-> sections]
Jump(at, target) == [at |-> at, target |-> target]
PrologueAt(pattern, at, code) == [pattern |-> pattern, at |-> at, code |-> code]

StubAndCode == <<SectionAt(5, 3, 2, FALSE, FALSE), SectionAt(8, 3, 2, TRUE, FALSE)>>
Jumps == {Jump(8, 9), Jump(9, 6), Jump(9, 13), Jump(5, 13), Jump(10, 10)}
Prologues == {PrologueAt(2, 6, TRUE), PrologueAt(1, 7, FALSE), PrologueAt(1, 8, TRUE)}

\* Entry in either section; a packer's names; a negative header offset; a
\* section over the header; a size that wraps 32 bits when it is aligned.
MCImages ==
    {ImageRecord(HeaderOf(2, 1, 5, 12, 2, StubAndCode), 12, 4, "path", Jumps, Prologues),
     ImageRecord(HeaderOf(2, 1, 8, 11, 0, StubAndCode), 12, 4, "path", Jumps, Prologues),
     ImageRecord(HeaderOf(2, 1, 8, 12, 4, <<SectionAt(5, 3, 0, TRUE, TRUE),
                                            SectionAt(8, 15, 2, TRUE, FALSE)>>),
                 12, 4, NoFile, {}, {PrologueAt(3, 3, TRUE), PrologueAt(4, 6, TRUE)}),
     ImageRecord(HeaderOf(-2, 1, 5, 12, 2, StubAndCode), 12, 4, NoFile, Jumps, {}),
     ImageRecord(HeaderOf(2, 2, 3, 12, 7, <<SectionAt(0, 0, 14, FALSE, FALSE)>>),
                 9, 4, "path", Jumps, {PrologueAt(1, 4, TRUE)}),
     ImageRecord(HeaderOf(2, 1, 8, 15, 7, <<SectionAt(14, 5, 2, FALSE, FALSE),
                                            SectionAt(6, 10, 2, TRUE, FALSE)>>),
                 16, 4, "path", Jumps \cup {Jump(11, 19)}, {PrologueAt(1, 4, TRUE)})}
MCDumpRights == {[session |-> "none", write |-> TRUE], [session |-> "running", write |-> FALSE],
                 [session |-> "running", write |-> TRUE]}

Request(op, known, valid, forced, detect, fix, rebuild) ==
    [op |-> op, known |-> known, validPath |-> valid, forced |-> forced, autoDetect |-> detect,
     fixOEP |-> fix, rebuild |-> rebuild, removeCheck |-> TRUE, raw |-> FALSE]
MCDumpRequests ==
    {Request("module", known, TRUE, forced, detect, fix, rebuild) :
        known \in BOOLEAN, forced \in {NoEntry, 3, 12, 16, 20},
        detect \in BOOLEAN, fix \in BOOLEAN, rebuild \in BOOLEAN}
    \cup {Request("region", TRUE, valid, NoEntry, FALSE, FALSE, TRUE) : valid \in BOOLEAN}
    \cup {Request(op, known, TRUE, NoEntry, FALSE, FALSE, FALSE) :
            op \in {"analyze", "detect", "regions"}, known \in BOOLEAN}

-----------------------------------------------------------------------------
(* One subject at a time.                                                   *)

Resting ==
    /\ subject # "breakpoints" => \A right \in DOMAIN bpAllowed : bpAllowed[right]
    /\ subject # "memory" =>
          /\ memRegions = CHOOSE regions \in MCStartRegions : TRUE
          /\ memBytes = [a \in DOMAIN memBytes |-> CHOOSE b \in Bytes : TRUE]
          /\ memSession = "paused"
    /\ subject # "dump" =>
          dumpImage = (CHOOSE image \in MCImages : TRUE) /\ dumpSession = "none"

DebuggeeInit ==
    /\ subject \in {"breakpoints", "memory", "dump", "texts"}
    /\ BreakpointInit /\ MemoryInit /\ DumpInit /\ TextsInit
    /\ Resting

BreakpointSubject ==
    /\ subject = "breakpoints" /\ BreakpointNext
    /\ UNCHANGED <<subject, memoryVars, dumpVars, textVars>>
MemorySubject ==
    /\ subject = "memory" /\ MemoryNext
    /\ UNCHANGED <<subject, breakpointVars, dumpVars, textVars>>
DumpSubject ==
    /\ subject = "dump" /\ DumpNext
    /\ UNCHANGED <<subject, breakpointVars, memoryVars, textVars>>
TextsSubject ==
    /\ subject = "texts" /\ TextsNext
    /\ UNCHANGED <<subject, breakpointVars, memoryVars, dumpVars>>

DebuggeeNext == BreakpointSubject \/ MemorySubject \/ DumpSubject \/ TextsSubject

\* A call on breakpoints that is being executed goes on.
BreakpointCallStep ==
    /\ subject = "breakpoints" /\ CallStep
    /\ UNCHANGED <<subject, memoryVars, dumpVars, textVars>>

DebuggeeSpec ==
    DebuggeeInit /\ [][DebuggeeNext]_debuggeeVars /\ WF_debuggeeVars(BreakpointCallStep)
=============================================================================
