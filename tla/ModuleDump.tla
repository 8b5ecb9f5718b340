----------------------------- MODULE ModuleDump -----------------------------
(* The dump requests: DumpHandler and DumpManager against one module of the  *)
(* debuggee.  The debuggee may be resumed, and its memory may stop being     *)
(* readable, between any two steps; the disk may be full.                    *)
EXTENDS PEImage, FiniteSets

CONSTANTS Images,       \* modules a run begins with
          DumpRights,   \* sessions and write permissions it begins with
          DumpRequests, \* dump.module and dump.memory_region requests
          ScanWindow,   \* bytes scanned from the entry point
          HeaderSpan,   \* 0x1000: where a prologue search begins
          SearchWindow, \* bytes searched for a prologue
          LargeSpan,    \* 0x1000: a section size that looks unpacked
          NoFile

\* An image: the bytes of a module in memory and what x64dbg says of it.
\* A transfer is a jump of the entry section's code; a prologue is a place
\* where one of the four known byte patterns begins.
ImageRecord(header, size, base, path, transfers, prologues) ==
    [header |-> header, size |-> size, base |-> base, path |-> path,
     transfers |-> transfers, prologues |-> prologues]

ASSUME ImageAssumption ==
    \A image \in Images :
        /\ image.header \in Header /\ image.size \in Nat /\ image.base \in Nat
        /\ \A t \in image.transfers : t.target \in Int
        /\ \A p \in image.prologues : p.at \in Int

ASSUME RequestAssumption ==
    DumpRequests # {} /\ \A request \in DumpRequests : request.forced \in Int

ASSUME RightsAssumption ==
    \A right \in DumpRights :
        right.session \in {"none", "running", "paused"} /\ right.write \in BOOLEAN

VARIABLES dumpSession,  \* "none", "running" or "paused"
          dumpAllowed,  \* permissions.allow_memory_write
          dumpImage,    \* the module as x64dbg knows it
          dumpCall,     \* the request being executed
          dumpFile      \* the output file

dumpVars == <<dumpSession, dumpAllowed, dumpImage, dumpCall, dumpFile>>

BufferOf(n) == [len |-> n, header |-> dumpImage.header]
InModule(a) == a >= dumpImage.base /\ a < dumpImage.base + dumpImage.size

NoEntry == -1
DumpSteps == {"idle", "pause", "prepare", "copy", "read", "entry", "rebuild", "checksum",
              "write", "read_region", "write_region", "pause_query", "ok", "failed"}
DumpCalls == [step : DumpSteps, request : DumpRequests,
              buffer : Buffer \cup {NoFile}, rva : Number32 \cup {NoEntry},
              newEP : Int, rebuilt : BOOLEAN, size : Nat]
NoDumpCall == [step |-> "idle", request |-> CHOOSE r \in DumpRequests : TRUE, buffer |-> NoFile,
               rva |-> NoEntry, newEP |-> NoEntry, rebuilt |-> FALSE, size |-> 0]

DumpTypeOK ==
    /\ dumpSession \in {"none", "running", "paused"} /\ dumpAllowed \in BOOLEAN
    /\ dumpImage \in Images /\ dumpCall \in DumpCalls

DumpInit ==
    /\ dumpImage \in Images
    /\ \E right \in DumpRights :
          dumpSession = right.session /\ dumpAllowed = right.write
    /\ dumpCall = NoDumpCall
    /\ dumpFile = NoFile

DumpAt(step) == dumpCall.step = step
DumpStep(call) == dumpCall' = call /\ UNCHANGED <<dumpAllowed, dumpImage>>
DumpFailed == [dumpCall EXCEPT !.step = "failed"]

\* Another client, or the user, lets the debuggee run or stops it.
Resume ==
    /\ dumpCall.step \notin {"idle", "ok", "failed"} /\ dumpSession # "none"
    /\ dumpSession' = IF dumpSession = "paused" THEN "running" ELSE "paused"
    /\ UNCHANGED <<dumpAllowed, dumpImage, dumpCall, dumpFile>>

-----------------------------------------------------------------------------
(* The entry point a dump looks for.                                         *)

\* The jumps seen from the entry point to the end of its section.
ScannedTransfers(entrySection) ==
    LET s == dumpImage.header.sections[entrySection]
        end == s.virtualAddress + SectionSpan(s)
        scan == Lesser(ScanWindow, end - dumpImage.header.entry)
    IN IF scan < 2 THEN {}
       ELSE {t \in dumpImage.transfers :
                t.at >= dumpImage.header.entry /\ t.at < dumpImage.header.entry + scan}

IsValidTarget(target, entrySection) ==
    /\ InModule(target)
    /\ target - dumpImage.base <= Max32
    /\ LET i == FindSectionIndex(dumpImage.header.sections, target - dumpImage.base) IN
       i \notin {0, entrySection} /\ dumpImage.header.sections[i].executable

\* Where the first jump out of the entry section leads.
JumpTargets ==
    LET e == FindSectionIndex(dumpImage.header.sections, dumpImage.header.entry)
        hits == {t \in ScannedTransfers(e) : IsValidTarget(t.target, e)}
    IN IF ~ValidatePELayout(BufferOf(dumpImage.size)) \/ e = 0 THEN {}
       ELSE {t.target : t \in {t \in hits : \A u \in hits : t.at <= u.at}}

\* The first place of each pattern in turn; one whose bytes are padding is
\* passed over, and a place further on is not looked at.
ProloguesIn(k) ==
    {p \in dumpImage.prologues :
        /\ p.pattern = k /\ p.at >= HeaderSpan
        /\ p.at < Lesser(dumpImage.size, SearchWindow)}
FirstPrologue(k) ==
    {p \in ProloguesIn(k) : p.code /\ \A q \in ProloguesIn(k) : p.at <= q.at}
Prologue ==
    LET found == UNION {FirstPrologue(k) : k \in 1..4} IN
    {dumpImage.base + p.at : p \in {p \in found : \A q \in found : p.pattern <= q.pattern}}

\* Jumps come first.  But the memory may have stopped being readable: the scan
\* for jumps that is cut short finds none, and a read that fails ends the
\* detection with no answer.
DetectOEPByPattern == JumpTargets \cup Prologue \cup {NoEntry}

-----------------------------------------------------------------------------
(* dump.module.                                                              *)

\* The handler: permission, then the path, before anything is touched.
DumpModule(request) ==
    /\ DumpAt("idle") /\ request.op = "module"
    /\ DumpStep([NoDumpCall EXCEPT !.request = request,
            !.step = IF /\ dumpAllowed /\ request.validPath /\ dumpSession # "none"
                     THEN "pause" ELSE "failed"])
    /\ UNCHANGED <<dumpSession, dumpFile>>

\* A running debuggee is asked to pause, which may fail or be undone at once.
EnsureDebuggerPausedForDump ==
    /\ DumpAt("pause")
    /\ \/ /\ dumpSession' = "paused"
          /\ DumpStep([dumpCall EXCEPT !.step = "prepare"])
       \/ dumpSession = "running" /\ DumpStep(DumpFailed) /\ UNCHANGED dumpSession
    /\ UNCHANGED dumpFile

ParseModuleOrAddress == dumpCall.request.known
GetModuleSize == dumpImage.size
GetModuleEntryPoint == dumpImage.base + dumpImage.header.entry
GetModulePath == dumpImage.path

\* A packed image without a new entry point is copied as it is on disk.
CopiesOriginal ==
    /\ IsPacked(BufferOf(Lesser(HeaderSpan, dumpImage.size)), LargeSpan)
    /\ ~dumpCall.request.autoDetect
    /\ dumpCall.request.forced \in {NoEntry, GetModuleEntryPoint}
    /\ GetModulePath # NoFile

PrepareDump ==
    /\ DumpAt("prepare")
    /\ DumpStep(IF ~ParseModuleOrAddress \/ GetModuleSize = 0 THEN DumpFailed
                ELSE [dumpCall EXCEPT !.step = IF CopiesOriginal THEN "copy" ELSE "read"])
    /\ UNCHANGED <<dumpSession, dumpFile>>

CopyOriginal ==
    /\ DumpAt("copy")
    /\ \/ /\ dumpFile' = [whole |-> TRUE, copy |-> TRUE, image |-> NoFile]
          /\ DumpStep([dumpCall EXCEPT !.step = "ok", !.newEP = GetModuleEntryPoint])
       \/ DumpStep(DumpFailed) /\ UNCHANGED dumpFile
    /\ UNCHANGED dumpSession

\* MemoryManager::Read answers with the readable prefix or fails.
ReadModule ==
    /\ DumpAt("read")
    /\ \/ \E n \in 1..dumpImage.size :
             DumpStep([dumpCall EXCEPT !.step = "entry", !.buffer = BufferOf(n), !.size = n])
       \/ DumpStep(DumpFailed)
    /\ UNCHANGED <<dumpSession, dumpFile>>

\* The call with a new entry point, or as it was when there is no room for it.
TrySetOEP(a) ==
    IF InModule(a) /\ a - dumpImage.base <= Max32
    THEN [dumpCall EXCEPT !.rva = a - dumpImage.base, !.newEP = a]
    ELSE dumpCall

\* Detection pauses the debuggee again: it may have been resumed.
ChooseEntryPoint ==
    /\ DumpAt("entry")
    /\ LET request == dumpCall.request
           forced == TrySetOEP(request.forced)
           Then(call) == DumpStep([call EXCEPT !.step = "rebuild"]) /\ UNCHANGED dumpSession
       IN IF ~request.rebuild
          THEN DumpStep([dumpCall EXCEPT !.step = "checksum"]) /\ UNCHANGED dumpSession
          ELSE IF request.forced # NoEntry
          THEN IF forced.rva = NoEntry THEN DumpStep(DumpFailed) /\ UNCHANGED dumpSession
               ELSE Then(forced)
          ELSE IF request.autoDetect
          THEN \/ /\ dumpSession' = "paused"
                  /\ \E a \in DetectOEPByPattern :
                        DumpStep([TrySetOEP(a) EXCEPT !.step = "rebuild"])
               \/ dumpSession = "running" /\ DumpStep(DumpFailed) /\ UNCHANGED dumpSession
          ELSE IF request.fixOEP THEN Then(TrySetOEP(GetModuleEntryPoint))
          ELSE Then(dumpCall)
    /\ UNCHANGED dumpFile

\* A failed rebuild is logged and the dump goes on.
RebuildDump ==
    /\ DumpAt("rebuild")
    /\ DumpStep([dumpCall EXCEPT !.step = "checksum",
            !.rebuilt = CanRebuild(dumpCall.buffer, dumpCall.rva),
            !.buffer = RebuildPEHeaders(@, dumpImage.base, dumpCall.rva)])
    /\ UNCHANGED <<dumpSession, dumpFile>>

ClearChecksum ==
    /\ DumpAt("checksum")
    /\ DumpStep([dumpCall EXCEPT !.step = "write",
            !.buffer = IF dumpCall.request.removeCheck THEN FixPEChecksum(@) ELSE @])
    /\ UNCHANGED <<dumpSession, dumpFile>>

\* The file cannot be created, is cut short by a full disk, or is written.
WriteDump ==
    /\ DumpAt("write")
    /\ \/ DumpStep(DumpFailed) /\ UNCHANGED dumpFile
       \/ \E whole \in BOOLEAN :
             /\ dumpFile' = [whole |-> whole, copy |-> FALSE, image |-> dumpCall.buffer]
             /\ DumpStep([dumpCall EXCEPT !.step = IF whole THEN "ok" ELSE "failed"])
    /\ UNCHANGED dumpSession

-----------------------------------------------------------------------------
(* dump.memory_region: no pause, and a short write goes unnoticed.           *)

DumpMemoryRegion(request) ==
    /\ DumpAt("idle") /\ request.op = "region"
    /\ DumpStep([NoDumpCall EXCEPT !.request = request,
            !.step = IF dumpAllowed /\ request.validPath /\ dumpSession # "none"
                     THEN "read_region" ELSE "failed"])
    /\ UNCHANGED <<dumpSession, dumpFile>>

\* The region may begin at the header or be data without one.
ReadRegion ==
    /\ DumpAt("read_region")
    /\ \/ \E n \in 1..dumpImage.size :
             LET b == BufferOf(n)
                 fix == ~dumpCall.request.raw /\ ValidatePELayout(b) IN
             DumpStep([dumpCall EXCEPT !.step = "write_region", !.size = n,
                 !.rebuilt = fix,
                 !.buffer = IF fix THEN RebuildPEHeaders(b, dumpImage.base, NoEntry) ELSE b])
       \/ DumpStep(DumpFailed)
    /\ UNCHANGED <<dumpSession, dumpFile>>

WriteRegion ==
    /\ DumpAt("write_region")
    /\ \/ DumpStep(DumpFailed) /\ UNCHANGED dumpFile
       \/ \E whole \in BOOLEAN :
             /\ dumpFile' = [whole |-> whole, copy |-> FALSE, image |-> dumpCall.buffer]
             /\ DumpStep([dumpCall EXCEPT !.step = "ok"])
    /\ UNCHANGED dumpSession

-----------------------------------------------------------------------------
(* dump.analyze_module, dump.detect_oep and dump.get_dumpable_regions change *)
(* nothing but the pause they ask for.                                       *)

DumpQuery(request) ==
    /\ DumpAt("idle") /\ request.op \in {"analyze", "detect", "regions"}
    /\ DumpStep([NoDumpCall EXCEPT !.request = request,
            !.step = IF dumpSession = "none" THEN "failed"
                     ELSE IF request.op = "regions" THEN "ok"
                     ELSE IF request.op = "detect" /\ ~request.known THEN "failed"
                     ELSE "pause_query"])
    /\ UNCHANGED <<dumpSession, dumpFile>>

DetectOEP ==
    /\ DumpAt("pause_query") /\ dumpCall.request.op = "detect"
    /\ \/ /\ dumpSession' = "paused"
          /\ \E a \in DetectOEPByPattern :
                DumpStep([dumpCall EXCEPT !.step = "ok", !.newEP = a])
       \/ dumpSession = "running" /\ DumpStep(DumpFailed) /\ UNCHANGED dumpSession
    /\ UNCHANGED dumpFile

AnalyzeModule ==
    /\ DumpAt("pause_query") /\ dumpCall.request.op = "analyze"
    /\ \/ /\ dumpSession' = "paused"
          /\ DumpStep(IF ParseModuleOrAddress THEN [dumpCall EXCEPT !.step = "ok"]
                      ELSE DumpFailed)
       \/ dumpSession = "running" /\ DumpStep(DumpFailed) /\ UNCHANGED dumpSession
    /\ UNCHANGED dumpFile

DumpNext ==
    \/ \E request \in DumpRequests :
          DumpModule(request) \/ DumpMemoryRegion(request) \/ DumpQuery(request)
    \/ EnsureDebuggerPausedForDump \/ PrepareDump \/ CopyOriginal \/ ReadModule
    \/ ChooseEntryPoint \/ RebuildDump \/ ClearChecksum \/ WriteDump
    \/ ReadRegion \/ WriteRegion \/ DetectOEP \/ AnalyzeModule \/ Resume

DumpSpec == DumpInit /\ [][DumpNext]_dumpVars

-----------------------------------------------------------------------------
(* Properties.                                                               *)

\* Every section of a rebuilt image that was written has its raw data inside
\* the file, and as much of it as was mapped and read.
SectionsInside(b) ==
    \A i \in DOMAIN b.header.sections :
        LET s == b.header.sections[i]
            was == dumpImage.header.sections[i] IN
        /\ s.rawPointer + s.rawSize <= b.len
        /\ was.virtualAddress < b.len =>
              /\ s.rawPointer = was.virtualAddress
              /\ s.rawSize >= Lesser(ImageSize(was), b.len - was.virtualAddress)
DumpedSectionsInFile ==
    dumpFile # NoFile /\ ~dumpFile.copy /\ dumpCall.rebuilt => SectionsInside(dumpFile.image)

\* A header that the dump rewrites lies within the bytes that were read: the
\* NT headers and the whole section table.
HeaderInside(b) ==
    LET h == b.header IN
    /\ DosSize <= NtOffset(h)
    /\ SectionsOffset(h) + Len(h.sections) * SectionSize <= b.len
RewrittenHeaderWasRead == dumpCall.rebuilt => HeaderInside(dumpCall.buffer)

\* The entry point of a rebuilt dump is inside the bytes that were dumped, and
\* it is the one the answer names.
RebuiltEntryIsAnswered ==
    DumpAt("ok") /\ dumpCall.rebuilt /\ dumpCall.newEP # NoEntry =>
        /\ dumpFile.image.header.entry < dumpFile.image.len
        /\ dumpImage.base + dumpFile.image.header.entry = dumpCall.newEP

\* What a rebuilt dump says of itself agrees with the bytes that were read and
\* written, and with the answer.
RebuiltDumpIsConsistent ==
    DumpedSectionsInFile /\ RewrittenHeaderWasRead /\ RebuiltEntryIsAnswered

\* A header as it was read, but for its checksum.
ReadFrom(was, h) == h = [was EXCEPT !.checkSum = h.checkSum]

\* A header after all the changes of a rebuild, and no others.
RebuiltFrom(was, h, base, newEP) ==
    /\ h = [was EXCEPT !.checkSum = h.checkSum, !.imageBase = base,
                !.entry = IF newEP = NoEntry THEN was.entry ELSE newEP - base,
                !.sections = h.sections]
    /\ DOMAIN h.sections = DOMAIN was.sections
    /\ \A i \in DOMAIN was.sections :
          h.sections[i] = [was.sections[i] EXCEPT !.rawPointer = h.sections[i].rawPointer,
                               !.rawSize = h.sections[i].rawSize]

\* What a call may write of a module.
WholeDump(b, image, call) ==
    /\ b.len = call.size
    /\ b.header.checkSum => image.header.checkSum
    /\ IF call.rebuilt THEN RebuiltFrom(image.header, b.header, image.base, call.newEP)
       ELSE ReadFrom(image.header, b.header)

\* The image handed to the disk has as many bytes as were read, and a header
\* with every change of a rebuild or with none of them.  RebuildPEHeaders works
\* in place and may fail after its first test, DumpModule only logs that and
\* writes the buffer all the same: a new entry point beyond the image, or
\* beyond what could be read, must not be half applied.  (The answer of such a
\* dump still names the entry point that its file does not have.)
DumpsAreAllOrNothing == dumpFile # NoFile /\ ~dumpFile.copy => WholeDump(dumpFile.image, dumpImage, dumpCall)

-----------------------------------------------------------------------------
(* The inductive invariant behind RebuiltDumpIsConsistent.                   *)

BufferIsRead ==
    /\ DumpAt("entry") \/ DumpAt("rebuild") =>
          dumpCall.buffer \in Buffer /\ dumpCall.buffer.header = dumpImage.header
    /\ dumpCall.step \in {"checksum", "write", "write_region"} => dumpCall.buffer \in Buffer
EntryIsChosen ==
    /\ dumpCall.step \notin {"rebuild", "checksum", "write", "write_region", "ok", "failed"} =>
          dumpCall.newEP = NoEntry /\ dumpCall.rva = NoEntry /\ ~dumpCall.rebuilt
    /\ DumpAt("rebuild") =>
          /\ ~dumpCall.rebuilt
          /\ dumpCall.newEP # NoEntry =>
                dumpCall.rva # NoEntry /\ dumpCall.newEP = dumpImage.base + dumpCall.rva
RebuiltIsSound ==
    dumpCall.rebuilt =>
        /\ HeaderInside(dumpCall.buffer) /\ SectionsInside(dumpCall.buffer)
        /\ dumpCall.newEP # NoEntry =>
              /\ dumpCall.buffer.header.entry < dumpCall.buffer.len
              /\ dumpImage.base + dumpCall.buffer.header.entry = dumpCall.newEP
FileIsBuffer ==
    /\ dumpCall.step \notin {"ok", "failed"} => dumpFile = NoFile
    /\ DumpAt("ok") /\ dumpCall.rebuilt => dumpFile.image = dumpCall.buffer
    /\ DumpAt("failed") /\ dumpCall.rebuilt /\ dumpFile # NoFile =>
          dumpFile.image = dumpCall.buffer
DumpInv == DumpTypeOK /\ BufferIsRead /\ EntryIsChosen /\ RebuiltIsSound /\ FileIsBuffer
=============================================================================
