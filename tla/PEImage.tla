------------------------------ MODULE PEImage ------------------------------
(* The parts of a PE image that a dump reads and rewrites: PEValidation.h,  *)
(* PEDump.cpp and the section helpers of DumpManager.cpp.  A buffer is its   *)
(* length and the header fields found in it; offsets and sizes are numbers   *)
(* of the code's width.                                                     *)
EXTENDS Integers, Sequences

CONSTANTS Max32,             \* UINT32_MAX
          SizeSpan,          \* 2^w: size_t takes 0..SizeSpan - 1
          DosSize,           \* sizeof(IMAGE_DOS_HEADER)
          FileHeaderSize,    \* signature and IMAGE_FILE_HEADER
          OptionalSize,      \* sizeof(IMAGE_OPTIONAL_HEADER)
          SectionSize,       \* sizeof(IMAGE_SECTION_HEADER)
          NtAlign, SectionAlign, MaxDirectories, DefaultAlignment

ASSUME PEAssumption ==
    /\ Max32 \in Nat /\ SizeSpan \in Nat /\ Max32 < SizeSpan
    /\ DosSize \in Nat /\ FileHeaderSize \in Nat /\ OptionalSize \in Nat
    /\ SectionSize \in Nat \ {0} /\ NtAlign \in Nat \ {0} /\ SectionAlign \in Nat \ {0}
    /\ MaxDirectories \in Nat /\ DefaultAlignment \in Nat \ {0}

Number32 == 0..Max32
Section == [virtualAddress : Number32, virtualSize : Number32, rawPointer : Number32,
            rawSize : Number32, executable : BOOLEAN, writable : BOOLEAN, marker : BOOLEAN]
Header == [dosMagic : BOOLEAN, lfanew : Int, signature : BOOLEAN, optionalSize : Nat,
           optionalMagic : BOOLEAN, directories : Nat, imports : BOOLEAN,
           entry : Number32, sizeOfImage : Number32, fileAlignment : Number32,
           imageBase : Nat, checkSum : BOOLEAN, sections : Seq(Section)]
Buffer == [len : Nat, header : Header]

-----------------------------------------------------------------------------
(* ValidatePELayout.                                                         *)

\* A signed offset, as size_t.
AsSize(n) == IF n < 0 THEN n + SizeSpan ELSE n

\* Neither the sum of an offset and a size nor their difference may wrap.
InBuffer(len, offset, size) == offset <= len /\ size <= len - offset

NtOffset(h) == AsSize(h.lfanew)
OptionalOffset(h) == NtOffset(h) + FileHeaderSize
SectionsOffset(h) == OptionalOffset(h) + h.optionalSize

ValidatePELayout(b) ==
    LET h == b.header IN
    /\ InBuffer(b.len, 0, DosSize)
    /\ h.dosMagic /\ AsSize(h.lfanew) >= DosSize
    /\ NtOffset(h) % NtAlign = 0
    /\ InBuffer(b.len, NtOffset(h), FileHeaderSize)
    /\ h.signature /\ h.optionalSize >= OptionalSize
    /\ InBuffer(b.len, OptionalOffset(h), h.optionalSize)
    /\ h.optionalMagic /\ h.directories <= MaxDirectories
    /\ SectionsOffset(h) % SectionAlign = 0
    /\ h.sections # <<>>
    /\ InBuffer(b.len, SectionsOffset(h), Len(h.sections) * SectionSize)

-----------------------------------------------------------------------------
(* AlignPESections, RebuildPEHeaders and FixPEChecksum.                      *)

Lesser(a, b) == IF a < b THEN a ELSE b

\* Mutant: the rounded value is kept in 32 bits.
AlignUpWraps(value, alignment) ==
    (((value + alignment - 1) \div alignment) * alignment) % (Max32 + 1)

\* The rounded value is computed in 64 bits and clamped to 32.
AlignUp(value, alignment) ==
    Lesser(((value + alignment - 1) \div alignment) * alignment, Max32)

FileAlignment(h) == IF h.fileAlignment = 0 THEN DefaultAlignment ELSE h.fileAlignment
ImageSize(s) == IF s.virtualSize = 0 THEN s.rawSize ELSE s.virtualSize

\* A dump has the layout of memory: a section's raw data is where it is mapped.
AlignSection(s, len, alignment) ==
    IF s.virtualAddress >= len
    THEN [s EXCEPT !.rawPointer = 0, !.rawSize = 0]
    ELSE [s EXCEPT !.rawPointer = s.virtualAddress,
            !.rawSize = Lesser(AlignUp(ImageSize(s), alignment), len - s.virtualAddress)]

AlignPESections(b) ==
    LET h == b.header IN
    [len |-> b.len,
     header |-> [h EXCEPT !.sections =
        [i \in DOMAIN h.sections |-> AlignSection(h.sections[i], b.len, FileAlignment(h))]]]

\* Entry -1 stands for no new entry point.
CanRebuild(b, entry) ==
    /\ ValidatePELayout(b)
    /\ entry # -1 => entry < b.len /\ entry < b.header.sizeOfImage

\* Mutant: the new entry point is stored before its bounds are tested.
RebuildPEHeadersHalf(b, base, entry) ==
    LET h == [b.header EXCEPT !.entry = IF entry = -1 THEN @ ELSE entry] IN
    IF ~ValidatePELayout(b) THEN b
    ELSE IF ~CanRebuild(b, entry) THEN [b EXCEPT !.header = h]
    ELSE AlignPESections([len |-> b.len, header |-> [h EXCEPT !.imageBase = base]])

RebuildPEHeaders(b, base, entry) ==
    IF ~CanRebuild(b, entry) THEN b
    ELSE AlignPESections([len |-> b.len,
            header |-> [b.header EXCEPT !.imageBase = base,
                            !.entry = IF entry = -1 THEN b.header.entry ELSE entry]])

FixPEChecksum(b) ==
    IF ValidatePELayout(b) THEN [b EXCEPT !.header.checkSum = FALSE] ELSE b

-----------------------------------------------------------------------------
(* Sections of a loaded module, and the guess whether it is packed.          *)

SectionSpan(s) == IF s.virtualSize > s.rawSize THEN s.virtualSize ELSE s.rawSize
IsRvaInSection(rva, s) ==
    /\ SectionSpan(s) # 0
    /\ rva >= s.virtualAddress /\ rva - s.virtualAddress < SectionSpan(s)

\* The first section that holds an address, 0 for none.
FindSectionIndex(sections, rva) ==
    LET holders == {i \in DOMAIN sections : IsRvaInSection(rva, sections[i])} IN
    IF holders = {} THEN 0 ELSE CHOOSE i \in holders : \A j \in holders : i <= j

\* The last one the loop meets before it stops at a section with a marker name.
EntrySection(h) ==
    LET marked == {i \in DOMAIN h.sections : h.sections[i].marker}
        seen == {i \in DOMAIN h.sections : \A j \in marked : i <= j}
        holders == {i \in seen : IsRvaInSection(h.entry, h.sections[i])}
    IN IF holders = {} THEN 0 ELSE CHOOSE i \in holders : \A j \in holders : j <= i

Points(b) == IF b THEN 1 ELSE 0
SuspiciousScore(h, largeSpan) ==
    LET e == EntrySection(h)
        marked == \E i \in DOMAIN h.sections : h.sections[i].marker
    IN (IF e = 0 THEN 2
        ELSE Points(e = Len(h.sections))
             + Points(h.sections[e].writable /\ h.sections[e].executable)
             + Points(h.sections[e].rawSize = 0 /\ SectionSpan(h.sections[e]) >= largeSpan))
       + Points(~h.imports)
       + Points(\E i \in DOMAIN h.sections :
                    /\ \A j \in DOMAIN h.sections : h.sections[j].marker => i <= j
                    /\ h.sections[i].rawSize = 0 /\ h.sections[i].executable
                    /\ SectionSpan(h.sections[i]) >= 2 * largeSpan)
       + (IF marked THEN 2 ELSE 0)

IsPacked(b, largeSpan) ==
    /\ ValidatePELayout(b)
    /\ \/ Len(b.header.sections) < 2
       \/ SuspiciousScore(b.header, largeSpan) >= 2
=============================================================================
