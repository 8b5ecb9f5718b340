--------------------------- MODULE DebuggeeMemory ---------------------------
(* The memory requests: MemoryHandler and MemoryManager over the debuggee's *)
(* memory map.  A read and a search go chunk by chunk; protections may      *)
(* change between two chunks.                                               *)
EXTENDS Integers, Sequences

CONSTANTS LastAddress,    \* largest target address
          Bytes,         \* values of a memory cell
          ReadChunk,     \* 4096 in MemoryManager::Read
          SearchChunk,   \* 64 KiB in MemoryManager::Search
          MaxReadSize, MaxWriteSize,
          Patterns,      \* search patterns: bytes and wildcards
          Windows,       \* <<start, end>> of a search, 0 for no bound
          Limits,        \* max_results of a search
          StartRegions,  \* the memory maps a run begins with
          StartRights,   \* sessions and write permissions it begins with
          Wildcard

VARIABLES memBytes,      \* address to byte
          memRegions,    \* disjoint regions: VirtualQueryEx and DbgMemMap
          memSession,    \* "none", "running" or "paused"
          memAllowed,    \* permissions.allow_memory_write
          memCall,       \* the request being executed
          memGaps        \* addresses whose chunk could not be searched

memoryVars == <<memBytes, memRegions, memSession, memAllowed, memCall, memGaps>>

Addresses == 0..LastAddress
Region == [base : Addresses, size : 1..(LastAddress + 1),
           state : {"commit", "reserve"},
           protection : {"noaccess", "readonly", "readwrite"}]
Encodings == {"hex", "unknown"}
CellsOf(r) == r.base..(r.base + r.size - 1)
LeastOf(a, b) == IF a < b THEN a ELSE b

FitsAddress(a) == a <= LastAddress
FitsAddressRange(a, n) == n > 0 /\ FitsAddress(a) /\ n - 1 <= LastAddress - a

ASSUME MemoryAssumption ==
    /\ {LastAddress, MaxReadSize, MaxWriteSize} \subseteq Nat
    /\ {ReadChunk, SearchChunk} \subseteq Nat \ {0}

ASSUME SearchAssumption ==
    /\ Patterns \subseteq Seq(Bytes \cup {Wildcard})
    /\ Windows \subseteq Nat \X Nat /\ Limits \subseteq Nat

\* A memory map has no region twice, and none beyond the last address.
ASSUME RegionsAssumption ==
    \A regions \in StartRegions :
        /\ regions \subseteq Region
        /\ \A r \in regions : FitsAddressRange(r.base, r.size)
        /\ \A r, s \in regions : r # s => CellsOf(r) \cap CellsOf(s) = {}

GetMemoryInfo(a) == {r \in memRegions : a \in CellsOf(r)}
\* The memory map, which is in the order of addresses: see Foremost.
EnumerateRegions == memRegions
Foremost(regions) == CHOOSE r \in regions : \A s \in regions : r.base <= s.base
CanRead(a) == \E r \in GetMemoryInfo(a) : r.state = "commit" /\ r.protection # "noaccess"
CanWrite(a) == \E r \in GetMemoryInfo(a) : r.state = "commit" /\ r.protection = "readwrite"

\* DbgMemRead answers whether all of the range could be read.
DbgMemRead(a, n) == \A x \in a..(a + n - 1) : CanRead(x)
BytesAt(a, n) == [i \in 1..n |-> memBytes[a + i - 1]]

\* Only the first pointer of a range is looked at, and the last of a long one.
IsReadable(a, n) ==
    /\ FitsAddressRange(a, n) /\ CanRead(a)
    /\ n > ReadChunk /\ n < MaxReadSize => CanRead(a + n - 1)
IsWritable(a, n) ==
    /\ FitsAddressRange(a, n) /\ CanWrite(a)
    /\ n > ReadChunk /\ n < MaxWriteSize => CanWrite(a + n - 1)

NoMemoryCall == [step |-> "idle", addr |-> 0, size |-> 0, encoding |-> "hex",
                 buffer |-> <<>>, got |-> 0, pattern |-> <<>>, window |-> <<0, 0>>,
                 limit |-> 0, regions |-> {}, last |-> 0, carry |-> <<>>, found |-> <<>>]

MemoryInit ==
    /\ memRegions \in StartRegions
    /\ memBytes \in [Addresses -> Bytes]
    /\ \E right \in StartRights :
          memSession = right.session /\ memAllowed = right.write
    /\ memCall = NoMemoryCall
    /\ memGaps = {}

MemoryAt(step) == memCall.step = step
MemoryStep(call) == memCall' = call /\ UNCHANGED <<memSession, memAllowed>>
MemoryIdle == UNCHANGED <<memBytes, memRegions, memGaps>>
Failed == [memCall EXCEPT !.step = "failed"]

\* The debuggee, or its user, changes the protection of a region.
Protect(r, protection) ==
    /\ memCall.step \in {"read", "search"}
    /\ r \in memRegions /\ r.state = "commit"
    /\ memRegions' = (memRegions \ {r}) \cup {[r EXCEPT !.protection = protection]}
    /\ UNCHANGED <<memBytes, memSession, memAllowed, memCall, memGaps>>

-----------------------------------------------------------------------------
(* memory.read: the prefix that could be read, or an error when the deadline *)
(* has passed, nothing could be read or the encoding has no name.            *)

\* MemoryManager::Read up to its first chunk; the buffer starts as zeros.
Read(call) ==
    IF /\ memSession # "none" /\ call.size \in 1..MaxReadSize
       /\ FitsAddressRange(call.addr, call.size) /\ CanRead(call.addr)
    THEN [call EXCEPT !.step = "read", !.buffer = [i \in 1..call.size |-> 0]]
    ELSE Failed

MemoryRead(a, n, encoding) ==
    /\ MemoryAt("idle")
    /\ MemoryStep(Read([memCall EXCEPT !.addr = a, !.size = n, !.encoding = encoding]))
    /\ MemoryIdle

EncodeData(call) == IF call.encoding = "unknown" THEN Failed ELSE [call EXCEPT !.step = "ok"]

\* The answer once n bytes have been read.
ReadEnds(n) ==
    IF n = 0 THEN Failed
    ELSE EncodeData([memCall EXCEPT !.buffer = SubSeq(@, 1, n)])

ReadNextChunk ==
    /\ MemoryAt("read")
    /\ LET a == memCall.addr + memCall.got
           n == LeastOf(ReadChunk, memCall.size - memCall.got) IN
       MemoryStep(IF n = 0 \/ ~CanRead(a) \/ ~DbgMemRead(a, n) THEN ReadEnds(memCall.got)
                  ELSE [memCall EXCEPT !.got = @ + n,
                           !.buffer = [i \in 1..memCall.size |->
                               IF i - memCall.got \in 1..n THEN memBytes[memCall.addr + i - 1]
                               ELSE @[i]]])
    /\ MemoryIdle

ReadDeadline == MemoryAt("read") /\ MemoryStep(Failed) /\ MemoryIdle

-----------------------------------------------------------------------------
(* memory.get_info and memory.enumerate.                                     *)

\* A free range is a region of its own to VirtualQueryEx, so every address
\* of the target has an answer.
MemoryGetInfo(a) ==
    /\ MemoryAt("idle")
    /\ MemoryStep(IF memSession = "none" \/ ~FitsAddress(a) THEN Failed
                  ELSE [memCall EXCEPT !.step = "ok", !.addr = a,
                           !.regions = GetMemoryInfo(a)])
    /\ MemoryIdle

MemoryEnumerate ==
    /\ MemoryAt("idle")
    /\ MemoryStep(IF memSession = "none" THEN Failed
                  ELSE [memCall EXCEPT !.step = "ok", !.regions = EnumerateRegions])
    /\ MemoryIdle

-----------------------------------------------------------------------------
(* memory.write, memory.allocate and memory.free.                            *)

\* x64dbg writes what it can and answers whether that was everything.
DbgMemWrite(a, data) ==
    memBytes' = [x \in Addresses |->
        IF x \in a..(a + Len(data) - 1) /\ \A y \in a..x : CanWrite(y)
        THEN data[x - a + 1] ELSE memBytes[x]]

Write(a, data) ==
    IF memSession = "paused" /\ Len(data) \in 1..MaxWriteSize /\ IsWritable(a, Len(data))
    THEN /\ DbgMemWrite(a, data)
         /\ MemoryStep([memCall EXCEPT !.addr = a, !.got = Len(data),
               !.step = IF \A x \in a..(a + Len(data) - 1) : CanWrite(x)
                        THEN "ok" ELSE "failed"])
    ELSE MemoryStep(Failed) /\ UNCHANGED memBytes

\* Text of an unknown encoding decodes to an error.
DecodeData(data, encoding) == IF encoding = "unknown" THEN <<>> ELSE data

MemoryWrite(a, data, encoding) ==
    /\ MemoryAt("idle")
    /\ IF memAllowed /\ DecodeData(data, encoding) # <<>>
       THEN Write(a, DecodeData(data, encoding))
       ELSE MemoryStep(Failed) /\ UNCHANGED memBytes
    /\ UNCHANGED <<memRegions, memGaps>>

\* VirtualAllocEx places the block anywhere free, for reading and writing.
Allocate(n, a) ==
    LET r == [base |-> a, size |-> n, state |-> "commit", protection |-> "readwrite"] IN
    IF /\ memSession # "none" /\ FitsAddressRange(a, n)
       /\ \A s \in memRegions : CellsOf(s) \cap CellsOf(r) = {}
    THEN /\ memRegions' = memRegions \cup {r}
         /\ MemoryStep([memCall EXCEPT !.step = "ok", !.addr = a])
    ELSE MemoryStep(Failed) /\ UNCHANGED memRegions

MemoryAllocate(n, a) ==
    /\ MemoryAt("idle")
    /\ IF memAllowed /\ n > 0 THEN Allocate(n, a)
       ELSE MemoryStep(Failed) /\ UNCHANGED memRegions
    /\ UNCHANGED <<memBytes, memGaps>>

\* VirtualFreeEx releases a block by its base only.
Free(a) ==
    LET block == {r \in memRegions : r.base = a} IN
    IF FitsAddress(a) /\ memSession # "none" /\ block # {}
    THEN /\ memRegions' = memRegions \ block
         /\ MemoryStep([memCall EXCEPT !.step = "ok", !.addr = a])
    ELSE MemoryStep(Failed) /\ UNCHANGED memRegions

MemoryFree(a) ==
    /\ MemoryAt("idle")
    /\ IF memAllowed THEN Free(a) ELSE MemoryStep(Failed) /\ UNCHANGED memRegions
    /\ UNCHANGED <<memBytes, memGaps>>

-----------------------------------------------------------------------------
(* memory.search: the regions of a snapshot in address order, each in chunks *)
(* that carry the tail of the one before.                                    *)

MemorySearch(pattern, window, limit) ==
    /\ MemoryAt("idle")
    /\ MemoryStep(IF memSession # "none" /\ pattern # <<>>
                     /\ FitsAddress(window[1]) /\ FitsAddress(window[2])
                  THEN [memCall EXCEPT !.step = "region", !.pattern = pattern,
                           !.window = window, !.limit = limit,
                           !.regions = EnumerateRegions]
                  ELSE Failed)
    /\ MemoryIdle

Full == Len(memCall.found) >= memCall.limit

\* The part of a region inside the window; a bound of 0 is no bound.
SearchStart(r, window) ==
    IF window[1] > r.base THEN window[1] ELSE r.base
SearchEnd(r, window) ==
    IF window[2] > 0 THEN LeastOf(window[2], r.base + r.size) ELSE r.base + r.size
Searched(r, window) ==
    /\ r.state = "commit"
    /\ window[1] > 0 => r.base + r.size > window[1]
    /\ window[2] > 0 => r.base < window[2]

SearchRegion ==
    /\ MemoryAt("region")
    /\ IF memCall.regions = {} \/ Full
       THEN MemoryStep([memCall EXCEPT !.step = "ok"]) /\ UNCHANGED memGaps
       ELSE LET r == Foremost(memCall.regions)
                first == SearchStart(r, memCall.window)
                last == SearchEnd(r, memCall.window)
                next == [memCall EXCEPT !.regions = @ \ {r}] IN
            IF ~Searched(r, memCall.window) THEN MemoryStep(next) /\ UNCHANGED memGaps
            ELSE IF IsReadable(first, LeastOf(ReadChunk, last - first))
            THEN /\ MemoryStep([next EXCEPT !.step = "search", !.addr = first,
                                            !.last = last, !.carry = <<>>])
                 /\ UNCHANGED memGaps
            ELSE MemoryStep(next) /\ memGaps' = memGaps \cup (first..(last - 1))
    /\ UNCHANGED <<memBytes, memRegions>>

MatchPattern(data, i, pattern) ==
    \A j \in 1..Len(pattern) : pattern[j] \in {Wildcard, data[i + j - 1]}

\* The i-th place of a buffer that begins at a; then all of them, one after
\* the other, until the limit is reached.
LookAt(i, found, buffer, a, call) ==
    IF /\ i - 1 + Len(call.pattern) <= Len(buffer)
       /\ Len(found) < call.limit
       /\ MatchPattern(buffer, i, call.pattern)
    THEN Append(found, a + i - 1)
    ELSE found
FoundIn(buffer, a, call) ==
    LET found[i \in 0..Len(buffer)] ==
            IF i = 0 THEN call.found ELSE LookAt(i, found[i - 1], buffer, a, call)
    IN  found[Len(buffer)]

\* Mutant: one byte too many is carried over.
CarryAll(buffer, pattern) ==
    LET overlap == LeastOf(Len(pattern), Len(buffer)) IN
    SubSeq(buffer, Len(buffer) - overlap + 1, Len(buffer))

CarryOver(buffer, pattern) ==
    LET overlap == LeastOf(Len(pattern) - 1, Len(buffer)) IN
    SubSeq(buffer, Len(buffer) - overlap + 1, Len(buffer))

\* A chunk that cannot be read breaks contiguity.
SearchNextChunk ==
    /\ MemoryAt("search")
    /\ LET n == LeastOf(SearchChunk, memCall.last - memCall.addr)
           buffer == memCall.carry \o BytesAt(memCall.addr, n)
           next == [memCall EXCEPT !.addr = @ + n] IN
       IF n <= 0 \/ Full
       THEN MemoryStep([memCall EXCEPT !.step = "region"]) /\ UNCHANGED memGaps
       ELSE IF ~DbgMemRead(memCall.addr, n)
       THEN /\ MemoryStep([next EXCEPT !.carry = <<>>])
            /\ memGaps' = memGaps \cup (memCall.addr..(memCall.addr + n - 1))
       ELSE /\ MemoryStep([next EXCEPT !.carry = CarryOver(buffer, memCall.pattern),
                  !.found = FoundIn(buffer, memCall.addr - Len(memCall.carry), memCall)])
            /\ UNCHANGED memGaps
    /\ UNCHANGED <<memBytes, memRegions>>

-----------------------------------------------------------------------------
MemoryNext ==
    \/ /\ MemoryAt("idle")
       /\ \E a \in 0..(LastAddress + 1) :
             \/ \E n \in 0..(MaxReadSize + 1), e \in Encodings : MemoryRead(a, n, e)
             \/ \E n \in 0..(MaxWriteSize + 1), b \in Bytes, e \in Encodings :
                   MemoryWrite(a, [i \in 1..n |-> b], e)
             \/ \E n \in 0..2 : MemoryAllocate(n, a)
             \/ MemoryFree(a) \/ MemoryGetInfo(a)
    \/ MemoryEnumerate
    \/ /\ MemoryAt("idle")
       /\ \E p \in Patterns, w \in Windows, limit \in Limits : MemorySearch(p, w, limit)
    \/ ReadNextChunk \/ ReadDeadline
    \/ SearchRegion \/ SearchNextChunk
    \/ \E r \in memRegions, p \in {"noaccess", "readwrite"} : Protect(r, p)

MemorySpec == MemoryInit /\ [][MemoryNext]_memoryVars

-----------------------------------------------------------------------------
(* Properties.                                                               *)

\* What a search should find: every place of a searched region, inside the
\* window, that matches and touches no chunk that could not be read.
ShouldFind ==
    {a \in Addresses : \E r \in memRegions :
        /\ Searched(r, memCall.window)
        /\ a >= SearchStart(r, memCall.window)
        /\ a + Len(memCall.pattern) <= SearchEnd(r, memCall.window)
        /\ (a..(a + Len(memCall.pattern) - 1)) \cap memGaps = {}
        /\ MatchPattern(memBytes, a, memCall.pattern)}

\* A finished search reports every match once, in address order, or the first
\* ones up to its limit: those that span two chunks or more too, and none over
\* a gap.
SearchFindsEachOnce ==
    MemoryAt("ok") /\ memCall.pattern # <<>> =>
        LET found == memCall.found IN
        /\ \A i, j \in DOMAIN found : i < j => found[i] < found[j]
        /\ \A i \in DOMAIN found : found[i] \in ShouldFind
        /\ Len(found) <= memCall.limit
        /\ \A a \in ShouldFind :
              \/ \E i \in DOMAIN found : found[i] = a
              \/ Len(found) = memCall.limit /\ \A i \in DOMAIN found : found[i] < a

\* A read answers with bytes of the debuggee only: the ones from its address
\* on, all that were asked for or a whole number of chunks, never the
\* unwritten rest of its buffer.
ReadIsPrefix ==
    MemoryAt("ok") /\ memCall.size > 0 =>
        /\ memCall.buffer = BytesAt(memCall.addr, Len(memCall.buffer))
        /\ \/ Len(memCall.buffer) = memCall.size
           \/ Len(memCall.buffer) > 0 /\ Len(memCall.buffer) % ReadChunk = 0

\* Both: an answer about memory says what the memory holds, no more and no less.
MemoryAnswersAreExact == SearchFindsEachOnce /\ ReadIsPrefix
=============================================================================
