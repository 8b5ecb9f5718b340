------------------------- MODULE EventStreamsProofs -------------------------
(***************************************************************************)
(* Proofs about EventStreams for every set of streams, every number of     *)
(* parts of a frame and every number of frames: no frame is split by       *)
(* another, nobody writes to a closed stream, and the client of a legacy   *)
(* stream is told its session first, and by then the server knows it.      *)
(***************************************************************************)
EXTENDS EventStreams, TLAPS

FrameKinds == {"endpoint", "ping", "message", "notification"}
FramesSet == [frame : Nat \ {0}, to : Streams, kind : FrameKinds, part : 0..Parts]
PiecesSet == [frame : Nat \ {0}, kind : FrameKinds, part : 1..Parts]
StreamPlaces == {"headers", "register", "endpoint", "loop", "beat", "reply", "leave", "gone"}
Served == {"endpoint", "loop", "beat", "reply", "leave"}

-----------------------------------------------------------------------------
(* The frames and what of them is on the wire.                             *)

WireTypes ==
    /\ sseSending \in [Writers -> FramesSet \cup {NoFrame}]
    /\ sseWire \in [Streams -> Seq(PiecesSet)]
    /\ sseFrames \in Nat

\* What a frame in flight has left on its wire: nothing, or its last entry.
LeftBy(f) ==
    /\ f.frame <= sseFrames
    /\ f.part = 0 => \A i \in DOMAIN sseWire[f.to] : sseWire[f.to][i].frame # f.frame
    /\ f.part > 0 => LET n == Len(sseWire[f.to])
                     IN  /\ n > 0 /\ sseWire[f.to][n].frame = f.frame
                         /\ sseWire[f.to][n].part = f.part

OneWriter ==
    \A v, w \in Writers : sseSending[v] # NoFrame /\ sseSending[w] # NoFrame => v = w

WireInv ==
    /\ WireTypes /\ OneWriter /\ FramesDoNotInterleave
    /\ \A s \in Streams : \A i \in DOMAIN sseWire[s] : sseWire[s][i].frame <= sseFrames
    /\ \A w \in Writers : sseSending[w] # NoFrame => LeftBy(sseSending[w])

LEMMA NoFrameApart == NoFrame \notin FramesSet
  BY DEF NoFrame, FramesSet

LEMMA Pieces ==
  ASSUME WireInv, NEW t \in Streams, NEW i \in DOMAIN sseWire[t]
  PROVE  /\ sseWire[t][i] \in PiecesSet /\ sseWire[t][i].frame \in Nat
         /\ sseWire[t][i].part \in Nat /\ sseWire[t][i].frame <= sseFrames
<1>1. sseWire[t] \in Seq(PiecesSet)
  BY DEF WireInv, WireTypes
<1>2. sseWire[t][i] \in PiecesSet
  BY <1>1
<1> QED
  BY <1>2 DEF WireInv, PiecesSet

LEMMA WireBegin ==
  ASSUME WireInv, NEW w \in Writers, NEW s \in Streams, NEW k \in FrameKinds,
         BeginFrame(w, s, k), sseWire' = sseWire
  PROVE  WireInv'
<1> DEFINE f == [frame |-> sseFrames + 1, to |-> s, kind |-> k, part |-> 0]
<1>1. /\ \A v \in Writers : sseSending[v] = NoFrame
      /\ sseFrames' = sseFrames + 1 /\ sseSending' = [sseSending EXCEPT ![w] = f]
  BY DEF BeginFrame, SendFree
<1>2. f \in FramesSet /\ f # NoFrame
  BY PartsAssumption DEF FramesSet, WireInv, WireTypes, NoFrame
<1>3. sseSending'[w] = f /\ \A v \in Writers \ {w} : sseSending'[v] = NoFrame
  BY <1>1 DEF WireInv, WireTypes
<1>4. WireTypes'
  BY <1>1, <1>2 DEF WireInv, WireTypes
<1>5. OneWriter'
  BY <1>3 DEF OneWriter
<1>6. FramesDoNotInterleave'
  BY DEF WireInv, FramesDoNotInterleave
<1>7. \A t \in Streams : \A i \in DOMAIN sseWire[t] :
        /\ sseWire[t][i].frame \in Nat /\ sseWire[t][i].frame <= sseFrames
  BY Pieces
<1>8. \A t \in Streams : \A i \in DOMAIN sseWire'[t] : sseWire'[t][i].frame <= sseFrames'
  BY <1>1, <1>7 DEF WireInv, WireTypes
<1>9. f.frame = sseFrames + 1 /\ f.part = 0 /\ f.to = s
  OBVIOUS
<1>10. sseFrames \in Nat /\ \A i \in DOMAIN sseWire'[s] : sseWire'[s][i].frame # sseFrames + 1
  BY <1>1, <1>7 DEF WireInv, WireTypes
<1>11. LeftBy(sseSending[w])'
  BY <1>1, <1>3, <1>9, <1>10 DEF LeftBy
<1> QED
  BY <1>3, <1>4, <1>5, <1>6, <1>8, <1>11 DEF WireInv

LEMMA WireEnd ==
  ASSUME WireInv, NEW w \in Writers, NEW success, EndFrame(w, success)
  PROVE  WireInv'
<1>1. /\ sseSending' = [sseSending EXCEPT ![w] = NoFrame]
      /\ UNCHANGED <<sseWire, sseFrames>>
  BY DEF EndFrame
<1>2. \A v \in Writers : sseSending'[v] # NoFrame => sseSending'[v] = sseSending[v]
  BY <1>1 DEF WireInv, WireTypes
<1>3. WireTypes' /\ OneWriter' /\ FramesDoNotInterleave'
  BY <1>1, <1>2 DEF WireInv, WireTypes, OneWriter, FramesDoNotInterleave
<1> QED
  BY <1>1, <1>2, <1>3 DEF WireInv, LeftBy

LEMMA WireUnchanged == ASSUME WireInv, NotSending PROVE WireInv'
  BY DEF NotSending, WireInv, WireTypes, OneWriter, FramesDoNotInterleave, LeftBy

\* A frame's next part comes right behind its last one.
LEMMA WirePart ==
  ASSUME WireInv, NEW w \in Writers, SendPart(w)
  PROVE  WireInv'
<1> DEFINE f == sseSending[w]
           s == f.to
           n == Len(sseWire[s])
           r == [frame |-> f.frame, kind |-> f.kind, part |-> f.part + 1]
           g == [f EXCEPT !.part = @ + 1]
<1>1. /\ f # NoFrame /\ f.part < Parts /\ sseFrames' = sseFrames
      /\ sseWire' = [sseWire EXCEPT ![s] = Append(@, r)]
      /\ sseSending' = [sseSending EXCEPT ![w] = g]
  BY DEF SendPart
<1>2. f \in FramesSet /\ s \in Streams /\ f.part \in Nat /\ f.frame \in Nat
  BY <1>1 DEF WireInv, WireTypes, FramesSet
<1>3. /\ g \in FramesSet /\ g.frame = f.frame /\ g.to = s /\ g.part = f.part + 1
      /\ g.frame # 0
  BY <1>1, <1>2, PartsAssumption DEF FramesSet
<1>4. r \in PiecesSet /\ r.frame = f.frame /\ r.part = f.part + 1
  BY <1>1, <1>2, PartsAssumption DEF FramesSet, PiecesSet
<1>5. n \in Nat /\ sseWire[s] \in Seq(PiecesSet) /\ DOMAIN sseWire[s] = 1..n
  BY <1>2 DEF WireInv, WireTypes
<1>6. /\ Len(sseWire'[s]) = n + 1 /\ DOMAIN sseWire'[s] = 1..(n + 1)
      /\ sseWire'[s][n + 1] = r
      /\ \A i \in 1..n : sseWire'[s][i] = sseWire[s][i]
      /\ \A t \in Streams \ {s} : sseWire'[t] = sseWire[t]
      /\ sseWire' \in [Streams -> Seq(PiecesSet)]
  <2> HIDE DEF r
  <2>1. sseWire'[s] = Append(sseWire[s], r)
    BY <1>1, <1>2 DEF WireInv, WireTypes
  <2>2. \A t \in Streams \ {s} : sseWire'[t] = sseWire[t]
    BY <1>1, <1>2 DEF WireInv, WireTypes
  <2>3. sseWire' \in [Streams -> Seq(PiecesSet)]
    BY <1>1, <1>2, <1>4, <1>5 DEF WireInv, WireTypes
  <2> QED
    BY <2>1, <2>2, <2>3, <1>5, <1>4
<1>7. sseSending'[w] = g /\ \A v \in Writers \ {w} : sseSending'[v] = NoFrame
  BY <1>1 DEF WireInv, WireTypes, OneWriter
<1>8. sseSending' \in [Writers -> FramesSet \cup {NoFrame}]
  BY <1>1, <1>3 DEF WireInv, WireTypes
<1>9. LeftBy(f)
  BY <1>1 DEF WireInv
<1> HIDE DEF f, s, n, r, g
<1>10. WireTypes' /\ OneWriter'
  BY <1>1, <1>6, <1>7, <1>8 DEF WireInv, WireTypes, OneWriter
<1>11. LeftBy(sseSending[w])'
  <2>1. f.frame <= sseFrames' /\ g.part # 0 /\ n + 1 > 0
    BY <1>1, <1>2, <1>3, <1>5, <1>9 DEF LeftBy
  <2> QED
    BY <2>1, <1>3, <1>4, <1>6, <1>7 DEF LeftBy
<1>12. \A t \in Streams : \A i \in DOMAIN sseWire'[t] : sseWire'[t][i].frame <= sseFrames'
  <2> TAKE t \in Streams
  <2>1. CASE t = s
    BY <2>1, <1>1, <1>2, <1>4, <1>5, <1>6, <1>9, Pieces DEF LeftBy
  <2> QED
    BY <2>1, <1>1, <1>6, Pieces
<1>13. FramesDoNotInterleave'
  <2>1. \A i \in 1..n : sseWire[s][i].frame = f.frame =>
                            n - i = f.part - sseWire[s][i].part
    <3> TAKE i \in 1..n
    <3> HAVE sseWire[s][i].frame = f.frame
    <3>1. f.part > 0 /\ n > 0 /\ sseWire[s][n].frame = f.frame /\ sseWire[s][n].part = f.part
      BY <1>2, <1>5, <1>9 DEF LeftBy, s, n
    <3> QED
      BY <3>1, <1>2, <1>5 DEF WireInv, FramesDoNotInterleave
  <2>2. ASSUME NEW t \in Streams, NEW i \in DOMAIN sseWire'[t], NEW j \in DOMAIN sseWire'[t],
               sseWire'[t][i].frame = sseWire'[t][j].frame
        PROVE  j - i = sseWire'[t][j].part - sseWire'[t][i].part
    <3>1. CASE t # s
      <4>1. sseWire'[t] = sseWire[t]
        BY <3>1, <1>6
      <4>2. FramesDoNotInterleave
        BY DEF WireInv
      <4> QED
        BY <4>1, <4>2, <2>2 DEF FramesDoNotInterleave
    <3>2. CASE t = s /\ i \in 1..n /\ j \in 1..n
      <4>1. sseWire'[t][i] = sseWire[s][i] /\ sseWire'[t][j] = sseWire[s][j]
        BY <3>2, <1>6
      <4> QED
        BY <4>1, <3>2, <2>2, <1>2, <1>5 DEF WireInv, FramesDoNotInterleave
    <3>3. CASE t = s /\ i \in 1..n /\ j = n + 1
      <4>1. sseWire'[t][i] = sseWire[s][i] /\ sseWire'[t][j] = r
        BY <3>3, <1>6
      <4>2. sseWire[s][i].part \in Nat
        BY <3>3, <1>2, <1>5, Pieces
      <4>3. n - i = f.part - sseWire[s][i].part
        BY <4>1, <3>3, <2>1, <2>2, <1>4
      <4> QED
        BY <4>1, <4>2, <4>3, <3>3, <1>2, <1>4, <1>5
    <3>4. CASE t = s /\ i = n + 1 /\ j \in 1..n
      <4>1. sseWire'[t][j] = sseWire[s][j] /\ sseWire'[t][i] = r
        BY <3>4, <1>6
      <4>2. sseWire[s][j].part \in Nat
        BY <3>4, <1>2, <1>5, Pieces
      <4>3. n - j = f.part - sseWire[s][j].part
        BY <4>1, <3>4, <2>1, <2>2, <1>4
      <4> QED
        BY <4>1, <4>2, <4>3, <3>4, <1>2, <1>4, <1>5
    <3>5. CASE t = s /\ i = n + 1 /\ j = n + 1
      BY <3>5, <1>2, <1>4, <1>6
    <3> QED
      BY <3>1, <3>2, <3>3, <3>4, <3>5, <2>2, <1>5, <1>6
  <2> QED
    BY <2>2 DEF FramesDoNotInterleave
<1> QED
  BY <1>7, <1>10, <1>11, <1>12, <1>13 DEF WireInv

-----------------------------------------------------------------------------
(* The registry, its holder, and who writes for it.                        *)

Serving == {s \in Streams : sseTask[s] \in Served}

RegistryInv ==
    /\ sseTask \in [Streams -> StreamPlaces]
    /\ sseRegistered = Serving /\ sseSessions = Serving \cap Legacy
    /\ \A s \in Streams : sseTask[s] = "endpoint" <=> sseRegistry = s
    /\ \A s \in Streams : sseRegistry = s => s \in Legacy
    /\ sseRegistry = "broadcast" => ssePending \subseteq Serving
    /\ ssePost \in [at : {"idle", "call", "push", "unknown"}, to : Streams \cup {"nobody"}]
    /\ ssePost.at # "idle" => ssePost.to \in Streams
    /\ ssePost.at = "push" => sseRegistry = "post" /\ ssePost.to \in sseSessions

Owns(w, f) ==
    /\ f.kind = "endpoint" => f.to \in Legacy
    /\ w \in Streams => /\ f.to = w /\ sseTask[w] \in {"endpoint", "beat", "reply"}
                        /\ sseTask[w] = "endpoint" => f.kind = "endpoint"
    /\ w = "broadcast" => sseRegistry = "broadcast" /\ f.to \in ssePending
    /\ w = "post" => ssePost.at = "push" /\ f.to = ssePost.to

OwnerInv == \A w \in Writers : sseSending[w] # NoFrame => Owns(w, sseSending[w])

\* What a client has read.
ReadInv ==
    /\ EndpointComesFirst /\ AnnouncedSessionIsKnown
    /\ \A s \in Streams : sseWire[s] # <<>> => sseTask[s] \notin {"headers", "register"}
    /\ \A s \in Legacy : sseTask[s] \in {"loop", "beat", "reply", "leave"} => sseWire[s] # <<>>
    /\ \A s \in Streams : \A i \in DOMAIN sseWire[s] :
          sseWire[s][i].kind = "endpoint" => s \in Legacy

StreamsInv == WireInv /\ RegistryInv /\ OwnerInv /\ ReadInv

\* A frame in flight goes to a stream that is being served.
LEMMA FrameServed ==
  ASSUME StreamsInv, NEW w \in Writers, sseSending[w] # NoFrame
  PROVE  sseSending[w].to \in Serving
  BY DEF StreamsInv, RegistryInv, OwnerInv, Owns, Serving, Served, Writers

\* While its task holds the registry, a stream only gets its own endpoint.
LEMMA FirstFrame ==
  ASSUME StreamsInv, NEW w \in Writers, sseSending[w] # NoFrame,
         sseSending[w].to \in Legacy, sseWire[sseSending[w].to] = <<>>
  PROVE  sseSending[w].kind = "endpoint"
<1>1. sseTask[sseSending[w].to] = "endpoint" /\ sseRegistry = sseSending[w].to
  BY FrameServed, LegacyAssumption DEF StreamsInv, RegistryInv, ReadInv, Serving, Served
<1> QED
  BY <1>1, NamesAssumption, LegacyAssumption DEF StreamsInv, RegistryInv, OwnerInv, Owns, Writers

LEMMA StreamTaskStep ==
  ASSUME StreamsInv, NEW s \in Streams, StreamTask(s)
  PROVE  StreamsInv'
<1> USE LegacyAssumption, NamesAssumption DEF StreamsInv, Writers
<1>1. ASSUME HeadersSent(s) \/ RegisterPlain(s) \/ Leaves(s) \/ Withdraws(s) \/ RegisterLegacy(s)
      PROVE  StreamsInv'
  <2> USE <1>1 DEF HeadersSent, RegisterPlain, Leaves, Withdraws, RegisterLegacy, Moves
  <2>1. WireInv'
    BY WireUnchanged
  <2>2. RegistryInv'
    BY DEF RegistryInv, Serving, Served, StreamPlaces
  <2>3. OwnerInv'
    BY DEF OwnerInv, Owns, RegistryInv, NotSending
  <2>4. ReadInv'
    BY DEF ReadInv, NotSending, EndpointComesFirst, AnnouncedSessionIsKnown, RegistryInv, Serving, Served
  <2> QED
    BY <2>1, <2>2, <2>3, <2>4
<1>2. ASSUME AnnounceBegins(s) \/ Writes(s)
      PROVE  StreamsInv'
  <2> USE <1>2 DEF AnnounceBegins, Writes, Moves
  <2>1. PICK k \in FrameKinds : BeginFrame(s, s, k) /\ (sseTask[s] = "endpoint" => k = "endpoint")
                                /\ (k = "endpoint" => sseTask[s] = "endpoint")
    BY DEF FrameKinds
  <2>2. WireInv'
    BY <2>1, WireBegin
  <2>3. RegistryInv'
    BY DEF RegistryInv, Serving, Served, StreamPlaces
  <2>4. OwnerInv'
    BY <2>1 DEF BeginFrame, SendFree, OwnerInv, Owns, RegistryInv, WireInv, WireTypes
  <2>5. ReadInv'
    BY DEF ReadInv, EndpointComesFirst, AnnouncedSessionIsKnown, RegistryInv
  <2> QED
    BY <2>2, <2>3, <2>4, <2>5
<1>3. ASSUME Announced(s) \/ AnnounceFails(s) \/ Wrote(s)
      PROVE  StreamsInv'
  <2> USE <1>3 DEF Announced, AnnounceFails, Wrote, Moves
  <2>1. PICK success \in BOOLEAN : EndFrame(s, success) /\ (Announced(s) => success)
    OBVIOUS
  <2>2. WireInv'
    BY <2>1, WireEnd
  <2>3. RegistryInv'
    <3>1. CASE Announced(s)
      BY <3>1 DEF RegistryInv, Serving, Served, StreamPlaces
    <3>2. CASE AnnounceFails(s)
      BY <3>2 DEF RegistryInv, Serving, Served, StreamPlaces
    <3>3. CASE Wrote(s)
      BY <3>3 DEF RegistryInv, Serving, Served, StreamPlaces
    <3> QED
      BY <3>1, <3>2, <3>3
  <2>4. OwnerInv'
    BY <2>1 DEF EndFrame, OwnerInv, Owns, RegistryInv, WireInv, WireTypes
  <2>5. sseWire' = sseWire /\ (Announced(s) => sseWire[s] # <<>>)
    <3>1. sseWire' = sseWire
      BY <2>1 DEF EndFrame
    <3>2. CASE Announced(s)
      <4>1. /\ sseSending[s] # NoFrame /\ sseSending[s].part = Parts
            /\ sseTask[s] = "endpoint"
        BY <3>2, <2>1 DEF EndFrame
      <4>2. LeftBy(sseSending[s]) /\ Owns(s, sseSending[s])
        BY <4>1 DEF WireInv, OwnerInv, Writers
      <4>3. sseSending[s].to = s /\ sseSending[s].part > 0
        BY <4>1, <4>2, PartsAssumption DEF Owns
      <4>4. Len(sseWire[s]) > 0
        BY <4>2, <4>3 DEF LeftBy
      <4>5. sseWire[s] # <<>>
        BY ONLY <4>4
      <4> QED
        BY <3>1, <4>5
    <3> QED
      BY <3>1, <3>2
  <2>6. ReadInv'
    <3>1. EndpointComesFirst'
      BY <2>5 DEF ReadInv, EndpointComesFirst
    <3>2. AnnouncedSessionIsKnown'
      BY DEF ReadInv, AnnouncedSessionIsKnown, RegistryInv
    <3>3. \A u \in Streams : sseWire'[u] # <<>> => sseTask'[u] \notin {"headers", "register"}
      BY <2>5 DEF ReadInv, RegistryInv
    <3>4. \A u \in Legacy : sseTask'[u] \in {"loop", "beat", "reply", "leave"}
                            => sseWire'[u] # <<>>
      BY <2>5 DEF ReadInv, RegistryInv
    <3> QED
      BY <2>5, <3>1, <3>2, <3>3, <3>4 DEF ReadInv
  <2> QED
    BY <2>2, <2>3, <2>4, <2>6
<1> QED
  BY <1>1, <1>2, <1>3 DEF StreamTask

\* send() is called: the only step that changes what a client reads.
LEMMA PartStep ==
  ASSUME StreamsInv, NEW w \in Writers, SendPart(w)
  PROVE  StreamsInv'
<1> DEFINE t == sseSending[w].to
<1> USE LegacyAssumption, NamesAssumption DEF StreamsInv
<1>1. /\ sseSending[w] # NoFrame
      /\ UNCHANGED <<sseTask, sseRegistered, sseSessions, sseRegistry, ssePending, ssePost>>
      /\ sseWire' = [sseWire EXCEPT ![t] =
                        Append(@, [frame |-> sseSending[w].frame, kind |-> sseSending[w].kind,
                                   part |-> sseSending[w].part + 1])]
      /\ sseSending' = [sseSending EXCEPT ![w] =
                           [sseSending[w] EXCEPT !.part = sseSending[w].part + 1]]
  BY DEF SendPart
<1>2. t \in Serving /\ t \in Streams /\ sseWire[t] \in Seq(PiecesSet)
  BY <1>1, FrameServed DEF Serving, WireInv, WireTypes
<1>3. WireInv'
  BY WirePart
<1>4. RegistryInv'
  BY <1>1 DEF RegistryInv, Serving
<1>5. OwnerInv'
  <2>1. sseSending[w] \in FramesSet
    BY <1>1 DEF WireInv, WireTypes
  <2>2. /\ sseSending'[w].kind = sseSending[w].kind /\ sseSending'[w].to = sseSending[w].to
        /\ \A v \in Writers \ {w} : sseSending'[v] = sseSending[v]
    BY <1>1, <2>1 DEF WireInv, WireTypes, FramesSet
  <2> QED
    BY <1>1, <2>2 DEF OwnerInv, Owns
<1>6. /\ \A s \in Streams \ {t} : sseWire'[s] = sseWire[s]
      /\ sseWire'[t] # <<>> /\ DOMAIN sseWire'[t] = 1..(Len(sseWire[t]) + 1)
      /\ sseWire'[t][Len(sseWire[t]) + 1].kind = sseSending[w].kind
      /\ \A i \in 1..Len(sseWire[t]) : sseWire'[t][i] = sseWire[t][i]
      /\ DOMAIN sseWire[t] = 1..Len(sseWire[t]) /\ Len(sseWire[t]) \in Nat
  <2> DEFINE r == [frame |-> sseSending[w].frame, kind |-> sseSending[w].kind,
                   part |-> sseSending[w].part + 1]
  <2>1. sseWire'[t] = Append(sseWire[t], r) /\ r.kind = sseSending[w].kind
        /\ \A s \in Streams \ {t} : sseWire'[s] = sseWire[s]
    BY <1>1, <1>2 DEF WireInv, WireTypes
  <2> HIDE DEF r
  <2> QED
    BY <2>1, <1>2
<1>7. EndpointComesFirst'
  <2>1. CASE sseWire[t] = <<>>
    BY <2>1, <1>1, <1>2, <1>6, FirstFrame DEF ReadInv, EndpointComesFirst
  <2>2. CASE sseWire[t] # <<>>
    <3>1. 1 \in 1..Len(sseWire[t])
      BY <2>2, <1>2
    <3> QED
      BY <3>1, <2>2, <1>2, <1>6 DEF ReadInv, EndpointComesFirst
  <2> QED
    BY <2>1, <2>2
<1>8. \A s \in Streams : \A i \in DOMAIN sseWire'[s] :
        sseWire'[s][i].kind = "endpoint" => s \in Legacy
  <2>1. sseSending[w].kind = "endpoint" => t \in Legacy
    BY <1>1 DEF OwnerInv, Owns
  <2> TAKE s \in Streams
  <2>2. CASE s # t
    BY <2>2, <1>6 DEF ReadInv
  <2>3. CASE s = t
    <3> TAKE i \in DOMAIN sseWire'[s]
    <3>1. i \in 1..Len(sseWire[t]) \/ i = Len(sseWire[t]) + 1
      BY <2>3, <1>6
    <3>2. i = Len(sseWire[t]) + 1 => sseWire'[s][i].kind = sseSending[w].kind
      BY <2>3, <1>6
    <3>3. i \in 1..Len(sseWire[t]) => i \in DOMAIN sseWire[s] /\ sseWire'[s][i] = sseWire[s][i]
      BY <2>3, <1>6
    <3> QED
      BY <2>1, <2>3, <3>1, <3>2, <3>3 DEF ReadInv
  <2> QED
    BY <2>2, <2>3
<1> HIDE DEF t
<1>9. ReadInv'
  BY <1>1, <1>2, <1>6, <1>7, <1>8 DEF ReadInv, AnnouncedSessionIsKnown, Serving, Served
<1> QED
  BY <1>3, <1>4, <1>5, <1>9

LEMMA NotificationStep ==
  ASSUME StreamsInv,
         NotificationBegins \/ NotificationWrote \/ (\E s \in Streams : NotificationWrites(s))
  PROVE  StreamsInv'
<1> USE LegacyAssumption, NamesAssumption DEF StreamsInv, Writers
<1>1. CASE NotificationBegins
  <2> USE <1>1 DEF NotificationBegins
  <2>1. WireInv'
    BY WireUnchanged
  <2>2. RegistryInv' /\ OwnerInv'
    BY DEF RegistryInv, Serving, OwnerInv, Owns, NotSending
  <2>3. ReadInv'
    BY DEF ReadInv, NotSending, EndpointComesFirst, AnnouncedSessionIsKnown
  <2> QED
    BY <2>1, <2>2, <2>3
<1>2. CASE \E s \in Streams : NotificationWrites(s)
  <2>1. PICK s \in Streams : NotificationWrites(s)
    BY <1>2
  <2>2. BeginFrame("broadcast", s, "notification")
    BY <2>1 DEF NotificationWrites
  <2>3. WireInv'
    BY <2>1, <2>2, WireBegin DEF NotificationWrites, FrameKinds
  <2>4. RegistryInv'
    BY <2>1 DEF RegistryInv, Serving, NotificationWrites
  <2>5. OwnerInv'
    BY <2>1, <2>2 DEF BeginFrame, SendFree, OwnerInv, Owns, NotificationWrites, WireInv, WireTypes
  <2>6. ReadInv'
    BY <2>1 DEF NotificationWrites, ReadInv, EndpointComesFirst, AnnouncedSessionIsKnown
  <2> QED
    BY <2>3, <2>4, <2>5, <2>6
<1>3. CASE NotificationWrote
  <2>1. PICK success \in BOOLEAN : EndFrame("broadcast", success)
    BY <1>3 DEF NotificationWrote
  <2>2. WireInv'
    BY <2>1, WireEnd
  <2>3. sseRegistry = "broadcast" /\ sseSending["broadcast"] # NoFrame
    BY <2>1 DEF EndFrame, OwnerInv, Owns
  <2>4. RegistryInv'
    BY <1>3, <2>3 DEF RegistryInv, Serving, NotificationWrote
  <2>5. OwnerInv'
    BY <1>3, <2>1, <2>3 DEF EndFrame, OwnerInv, Owns, NotificationWrote, RegistryInv, WireInv,
       WireTypes, OneWriter
  <2>6. ReadInv'
    BY <1>3, <2>1 DEF EndFrame, NotificationWrote, ReadInv, EndpointComesFirst, AnnouncedSessionIsKnown
  <2> QED
    BY <2>2, <2>4, <2>5, <2>6
<1> QED
  BY <1>1, <1>2, <1>3

LEMMA PostStep ==
  ASSUME StreamsInv,
         PostFinds \/ PostWrites \/ PostWrote \/ PostRefused \/ (\E s \in Streams : PostLooks(s))
  PROVE  StreamsInv'
<1> USE LegacyAssumption, NamesAssumption DEF StreamsInv, Writers
<1>1. CASE \E s \in Streams : PostLooks(s)
  <2>1. PICK s \in Streams : PostLooks(s)
    BY <1>1
  <2> USE <2>1 DEF PostLooks
  <2>2. WireInv'
    BY WireUnchanged
  <2>3. RegistryInv' /\ OwnerInv'
    BY DEF RegistryInv, Serving, OwnerInv, Owns, NotSending
  <2>4. s \in sseSessions \/ sseTask[s] = "gone"
    BY DEF Told, ReadInv, RegistryInv, Serving, Served, StreamPlaces
  <2>5. ReadInv'
    BY <2>4 DEF ReadInv, NotSending, EndpointComesFirst, AnnouncedSessionIsKnown
  <2> QED
    BY <2>2, <2>3, <2>5
<1>2. CASE PostFinds \/ PostRefused
  <2> USE <1>2 DEF PostFinds, PostRefused, NoPost
  <2>1. WireInv'
    BY WireUnchanged
  <2>2. RegistryInv' /\ OwnerInv'
    BY DEF RegistryInv, Serving, OwnerInv, Owns, NotSending
  <2>3. ReadInv'
    BY DEF ReadInv, NotSending, EndpointComesFirst, AnnouncedSessionIsKnown, RegistryInv
  <2> QED
    BY <2>1, <2>2, <2>3
<1>3. CASE PostWrites
  <2> USE <1>3 DEF PostWrites
  <2>1. BeginFrame("post", ssePost.to, "message") /\ ssePost.to \in Streams
    BY DEF RegistryInv
  <2>2. WireInv'
    BY <2>1, WireBegin DEF FrameKinds
  <2>3. RegistryInv'
    BY DEF RegistryInv, Serving
  <2>4. OwnerInv'
    BY <2>1 DEF BeginFrame, SendFree, OwnerInv, Owns, WireInv, WireTypes
  <2>5. ReadInv'
    BY DEF ReadInv, EndpointComesFirst, AnnouncedSessionIsKnown
  <2> QED
    BY <2>2, <2>3, <2>4, <2>5
<1>4. CASE PostWrote
  <2>1. PICK success \in BOOLEAN : EndFrame("post", success)
    BY <1>4 DEF PostWrote
  <2>2. WireInv'
    BY <2>1, WireEnd
  <2>3. ssePost.at = "push" /\ sseRegistry = "post"
    BY <2>1 DEF EndFrame, OwnerInv, Owns, RegistryInv
  <2>4. RegistryInv'
    BY <1>4, <2>3 DEF RegistryInv, Serving, PostWrote, NoPost
  <2>5. OwnerInv'
    BY <1>4, <2>1, <2>3 DEF EndFrame, OwnerInv, Owns, PostWrote, WireInv, WireTypes, OneWriter
  <2>6. ReadInv'
    BY <1>4, <2>1 DEF EndFrame, PostWrote, NoPost, ReadInv, EndpointComesFirst, AnnouncedSessionIsKnown
  <2> QED
    BY <2>2, <2>4, <2>5, <2>6
<1> QED
  BY <1>1, <1>2, <1>3, <1>4

-----------------------------------------------------------------------------
(* What follows for every behaviour.                                       *)

LEMMA StreamsInitially == StreamsInit => StreamsInv
<1> SUFFICES ASSUME StreamsInit PROVE StreamsInv
  OBVIOUS
<1> USE LegacyAssumption, NamesAssumption DEF StreamsInit
<1>1. WireInv
  BY DEF WireInv, WireTypes, OneWriter, FramesDoNotInterleave
<1>2. RegistryInv
  BY DEF RegistryInv, Serving, Served, StreamPlaces, NoPost
<1>3. OwnerInv /\ ReadInv
  BY DEF OwnerInv, ReadInv, EndpointComesFirst, AnnouncedSessionIsKnown, NoPost
<1> QED
  BY <1>1, <1>2, <1>3 DEF StreamsInv

LEMMA StreamsInvariant == StreamsSpec => []StreamsInv
<1>1. StreamsInv /\ StreamsNext => StreamsInv'
  BY StreamTaskStep, PartStep, NotificationStep, PostStep DEF StreamsNext
<1>2. StreamsInv /\ UNCHANGED sseVars => StreamsInv'
  BY DEF sseVars, StreamsInv, WireInv, WireTypes, OneWriter, FramesDoNotInterleave, LeftBy,
     RegistryInv, Serving, OwnerInv, Owns, ReadInv, EndpointComesFirst, AnnouncedSessionIsKnown
<1> QED
  BY <1>1, <1>2, StreamsInitially, PTL DEF StreamsSpec

\* A client of a legacy stream reads its endpoint before all else, and a POST
\* to an announced session is refused only when the stream is ending.
THEOREM SessionsAreAnnounced == StreamsSpec => []SessionIsAnnounced
<1>1. StreamsInv => SessionIsAnnounced
  BY DEF StreamsInv, ReadInv, SessionIsAnnounced
<1> QED
  BY <1>1, StreamsInvariant, PTL

\* No frame is split by another on the wire, and none goes to a stream whose
\* socket was closed.
THEOREM FramesArrive == StreamsSpec => []FramesReachOpenStreams
<1>1. StreamsInv => WritersHoldOpenStreams
  BY FrameServed DEF WritersHoldOpenStreams, Serving, Served
<1>2. StreamsInv => FramesReachOpenStreams
  BY <1>1 DEF StreamsInv, WireInv, FramesReachOpenStreams
<1> QED
  BY <1>2, StreamsInvariant, PTL
=============================================================================
