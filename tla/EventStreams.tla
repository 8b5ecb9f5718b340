---------------------------- MODULE EventStreams ----------------------------
(***************************************************************************)
(* What the clients of event streams read: the frames that a stream's own  *)
(* task, the broadcast of a debugger event and the answer to a POST write   *)
(* to the same sockets (HandleSSE(), HandleStreamableHttpStream(),          *)
(* HandlePostMessage(), BroadcastSSEEvent(), SendSSEEvent() and SendAll()   *)
(* of src/src/communication/MCPHttpServer.cpp).                             *)
(*                                                                         *)
(* SendAll() may need several calls of send() for a frame, and may fail     *)
(* between them.  Two mutexes order the writers: m_sseClientSocketsMutex,   *)
(* the registry, and m_sseSendMutex.                                        *)
(***************************************************************************)
EXTENDS Naturals, Sequences, FiniteSets

CONSTANTS
  Streams,     \* connections that ask for a stream
  Legacy,      \* those of GET /sse, with a session for POST
  Parts,       \* calls of send() for a frame, at most
  MaxFrames    \* a bound on the frames that are begun

ASSUME LegacyAssumption == Legacy \subseteq Streams
ASSUME PartsAssumption == Parts \in Nat \ {0} /\ MaxFrames \in Nat
ASSUME NamesAssumption == Streams \cap {"nobody", "broadcast", "post"} = {}

VARIABLES
  sseTask,        \* where each stream's task is
  sseRegistered,  \* m_sseClientSockets
  sseSessions,    \* m_legacySessions
  sseRegistry,    \* who holds m_sseClientSocketsMutex
  sseSending,     \* the frame that each writer is writing, under m_sseSendMutex
  sseWire,        \* what has been written to each stream
  sseFrames,      \* how many frames have been begun
  ssePending,     \* streams that the broadcast has yet to write to
  ssePost         \* the POST that names a session

sseVars == <<sseTask, sseRegistered, sseSessions, sseRegistry, sseSending, sseWire, sseFrames,
             ssePending, ssePost>>

Writers == Streams \cup {"broadcast", "post"}
NoFrame == [frame |-> 0, to |-> "nobody", kind |-> "none", part |-> 0]
NoPost == [at |-> "idle", to |-> "nobody"]

StreamsInit ==
    /\ sseTask = [s \in Streams |-> "headers"]
    /\ sseRegistered = {} /\ sseSessions = {}
    /\ sseRegistry = "nobody" /\ sseSending = [w \in Writers |-> NoFrame]
    /\ sseWire = [s \in Streams |-> <<>>] /\ sseFrames = 0
    /\ ssePending = {} /\ ssePost = NoPost

-----------------------------------------------------------------------------
(* SendSSEEvent() and SendAll().                                           *)

\* Mutant: nobody waits for the frame of another.
SendUnlocked == TRUE
SendFree == \A w \in Writers : sseSending[w] = NoFrame

\* The mutex is taken, and a frame begun.
BeginFrame(writer, stream, kind) ==
    /\ SendFree /\ sseFrames < MaxFrames
    /\ sseFrames' = sseFrames + 1
    /\ sseSending' = [sseSending EXCEPT ![writer] =
                         [frame |-> sseFrames + 1, to |-> stream, kind |-> kind, part |-> 0]]

\* send() takes another part of the frame.
SendPart(writer) ==
    /\ sseSending[writer] # NoFrame /\ sseSending[writer].part < Parts
    /\ sseWire' = [sseWire EXCEPT ![sseSending[writer].to] =
                      Append(@, [frame |-> sseSending[writer].frame,
                                 kind |-> sseSending[writer].kind,
                                 part |-> sseSending[writer].part + 1])]
    /\ sseSending' = [sseSending EXCEPT ![writer].part = @ + 1]
    /\ UNCHANGED <<sseTask, sseRegistered, sseSessions, sseRegistry, sseFrames, ssePending, ssePost>>

\* The frame is through, or send() fails, with a part of it on the wire maybe.
EndFrame(writer, success) ==
    /\ sseSending[writer] # NoFrame
    /\ IF success THEN sseSending[writer].part = Parts ELSE sseSending[writer].part < Parts
    /\ sseSending' = [sseSending EXCEPT ![writer] = NoFrame]
    /\ UNCHANGED <<sseWire, sseFrames>>

NotSending == UNCHANGED <<sseSending, sseWire, sseFrames>>
Moves(s, from, to) == sseTask[s] = from /\ sseTask' = [sseTask EXCEPT ![s] = to]

-----------------------------------------------------------------------------
(* HandleSSE() and HandleStreamableHttpStream().                           *)

\* The headers of the answer.
HeadersSent(s) ==
    /\ Moves(s, "headers", "register") \/ Moves(s, "headers", "gone")
    /\ NotSending
    /\ UNCHANGED <<sseRegistered, sseSessions, sseRegistry, ssePending, ssePost>>

RegisterPlain(s) ==
    /\ s \notin Legacy /\ sseRegistry = "nobody" /\ Moves(s, "register", "loop")
    /\ sseRegistered' = sseRegistered \cup {s}
    /\ NotSending /\ UNCHANGED <<sseSessions, sseRegistry, ssePending, ssePost>>

\* Mutant: the registry is given up before the announcement.
RegisterReleasing(s) ==
    /\ s \in Legacy /\ sseRegistry = "nobody" /\ Moves(s, "register", "endpoint")
    /\ sseRegistered' = sseRegistered \cup {s} /\ sseSessions' = sseSessions \cup {s}
    /\ NotSending /\ UNCHANGED <<sseRegistry, ssePending, ssePost>>

\* The socket and the session are registered, and the registry is kept until
\* the session is announced.
RegisterLegacy(s) ==
    /\ s \in Legacy /\ sseRegistry = "nobody" /\ Moves(s, "register", "endpoint")
    /\ sseRegistered' = sseRegistered \cup {s} /\ sseSessions' = sseSessions \cup {s}
    /\ sseRegistry' = s
    /\ NotSending /\ UNCHANGED <<ssePending, ssePost>>

AnnounceBegins(s) ==
    /\ sseTask[s] = "endpoint" /\ sseSending[s] = NoFrame
    /\ BeginFrame(s, s, "endpoint")
    /\ UNCHANGED <<sseTask, sseRegistered, sseSessions, sseRegistry, sseWire, ssePending, ssePost>>

Announced(s) ==
    /\ EndFrame(s, TRUE) /\ Moves(s, "endpoint", "loop")
    /\ sseRegistry' = "nobody"
    /\ UNCHANGED <<sseRegistered, sseSessions, ssePending, ssePost>>

AnnounceFails(s) ==
    /\ EndFrame(s, FALSE) /\ Moves(s, "endpoint", "gone")
    /\ sseRegistered' = sseRegistered \ {s} /\ sseSessions' = sseSessions \ {s}
    /\ sseRegistry' = "nobody"
    /\ UNCHANGED <<ssePending, ssePost>>

\* A heartbeat; on a legacy stream also the answer to a line of the client.
Writes(s) ==
    /\ \/ Moves(s, "loop", "beat") /\ BeginFrame(s, s, "ping")
       \/ s \in Legacy /\ Moves(s, "loop", "reply") /\ BeginFrame(s, s, "message")
    /\ UNCHANGED <<sseRegistered, sseSessions, sseRegistry, sseWire, ssePending, ssePost>>

\* A heartbeat that fails ends the stream; nobody looks at how a reply went.
Wrote(s) ==
    /\ \/ EndFrame(s, TRUE) /\ (Moves(s, "beat", "loop") \/ Moves(s, "reply", "loop"))
       \/ EndFrame(s, FALSE) /\ (Moves(s, "beat", "leave") \/ Moves(s, "reply", "loop"))
    /\ UNCHANGED <<sseRegistered, sseSessions, sseRegistry, ssePending, ssePost>>

\* The client closes, or the server stops.
Leaves(s) ==
    /\ Moves(s, "loop", "leave")
    /\ NotSending /\ UNCHANGED <<sseRegistered, sseSessions, sseRegistry, ssePending, ssePost>>

\* Out of the registry; HandleClient()'s caller then closes the socket.
Withdraws(s) ==
    /\ sseRegistry = "nobody" /\ Moves(s, "leave", "gone")
    /\ sseRegistered' = sseRegistered \ {s} /\ sseSessions' = sseSessions \ {s}
    /\ NotSending /\ UNCHANGED <<sseRegistry, ssePending, ssePost>>

StreamTask(s) ==
    \/ HeadersSent(s) \/ RegisterPlain(s) \/ RegisterLegacy(s) \/ AnnounceBegins(s)
    \/ Announced(s) \/ AnnounceFails(s) \/ Writes(s) \/ Wrote(s) \/ Leaves(s) \/ Withdraws(s)

-----------------------------------------------------------------------------
(* BroadcastSSEEvent(): the registry is held until the last stream is done. *)

NotificationBegins ==
    /\ sseRegistry = "nobody" /\ sseRegistered # {}
    /\ sseRegistry' = "broadcast" /\ ssePending' = sseRegistered
    /\ NotSending /\ UNCHANGED <<sseTask, sseRegistered, sseSessions, ssePost>>

NotificationWrites(s) ==
    /\ sseRegistry = "broadcast" /\ s \in ssePending
    /\ sseSending["broadcast"] = NoFrame /\ BeginFrame("broadcast", s, "notification")
    /\ UNCHANGED <<sseTask, sseRegistered, sseSessions, sseRegistry, sseWire, ssePending, ssePost>>

\* Whether it failed only counts for the result.
NotificationWrote ==
    /\ \E success \in BOOLEAN : EndFrame("broadcast", success)
    /\ ssePending' = ssePending \ {sseSending["broadcast"].to}
    /\ sseRegistry' = IF ssePending' = {} THEN "nobody" ELSE sseRegistry
    /\ UNCHANGED <<sseTask, sseRegistered, sseSessions, ssePost>>

-----------------------------------------------------------------------------
(* HandlePostMessage(), for a session that the client was told of.         *)

Told(s) == \E i \in DOMAIN sseWire[s] : sseWire[s][i].kind = "endpoint" /\ sseWire[s][i].part = Parts

\* The session is looked up, before the call ...
PostLooks(s) ==
    /\ ssePost.at = "idle" /\ sseRegistry = "nobody" /\ Told(s)
    /\ ssePost' = [at |-> IF s \in sseSessions THEN "call" ELSE "unknown", to |-> s]
    /\ NotSending /\ UNCHANGED <<sseTask, sseRegistered, sseSessions, sseRegistry, ssePending>>

\* ... and again after it; the registry is kept for the response.
PostFinds ==
    /\ ssePost.at = "call" /\ sseRegistry = "nobody"
    /\ IF ssePost.to \in sseSessions
       THEN ssePost' = [ssePost EXCEPT !.at = "push"] /\ sseRegistry' = "post"
       ELSE ssePost' = NoPost /\ UNCHANGED sseRegistry
    /\ NotSending /\ UNCHANGED <<sseTask, sseRegistered, sseSessions, ssePending>>

PostWrites ==
    /\ ssePost.at = "push" /\ sseSending["post"] = NoFrame
    /\ BeginFrame("post", ssePost.to, "message")
    /\ UNCHANGED <<sseTask, sseRegistered, sseSessions, sseRegistry, sseWire, ssePending, ssePost>>

PostWrote ==
    /\ \E success \in BOOLEAN : EndFrame("post", success)
    /\ ssePost' = NoPost /\ sseRegistry' = "nobody"
    /\ UNCHANGED <<sseTask, sseRegistered, sseSessions, ssePending>>

PostRefused ==
    /\ ssePost.at = "unknown" /\ ssePost' = NoPost
    /\ NotSending /\ UNCHANGED <<sseTask, sseRegistered, sseSessions, sseRegistry, ssePending>>

-----------------------------------------------------------------------------
StreamsNext ==
    \/ \E s \in Streams : StreamTask(s) \/ NotificationWrites(s) \/ PostLooks(s)
    \/ \E w \in Writers : SendPart(w)
    \/ NotificationBegins \/ NotificationWrote
    \/ PostFinds \/ PostWrites \/ PostWrote \/ PostRefused

StreamsSpec == StreamsInit /\ [][StreamsNext]_sseVars

-----------------------------------------------------------------------------
(* Properties.                                                             *)

\* However the writers come, the parts of a frame follow each other on the
\* wire; a torn frame may be followed by another, but never be split by it.
FramesDoNotInterleave ==
    \A s \in Streams : \A i, j \in DOMAIN sseWire[s] :
        sseWire[s][i].frame = sseWire[s][j].frame =>
            j - i = sseWire[s][j].part - sseWire[s][i].part

\* The first thing that the client of a legacy stream reads is its endpoint,
\* although the stream takes part in broadcasts before it is announced.
EndpointComesFirst ==
    \A s \in Legacy : sseWire[s] # <<>> => sseWire[s][1].kind = "endpoint"

\* "Register before announcing the endpoint so an immediate POST can resolve
\* it": a POST that names an announced session is refused only after the
\* stream has begun to end.
AnnouncedSessionIsKnown ==
    ssePost.at = "unknown" => sseTask[ssePost.to] \in {"leave", "gone"}

\* Nobody writes to a stream whose task is done, and its socket closed.
WritersHoldOpenStreams ==
    \A w \in Writers : sseSending[w] # NoFrame => sseTask[sseSending[w].to] # "gone"

\* A client is told its session first, and by then the server knows it.
SessionIsAnnounced == EndpointComesFirst /\ AnnouncedSessionIsKnown

\* Three kinds of writers, and every frame goes unmixed to an open stream.
FramesReachOpenStreams == FramesDoNotInterleave /\ WritersHoldOpenStreams
=============================================================================
