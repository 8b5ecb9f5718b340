---------------------------- MODULE HttpRequests ----------------------------
(***************************************************************************)
(* From the bytes of a connection to the handler of its request:           *)
(* ReceiveHttpRequest(), ParseHttpHeaders(), HandleHttpRequest() and the    *)
(* checks before its routes, the RateLimiter that all connections share     *)
(* (src/src/communication/MCPHttpServer.cpp, HttpHeaders.h).                *)
(*                                                                         *)
(* Connections are served one after the other here: while it is received a *)
(* request shares nothing but the settings and the clock with the others.  *)
(* Time is counted in seconds of the settings.                             *)
(***************************************************************************)
EXTENDS Configuration, Sequences, FiniteSets

CONSTANTS
  Messages,        \* what clients send, see Message
  ReceiveChunk,    \* kReceiveChunkSize, 4096 in the code
  MaxHeaderSize,   \* 32768 in the code
  MaxHttpRequest,  \* kMaxHttpRequestSize, 1024 * 1024 in the code
  HeaderTimeout,   \* 10 s in the code
  RateWindow,      \* 1 s in the code
  MaxRequests,     \* kMaxRequestsPerSecond, 100 in the code
  MaxClock         \* a bound on time

ASSUME ReceptionAssumption ==
    /\ {ReceiveChunk, RateWindow, MaxRequests} \subseteq Nat \ {0}
    /\ {MaxHeaderSize, MaxHttpRequest, HeaderTimeout, MaxClock} \subseteq Nat
    /\ \A message \in Messages :
          {message.headerSize, message.declared, message.size} \subseteq Nat

VARIABLES
  httpClock,
  httpConn,     \* the connection being served
  httpRate,     \* g_rateLimiter
  httpAllowed   \* when the requests that it allowed came

httpVars == <<httpClock, httpConn, httpRate, httpAllowed>>

-----------------------------------------------------------------------------
(* Messages.                                                               *)

\* A header of headerSize bytes with the blank line, its fields well-formed
\* or not, and declared for Content-Length; the client sends size bytes.
Message(headerSize, wellFormed, declared, size) ==
    [headerSize |-> headerSize, wellFormed |-> wellFormed, declared |-> declared, size |-> size,
     method |-> "POST", path |-> "/mcp", query |-> "none", origin |-> "none",
     host |-> "localhost", token |-> "none"]

\* The blank line counts for one byte, and everything before it is header.
HeaderEnd(message) == message.headerSize - 1

Served(at) ==
    [at |-> at, message |-> Message(0, FALSE, 0, 0), received |-> 0, headerKnown |-> FALSE,
     started |-> 0, timeout |-> 0, status |-> 0, reflected |-> "none", handler |-> "none",
     body |-> 0]

HttpInit ==
    /\ httpClock = 0
    /\ httpConn = Served("free")
    /\ httpRate = [count |-> 0, start |-> 0]
    /\ httpAllowed = <<>>

Becoming(conn) == httpConn' = conn
NoTime == UNCHANGED <<httpClock, httpRate, httpAllowed>>

\* SendHttpResponse().
Reply(conn, status, origin) ==
    [conn EXCEPT !.at = "answered", !.status = status, !.reflected = origin]

-----------------------------------------------------------------------------
(* ReceiveHttpRequest().                                                   *)

Arrives ==
    /\ httpConn.at = "free"
    /\ \E message \in Messages :
          Becoming([Served("receive") EXCEPT !.message = message, !.started = httpClock,
                                             !.timeout = GetRequestTimeout(cfgTree)])
    /\ NoTime

\* Mutant: the header has as long as the request.
DeadlineOfRequest(conn) == conn.started + conn.timeout

Deadline(conn) ==
    conn.started + (IF ~conn.headerKnown /\ HeaderTimeout < conn.timeout THEN HeaderTimeout
                    ELSE conn.timeout)

\* A failed receive is answered if anything came.
Bad(conn) == IF conn.received > 0 THEN Reply(conn, 400, "none") ELSE Reply(conn, 0, "none")

\* The request is complete; what comes behind it is cut off.
Whole(conn) == [conn EXCEPT !.at = "parse", !.body = conn.message.declared]

\* What the loop makes of the bytes it has: the limits in the order in which
\* it looks at them, the header once.
AfterChunk(conn) ==
    LET message == conn.message
        found == conn.received >= message.headerSize
        known == [conn EXCEPT !.headerKnown = TRUE]
    IN  IF conn.received > MaxHttpRequest THEN Reply(conn, 413, "none")
        ELSE IF ~found THEN IF conn.received > MaxHeaderSize THEN Bad(conn) ELSE conn
        ELSE IF ~conn.headerKnown /\ (HeaderEnd(message) > MaxHeaderSize \/ ~message.wellFormed)
        THEN Bad(conn)
        ELSE IF ~conn.headerKnown /\ message.declared > MaxHttpRequest
        THEN Reply(conn, 413, "none")
        ELSE IF conn.received >= message.headerSize + message.declared THEN Whole(known)
        ELSE known

\* recv() returns up to a chunk of what the client sent.
ReceiveBytes ==
    /\ httpConn.at = "receive" /\ httpClock < Deadline(httpConn)
    /\ \E n \in 1..ReceiveChunk :
          /\ httpConn.received + n <= httpConn.message.size
          /\ Becoming(AfterChunk([httpConn EXCEPT !.received = @ + n]))
    /\ NoTime

\* The client closes, or the connection breaks.
ReceiveEnds ==
    /\ httpConn.at = "receive" /\ httpClock < Deadline(httpConn)
    /\ Becoming(Bad(httpConn))
    /\ NoTime

\* select() returns with nothing at the deadline.
ReceiveTimesOut ==
    /\ httpConn.at = "receive" /\ httpClock >= Deadline(httpConn)
    /\ Becoming(Bad(httpConn))
    /\ NoTime

-----------------------------------------------------------------------------
(* HandleHttpRequest().                                                    *)

\* ValidateCrossOriginAndHost(); a request may come without either header.
Listed(key, name) ==
    /\ Has(cfgTree, key) /\ "list" \in DOMAIN cfgTree[key]
    /\ name \in cfgTree[key].list
OriginAllowed(message) == message.origin = "none" \/ Listed("origin_allowlist", message.origin)
HostAllowed(message) ==
    \/ message.host \in {"none", "127.0.0.1", "localhost", "::1", GetServerAddress(cfgTree)}
    \/ Listed("host_allowlist", message.host)

\* ValidateAuthorization(); the token is compared in full.
Authorized(message) ==
    \/ ~GetTruth(cfgTree, "auth_enabled", FALSE)
    \/ message.token # "none" /\ message.token = AuthToken(cfgTree)

\* Mutant: a stream is opened without credentials.
CheckedTrusting(conn) ==
    LET message == conn.message
    IN  IF message.path = "none" \/ message.query = "other" THEN Reply(conn, 400, "none")
        ELSE IF ~OriginAllowed(message) \/ ~HostAllowed(message) THEN Reply(conn, 403, "none")
        ELSE IF message.method \notin {"OPTIONS", "GET"} /\ ~Authorized(message)
        THEN Reply(conn, 401, "none")
        ELSE [conn EXCEPT !.at = "limit"]

\* ParseHttpRequest() and the checks; none of these answers reflects the
\* origin.
Checked(conn) ==
    LET message == conn.message
    IN  IF message.path = "none" \/ message.query = "other" THEN Reply(conn, 400, "none")
        ELSE IF ~OriginAllowed(message) \/ ~HostAllowed(message) THEN Reply(conn, 403, "none")
        ELSE IF message.method # "OPTIONS" /\ ~Authorized(message) THEN Reply(conn, 401, "none")
        ELSE [conn EXCEPT !.at = "limit"]

Check ==
    /\ httpConn.at = "parse"
    /\ Becoming(Checked(httpConn))
    /\ NoTime

\* RateLimiter::Allow(): what it holds after a request at a time.
Window(rate, now) ==
    IF now - rate.start >= RateWindow THEN [count |-> 1, start |-> now]
    ELSE [rate EXCEPT !.count = IF @ > MaxRequests THEN @ ELSE @ + 1]

Limit ==
    /\ httpConn.at = "limit"
    /\ httpRate' = Window(httpRate, httpClock)
    /\ IF httpRate'.count > MaxRequests
       THEN /\ Becoming(Reply(httpConn, 429, httpConn.message.origin))
            /\ UNCHANGED httpAllowed
       ELSE /\ Becoming([httpConn EXCEPT !.at = "route"])
            /\ httpAllowed' = Append(httpAllowed, httpClock)
    /\ UNCHANGED httpClock

McpPaths == {"/mcp", "/mcp/"}
PostPaths == {"/message", "/", "/messages", "/rpc", "/rpc/"}

\* The routes, in their order.
HandlerOf(message) ==
    LET method == message.method
        path == message.path
    IN  CASE method = "OPTIONS" /\ path \in McpPaths \cup PostPaths \cup {"/sse"} -> "preflight"
          [] method = "GET" /\ path = "/sse" -> "HandleSSE"
          [] method = "POST" /\ path \in McpPaths -> "HandleStreamableHttpPost"
          [] method = "GET" /\ path \in McpPaths -> "HandleStreamableHttpStream"
          [] method = "DELETE" /\ path \in McpPaths -> "stateless"
          [] method = "POST" /\ path \in PostPaths -> "HandlePostMessage"
          [] method = "GET" /\ path = "/" -> "health"
          [] OTHER -> "notFound"

StatusOf(handler) ==
    CASE handler = "preflight" -> 204 [] handler = "stateless" -> 405
      [] handler = "notFound" -> 404 [] OTHER -> 200

Route ==
    /\ httpConn.at = "route"
    /\ LET handler == HandlerOf(httpConn.message)
       IN  Becoming([Reply(httpConn, StatusOf(handler), httpConn.message.origin)
                        EXCEPT !.handler = handler])
    /\ NoTime

\* The connection is closed, and the next one is served.
HttpCloses ==
    /\ httpConn.at = "answered"
    /\ Becoming(Served("free"))
    /\ NoTime

\* Time passes, not beyond the deadline that select() waits for.
HttpTick ==
    /\ httpClock < MaxClock /\ httpConn.at \in {"free", "receive"}
    /\ httpConn.at = "receive" => httpClock < Deadline(httpConn)
    /\ httpClock' = httpClock + 1
    /\ UNCHANGED <<httpConn, httpRate, httpAllowed>>

HttpNext ==
    \/ Arrives \/ ReceiveBytes \/ ReceiveEnds \/ ReceiveTimesOut
    \/ Check \/ Limit \/ Route \/ HttpCloses \/ HttpTick

\* Requests are received while the settings rest, and while they change.
HttpAtRest == HttpInit /\ [][HttpNext /\ UNCHANGED cfgVars]_<<httpVars, cfgVars>>
HttpSpec ==
    /\ HttpInit /\ CfgInit
    /\ [][\/ HttpNext /\ UNCHANGED cfgVars
          \/ CfgNext /\ UNCHANGED httpVars]_<<httpVars, cfgVars>>

----------------------------------------------------------------------------
(* Properties.                                                             *)

\* Whatever pieces the bytes came in: a request that is handled has the whole
\* of its header and a body of the declared length, and none of what the
\* client sent behind it.
RequestIsWhole ==
    httpConn.at \in {"parse", "limit", "route"} =>
        /\ httpConn.message.wellFormed
        /\ httpConn.received >= httpConn.message.headerSize + httpConn.message.declared
        /\ httpConn.body = httpConn.message.declared

\* A client that lets its bytes trickle holds a task for the header timeout
\* until the header is there, for the timeout of the settings after that, and
\* never has more than a chunk above the limits in memory.
ReceptionIsBounded ==
    httpConn.at = "receive" =>
        /\ httpClock <= httpConn.started + httpConn.timeout
        /\ httpConn.received < httpConn.message.headerSize =>
              /\ httpClock <= httpConn.started + HeaderTimeout
              /\ httpConn.received <= MaxHeaderSize
        /\ httpConn.received <= MaxHttpRequest

\* "Validate untrusted headers before reflecting Origin in any response": on
\* every path of HandleHttpRequest(), errors too, an origin that is sent back
\* is in the allowlist.
ReflectedOriginIsAllowed ==
    httpConn.at = "answered" /\ httpConn.reflected # "none" =>
        Listed("origin_allowlist", httpConn.reflected)

\* "All actual HTTP requests, including health and SSE endpoints, must
\* authenticate": only the answer to a preflight and to a route that does not
\* exist can be had without the token.
HandlersNeedToken ==
    httpConn.handler \notin {"none", "preflight", "notFound"} =>
        Authorized(httpConn.message) /\ HostAllowed(httpConn.message)

\* Windows are fixed, so that two of them meet in a span of one window: no
\* span has more than twice the requests.
RateIsBounded ==
    \A t \in 0..MaxClock :
        Cardinality({i \in DOMAIN httpAllowed : httpAllowed[i] \in t..t + RateWindow - 1})
            <= 2 * MaxRequests

\* A request is received whole, within its time and its limits.
ReceptionIsSound == RequestIsWhole /\ ReceptionIsBounded

\* Every test of HandleHttpRequest() comes before what it guards, on each path.
RequestsAreChecked == ReflectedOriginIsAllowed /\ HandlersNeedToken /\ RateIsBounded
=============================================================================
