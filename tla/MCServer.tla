------------------------------ MODULE MCServer ------------------------------
(* What the server and the settings have to do with each other.  A behaviour *)
(* is of one subject; what another subject changes rests in one of its       *)
(* states.  The life of the server and the requests share no state that      *)
(* HttpServer does not have; requests and settings do, in "policy".          *)
(* "reception" is what comes before HttpServer's requests are executed, and  *)
(* "streams" what its event streams and its broadcast write; "log" is what     *)
(* the settings leave of the log.                                            *)
EXTENDS HttpServer, McpRequests, HttpRequests, EventStreams,
        LogFiles, TLC

CONSTANTS c1, c2, s1, s2

VARIABLE subject

serverVars == <<subject, vars, cfgVars, mcpVars, httpVars, sseVars, logVars>>

-----------------------------------------------------------------------------
(* The life of the server: two connections over two handles.                *)

MCConns == {c1, c2}
MCSockets == {s1, s2}
MCOrigin == [c \in MCConns |-> "editor"]

-----------------------------------------------------------------------------
(* Settings.                                                                *)

\* A token that is missing and numbers out of range; values of other types;
\* a document with a setting that the editor lacks.
MCDocuments ==
    {[allowed_methods |-> List({"debug.*", "patch.*"}), auth_enabled |-> Truth(TRUE),
      auth_token |-> Text(""), port |-> Num(0), request_timeout_ms |-> Num(-1)],
     [allowed_methods |-> Text("*"), port |-> Truth(TRUE), request_timeout_ms |-> Numeral(0),
      auth_token |-> Num(3), level |-> Text("critical"), enable_notifications |-> Truth(FALSE)],
     [max_connections |-> Num(7), auth_enabled |-> Truth(TRUE), auth_token |-> Text("secret"),
      auto_start_mcp_on_plugin_load |-> Truth(TRUE), heartbeat_interval_seconds |-> Num(86401),
      enable_notifications |-> Truth(FALSE), level |-> Text("trace")]}

Permitting(memory, script, patterns) ==
    [allow_memory_write |-> Truth(memory), allow_script_execution |-> Truth(script),
     allow_breakpoint_modification |-> Truth(script), allowed_methods |-> List(patterns)]

\* The numbers at their bounds, with one policy each.
Permissive ==
    Permitting(TRUE, TRUE, {"patch.*", "script.execute", "breakpoint.*", "memory.*"})
    @@ [request_timeout_ms |-> Num(3600000), auth_token |-> Text("secret"), port |-> Num(3000)]
Restrictive ==
    Permitting(FALSE, FALSE, {"patch.*", "breakpoint.set_log"})
    @@ [auth_enabled |-> Truth(FALSE), heartbeat_interval_seconds |-> Num(1),
        port |-> Num(65535), request_timeout_ms |-> Num(1)]

\* Those, nothing, a number past its bound, and no token.
MCEdits ==
    {Permissive, Restrictive, [k \in {} |-> Num(0)],
     [request_timeout_ms |-> Num(3600001)], [auth_token |-> Text("")]}
MCPolicies == {FromControls(CreateDefaultConfig, edit) : edit \in {Permissive, Restrictive}}

-----------------------------------------------------------------------------
(* Requests.                                                                *)

\* A value that the description of a parameter asks for.
Proper(p) ==
    IF p[1] \in AddressParameters \cup {"value"} THEN "address"
    ELSE CASE p[2] = "integer" -> "number" [] p[2] = "boolean" -> "true"
           [] p[2] = "string" -> "text" [] OTHER -> p[2]
ProperArgs(params) ==
    [name \in {p[1] : p \in params} |-> Proper(CHOOSE p \in params : p[1] = name)]

\* Proper arguments, without and with the optional ones, and with one of them
\* missing or of any other value.
ArgsFor(tool) ==
    LET some == ProperArgs(tool.required)
        all == ProperArgs(tool.required \cup tool.optional)
    IN  {some, all}
        \cup {[all EXCEPT ![name] = value] : name \in DOMAIN all, value \in Values}
        \cup {[n \in DOMAIN some \ {name} |-> some[n]] : name \in DOMAIN some}

ToolItem(id, name, args) == JsonRpc(id, "tools/call", Call(name, args))
CatalogueItems ==
    UNION {{ToolItem("1", t.method, args) : args \in ArgsFor(t)} : t \in Tools}
    \cup {ToolItem("1", t, args) : t \in {"no.tool", "missing"}, args \in {NoArgs}}
    \cup {JsonRpc("1", m, Misshapen(name)) :
             m \in {"tools/call", "prompts/get"}, name \in {"debug.run", "hunt-strings"}}
    \cup {JsonRpc("1", "resources/read", Reading(r.uri, value)) :
             r \in RegisteredResources \cup RegisteredTemplates, value \in {"address", "text"}}
    \cup {JsonRpc("1", "resources/read", Reading(uri, "text")) : uri \in {"no://uri", "missing"}}
    \cup UNION {{JsonRpc("1", "prompts/get", Call(p.name, [a \in names |-> value])) :
                    names \in {p.required, p.required \cup p.optional, p.optional},
                    value \in {"text", "number"}} : p \in Prompts}
    \cup {JsonRpc("1", "prompts/get", Call(name, NoArgs)) : name \in {"no-prompt", "missing"}}
    \cup {JsonRpc("1", m, NoParams) : m \in Lists \cup {"tools/call", "no/method"}}
CatalogueBodies == {Body("single", <<item>>) : item \in CatalogueItems}

PolicyBodies ==
    {Body("single", <<ToolItem("1", method, ProperArgs(tool.required))>>) :
        <<method, tool>> \in
            {<<t.method, t>> : t \in {u \in Tools :
                u.method \in {"patch.restore", "memory.write", "breakpoint.set",
                              "breakpoint.set_log", "script.execute", "assembler.assemble"}}}}

Execute(id) ==
    ToolItem(id, "script.execute", [p \in {"command", "capture_output"} |->
                                       IF p = "command" THEN "text" ELSE "true"])
Commands(id, stop) ==
    ToolItem(id, "script.execute_batch", [p \in {"commands", "stop_on_error"} |->
                                             IF p = "commands" THEN "array" ELSE stop])
Restore(id) == ToolItem(id, "patch.restore", [p \in {"address"} |-> "address"])
Snapshot(id) == ToolItem(id, "context.get_snapshot", [p \in {"include_stack"} |-> "false"])
Listing(id) == JsonRpc(id, "tools/list", NoParams)
Handshaking(id) == JsonRpc(id, "notifications/initialized", NoParams)

\* Notifications, an id that is null, items that are no requests, a handshake
\* with an id, batches of no and of too many items, and lines.
TrafficBodies ==
    {Body("batch", <<Commands("1", "true"), Restore("none"), Restore("2")>>),
     Body("batch", <<Invalid("none"), Snapshot("null"), Handshaking("3")>>),
     Body("batch", <<Handshaking("none"), Invalid("4")>>),
     Body("batch", <<>>), Body("batch", [i \in 1..MaxBatch + 1 |-> Listing("5")]),
     Body("broken", <<>>), Body("line", <<Invalid("6")>>), Body("line", <<Execute("7")>>),
     Body("single", <<Execute("8")>>), Body("single", <<Restore("none")>>)}
OtherBodies == {Body("single", <<Execute("9")>>), Body("single", <<Commands("none", "false")>>)}
MCBodies == CatalogueBodies \cup PolicyBodies \cup TrafficBodies \cup OtherBodies

-----------------------------------------------------------------------------
(* Reception: 32 KiB and 1 MiB are 4 and 7, a chunk is 2.                    *)

Asking(method, route, query, origin, host, token) ==
    [Message(1, TRUE, 0, 1) EXCEPT !.method = method, !.path = route, !.query = query,
                                   !.origin = origin, !.host = host, !.token = token]

\* Bodies that are whole, missing, or longer than declared, headers and bodies
\* at and past their limits; then every route, origin, host and token.
MCMessages ==
    {Message(2, TRUE, 3, 6), Message(3, TRUE, 0, 3), Message(4, TRUE, 1, 5),
     Message(5, TRUE, 0, 5), Message(6, TRUE, 0, 6), Message(3, FALSE, 0, 4),
     Message(2, TRUE, 9, 6), Message(2, TRUE, 7, 9), Message(9, TRUE, 0, 9)}
    \cup {Asking("GET", route, "none", "editor", "localhost", "secret") :
             route \in {"/sse", "/mcp", "/", "/else"}}
    \cup {Asking("POST", route, "sessionId", "none", "listed", "secret") :
             route \in {"/mcp/", "/message", "none"}}
    \cup {Asking(method, "/mcp", "none", "editor", "none", token) :
             method \in {"GET", "OPTIONS", "DELETE"}, token \in {"none", "wrong", "secret"}}
    \cup {Asking("POST", "/mcp", query, origin, host, "secret") :
             query \in {"none", "other"}, origin \in {"editor", "page"},
             host \in {"listed", "foreign"}}
Guarded ==
    [allowed_methods |-> List({"*"}), auth_enabled |-> Truth(TRUE), auth_token |-> Text("secret"),
     origin_allowlist |-> List({"editor"}), host_allowlist |-> List({"listed"}),
     request_timeout_ms |-> Num(3)]
Unguarded == [Guarded EXCEPT !.auth_enabled = Truth(FALSE), !.request_timeout_ms = Num(1)]

-----------------------------------------------------------------------------
(* One subject at a time.                                                   *)

\* A server that runs under a document, with nothing going on in the GUI.
Serving(document) ==
    /\ cfgFile = document /\ cfgTree = document
    /\ cfgPatterns = AllowedPatterns(document) /\ cfgRuntime = RuntimeOf(document)
    /\ cfgChecked = FALSE /\ cfgServer = TRUE /\ cfgDesk = DeskIdle

\* Everything is allowed, and batches are on.
AllAllowed ==
    FromControls(CreateDefaultConfig,
        [allowed_methods |-> List({"*"}), allow_memory_write |-> Truth(TRUE),
         allow_register_write |-> Truth(TRUE), allow_script_execution |-> Truth(TRUE)])

\* Only reception looks into these settings: where clients may come from.
DocumentsOf(kind) ==
    CASE kind = "policy" -> MCPolicies [] kind = "reception" -> {Guarded, Unguarded}
      [] OTHER -> {AllAllowed}

ServerInit ==
    /\ subject \in {"http", "settings", "catalogue", "policy", "traffic", "reception", "streams",
                    "log"}
    /\ Init /\ McpInit /\ HttpInit /\ StreamsInit /\ LogInit
    /\ IF subject = "settings" THEN CfgInit
       ELSE \E document \in DocumentsOf(subject) : Serving(document)

HttpSubject ==
    subject = "http" /\ Next /\ UNCHANGED <<subject, cfgVars, mcpVars, httpVars, sseVars, logVars>>
SettingsSubject ==
    subject = "settings" /\ CfgNext /\ UNCHANGED <<subject, vars, mcpVars, httpVars, sseVars, logVars>>
CatalogueSubject ==
    /\ subject = "catalogue" /\ McpTraffic({c1}, CatalogueBodies)
    /\ UNCHANGED <<subject, vars, cfgVars, httpVars, sseVars, logVars>>
PolicySubject ==
    /\ subject = "policy"
    /\ \/ McpTraffic({c1}, PolicyBodies) /\ UNCHANGED cfgVars
       \/ SettingsChange /\ cfgFile' \in MCPolicies
    /\ UNCHANGED <<subject, vars, httpVars, sseVars, logVars>>
TrafficSubject ==
    /\ subject = "traffic"
    /\ McpTraffic({c1}, TrafficBodies) \/ McpTraffic({c2}, OtherBodies)
    /\ UNCHANGED <<subject, vars, cfgVars, httpVars, sseVars, logVars>>
ReceptionSubject ==
    subject = "reception" /\ HttpNext /\ UNCHANGED <<subject, vars, cfgVars, mcpVars, sseVars, logVars>>
StreamsSubject ==
    subject = "streams" /\ StreamsNext /\ UNCHANGED <<subject, vars, cfgVars, mcpVars, httpVars, logVars>>
LogSubject ==
    /\ subject = "log" /\ LogNext
    /\ UNCHANGED <<subject, vars, cfgVars, mcpVars, httpVars, sseVars>>

ServerNext ==
    \/ HttpSubject \/ SettingsSubject \/ CatalogueSubject \/ PolicySubject
    \/ TrafficSubject \/ ReceptionSubject \/ StreamsSubject \/ LogSubject

ServerSpec == ServerInit /\ [][ServerNext]_serverVars /\ Fairness
=============================================================================
