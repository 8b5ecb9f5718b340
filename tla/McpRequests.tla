---------------------------- MODULE McpRequests ----------------------------
(***************************************************************************)
(* From the body of a request to the answers: HandleMCPBody() and the       *)
(* lines of a legacy SSE client, HandleMCPMethod(), CallMCPTool(),          *)
(* MethodDispatcher, PermissionChecker and the handlers that ToolHandlers   *)
(* tabulates (src/src/communication/MCPHttpServer.cpp, src/src/core,        *)
(* src/src/handlers), with the script handler's shared result in full.      *)
(*                                                                          *)
(* Every client task runs through its body on its own, one call that other  *)
(* threads can see at a time; the settings change under it.                 *)
(***************************************************************************)
EXTENDS ToolHandlers, Configuration, Sequences, FiniteSets

CONSTANTS
  Clients,
  Bodies,       \* what clients may send, see Body
  MaxBatch,     \* 128 in the code
  MaxCommands   \* a bound on the commands of a batch of script commands

\* The items of a body are a sequence, ParseJsonRpcRequest() accepts each or
\* does not, and one without params names nothing.
ASSUME BodiesAssumption ==
    \A body \in Bodies :
        /\ Len(body.items) \in Nat /\ DOMAIN body.items = 1..Len(body.items)
        /\ \A k \in DOMAIN body.items :
              /\ body.items[k].valid \in BOOLEAN
              /\ body.items[k].params.given \/ body.items[k].params.name = "missing"

VARIABLES
  mcpCalls,     \* what each client's task is doing
  scriptLast    \* ScriptHandler::lastSuccess, lastResult: whose they are, and lastSuccess

mcpVars == <<mcpCalls, scriptLast>>

-----------------------------------------------------------------------------
(* Requests.                                                                *)

NoArgs == [p \in {} |-> "text"]

\* The params of a request: none, or a name or URI ("missing": none) with
\* arguments, which may be no object.  Those of a URI are the text in it.
Params(given, name, object, args) ==
    [given |-> given, name |-> name, object |-> object, args |-> args]
NoParams == Params(FALSE, "missing", TRUE, NoArgs)
Call(name, args) == Params(TRUE, name, TRUE, args)
Misshapen(name) == Params(TRUE, name, FALSE, NoArgs)
Reading(uri, text) == Call(uri, [p \in {"text"} |-> text])

\* ParseJsonRpcRequest() accepts the item; id "none": it has none.
JsonRpc(id, method, params) == [valid |-> TRUE, id |-> id, method |-> method, params |-> params]
Invalid(id) == [valid |-> FALSE, id |-> id, method |-> "none", params |-> NoParams]

HasId(item) == item.id # "none"
Body(shape, items) == [shape |-> shape, items |-> items]

AtRest == [at |-> "idle", body |-> Body("single", <<>>), item |-> 0, late |-> 0, answers |-> <<>>,
             method |-> "none", args |-> NoArgs, sections |-> <<>>, outcomes |-> <<>>,
             acted |-> {}, effect |-> "none", rights |-> {}, patterns |-> {}]

McpInit ==
    /\ mcpCalls = [c \in Clients |-> AtRest]
    /\ scriptLast = [by |-> "nobody", success |-> FALSE]

\* An answer names the item it is for, the id it carries and what it says.
Entry(item, id, verdict) == [item |-> item, id |-> id, verdict |-> verdict]

Item(call) == call.body.items[call.item]

\* A call with its client's item answered, if it has an id, and the next item
\* ahead.  Past the deadline the answer is a timeout, whatever was executed;
\* a line of an SSE client has no deadline.
Answered(call, verdict) ==
    LET entry == Entry(call.item, Item(call).id,
                       IF call.late # 0 THEN "timeout" ELSE verdict)
    IN  [call EXCEPT !.at = "item", !.item = @ + 1, !.effect = "none",
                     !.answers = IF HasId(Item(call)) THEN Append(@, entry) ELSE @]

Becomes(c, call) == mcpCalls' = [mcpCalls EXCEPT ![c] = call]

-----------------------------------------------------------------------------
(* HandleMCPBody().                                                         *)

BatchRefused(body) ==
    /\ body.shape = "batch"
    /\ \/ ~GetTruth(cfgTree, "enable_batch_requests", TRUE)
       \/ Len(body.items) \notin 1..MaxBatch

Received(body) ==
    [AtRest EXCEPT
        !.body = body, !.item = 1,
        !.at = IF body.shape = "broken" \/ BatchRefused(body) THEN "answer" ELSE "item",
        !.answers = IF body.shape = "broken" THEN <<Entry(0, "null", "parseError")>>
                    ELSE IF BatchRefused(body) THEN <<Entry(0, "null", "invalid")>>
                    ELSE <<>>]

Receive(c, body) ==
    /\ mcpCalls[c].at = "idle"
    /\ Becomes(c, Received(body))
    /\ UNCHANGED scriptLast

\* The deadline of the body passes while it is being worked on.
DeadlinePasses(c) ==
    /\ mcpCalls[c].at \notin {"idle", "answer"}
    /\ mcpCalls[c].body.shape # "line" /\ mcpCalls[c].late = 0
    /\ Becomes(c, [mcpCalls[c] EXCEPT !.late = mcpCalls[c].item])
    /\ UNCHANGED scriptLast

\* Mutant: an invalid item without an id is passed over like a notification.
RejectedSilently(call) ==
    IF HasId(Item(call))
    THEN [call EXCEPT !.item = @ + 1, !.answers = Append(@, Entry(call.item, "null", "invalid"))]
    ELSE [call EXCEPT !.item = @ + 1]

\* An invalid item is answered without an id over HTTP, and with the id it has
\* on a line of an SSE client.
Rejected(call) ==
    LET id == IF call.body.shape = "line" /\ HasId(Item(call)) THEN Item(call).id ELSE "null"
    IN  [call EXCEPT !.item = @ + 1, !.answers = Append(@, Entry(call.item, id, "invalid"))]

\* The deadline has passed before the item was begun.
Skipped(call) == call.late # 0

-----------------------------------------------------------------------------
(* HandleMCPMethod(): what it answers at once.                              *)

Lists == {"initialize", "tools/list", "resources/list", "resources/templates/list",
          "prompts/list"}

\* "tools/call" up to the dispatch.  A tool is named by its method.
ToolCalled(call, params) ==
    LET named == {t \in Tools : t.method = params.name}
    IN  IF params.name = "missing" \/ ~params.object THEN Answered(call, "invalidParams")
        ELSE IF named = {} THEN Answered(call, "noSuchTool")
        ELSE IF \E t \in named : ~ArgumentsFit(t, params.args) THEN Answered(call, "unfit")
        ELSE [call EXCEPT !.at = "call", !.method = params.name, !.args = params.args]

\* "resources/read": every failure of ReadResource() is an internal error.
ResourceRead(call, params) ==
    LET named == {r \in RegisteredResources \cup RegisteredTemplates : r.uri = params.name}
    IN  IF params.name = "missing" THEN Answered(call, "invalidParams")
        ELSE IF named = {} \/ \E r \in named : params.args["text"] \notin Takes[r.taken]
        THEN Answered(call, "internalError")
        ELSE LET resource == CHOOSE r \in named : TRUE
             IN  [call EXCEPT !.at = "call", !.method = resource.method,
                              !.args = Parameters(resource, params.args["text"])]

\* "prompts/get": GetPrompt() refuses a prompt it lacks or whose arguments are
\* missing; GeneratePrompt() reads the arguments as strings.
PromptGot(call, params) ==
    LET named == {p \in Prompts : p.name = params.name}
        Unread(p) == \E a \in (p.required \cup p.optional) \cap DOMAIN params.args :
                        params.args[a] \notin Strings
    IN  Answered(call,
            IF params.name = "missing" \/ ~params.object THEN "invalidParams"
            ELSE IF named = {} \/ \E p \in named : ~(p.required \subseteq DOMAIN params.args)
            THEN "internalError"
            ELSE IF \E p \in named : Unread(p) THEN "invalidParams" ELSE "result")

\* No answer to the handshake of a client, with an id or without: unless it
\* is late.
Handshake(call) ==
    IF call.late # 0 THEN Answered(call, "timeout") ELSE [call EXCEPT !.item = @ + 1]

Handled(call) ==
    LET item == Item(call)
    IN  IF item.method \in Lists THEN Answered(call, "result")
        ELSE IF item.method = "notifications/initialized" THEN Handshake(call)
        ELSE IF item.method \notin {"tools/call", "resources/read", "prompts/get"}
        THEN Answered(call, "noSuchMethod")
        ELSE IF ~item.params.given THEN Answered(call, "invalidParams")
        ELSE CASE item.method = "tools/call" -> ToolCalled(call, item.params)
               [] item.method = "resources/read" -> ResourceRead(call, item.params)
               [] item.method = "prompts/get" -> PromptGot(call, item.params)

\* The next item: invalid, too late, or handed to HandleMCPMethod().  What the
\* settings allow is counted from here.
TakeItem(c) ==
    LET call == [mcpCalls[c] EXCEPT !.rights = RightsOf(cfgTree), !.patterns = cfgPatterns,
                                    !.effect = "none"]
    IN  /\ call.at = "item"
        /\ Becomes(c, IF call.item > Len(call.body.items)
                      THEN [mcpCalls[c] EXCEPT !.at = "answer"]
                      ELSE IF ~Item(call).valid THEN Rejected(call)
                      ELSE IF Skipped(call) THEN Answered(call, "timeout")
                      ELSE Handled(call))
        /\ UNCHANGED scriptLast

\* The response goes out; without answers it is a bare 202.
Respond(c) ==
    /\ mcpCalls[c].at = "answer"
    /\ Becomes(c, AtRest)
    /\ UNCHANGED scriptLast

-----------------------------------------------------------------------------
(* MethodDispatcher and the handlers.                                       *)

\* Dispatch() asks PermissionChecker::IsMethodAllowed() first.
Allowed(method) == \E pattern \in cfgPatterns : Matches(pattern, method)

Dispatch(c) ==
    /\ mcpCalls[c].at = "call"
    /\ Becomes(c, IF Allowed(mcpCalls[c].method) THEN [mcpCalls[c] EXCEPT !.at = "run"]
                  ELSE Answered(mcpCalls[c], "denied"))
    /\ UNCHANGED scriptLast

\* What a context handler collects, each by a dispatch of its own: an
\* include_... argument that is false leaves a section out.
Wanted(args, section) ==
    section \notin DOMAIN args \/ args[section] # "false"
Sections(method, args) ==
    IF method = "context.get_basic" THEN <<"register.list">>
    ELSE <<"register.list">>
         \o (IF Wanted(args, "include_stack") THEN <<"stack.get_trace">> ELSE <<>>)
         \o (IF Wanted(args, "include_modules") THEN <<"module.list">> ELSE <<>>)
         \o (IF Wanted(args, "include_breakpoints") THEN <<"breakpoint.list">> ELSE <<>>)
         \o (IF Wanted(args, "include_threads") THEN <<"thread.list">> ELSE <<>>)

HandlersOf(method) == {h \in RegisteredMethods : h.method = method}

\* Where a handler that may act goes on.
Begun(call) ==
    CASE call.method \in {"context.get_snapshot", "context.get_basic"} ->
           [call EXCEPT !.at = "section", !.sections = Sections(call.method, call.args)]
      [] call.method \in {"script.execute", "script.execute_batch"} ->
           [call EXCEPT !.at = "command", !.outcomes = <<>>]
      [] OTHER -> [call EXCEPT !.at = "act"]

\* ExecuteMethod() up to what the handler changes: its demands and the rights
\* it asks for, whichever it looks at first.  A script handler answers a
\* refusal as a result.
Run(c) ==
    LET call == mcpCalls[c]
        handler == CHOOSE h \in HandlersOf(call.method) : TRUE
        script == "script" \in handler.rights /\ handler.change = "commands"
        refusals == (IF DemandsMet(handler, call.args) THEN {} ELSE {"invalidParams"})
                    \cup (IF ~Acts(handler, call.args)
                             \/ handler.rights \subseteq RightsOf(cfgTree)
                          THEN {} ELSE {"denied"})
    IN  /\ call.at = "run"
        /\ \/ HandlersOf(call.method) = {} /\ Becomes(c, Answered(call, "unknownMethod"))
           \/ /\ HandlersOf(call.method) # {} /\ refusals # {}
              /\ \E refusal \in refusals :
                    Becomes(c, Answered(call, IF script THEN "refused" ELSE refusal))
           \/ /\ HandlersOf(call.method) # {} /\ refusals = {}
              /\ Becomes(c, Begun(call))
        /\ UNCHANGED scriptLast

\* The handler asks the debugger, and changes what it is there to change; the
\* debugger may fail it.
Act(c) ==
    LET call == mcpCalls[c]
        handler == CHOOSE h \in HandlersOf(call.method) : TRUE
        acting == Acts(handler, call.args)
        done == [call EXCEPT !.effect = IF acting THEN handler.change ELSE "none",
                             !.acted = IF acting THEN @ \cup {call.item} ELSE @]
    IN  /\ call.at = "act"
        /\ Becomes(c, [done EXCEPT !.at = "done"])
        /\ UNCHANGED scriptLast

\* The handler returns; whether it could do what it was asked is the
\* debugger's to say.
Return(c) ==
    /\ mcpCalls[c].at = "done"
    /\ \E verdict \in {"result", "failed"} : Becomes(c, Answered(mcpCalls[c], verdict))
    /\ UNCHANGED scriptLast

\* A section of a snapshot: one that is refused or fails ends the snapshot.
Collect(c) ==
    LET call == mcpCalls[c]
        rest == Tail(call.sections)
    IN  /\ call.at = "section"
        /\ \/ Becomes(c, [call EXCEPT !.at = "done"])
           \/ /\ Allowed(Head(call.sections))
              /\ Becomes(c, [call EXCEPT !.sections = rest,
                                         !.at = IF rest = <<>> THEN "done" ELSE "section"])
        /\ UNCHANGED scriptLast

-----------------------------------------------------------------------------
(* ScriptHandler.                                                           *)

Batch(call) == call.method = "script.execute_batch"
StopOnError(call) ==
    "stop_on_error" \in DOMAIN call.args /\ call.args["stop_on_error"] = "true"
AllSucceeded(outcomes) == \A i \in DOMAIN outcomes : outcomes[i]

\* Mutant: a failed command does not end the batch.
CommandsEndLate(call) ==
    Len(call.outcomes) = IF Batch(call) THEN MaxCommands ELSE 1

\* execute() has one command.  A batch goes on to the end of its list, of any
\* length up to MaxCommands, or to a failure if it was asked to stop there.
CommandsEnd(call) ==
    \/ Len(call.outcomes) = IF Batch(call) THEN MaxCommands ELSE 1
    \/ (Batch(call) /\ StopOnError(call) /\ ~AllSucceeded(call.outcomes))

\* DbgCmdExec(), or an entry of the batch that is no string.
Command(c) ==
    /\ mcpCalls[c].at = "command" /\ ~CommandsEnd(mcpCalls[c])
    /\ \E success \in BOOLEAN :
          Becomes(c, [mcpCalls[c] EXCEPT !.outcomes = Append(@, success),
                                         !.effect = "commands",
                                         !.acted = @ \cup {mcpCalls[c].item}])
    /\ UNCHANGED scriptLast

\* The result of the execution replaces the last one, whoever reads it next.
Store(c) ==
    /\ mcpCalls[c].at = "command"
    /\ Batch(mcpCalls[c]) \/ mcpCalls[c].outcomes # <<>>
    /\ scriptLast' = [by |-> c, success |-> AllSucceeded(mcpCalls[c].outcomes)]
    /\ Becomes(c, [mcpCalls[c] EXCEPT !.at = "stored"])

\* execute() with capture_output takes the lock again and answers what is
\* there, which may be another client's result by now.
Captures(call) ==
    /\ ~Batch(call) /\ "capture_output" \in DOMAIN call.args
    /\ call.args["capture_output"] = "true"
ScriptReturns(c) ==
    /\ mcpCalls[c].at = "stored"
    /\ Becomes(c, Answered(mcpCalls[c],
                           IF Captures(mcpCalls[c]) /\ scriptLast.by # c THEN "othersOutput"
                           ELSE "result"))
    /\ UNCHANGED scriptLast

-----------------------------------------------------------------------------
(* Requests while the settings change.                                      *)

McpStep(c) ==
    \/ TakeItem(c) \/ Dispatch(c) \/ Run(c) \/ Act(c) \/ Return(c)
    \/ Collect(c) \/ Command(c) \/ Store(c) \/ ScriptReturns(c) \/ Respond(c)

\* The requests of a set of clients, each with the bodies it may send.
McpTraffic(clients, bodies) ==
    \E c \in clients :
        \/ \E body \in bodies : Receive(c, body)
        \/ DeadlinePasses(c)
        \/ McpStep(c)

\* What the GUI thread does while the server runs; a request being executed
\* has been allowed what any of the settings during it allowed.
SettingsChange ==
    /\ \/ EditorShow \/ EditorSave \/ LoadTree \/ ApplyRuntime \/ InitializePermissions
    /\ mcpCalls' = [c \in Clients |->
                       IF mcpCalls[c].at = "idle" THEN mcpCalls[c]
                       ELSE [mcpCalls[c] EXCEPT !.rights = @ \cup RightsOf(cfgTree'),
                                                !.patterns = @ \cup cfgPatterns']]
    /\ UNCHANGED scriptLast

McpSpec ==
    /\ McpInit
    /\ [][\/ McpTraffic(Clients, Bodies) /\ UNCHANGED cfgVars
          \/ SettingsChange]_<<mcpVars, cfgVars>>

-----------------------------------------------------------------------------
(* Properties.                                                              *)

NeedsAnswer(item) ==
    ~item.valid \/ (HasId(item) /\ item.method # "notifications/initialized")

\* JSON-RPC over HandleMCPBody(): the answers come in the order of the items,
\* one at most for each, with its id; none for a notification, and in the end
\* one for every item that asks for an answer.
AnswersMatchRequests ==
    \A c \in Clients :
        LET call == mcpCalls[c]
            items == call.body.items
            answers == call.answers
        IN  /\ \A i, j \in DOMAIN answers : i < j => answers[i].item < answers[j].item
            /\ \A i \in DOMAIN answers : answers[i].item # 0 =>
                  LET item == items[answers[i].item]
                  IN  IF item.valid THEN HasId(item) /\ answers[i].id = item.id
                      ELSE answers[i].id \in {"null", item.id}
            /\ call.at = "answer" /\ (answers = <<>> \/ answers[1].item # 0) =>
                  \A k \in DOMAIN items :
                      NeedsAnswer(items[k]) => \E i \in DOMAIN answers : answers[i].item = k

\* Once the deadline of a body has passed, none of the items behind the one
\* being executed changes anything, notifications neither.
LateItemsDoNotAct ==
    \A c \in Clients : mcpCalls[c].late # 0 =>
        \A k \in mcpCalls[c].acted : k <= mcpCalls[c].late

\* What a client is told about the deadline is exact: a timeout for every
\* item not finished in time, and for no other.  (It does not say that the
\* item was not executed: see "acted".)
DeadlineDividesAnswers ==
    \A c \in Clients : \A i \in DOMAIN mcpCalls[c].answers :
        LET answer == mcpCalls[c].answers[i]
            late == mcpCalls[c].late
        IN  answer.verdict \notin {"invalid", "parseError"} =>
                (answer.verdict = "timeout" <=> late # 0 /\ answer.item >= late)

\* The rights that a change asks for, whichever handler makes it.
NeededRights(method, effect) ==
    CASE effect \in {"memory", "files"} -> {"memory"}
      [] effect = "registers" -> {"register"}
      [] effect = "commands" -> {"script"}
      [] effect = "breakpoints" ->
           {"breakpoint"} \cup (IF method \in {"breakpoint.set_condition", "breakpoint.set_log"}
                                THEN {"script"} ELSE {})
      [] OTHER -> {}

\* README.md:42, permission-based access control, while the settings are
\* edited under running requests: whatever a request changed, some settings
\* in force since it began allowed its method and granted the right.
EffectsArePermitted ==
    \A c \in Clients : mcpCalls[c].effect # "none" =>
        /\ NeededRights(mcpCalls[c].method, mcpCalls[c].effect) \subseteq mcpCalls[c].rights
        /\ \E pattern \in mcpCalls[c].patterns : Matches(pattern, mcpCalls[c].method)

\* A batch of script commands that was asked to stop on an error executes
\* nothing behind a command that failed.
BatchStopsAtFailure ==
    \A c \in Clients : mcpCalls[c].at = "command" /\ StopOnError(mcpCalls[c]) =>
        \A i \in 1..Len(mcpCalls[c].outcomes) - 1 : mcpCalls[c].outcomes[i]

\* The values that a caller who reads the descriptions gives.
AddressParameters == {"address", "start", "end", "oep", "module_base"}
Sensible(parameter, value) ==
    IF parameter[1] \in AddressParameters THEN value = "address"
    ELSE IF parameter[2] = "integer" THEN value = "number"
    ELSE IF parameter[1] = "value" THEN value = "address"
    ELSE value \in OfType[parameter[2]] \ {"wide"}
SensibleCall(tool, args) ==
    /\ \A p \in tool.required : p[1] \in DOMAIN args
    /\ \A p \in tool.required \cup tool.optional : p[1] \in DOMAIN args => Sensible(p, args[p[1]])

\* What the server lists it serves: no call of a listed tool and no read of a
\* listed resource, with sensible values, meets a method that is not
\* registered or a handler that cannot take its parameters.
ListedIsServed ==
    \A c \in Clients : \A i \in DOMAIN mcpCalls[c].answers :
        LET answer == mcpCalls[c].answers[i]
            item == mcpCalls[c].body.items[answer.item]
        IN  answer.item # 0 /\ item.valid =>
              /\ item.method = "tools/call" /\ item.params.object =>
                    \A t \in Tools :
                        t.method = item.params.name /\ SensibleCall(t, item.params.args) =>
                            answer.verdict \notin {"noSuchTool", "unfit", "invalidParams",
                                                  "unknownMethod"}
              /\ item.method = "resources/read" =>
                    \A r \in RegisteredResources \cup RegisteredTemplates :
                        /\ r.uri = item.params.name
                        /\ item.params.args["text"]
                             = (IF r.taken = "address" THEN "address" ELSE "text")
                        => answer.verdict \notin {"internalError", "invalidParams", "unknownMethod"}

\* No prompt tells to use a tool that the server does not list.
PromptsNameListedTools ==
    \A c \in Clients : \A i \in DOMAIN mcpCalls[c].answers :
        LET answer == mcpCalls[c].answers[i]
            item == mcpCalls[c].body.items[answer.item]
        IN  answer.item # 0 /\ answer.verdict = "result" /\ item.method = "prompts/get" =>
              \A p \in Prompts : p.name = item.params.name =>
                  p.tools \subseteq {t.method : t \in Tools}

\* Every answer is for its item, and says of the deadline what is true.
AnswersAreExact == AnswersMatchRequests /\ DeadlineDividesAnswers

\* Behind a deadline or a failed command that ends it, a body does nothing.
NothingMoreIsDone == LateItemsDoNotAct /\ BatchStopsAtFailure

\* The tables of tools, handlers, resources and prompts fit each other.
CatalogueIsServed == ListedIsServed /\ PromptsNameListedTools
=============================================================================
