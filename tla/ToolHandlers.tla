---------------------------- MODULE ToolHandlers ----------------------------
(***************************************************************************)
(* What answers the server's requests: the methods that the handlers       *)
(* register with the MethodDispatcher, and the resources and prompts of    *)
(* their registries.                                                       *)
(*                                                                         *)
(* Of a handler the tables keep what a caller meets: the parameters it     *)
(* refuses to run without and how it takes them, the rights it asks for    *)
(* before it acts, and what it changes.  What it then asks the debugger,   *)
(* and how it words the answer, is left out.                               *)
(***************************************************************************)
EXTENDS ToolCatalog

Rights == {"memory", "register", "script", "breakpoint"}
Changes == {"nothing", "execution", "registers", "memory", "breakpoints", "notes", "files",
            "commands"}

\* onlyIf names the Boolean argument without which nothing is changed.
Handler(method, demands, rights, change) ==
    [method |-> method, demands |-> demands, rights |-> rights, change |-> change,
     onlyIf |-> "always"]
Answering(methods, demands) == {Handler(m, demands, {}, "nothing") : m \in methods}
Changing(methods, demands, rights, change) == {Handler(m, demands, rights, change) : m \in methods}
address == {<<"address", "address">>}
thread == {<<"thread_id", "uint32">>}
module == {<<"module", "name">>}

SystemHandlers == Answering({"system.info", "system.methods", "system.ping"}, {})

ExecutionHandlers ==
    Answering({"debug.get_state"}, {})
    \cup Changing({"debug.run", "debug.pause", "debug.step_into", "debug.step_over",
                   "debug.step_out"}, {}, {}, "execution")

SessionHandlers ==
    Changing({"debug.run_to"}, address, {}, "execution")
    \cup Changing({"debug.restart", "debug.init", "debug.stop"}, {}, {}, "execution")
    \cup Changing({"debug.attach_pid"}, {<<"pid", "uint32">>}, {}, "execution")

RegisterHandlers ==
    Answering({"register.get"}, {<<"name", "string">>})
    \cup Answering({"register.list"}, {})
    \cup Answering({"register.get_batch"}, {<<"names", "array">>})
    \cup Changing({"register.set"}, {<<"name", "string">>, <<"value", "value">>},
                  {"register"}, "registers")

MemoryHandlers ==
    Answering({"memory.read"}, address \cup {<<"size", "size">>})
    \cup Answering({"memory.search"}, {<<"pattern", "string">>})
    \cup Answering({"memory.get_info"}, address) \cup Answering({"memory.enumerate"}, {})
    \cup Changing({"memory.write"}, address \cup {<<"data", "string">>}, {"memory"}, "memory")
    \cup Changing({"memory.allocate"}, {<<"size", "size">>}, {"memory"}, "memory")
    \cup Changing({"memory.free"}, address, {"memory"}, "memory")

BreakpointHandlers ==
    Answering({"breakpoint.list"}, {}) \cup Answering({"breakpoint.get"}, address)
    \cup Changing({"breakpoint.set", "breakpoint.delete", "breakpoint.enable",
                   "breakpoint.disable", "breakpoint.toggle", "breakpoint.reset_hitcount"},
                  address, {"breakpoint"}, "breakpoints")
    \cup Changing({"breakpoint.delete_all"}, {}, {"breakpoint"}, "breakpoints")
    \cup Changing({"breakpoint.set_condition"}, address \cup {<<"condition", "string">>},
                  {"breakpoint", "script"}, "breakpoints")
    \cup Changing({"breakpoint.set_log"}, address \cup {<<"log_text", "string">>},
                  {"breakpoint", "script"}, "breakpoints")

\* A range can also be asked for as an address and a count: no tool does.
DisassemblyHandlers ==
    Answering({"disassembly.at", "disassembly.function"}, address)
    \cup Answering({"disassembly.range"}, {<<"start", "address">>, <<"end", "address">>})

SymbolQueries ==
    Answering({"symbol.resolve"}, {<<"symbol", "string">>})
    \cup Answering({"symbol.from_address"}, address)
    \cup Answering({"symbol.search"}, {<<"pattern", "string">>})
    \cup Answering({"symbol.list", "symbol.modules"}, {})

SymbolNotes ==
    Answering({"symbol.get_comment"}, address)
    \cup Changing({"symbol.set_label"}, address \cup {<<"label", "string">>}, {"memory"}, "notes")
    \cup Changing({"symbol.set_comment"}, address \cup {<<"comment", "string">>},
                  {"memory"}, "notes")

StackHandlers ==
    Answering({"stack.get_trace", "stack.get_pointers"}, {})
    \cup Answering({"stack.read_frame"}, address \cup {<<"size", "size">>})
    \cup Answering({"stack.is_on_stack"}, address)

ThreadHandlers ==
    Answering({"thread.list", "thread.get_current", "thread.get_count"}, {})
    \cup Answering({"thread.get"}, thread)
    \cup Changing({"thread.switch", "thread.suspend", "thread.resume"}, thread, {}, "execution")

\* A module can also be asked for by its name or address: no caller does.
ModuleLookups ==
    Answering({"module.list", "module.get_main"}, {}) \cup Answering({"module.get"}, module)
ModuleTables == Answering({"module.get_exports", "module.get_imports"}, module)

path == {<<"output_path", "string">>}
DumpHandlers ==
    Changing({"dump.module"}, module \cup path, {"memory"}, "files")
    \cup Changing({"dump.memory_region"}, address \cup path \cup {<<"size", "size">>},
                  {"memory"}, "files")
    \cup Answering({"dump.detect_oep"}, module)
    \cup Answering({"dump.analyze_module", "dump.get_dumpable_regions"}, {})

ExpressionHandlers == Answering({"eval.expression"}, {<<"expression", "string">>})

AnalysisHandlers ==
    Answering({"xref.get", "function.get"}, address) \cup Answering({"function.list"}, {})

AssemblerHandlers ==
    {[Handler("assembler.assemble", address \cup {<<"instruction", "string">>},
              {"memory"}, "memory") EXCEPT !.onlyIf = "write_to_memory"]}

BookmarkHandlers ==
    Changing({"bookmark.set", "bookmark.delete"}, address, {}, "notes")
    \cup Answering({"bookmark.list"}, {})

\* Mutant: restoring a patch does not ask for the right to write memory.
PatchHandlersUnchecked ==
    Answering({"patch.list"}, {}) \cup Changing({"patch.restore"}, address, {}, "memory")

PatchHandlers ==
    Answering({"patch.list"}, {}) \cup Changing({"patch.restore"}, address, {"memory"}, "memory")

ScriptHandlers ==
    Changing({"script.execute"}, {<<"command", "string">>}, {"script"}, "commands")
    \cup Changing({"script.execute_batch"}, {<<"commands", "array">>}, {"script"}, "commands")
    \cup Answering({"script.get_last_result"}, {})

ContextHandlers ==
    Answering({"context.get_snapshot", "context.get_basic"}, {})
    \cup Answering({"context.compare_snapshots"}, {<<"snapshot1", "any">>, <<"snapshot2", "any">>})

RegisteredMethods ==
    SystemHandlers \cup ExecutionHandlers \cup SessionHandlers \cup RegisterHandlers
    \cup MemoryHandlers \cup BreakpointHandlers \cup DisassemblyHandlers \cup SymbolQueries
    \cup SymbolNotes \cup StackHandlers \cup ThreadHandlers \cup ModuleLookups
    \cup ModuleTables \cup DumpHandlers \cup ExpressionHandlers \cup AnalysisHandlers
    \cup AssemblerHandlers \cup BookmarkHandlers \cup PatchHandlers \cup ScriptHandlers
    \cup ContextHandlers

-----------------------------------------------------------------------------
(* The families of methods that a pattern "<family>.*" matches.  The families *)
(* "disasm" and "comment" of the default configuration are empty.             *)

Methods(handlers) == {h.method : h \in handlers}
Families ==
    {<<"system.*", Methods(SystemHandlers)>>,
     <<"debug.*", Methods(ExecutionHandlers \cup SessionHandlers)>>,
     <<"register.*", Methods(RegisterHandlers)>>, <<"memory.*", Methods(MemoryHandlers)>>,
     <<"breakpoint.*", Methods(BreakpointHandlers)>>,
     <<"disassembly.*", Methods(DisassemblyHandlers)>>,
     <<"symbol.*", Methods(SymbolQueries \cup SymbolNotes)>>,
     <<"stack.*", Methods(StackHandlers)>>, <<"thread.*", Methods(ThreadHandlers)>>,
     <<"module.*", Methods(ModuleLookups \cup ModuleTables)>>,
     <<"dump.*", Methods(DumpHandlers)>>, <<"eval.*", Methods(ExpressionHandlers)>>,
     <<"xref.*", {"xref.get"}>>, <<"function.*", {"function.get", "function.list"}>>,
     <<"assembler.*", Methods(AssemblerHandlers)>>, <<"bookmark.*", Methods(BookmarkHandlers)>>,
     <<"patch.*", Methods(PatchHandlers)>>, <<"script.*", Methods(ScriptHandlers)>>,
     <<"context.*", Methods(ContextHandlers)>>}

\* MatchesPattern().
Matches(pattern, method) ==
    \/ pattern = "*" \/ pattern = method
    \/ \E family \in Families : family[1] = pattern /\ method \in family[2]

-----------------------------------------------------------------------------
(* Resources: the method that reads one, the parameter that its URI fills   *)
(* and how the URI's text is taken; "none": a resource without parameters.  *)
(* The URIs of templates are written without their braces.                  *)

Resource(uri, method) ==
    [uri |-> uri, method |-> method, parameter |-> "none", taken |-> "any"]
Template(uri, method, parameter, taken) ==
    [uri |-> uri, method |-> method, parameter |-> parameter, taken |-> taken]

RegisteredResources ==
    {Resource("debugger://state/current", "debug.get_state"),
     Resource("debugger://registers/all", "register.list"),
     Resource("debugger://modules/list", "module.list"),
     Resource("debugger://threads/list", "thread.list"),
     Resource("debugger://memory/map", "memory.enumerate"),
     Resource("debugger://breakpoints/all", "breakpoint.list"),
     Resource("debugger://stack/trace", "stack.get_trace")}
RegisteredTemplates ==
    {Template("memory://address/size", "memory.read", "address", "address"),
     Template("disassembly://address/count", "disassembly.at", "address", "address"),
     Template("module://module_name/info", "module.get", "module", "string"),
     Template("module://module_name/exports", "module.get_exports", "module", "string"),
     Template("module://module_name/imports", "module.get_imports", "module", "string"),
     Template("symbol://name/resolve", "symbol.resolve", "symbol", "string"),
     Template("function://address/disassembly", "disassembly.function", "address", "address"),
     Template("breakpoint://address/info", "breakpoint.get", "address", "address")}

\* The URI of a template with a value in it, and "number" for the size or count
\* that memory and disassembly also need.
Parameters(resource, value) ==
    IF resource.parameter = "none" THEN [p \in {} |-> value]
    ELSE IF resource.method \in {"memory.read", "disassembly.at"}
    THEN [p \in {"address", IF resource.method = "memory.read" THEN "size" ELSE "count"} |->
             IF p = "address" THEN value ELSE "number"]
    ELSE [p \in {resource.parameter} |-> value]

-----------------------------------------------------------------------------
(* Prompts: their arguments and the tools that their texts tell to use.     *)

Prompt(name, required, optional, tools) ==
    [name |-> name, required |-> required, optional |-> optional, tools |-> tools]

InvestigationPrompts ==
    {Prompt("analyze-crash", {}, {"crash_address"},
            {"debug.get_state", "register.list", "disassembly.at", "stack.get_trace",
             "memory.get_info", "memory.read", "symbol.from_address"}),
     Prompt("find-vulnerability", {}, {"vulnerability_type"},
            {"module.get_main", "module.list", "dump.analyze_module", "symbol.list",
             "symbol.resolve", "symbol.search", "disassembly.at"}),
     Prompt("trace-function", {"function_name"}, {},
            {"symbol.resolve", "symbol.search", "disassembly.function", "symbol.from_address",
             "memory.get_info", "breakpoint.set", "breakpoint.set_log", "context.get_snapshot",
             "debug.step_over", "debug.step_into", "context.compare_snapshots"}),
     Prompt("unpack-binary", {}, {"packer_hint"},
            {"debug.get_state", "module.get_main", "dump.analyze_module", "disassembly.at",
             "dump.detect_oep", "dump.module"})}
AnalysisPrompts ==
    {Prompt("reverse-algorithm", {"start_address"}, {"description"},
            {"disassembly.function", "disassembly.at", "symbol.from_address", "memory.get_info",
             "memory.read", "register.list", "stack.read_frame", "debug.step_over"}),
     Prompt("compare-execution", {}, {},
            {"debug.get_state", "context.get_snapshot", "register.list", "disassembly.at",
             "stack.get_trace", "context.compare_snapshots"}),
     Prompt("hunt-strings", {}, {"pattern"},
            {"module.get_main", "module.list", "dump.analyze_module", "memory.search",
             "memory.read", "disassembly.at", "symbol.from_address"}),
     Prompt("patch-code", {"target_address", "goal"}, {},
            {"disassembly.at", "symbol.from_address", "disassembly.function", "memory.read",
             "memory.write", "dump.module"})}
SessionPrompts ==
    {Prompt("debug-session", {}, {"issue_description"},
            {"debug.get_state", "module.get_main", "module.list", "thread.list", "register.list",
             "disassembly.at", "stack.get_trace", "breakpoint.list"}),
     Prompt("api-monitor", {}, {"api_category"},
            {"symbol.resolve", "breakpoint.set", "breakpoint.set_log",
             "breakpoint.set_condition"})}
Prompts == InvestigationPrompts \cup AnalysisPrompts \cup SessionPrompts

-----------------------------------------------------------------------------
\* The handler finds every parameter it demands, and can take it.
DemandsMet(handler, args) ==
    \A d \in handler.demands : d[1] \in DOMAIN args /\ args[d[1]] \in Takes[d[2]]

\* The handler comes to the part of it that changes something.
Acts(handler, args) ==
    /\ handler.change # "nothing"
    /\ \/ handler.onlyIf = "always"
       \/ handler.onlyIf \in DOMAIN args /\ args[handler.onlyIf] = "true"
=============================================================================
