---------------------------- MODULE ToolCatalog ----------------------------
(***************************************************************************)
(* The values of arguments and the tools that MCPToolRegistry publishes    *)
(* (src/src/core/MCPToolRegistry.cpp).  A tool is named by the method it   *)
(* calls: its own name is that with an underscore for the dot.             *)
(***************************************************************************)
-----------------------------------------------------------------------------
(* Values of arguments, as far as a check tells them apart.                *)

Strings == {"address", "wide", "choice", "text"}  \* wide: a number too large for an address
Integrals == {"number", "wideNumber", "negative"}
Truths == {"true", "false"}
Values == Strings \cup Integrals \cup Truths \cup {"array", "object"}

\* The values of a schema's type; "choice" is a string of an enumeration.
OfType == [string |-> Strings, choice |-> {"choice"}, integer |-> Integrals,
           boolean |-> Truths, array |-> {"array"}, object |-> {"object"}]

\* RequestValidator::ValidateAddress(): numbers and texts of numbers that
\* fit the target.
FitsAddress == {"address", "number"}

\* TryValidateAddressOrName(): a text that is no number stays a name.
NameOrAddress == {"address", "choice", "text"}

\* What a handler takes: RequireField(), RequireString(), RequireArray(),
\* ValidateAddress(), ValidateUInt32(), get<size_t>(), a register's value.
Takes == [any |-> Values, string |-> Strings, array |-> {"array"}, address |-> FitsAddress,
          name |-> NameOrAddress, uint32 |-> {"address", "number"},
          size |-> Integrals \cup Truths,
          value |-> {"address", "wide", "number", "wideNumber"}]

-----------------------------------------------------------------------------
(* The tools, in the order and the groups of RegisterDefaultTools().       *)

Tool(method, required, optional) ==
    [method |-> method, required |-> required, optional |-> optional]
Bare(methods) == {Tool(m, {}, {}) : m \in methods}
Requiring(methods, required) == {Tool(m, required, {}) : m \in methods}
anAddress == {<<"address", "string">>}
aThread == {<<"thread_id", "integer">>}
aModule == {<<"module", "string">>}

DebugTools ==
    Bare({"debug.get_state", "debug.run", "debug.pause", "debug.step_into", "debug.step_over",
          "debug.step_out", "debug.restart", "debug.stop"})
    \cup Requiring({"debug.run_to"}, anAddress)
    \cup {Tool("debug.init", {}, {<<f, "string">> : f \in {"path", "arguments", "current_dir"}}),
          Tool("debug.attach_pid", {<<"pid", "integer">>},
               {<<"timeout_ms", "integer">>, <<"attach_break", "boolean">>,
                <<"detach_first", "boolean">>})}

RegisterTools ==
    {Tool("register.get", {<<"name", "string">>}, {}),
     Tool("register.set", {<<"name", "string">>, <<"value", "string">>}, {}),
     Tool("register.list", {}, {<<"general_only", "boolean">>}),
     Tool("register.get_batch", {<<"names", "array">>}, {})}

MemoryTools ==
    Bare({"memory.enumerate"}) \cup Requiring({"memory.get_info", "memory.free"}, anAddress)
    \cup {Tool("memory.read", anAddress \cup {<<"size", "integer">>}, {<<"encoding", "choice">>}),
          Tool("memory.write", anAddress \cup {<<"data", "string">>}, {<<"encoding", "choice">>}),
          Tool("memory.search", {<<"pattern", "string">>},
               {<<"start", "string">>, <<"end", "string">>, <<"max_results", "integer">>}),
          Tool("memory.allocate", {<<"size", "integer">>}, {})}

aType == {<<"type", "choice">>}
BreakpointTools ==
    Bare({"breakpoint.list"}) \cup Requiring({"breakpoint.delete"}, anAddress)
    \cup {Tool(m, anAddress, aType) : m \in {"breakpoint.enable", "breakpoint.disable"}}
    \cup {Tool("breakpoint.set", anAddress,
               aType \cup {<<"hw_condition", "choice">>, <<"hw_size", "integer">>,
                           <<"mem_size", "integer">>})}

DisassemblyTools == {Tool("disassembly.at", anAddress, {<<"count", "integer">>}),
                     Tool("disassembly.function", anAddress, {})}

\* Mutant: a tool is not listed.
SymbolToolsLacking ==
    Bare({"module.list"}) \cup Requiring({"symbol.from_address"}, anAddress)
    \cup {Tool("symbol.resolve", {<<"symbol", "string">>}, {})}

SymbolTools ==
    Bare({"module.list"}) \cup Requiring({"symbol.from_address"}, anAddress)
    \cup {Tool("symbol.resolve", {<<"symbol", "string">>}, {}),
          Tool("symbol.search", {<<"pattern", "string">>}, {})}

ThreadTools ==
    Bare({"thread.list", "thread.get_current"}) \cup Requiring({"thread.switch"}, aThread)

StackTools ==
    Bare({"stack.get_trace", "stack.get_pointers"}) \cup Requiring({"stack.is_on_stack"}, anAddress)
    \cup {Tool("stack.read_frame", anAddress \cup {<<"size", "integer">>}, {})}

ExtendedBreakpointTools ==
    Bare({"breakpoint.delete_all"}) \cup Requiring({"breakpoint.reset_hitcount"}, anAddress)
    \cup {Tool(m, anAddress, aType) : m \in {"breakpoint.get", "breakpoint.toggle"}}
    \cup {Tool("breakpoint.set_condition", anAddress \cup {<<"condition", "string">>}, {}),
          Tool("breakpoint.set_log", anAddress \cup {<<"log_text", "string">>}, {})}

ExtendedSymbolTools ==
    {Tool("symbol.list", {}, aModule),
     Tool("symbol.set_label", anAddress \cup {<<"label", "string">>}, {}),
     Tool("symbol.set_comment", anAddress \cup {<<"comment", "string">>}, {}),
     Tool("symbol.get_comment", anAddress, {})}

ExtendedModuleTools == Bare({"module.get_main"}) \cup Requiring({"module.get"}, aModule)

ExtendedThreadTools ==
    Bare({"thread.get_count"})
    \cup Requiring({"thread.get", "thread.suspend", "thread.resume"}, aThread)

ExtendedDisassemblyTools ==
    {Tool("disassembly.range", {<<"start", "string">>, <<"end", "string">>},
          {<<"max_instructions", "integer">>})}

aPath == {<<"output_path", "string">>}
DumpTools ==
    {Tool("dump.module", aModule \cup aPath,
          {<<"oep", "string">>}
          \cup {<<f, "boolean">> : f \in {"rebuild_pe", "remove_integrity_check",
                                          "auto_detect_oep", "dump_full_image"}}),
     Tool("dump.memory_region", anAddress \cup aPath \cup {<<"size", "integer">>},
          {<<"as_raw_binary", "boolean">>}),
     Tool("dump.analyze_module", {}, aModule),
     Tool("dump.detect_oep", aModule, {}),
     Tool("dump.get_dumpable_regions", {}, {<<"module_base", "string">>})}

ScriptTools ==
    Bare({"script.get_last_result"})
    \cup {Tool("script.execute", {<<"command", "string">>}, {}),
          Tool("script.execute_batch", {<<"commands", "array">>}, {<<"stop_on_error", "boolean">>})}

ContextTools ==
    Bare({"context.get_basic"})
    \cup {Tool("context.get_snapshot", {},
               {<<"include_memory", "boolean">>, <<"include_stack", "boolean">>}),
          Tool("context.compare_snapshots",
               {<<"snapshot1", "object">>, <<"snapshot2", "object">>}, {})}

AnalysisTools ==
    Requiring({"xref.get", "function.get"}, anAddress)
    \cup Requiring({"module.get_exports", "module.get_imports"}, aModule)
    \cup {Tool("eval.expression", {<<"expression", "string">>}, {}),
          Tool("function.list", {}, aModule)}

AssemblerTools ==
    {Tool("assembler.assemble", anAddress \cup {<<"instruction", "string">>},
          {<<"write_to_memory", "boolean">>})}

BookmarkTools ==
    Bare({"bookmark.list"}) \cup Requiring({"bookmark.set", "bookmark.delete"}, anAddress)

PatchTools == Bare({"patch.list"}) \cup Requiring({"patch.restore"}, anAddress)

Tools ==
    DebugTools \cup RegisterTools \cup MemoryTools \cup BreakpointTools \cup DisassemblyTools
    \cup SymbolTools \cup ThreadTools \cup StackTools \cup ExtendedBreakpointTools
    \cup ExtendedSymbolTools \cup ExtendedModuleTools \cup ExtendedThreadTools
    \cup ExtendedDisassemblyTools \cup DumpTools \cup ScriptTools \cup ContextTools
    \cup AnalysisTools \cup AssemblerTools \cup BookmarkTools \cup PatchTools

\* MCPToolDefinition::ValidateArguments().
ArgumentsFit(tool, args) ==
    /\ \A p \in tool.required : p[1] \in DOMAIN args
    /\ \A p \in tool.required \cup tool.optional :
          p[1] \in DOMAIN args => args[p[1]] \in OfType[p[2]]
=============================================================================
