# A TLA+ model of x64dbg-mcp

x64dbg-mcp is a plugin that turns the x64dbg debugger into an MCP server: clients
send JSON-RPC requests over HTTP, the plugin executes them on the debugger, and
debug events go back over server-sent event streams. The plugin runs in the
debugger's process, on four kinds of threads that nobody synchronises but the
plugin itself:

* the GUI thread (menu: start, stop, configuration; plugin load and unload),
* the accept thread of the HTTP server,
* one task (`std::async`) per admitted connection, which runs the whole request,
* the debugger's own threads, which call the plugin back at pauses, breakpoints,
  exceptions, module loads.

The specifications here follow the source in `src/src`. `PROJECT.json` maps each
definition to the lines it stands for; its `hazards` list says at which line of the
code what could go wrong, and which property would show it.

## Inventory

| Component | State | Operations | Interacts with | Hard behaviour | What makes it correct |
|---|---|---|---|---|---|
| HTTP/SSE server (`communication/MCPHttpServer`) | `m_running`, listener, accept thread, task futures, active sockets, stream registry, legacy sessions, active instance | `Start`, `Stop`, `ServerLoop`, `HandleClient`, `HandleSSE`, `HandleStreamableHttpStream`, `HandlePostMessage`, `BroadcastNotification` | everything; called by GUI, client and debugger threads | accept against stop, handle numbers reused, streams that never end, sessions checked before and used after a call | no event to a wrong or closed socket, every client reached by `Stop`, limit kept, nothing left before unload |
| HTTP reception (`ReceiveHttpRequest`, `HttpHeaders.h`, `HandleHttpRequest`) | bytes received, deadlines, the rate window | receive until header, then body; check origin, host, token and rate; route | HTTP server, settings | trickling clients, limits, early returns, settings that change under a request | a request is passed on only whole, in its deadlines, and after every check |
| SSE framing (`SendAll`, `SendSSEEvent`) | bytes of a stream | send an event, heartbeat, answer a POST | HTTP server, broadcasts | partial sends, three kinds of writers, two mutexes | frames are not interleaved, the endpoint comes first, no write to a closed socket |
| JSON-RPC bodies (`HandleMCPBody`, `HandleMCPMethod`, `CallMCPTool`) | none between requests | single, batch, notification, line | dispatcher, registries, settings | deadline in the middle of a batch | one answer per item with an id, none for a notification, nothing done behind the deadline |
| Dispatch, permissions, configuration (`core/`) | document, tree, patterns, runtime settings | load, apply, reload, set, save; dispatch | menu, editor, client tasks | each of the four lags behind the one before; failed save; hostile documents | no method runs that the permissions in force refuse, every limit in its range |
| Registries (`MCPToolRegistry` and others) | tables of tools, resources, prompts | list, validate, translate | methods, handlers | five tables kept by hand | what is listed is served, and takes what its schema promises |
| Execution control (`DebugController`) | `m_operationMutex`, `m_pauseSequence` | run, pause, steps, run-to, stop | debugger threads, client tasks | stop visible before its callback, commands that start late, deadlines | a success is that of one's own command |
| Session control (`DebugController`, `mcpattach`/`mcpdetach`) | last path, queued commands | init, restart, attach, detach | x64dbg's command thread | queued commands outlive their callers | attach reports the process that was asked for |
| Breakpoints (`BreakpointManager`) | none of its own; three tables in x64dbg | set, delete, enable, condition, log, list | debugger | snapshot against table, set-and-verify, lookup by address alone | a request does what it answers, and no more than it is permitted |
| Memory (`MemoryManager`) | none | read, write, search, regions, allocate | debugger | matches across chunks, unreadable pages | every match once, none across a hole, no byte made up |
| PE layout and dumps (`PEValidation.h`, `PEDump`, `DumpManager`) | a buffer, a file | validate, align, rebuild, detect, dump | memory, disk | 32-bit arithmetic on untrusted headers, full disk, resumed debuggee | a header rebuilt as a whole or not at all, with its sections and the answered entry point inside the file |
| Texts (`StringUtils.h`) | none | wildcard, Base64, hexadecimal, address, encoding | all handlers | restart after a star, the last group, digits that do not fit | a conversion is what it is for |
| Logger | file, backup, size | log, rotate, reopen | all | unsigned arithmetic, operations that fail | the file stays in its limit, the newest lines are kept |
| Scripts (`ScriptHandler`) | last result | execute, batch, last result | debugger | one result shared by clients | a batch stops where it was asked to |
| Event callbacks (`EventCallbackHandler`) | filters, switch | one per event | debugger, broadcasts | call during unload | no broadcast on a dead server |
| Plugin life cycle (`PluginEntry`, `ConfigEditor`) | server pointer, menu, dialog | load, setup, stop, menu, edit | all | restart, unload, a handler that loads settings while requests run | stop before unload, no setting lost |
| Thread pool | queue, workers | enqueue, stop | nobody | none: nothing uses it | – |

Registers, threads, stack, symbols, disassembly and the remaining handlers format
what one call of the debugger returns and keep no state; of them the model keeps what
they demand, which right they ask for and what they change. The length-prefixed TCP
server (`TCPServer`, `ConnectionManager`, `HeartbeatMonitor`, `ServerManager`) is not
compiled by `CMakeLists.txt`.

## Modules

| Module | What it is |
|---|---|
| `HttpServer` | the life of the HTTP server: start, stop, accept, tasks, streams, sessions, broadcasts |
| `Admission` | what that server promises about the clients it serves; `HttpServer` implements it |
| `MCHttpServer` | instances of `HttpServer` for TLC |
| `HttpServerProofs` | for all constants: types, the registries, stopping, the connection limit and the refinement of `Admission` |
| `HttpRequests` | from the bytes of a connection to the handler of its request: deadlines, limits, checks, routes |
| `EventStreams` | what the clients of event streams read: frames in parts, three kinds of writers, two mutexes |
| `EventStreamsProofs` | for all constants: frames and sessions |
| `Configuration` | document, tree, patterns, runtime settings; menu, editor and plugin life cycle |
| `SettingsProofs` | for all constants: `Configuration` and, on top of its invariant, `HttpRequests` |
| `McpRequests` | bodies, batches, methods, dispatch under changing settings, the script handler |
| `ToolCatalog`, `ToolHandlers` | the tables: tools with their schemas, handlers with demands, rights and changes, resources, prompts |
| `McpProofs` | for all constants: answers, deadlines, permissions, and that the tables fit each other |
| `LogFiles` | the log, its backup and the operations on them that may fail |
| `UtilityProofs` | for all constants: the lines of the log that are kept, the limit of its file, and the conversions of `Texts` |
| `MCServer` | composes these components of the server for TLC, one subject at a time |
| `DebugControl` | execution operations of the debugger and the pause sequence |
| `MCDebugControl` | instances of `DebugControl` for TLC |
| `DebugControlProofs` | for all constants: ownership of stops |
| `DebugSession` | init, restart and attach over x64dbg's command queue, and the cached path |
| `MCDebugSession` | instances of `DebugSession` for TLC |
| `DebugSessionProofs` | for all constants: types, the cached path, and attaches that are alone |
| `Breakpoints` | one breakpoint request against x64dbg's list, which changes meanwhile |
| `DebuggeeMemory` | the memory requests, chunk by chunk, over regions that change |
| `PEImage` | layout, alignment, rebuild and checksum of a PE image, as functions |
| `ModuleDump` | the dump requests over `PEImage`, against a debuggee that runs and a disk that fills |
| `DebuggeeProofs` | for all constants: `Breakpoints`, `DebuggeeMemory` and `ModuleDump` |
| `Texts` | wildcards, Base64, hexadecimal, addresses and doubly encoded names, each next to what it is for |
| `MCDebuggee` | composes `Breakpoints`, `DebuggeeMemory`, `ModuleDump` and `Texts` for TLC, one subject at a time |

### HttpServer

One action is one critical section or one call that other threads can see.

* `control` is the GUI thread inside `Start()` or `Stop()`. `StartListen`,
  `StartPublish`, `StartLaunch` are the three effects of a successful start in the
  order of the code; `StartFails`, `StartLaunchFails` its failures;
  `StartTerminates` the assignment to a joinable `std::thread`. `StopBegin` and
  `StopCloseListen` to `StopWithdraw` are the sections of `Stop()` in order.
  `Unload` is `plugstop()` with the destructor.
* `acceptor` and `accepted` are `ServerLoop()`. The mutex around "read `m_running`,
  insert the socket" is kept across two steps (`CheckRunning`, `Insert`), so that
  the properties depend on it: the mutant that ignores it is caught.
* `pc[c]` is the task of connection `c`, `socket[c]` its handle. `Accept` picks any
  handle that is closed: the operating system reuses handle numbers, and a registry entry that outlives its socket names
  somebody else's connection.
* `legacySessions[d]` is the socket in the session that connection `d` opened;
  `target[c]` the session a POST names, checked in `PostToSession` and looked up
  again in `Push`; `delivered` records who received which answer.
* `broadcast`, `pending` are the debugger thread inside `BroadcastNotification()`;
  the registry lock is held over several sends.
* Abstracted: what a request asks for (`Answer`, `Post` and `OpenStream` are
  choices; `HttpRequests` and `McpRequests` make them), the bytes on the wire
  (`EventStreams`), WinSock start-up. An `accept()` may fail at any time.

`Admission` knows neither threads nor sockets: the server is open or not, takes on
at most `MaxConnections` clients, each once, finishes each, and opens again only
when none is left. The refinement maps `open` to "the accept thread has not left
its loop", `serving` to the tasks that have not ended and `served` to those and the
ended ones. The accept thread, not `m_running`, is what admits: `Stop()` clears
`m_running` while an admission may still be on its way, and the accepted client is
then one of those `Stop()` waits for.

### DebugControl

* An element of `Ops` is one call; `pc[o]` walks through the source of the
  operation that `Kind[o]` names. `holder` is `m_operationMutex`; `sequence[o]` the
  value of `m_pauseSequence` read before the command; `seen[o]` identifies the stop
  whose address the call returned.
* `WaitForNewPause()` reads the session, the sequence and the running flag one
  after the other without a lock, so they are separate actions (`WaitEnds`,
  `WaitSequence`, `WaitConfirm`); `WaitTimesOut` is the deadline, after which the
  command stays in effect.
* The debugger is external and is described by two switches. With `LateCallback` a
  stop is visible before `CB_PauseDebug()` runs. With `DelayedStart` an accepted
  command may start after `DbgCmdExecDirect()` returned, the old stop being visible
  meanwhile, as in `tests/DebugExecutionTests.cpp`. `Undisturbed` says that no
  deadline passes and nobody but `Ops` resumes the debuggee.
* Abstracted: the address is "at the target or not"; a stop is a number; a failed
  break request or command is a choice; the wait of `Pause()` polls every 10 ms in
  the code, here whenever it is scheduled.

### DebugSession

* `pc[o]` walks through `Init()`, `Restart()` or `AttachProcess()`; `holder` is
  `m_operationMutex`, as in `DebugControl` (the two modules hold the same mutex and
  share nothing else, so each is checked with its own callers). The handler of init
  looks up the cached path before it takes the mutex (`ResolvePath`).
* `queue`, `command`, `thread` are the commands given to `DbgCmdExec()` and x64dbg's
  command thread. `Look`, `Detach`, `StopRest`, `Connect` are `AttachProcessCore()`
  and `DetachProcessCore()`, which run there without the mutex; the two sleeps are
  the points between them. A command stays queued when its caller gave up.
* `session` is what `DbgIsDebugging()` and `$pid` show: a process that ran before, or
  one that a call launched, named after that call. `created` is the time between the
  start of a session and `CB_CreateProcess()`, which the debug loop delivers before
  anything can end the session.
* `lastPath` is `m_lastDebuggedPath`. `lastStarted`, `rejected` (programs that failed to
  launch since) and `reported` (what an attach found) record history.
* x64dbg's `init`, `attach`, `detach` and `stop` are external: each may fail; `init` ends
  the session that there is, and the process with it. Processes exit at any time. A user
  who starts sessions by hand is left out.
* Abstracted: quoting of paths, the address and state in the reply, the wait for a
  pause after an attach, which changes nothing.

### Configuration

* `cfgFile`, `cfgTree`, `cfgPatterns` and `cfgRuntime` are `config.json`, the tree of
  `ConfigManager`, the patterns of `PermissionChecker` and what
  `ApplyRuntimeConfiguration()` set up. Each is taken from the one before by a handler
  of the GUI thread, which stops in between (`cfgDesk`), since requests are served
  meanwhile. `cfgServer` and `cfgChecked` are the running server and the menu's mark.
* A document is absent, unparsable, no object, or a function from settings to values
  with their types (`IsValue`); what is no document is a record of a field that no setting
  has (`Absent`, `Unparsable`, `NotAnObject`, `NoTree`). `WriteDocument` is anybody who
  writes the file at any time.
* `PluginInit`, `PluginSetup`, `PluginGone`, `MenuStart`, `MenuStop`, `MenuAutoStart`,
  `EditorShow`, `EditorCancel`, `EditorSave` are the handlers; a failing write leaves
  the old file, the new one, or a torn one.
* Abstracted: where the file is, which JSON text a document has, the words of messages.

### HttpRequests

* `httpConn` is the connection that is being served: bytes received, the deadline in
  force, the fields of its header. `ReceiveBytes` takes any number of bytes up to a
  chunk; `ReceiveEnds` and `ReceiveTimesOut` are the peer that closes and the deadline.
* `Check`, `Limit`, `Route` are `HandleHttpRequest()` in the order of its tests: host,
  origin, preflight, token; then the rate window that all connections share; then the
  route. Each reads the settings in force at that moment.
* Abstracted: characters (a field has the value that the check tells apart), several
  connections at once, as a request under reception shares only settings and the clock.

### McpRequests, ToolCatalog, ToolHandlers

* `mcpCalls[c]` is one body: items answered so far, the item under way and where its
  call is (validated, translated, permitted, dispatched, executing), what it changed.
  Between any two of these another client's call and, in the policy subject, an edit of
  the settings may come. The deadline passes at any item. `Bodies` are the bodies that
  clients send, in `MCServer` one item for each tool, resource and prompt, and batches.
* `ToolCatalog` is the table that `tools/list` publishes, `ToolHandlers` that of the
  registered methods: demanded parameters with what they accept, rights asked for, what
  is changed. Of the handlers that only query the debugger the model keeps no more.
* `scriptLast` is the script handler's shared result, modelled in full, with
  `capture_output` and the batch.
* Abstracted: texts, schemas beyond types, enumerations and required names.

### EventStreams

* A frame is written in up to `Parts` calls of `send()`; a part may fail. `sseRegistry`
  and `sseSending` are the two mutexes: every frame is written under the second, and an
  announcement, the answer to a POST and a broadcast (over all its streams) hold the
  first meanwhile.
* `sseTask[s]` walks through `HandleSSE()` or `HandleStreamableHttpStream()`: register,
  endpoint, heartbeats, withdrawal, close. `ssePost` is a POST to a session that its
  client was told. `sseWire[s]` is what reached the client.

### LogFiles

* `logFile` and `logBackup` are lines, `logSize` what `Logger` believes, `logStream` the
  state of the file. A rotation is a removal, a renaming and an opening with truncation,
  each of which may fail; `ApplyRuntimeConfiguration()` closes and reopens with another
  limit while others log. Sizes are `uint64_t`, modulo `SizeRange`.

### Breakpoints

* `bpTable` is x64dbg's list: for each address and type nothing, or an entry with its
  configuration, hit count, and which texts it has. `bpCall` is one request, which walks
  through the handler and `BreakpointManager`: command, read-back, undo, lookup and
  writing of each text, snapshot and removal, enabling and its confirmation.
* Between any two SDK calls the user, the debuggee or another client may change the list
  (`WorldStep`), and any SDK call that changes something may be refused. Once either
  happens, `bpBefore` is forgotten; until then it is the list that the request found, and
  the contract compares with it.
* A set places what x64dbg makes of it (`PossibleConfigs`), not always what was asked.

### DebuggeeMemory

* `memBytes` and `memRegions` are the memory; `memCall` reads or searches it chunk by
  chunk, and between two chunks a region may change or become unreadable. A search
  carries the tail of the chunk before; `memGaps` records where a read failed.
* Regions are a set: x64dbg's map is in the order of addresses, and a search takes the
  `Foremost` of its copy. `FoundIn` is the loop over the places of one buffer, which
  stops at the limit.
* `MemoryAssumption`, `SearchAssumption` and `RegionsAssumption` say what the constants
  are: sizes, chunks that are not empty, and maps whose regions do not overlap.

### PEImage and ModuleDump

* `PEImage` has no state: `ValidatePELayout`, `AlignPESections`, `RebuildPEHeaders`,
  `FixPEChecksum` and the section helpers over a buffer (its length and its header),
  with 32-bit and `size_t` arithmetic as `Max32` and `SizeSpan` say.
* `ModuleDump` is one request: pause, prepare, copy or read, entry point, rebuild,
  checksum, write. The debuggee may be resumed and the disk may fill between any two.
  Code is abstracted to its jumps and to the places where one of the four known
  prologues begins.
  A detection answers with the first jump out of the entry section, or with a prologue,
  or with nothing, as its reads succeed; no property rests on which.

### Texts

* Each conversion of `StringUtils.h` is an operator in the code's terms next to the
  definition of what it is for (`WildcardMatch` steps through its loop, `MatchIsExact`
  compares it with a match by parts: an end in the name for each character of the
  pattern). A state is one input and its result.
* `MatchIsExact` is about names without a star: where a `*` of the pattern meets one in the
  name, the loop takes it for a plain character, as the code compares the characters
  first. What it matches is methods and the names and paths of modules, which have none.
* An address is written with at least `AddressWidth` digits, more when the value needs
  them.

### Compositions

`MCServer` and `MCDebuggee` put components side by side. A behaviour is about one
subject, the others rest, since those components share no state of the plugin. What is
shared is composed: `McpRequests` and `HttpRequests` extend `Configuration` and read the
settings that its actions change (the subject "policy" runs calls against edits);
`ModuleDump` extends `PEImage`.

## Runs

| Run | Constants | Checks | Shows |
|---|---|---|---|
| `http_registry` | 3 connections of 2 origins, 3 handles, limit 2 | `TypeOK`, `RegistriesNameOpenSockets`, `HandlesFollowTasks`, `ResponseReachesItsSession`, `NoClientEscapesStop`, `StoppedIsQuiescent`, `ImplementsAdmission` | sockets in the registry, in sessions, in the active set and in a broadcast are open and the right client's; an answer goes to the session it was accepted for; stopping, the limit, the refinement |
| `http_start_after_accept_failure` | 2 connections, limit 1 | `StartNeverTerminates` is **violated** | see Findings |
| `server_requests` | see Bounds; fair | settings: `PermissionsFollowTree`, `LimitsAreUsable`, `OtherSettingsStay`, `RunningServerHasToken`; requests: `AnswersAreExact`, `NothingMoreIsDone`, `CatalogueIsServed`, `EffectsArePermitted`; reception: `ReceptionIsSound`, `RequestsAreChecked`; streams: `SessionIsAnnounced`, `FramesReachOpenStreams`; log: `NewestLinesAreKept`, `LinesFitTheLimit`; server: `StopReturns` | what the settings and the requests have to do with each other, subject by subject, and that `Stop()` returns |
| `debuggee_requests` | see Bounds; fair | breakpoints: `QuietRequestsMeetContract`, `CountIsOwnRemovals`, `TextsNeedPermission`, `BreakpointCallsReturn`; memory: `MemoryAnswersAreExact`; dumps: `RebuiltDumpIsConsistent`, `DumpsAreAllOrNothing`; texts: `ConversionsAreExact` | requests about the debuggee, subject by subject |
| `breakpoint_condition` | 1 address, one configuration | `ConditionOnOwnBreakpoint` is **violated** | see Findings |
| `debug_prompt_start` | 2 steps, run-to, run; 2 stops | `TypeOK`, `SuccessIsOwnStop`, `StepsReturnDistinctStops` | successes with late callbacks, timeouts, a user who resumes, an exit |
| `debug_delayed_start` | 2 steps, run-to, pause, stop; 3 stops | `SuccessIsOwnStop` | a debugger that starts late, as the repository's test plays it; calls that wait, and a stop that ends the session |
| `debug_calls_return` | step, run-to, pause; fair | `CallsReturn` | calls behind one mutex all return |
| `debug_late_callback` | run and step, first stop reported | `SuccessIsOwnStop` is **violated** | see Findings |
| `session_attach` | 4 attaches to 2 processes, one with `detach_first` = false; patient | `AttachReachesTarget`, `PoliteNeverDetaches` | attaches alone, with detaches that fail, processes that exit |
| `session_mixed` | init, restart, 2 attaches to one process; impatient, fair | `TypeOK`, `CacheNamesLastProgram`, `CallsReturn` | the cached path, written by two threads; calls return though commands fail |
| `session_target` | init, attach | `AttachReachesTarget` is **violated** | see Findings |

Several properties are conjunctions of named parts, each stated and commented on its own
where it is defined:

* `RegistriesNameOpenSockets`: `NoStaleTarget` (broadcasts), `SessionIsItsConnection`,
  `ActiveSocketsAreOpen`.
* `PermissionsFollowTree`: `AppliedSettingsFollowTree` whenever no handler is under way,
  `UnreadFileAllowsNothing`. `LimitsAreUsable`: `SettingsInRange` for every document,
  `EditorSavesWhatServerUses`. `OtherSettingsStay`: `EditorSavesTheEdit` (a
  save changes what is in force only where something was edited, whatever the document
  leaves out, but for a level outside the editor's list), `ToggleIsAllOrNothing`.
* `AnswersAreExact`: `AnswersMatchRequests` (order, ids, none missing, none doubled),
  `DeadlineDividesAnswers`. `NothingMoreIsDone`: `LateItemsDoNotAct`,
  `BatchStopsAtFailure`. `CatalogueIsServed`: `ListedIsServed`,
  `PromptsNameListedTools`.
* `ReceptionIsSound`: `RequestIsWhole`, `ReceptionIsBounded`. `RequestsAreChecked`:
  `ReflectedOriginIsAllowed`, `HandlersNeedToken`, `RateIsBounded`.
* `SessionIsAnnounced`: `EndpointComesFirst`, `AnnouncedSessionIsKnown`.
  `FramesReachOpenStreams`: `FramesDoNotInterleave`, `WritersHoldOpenStreams`.
* `QuietRequestsMeetContract`: `QuietSuccessMeetsContract` (a success that nothing
  disturbed has done to the list what `Contract` says of the operation),
  `QuietFailureAddsNothing`. `MemoryAnswersAreExact`: `SearchFindsEachOnce`,
  `ReadIsPrefix`. `RebuiltDumpIsConsistent`: `DumpedSectionsInFile`,
  `RewrittenHeaderWasRead`, `RebuiltEntryIsAnswered`. `DumpsAreAllOrNothing`: what
  is handed to the disk is the image as it was read or the completely rebuilt one, with
  the entry point that was chosen (`WholeDump`). `ConversionsAreExact`: `MatchIsExact`, `BytesSurviveText`, `NumbersAreNoNames`, `EncodingIsUndoneOnce`.

### Bounds

**HttpServer.** Connections are used once each. Three connections of which at most two are
served at a time are the smallest instance where one is refused or waits, where a handle
is used again while another stream is open, and where a third party's POST runs; two
origins are needed to see an answer cross over. Any closed handle may be reused, so a
spare one costs states and hides nothing. Starts and stops are not bounded: the state
space is finite without it. Connections of one origin and handles are interchangeable,
hence the symmetry (no formula of that run needs fairness). `server_requests` repeats the
server with two connections and no symmetry for `StopReturns`.

**server_requests.** Documents: three hostile ones (missing token, numbers out of range,
values of other types, settings without a control) besides those that the editor writes;
edits: a permissive and a restrictive policy with numbers at their bounds, nothing, a
number past its bound, no token. Catalogue: every tool with its required arguments, with
all, with each one missing, and with each one of every kind of value; every resource,
template and prompt, and unknown names. Traffic: two clients, batches of at most
`MaxBatch` = 3 items (128 in the code; the limit is met and passed), two commands in a
script batch (the second follows a failure). Reception: header limit 4, body limit 7,
chunk 2, so that messages end at, before and behind each limit and inside a chunk;
header timeout 2 with request timeouts below and above it; a rate of one request per
window over two windows. Streams: one legacy and one streamable stream, two parts a
frame, three frames, so that any two of the three kinds of writers meet in the middle of
a frame. Log: four lines of sizes 1, 2 and 9 against limits 3 and 4: a line fits, causes
a rotation, or is larger than the limit.

**debuggee_requests.** One address (all three types meet there), two hardware
configurations in each dimension, one hit. Memory: six addresses and two maps, with a
hole, adjacent regions and a reserved one; chunks of two bytes, patterns empty, within a
chunk, across one chunk and across two. Dumps: numbers of four bits and a `size_t` of
six, so that sums wrap within reach; six images (entry in either section, a packer's
names, a negative header offset, a section over the header, a section whose aligned size
exceeds 32 bits); forced entries inside, at the end of, and outside the image. Texts:
names and patterns of up to three characters, bytes at the borders of Base64 digits,
code points of one and two bytes, numbers at the border of `AddressSpan`, addresses of
at least one digit (16 or 8 in the code), so that some are written with more.

**DebugControl.** `MaxStops` bounds how often the debuggee stops; afterwards it runs on.
Two stops suffice for two steps that must differ, three let a run-to follow both; a
single one makes a call wait in vain, which is what `debug_calls_return` needs. Each call
is made once; between `debug_prompt_start` and `debug_delayed_start` two steps meet every
other operation.

**DebugSession** needs no bound: each call is made once and queues at most two commands.
Two processes of different programs are the fewest that an attach can confuse; an init
with or without a path, a restart and two attaches let the cached path be written in
every order, and an attach find its process debugged already. `Patient` says that no
deadline passes while the command thread has something to do; without it a success may
be on the process that an earlier, timed-out attach asked for.

Runs where the program may rest for good (all calls returned, the last frame written, the
clock at its end) switch off the deadlock check; in `HttpServer` the end of the process
is an explicit step instead, so deadlock is checked in `http_registry`.

### Fairness

Weak fairness of each thread: a thread that can go on does. `AcceptorAdvances` includes
`accept()` returning an error once the listener is closed, `TaskAdvances` includes
that a receive ends (its deadline, or the shutdown) and that a call returns; a
stream's loop is obliged to end only after `m_running` is cleared, never because the
client goes away. Nothing obliges a client to connect or to close, nor anybody to
start or stop the server. That a call returns is itself the property
`debug_calls_return` checks for the calls that wait: there a thread gets a mutex that
stays free (weak fairness is enough, as every call is made once), and a deadline passes
at last (strong fairness, because the loop of `WaitForNewPause()` leaves and re-enters
the place where the clock is read). The debuggee owes nothing: it may run forever. In
`session_mixed` the command thread goes on as well, so that it runs what is
queued, but it may fail at all of it; no process has to exit. In `debuggee_requests`
only the step of a breakpoint request that is being executed is fair; the world may
change the list between all of its steps.

## Findings

Four runs expect a violation; `PROJECT.json` quotes the text that each contradicts.

* **`Start()` after the accept loop left by itself** (`MCPHttpServer.cpp:373`). When
  `accept()` fails, `ServerLoop()` clears `m_running` and leaves. The thread stays
  joinable, the menu refuses to stop a server that does not run, and the next
  `Start()` move-assigns a new thread over the joinable one: `std::terminate` ends the
  debugger. It also overwrites `m_listenSocket` without closing it.
* **A step that returns its starting point** (`DebugController.cpp:167`).
  `WaitForNewPause()` takes any increment of the sequence for the new stop. The run begins
  at a stop whose callback has run. `debug.run` resumes and returns; the debuggee stops
  again, the stop is visible and its callback outstanding. A step passes its test and reads
  the old sequence; then the callback increments it (in TLC's trace just before the step
  issues its command); the command starts late, so that the old stop is still visible, and
  the step succeeds with the address it started from. It takes a late callback and a delayed start together; with
  either alone the property is proved (below).
* **An attach that succeeds on another session** (`DebugController.cpp:423`).
  `WaitForDebugging()` takes any session for the one asked for, and a different process
  id is only logged. After `debug.init`, which only queues its command, an attach finds
  nothing debugged, queues `mcpattach` behind the init and succeeds on the launched
  program; its own command then detaches or kills that program.
* **A condition on another breakpoint** (`BreakpointHandler.cpp:161`). `breakpoint.set`
  with a condition creates a breakpoint of the type asked for and then conditions the
  one that a lookup by address alone prefers. Where a software breakpoint is already at
  the address, a hardware breakpoint stays unconditional, the existing one becomes
  conditional, and the request answers success.

Met while modelling, and in the model as the code has them, but without a run of their
own:

* `detach_first` = false is tested when the attach is called; `CmdMcpAttach()` always
  passes `true` (`PluginEntry.cpp:473`), so that behind a queued init the launched
  session is detached or stopped. `PoliteNeverDetaches` is checked where attaches are
  alone.
* `WildcardMatch()` takes a literal `*` in the name for the pattern's star;
  `MatchIsExact` leaves such names out.
* `ParseAddress()` reads plain decimal digits as hexadecimal, although its comment says
  "Supports hex (0x...), decimal" (`StringUtils.h:195`); `0x-1` is accepted and wraps,
  `+10` is decimal.
* After a log rotation whose renaming failed, the log is opened with truncation and
  its lines are gone (`Logger.cpp:93-95`); `NewestLinesAreKept` speaks of operations
  that succeed.
* `script.execute` with `capture_output` may answer with another client's output
  (`ScriptHandler.cpp:52`), as one last result is shared.
* The published default of `stop_on_error` is true (`MCPToolRegistry.cpp:772`), that of
  `ScriptHandler` false; `include_memory` of `context.get_snapshot` is never read.
* `notifications/initialized` with an id gets no answer. `GetHttpStatusText()` has no text
  for 401, 403 and 429.
* `ConfigManager` and the editor do not look at the stream after writing: a save onto a
  full disk answers success. `DumpMemoryRegion()` does not either (`DumpManager.cpp:710-715`).
* A `dump.module` whose rebuild failed answers success and names a `new_ep` that its file
  does not have (`DumpManager.cpp:609`, `629-632`, `DumpHandler.cpp:279`).
* The editor's list of levels has "debug", "info", "warning" and "error"
  (`ConfigEditor.cpp:361-363`, `403-405`): a save turns "trace" and "critical" into "info".
  `OtherSettingsStay` makes that one exception.
* The menu's auto-start entry writes the tree of the last load over `config.json`
  (`PluginEntry.cpp:365-366`), and the editor the document that it was opened with: what
  was written into the file meanwhile is gone. A file that the editor could not open is
  shown, and saved, as the defaults (`ConfigEditor.cpp:142`).

## What is proved

TLAPS checks these for every value of the constants, under the named assumptions of
the modules. All proofs are of the form "holds initially, every step preserves it"; the
definitions named below are the parts of the inductive invariants. The assumptions say
only what the constants are:

* `None` is no connection, socket, call or entry; limits and chunks
  are positive; each connection has an origin, each call a kind; sizes and bounds are
  natural numbers; a `size_t` is wider than the fields of a header (`PEAssumption`).
* `DocumentsAssumption`, `EditsAssumption`: a document gives each of its settings a truth,
  a number, a numeral, a text or a list; a control of the editor yields values of its type.
* `BodiesAssumption`: the items of a body are numbered from 1, and an item without
  parameters names no tool, prompt or resource.
* `LogAssumption`: the limits are within the range of the numbers that count bytes.
* `TextsAssumption`: bytes are below 256, code points below 2048 (the model's encoding has
  one and two bytes), the span and the width of addresses are positive.

Nothing is assumed of the order of events, of who comes first, or of what fails, except
in the five theorems whose statements say so (`SuccessIsOwned`, `DistinctStops`,
`SuccessIsOwnedAlthoughDelayed` and the two on attaches) and in `ChecksHold`, where the
settings rest as they do in its run.

**HttpServerProofs.** The inductive invariant relates each handle in a registry to
the task that holds it: a handle is open exactly while its task lives
(`HandlesFollowTasks`), no two connections hold the same (needed because a session
found by handle must be its own connection's), the stream registry holds only handles
of tasks between registering and closing, and a broadcast's `pending` is part of the
registry as long as it holds the lock. From it: `TypeCorrect`, `HandlesAreClosed`,
`RegistriesAreCurrent`, `ResponsesReachTheirSession`. The second half adds where `Stop()`
is: until it has walked the active sockets the accept loop may register more, because
both sides hold the mutex; after it, whoever is active was shut down
(`StopReachesEveryClient`). A task is in `m_clientTasks`, in `draining`, or the one the
accept loop is about to enrol, so that draining all leaves none (`StopLeavesNothing`);
the same partition with the size test of the accept loop gives the limit
(`ConnectionLimit`, by the cardinality theorems of the library). `AdmissionImplemented`
maps every step to a step of `Admission` or a stutter.

**SettingsProofs.** `CfgInv` says where each of the four copies of the settings stands
while a handler is under way: the patterns are those of the tree when it is through
(`PatternsFollow`), the switch for events one handler earlier (`EventsFollow`), what the
dialog shows can be saved (`Shown`) and what it saved loads within the ranges (`Saved`). A
running server has a token because only the editor loads the file meanwhile and the
editor refuses to save without one (`Guarding`). Hence `ServerHasToken`,
`PermissionsAreOfTree`, `LimitsAreInRange`, and `SettingsAreKept` as an action property:
for each setting that the program reads, what the editor shows for a document without it is
what the program takes for it (`SameRead`, `DefaultRead`), so that saving the controls leaves
it in force (`SaveKeepsInForce`).
Reception: `ReceptionInv` bounds the bytes received by the limits and the clock by the
deadline in force, which a header only ever brings forward as far as it may
(`ReceptionHolds`). Checks: `CheckInv` carries what a request has passed to the step it is
at, and `RateInv` counts the requests let through in each span of a window (`Spans`): the
window in force admits no more than the limit, the one before it no more either, so that
a span across the border has at most twice as many (`ChecksHold`).

**McpProofs.** `McpInv` says of every client's body: its answers belong to the items before
the one in hand, in order, one for each that asks for one, and the timeouts begin at the
item at which the deadline passed (`AnswersOf`); what has been executed lies before that
item (`Working`); a batch that stops on errors has had none but its last (`Commanding`);
and a call behind its check matched a pattern, and asked for a right, that was in force
at some time since its item was taken (`Permitted`). Between the check and the change the
settings may be withdrawn: the right was in force then, and the theorem says no more
than that. `EffectsPermitted` also needs that each handler asks for the rights that its
change calls for, which the lemmas on the table establish handler by handler. Hence
`AnswersExact`, `NothingMoreHappens`, `EffectsPermitted`. `CatalogueServed` rests on two
tables of a hundred rows, kept by hand in the code: the lemmas `DebugFits` to
`ContextFits` compare the tools with the handlers of one family each, `FamiliesAreClosed`
that no method is in two families, `ReadersDemand` that what a resource's URI names is
what its handler demands. The invariant `ServedInv` then takes the fit through a call:
a verdict of an unknown method or a missing parameter is never given to a call that the
tables say is served (`Rightly`), as the call is executed with the method and the
arguments of its item (`Asked`).

**EventStreamsProofs.** The invariant says who holds which mutex: a frame under way
belongs to the one writer in `SendAll()`, a broadcast's targets are registered while it
holds the registry, and a task that withdraws waits for that mutex. So no part of a
frame comes between two of another, and nobody writes to a stream after its socket was
closed (`FramesArrive`). The wire of a legacy stream is explained by where its task is,
and a session is known from before the endpoint is written until withdrawal
(`SessionsAreAnnounced`). Any number of streams, parts and frames.

**UtilityProofs, the log.** While nothing failed, the lines of log and backup are numbered without a gap
up to the last one (`Numbered`), and an empty log under an open stream is known to be
empty, which is why a rotation never throws a line away (`NewestAreKept`). `LogIsBounded`
needs sums over sequences of any length. They are had by induction, for which the lemma
`AllNumbers` states the least-number principle over sets of numbers, from the library's
facts on well-founded relations: `BytesOf` of a log with one more line is the sum before
and that line (`BytesOfAppended`).

**UtilityProofs, texts.** `ConversionsHold`, for names, patterns, bytes and addresses of any
length. The matcher is a loop, and its invariant (`MatchOK`) says that the whole question
has become a smaller one: the pattern fits the name exactly if what is left of the
pattern fits what is left of the name, or if the last star, taking more than it has taken
so far, lets it fit (`Decides`; `Within` bounds the positions). That one saved star is
enough is the argument of `NothingFits` and `StarTakesMore`: an earlier star need never
take more, as the last one can take whatever that would leave. The other jobs are done in one step, so
their invariant is the property itself (`JobOK`), and the work is in the functions: a
function over 0..n that is defined by recursion exists and has the expected values
(`Recursion`, `UptoEnd`), which carries `WithoutSpaces`, `ValueOf`, `FormatAddress`, `Utf8`
and `Utf16`. `Base64Survives` decodes group by group and the last group by its padding;
`HexSurvives` has the space anywhere; `AddressSurvives` reads the quotients by 16 back as
the value, from the first width with nothing left; `NamesSurvive` is that `Utf16(Utf8(p)) = p`,
by where each code point is placed, and `TwiceIsUndone` follows.

**DebugControlProofs.** `TypeCorrect` for every debugger. `SuccessIsOwned`: when commands
start at once, whoever waits either has its command running (and nobody can take
over, as commands and users resume only at a stop) or at a stop; the invariant does
not need the mutex or the sequence at all. `DistinctStops` does need the mutex: the stop
a waiter may return is newer than all that were returned before.
`SuccessIsOwnedAlthoughDelayed`: when commands may start late, the mutex makes at most
one command outstanding, so that with prompt callbacks, no deadline, no user and no
`debug.run` the first increment of the sequence is one's own. The hypotheses are
exactly what the finding on steps violates.

**DebugSessionProofs.** `CacheIsLast`: whenever calls and commands are through, the cached
path is the last session's program, or one that failed to launch since. Both the caller
of `Init()` and `CB_CreateProcess()` write it, in either order. The invariant explains each
moment when they differ: a creation that is not reported yet, a call that has queued its
command and not cached its path (`CachingIsLast`: the mutex keeps anything from being
queued behind that command, so it has run last or not at all), or a queued launch of
the cached path. `SettledStays` is why a queued launch still means what it meant: the
call no longer changes its path. `TypeCorrect` comes from the same invariant. Under
`AttachesAlone` (all calls are attaches, and no deadline passes before the command thread
is through): a queued attach is the last command in the queue, its caller still waits
and holds the mutex, and nothing is debugged, as detaches that came late stand before
it. So the session that the caller sees is the one it asked for
(`AttachesReachTheirTargets`), and a detach is never on behalf of a polite attach
(`PoliteAttachesAreKind`). The finding on attaches shows that the first hypothesis is
needed.

**DebuggeeProofs, breakpoints.** `BreakpointsTypeCorrect`, `TextsArePermitted`,
`OwnRemovalsAreCounted`: a call that goes on at all was permitted, a text to be written
was asked for with both rights (`Permitted`), and the count of a `delete_all` equals its
own removals at each step (`Counted`), whatever changes the list in between.
`QuietContractKept` is about a request that nothing disturbs: `QuietInv` says, operation by
operation, how far the list has come from the one that the request found (`SetQuiet`,
`TextQuiet`, `DeleteQuiet`, `DeleteAllQuiet`, `SwitchQuiet`): a set that is verified
differs in its own entry only, a delete has removed what is not in `todo` any more, a
toggle knows which entry it found first. At "ok" that is the contract. A `delete_all`
counts a finite set though addresses need not be finitely many. All addresses,
configurations and texts.

**DebuggeeProofs, dumps.** `RebuiltDumps`, from `DumpedSections`, `RewrittenHeaders` and
`RebuiltEntries`: for every image, request and width of numbers, the sections and the
entry point of a rebuilt dump lie inside the file, the answer names that entry point,
and only a header that was read completely is rewritten. The invariant `DumpInv` carries
from the rebuild to the answer what `AlignPESections` and `RebuildPEHeaders` establish.
`DumpsAreWhole`: the image handed to the disk was rebuilt completely or not at all.
`WholeInv` carries that from the choice of the entry point, which a rebuild may refuse,
over the rebuild (`RebuildIsWhole`) and the clearing of the checksum (`ChecksumIsWhole`)
to the file.

**DebuggeeProofs, memory.** `MemoryAnswers`, for every map, chunk size, pattern, window and
limit. `Scanned` says that everything before an address was looked at: what was found
is in order, is to be found and lies before it, and each match before it is found or
beyond the limit. Three inductions carry it along: over the places of one buffer
(`BufferIsSearched`, from `OnePlace`), over the chunks of a region (`SearchingIn`), and over
the regions of the map (`BetweenRegions`). The hard part is what two chunks share:
`CarriesEnough` says that a match which was not seen yet begins no earlier than the bytes
carried over, because as many were carried as a match can leave behind, or because the
region or the last gap ends there. Protections that change between two chunks leave the
shape of the map alone (`MapKeepsShape`), and the search's own copy may be old in
nothing else (`SameRegion`). For a read, `Reading` says that what was read so far is in
the buffer and is a whole number of chunks, or everything. Induction over the places of a
buffer is done with sets (`AllNumbers`: a set of numbers with 0 and every successor has
all of them).

Some definitions had to change to be proved about, and all were better for it:
`Control`, `FromControls` and `MatchStep` were written with `CASE` arms that overlap, although
the code tests in order; `FormatAddress` had as many digits as the model's bound on texts,
where the code has the width of the target's addresses; `MatchIsExact` claimed to hold for
names with a star, of which the run has none; the bodies of clients were built in the model itself, where a
constant now names them; and a search sorted all matches of a buffer, where the code looks
at one place after the other until it has enough.

### Only model-checked

* Liveness under fairness, which is out of the prover's reach: `StopReturns`,
  `CallsReturn`, `BreakpointCallsReturn`.

Every safety invariant and action property of the passing runs is also a theorem.

## Not modelled

* The thread pool: nothing in the plugin uses it. The length-prefixed TCP server: not
  compiled.
* The managers behind registers, threads, stack, symbols and disassembly, the search for
  references and the comparison of snapshots: they format what one query of the
  debugger returns and keep no state; of their handlers the model has what they demand,
  ask for and change.
* `JSONRPCParser` (used by the TCP server only), `ResponseBuilder`, descriptions and
  schemas beyond types, the wording of replies and the levels of the log.
* Which debug event a callback broadcasts and what it says.
* Import reconstruction, which is refused, and the transfer-address search, which
  nothing calls.
* Two hazards are listed without a property. `PumpGuiMessages()` calls
  `GuiUpdateAllViews()` from client tasks while the GUI thread may wait in `Stop()` for
  that very task; whether the call waits for the GUI thread is decided by x64dbg. A slow
  detach ends with the debuggee being stopped: the model has it, and no text promises
  otherwise.

## Plan

What remains, most useful first:

1. The event callbacks with their filters; the snapshots' comparison.
