--------------------------- MODULE Configuration ---------------------------
(***************************************************************************)
(* The settings of the plugin: config.json on the disk, the tree that      *)
(* ConfigManager holds of it, the patterns that PermissionChecker took     *)
(* from the tree, and what else follows it (src/src/core/ConfigManager.cpp,*)
(* PermissionChecker.cpp, ui/ConfigEditor.cpp, PluginEntry.cpp).           *)
(*                                                                         *)
(* Everything here but WriteDocument runs on the GUI thread of x64dbg, one *)
(* handler at a time; a handler that loads the file stops between the load *)
(* and what applies it, because requests are served meanwhile.             *)
(*                                                                         *)
(* A document is Absent, Unparsable, NotAnObject (JSON, but no object) or  *)
(* a function from the settings it holds to their values; a setting is     *)
(* named by the last part of its path.  NoTree is the null that m_config   *)
(* is before a Load().                                                     *)
(***************************************************************************)
EXTENDS Integers

CONSTANTS
  Documents,  \* what someone may write into config.json
  Edits       \* what someone may change in the editor

VARIABLES
  cfgFile,      \* config.json
  cfgTree,      \* ConfigManager::m_config
  cfgPatterns,  \* PermissionChecker::m_allowedMethods
  cfgRuntime,   \* what ApplyRuntimeConfiguration() set up
  cfgChecked,   \* the check mark of "Auto Start MCP on Plugin Load"
  cfgServer,    \* the HTTP server runs
  cfgDesk       \* where the GUI thread is, and what the editor holds

cfgVars == <<cfgFile, cfgTree, cfgPatterns, cfgRuntime, cfgChecked, cfgServer, cfgDesk>>

-----------------------------------------------------------------------------
(* Values, and reading them.                                               *)

\* No setting has one of these names.
Absent == [file |-> "absent"]
Unparsable == [file |-> "unparsable"]
NotAnObject == [json |-> "other"]
NoTree == [json |-> "null"]

Truth(b) == [truth |-> b]
Num(n) == [number |-> n]
Numeral(n) == [numeral |-> n]   \* a string that reads as the number n
Text(s) == [text |-> s]
List(names) == [list |-> names]
IsValue(value) ==
    \/ DOMAIN value = {"truth"} /\ value.truth \in BOOLEAN
    \/ DOMAIN value = {"number"} /\ value.number \in Int
    \/ DOMAIN value = {"numeral"} /\ value.numeral \in Int
    \/ DOMAIN value \in {{"text"}, {"list"}}

CreateDefaultConfig ==
    [address |-> Text("127.0.0.1"), port |-> Num(3000), max_connections |-> Num(128),
     allow_memory_write |-> Truth(FALSE), allow_register_write |-> Truth(FALSE),
     allow_script_execution |-> Truth(FALSE), allow_breakpoint_modification |-> Truth(TRUE),
     allowed_methods |-> List({"debug.*", "register.*", "memory.*", "breakpoint.*", "disasm.*",
                               "disassembly.*", "module.*", "symbol.*", "thread.*", "stack.*",
                               "comment.*", "context.*", "dump.*", "eval.*", "xref.*",
                               "function.*", "assembler.*", "bookmark.*", "patch.*"}),
     logging |-> Truth(TRUE), level |-> Text("info"), max_file_size_mb |-> Num(10),
     origin_allowlist |-> List({}), host_allowlist |-> List({}),
     auth_enabled |-> Truth(FALSE), auth_token |-> Text(""),
     request_timeout_ms |-> Num(30000), step_timeout_ms |-> Num(10000),
     memory_read_timeout_ms |-> Num(5000),
     enable_notifications |-> Truth(TRUE), enable_heartbeat |-> Truth(TRUE),
     heartbeat_interval_seconds |-> Num(30),
     enable_batch_requests |-> Truth(TRUE), auto_start_mcp_on_plugin_load |-> Truth(FALSE)]

IsObject(tree) == tree \notin {Absent, Unparsable, NotAnObject, NoTree}

ASSUME DocumentsAssumption ==
    \A document \in Documents :
        IsObject(document) /\ \A k \in DOMAIN document : IsValue(document[k])

\* GetNestedValue() finds something there.
Has(tree, key) == IsObject(tree) /\ key \in DOMAIN tree

\* Get<T>(): the value if it has the type, the default otherwise.
GetTruth(tree, key, default) ==
    IF Has(tree, key) /\ "truth" \in DOMAIN tree[key] THEN tree[key].truth ELSE default
GetText(tree, key, default) ==
    IF Has(tree, key) /\ "text" \in DOMAIN tree[key] THEN tree[key].text ELSE default
GetInt(tree, key, default) ==
    IF ~Has(tree, key) THEN default
    ELSE LET value == tree[key]
         IN  CASE "number" \in DOMAIN value -> value.number
               [] "truth" \in DOMAIN value -> IF value.truth THEN 1 ELSE 0
               [] OTHER -> default

\* Mutant: no lower bound.
GetBoundedAbove(tree, key, fallback, maximum) ==
    LET read == IF Has(tree, key) /\ "number" \in DOMAIN tree[key]
                THEN tree[key].number ELSE fallback
    IN  IF read <= maximum THEN read ELSE fallback

\* GetBoundedPositive() over ValidateUInt32(): a numeral counts as a number.
GetBounded(tree, key, fallback, maximum) ==
    LET value == IF Has(tree, key) THEN tree[key] ELSE Num(fallback)
        read == CASE "number" \in DOMAIN value -> value.number
                  [] "numeral" \in DOMAIN value -> value.numeral
                  [] OTHER -> -1
    IN  IF read >= 1 /\ read <= maximum THEN read ELSE fallback

Ports == 1..65535
GetServerPort(tree) ==
    LET port == GetInt(tree, "port", 3000) IN IF port \in Ports THEN port ELSE 3000
GetServerAddress(tree) ==
    LET address_ == GetText(tree, "address", "127.0.0.1")
    IN  IF address_ = "" THEN "127.0.0.1" ELSE address_
MaxTimeout == 3600000
MaxInterval == 86400
MaxLogSize == 1024
GetRequestTimeout(tree) == GetBounded(tree, "request_timeout_ms", 30000, MaxTimeout)
GetStepTimeout(tree) == GetBounded(tree, "step_timeout_ms", 10000, MaxTimeout)
GetMemoryReadTimeout(tree) == GetBounded(tree, "memory_read_timeout_ms", 5000, MaxTimeout)
GetHeartbeatInterval(tree) == GetBounded(tree, "heartbeat_interval_seconds", 30, MaxInterval)
LogLimit(tree) == GetBounded(tree, "max_file_size_mb", 10, MaxLogSize)
AuthToken(tree) == GetText(tree, "auth_token", "")
AutoStart(tree) == GetTruth(tree, "auto_start_mcp_on_plugin_load", FALSE)

\* The permissions that handlers ask for.
RightsOf(tree) ==
    {r \in {"memory", "register", "script", "breakpoint"} :
        CASE r = "memory" -> GetTruth(tree, "allow_memory_write", FALSE)
          [] r = "register" -> GetTruth(tree, "allow_register_write", FALSE)
          [] r = "script" -> GetTruth(tree, "allow_script_execution", FALSE)
          [] r = "breakpoint" -> GetTruth(tree, "allow_breakpoint_modification", TRUE)}

\* PermissionChecker::Initialize() clears what it held; a list that is not
\* there, or no list, allows nothing.
AllowedPatterns(tree) ==
    IF Has(tree, "allowed_methods") /\ "list" \in DOMAIN tree.allowed_methods
    THEN tree.allowed_methods.list ELSE {}

\* ApplyRuntimeConfiguration().
RuntimeOf(tree) ==
    [events |-> GetTruth(tree, "enable_notifications", TRUE),
     logging |-> GetTruth(tree, "logging", TRUE),
     level |-> LET level == GetText(tree, "level", "info")
               IN  IF level \in {"trace", "debug", "warning", "error", "critical"}
                   THEN level ELSE "info",
     limit |-> LogLimit(tree)]

\* Before that the logger is not open, and events are on.
FreshRuntime == [RuntimeOf(NoTree) EXCEPT !.logging = FALSE]

-----------------------------------------------------------------------------
(* Loading and applying: the part that pluginit(), the start of the server *)
(* and the editor have in common.                                          *)

Desk(at, purpose) == [at |-> at, purpose |-> purpose, shown |-> NoTree]
DeskIdle == Desk("idle", "none")

\* ConfigManager::Load(); every failure leaves the tree.
LoadTree ==
    /\ cfgDesk.at = "load"
    /\ \/ cfgFile = Absent /\ cfgFile' = CreateDefaultConfig /\ cfgTree' = CreateDefaultConfig
       \/ cfgFile \notin {Absent, Unparsable} /\ cfgTree' = cfgFile /\ UNCHANGED cfgFile
       \/ UNCHANGED <<cfgFile, cfgTree>>  \* not created, not opened, not parsed
    /\ cfgDesk' = [cfgDesk EXCEPT !.at = "apply"]
    /\ UNCHANGED <<cfgPatterns, cfgRuntime, cfgChecked, cfgServer>>

ApplyRuntime ==
    /\ cfgDesk.at = "apply"
    /\ cfgRuntime' = RuntimeOf(cfgTree)
    /\ cfgDesk' = [cfgDesk EXCEPT !.at = "permit"]
    /\ UNCHANGED <<cfgFile, cfgTree, cfgPatterns, cfgChecked, cfgServer>>

\* Mutant: the patterns of before are not cleared.
InitializeKeeping ==
    /\ cfgDesk.at = "permit"
    /\ cfgPatterns' = cfgPatterns \cup AllowedPatterns(cfgTree)
    /\ cfgChecked' = IF cfgDesk.purpose = "editor" THEN AutoStart(cfgTree) ELSE cfgChecked
    /\ cfgDesk' = IF cfgDesk.purpose = "start" THEN [cfgDesk EXCEPT !.at = "listen"] ELSE DeskIdle
    /\ UNCHANGED <<cfgFile, cfgTree, cfgRuntime, cfgServer>>

\* What follows PermissionChecker::Initialize() depends on who called: the
\* editor updates the check mark, pluginit() looks at the auto-start option.
InitializePermissions ==
    /\ cfgDesk.at = "permit"
    /\ cfgPatterns' = AllowedPatterns(cfgTree)
    /\ cfgChecked' = IF cfgDesk.purpose = "editor" THEN AutoStart(cfgTree) ELSE cfgChecked
    /\ cfgDesk' = CASE cfgDesk.purpose = "editor" -> DeskIdle
                    [] cfgDesk.purpose = "plugin" ->
                         IF AutoStart(cfgTree) THEN Desk("apply", "autostart")
                         ELSE Desk("setup", "none")
                    [] OTHER -> [cfgDesk EXCEPT !.at = "listen"]
    /\ UNCHANGED <<cfgFile, cfgTree, cfgRuntime, cfgServer>>

TokenMissing(tree) ==
    GetTruth(tree, "auth_enabled", FALSE) /\ AuthToken(tree) = ""

\* MCPHttpServer::Start() as its caller sees it.
StartServer ==
    /\ cfgDesk.at = "listen"
    /\ cfgServer' \in IF TokenMissing(cfgTree) THEN {FALSE} ELSE BOOLEAN
    /\ cfgDesk' = IF cfgDesk.purpose = "autostart" THEN Desk("setup", "none") ELSE DeskIdle
    /\ UNCHANGED <<cfgFile, cfgTree, cfgPatterns, cfgRuntime, cfgChecked>>

-----------------------------------------------------------------------------
(* The life of the plugin.                                                 *)

CfgInit ==
    /\ cfgFile \in Documents \cup {Absent, Unparsable, NotAnObject}
    /\ cfgTree = NoTree /\ cfgPatterns = {} /\ cfgRuntime = FreshRuntime
    /\ cfgChecked = FALSE /\ cfgServer = FALSE
    /\ cfgDesk = Desk("out", "none")

\* pluginit() up to Load(): a missing file is created, and when its
\* directory cannot be, neither Load() nor ApplyRuntimeConfiguration() run.
PluginInit ==
    /\ cfgDesk.at = "out"
    /\ \/ cfgFile = Absent /\ cfgDesk' = Desk("permit", "plugin") /\ UNCHANGED cfgFile
       \/ /\ cfgFile' \in IF cfgFile = Absent THEN {Absent, CreateDefaultConfig} ELSE {cfgFile}
          /\ cfgDesk' = Desk("load", "plugin")
    /\ UNCHANGED <<cfgTree, cfgPatterns, cfgRuntime, cfgChecked, cfgServer>>

PluginSetup ==
    /\ cfgDesk.at = "setup"
    /\ cfgChecked' = AutoStart(cfgTree)
    /\ cfgDesk' = DeskIdle
    /\ UNCHANGED <<cfgFile, cfgTree, cfgPatterns, cfgRuntime, cfgServer>>

\* plugstop() and the unloading, or the end of x64dbg: all but the file goes.
PluginGone ==
    /\ cfgDesk.at # "out"
    /\ cfgTree' = NoTree /\ cfgPatterns' = {} /\ cfgRuntime' = FreshRuntime
    /\ cfgChecked' = FALSE /\ cfgServer' = FALSE
    /\ cfgDesk' = Desk("out", "none")
    /\ UNCHANGED cfgFile

\* config.json is edited by hand, not just while a handler reads or writes it.
WriteDocument ==
    /\ cfgDesk.at \in {"out", "idle", "dialog"}
    /\ cfgFile' \in Documents \cup {Unparsable, NotAnObject}
    /\ UNCHANGED <<cfgTree, cfgPatterns, cfgRuntime, cfgChecked, cfgServer, cfgDesk>>

-----------------------------------------------------------------------------
(* The menu: CB_MenuEntry().                                               *)

MenuStart ==
    /\ cfgDesk.at = "idle" /\ ~cfgServer
    /\ cfgDesk' = Desk("load", "start")
    /\ UNCHANGED <<cfgFile, cfgTree, cfgPatterns, cfgRuntime, cfgChecked, cfgServer>>

MenuStop ==
    /\ cfgDesk.at = "idle" /\ cfgServer
    /\ cfgServer' = FALSE
    /\ UNCHANGED <<cfgFile, cfgTree, cfgPatterns, cfgRuntime, cfgChecked, cfgDesk>>

\* SetNestedValue(): null becomes an object, any other tree that is no
\* object makes it throw.
WithAutoStart(tree, enabled) ==
    LET base == IF tree = NoTree THEN [k \in {} |-> Truth(FALSE)] ELSE tree
    IN  [k \in DOMAIN base \cup {"auto_start_mcp_on_plugin_load"} |->
            IF k = "auto_start_mcp_on_plugin_load" THEN Truth(enabled) ELSE base[k]]

\* The setting is taken back when the file cannot be opened.  Save() does not
\* look at the stream after writing: a torn file counts as saved.
MenuAutoStart ==
    LET enabled == AutoStart(cfgTree)
        changed == WithAutoStart(cfgTree, ~enabled)
    IN  /\ cfgDesk.at = "idle" /\ cfgTree # NotAnObject
        /\ \/ /\ cfgTree' = changed
              /\ cfgFile' \in {changed, Unparsable}
              /\ cfgChecked' = ~enabled
           \/ /\ cfgTree' = WithAutoStart(changed, enabled)
              /\ UNCHANGED <<cfgFile, cfgChecked>>
        /\ UNCHANGED <<cfgPatterns, cfgRuntime, cfgServer, cfgDesk>>

-----------------------------------------------------------------------------
(* The editor.                                                             *)

\* It has no control for the limit of connections.
EditorKeys == DOMAIN CreateDefaultConfig \ {"max_connections"}

\* A control yields values of one type.
ASSUME EditsAssumption ==
    \A edit \in Edits : \A k \in DOMAIN edit :
        /\ k \in EditorKeys /\ IsValue(edit[k])
        /\ DOMAIN edit[k] = DOMAIN CreateDefaultConfig[k]

\* Mutant: an option that a document leaves out is shown unchecked.
ControlUnchecked(config, key) ==
    IF key \in DOMAIN config THEN config[key]
    ELSE IF DOMAIN CreateDefaultConfig[key] = {"truth"} THEN Truth(FALSE)
    ELSE CreateDefaultConfig[key]

\* LoadConfigToControls(): what a control shows of a document.  The list of
\* log levels lacks two.
ListedLevels == {"debug", "info", "warning", "error"}
Control(config, key) ==
    IF key \notin DOMAIN config
    THEN IF key = "allowed_methods" THEN List({}) ELSE CreateDefaultConfig[key]
    ELSE IF key = "level" /\ config[key].text \notin ListedLevels
    THEN Text("info")
    ELSE config[key]

\* GetConfigFromControls().
FromControls(config, edit) ==
    [k \in DOMAIN config \cup EditorKeys |->
        IF k \in DOMAIN edit THEN edit[k]
        ELSE IF k \in EditorKeys THEN Control(config, k) ELSE config[k]]

\* Mutant: the token is not asked for.
TokenUnasked(config) == TRUE
TokenGiven(config) == ~(config.auth_enabled.truth /\ config.auth_token.text = "")

\* SaveConfig() saves nothing else.
Acceptable(config) ==
    /\ config.address.text # ""
    /\ config.port.number \in Ports
    /\ config.request_timeout_ms.number \in 1..MaxTimeout
    /\ config.step_timeout_ms.number \in 1..MaxTimeout
    /\ config.memory_read_timeout_ms.number \in 1..MaxTimeout
    /\ config.heartbeat_interval_seconds.number \in 1..MaxInterval
    /\ config.max_file_size_mb.number \in 1..MaxLogSize
    /\ TokenGiven(config)

\* Every setting has the type its control expects; what the dialog does with
\* a document that has not is left to Windows.
Editable(document) ==
    IsObject(document) =>
        \A k \in DOMAIN document \cap EditorKeys :
            DOMAIN document[k] = DOMAIN CreateDefaultConfig[k]

\* Show(): an unparsable file opens no dialog; for one that cannot be opened
\* the defaults are shown.
EditorShow ==
    /\ cfgDesk.at = "idle"
    /\ \E shown \in {cfgFile, CreateDefaultConfig} :
          /\ shown # Unparsable /\ Editable(shown)
          /\ cfgDesk' = [at |-> "dialog", purpose |-> "editor",
                         shown |-> IF IsObject(shown) THEN shown ELSE CreateDefaultConfig]
    /\ UNCHANGED <<cfgFile, cfgTree, cfgPatterns, cfgRuntime, cfgChecked, cfgServer>>

EditorCancel ==
    /\ cfgDesk.at = "dialog"
    /\ cfgDesk' = DeskIdle
    /\ UNCHANGED <<cfgFile, cfgTree, cfgPatterns, cfgRuntime, cfgChecked, cfgServer>>

\* OK: what is not acceptable, or cannot be written, leaves the dialog open.
\* Again nobody looks at the stream after writing.
EditorSave ==
    /\ cfgDesk.at = "dialog"
    /\ \E edit \in Edits :
          LET config == FromControls(cfgDesk.shown, edit)
          IN  /\ Acceptable(config)
              /\ cfgFile' \in {config, Unparsable}
              /\ cfgDesk' = [at |-> "load", purpose |-> "editor", shown |-> config]
    /\ UNCHANGED <<cfgTree, cfgPatterns, cfgRuntime, cfgChecked, cfgServer>>

-----------------------------------------------------------------------------
CfgNext ==
    \/ PluginInit \/ LoadTree \/ ApplyRuntime \/ InitializePermissions \/ StartServer
    \/ PluginSetup \/ PluginGone \/ WriteDocument
    \/ MenuStart \/ MenuStop \/ MenuAutoStart
    \/ EditorShow \/ EditorCancel \/ EditorSave

CfgSpec == CfgInit /\ [][CfgNext]_cfgVars

-----------------------------------------------------------------------------
(* Properties.                                                             *)

Settled == cfgDesk.at \in {"listen", "setup", "idle", "dialog"}

\* Whichever way the plugin was loaded, the server started or the settings
\* edited, and whatever failed: the permission checker allows what the tree
\* allows, and events are broadcast as the tree says.
AppliedSettingsFollowTree ==
    Settled => /\ cfgPatterns = AllowedPatterns(cfgTree)
               /\ cfgRuntime.events = GetTruth(cfgTree, "enable_notifications", TRUE)

\* README.md:277 for the whole life of the server: it never runs with
\* authentication enabled and no token, although the tree changes under it.
RunningServerHasToken == cfgServer => ~TokenMissing(cfgTree)

\* The editor and the readers agree on the bounds: the server uses every
\* number that the editor saved, and no fallback.
EditorSavesWhatServerUses ==
    cfgDesk.at = "load" /\ cfgDesk.purpose = "editor" /\ cfgFile # Unparsable =>
        /\ GetServerPort(cfgFile) = cfgFile.port.number
        /\ GetServerAddress(cfgFile) = cfgFile.address.text
        /\ GetRequestTimeout(cfgFile) = cfgFile.request_timeout_ms.number
        /\ GetStepTimeout(cfgFile) = cfgFile.step_timeout_ms.number
        /\ GetMemoryReadTimeout(cfgFile) = cfgFile.memory_read_timeout_ms.number
        /\ GetHeartbeatInterval(cfgFile) = cfgFile.heartbeat_interval_seconds.number
        /\ LogLimit(cfgFile) = cfgFile.max_file_size_mb.number

\* What the program makes of a document, setting by setting: the value, or
\* what it takes where there is none.
InForce(tree) ==
    [address |-> GetServerAddress(tree), port |-> GetServerPort(tree),
     allow_memory_write |-> GetTruth(tree, "allow_memory_write", FALSE),
     allow_register_write |-> GetTruth(tree, "allow_register_write", FALSE),
     allow_script_execution |-> GetTruth(tree, "allow_script_execution", FALSE),
     allow_breakpoint_modification |-> GetTruth(tree, "allow_breakpoint_modification", TRUE),
     allowed_methods |-> AllowedPatterns(tree),
     auth_enabled |-> GetTruth(tree, "auth_enabled", FALSE),
     auth_token |-> AuthToken(tree),
     logging |-> GetTruth(tree, "logging", TRUE), level |-> RuntimeOf(tree).level,
     max_file_size_mb |-> LogLimit(tree),
     request_timeout_ms |-> GetRequestTimeout(tree), step_timeout_ms |-> GetStepTimeout(tree),
     memory_read_timeout_ms |-> GetMemoryReadTimeout(tree),
     enable_notifications |-> GetTruth(tree, "enable_notifications", TRUE),
     heartbeat_interval_seconds |-> GetHeartbeatInterval(tree),
     auto_start_mcp_on_plugin_load |-> AutoStart(tree)]

\* A save writes what was edited, keeps the settings that the editor does not
\* show (README.md:225), and changes what is in force only where something was
\* edited, whatever the document leaves out: but for a level of the log that
\* is not in the editor's list, which becomes "info".  It is measured by the
\* document that the dialog shows, not by what was written into the file since.
SavedFrom(shown, edit, saved) ==
    LET before == InForce(shown)
        after == InForce(saved)
    IN  /\ \A k \in DOMAIN edit : k \in DOMAIN saved /\ saved[k] = edit[k]
        /\ \A k \in DOMAIN shown \ EditorKeys : k \in DOMAIN saved /\ saved[k] = shown[k]
        /\ \A k \in DOMAIN before \ DOMAIN edit :
              \/ after[k] = before[k]
              \/ k = "level" /\ before[k] \notin ListedLevels /\ after[k] = "info"
EditorSavesTheEdit ==
    [][cfgDesk.at = "dialog" /\ cfgDesk'.at = "load" /\ cfgFile' # Unparsable =>
          \E edit \in Edits : SavedFrom(cfgDesk.shown, edit, cfgFile')]_cfgVars

\* A plugin that could not read its settings, because the file was torn by an
\* earlier save say, executes no method at all.
UnreadFileAllowsNothing ==
    Settled /\ cfgTree \in {NoTree, NotAnObject} =>
        cfgPatterns = {} /\ RightsOf(cfgTree) \subseteq {"breakpoint"}

\* Choosing the auto-start option changes the setting, its check mark and the
\* file, or none of them: unless the write itself fails, which goes unseen.
\* Saved or not, no other setting of the tree changes.  The file becomes the
\* tree: what was written into it since the tree was loaded is overwritten.
ToggleIsAllOrNothing ==
    [][cfgDesk.at = "idle" /\ cfgDesk' = cfgDesk /\ cfgTree' # cfgTree =>
          /\ InForce(cfgTree') =
                [InForce(cfgTree) EXCEPT !.auto_start_mcp_on_plugin_load = AutoStart(cfgTree')]
          /\ AutoStart(cfgTree') # AutoStart(cfgTree) =>
                cfgChecked' = AutoStart(cfgTree') /\ cfgFile' \in {cfgTree', Unparsable}]_cfgVars

\* Whatever the file holds, the limits in use are ones the code is written for.
SettingsInRange ==
    /\ GetServerPort(cfgTree) \in Ports
    /\ {GetRequestTimeout(cfgTree), GetStepTimeout(cfgTree), GetMemoryReadTimeout(cfgTree)}
          \subseteq 1..MaxTimeout
    /\ GetHeartbeatInterval(cfgTree) \in 1..MaxInterval /\ cfgRuntime.limit \in 1..MaxLogSize

\* The permissions and the events in force are those of the tree, and none
\* where no tree could be read.
PermissionsFollowTree == AppliedSettingsFollowTree /\ UnreadFileAllowsNothing

\* Every limit in use is in its range, and it is the one that was saved.
LimitsAreUsable == SettingsInRange /\ EditorSavesWhatServerUses

\* A change of some settings leaves the others, as far as the tree or the dialog
\* knows them, and as far as the editor's list of levels goes.
OtherSettingsStay == EditorSavesTheEdit /\ ToggleIsAllOrNothing
=============================================================================
