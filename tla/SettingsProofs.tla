--------------------------- MODULE SettingsProofs ---------------------------
(***************************************************************************)
(* For all documents and edits: the settings in force are those of the     *)
(* tree, the limits are in their ranges, the server has its token, and a   *)
(* change of some settings leaves what is in force of the others.          *)
(***************************************************************************)
EXTENDS HttpRequests, FiniteSetTheorems, TLAPS

-----------------------------------------------------------------------------
(* Documents.                                                              *)

SwitchKeys ==
  {"allow_memory_write", "allow_register_write", "allow_script_execution",
   "allow_breakpoint_modification", "logging", "auth_enabled", "enable_notifications",
   "enable_heartbeat", "enable_batch_requests", "auto_start_mcp_on_plugin_load"}
NumberKeys ==
  {"port", "max_connections", "max_file_size_mb", "request_timeout_ms", "step_timeout_ms",
   "memory_read_timeout_ms", "heartbeat_interval_seconds"}
TextKeys == {"address", "level", "auth_token"}
ListKeys == {"allowed_methods", "origin_allowlist", "host_allowlist"}

\* Every value is of a type that JSON has.
Typed(tree) == IsObject(tree) => \A k \in DOMAIN tree : IsValue(tree[k])

\* It has every setting of the editor, with the type of its control.
Shaped(document) ==
  /\ IsObject(document) /\ Typed(document)
  /\ \A k \in EditorKeys :
        k \in DOMAIN document /\ DOMAIN document[k] = DOMAIN CreateDefaultConfig[k]

\* What does not hold a setting is no object.
LEMMA ObjectHasKey ==
  ASSUME NEW tree, NEW k \in DOMAIN tree, k \notin {"file", "json"}
  PROVE  IsObject(tree)
<1>1. \A s \in {Absent, Unparsable, NotAnObject, NoTree} : DOMAIN s \subseteq {"file", "json"}
  BY DEF Absent, Unparsable, NotAnObject, NoTree
<1> QED
  BY <1>1 DEF IsObject

LEMMA DefaultKeys ==
  DOMAIN CreateDefaultConfig = SwitchKeys \cup NumberKeys \cup TextKeys \cup ListKeys
  BY DEF CreateDefaultConfig, SwitchKeys, NumberKeys, TextKeys, ListKeys

LEMMA EditorKeysAre ==
  EditorKeys = SwitchKeys \cup (NumberKeys \ {"max_connections"}) \cup TextKeys \cup ListKeys
  BY DefaultKeys DEF EditorKeys, SwitchKeys, NumberKeys, TextKeys, ListKeys

LEMMA DefaultSwitches ==
  \A k \in SwitchKeys : \E b \in BOOLEAN : CreateDefaultConfig[k] = Truth(b)
<1>1. /\ CreateDefaultConfig.allow_memory_write = Truth(FALSE)
      /\ CreateDefaultConfig.allow_register_write = Truth(FALSE)
      /\ CreateDefaultConfig.allow_script_execution = Truth(FALSE)
      /\ CreateDefaultConfig.allow_breakpoint_modification = Truth(TRUE)
      /\ CreateDefaultConfig.logging = Truth(TRUE)
      /\ CreateDefaultConfig.auth_enabled = Truth(FALSE)
      /\ CreateDefaultConfig.enable_notifications = Truth(TRUE)
      /\ CreateDefaultConfig.enable_heartbeat = Truth(TRUE)
      /\ CreateDefaultConfig.enable_batch_requests = Truth(TRUE)
      /\ CreateDefaultConfig.auto_start_mcp_on_plugin_load = Truth(FALSE)
  BY DEF CreateDefaultConfig
<1> QED
  BY <1>1, Zenon DEF SwitchKeys

LEMMA DefaultNumbers ==
  \A k \in NumberKeys : \E n \in Int : CreateDefaultConfig[k] = Num(n)
<1>1. /\ CreateDefaultConfig.port = Num(3000)
      /\ CreateDefaultConfig.max_connections = Num(128)
      /\ CreateDefaultConfig.max_file_size_mb = Num(10)
      /\ CreateDefaultConfig.request_timeout_ms = Num(30000)
      /\ CreateDefaultConfig.step_timeout_ms = Num(10000)
      /\ CreateDefaultConfig.memory_read_timeout_ms = Num(5000)
      /\ CreateDefaultConfig.heartbeat_interval_seconds = Num(30)
  BY DEF CreateDefaultConfig
<1> QED
  BY <1>1 DEF NumberKeys

LEMMA DefaultTexts ==
  /\ \A k \in TextKeys : \E s : CreateDefaultConfig[k] = Text(s)
  /\ CreateDefaultConfig.level = Text("info")
<1>1. /\ CreateDefaultConfig.address = Text("127.0.0.1")
      /\ CreateDefaultConfig.level = Text("info")
      /\ CreateDefaultConfig.auth_token = Text("")
  BY DEF CreateDefaultConfig
<1> QED
  BY <1>1, Zenon DEF TextKeys

LEMMA DefaultToken == CreateDefaultConfig.auth_token = Text("")
  BY DEF CreateDefaultConfig

LEMMA DefaultLists == \A k \in ListKeys : \E l : CreateDefaultConfig[k] = List(l)
<1>1. /\ \E l : CreateDefaultConfig.allowed_methods = List(l)
      /\ CreateDefaultConfig.origin_allowlist = List({})
      /\ CreateDefaultConfig.host_allowlist = List({})
  BY DEF CreateDefaultConfig
<1> QED
  BY <1>1, Zenon DEF ListKeys

\* What a setting of the editor can hold.
LEMMA DefaultTypes ==
  /\ \A k \in SwitchKeys : DOMAIN CreateDefaultConfig[k] = {"truth"}
  /\ \A k \in NumberKeys : DOMAIN CreateDefaultConfig[k] = {"number"}
  /\ \A k \in TextKeys : DOMAIN CreateDefaultConfig[k] = {"text"}
  /\ \A k \in ListKeys : DOMAIN CreateDefaultConfig[k] = {"list"}
<1>1. ASSUME NEW k \in SwitchKeys PROVE DOMAIN CreateDefaultConfig[k] = {"truth"}
  <2>1. PICK b \in BOOLEAN : CreateDefaultConfig[k] = Truth(b)
    BY DefaultSwitches
  <2> QED
    BY <2>1 DEF Truth
<1>2. ASSUME NEW k \in NumberKeys PROVE DOMAIN CreateDefaultConfig[k] = {"number"}
  <2>1. PICK n \in Int : CreateDefaultConfig[k] = Num(n)
    BY DefaultNumbers
  <2> QED
    BY <2>1 DEF Num
<1>3. ASSUME NEW k \in TextKeys PROVE DOMAIN CreateDefaultConfig[k] = {"text"}
  <2>1. PICK s : CreateDefaultConfig[k] = Text(s)
    BY DefaultTexts
  <2> QED
    BY <2>1 DEF Text
<1>4. ASSUME NEW k \in ListKeys PROVE DOMAIN CreateDefaultConfig[k] = {"list"}
  <2>1. PICK l : CreateDefaultConfig[k] = List(l)
    BY DefaultLists
  <2> QED
    BY <2>1 DEF List
<1> QED
  BY <1>1, <1>2, <1>3, <1>4

LEMMA ValuesAre ==
  /\ \A b \in BOOLEAN : IsValue(Truth(b))
  /\ \A n \in Int : IsValue(Num(n))
  /\ \A s : IsValue(Text(s))
  /\ \A l : IsValue(List(l))
  BY DEF IsValue, Truth, Num, Text, List

LEMMA DefaultTyped == Shaped(CreateDefaultConfig)
<1>1. IsObject(CreateDefaultConfig)
  BY DefaultKeys, ObjectHasKey DEF NumberKeys
<1>2. ASSUME NEW k \in DOMAIN CreateDefaultConfig PROVE IsValue(CreateDefaultConfig[k])
  <2>1. CASE k \in SwitchKeys
    BY <2>1, DefaultSwitches, ValuesAre
  <2>2. CASE k \in NumberKeys
    BY <2>2, DefaultNumbers, ValuesAre
  <2>3. CASE k \in TextKeys
    BY <2>3, DefaultTexts, ValuesAre
  <2>4. CASE k \in ListKeys
    BY <2>4, DefaultLists, ValuesAre
  <2> QED
    BY <2>1, <2>2, <2>3, <2>4, DefaultKeys
<1> QED
  BY <1>1, <1>2 DEF Shaped, Typed, EditorKeys

-----------------------------------------------------------------------------
(* Readers.                                                                *)

\* Two trees that differ in the auto-start option alone.
Alike(tree, other) ==
  \A k : k # "auto_start_mcp_on_plugin_load" =>
    /\ Has(tree, k) <=> Has(other, k)
    /\ Has(tree, k) => tree[k] = other[k]

LEMMA WithAutoStartIs ==
  ASSUME NEW tree, tree = NoTree \/ IsObject(tree), Typed(tree), NEW b \in BOOLEAN
  PROVE  /\ IsObject(WithAutoStart(tree, b)) /\ Typed(WithAutoStart(tree, b))
         /\ Alike(tree, WithAutoStart(tree, b))
         /\ AutoStart(WithAutoStart(tree, b)) = b
<1> DEFINE base == IF tree = NoTree THEN [k \in {} |-> Truth(FALSE)] ELSE tree
           new == WithAutoStart(tree, b)
           auto == "auto_start_mcp_on_plugin_load"
<1>1. /\ DOMAIN new = DOMAIN base \cup {auto}
      /\ new[auto] = Truth(b)
      /\ \A k \in DOMAIN base : k # auto => new[k] = base[k]
  BY DEF WithAutoStart
<1>2. IsObject(new)
  BY <1>1, ObjectHasKey
<1>3. \A k \in DOMAIN base : IsObject(tree) /\ base[k] = tree[k] /\ IsValue(base[k])
  BY DEF Typed
<1>4. \A k : Has(tree, k) <=> k \in DOMAIN base
  BY DEF Has, IsObject
<1> HIDE DEF base, new
<1>5. Typed(new)
  BY <1>1, <1>3, ValuesAre DEF Typed
<1>6. Alike(tree, new)
  BY <1>1, <1>2, <1>3, <1>4 DEF Alike, Has
<1>7. AutoStart(new) = b
  BY <1>1, <1>2 DEF AutoStart, GetTruth, Has, Truth
<1> QED
  BY <1>2, <1>5, <1>6, <1>7 DEF new

\* Two trees with the same value for a setting, or both without it.
LEMMA SameRead ==
  ASSUME NEW tree, NEW other, NEW k, Has(tree, k) <=> Has(other, k),
         Has(tree, k) => tree[k] = other[k], NEW d, NEW m
  PROVE  /\ GetTruth(tree, k, d) = GetTruth(other, k, d)
         /\ GetText(tree, k, d) = GetText(other, k, d)
         /\ GetInt(tree, k, d) = GetInt(other, k, d)
         /\ GetBounded(tree, k, d, m) = GetBounded(other, k, d, m)
<1>1. CASE Has(tree, k)
  BY <1>1 DEF GetTruth, GetText, GetInt, GetBounded
<1>2. CASE ~Has(tree, k)
  BY <1>2 DEF GetTruth, GetText, GetInt, GetBounded
<1> QED
  BY <1>1, <1>2

\* A tree without a setting, and one that holds its default.
LEMMA DefaultRead ==
  ASSUME NEW tree, NEW other, NEW k, ~Has(tree, k), Has(other, k), NEW d, NEW m
  PROVE  /\ other[k] = Truth(d) => GetTruth(tree, k, d) = GetTruth(other, k, d)
         /\ other[k] = Text(d) => GetText(tree, k, d) = GetText(other, k, d)
         /\ other[k] = Num(d) => GetInt(tree, k, d) = GetInt(other, k, d)
         /\ other[k] = Num(d) => GetBounded(tree, k, d, m) = GetBounded(other, k, d, m)
<1>1. other[k] = Truth(d) => GetTruth(tree, k, d) = GetTruth(other, k, d)
  BY DEF GetTruth, Truth
<1>2. other[k] = Text(d) => GetText(tree, k, d) = GetText(other, k, d)
  BY DEF GetText, Text
<1>3. other[k] = Num(d) => GetInt(tree, k, d) = GetInt(other, k, d)
  BY DEF GetInt, Num
<1>4. other[k] = Num(d) => GetBounded(tree, k, d, m) = GetBounded(other, k, d, m)
  BY DEF GetBounded, Num
<1> QED
  BY <1>1, <1>2, <1>3, <1>4

LEMMA AlikeReads ==
  ASSUME NEW tree, NEW other, Alike(tree, other)
  PROVE  /\ AllowedPatterns(tree) = AllowedPatterns(other)
         /\ TokenMissing(tree) <=> TokenMissing(other)
         /\ GetTruth(tree, "enable_notifications", TRUE)
              = GetTruth(other, "enable_notifications", TRUE)
<1>1. ASSUME NEW k, k # "auto_start_mcp_on_plugin_load"
      PROVE  /\ Has(tree, k) <=> Has(other, k)
             /\ Has(tree, k) => tree[k] = other[k]
  BY <1>1 DEF Alike
<1>2. /\ Has(tree, "allowed_methods") <=> Has(other, "allowed_methods")
      /\ Has(tree, "allowed_methods") => tree.allowed_methods = other.allowed_methods
  BY <1>1
<1>3. AllowedPatterns(tree) = AllowedPatterns(other)
  BY <1>2 DEF AllowedPatterns
<1>4. /\ GetTruth(tree, "auth_enabled", FALSE) = GetTruth(other, "auth_enabled", FALSE)
      /\ GetText(tree, "auth_token", "") = GetText(other, "auth_token", "")
      /\ GetTruth(tree, "enable_notifications", TRUE)
           = GetTruth(other, "enable_notifications", TRUE)
  BY <1>1 DEF GetTruth, GetText
<1> QED
  BY <1>3, <1>4 DEF TokenMissing, AuthToken

\* The settings that InForce() looks at are ones that the editor shows.
LEMMA InForceIs ==
  ASSUME NEW tree
  PROVE  /\ DOMAIN InForce(tree) \subseteq EditorKeys
         /\ InForce(tree).address = GetServerAddress(tree)
         /\ InForce(tree).port = GetServerPort(tree)
         /\ InForce(tree).allow_memory_write = GetTruth(tree, "allow_memory_write", FALSE)
         /\ InForce(tree).allow_register_write = GetTruth(tree, "allow_register_write", FALSE)
         /\ InForce(tree).allow_script_execution = GetTruth(tree, "allow_script_execution", FALSE)
         /\ InForce(tree).allow_breakpoint_modification = GetTruth(tree, "allow_breakpoint_modification", TRUE)
         /\ InForce(tree).allowed_methods = AllowedPatterns(tree)
         /\ InForce(tree).auth_enabled = GetTruth(tree, "auth_enabled", FALSE)
         /\ InForce(tree).auth_token = AuthToken(tree)
         /\ InForce(tree).logging = GetTruth(tree, "logging", TRUE)
         /\ InForce(tree).level = RuntimeOf(tree).level
         /\ InForce(tree).max_file_size_mb = LogLimit(tree)
         /\ InForce(tree).request_timeout_ms = GetRequestTimeout(tree)
         /\ InForce(tree).step_timeout_ms = GetStepTimeout(tree)
         /\ InForce(tree).memory_read_timeout_ms = GetMemoryReadTimeout(tree)
         /\ InForce(tree).enable_notifications = GetTruth(tree, "enable_notifications", TRUE)
         /\ InForce(tree).heartbeat_interval_seconds = GetHeartbeatInterval(tree)
         /\ InForce(tree).auto_start_mcp_on_plugin_load = AutoStart(tree)
<1>1. DOMAIN InForce(tree) \subseteq EditorKeys
  <2>1. DOMAIN InForce(tree) \subseteq SwitchKeys \cup (NumberKeys \ {"max_connections"})
                                   \cup TextKeys \cup ListKeys
    BY Zenon DEF InForce, SwitchKeys, NumberKeys, TextKeys, ListKeys
  <2> QED
    BY <2>1, EditorKeysAre
<1> QED
  BY <1>1 DEF InForce

\* They differ in what is in force of that option alone.
LEMMA AlikeInForce ==
  ASSUME NEW tree, NEW other, Alike(tree, other)
  PROVE  InForce(other) =
           [InForce(tree) EXCEPT !.auto_start_mcp_on_plugin_load = AutoStart(other)]
<1>1. ASSUME NEW k, k # "auto_start_mcp_on_plugin_load", NEW d, NEW m
      PROVE  /\ GetTruth(tree, k, d) = GetTruth(other, k, d)
             /\ GetText(tree, k, d) = GetText(other, k, d)
             /\ GetInt(tree, k, d) = GetInt(other, k, d)
             /\ GetBounded(tree, k, d, m) = GetBounded(other, k, d, m)
  BY <1>1, SameRead DEF Alike
<1>2. GetServerAddress(tree) = GetServerAddress(other)
  BY <1>1 DEF GetServerAddress
<1>3. GetServerPort(tree) = GetServerPort(other)
  BY <1>1 DEF GetServerPort
<1>4. /\ GetTruth(tree, "allow_memory_write", FALSE) = GetTruth(other, "allow_memory_write", FALSE)
      /\ GetTruth(tree, "allow_register_write", FALSE) = GetTruth(other, "allow_register_write", FALSE)
      /\ GetTruth(tree, "allow_script_execution", FALSE)
           = GetTruth(other, "allow_script_execution", FALSE)
      /\ GetTruth(tree, "allow_breakpoint_modification", TRUE)
           = GetTruth(other, "allow_breakpoint_modification", TRUE)
      /\ GetTruth(tree, "auth_enabled", FALSE) = GetTruth(other, "auth_enabled", FALSE)
      /\ GetTruth(tree, "logging", TRUE) = GetTruth(other, "logging", TRUE)
      /\ GetTruth(tree, "enable_notifications", TRUE) = GetTruth(other, "enable_notifications", TRUE)
  BY <1>1
<1>5. AllowedPatterns(tree) = AllowedPatterns(other)
  BY AlikeReads
<1>6. AuthToken(tree) = AuthToken(other)
  BY <1>1, Zenon DEF AuthToken
<1>7. /\ GetRequestTimeout(tree) = GetRequestTimeout(other)
      /\ GetStepTimeout(tree) = GetStepTimeout(other)
      /\ GetMemoryReadTimeout(tree) = GetMemoryReadTimeout(other)
      /\ GetHeartbeatInterval(tree) = GetHeartbeatInterval(other)
      /\ LogLimit(tree) = LogLimit(other)
  BY <1>1 DEF GetRequestTimeout, GetStepTimeout, GetMemoryReadTimeout, GetHeartbeatInterval,
              LogLimit
<1>8. RuntimeOf(tree) = RuntimeOf(other)
  BY <1>1, <1>7 DEF RuntimeOf
<1> DEFINE old == InForce(tree)
           new == InForce(other)
           auto == "auto_start_mcp_on_plugin_load"
<1>9. /\ old.address = new.address
      /\ old.port = new.port
      /\ old.allow_memory_write = new.allow_memory_write
      /\ old.allow_register_write = new.allow_register_write
      /\ old.allow_script_execution = new.allow_script_execution
      /\ old.allow_breakpoint_modification = new.allow_breakpoint_modification
      /\ old.allowed_methods = new.allowed_methods
      /\ old.auth_enabled = new.auth_enabled
      /\ old.auth_token = new.auth_token
      /\ old.logging = new.logging
      /\ old.level = new.level
      /\ old.max_file_size_mb = new.max_file_size_mb
      /\ old.request_timeout_ms = new.request_timeout_ms
      /\ old.step_timeout_ms = new.step_timeout_ms
      /\ old.memory_read_timeout_ms = new.memory_read_timeout_ms
      /\ old.enable_notifications = new.enable_notifications
      /\ old.heartbeat_interval_seconds = new.heartbeat_interval_seconds
  <2>1. old.address = new.address
    BY <1>2, InForceIs
  <2>2. old.port = new.port
    BY <1>3, InForceIs
  <2>3. old.allow_memory_write = new.allow_memory_write
    BY <1>4, InForceIs
  <2>4. old.allow_register_write = new.allow_register_write
    BY <1>4, InForceIs
  <2>5. old.allow_script_execution = new.allow_script_execution
    BY <1>4, InForceIs
  <2>6. old.allow_breakpoint_modification = new.allow_breakpoint_modification
    BY <1>4, InForceIs
  <2>7. old.auth_enabled = new.auth_enabled
    BY <1>4, InForceIs
  <2>8. old.logging = new.logging
    BY <1>4, InForceIs
  <2>9. old.enable_notifications = new.enable_notifications
    BY <1>4, InForceIs
  <2>10. old.allowed_methods = new.allowed_methods
    BY <1>5, InForceIs
  <2>11. old.auth_token = new.auth_token
    BY <1>6, InForceIs
  <2>12. old.level = new.level
    BY <1>8, InForceIs
  <2>13. old.max_file_size_mb = new.max_file_size_mb
    BY <1>7, InForceIs
  <2>14. old.request_timeout_ms = new.request_timeout_ms
    BY <1>7, InForceIs
  <2>15. old.step_timeout_ms = new.step_timeout_ms
    BY <1>7, InForceIs
  <2>16. old.memory_read_timeout_ms = new.memory_read_timeout_ms
    BY <1>7, InForceIs
  <2>17. old.heartbeat_interval_seconds = new.heartbeat_interval_seconds
    BY <1>7, InForceIs
  <2> HIDE DEF old, new
  <2> QED
    BY <2>1, <2>2, <2>3, <2>4, <2>5, <2>6, <2>7, <2>8, <2>9, <2>10, <2>11, <2>12, <2>13, <2>14,
       <2>15, <2>16, <2>17
<1>10. /\ DOMAIN old = DOMAIN new /\ auto \in DOMAIN new
       /\ old = [k \in DOMAIN old |-> old[k]] /\ new = [k \in DOMAIN new |-> new[k]]
  BY Zenon DEF InForce
<1>11. new[auto] = AutoStart(other)
  BY InForceIs
<1>12. \A k \in DOMAIN old : k # auto => old[k] = new[k]
  <2>1. DOMAIN old = {"address", "port", "allow_memory_write", "allow_register_write", "allow_script_execution", "allow_breakpoint_modification", "allowed_methods", "auth_enabled", "auth_token", "logging", "level", "max_file_size_mb", "request_timeout_ms", "step_timeout_ms", "memory_read_timeout_ms", "enable_notifications", "heartbeat_interval_seconds", "auto_start_mcp_on_plugin_load"}
    BY Zenon DEF InForce
  <2> HIDE DEF old, new
  <2> QED
    BY <1>9, <2>1
<1> HIDE DEF old, new
<1> QED
  BY <1>10, <1>11, <1>12 DEF old, new

\* The fallback is used for what is not a number within the bounds.
LEMMA BoundedIs ==
  ASSUME NEW tree, Typed(tree), NEW key, NEW maximum \in Nat, NEW fallback \in 1..maximum
  PROVE  GetBounded(tree, key, fallback, maximum) \in 1..maximum
<1> DEFINE value == IF Has(tree, key) THEN tree[key] ELSE Num(fallback)
<1>1. IsValue(value)
  BY ValuesAre DEF Has, Typed
<1>2. /\ "number" \in DOMAIN value => value.number \in Int
      /\ "numeral" \in DOMAIN value => value.numeral \in Int
  <2> HIDE DEF value
  <2> QED
    BY <1>1 DEF IsValue
<1> HIDE DEF value
<1> DEFINE read == CASE "number" \in DOMAIN value -> value.number
                     [] "numeral" \in DOMAIN value -> value.numeral
                     [] OTHER -> -1
<1>3. read \in Int
  BY <1>2
<1>4. GetBounded(tree, key, fallback, maximum)
        = IF read >= 1 /\ read <= maximum THEN read ELSE fallback
  BY DEF GetBounded, value
<1> HIDE DEF read
<1> QED
  BY <1>3, <1>4

\* A number within the bounds is used as it is.
LEMMA BoundedReads ==
  ASSUME NEW tree, NEW key, Has(tree, key), DOMAIN tree[key] = {"number"},
         NEW maximum \in Nat, NEW fallback, tree[key].number \in 1..maximum
  PROVE  GetBounded(tree, key, fallback, maximum) = tree[key].number
  BY DEF GetBounded

\* The bounds and the fallbacks of the readers.
LEMMA BoundsAre ==
  /\ 3000 \in Ports
  /\ MaxTimeout \in Nat /\ 30000 \in 1..MaxTimeout
  /\ 10000 \in 1..MaxTimeout /\ 5000 \in 1..MaxTimeout
  /\ MaxInterval \in Nat /\ 30 \in 1..MaxInterval
  /\ MaxLogSize \in Nat /\ 10 \in 1..MaxLogSize
<1>1. 3000 \in Ports
  BY SMT DEF Ports
<1>2. MaxTimeout \in Nat /\ 30000 <= MaxTimeout
  BY SMT DEF MaxTimeout
<1>3. 30000 \in 1..MaxTimeout /\ 10000 \in 1..MaxTimeout /\ 5000 \in 1..MaxTimeout
  BY SMT, <1>2
<1>4. MaxInterval \in Nat /\ 30 \in 1..MaxInterval
  BY SMT DEF MaxInterval
<1>5. MaxLogSize \in Nat /\ 10 \in 1..MaxLogSize
  BY SMT DEF MaxLogSize
<1> QED
  BY SMT, <1>1, <1>2, <1>3, <1>4, <1>5

LEMMA PortIs == ASSUME NEW tree PROVE GetServerPort(tree) \in Ports
  BY SMT, BoundsAre DEF GetServerPort

-----------------------------------------------------------------------------
(* The editor.                                                             *)

LEMMA ControlIs ==
  ASSUME NEW document, IsObject(document), Typed(document), Editable(document),
         NEW k \in EditorKeys
  PROVE  /\ IsValue(Control(document, k))
         /\ DOMAIN Control(document, k) = DOMAIN CreateDefaultConfig[k]
<1>1. CASE k \notin DOMAIN document
  <2>1. CASE k = "allowed_methods"
    <3>1. Control(document, k) = List({}) /\ DOMAIN List({}) = {"list"}
      BY <1>1, <2>1 DEF Control, List
    <3> QED
      BY <3>1, <2>1, DefaultTypes, ValuesAre DEF ListKeys
  <2>2. CASE k # "allowed_methods"
    <3>1. Control(document, k) = CreateDefaultConfig[k]
      BY <1>1, <2>2 DEF Control
    <3> QED
      BY <3>1, DefaultTyped DEF Shaped, Typed, EditorKeys
  <2> QED
    BY <2>1, <2>2
<1>2. CASE k \in DOMAIN document
  <2>1. IsValue(document[k]) /\ DOMAIN document[k] = DOMAIN CreateDefaultConfig[k]
    BY <1>2 DEF Typed, Editable
  <2>2. CASE k = "level"
    <3>1. Control(document, k) \in {document[k], Text("info")}
      BY <1>2, <2>2 DEF Control
    <3>2. Text("info") = CreateDefaultConfig[k] /\ IsValue(Text("info"))
      BY <2>2, DefaultTexts, ValuesAre
    <3> QED
      BY <2>1, <3>1, <3>2
  <2>3. CASE k # "level"
    <3>1. Control(document, k) = document[k]
      BY <1>2, <2>3 DEF Control
    <3> QED
      BY <2>1, <3>1
  <2> QED
    BY <2>2, <2>3
<1> QED
  BY <1>1, <1>2

\* What the editor saves is a document with all of its settings.
LEMMA FromControlsIs ==
  ASSUME NEW document, IsObject(document), Typed(document), Editable(document),
         NEW edit \in Edits
  PROVE  /\ Shaped(FromControls(document, edit))
         /\ \A k \in DOMAIN document \ EditorKeys :
              /\ k \in DOMAIN FromControls(document, edit)
              /\ FromControls(document, edit)[k] = document[k]
<1> DEFINE config == FromControls(document, edit)
<1>1. DOMAIN config = DOMAIN document \cup EditorKeys
  BY DEF FromControls
<1>2. \A k \in DOMAIN config \cap DOMAIN edit : config[k] = edit[k]
  BY DEF FromControls
<1>3. \A k \in EditorKeys \ DOMAIN edit : config[k] = Control(document, k)
  BY DEF FromControls
<1>4. \A k \in DOMAIN edit :
        k \in EditorKeys /\ IsValue(edit[k]) /\ DOMAIN edit[k] = DOMAIN CreateDefaultConfig[k]
  BY EditsAssumption
<1>5. \A k \in DOMAIN document \ EditorKeys : config[k] = document[k]
  BY <1>4 DEF FromControls
<1> HIDE DEF config
<1>6. ASSUME NEW k \in EditorKeys
      PROVE  IsValue(config[k]) /\ DOMAIN config[k] = DOMAIN CreateDefaultConfig[k]
  BY <1>1, <1>2, <1>3, <1>4, ControlIs
<1>7. "port" \in DOMAIN config
  BY <1>1, EditorKeysAre DEF NumberKeys
<1>8. IsObject(config)
  BY <1>7, ObjectHasKey
<1>9. Typed(config)
  BY <1>1, <1>5, <1>6 DEF Typed
<1> QED
  BY <1>1, <1>5, <1>6, <1>8, <1>9 DEF Shaped, config

\* The server takes from an acceptable document the numbers that are in it,
\* and its token.
LEMMA AcceptableReads ==
  ASSUME NEW document, Shaped(document), Acceptable(document)
  PROVE  /\ GetServerPort(document) = document.port.number
         /\ GetServerAddress(document) = document.address.text
         /\ GetRequestTimeout(document) = document.request_timeout_ms.number
         /\ GetStepTimeout(document) = document.step_timeout_ms.number
         /\ GetMemoryReadTimeout(document) = document.memory_read_timeout_ms.number
         /\ GetHeartbeatInterval(document) = document.heartbeat_interval_seconds.number
         /\ LogLimit(document) = document.max_file_size_mb.number
         /\ ~TokenMissing(document)
<1>1. \A k \in EditorKeys : Has(document, k) /\ DOMAIN document[k] = DOMAIN CreateDefaultConfig[k]
  BY DEF Shaped, Has
<1>2. \A k \in NumberKeys \ {"max_connections"} :
        Has(document, k) /\ DOMAIN document[k] = {"number"}
  BY <1>1, EditorKeysAre, DefaultTypes
<1>3. \A k \in TextKeys : Has(document, k) /\ DOMAIN document[k] = {"text"}
  BY <1>1, EditorKeysAre, DefaultTypes
<1>4. Has(document, "auth_enabled") /\ DOMAIN document["auth_enabled"] = {"truth"}
  BY <1>1, EditorKeysAre, DefaultTypes DEF SwitchKeys
<1>5. /\ document.address.text # "" /\ document.port.number \in Ports
      /\ document.request_timeout_ms.number \in 1..MaxTimeout
      /\ document.step_timeout_ms.number \in 1..MaxTimeout
      /\ document.memory_read_timeout_ms.number \in 1..MaxTimeout
      /\ document.heartbeat_interval_seconds.number \in 1..MaxInterval
      /\ document.max_file_size_mb.number \in 1..MaxLogSize
      /\ ~(document.auth_enabled.truth /\ document.auth_token.text = "")
  BY DEF Acceptable, TokenGiven
<1>6. MaxTimeout \in Nat /\ MaxInterval \in Nat /\ MaxLogSize \in Nat
  BY BoundsAre
<1>7. GetServerPort(document) = document.port.number
  <2>1. Has(document, "port") /\ DOMAIN document["port"] = {"number"}
    BY <1>2 DEF NumberKeys
  <2>2. GetInt(document, "port", 3000) = document.port.number
    BY <2>1 DEF GetInt
  <2>3. document.port.number \in Ports
    BY <1>5
  <2> QED
    BY <2>2, <2>3, SMT DEF GetServerPort
<1>8. GetServerAddress(document) = document.address.text
  <2>1. Has(document, "address") /\ DOMAIN document["address"] = {"text"}
    BY <1>3 DEF TextKeys
  <2>2. GetText(document, "address", "127.0.0.1") = document.address.text
    BY <2>1 DEF GetText
  <2> QED
    BY <2>2, <1>5 DEF GetServerAddress
<1>9. GetRequestTimeout(document) = document.request_timeout_ms.number
  <2>1. /\ Has(document, "request_timeout_ms")
        /\ DOMAIN document["request_timeout_ms"] = {"number"}
    BY <1>2 DEF NumberKeys
  <2>2. \A fallback : GetBounded(document, "request_timeout_ms", fallback, MaxTimeout)
                        = document["request_timeout_ms"].number
    BY <2>1, <1>5, <1>6, BoundedReads
  <2> QED
    BY <2>2, SMT DEF GetRequestTimeout
<1>10. GetStepTimeout(document) = document.step_timeout_ms.number
  <2>1. Has(document, "step_timeout_ms") /\ DOMAIN document["step_timeout_ms"] = {"number"}
    BY <1>2 DEF NumberKeys
  <2>2. \A fallback : GetBounded(document, "step_timeout_ms", fallback, MaxTimeout)
                        = document["step_timeout_ms"].number
    BY <2>1, <1>5, <1>6, BoundedReads
  <2> QED
    BY <2>2, SMT DEF GetStepTimeout
<1>11. GetMemoryReadTimeout(document) = document.memory_read_timeout_ms.number
  <2>1. /\ Has(document, "memory_read_timeout_ms")
        /\ DOMAIN document["memory_read_timeout_ms"] = {"number"}
    BY <1>2 DEF NumberKeys
  <2>2. \A fallback : GetBounded(document, "memory_read_timeout_ms", fallback, MaxTimeout)
                        = document["memory_read_timeout_ms"].number
    BY <2>1, <1>5, <1>6, BoundedReads
  <2> QED
    BY <2>2, SMT DEF GetMemoryReadTimeout
<1>12. GetHeartbeatInterval(document) = document.heartbeat_interval_seconds.number
  <2>1. /\ Has(document, "heartbeat_interval_seconds")
        /\ DOMAIN document["heartbeat_interval_seconds"] = {"number"}
    BY <1>2 DEF NumberKeys
  <2> QED
    BY <2>1, <1>5, <1>6, BoundedReads DEF GetHeartbeatInterval
<1>13. LogLimit(document) = document.max_file_size_mb.number
  <2>1. Has(document, "max_file_size_mb") /\ DOMAIN document["max_file_size_mb"] = {"number"}
    BY <1>2 DEF NumberKeys
  <2> QED
    BY <2>1, <1>5, <1>6, BoundedReads DEF LogLimit
<1>14. ~TokenMissing(document)
  <2>1. Has(document, "auth_token") /\ DOMAIN document["auth_token"] = {"text"}
    BY <1>3 DEF TextKeys
  <2>2. GetText(document, "auth_token", "") = document.auth_token.text
    BY <2>1 DEF GetText
  <2>3. GetTruth(document, "auth_enabled", FALSE) = document.auth_enabled.truth
    BY <1>4 DEF GetTruth
  <2> QED
    BY <2>2, <2>3, <1>5 DEF TokenMissing, AuthToken
<1> QED
  BY <1>7, <1>8, <1>9, <1>10, <1>11, <1>12, <1>13, <1>14

\* What a save leaves in the document for a setting that was not edited.
LEMMA UneditedIs ==
  ASSUME NEW document, IsObject(document), NEW edit \in Edits,
         IsObject(FromControls(document, edit)), NEW k \in EditorKeys \ DOMAIN edit
  PROVE  LET config == FromControls(document, edit)
         IN  /\ Has(config, k)
             /\ Has(document, k) /\ k # "level" => config[k] = document[k]
             /\ Has(document, k) /\ k = "level" =>
                   config[k] = IF document[k].text \in ListedLevels THEN document[k]
                               ELSE Text("info")
             /\ ~Has(document, k) =>
                   config[k] = IF k = "allowed_methods" THEN List({}) ELSE CreateDefaultConfig[k]
<1> DEFINE config == FromControls(document, edit)
<1>1. k \in DOMAIN config /\ config[k] = Control(document, k)
  BY DEF FromControls
<1>2. Has(config, k)
  BY <1>1 DEF Has
<1> HIDE DEF config
<1>3. Has(document, k) <=> k \in DOMAIN document
  BY DEF Has
<1> QED
  BY <1>1, <1>2, <1>3 DEF Control, config

\* A setting that was not edited reads as before, whatever the document leaves
\* out, because the controls show for it what the readers take for it.
LEMMA SaveKeepsInForce ==
  ASSUME NEW document, IsObject(document), Typed(document), Editable(document),
         NEW edit \in Edits
  PROVE  SavedFrom(document, edit, FromControls(document, edit))
<1> DEFINE config == FromControls(document, edit)
           before == InForce(document)
           after == InForce(config)
<1>1. /\ IsObject(config)
      /\ \A k \in DOMAIN document \ EditorKeys : k \in DOMAIN config /\ config[k] = document[k]
  BY FromControlsIs DEF Shaped
<1>2. \A k \in DOMAIN edit : k \in DOMAIN config /\ config[k] = edit[k]
  BY EditsAssumption DEF FromControls
<1>3. ASSUME NEW k \in EditorKeys \ DOMAIN edit
      PROVE  /\ Has(config, k)
             /\ Has(document, k) /\ k # "level" => config[k] = document[k]
             /\ Has(document, k) /\ k = "level" =>
                   config[k] = IF document[k].text \in ListedLevels THEN document[k]
                               ELSE Text("info")
             /\ ~Has(document, k) =>
                   config[k] = IF k = "allowed_methods" THEN List({}) ELSE CreateDefaultConfig[k]
  BY <1>1, <1>3, UneditedIs
<1> HIDE DEF config
<1>4. ASSUME NEW k \in EditorKeys \ DOMAIN edit, k \notin {"allowed_methods", "level"},
             NEW d, NEW m
      PROVE  /\ CreateDefaultConfig[k] = Truth(d) =>
                   GetTruth(document, k, d) = GetTruth(config, k, d)
             /\ CreateDefaultConfig[k] = Text(d) =>
                   GetText(document, k, d) = GetText(config, k, d)
             /\ CreateDefaultConfig[k] = Num(d) =>
                   GetInt(document, k, d) = GetInt(config, k, d)
             /\ CreateDefaultConfig[k] = Num(d) =>
                   GetBounded(document, k, d, m) = GetBounded(config, k, d, m)
  <2>1. CASE Has(document, k)
    BY <2>1, <1>3, <1>4, SameRead
  <2>2. CASE ~Has(document, k)
    <3>1. Has(config, k) /\ config[k] = CreateDefaultConfig[k]
      BY <2>2, <1>3, <1>4
    <3> QED
      BY <2>2, <3>1, DefaultRead
  <2> QED
    BY <2>1, <2>2
<1>5. /\ CreateDefaultConfig.address = Text("127.0.0.1") /\ CreateDefaultConfig.port = Num(3000)
      /\ CreateDefaultConfig.max_file_size_mb = Num(10)
      /\ CreateDefaultConfig.request_timeout_ms = Num(30000)
      /\ CreateDefaultConfig.step_timeout_ms = Num(10000)
      /\ CreateDefaultConfig.memory_read_timeout_ms = Num(5000)
      /\ CreateDefaultConfig.heartbeat_interval_seconds = Num(30)
  BY DEF CreateDefaultConfig
<1>6. /\ CreateDefaultConfig.allow_memory_write = Truth(FALSE)
      /\ CreateDefaultConfig.allow_register_write = Truth(FALSE)
      /\ CreateDefaultConfig.allow_script_execution = Truth(FALSE)
      /\ CreateDefaultConfig.allow_breakpoint_modification = Truth(TRUE)
      /\ CreateDefaultConfig.auth_enabled = Truth(FALSE)
      /\ CreateDefaultConfig.logging = Truth(TRUE)
      /\ CreateDefaultConfig.enable_notifications = Truth(TRUE)
      /\ CreateDefaultConfig.auto_start_mcp_on_plugin_load = Truth(FALSE)
  BY DEF CreateDefaultConfig
<1>7. ASSUME NEW k \in DOMAIN before \ DOMAIN edit, k \notin {"allowed_methods", "level"}
      PROVE  after[k] = before[k]
  <2>1. k \in EditorKeys \ DOMAIN edit /\ k \notin {"allowed_methods", "level"}
    BY <1>7, InForceIs
  <2>2. CASE k = "address"
    <3>1. GetText(document, "address", "127.0.0.1") = GetText(config, "address", "127.0.0.1")
      BY <2>1, <2>2, <1>4, <1>5
    <3>2. GetServerAddress(document) = GetServerAddress(config)
      BY <3>1, Zenon DEF GetServerAddress
    <3> QED
      BY <2>2, <3>2, InForceIs
  <2>3. CASE k = "port"
    <3>1. GetServerPort(document) = GetServerPort(config)
      BY <2>1, <2>3, <1>4, <1>5 DEF GetServerPort
    <3> QED
      BY <2>3, <3>1, InForceIs
  <2>4. CASE k = "allow_memory_write"
    <3>1. GetTruth(document, "allow_memory_write", FALSE)
            = GetTruth(config, "allow_memory_write", FALSE)
      BY <2>1, <2>4, <1>4, <1>6
    <3> QED
      BY <2>4, <3>1, InForceIs
  <2>5. CASE k = "allow_register_write"
    <3>1. GetTruth(document, "allow_register_write", FALSE)
            = GetTruth(config, "allow_register_write", FALSE)
      BY <2>1, <2>5, <1>4, <1>6
    <3> QED
      BY <2>5, <3>1, InForceIs
  <2>6. CASE k = "allow_script_execution"
    <3>1. GetTruth(document, "allow_script_execution", FALSE)
            = GetTruth(config, "allow_script_execution", FALSE)
      BY <2>1, <2>6, <1>4, <1>6
    <3> QED
      BY <2>6, <3>1, InForceIs
  <2>7. CASE k = "allow_breakpoint_modification"
    <3>1. GetTruth(document, "allow_breakpoint_modification", TRUE)
            = GetTruth(config, "allow_breakpoint_modification", TRUE)
      BY <2>1, <2>7, <1>4, <1>6
    <3> QED
      BY <2>7, <3>1, InForceIs
  <2>8. CASE k = "auth_enabled"
    <3>1. GetTruth(document, "auth_enabled", FALSE) = GetTruth(config, "auth_enabled", FALSE)
      BY <2>1, <2>8, <1>4, <1>6
    <3> QED
      BY <2>8, <3>1, InForceIs
  <2>9. CASE k = "auth_token"
    <3>1. \A d : CreateDefaultConfig[k] = Text(d) => GetText(document, k, d) = GetText(config, k, d)
      BY <2>1, <1>4
    <3>2. AuthToken(document) = AuthToken(config)
      BY <2>9, <3>1, DefaultToken, Zenon DEF AuthToken
    <3> QED
      BY <2>9, <3>2, InForceIs
  <2>10. CASE k = "logging"
    <3>1. GetTruth(document, "logging", TRUE) = GetTruth(config, "logging", TRUE)
      BY <2>1, <2>10, <1>4, <1>6
    <3> QED
      BY <2>10, <3>1, InForceIs
  <2>11. CASE k = "max_file_size_mb"
    <3>1. LogLimit(document) = LogLimit(config)
      BY <2>1, <2>11, <1>4, <1>5 DEF LogLimit
    <3> QED
      BY <2>11, <3>1, InForceIs
  <2>12. CASE k = "request_timeout_ms"
    <3>1. GetRequestTimeout(document) = GetRequestTimeout(config)
      BY <2>1, <2>12, <1>4, <1>5 DEF GetRequestTimeout
    <3> QED
      BY <2>12, <3>1, InForceIs
  <2>13. CASE k = "step_timeout_ms"
    <3>1. GetStepTimeout(document) = GetStepTimeout(config)
      BY <2>1, <2>13, <1>4, <1>5 DEF GetStepTimeout
    <3> QED
      BY <2>13, <3>1, InForceIs
  <2>14. CASE k = "memory_read_timeout_ms"
    <3>1. GetMemoryReadTimeout(document) = GetMemoryReadTimeout(config)
      BY <2>1, <2>14, <1>4, <1>5 DEF GetMemoryReadTimeout
    <3> QED
      BY <2>14, <3>1, InForceIs
  <2>15. CASE k = "enable_notifications"
    <3>1. GetTruth(document, "enable_notifications", TRUE) = GetTruth(config, "enable_notifications", TRUE)
      BY <2>1, <2>15, <1>4, <1>6
    <3> QED
      BY <2>15, <3>1, InForceIs
  <2>16. CASE k = "heartbeat_interval_seconds"
    <3>1. GetHeartbeatInterval(document) = GetHeartbeatInterval(config)
      BY <2>1, <2>16, <1>4, <1>5 DEF GetHeartbeatInterval
    <3> QED
      BY <2>16, <3>1, InForceIs
  <2>17. CASE k = "auto_start_mcp_on_plugin_load"
    <3>1. AutoStart(document) = AutoStart(config)
      BY <2>1, <2>17, <1>4, <1>6 DEF AutoStart
    <3> QED
      BY <2>17, <3>1, InForceIs
  <2>18. DOMAIN before = {"address", "port", "allow_memory_write", "allow_register_write",
                      "allow_script_execution", "allow_breakpoint_modification", "allowed_methods",
                      "auth_enabled", "auth_token", "logging", "level",
                      "max_file_size_mb", "request_timeout_ms", "step_timeout_ms", "memory_read_timeout_ms",
                      "enable_notifications", "heartbeat_interval_seconds", "auto_start_mcp_on_plugin_load"}
    BY Zenon DEF InForce
  <2> QED
    BY <1>7, <2>2, <2>3, <2>4, <2>5, <2>6, <2>7, <2>8, <2>9, <2>10, <2>11, <2>12, <2>13, <2>14, <2>15, <2>16, <2>17, <2>18
<1>8. "allowed_methods" \notin DOMAIN edit => after.allowed_methods = before.allowed_methods
  <2> SUFFICES ASSUME "allowed_methods" \notin DOMAIN edit
               PROVE  AllowedPatterns(config) = AllowedPatterns(document)
    BY InForceIs
  <2>1. "allowed_methods" \in EditorKeys
    BY EditorKeysAre DEF ListKeys
  <2>2. CASE Has(document, "allowed_methods")
    BY <2>1, <2>2, <1>3 DEF AllowedPatterns
  <2>3. CASE ~Has(document, "allowed_methods")
    <3>1. Has(config, "allowed_methods") /\ config["allowed_methods"] = List({})
      BY <2>1, <2>3, <1>3
    <3> QED
      BY <2>3, <3>1 DEF AllowedPatterns, List
  <2> QED
    BY <2>2, <2>3
<1>9. "level" \notin DOMAIN edit =>
        after.level = before.level \/ (before.level \notin ListedLevels /\ after.level = "info")
  <2> SUFFICES ASSUME "level" \notin DOMAIN edit
               PROVE  \/ RuntimeOf(config).level = RuntimeOf(document).level
                      \/ /\ RuntimeOf(document).level \notin ListedLevels
                         /\ RuntimeOf(config).level = "info"
    BY InForceIs
  <2>1. "level" \in EditorKeys /\ CreateDefaultConfig["level"] = Text("info")
    BY EditorKeysAre, DefaultTexts DEF TextKeys
  <2>2. \A tree : GetText(tree, "level", "info") = "info" => RuntimeOf(tree).level = "info"
    BY DEF RuntimeOf
  <2>3. \A tree, other : GetText(tree, "level", "info") = GetText(other, "level", "info") =>
          RuntimeOf(tree).level = RuntimeOf(other).level
    BY DEF RuntimeOf
  <2>4. CASE ~Has(document, "level")
    <3>1. Has(config, "level") /\ config["level"] = Text("info")
      BY <2>1, <2>4, <1>3
    <3> QED
      BY <2>3, <2>4, <3>1, DefaultRead
  <2>5. CASE Has(document, "level") /\ document["level"].text \in ListedLevels
    <3>1. Has(config, "level") /\ config["level"] = document["level"]
      BY <2>1, <2>5, <1>3
    <3> QED
      BY <2>3, <2>5, <3>1, SameRead
  <2>6. CASE Has(document, "level") /\ document["level"].text \notin ListedLevels
    <3>1. Has(config, "level") /\ config["level"] = Text("info")
      BY <2>1, <2>6, <1>3
    <3>2. RuntimeOf(config).level = "info"
      BY <2>2, <3>1 DEF GetText, Text
    <3>3. "text" \in DOMAIN document["level"]
      BY <2>1, <2>6 DEF Editable, Has, Text
    <3>4. GetText(document, "level", "info") \notin ListedLevels
      BY <2>6, <3>3 DEF GetText
    <3>5. RuntimeOf(document).level = "info" \/ RuntimeOf(document).level \notin ListedLevels
      BY <3>4 DEF RuntimeOf
    <3> QED
      BY <3>2, <3>5
  <2> QED
    BY <2>4, <2>5, <2>6
<1>10. \A k \in DOMAIN before \ DOMAIN edit :
          \/ after[k] = before[k]
          \/ k = "level" /\ before[k] \notin ListedLevels /\ after[k] = "info"
  <2> SUFFICES ASSUME NEW k \in DOMAIN before \ DOMAIN edit
               PROVE  \/ after[k] = before[k]
                      \/ k = "level" /\ before[k] \notin ListedLevels /\ after[k] = "info"
    OBVIOUS
  <2> HIDE DEF before, after
  <2>1. CASE k = "level"
    BY <2>1, <1>9
  <2>2. CASE k = "allowed_methods"
    BY <2>2, <1>8
  <2>3. CASE k \notin {"level", "allowed_methods"}
    BY <2>3, <1>7
  <2> QED
    BY <2>1, <2>2, <2>3
<1> HIDE DEF before, after
<1>11. /\ \A k \in DOMAIN edit : k \in DOMAIN config /\ config[k] = edit[k]
       /\ \A k \in DOMAIN document \ EditorKeys : k \in DOMAIN config /\ config[k] = document[k]
       /\ \A k \in DOMAIN before \ DOMAIN edit :
             \/ after[k] = before[k]
             \/ k = "level" /\ before[k] \notin ListedLevels /\ after[k] = "info"
  BY <1>1, <1>2, <1>10
<1> QED
  BY <1>11 DEF SavedFrom, before, after, config

-----------------------------------------------------------------------------
(* The inductive invariant.                                                *)

Places == {"out", "load", "apply", "permit", "listen", "setup", "idle", "dialog"}
Purposes == {"none", "plugin", "autostart", "start", "editor"}

CfgTypeOK ==
  /\ Typed(cfgFile)
  /\ Typed(cfgTree) /\ cfgTree \notin {Absent, Unparsable}
  /\ cfgRuntime.limit \in 1..MaxLogSize
  /\ cfgServer \in BOOLEAN
  /\ cfgDesk = [at |-> cfgDesk.at, purpose |-> cfgDesk.purpose, shown |-> cfgDesk.shown]
  /\ cfgDesk.at \in Places /\ cfgDesk.purpose \in Purposes

\* The dialog shows a document, and what it saved is one until it is loaded.
Shown ==
  cfgDesk.at = "dialog" =>
    IsObject(cfgDesk.shown) /\ Typed(cfgDesk.shown) /\ Editable(cfgDesk.shown)
Saved ==
  cfgDesk.at = "load" /\ cfgDesk.purpose = "editor" /\ cfgFile # Unparsable =>
    Shaped(cfgFile) /\ Acceptable(cfgFile)

\* The permission checker is the last to follow the tree.
EventsFollow ==
  cfgDesk.at \in {"permit"} \/ Settled =>
    cfgRuntime.events = GetTruth(cfgTree, "enable_notifications", TRUE)
PatternsFollow == Settled => cfgPatterns = AllowedPatterns(cfgTree)

\* While the server runs only the editor loads the file.
Guarding ==
  cfgServer => /\ ~TokenMissing(cfgTree)
               /\ cfgDesk.at # "out"
               /\ cfgDesk.at = "load" => cfgDesk.purpose = "editor"

\* Before the plugin is loaded there are the defaults.
Unloaded == cfgDesk.at = "out" => cfgTree = NoTree /\ cfgRuntime = FreshRuntime

CfgInv == Unloaded /\ CfgTypeOK /\ Shown /\ Saved /\ EventsFollow /\ PatternsFollow /\ Guarding

LEMMA Desks ==
  ASSUME NEW at, NEW purpose
  PROVE  /\ Desk(at, purpose) = [at |-> at, purpose |-> purpose, shown |-> NoTree]
         /\ DeskIdle = [at |-> "idle", purpose |-> "none", shown |-> NoTree]
  BY DEF Desk, DeskIdle

LEMMA RuntimeIs ==
  ASSUME NEW tree, Typed(tree)
  PROVE  /\ RuntimeOf(tree).limit \in 1..MaxLogSize
         /\ RuntimeOf(tree).events = GetTruth(tree, "enable_notifications", TRUE)
<1>1. RuntimeOf(tree).limit = LogLimit(tree)
  BY DEF RuntimeOf
<1>2. LogLimit(tree) \in 1..MaxLogSize
  BY BoundedIs, BoundsAre DEF LogLimit
<1>3. RuntimeOf(tree).events = GetTruth(tree, "enable_notifications", TRUE)
  BY DEF RuntimeOf
<1> QED
  BY <1>1, <1>2, <1>3

LEMMA FreshIs ==
  /\ FreshRuntime.limit \in 1..MaxLogSize
  /\ FreshRuntime.events = GetTruth(NoTree, "enable_notifications", TRUE)
<1>1. FreshRuntime.limit = RuntimeOf(NoTree).limit
      /\ FreshRuntime.events = RuntimeOf(NoTree).events
  BY DEF FreshRuntime, RuntimeOf
<1>2. Typed(NoTree)
  BY DEF Typed, IsObject
<1> QED
  BY <1>1, <1>2, RuntimeIs

LEMMA SentinelsAre ==
  /\ Typed(Absent) /\ Typed(Unparsable) /\ Typed(NotAnObject) /\ Typed(NoTree)
  /\ NoTree \notin {Absent, Unparsable, NotAnObject} /\ NotAnObject \notin {Absent, Unparsable}
  /\ Absent # Unparsable
<1>1. /\ NoTree \notin {Absent, Unparsable, NotAnObject} /\ NotAnObject \notin {Absent, Unparsable}
      /\ Absent # Unparsable
  BY DEF Absent, Unparsable, NotAnObject, NoTree
<1> QED
  BY <1>1 DEF Typed, IsObject

LEMMA CfgInitInv == CfgInit => CfgInv
<1> SUFFICES ASSUME CfgInit PROVE CfgInv
  OBVIOUS
<1>1. Typed(cfgFile)
  BY DocumentsAssumption, SentinelsAre DEF CfgInit, Typed
<1>2. cfgDesk = [at |-> "out", purpose |-> "none", shown |-> NoTree]
  BY Desks DEF CfgInit
<1>3. cfgTree = NoTree /\ cfgServer = FALSE /\ cfgRuntime = FreshRuntime
  BY DEF CfgInit
<1>4. CfgTypeOK
  BY <1>1, <1>2, <1>3, SentinelsAre, FreshIs DEF CfgTypeOK, Places, Purposes
<1> QED
  BY <1>2, <1>3, <1>4
     DEF CfgInv, Unloaded, Shown, Saved, EventsFollow, PatternsFollow, Guarding, Settled

LEMMA LoadKeeps == ASSUME CfgInv, LoadTree PROVE CfgInv'
<1> USE DEF CfgInv, CfgTypeOK
<1>1. cfgDesk' = [at |-> "apply", purpose |-> cfgDesk.purpose, shown |-> cfgDesk.shown]
  BY DEF LoadTree
<1>2. /\ Typed(cfgFile') /\ Typed(cfgTree') /\ cfgTree' \notin {Absent, Unparsable}
  BY DefaultTyped, Zenon DEF LoadTree, Shaped, IsObject
<1>3. cfgServer => ~TokenMissing(cfgTree')
  <2> SUFFICES ASSUME cfgServer PROVE ~TokenMissing(cfgTree')
    OBVIOUS
  <2>1. cfgDesk.at = "load" /\ cfgDesk.purpose = "editor" /\ ~TokenMissing(cfgTree)
    BY DEF Guarding, LoadTree
  <2>2. cfgFile # Unparsable => Shaped(cfgFile) /\ ~TokenMissing(cfgFile)
    BY <2>1, AcceptableReads DEF Saved
  <2>3. cfgFile # Absent
    BY <2>2, SentinelsAre DEF Shaped, IsObject
  <2> QED
    BY <2>1, <2>2, <2>3 DEF LoadTree
<1>4. UNCHANGED <<cfgPatterns, cfgRuntime, cfgServer>>
  BY DEF LoadTree
<1>5. CfgTypeOK'
  BY <1>1, <1>2, <1>4 DEF Places
<1> QED
  BY <1>1, <1>3, <1>4, <1>5
     DEF Unloaded, Shown, Saved, EventsFollow, PatternsFollow, Guarding, Settled

LEMMA ApplyKeeps == ASSUME CfgInv, ApplyRuntime PROVE CfgInv'
<1> USE DEF CfgInv, CfgTypeOK
<1>1. cfgDesk' = [at |-> "permit", purpose |-> cfgDesk.purpose, shown |-> cfgDesk.shown]
  BY DEF ApplyRuntime
<1>2. /\ cfgDesk.at = "apply" /\ cfgRuntime' = RuntimeOf(cfgTree)
      /\ UNCHANGED <<cfgFile, cfgTree, cfgPatterns, cfgServer>>
  BY DEF ApplyRuntime
<1>3. CfgTypeOK'
  BY <1>1, <1>2, RuntimeIs DEF Places
<1> QED
  BY <1>1, <1>2, <1>3, RuntimeIs
     DEF Unloaded, Shown, Saved, EventsFollow, PatternsFollow, Guarding, Settled

LEMMA PermitKeeps == ASSUME CfgInv, InitializePermissions PROVE CfgInv'
<1> USE DEF CfgInv, CfgTypeOK
<1>1. /\ cfgDesk.at = "permit" /\ cfgPatterns' = AllowedPatterns(cfgTree)
      /\ UNCHANGED <<cfgFile, cfgTree, cfgRuntime, cfgServer>>
  BY DEF InitializePermissions
<1>2. /\ cfgDesk' = [at |-> cfgDesk'.at, purpose |-> cfgDesk'.purpose, shown |-> cfgDesk'.shown]
      /\ cfgDesk'.at \in {"idle", "apply", "setup", "listen"}
      /\ cfgDesk'.purpose \in {"none", "autostart", cfgDesk.purpose}
  <2>1. CASE cfgDesk.purpose = "editor"
    BY <2>1, Desks DEF InitializePermissions
  <2>2. CASE cfgDesk.purpose = "plugin"
    BY <2>2, Desks DEF InitializePermissions
  <2>3. CASE cfgDesk.purpose \notin {"editor", "plugin"}
    BY <2>3 DEF InitializePermissions
  <2> QED
    BY <2>1, <2>2, <2>3
<1>3. CfgTypeOK'
  BY <1>1, <1>2 DEF Places, Purposes
<1> QED
  BY <1>1, <1>2, <1>3 DEF Unloaded, Shown, Saved, EventsFollow, PatternsFollow, Guarding, Settled

LEMMA StartKeeps == ASSUME CfgInv, StartServer PROVE CfgInv'
<1> USE DEF CfgInv, CfgTypeOK
<1>1. /\ cfgDesk.at = "listen"
      /\ UNCHANGED <<cfgFile, cfgTree, cfgPatterns, cfgRuntime>>
  BY DEF StartServer
<1>2. cfgServer' \in BOOLEAN /\ (cfgServer' => ~TokenMissing(cfgTree))
  BY DEF StartServer
<1>3. /\ cfgDesk' = [at |-> cfgDesk'.at, purpose |-> cfgDesk'.purpose, shown |-> cfgDesk'.shown]
      /\ cfgDesk'.at \in {"idle", "setup"} /\ cfgDesk'.purpose = "none"
  BY Desks DEF StartServer
<1>4. CfgTypeOK'
  BY <1>1, <1>2, <1>3 DEF Places, Purposes
<1> QED
  BY <1>1, <1>2, <1>3, <1>4
     DEF Unloaded, Shown, Saved, EventsFollow, PatternsFollow, Guarding, Settled

\* What choosing the auto-start option does, when the file is written and when
\* it is not.
LEMMA ToggleIs ==
  ASSUME CfgTypeOK, MenuAutoStart
  PROVE  /\ IsObject(cfgTree') /\ Typed(cfgTree') /\ Alike(cfgTree, cfgTree')
         /\ \/ /\ AutoStart(cfgTree') = cfgChecked' /\ cfgFile' \in {cfgTree', Unparsable}
            \/ /\ AutoStart(cfgTree') = AutoStart(cfgTree)
               /\ UNCHANGED <<cfgFile, cfgChecked>>
<1> DEFINE enabled == AutoStart(cfgTree)
           changed == WithAutoStart(cfgTree, ~enabled)
           back == WithAutoStart(changed, enabled)
<1>1. Typed(cfgTree) /\ (cfgTree = NoTree \/ IsObject(cfgTree))
  BY DEF CfgTypeOK, MenuAutoStart, IsObject
<1>2. enabled \in BOOLEAN
  <2>1. \A v : IsValue(v) /\ "truth" \in DOMAIN v => v.truth \in BOOLEAN
    BY DEF IsValue
  <2> QED
    BY <1>1, <2>1 DEF AutoStart, GetTruth, Has, Typed
<1>3. \/ cfgTree' = changed /\ cfgFile' \in {changed, Unparsable} /\ cfgChecked' = ~enabled
      \/ cfgTree' = back /\ UNCHANGED <<cfgFile, cfgChecked>>
  BY DEF MenuAutoStart
<1> HIDE DEF enabled
<1>4. /\ IsObject(changed) /\ Typed(changed) /\ Alike(cfgTree, changed)
      /\ AutoStart(changed) = (~enabled)
  BY <1>1, <1>2, WithAutoStartIs
<1>5. /\ IsObject(back) /\ Typed(back) /\ Alike(changed, back) /\ AutoStart(back) = enabled
  BY <1>2, <1>4, WithAutoStartIs
<1>6. Alike(cfgTree, back)
  BY <1>4, <1>5 DEF Alike
<1> HIDE DEF changed, back
<1> QED
  BY <1>3, <1>4, <1>5, <1>6 DEF enabled

LEMMA ToggleKeeps == ASSUME CfgInv, MenuAutoStart PROVE CfgInv'
<1> USE DEF CfgInv, CfgTypeOK
<1>1. /\ IsObject(cfgTree') /\ Typed(cfgTree') /\ Alike(cfgTree, cfgTree')
      /\ cfgFile' \in {cfgTree', Unparsable, cfgFile}
  BY ToggleIs
<1>2. cfgDesk.at = "idle" /\ UNCHANGED <<cfgPatterns, cfgRuntime, cfgServer, cfgDesk>>
  BY DEF MenuAutoStart
<1>3. CfgTypeOK'
  BY <1>1, <1>2, SentinelsAre DEF IsObject
<1>4. /\ AllowedPatterns(cfgTree') = AllowedPatterns(cfgTree)
      /\ TokenMissing(cfgTree') <=> TokenMissing(cfgTree)
      /\ GetTruth(cfgTree', "enable_notifications", TRUE)
           = GetTruth(cfgTree, "enable_notifications", TRUE)
  BY <1>1, AlikeReads
<1> QED
  BY <1>2, <1>3, <1>4 DEF Unloaded, Shown, Saved, EventsFollow, PatternsFollow, Guarding, Settled

LEMMA ShowKeeps == ASSUME CfgInv, EditorShow PROVE CfgInv'
<1> USE DEF CfgInv, CfgTypeOK
<1>1. PICK shown \in {cfgFile, CreateDefaultConfig} :
         /\ shown # Unparsable /\ Editable(shown)
         /\ cfgDesk' = [at |-> "dialog", purpose |-> "editor",
                        shown |-> IF IsObject(shown) THEN shown ELSE CreateDefaultConfig]
  BY DEF EditorShow
<1>2. Editable(CreateDefaultConfig)
  BY DEF Editable
<1>3. /\ IsObject(cfgDesk'.shown) /\ Typed(cfgDesk'.shown) /\ Editable(cfgDesk'.shown)
  <2>1. CASE IsObject(shown)
    BY <1>1, <2>1, DefaultTyped DEF Shaped
  <2>2. CASE ~IsObject(shown)
    BY <1>1, <1>2, <2>2, DefaultTyped DEF Shaped
  <2> QED
    BY <2>1, <2>2
<1>4. /\ cfgDesk.at = "idle"
      /\ UNCHANGED <<cfgFile, cfgTree, cfgPatterns, cfgRuntime, cfgServer>>
  BY DEF EditorShow
<1>5. CfgTypeOK'
  BY <1>1, <1>4 DEF Places, Purposes
<1> QED
  BY <1>1, <1>3, <1>4, <1>5 DEF Unloaded, Shown, Saved, EventsFollow, PatternsFollow, Guarding, Settled

LEMMA SaveKeeps == ASSUME CfgInv, EditorSave PROVE CfgInv'
<1> USE DEF CfgInv, CfgTypeOK
<1>1. PICK edit \in Edits :
         /\ Acceptable(FromControls(cfgDesk.shown, edit))
         /\ cfgFile' \in {FromControls(cfgDesk.shown, edit), Unparsable}
         /\ cfgDesk' = [at |-> "load", purpose |-> "editor",
                        shown |-> FromControls(cfgDesk.shown, edit)]
  BY DEF EditorSave
<1>2. cfgDesk.at = "dialog" /\ UNCHANGED <<cfgTree, cfgPatterns, cfgRuntime, cfgServer>>
  BY DEF EditorSave
<1>3. Shaped(FromControls(cfgDesk.shown, edit))
  BY <1>2, FromControlsIs DEF Shown
<1>4. Saved'
  BY <1>1, <1>3 DEF Saved
<1>5. Typed(cfgFile')
  BY <1>1, <1>3, SentinelsAre DEF Shaped
<1>6. CfgTypeOK'
  BY <1>1, <1>2, <1>5 DEF Places, Purposes
<1> QED
  BY <1>1, <1>2, <1>4, <1>6 DEF Unloaded, Shown, EventsFollow, PatternsFollow, Guarding, Settled

\* pluginit() up to the loading, and all that ends a life of the plugin.
LEMMA LifeKeeps == ASSUME CfgInv, PluginInit \/ PluginGone PROVE CfgInv'
<1> USE DEF CfgInv, CfgTypeOK
<1>1. CASE PluginInit
  <2>1. /\ cfgDesk.at = "out" /\ UNCHANGED <<cfgTree, cfgPatterns, cfgRuntime, cfgServer>>
        /\ cfgFile' \in {cfgFile, CreateDefaultConfig}
    BY <1>1 DEF PluginInit
  <2>2. cfgDesk' \in {Desk("permit", "plugin"), Desk("load", "plugin")}
    BY <1>1 DEF PluginInit
  <2>3. /\ cfgDesk' = [at |-> cfgDesk'.at, purpose |-> cfgDesk'.purpose, shown |-> cfgDesk'.shown]
        /\ cfgDesk'.at \in {"permit", "load"} /\ cfgDesk'.purpose = "plugin"
    BY <2>2, Desks
  <2>4. Typed(cfgFile')
    BY <2>1, DefaultTyped DEF Shaped
  <2>5. CfgTypeOK'
    BY <2>1, <2>3, <2>4 DEF Places, Purposes
  <2> QED
    BY <2>1, <2>3, <2>5, FreshIs
       DEF Unloaded, Shown, Saved, EventsFollow, PatternsFollow, Guarding, Settled
<1>2. CASE PluginGone
  <2>1. /\ cfgTree' = NoTree /\ cfgRuntime' = FreshRuntime /\ cfgServer' = FALSE
        /\ cfgFile' = cfgFile
        /\ cfgDesk' = [at |-> "out", purpose |-> "none", shown |-> NoTree]
    BY <1>2, Desks DEF PluginGone
  <2>2. CfgTypeOK'
    BY <2>1, SentinelsAre, FreshIs DEF Places, Purposes
  <2> QED
    BY <2>1, <2>2
       DEF Unloaded, Shown, Saved, EventsFollow, PatternsFollow, Guarding, Settled
<1> QED
  BY <1>1, <1>2

\* What moves the GUI thread on, or changes nothing but the file.
LEMMA DeskKeeps ==
  ASSUME CfgInv, PluginSetup \/ MenuStart \/ MenuStop \/ EditorCancel \/ WriteDocument
  PROVE  CfgInv'
<1> USE DEF CfgInv, CfgTypeOK
<1>1. /\ UNCHANGED <<cfgTree, cfgPatterns, cfgRuntime>>
      /\ cfgServer' \in BOOLEAN /\ (cfgServer' => cfgServer)
      /\ cfgDesk.at \in {"setup", "idle", "dialog", "out"}
  <2>1. cfgServer' = cfgServer \/ cfgServer' = FALSE
    BY Zenon DEF PluginSetup, MenuStart, MenuStop, EditorCancel, WriteDocument
  <2>2. /\ UNCHANGED <<cfgTree, cfgPatterns, cfgRuntime>>
        /\ cfgDesk.at \in {"setup", "idle", "dialog", "out"}
    BY DEF PluginSetup, MenuStart, MenuStop, EditorCancel, WriteDocument
  <2>3. cfgServer' \in BOOLEAN
    BY <2>1, Zenon
  <2>4. cfgServer' => cfgServer
    BY <2>1, Zenon
  <2> QED
    BY <2>2, <2>3, <2>4, Zenon
<1>2. \/ cfgDesk' = [at |-> "idle", purpose |-> "none", shown |-> NoTree] /\ cfgDesk.at # "out"
      \/ /\ cfgDesk' = [at |-> "load", purpose |-> "start", shown |-> NoTree]
         /\ cfgServer' = FALSE /\ cfgDesk.at # "out"
      \/ cfgDesk' = cfgDesk
  BY Desks DEF PluginSetup, MenuStart, MenuStop, EditorCancel, WriteDocument
<1>3. Typed(cfgFile')
  <2>1. CASE WriteDocument
    BY <2>1, DocumentsAssumption, SentinelsAre DEF WriteDocument, Typed
  <2>2. CASE ~WriteDocument
    BY <2>2 DEF PluginSetup, MenuStart, MenuStop, EditorCancel
  <2> QED
    BY <2>1, <2>2
<1>4. CASE /\ cfgDesk' = [at |-> "idle", purpose |-> "none", shown |-> NoTree]
           /\ cfgDesk.at # "out"
  <2>1. CfgTypeOK'
    BY <1>1, <1>3, <1>4 DEF Places, Purposes
  <2> QED
    BY <1>1, <1>4, <2>1
       DEF Unloaded, Shown, Saved, EventsFollow, PatternsFollow, Guarding, Settled
<1>5. CASE /\ cfgDesk' = [at |-> "load", purpose |-> "start", shown |-> NoTree]
           /\ cfgServer' = FALSE
  <2>1. CfgTypeOK'
    BY <1>1, <1>3, <1>5 DEF Places, Purposes
  <2> QED
    BY <1>1, <1>5, <2>1
       DEF Unloaded, Shown, Saved, EventsFollow, PatternsFollow, Guarding, Settled
<1>6. CASE cfgDesk' = cfgDesk
  <2>1. CfgTypeOK'
    BY <1>1, <1>3, <1>6
  <2> QED
    BY <1>1, <1>6, <2>1
       DEF Unloaded, Shown, Saved, EventsFollow, PatternsFollow, Guarding, Settled
<1> QED
  BY <1>2, <1>4, <1>5, <1>6

LEMMA CfgNextInv == CfgInv /\ [CfgNext]_cfgVars => CfgInv'
<1> SUFFICES ASSUME CfgInv, [CfgNext]_cfgVars PROVE CfgInv'
  OBVIOUS
<1>1. CASE UNCHANGED cfgVars
  BY <1>1 DEF cfgVars, CfgInv, CfgTypeOK, Unloaded, Shown, Saved, EventsFollow, PatternsFollow,
              Guarding, Settled
<1>2. CASE CfgNext
  BY <1>2, LoadKeeps, ApplyKeeps, PermitKeeps, StartKeeps, ToggleKeeps, ShowKeeps, SaveKeeps,
     LifeKeeps, DeskKeeps DEF CfgNext
<1> QED
  BY <1>1, <1>2

LEMMA CfgInvariant == CfgSpec => []CfgInv
  BY CfgInitInv, CfgNextInv, PTL DEF CfgSpec

-----------------------------------------------------------------------------

\* README.md:277: whatever is written into config.json while it runs, and
\* whatever the editor saves, the server never runs with authentication
\* enabled and no token.
THEOREM ServerHasToken == CfgSpec => []RunningServerHasToken
<1>1. CfgInv => RunningServerHasToken
  BY DEF CfgInv, Guarding, RunningServerHasToken
<1> QED
  BY CfgInvariant, <1>1, PTL

\* The permissions and the events in force are those of the tree, after each
\* way to load, toggle or edit the settings and after each way for that to
\* fail; a tree that could not be read permits no method.
THEOREM PermissionsAreOfTree == CfgSpec => []PermissionsFollowTree
<1>1. CfgInv => AppliedSettingsFollowTree
  BY DEF CfgInv, EventsFollow, PatternsFollow, AppliedSettingsFollowTree
<1>2. CfgInv => UnreadFileAllowsNothing
  <2> SUFFICES ASSUME CfgInv, Settled, cfgTree \in {NoTree, NotAnObject}
               PROVE  cfgPatterns = {} /\ RightsOf(cfgTree) \subseteq {"breakpoint"}
    BY DEF UnreadFileAllowsNothing
  <2>1. \A k : ~Has(cfgTree, k)
    BY DEF Has, IsObject
  <2>2. cfgPatterns = {}
    BY <2>1 DEF CfgInv, PatternsFollow, AllowedPatterns
  <2>3. \A r \in RightsOf(cfgTree) : r = "breakpoint"
    BY <2>1 DEF RightsOf, GetTruth
  <2> QED
    BY <2>2, <2>3
<1>3. CfgInv => PermissionsFollowTree
  BY <1>1, <1>2 DEF PermissionsFollowTree
<1> QED
  BY CfgInvariant, <1>3, PTL

\* Whatever config.json holds, every limit in use is in its range, and a
\* number that the editor saved is used as it is.
THEOREM LimitsAreInRange == CfgSpec => []LimitsAreUsable
<1>1. CfgInv => SettingsInRange
  <2> SUFFICES ASSUME CfgInv PROVE SettingsInRange
    OBVIOUS
  <2>1. Typed(cfgTree) /\ cfgRuntime.limit \in 1..MaxLogSize
    BY DEF CfgInv, CfgTypeOK
  <2>2. GetRequestTimeout(cfgTree) \in 1..MaxTimeout
    BY <2>1, BoundsAre, BoundedIs, SMT DEF GetRequestTimeout
  <2>3. GetStepTimeout(cfgTree) \in 1..MaxTimeout
    BY <2>1, BoundsAre, BoundedIs, SMT DEF GetStepTimeout
  <2>4. GetMemoryReadTimeout(cfgTree) \in 1..MaxTimeout
    BY <2>1, BoundsAre, BoundedIs, SMT DEF GetMemoryReadTimeout
  <2>5. GetHeartbeatInterval(cfgTree) \in 1..MaxInterval
    BY <2>1, BoundsAre, BoundedIs, SMT DEF GetHeartbeatInterval
  <2> QED
    BY <2>1, <2>2, <2>3, <2>4, <2>5, PortIs DEF SettingsInRange
<1>2. CfgInv => EditorSavesWhatServerUses
  BY AcceptableReads DEF CfgInv, Saved, EditorSavesWhatServerUses
<1>3. CfgInv => LimitsAreUsable
  BY <1>1, <1>2 DEF LimitsAreUsable
<1> QED
  BY CfgInvariant, <1>3, PTL

\* A save of the editor writes what was edited and keeps what the editor does
\* not show (README.md:225); what is in force of the settings that were not
\* edited stays, but for a level that its list lacks.  Choosing the auto-start
\* option changes setting, check mark and file, or none of them, and no other
\* setting.
THEOREM SettingsAreKept == CfgSpec => OtherSettingsStay
<1> DEFINE Keeps ==
      cfgDesk.at = "dialog" /\ cfgDesk'.at = "load" /\ cfgFile' # Unparsable =>
        \E edit \in Edits : SavedFrom(cfgDesk.shown, edit, cfgFile')
           Toggles ==
      cfgDesk.at = "idle" /\ cfgDesk' = cfgDesk /\ cfgTree' # cfgTree =>
        /\ InForce(cfgTree') =
              [InForce(cfgTree) EXCEPT !.auto_start_mcp_on_plugin_load = AutoStart(cfgTree')]
        /\ AutoStart(cfgTree') # AutoStart(cfgTree) =>
              cfgChecked' = AutoStart(cfgTree') /\ cfgFile' \in {cfgTree', Unparsable}
<1>1. CfgInv /\ [CfgNext]_cfgVars => [Keeps]_cfgVars
  <2> SUFFICES ASSUME CfgInv, CfgNext, cfgDesk.at = "dialog", cfgDesk'.at = "load",
                      cfgFile' # Unparsable
               PROVE  \E edit \in Edits : SavedFrom(cfgDesk.shown, edit, cfgFile')
    OBVIOUS
  <2>1. EditorSave
    BY Desks DEF CfgNext, PluginInit, LoadTree, ApplyRuntime, InitializePermissions, StartServer,
       PluginSetup, PluginGone, WriteDocument, MenuStart, MenuStop, MenuAutoStart, EditorShow,
       EditorCancel
  <2>2. PICK edit \in Edits : cfgFile' \in {FromControls(cfgDesk.shown, edit), Unparsable}
    BY <2>1 DEF EditorSave
  <2> QED
    BY <2>2, SaveKeepsInForce DEF CfgInv, Shown
<1>2. CfgInv /\ [CfgNext]_cfgVars => [Toggles]_cfgVars
  <2> SUFFICES ASSUME CfgInv, CfgNext, cfgDesk.at = "idle", cfgDesk' = cfgDesk,
                      cfgTree' # cfgTree
               PROVE  Toggles
    OBVIOUS
  <2>1. MenuAutoStart
    BY Desks DEF CfgNext, PluginInit, LoadTree, ApplyRuntime, InitializePermissions, StartServer,
       PluginSetup, PluginGone, WriteDocument, MenuStart, MenuStop, EditorShow, EditorCancel,
       EditorSave
  <2>2. /\ Alike(cfgTree, cfgTree')
        /\ \/ AutoStart(cfgTree') = cfgChecked' /\ cfgFile' \in {cfgTree', Unparsable}
           \/ AutoStart(cfgTree') = AutoStart(cfgTree)
    BY <2>1, ToggleIs DEF CfgInv
  <2> QED
    BY <2>2, AlikeInForce
<1>3. CfgSpec => [][Keeps]_cfgVars /\ [][Toggles]_cfgVars
  BY <1>1, <1>2, CfgInvariant, PTL DEF CfgSpec
<1> QED
  BY <1>3 DEF OtherSettingsStay, EditorSavesTheEdit, ToggleIsAllOrNothing

-----------------------------------------------------------------------------
(* Reception: what the loop of ReceiveHttpRequest() knows of its request.  *)

ConnFields == {"at", "message", "received", "headerKnown", "started", "timeout", "status",
               "reflected", "handler", "body"}

ConnTypeOK ==
  /\ DOMAIN httpConn = ConnFields
  /\ httpClock \in Nat

\* A request that is being received, and one that was.
Receiving(conn, now) ==
  /\ conn.message \in Messages
  /\ {conn.received, conn.started, conn.timeout} \subseteq Nat
  /\ conn.started <= now /\ now <= Deadline(conn)
  /\ conn.received <= MaxHttpRequest
  /\ conn.received < conn.message.headerSize =>
        conn.headerKnown = FALSE /\ conn.received <= MaxHeaderSize
  /\ conn.headerKnown \in BOOLEAN /\ (conn.headerKnown => conn.message.wellFormed)
Received(conn) ==
  /\ conn.message.wellFormed
  /\ conn.received >= conn.message.headerSize + conn.message.declared
  /\ conn.body = conn.message.declared

ReceptionInv ==
  /\ ConnTypeOK
  /\ httpConn.at # "answered" => httpConn.handler = "none" /\ httpConn.reflected = "none"
  /\ httpConn.at = "receive" => Receiving(httpConn, httpClock)
  /\ httpConn.at \in {"parse", "limit", "route"} => Received(httpConn)

LEMMA ServedIs ==
  ASSUME NEW at
  PROVE  /\ DOMAIN Served(at) = ConnFields
         /\ Served(at).at = at /\ Served(at).received = 0 /\ Served(at).headerKnown = FALSE
         /\ Served(at).handler = "none" /\ Served(at).reflected = "none"
  BY DEF Served, ConnFields

LEMMA ReplyIs ==
  ASSUME NEW conn, DOMAIN conn = ConnFields, NEW status, NEW origin
  PROVE  /\ DOMAIN Reply(conn, status, origin) = ConnFields
         /\ Reply(conn, status, origin).at = "answered"
         /\ Reply(conn, status, origin).reflected = origin
         /\ Reply(conn, status, origin).message = conn.message
         /\ Reply(conn, status, origin).handler = conn.handler
  BY DEF Reply, ConnFields

LEMMA BadIs ==
  ASSUME NEW conn, DOMAIN conn = ConnFields
  PROVE  /\ DOMAIN Bad(conn) = ConnFields /\ Bad(conn).at = "answered"
         /\ Bad(conn).reflected = "none" /\ Bad(conn).message = conn.message
         /\ Bad(conn).handler = conn.handler
  BY ReplyIs DEF Bad

\* The deadline of a request moves when its header is there, never back.
LEMMA DeadlineGrows ==
  ASSUME NEW conn, NEW other, conn.started \in Nat, conn.timeout \in Nat,
         other.started = conn.started, other.timeout = conn.timeout,
         conn.headerKnown \in BOOLEAN, other.headerKnown \in {conn.headerKnown, TRUE}
  PROVE  Deadline(conn) <= Deadline(other)
<1>1. HeaderTimeout \in Nat
  BY ReceptionAssumption
<1>2. CASE other.headerKnown = conn.headerKnown
  <2>1. Deadline(other) = Deadline(conn) /\ Deadline(conn) \in Int
    BY <1>1, <1>2 DEF Deadline
  <2> QED
    BY <2>1
<1>3. CASE conn.headerKnown = FALSE /\ other.headerKnown = TRUE
  BY <1>1, <1>3 DEF Deadline
<1> QED
  BY <1>2, <1>3

\* What the loop makes of a chunk: it goes on within the limits, has the whole
\* request, or has answered.
LEMMA ChunkIs ==
  ASSUME NEW conn, DOMAIN conn = ConnFields, conn.at = "receive", conn.handler = "none",
         conn.received \in Nat, conn.headerKnown \in BOOLEAN,
         conn.message \in Messages, conn.headerKnown => conn.message.wellFormed
  PROVE  LET next == AfterChunk(conn)
         IN  /\ DOMAIN next = ConnFields
             /\ next.handler = "none" /\ next.reflected \in {"none", conn.reflected}
             /\ next.at \in {"receive", "parse", "answered"}
             /\ next.at = "receive" =>
                  /\ next.message = conn.message /\ next.received = conn.received
                  /\ next.started = conn.started /\ next.timeout = conn.timeout
                  /\ next.headerKnown \in {conn.headerKnown, TRUE}
                  /\ next.received <= MaxHttpRequest
                  /\ next.received < next.message.headerSize =>
                       next.headerKnown = conn.headerKnown /\ next.received <= MaxHeaderSize
                  /\ next.headerKnown => next.message.wellFormed
             /\ next.at = "parse" => Received(next)
<1> DEFINE next == AfterChunk(conn)
           known == [conn EXCEPT !.headerKnown = TRUE]
           found == conn.received >= conn.message.headerSize
<1>1. /\ {MaxHeaderSize, MaxHttpRequest} \subseteq Nat
      /\ {conn.message.headerSize, conn.message.declared} \subseteq Nat
  BY ReceptionAssumption
<1>2. /\ DOMAIN known = ConnFields /\ known.headerKnown = TRUE
      /\ \A f \in ConnFields \ {"headerKnown"} : known[f] = conn[f]
  BY DEF ConnFields
<1>3. \/ next \in {Reply(conn, 413, "none"), Bad(conn)}
      \/ conn.received <= MaxHttpRequest /\ ~found /\ conn.received <= MaxHeaderSize /\ next = conn
      \/ /\ conn.received <= MaxHttpRequest /\ found /\ conn.message.wellFormed
         /\ conn.received >= conn.message.headerSize + conn.message.declared
         /\ next = Whole(known)
      \/ /\ conn.received <= MaxHttpRequest /\ found /\ conn.message.wellFormed
         /\ next = known
  BY <1>1 DEF AfterChunk
<1> HIDE DEF next, known
<1>4. CASE next \in {Reply(conn, 413, "none"), Bad(conn)}
  <2>1. DOMAIN next = ConnFields /\ next.at = "answered" /\ next.reflected = "none"
        /\ next.handler = conn.handler
    BY <1>4, ReplyIs, BadIs
  <2> QED
    BY <2>1 DEF next
<1>5. CASE conn.received <= MaxHttpRequest /\ ~found /\ conn.received <= MaxHeaderSize /\ next = conn
  BY <1>5 DEF next
<1>6. CASE /\ conn.received <= MaxHttpRequest /\ found /\ conn.message.wellFormed
           /\ conn.received >= conn.message.headerSize + conn.message.declared
           /\ next = Whole(known)
  <2>1. /\ DOMAIN next = ConnFields /\ next.at = "parse" /\ next.body = known.message.declared
        /\ next.message = known.message /\ next.received = known.received
        /\ next.handler = known.handler /\ next.reflected = known.reflected
    BY <1>2, <1>6 DEF Whole, ConnFields
  <2>2. /\ known.message = conn.message /\ known.received = conn.received
        /\ known.handler = conn.handler /\ known.reflected = conn.reflected
    BY <1>2 DEF ConnFields
  <2> QED
    BY <1>6, <2>1, <2>2 DEF next, Received
<1>7. CASE /\ conn.received <= MaxHttpRequest /\ found /\ conn.message.wellFormed
           /\ next = known
  <2>1. /\ known.message = conn.message /\ known.received = conn.received
        /\ known.handler = conn.handler /\ known.reflected = conn.reflected
        /\ known.started = conn.started /\ known.timeout = conn.timeout /\ known.at = conn.at
    BY <1>2 DEF ConnFields
  <2>2. next.received >= next.message.headerSize /\ next.headerKnown = TRUE /\ next.at = "receive"
    BY <1>2, <1>7, <2>1
  <2>3. ~(next.received < next.message.headerSize)
    BY <1>1, <1>7, <2>1, <2>2
  <2> QED
    BY <1>2, <1>7, <2>1, <2>2, <2>3 DEF next
<1> QED
  BY <1>3, <1>4, <1>5, <1>6, <1>7


LEMMA ArrivesKeeps == ASSUME ReceptionInv, Typed(cfgTree), Arrives PROVE ReceptionInv'
<1>1. PICK message \in Messages :
         httpConn' = [Served("receive") EXCEPT !.message = message, !.started = httpClock,
                                               !.timeout = GetRequestTimeout(cfgTree)]
  BY DEF Arrives, Becoming
<1> DEFINE conn == httpConn'
           timeout == GetRequestTimeout(cfgTree)
<1>2. timeout \in Nat
  <2>1. timeout \in 1..MaxTimeout
    BY BoundsAre, BoundedIs, SMT DEF GetRequestTimeout
  <2> QED
    BY <2>1, BoundsAre
<1>3. httpClock \in Nat /\ UNCHANGED httpClock
  BY DEF ReceptionInv, ConnTypeOK, Arrives, NoTime
<1> HIDE DEF timeout
<1>4. /\ DOMAIN conn = ConnFields /\ conn.at = "receive" /\ conn.message = message
      /\ conn.started = httpClock /\ conn.timeout = timeout
      /\ conn.received = 0 /\ conn.headerKnown = FALSE
      /\ conn.handler = "none" /\ conn.reflected = "none"
  BY <1>1, ServedIs DEF ConnFields, timeout
<1> HIDE DEF conn
<1>5. {message.headerSize, MaxHeaderSize, MaxHttpRequest, HeaderTimeout} \subseteq Nat
  BY ReceptionAssumption
<1>6. httpClock <= Deadline(conn)
  BY <1>2, <1>3, <1>4, <1>5 DEF Deadline
<1>7. Receiving(conn, httpClock)
  <2>1. {conn.received, conn.started, conn.timeout} \subseteq Nat
    BY <1>2, <1>3, <1>4
  <2>2. conn.started <= httpClock /\ conn.received <= MaxHttpRequest /\ conn.received <= MaxHeaderSize
    BY <1>3, <1>4, <1>5
  <2>3. conn.headerKnown = FALSE /\ conn.headerKnown \in BOOLEAN /\ conn.message \in Messages
    BY <1>4
  <2> QED
    BY <1>6, <2>1, <2>2, <2>3 DEF Receiving
<1> QED
  BY <1>3, <1>4, <1>7 DEF ReceptionInv, ConnTypeOK, conn

LEMMA BytesKeep == ASSUME ReceptionInv, ReceiveBytes PROVE ReceptionInv'
<1>1. PICK n \in 1..ReceiveChunk :
         httpConn' = AfterChunk([httpConn EXCEPT !.received = @ + n])
  BY DEF ReceiveBytes, Becoming
<1> DEFINE conn == [httpConn EXCEPT !.received = @ + n]
           next == AfterChunk(conn)
<1>2. /\ httpConn.at = "receive" /\ Receiving(httpConn, httpClock)
      /\ DOMAIN httpConn = ConnFields /\ httpClock \in Nat /\ UNCHANGED httpClock
      /\ httpConn.handler = "none" /\ httpConn.reflected = "none"
  BY DEF ReceptionInv, ConnTypeOK, ReceiveBytes, NoTime
<1>3. /\ DOMAIN conn = ConnFields /\ conn.received = httpConn.received + n
      /\ conn.at = "receive" /\ conn.message = httpConn.message
      /\ conn.started = httpConn.started /\ conn.timeout = httpConn.timeout
      /\ conn.headerKnown = httpConn.headerKnown
      /\ conn.handler = "none" /\ conn.reflected = "none"
  BY <1>2 DEF ConnFields
<1>4. /\ {conn.received, conn.started, conn.timeout} \subseteq Nat
      /\ conn.message \in Messages /\ conn.headerKnown \in BOOLEAN
      /\ conn.headerKnown => conn.message.wellFormed
  BY <1>2, <1>3, ReceptionAssumption DEF Receiving
<1> HIDE DEF conn
<1>5. /\ DOMAIN next = ConnFields
      /\ next.handler = "none" /\ next.reflected = "none"
      /\ next.at \in {"receive", "parse", "answered"}
      /\ next.at = "receive" =>
           /\ next.message = conn.message /\ next.received = conn.received
           /\ next.started = conn.started /\ next.timeout = conn.timeout
           /\ next.headerKnown \in {conn.headerKnown, TRUE}
           /\ next.received <= MaxHttpRequest
           /\ next.received < next.message.headerSize =>
                next.headerKnown = conn.headerKnown /\ next.received <= MaxHeaderSize
           /\ next.headerKnown => next.message.wellFormed
      /\ next.at = "parse" => Received(next)
  BY <1>3, <1>4, ChunkIs
<1> HIDE DEF next
<1>6. ASSUME next.at = "receive" PROVE Receiving(next, httpClock)
  <2>1. Deadline(httpConn) <= Deadline(next)
    BY <1>2, <1>3, <1>4, <1>5, <1>6, DeadlineGrows
  <2>2. Deadline(httpConn) \in Int /\ Deadline(next) \in Int
    BY <1>2, <1>3, <1>4, <1>5, <1>6, ReceptionAssumption DEF Deadline
  <2>3. httpClock <= Deadline(next) /\ next.started <= httpClock
    BY <1>2, <1>3, <1>5, <1>6, <2>1, <2>2 DEF Receiving
  <2>4. next.received < next.message.headerSize =>
          httpConn.received < httpConn.message.headerSize
    BY <1>2, <1>3, <1>4, <1>5, <1>6, ReceptionAssumption DEF Receiving
  <2>5. next.received < next.message.headerSize => next.headerKnown = FALSE
    BY <1>2, <1>3, <1>5, <1>6, <2>4 DEF Receiving
  <2> QED
    BY <1>4, <1>5, <1>6, <2>3, <2>5 DEF Receiving
<1> QED
  BY <1>1, <1>2, <1>5, <1>6 DEF ReceptionInv, ConnTypeOK, next, conn

\* What was received stays whole while it is checked, and a deadline that has
\* come is seen before the next second.
LEMMA OthersKeep ==
  ASSUME ReceptionInv,
         ReceiveEnds \/ ReceiveTimesOut \/ Check \/ Limit \/ Route \/ HttpCloses \/ HttpTick
  PROVE  ReceptionInv'
<1> USE DEF ReceptionInv, ConnTypeOK, Becoming
<1>1. CASE ReceiveEnds \/ ReceiveTimesOut
  BY <1>1, BadIs DEF ReceiveEnds, ReceiveTimesOut, NoTime
<1>2. CASE Check
  <2>1. /\ httpConn.at = "parse" /\ Received(httpConn) /\ UNCHANGED httpClock
        /\ httpConn' = Checked(httpConn) /\ httpConn.handler = "none"
    BY <1>2 DEF Check, NoTime
  <2>2. \/ \E status : httpConn' = Reply(httpConn, status, "none")
        \/ httpConn' = [httpConn EXCEPT !.at = "limit"]
    BY <2>1 DEF Checked
  <2>3. CASE \E status : httpConn' = Reply(httpConn, status, "none")
    BY <2>1, <2>3, ReplyIs
  <2>4. CASE httpConn' = [httpConn EXCEPT !.at = "limit"]
    <3>1. /\ DOMAIN httpConn' = ConnFields /\ httpConn'.at = "limit"
          /\ \A f \in ConnFields \ {"at"} : httpConn'[f] = httpConn[f]
      BY <2>4 DEF ConnFields
    <3> QED
      BY <2>1, <3>1 DEF Received, ConnFields
  <2> QED
    BY <2>2, <2>3, <2>4
<1>3. CASE Limit
  <2>1. /\ httpConn.at = "limit" /\ Received(httpConn) /\ UNCHANGED httpClock
        /\ \/ httpConn' = Reply(httpConn, 429, httpConn.message.origin)
           \/ httpConn' = [httpConn EXCEPT !.at = "route"]
    BY <1>3 DEF Limit
  <2>2. CASE httpConn' = Reply(httpConn, 429, httpConn.message.origin)
    BY <2>1, <2>2, ReplyIs
  <2>3. CASE httpConn' = [httpConn EXCEPT !.at = "route"]
    <3>1. /\ DOMAIN httpConn' = ConnFields /\ httpConn'.at = "route"
          /\ \A f \in ConnFields \ {"at"} : httpConn'[f] = httpConn[f]
      BY <2>3 DEF ConnFields
    <3> QED
      BY <2>1, <3>1 DEF Received, ConnFields
  <2> QED
    BY <2>1, <2>2, <2>3
<1>4. CASE Route
  <2>1. PICK handler, status :
           httpConn' = [Reply(httpConn, status, httpConn.message.origin) EXCEPT !.handler = handler]
    BY <1>4 DEF Route
  <2> DEFINE reply == Reply(httpConn, status, httpConn.message.origin)
  <2>2. DOMAIN reply = ConnFields /\ reply.at = "answered"
    BY ReplyIs
  <2> HIDE DEF reply
  <2>3. DOMAIN httpConn' = ConnFields /\ httpConn'.at = "answered"
    BY <2>1, <2>2 DEF reply, ConnFields
  <2> QED
    BY <1>4, <2>3 DEF Route, NoTime
<1>5. CASE HttpCloses
  BY <1>5, ServedIs DEF HttpCloses, NoTime
<1>6. CASE HttpTick
  <2>1. /\ httpClock' = httpClock + 1 /\ UNCHANGED httpConn
        /\ httpConn.at \in {"free", "receive"}
        /\ httpConn.at = "receive" => httpClock < Deadline(httpConn)
    BY <1>6 DEF HttpTick
  <2>2. ASSUME httpConn.at = "receive" PROVE Receiving(httpConn, httpClock + 1)
    <3>1. Deadline(httpConn) \in Int
      BY <2>2, ReceptionAssumption DEF Receiving, Deadline
    <3>2. httpConn.started <= httpClock + 1 /\ httpClock + 1 <= Deadline(httpConn)
      BY <2>1, <2>2, <3>1 DEF Receiving
    <3> QED
      BY <2>2, <3>2 DEF Receiving
  <2> QED
    BY <2>1, <2>2
<1> QED
  BY <1>1, <1>2, <1>3, <1>4, <1>5, <1>6

\* A request in the hands of the handlers was received whole, and one that is
\* being received is within its time and its limits, while the settings it
\* started under change.
THEOREM ReceptionHolds == HttpSpec => []ReceptionIsSound
<1> DEFINE Step == [\/ HttpNext /\ UNCHANGED cfgVars
                    \/ CfgNext /\ UNCHANGED httpVars]_<<httpVars, cfgVars>>
<1>1. HttpInit => ReceptionInv
  <2> SUFFICES ASSUME HttpInit PROVE ReceptionInv
    OBVIOUS
  <2>1. DOMAIN httpConn = ConnFields /\ httpConn.at = "free" /\ httpConn.handler = "none"
        /\ httpConn.reflected = "none" /\ httpClock = 0
    BY ServedIs DEF HttpInit
  <2> QED
    BY <2>1 DEF ReceptionInv, ConnTypeOK
<1>2. ReceptionInv /\ CfgInv /\ Step => ReceptionInv'
  <2> SUFFICES ASSUME ReceptionInv, CfgInv, Step PROVE ReceptionInv'
    OBVIOUS
  <2>1. CASE HttpNext
    BY <2>1, ArrivesKeeps, BytesKeep, OthersKeep DEF HttpNext, CfgInv, CfgTypeOK
  <2>2. CASE UNCHANGED httpVars
    BY <2>2 DEF httpVars, ReceptionInv, ConnTypeOK
  <2> QED
    BY <2>1, <2>2
<1>3. CfgInv /\ Step => CfgInv'
  <2>1. Step => [CfgNext]_cfgVars
    OBVIOUS
  <2> QED
    BY <2>1, CfgNextInv
<1>4. ReceptionInv => ReceptionIsSound
  <2>1. ReceptionInv => RequestIsWhole
    BY DEF ReceptionInv, RequestIsWhole, Received
  <2>2. SUFFICES ASSUME ReceptionInv, httpConn.at = "receive"
                 PROVE  /\ httpClock <= httpConn.started + httpConn.timeout
                        /\ httpConn.received < httpConn.message.headerSize =>
                              httpClock <= httpConn.started + HeaderTimeout
    BY <2>1 DEF ReceptionInv, Receiving, ReceptionIsSound, ReceptionIsBounded
  <2>3. /\ {httpConn.started, httpConn.timeout, HeaderTimeout, httpClock} \subseteq Nat
        /\ httpClock <= Deadline(httpConn)
        /\ httpConn.received < httpConn.message.headerSize => httpConn.headerKnown = FALSE
    BY <2>2, ReceptionAssumption DEF ReceptionInv, ConnTypeOK, Receiving
  <2> QED
    BY <2>3 DEF Deadline
<1> QED
  BY <1>1, <1>2, <1>3, <1>4, CfgInitInv, PTL DEF HttpSpec
-----------------------------------------------------------------------------
(* Checks: what is known of a request when it reaches a step, whatever the *)
(* settings are.                                                           *)

Cleared(message) ==
  OriginAllowed(message) /\ HostAllowed(message) /\ (message.method = "OPTIONS" \/ Authorized(message))

CheckInv ==
  /\ DOMAIN httpConn = ConnFields
  /\ httpConn.at # "answered" => httpConn.handler = "none"
  /\ httpConn.at \in {"limit", "route"} => Cleared(httpConn.message)
  /\ ReflectedOriginIsAllowed /\ HandlersNeedToken

LEMMA ChunkAnswers ==
  ASSUME NEW conn, DOMAIN conn = ConnFields, conn.handler = "none", conn.at = "receive"
  PROVE  LET next == AfterChunk(conn)
         IN  /\ DOMAIN next = ConnFields /\ next.handler = "none"
             /\ next.at \in {"receive", "parse", "answered"}
             /\ next.at = "answered" => next.reflected = "none"
<1> DEFINE next == AfterChunk(conn)
           known == [conn EXCEPT !.headerKnown = TRUE]
<1>1. next \in {Reply(conn, 413, "none"), Bad(conn), conn, Whole(known), known}
  BY DEF AfterChunk
<1>2. DOMAIN known = ConnFields /\ known.handler = "none" /\ known.at = "receive"
  BY DEF ConnFields
<1>3. DOMAIN Whole(known) = ConnFields /\ Whole(known).handler = "none" /\ Whole(known).at = "parse"
  BY <1>2 DEF Whole, ConnFields
<1> HIDE DEF next, known
<1> QED
  BY <1>1, <1>2, <1>3, ReplyIs, BadIs DEF next

LEMMA ReflectsNothing ==
  ASSUME DOMAIN httpConn' = ConnFields, httpConn'.handler = "none", UNCHANGED cfgTree,
         httpConn'.at = "answered" => httpConn'.reflected = "none",
         httpConn'.at \in {"limit", "route"} => Cleared(httpConn'.message)
  PROVE  CheckInv'
  BY DEF CheckInv, ReflectedOriginIsAllowed, HandlersNeedToken, Cleared, OriginAllowed,
     HostAllowed, Authorized, Listed

\* The origin of a request that was let through is none or listed.
LEMMA ReflectsAllowed ==
  ASSUME NEW message, Cleared(message), DOMAIN httpConn' = ConnFields, UNCHANGED cfgTree,
         httpConn'.at = "answered", httpConn'.reflected = message.origin,
         httpConn'.message = message,
         httpConn'.handler \in {"none", "preflight", "notFound"} \/ Authorized(message)
  PROVE  CheckInv'
<1>1. message.origin = "none" \/ Listed("origin_allowlist", message.origin)
  BY DEF Cleared, OriginAllowed
<1>2. Listed("origin_allowlist", message.origin)' <=> Listed("origin_allowlist", message.origin)
  BY DEF Listed
<1>3. HostAllowed(message)' /\ (Authorized(message)' <=> Authorized(message))
  BY DEF Cleared, HostAllowed, Authorized, Listed
<1> QED
  BY <1>1, <1>2, <1>3 DEF CheckInv, ReflectedOriginIsAllowed, HandlersNeedToken

LEMMA CheckKeeps == ASSUME CheckInv, HttpNext, UNCHANGED cfgTree PROVE CheckInv'
<1> USE DEF Becoming
<1>1. CASE Arrives
  <2>1. PICK message, timeout :
           httpConn' = [Served("receive") EXCEPT !.message = message, !.started = httpClock,
                                                 !.timeout = timeout]
    BY <1>1 DEF Arrives
  <2>2. DOMAIN httpConn' = ConnFields /\ httpConn'.handler = "none" /\ httpConn'.at = "receive"
    BY <2>1, ServedIs DEF ConnFields
  <2> QED
    BY <2>2, ReflectsNothing
<1>2. CASE ReceiveBytes
  <2>1. PICK n : httpConn' = AfterChunk([httpConn EXCEPT !.received = @ + n])
    BY <1>2 DEF ReceiveBytes
  <2> DEFINE conn == [httpConn EXCEPT !.received = @ + n]
  <2>2. DOMAIN conn = ConnFields /\ conn.handler = "none" /\ conn.at = "receive"
    BY <1>2 DEF CheckInv, ConnFields, ReceiveBytes
  <2> HIDE DEF conn
  <2>3. /\ DOMAIN httpConn' = ConnFields /\ httpConn'.handler = "none"
        /\ httpConn'.at \in {"receive", "parse", "answered"}
        /\ httpConn'.at = "answered" => httpConn'.reflected = "none"
    BY <2>1, <2>2, ChunkAnswers DEF conn
  <2> QED
    BY <2>3, ReflectsNothing
<1>3. CASE ReceiveEnds \/ ReceiveTimesOut
  <2>1. /\ DOMAIN httpConn' = ConnFields /\ httpConn'.handler = "none"
        /\ httpConn'.at = "answered" /\ httpConn'.reflected = "none"
    BY <1>3, BadIs DEF ReceiveEnds, ReceiveTimesOut, CheckInv
  <2> QED
    BY <2>1, ReflectsNothing
<1>4. CASE Check
  <2>1. DOMAIN httpConn = ConnFields /\ httpConn.handler = "none" /\ httpConn' = Checked(httpConn)
    BY <1>4 DEF Check, CheckInv
  <2>2. \/ \E status : httpConn' = Reply(httpConn, status, "none")
        \/ httpConn' = [httpConn EXCEPT !.at = "limit"] /\ Cleared(httpConn.message)
    BY <2>1 DEF Checked, Cleared
  <2>3. CASE \E status : httpConn' = Reply(httpConn, status, "none")
    BY <2>1, <2>3, ReplyIs, ReflectsNothing
  <2>4. CASE httpConn' = [httpConn EXCEPT !.at = "limit"] /\ Cleared(httpConn.message)
    <3>1. /\ DOMAIN httpConn' = ConnFields /\ httpConn'.handler = "none"
          /\ httpConn'.at = "limit" /\ httpConn'.message = httpConn.message
      BY <2>1, <2>4 DEF ConnFields
    <3> QED
      BY <2>4, <3>1, ReflectsNothing
  <2> QED
    BY <2>2, <2>3, <2>4
<1>5. CASE Limit
  <2>1. DOMAIN httpConn = ConnFields /\ httpConn.handler = "none" /\ Cleared(httpConn.message)
    BY <1>5 DEF Limit, CheckInv
  <2>2. CASE httpConn' = Reply(httpConn, 429, httpConn.message.origin)
    BY <2>1, <2>2, ReplyIs, ReflectsAllowed
  <2>3. CASE httpConn' = [httpConn EXCEPT !.at = "route"]
    <3>1. /\ DOMAIN httpConn' = ConnFields /\ httpConn'.handler = "none"
          /\ httpConn'.at = "route" /\ httpConn'.message = httpConn.message
      BY <2>1, <2>3 DEF ConnFields
    <3> QED
      BY <2>1, <3>1, ReflectsNothing
  <2> QED
    BY <1>5, <2>2, <2>3 DEF Limit
<1>6. CASE Route
  <2> DEFINE message == httpConn.message
             handler == HandlerOf(message)
  <2>1. DOMAIN httpConn = ConnFields /\ Cleared(message)
    BY <1>6 DEF Route, CheckInv
  <2>2. PICK status : httpConn' = [Reply(httpConn, status, message.origin) EXCEPT !.handler = handler]
    BY <1>6 DEF Route
  <2>3. handler \in {"preflight", "notFound"} \/ Authorized(message)
    BY <2>1 DEF Cleared, HandlerOf
  <2> HIDE DEF handler
  <2> DEFINE reply == Reply(httpConn, status, message.origin)
  <2>4. /\ DOMAIN reply = ConnFields /\ reply.at = "answered"
        /\ reply.reflected = message.origin /\ reply.message = message
    BY <2>1, ReplyIs
  <2> HIDE DEF reply
  <2>5. /\ DOMAIN httpConn' = ConnFields /\ httpConn'.at = "answered"
        /\ httpConn'.reflected = message.origin /\ httpConn'.message = message
        /\ httpConn'.handler = handler
    BY <2>2, <2>4 DEF reply, ConnFields
  <2> QED
    BY <2>1, <2>3, <2>5, ReflectsAllowed
<1>7. CASE HttpCloses
  <2>1. DOMAIN httpConn' = ConnFields /\ httpConn'.handler = "none" /\ httpConn'.at = "free"
    BY <1>7, ServedIs DEF HttpCloses
  <2> QED
    BY <2>1, ReflectsNothing
<1>8. CASE HttpTick
  <2>1. /\ DOMAIN httpConn' = ConnFields /\ httpConn'.handler = "none"
        /\ httpConn'.at \in {"free", "receive"}
    BY <1>8 DEF HttpTick, CheckInv
  <2> QED
    BY <2>1, ReflectsNothing
<1> QED
  BY <1>1, <1>2, <1>3, <1>4, <1>5, <1>6, <1>7, <1>8 DEF HttpNext
-----------------------------------------------------------------------------
(* Rate: the requests let through at times in lo..hi-1.                    *)

Hits(times, lo, hi) == {i \in DOMAIN times : lo <= times[i] /\ times[i] < hi}

\* The window in force counts what was let through in it; the one before has
\* no more than the limit, and so has no span twice of it.
Spans(times, rate) ==
  LET within == Cardinality(Hits(times, rate.start, rate.start + RateWindow))
  IN  /\ within <= rate.count /\ within <= MaxRequests
      /\ Cardinality(Hits(times, rate.start - RateWindow, rate.start)) <= MaxRequests
      /\ \A t \in Nat : t + RateWindow <= rate.start =>
            Cardinality(Hits(times, t, t + RateWindow)) <= 2 * MaxRequests

RateInv ==
  /\ httpClock \in Nat /\ httpAllowed \in Seq(Nat)
  /\ DOMAIN httpRate = {"count", "start"} /\ httpRate.count \in Nat /\ httpRate.start \in Nat
  /\ httpRate.start <= httpClock
  /\ \A i \in DOMAIN httpAllowed :
        httpAllowed[i] <= httpClock /\ httpAllowed[i] < httpRate.start + RateWindow
  /\ Spans(httpAllowed, httpRate)

LEMMA HitsAreFinite ==
  ASSUME NEW times \in Seq(Nat), NEW lo, NEW hi
  PROVE  IsFiniteSet(Hits(times, lo, hi)) /\ Cardinality(Hits(times, lo, hi)) \in Nat
<1>1. Len(times) \in Nat /\ DOMAIN times = 1..Len(times)
  OBVIOUS
<1>2. IsFiniteSet(DOMAIN times)
  BY <1>1, FS_Interval
<1>3. Hits(times, lo, hi) \in SUBSET DOMAIN times
  BY DEF Hits
<1>4. IsFiniteSet(Hits(times, lo, hi))
  BY <1>2, <1>3, FS_Subset
<1> QED
  BY <1>4, FS_CardinalityType

\* A span inside two others has no more than both.
LEMMA SpansAdd ==
  ASSUME NEW times \in Seq(Nat), NEW lo, NEW hi, NEW a, NEW b, NEW c, NEW d,
         Hits(times, lo, hi) \subseteq Hits(times, a, b) \cup Hits(times, c, d)
  PROVE  Cardinality(Hits(times, lo, hi)) <=
           Cardinality(Hits(times, a, b)) + Cardinality(Hits(times, c, d))
<1> DEFINE H == Hits(times, lo, hi)
           L == Hits(times, a, b)
           R == Hits(times, c, d)
<1>1. /\ IsFiniteSet(H) /\ IsFiniteSet(L) /\ IsFiniteSet(R)
      /\ {Cardinality(H), Cardinality(L), Cardinality(R)} \subseteq Nat
  BY HitsAreFinite
<1> HIDE DEF H, L, R
<1>2. /\ IsFiniteSet(L \cup R) /\ IsFiniteSet(L \cap R)
      /\ Cardinality(L \cup R) = Cardinality(L) + Cardinality(R) - Cardinality(L \cap R)
  <2>1. L \cap R \in SUBSET L
    OBVIOUS
  <2> QED
    BY <1>1, <2>1, FS_Union, FS_Subset
<1>3. Cardinality(L \cap R) \in Nat
  BY <1>2, FS_CardinalityType
<1>4. Cardinality(H) <= Cardinality(L \cup R)
  <2>1. H \in SUBSET (L \cup R)
    BY DEF H, L, R
  <2> QED
    BY <1>2, <2>1, FS_Subset
<1>5. Cardinality(H) <= Cardinality(L) + Cardinality(R)
  BY <1>1, <1>2, <1>3, <1>4
<1> QED
  BY <1>5 DEF H, L, R

LEMMA SpansGrow ==
  ASSUME NEW times \in Seq(Nat), NEW lo, NEW hi, NEW a, NEW b,
         Hits(times, lo, hi) \subseteq Hits(times, a, b)
  PROVE  Cardinality(Hits(times, lo, hi)) <= Cardinality(Hits(times, a, b))
<1>1. Hits(times, lo, hi) \in SUBSET Hits(times, a, b)
  OBVIOUS
<1> QED
  BY <1>1, HitsAreFinite, FS_Subset

\* One more request counts once in the spans it is in.
LEMMA HitsOfAppended ==
  ASSUME NEW times \in Seq(Nat), NEW now \in Nat, NEW lo \in Int, NEW hi \in Int
  PROVE  LET more == Append(times, now)
         IN  /\ now < lo \/ hi <= now => Hits(more, lo, hi) = Hits(times, lo, hi)
             /\ Cardinality(Hits(more, lo, hi)) <= Cardinality(Hits(times, lo, hi)) + 1
<1> DEFINE more == Append(times, now)
           last == Len(times) + 1
<1>1. /\ more \in Seq(Nat) /\ DOMAIN more = DOMAIN times \cup {last} /\ more[last] = now
      /\ last \notin DOMAIN times
      /\ \A i \in DOMAIN times : more[i] = times[i]
  OBVIOUS
<1> HIDE DEF more, last
<1>2. Hits(more, lo, hi) \in {Hits(times, lo, hi), Hits(times, lo, hi) \cup {last}}
  <2>1. CASE lo <= now /\ now < hi
    BY <1>1, <2>1 DEF Hits
  <2>2. CASE ~(lo <= now /\ now < hi)
    BY <1>1, <2>2 DEF Hits
  <2> QED
    BY <2>1, <2>2
<1>3. now < lo \/ hi <= now => Hits(more, lo, hi) = Hits(times, lo, hi)
  BY <1>1 DEF Hits
<1>4. last \notin Hits(times, lo, hi)
  BY <1>1 DEF Hits
<1>5. /\ IsFiniteSet(Hits(times, lo, hi)) /\ Cardinality(Hits(times, lo, hi)) \in Nat
  BY HitsAreFinite
<1>6. Cardinality(Hits(times, lo, hi) \cup {last}) = Cardinality(Hits(times, lo, hi)) + 1
  BY <1>4, <1>5, FS_AddElement
<1>7. Cardinality(Hits(more, lo, hi)) <= Cardinality(Hits(times, lo, hi)) + 1
  <2>1. \/ Cardinality(Hits(more, lo, hi)) = Cardinality(Hits(times, lo, hi))
        \/ Cardinality(Hits(more, lo, hi)) = Cardinality(Hits(times, lo, hi)) + 1
    BY <1>2, <1>6
  <2> QED
    BY <1>5, <2>1
<1> QED
  BY <1>3, <1>7 DEF more

\* Windows are fixed, so that two of them meet in a span of one window.
LEMMA SpanIsBounded ==
  ASSUME RateInv, NEW t \in Nat
  PROVE  Cardinality(Hits(httpAllowed, t, t + RateWindow)) <= 2 * MaxRequests
<1> DEFINE start == httpRate.start
           Before == Hits(httpAllowed, start - RateWindow, start)
           Within == Hits(httpAllowed, start, start + RateWindow)
<1>1. RateWindow \in Nat \ {0} /\ MaxRequests \in Nat \ {0} /\ start \in Nat
  BY ReceptionAssumption DEF RateInv, Spans
<1>2. CASE t + RateWindow <= start
  BY <1>2 DEF RateInv, Spans
<1>3. CASE ~(t + RateWindow <= start)
  <2>1. Hits(httpAllowed, t, t + RateWindow) \subseteq Before \cup Within
    <3> SUFFICES ASSUME NEW i \in DOMAIN httpAllowed, t <= httpAllowed[i]
                 PROVE  \/ start - RateWindow <= httpAllowed[i] /\ httpAllowed[i] < start
                        \/ start <= httpAllowed[i] /\ httpAllowed[i] < start + RateWindow
      BY DEF Hits
    <3>1. httpAllowed[i] \in Nat /\ httpAllowed[i] < start + RateWindow
      BY DEF RateInv, Spans
    <3> QED
      BY <1>1, <1>3, <3>1
  <2>2. Cardinality(Hits(httpAllowed, t, t + RateWindow)) <= Cardinality(Before) + Cardinality(Within)
    BY <2>1, SpansAdd DEF RateInv, Spans
  <2>3. Cardinality(Before) <= MaxRequests /\ Cardinality(Within) <= MaxRequests
    BY DEF RateInv, Spans
  <2>4. /\ Cardinality(Hits(httpAllowed, t, t + RateWindow)) \in Nat
        /\ Cardinality(Before) \in Nat /\ Cardinality(Within) \in Nat
    BY HitsAreFinite DEF RateInv, Spans
  <2> QED
    BY <1>1, <2>2, <2>3, <2>4
<1> QED
  BY <1>2, <1>3

LEMMA LimitKeepsRate == ASSUME RateInv, Limit PROVE RateInv'
<1> DEFINE now == httpClock
           start == httpRate.start
           next == httpRate'
<1>1. /\ {RateWindow, MaxRequests} \subseteq Nat \ {0} /\ {now, start, httpRate.count} \subseteq Nat
      /\ start <= now /\ httpAllowed \in Seq(Nat)
      /\ \A i \in DOMAIN httpAllowed :
            httpAllowed[i] \in Nat /\ httpAllowed[i] <= now /\ httpAllowed[i] < start + RateWindow
  BY ReceptionAssumption DEF RateInv, Spans
<1>2. /\ next = Window(httpRate, now) /\ UNCHANGED httpClock
      /\ IF next.count > MaxRequests THEN UNCHANGED httpAllowed
         ELSE httpAllowed' = Append(httpAllowed, now)
  BY DEF Limit
<1>3. CASE now - start >= RateWindow
  <2>1. next = [count |-> 1, start |-> now]
    BY <1>2, <1>3 DEF Window
  <2>2. DOMAIN next = {"count", "start"} /\ next.count = 1 /\ next.start = now
    BY <2>1
  <2>3. httpAllowed' = Append(httpAllowed, now)
    BY <1>1, <1>2, <2>2
  <2>4. \A i \in DOMAIN httpAllowed : httpAllowed[i] < now
    BY <1>1, <1>3
  <2>5. Hits(httpAllowed, now, now + RateWindow) = {}
    BY <1>1, <2>4 DEF Hits
  <2>6. Cardinality(Hits(httpAllowed', now, now + RateWindow)) <= 1
    <3>1. Cardinality(Hits(httpAllowed', now, now + RateWindow)) <=
            Cardinality(Hits(httpAllowed, now, now + RateWindow)) + 1
      BY <1>1, <2>3, HitsOfAppended
    <3>2. Cardinality(Hits(httpAllowed, now, now + RateWindow)) = 0
      BY <2>5, FS_EmptySet
    <3> QED
      BY <3>1, <3>2
  <2>7. Cardinality(Hits(httpAllowed', now - RateWindow, now)) <= MaxRequests
    <3>1. Hits(httpAllowed', now - RateWindow, now) = Hits(httpAllowed, now - RateWindow, now)
      BY <1>1, <2>3, HitsOfAppended
    <3>2. Hits(httpAllowed, now - RateWindow, now) \subseteq Hits(httpAllowed, start, start + RateWindow)
      BY <1>1, <1>3 DEF Hits
    <3>3. Cardinality(Hits(httpAllowed, now - RateWindow, now)) <=
            Cardinality(Hits(httpAllowed, start, start + RateWindow))
      BY <1>1, <3>2, SpansGrow
    <3> QED
      BY <1>1, <3>1, <3>3, HitsAreFinite DEF RateInv, Spans
  <2>8. ASSUME NEW t \in Nat, t + RateWindow <= now
        PROVE  Cardinality(Hits(httpAllowed', t, t + RateWindow)) <= 2 * MaxRequests
    <3>1. Hits(httpAllowed', t, t + RateWindow) = Hits(httpAllowed, t, t + RateWindow)
      BY <1>1, <2>3, <2>8, HitsOfAppended
    <3> QED
      BY <3>1, SpanIsBounded
  <2>9. /\ httpAllowed' \in Seq(Nat)
        /\ \A i \in DOMAIN httpAllowed' : httpAllowed'[i] <= now /\ httpAllowed'[i] < now + RateWindow
    BY <1>1, <2>3
  <2>10. Cardinality(Hits(httpAllowed', now, now + RateWindow)) <= MaxRequests
    BY <1>1, <2>6, <2>9, HitsAreFinite
  <2> QED
    BY <1>1, <1>2, <2>2, <2>6, <2>7, <2>8, <2>9, <2>10 DEF RateInv, Spans
<1>4. CASE ~(now - start >= RateWindow)
  <2>1. /\ DOMAIN next = {"count", "start"} /\ next.start = start
        /\ next.count = (IF httpRate.count > MaxRequests THEN httpRate.count ELSE httpRate.count + 1)
    BY <1>2, <1>4 DEF Window, RateInv
  <2>2. next.count \in Nat /\ next.count >= httpRate.count
    BY <1>1, <2>1
  <2>3. CASE next.count > MaxRequests
    <3>1. UNCHANGED httpAllowed
      BY <1>2, <2>3
    <3>2. Cardinality(Hits(httpAllowed, start, start + RateWindow)) <= next.count
      BY <1>1, <2>2, HitsAreFinite DEF RateInv, Spans
    <3> QED
      BY <1>2, <2>1, <2>2, <3>1, <3>2 DEF RateInv, Spans
  <2>4. CASE ~(next.count > MaxRequests)
    <3> DEFINE within == Cardinality(Hits(httpAllowed, start, start + RateWindow))
               more == Cardinality(Hits(httpAllowed', start, start + RateWindow))
    <3>1. httpAllowed' = Append(httpAllowed, now) /\ next.count = httpRate.count + 1
      BY <1>1, <1>2, <2>1, <2>4
    <3>2. /\ httpAllowed' \in Seq(Nat)
          /\ \A i \in DOMAIN httpAllowed' : httpAllowed'[i] <= now /\ httpAllowed'[i] < start + RateWindow
      BY <1>1, <1>4, <3>1
    <3>3. within \in Nat /\ more \in Nat /\ within <= httpRate.count
      BY <1>1, <3>2, HitsAreFinite DEF RateInv, Spans
    <3>4. more <= within + 1
      BY <1>1, <3>1, HitsOfAppended
    <3>5. more <= next.count /\ more <= MaxRequests
      BY <1>1, <2>4, <3>1, <3>3, <3>4
    <3>6. Cardinality(Hits(httpAllowed', start - RateWindow, start)) <= MaxRequests
      <4>1. Hits(httpAllowed', start - RateWindow, start) = Hits(httpAllowed, start - RateWindow, start)
        BY <1>1, <3>1, HitsOfAppended
      <4> QED
        BY <4>1 DEF RateInv, Spans
    <3>7. ASSUME NEW t \in Nat, t + RateWindow <= start
          PROVE  Cardinality(Hits(httpAllowed', t, t + RateWindow)) <= 2 * MaxRequests
      <4>1. Hits(httpAllowed', t, t + RateWindow) = Hits(httpAllowed, t, t + RateWindow)
        BY <1>1, <3>1, <3>7, HitsOfAppended
      <4> QED
        BY <4>1, SpanIsBounded
    <3> QED
      BY <1>1, <1>2, <2>1, <2>2, <3>2, <3>5, <3>6, <3>7 DEF RateInv, Spans
  <2> QED
    BY <2>3, <2>4
<1> QED
  BY <1>3, <1>4

LEMMA TimeKeepsRate ==
  ASSUME RateInv, httpClock' \in Nat, httpClock <= httpClock', UNCHANGED <<httpRate, httpAllowed>>
  PROVE  RateInv'
<1>1. httpClock \in Nat /\ httpRate.start \in Nat
  BY DEF RateInv
<1>2. \A i \in DOMAIN httpAllowed : httpAllowed[i] \in Nat /\ httpAllowed[i] <= httpClock
  BY DEF RateInv
<1>3. httpRate.start <= httpClock' /\ \A i \in DOMAIN httpAllowed : httpAllowed[i] <= httpClock'
  BY <1>1, <1>2 DEF RateInv
<1>4. Spans(httpAllowed, httpRate)'
  BY DEF RateInv
<1> QED
  BY <1>3, <1>4 DEF RateInv

\* Whatever the settings are while they rest: no origin is sent back that is
\* not listed, no handler runs without the token and a host of its own, and no
\* span of a window has more than twice the requests of one.
THEOREM ChecksHold == HttpAtRest => []RequestsAreChecked
<1>1. HttpInit => CheckInv /\ RateInv
  <2> SUFFICES ASSUME HttpInit PROVE CheckInv /\ RateInv
    OBVIOUS
  <2>1. DOMAIN httpConn = ConnFields /\ httpConn.at = "free" /\ httpConn.handler = "none"
    BY ServedIs DEF HttpInit
  <2>2. CheckInv
    BY <2>1 DEF CheckInv, ReflectedOriginIsAllowed, HandlersNeedToken
  <2>3. \A lo, hi : Hits(httpAllowed, lo, hi) = {}
    BY DEF HttpInit, Hits
  <2>4. \A lo, hi : Cardinality(Hits(httpAllowed, lo, hi)) = 0
    BY <2>3, FS_EmptySet
  <2>5. /\ httpClock = 0 /\ httpAllowed \in Seq(Nat) /\ DOMAIN httpAllowed = {}
        /\ DOMAIN httpRate = {"count", "start"} /\ httpRate.count = 0 /\ httpRate.start = 0
    BY DEF HttpInit
  <2>6. RateInv
    BY <2>4, <2>5, ReceptionAssumption DEF RateInv, Spans
  <2> QED
    BY <2>2, <2>6
<1>2. CheckInv /\ RateInv /\ [HttpNext /\ UNCHANGED cfgVars]_<<httpVars, cfgVars>>
        => CheckInv' /\ RateInv'
  <2> SUFFICES ASSUME CheckInv, RateInv, [HttpNext /\ UNCHANGED cfgVars]_<<httpVars, cfgVars>>
               PROVE  CheckInv' /\ RateInv'
    OBVIOUS
  <2>1. CASE HttpNext /\ UNCHANGED cfgVars
    <3>1. CheckInv'
      BY <2>1, CheckKeeps DEF cfgVars
    <3>2. CASE httpClock' \in {httpClock, httpClock + 1} /\ UNCHANGED <<httpRate, httpAllowed>>
      <4>1. httpClock \in Nat
        BY DEF RateInv
      <4>2. httpClock' \in Nat /\ httpClock <= httpClock'
        BY <3>2, <4>1
      <4> QED
        BY <3>1, <3>2, <4>2, TimeKeepsRate
    <3>3. \/ httpClock' \in {httpClock, httpClock + 1} /\ UNCHANGED <<httpRate, httpAllowed>>
          \/ Limit
      BY <2>1 DEF HttpNext, Arrives, ReceiveBytes, ReceiveEnds, ReceiveTimesOut, Check, Route,
         HttpCloses, HttpTick, NoTime
    <3> QED
      BY <3>1, <3>2, <3>3, LimitKeepsRate
  <2>2. CASE UNCHANGED <<httpVars, cfgVars>>
    BY <2>2 DEF httpVars, cfgVars, CheckInv, RateInv, ReflectedOriginIsAllowed, HandlersNeedToken,
       Listed, Authorized, HostAllowed, Cleared, OriginAllowed
  <2> QED
    BY <2>1, <2>2
<1>3. CheckInv /\ RateInv => RequestsAreChecked
  <2> SUFFICES ASSUME RateInv, NEW t \in 0..MaxClock
               PROVE  Cardinality({i \in DOMAIN httpAllowed : httpAllowed[i] \in t..t + RateWindow - 1})
                        <= 2 * MaxRequests
    BY DEF CheckInv, RequestsAreChecked, RateIsBounded
  <2>1. t \in Nat /\ RateWindow \in Nat
    BY ReceptionAssumption
  <2>2. {i \in DOMAIN httpAllowed : httpAllowed[i] \in t..t + RateWindow - 1}
          = Hits(httpAllowed, t, t + RateWindow)
    BY <2>1 DEF Hits, RateInv
  <2> QED
    BY <2>1, <2>2, SpanIsBounded
<1> QED
  BY <1>1, <1>2, <1>3, PTL DEF HttpAtRest
=============================================================================
