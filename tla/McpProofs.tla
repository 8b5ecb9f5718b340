------------------------------ MODULE McpProofs ------------------------------
(***************************************************************************)
(* Every client, body, deadline and change of the settings: the answers    *)
(* match the items of a body and the deadline, nothing more is executed    *)
(* behind a deadline or a failed command, nothing is changed that no        *)
(* settings since the item was taken have permitted, and what the catalogue *)
(* lists is served.                                                         *)
(***************************************************************************)
EXTENDS McpRequests, TLAPS

CallFields == {"at", "body", "item", "late", "answers", "method", "args", "sections", "outcomes",
               "acted", "effect", "rights", "patterns"}
InHands == {"call", "run", "act", "done", "section", "command", "stored"}

IsSequence(s) == \E S : s \in Seq(S)

\* The answers when the next item is n, and the deadline passed at item late.
AnswersOf(answers, items, n, late) ==
  /\ IsSequence(answers)
  /\ \A i \in DOMAIN answers : answers[i].item \in 1..n - 1
  /\ \A i, j \in DOMAIN answers : i < j => answers[i].item < answers[j].item
  /\ \A i \in DOMAIN answers :
        LET item == items[answers[i].item]
        IN  IF item.valid THEN HasId(item) /\ answers[i].id = item.id
            ELSE answers[i].id \in {"null", item.id}
  /\ \A i \in DOMAIN answers :
        answers[i].verdict \notin {"invalid", "parseError"} =>
            (answers[i].verdict = "timeout" <=> late # 0 /\ answers[i].item >= late)
  /\ \A k \in 1..n - 1 :
        NeedsAnswer(items[k]) => \E i \in DOMAIN answers : answers[i].item = k

\* A body that is no JSON or no batch that is taken has one answer, for none
\* of its items.
Refused(call) ==
  /\ call.at = "answer" /\ call.late = 0 /\ call.acted = {}
  /\ \E id : \E verdict \in {"invalid", "parseError"} : call.answers = <<Entry(0, id, verdict)>>

Executing(call) ==
  /\ call.item <= Len(call.body.items) /\ call.late \in {0, call.item}
  /\ call.body.items[call.item].valid
  /\ call.body.items[call.item].method # "notifications/initialized"

\* A batch that stops on an error has had none but with the last command.
Commanding(call) ==
  /\ call.outcomes \in Seq(BOOLEAN)
  /\ ~Batch(call) => Len(call.outcomes) <= 1
  /\ StopOnError(call) => \A i \in 1..Len(call.outcomes) - 1 : call.outcomes[i]

Working(call) ==
  /\ call.at \in {"item", "answer"} \cup InHands
  /\ call.body \in Bodies
  /\ call.item \in 1..Len(call.body.items) + 1 /\ call.late \in 0..call.item
  /\ AnswersOf(call.answers, call.body.items, call.item, call.late)
  /\ call.at = "answer" => call.item > Len(call.body.items)
  /\ call.at \in InHands => Executing(call)
  /\ call.acted \subseteq 1..call.item
  /\ call.late # 0 => \A k \in call.acted : k <= call.late
  /\ call.at = "command" => Commanding(call)

-----------------------------------------------------------------------------
(* Permissions.                                                            *)

TheHandler(method) == CHOOSE h \in HandlersOf(method) : TRUE

\* A pattern of a call that its method matches.
Granted(call) == \E pattern \in call.patterns : Matches(pattern, call.method)

\* What the settings in force allow a call in hand is counted, and a handler
\* that goes on to act has been granted what it needs.
Permitted(call, rights, patterns) ==
  /\ call.at \in InHands => rights \subseteq call.rights /\ patterns \subseteq call.patterns
  /\ call.at \in InHands \ {"call"} => Granted(call)
  /\ call.at = "act" =>
        /\ HandlersOf(call.method) # {}
        /\ Acts(TheHandler(call.method), call.args) =>
              TheHandler(call.method).rights \subseteq call.rights
  /\ call.at = "command" => "script" \in call.rights
  /\ call.effect # "none" =>
        /\ call.at \in {"done", "command", "stored"}
        /\ NeededRights(call.method, call.effect) \subseteq call.rights

CallOK(call, rights, patterns) ==
  /\ DOMAIN call = CallFields
  /\ call = AtRest \/ Refused(call) \/ Working(call)
  /\ Permitted(call, rights, patterns)

McpInv ==
  /\ mcpCalls = [c \in Clients |-> mcpCalls[c]]
  /\ \A c \in Clients : CallOK(mcpCalls[c], RightsOf(cfgTree), cfgPatterns)

-----------------------------------------------------------------------------
(* The tables.                                                             *)

\* A handler that changes nothing, or no more than its rights are for.
Asking(h) == NeededRights(h.method, h.change) \subseteq h.rights

LEMMA AnsweringAsks ==
  ASSUME NEW methods, NEW demands, NEW h \in Answering(methods, demands)
  PROVE  Asking(h) /\ h.method \in methods
<1>1. PICK m \in methods : h = Handler(m, demands, {}, "nothing")
  BY DEF Answering
<1>2. h.method = m /\ h.rights = {} /\ h.change = "nothing"
  BY <1>1 DEF Handler
<1> QED
  BY <1>2 DEF Asking, NeededRights

LEMMA ChangingIs ==
  ASSUME NEW methods, NEW demands, NEW rights, NEW change,
         NEW h \in Changing(methods, demands, rights, change)
  PROVE  h.method \in methods /\ h.rights = rights /\ h.change = change /\ h.onlyIf = "always"
  BY DEF Changing, Handler

\* The rights that go with a change, and changes that ask for none.
LEMMA ChangingAsks ==
  ASSUME NEW methods, NEW demands, NEW rights, NEW change,
         \/ change \in {"memory", "files"} /\ rights = {"memory"}
         \/ change = "registers" /\ rights = {"register"}
         \/ change = "commands" /\ rights = {"script"}
         \/ change = "breakpoints" /\ rights = {"breakpoint", "script"}
         \/ /\ change = "breakpoints" /\ rights = {"breakpoint"}
            /\ methods \cap {"breakpoint.set_condition", "breakpoint.set_log"} = {}
         \/ change \in {"execution", "notes"},
         NEW h \in Changing(methods, demands, rights, change)
  PROVE  Asking(h) /\ h.method \in methods
<1>1. h.method \in methods /\ h.rights = rights /\ h.change = change
  BY ChangingIs
<1>2. CASE change \in {"memory", "files"} /\ rights = {"memory"}
  BY <1>1, <1>2 DEF Asking, NeededRights
<1>3. CASE change = "registers" /\ rights = {"register"}
  BY <1>1, <1>3 DEF Asking, NeededRights
<1>4. CASE change = "commands" /\ rights = {"script"}
  BY <1>1, <1>4 DEF Asking, NeededRights
<1>5. CASE change = "breakpoints" /\ rights = {"breakpoint", "script"}
  BY <1>1, <1>5 DEF Asking, NeededRights
<1>6. CASE /\ change = "breakpoints" /\ rights = {"breakpoint"}
           /\ methods \cap {"breakpoint.set_condition", "breakpoint.set_log"} = {}
  BY <1>1, <1>6 DEF Asking, NeededRights
<1>7. CASE change \in {"execution", "notes"}
  BY <1>1, <1>7 DEF Asking, NeededRights
<1> QED
  BY <1>2, <1>3, <1>4, <1>5, <1>6, <1>7

Scripts == {"script.execute", "script.execute_batch"}

\* Every handler asks for the rights of its change, and only the two that
\* execute commands are registered under the names of scripts.
LEMMA HandlersAsk ==
  \A h \in RegisteredMethods \ ScriptHandlers : Asking(h) /\ h.method \notin Scripts
<1> USE DEF Scripts
<1>1. \A h \in SystemHandlers \cup ExecutionHandlers \cup SessionHandlers :
         Asking(h) /\ h.method \notin Scripts
  BY AnsweringAsks, ChangingAsks DEF SystemHandlers, ExecutionHandlers, SessionHandlers
<1>2. \A h \in RegisterHandlers : Asking(h) /\ h.method \notin Scripts
  BY AnsweringAsks, ChangingAsks DEF RegisterHandlers
<1>3. \A h \in MemoryHandlers : Asking(h) /\ h.method \notin Scripts
  BY AnsweringAsks, ChangingAsks DEF MemoryHandlers
<1>4. \A h \in BreakpointHandlers : Asking(h) /\ h.method \notin Scripts
  BY AnsweringAsks, ChangingAsks DEF BreakpointHandlers
<1>5. \A h \in DisassemblyHandlers \cup SymbolQueries \cup SymbolNotes :
         Asking(h) /\ h.method \notin Scripts
  BY AnsweringAsks, ChangingAsks DEF DisassemblyHandlers, SymbolQueries, SymbolNotes
<1>6. \A h \in StackHandlers \cup ThreadHandlers \cup ModuleLookups \cup ModuleTables :
         Asking(h) /\ h.method \notin Scripts
  BY AnsweringAsks, ChangingAsks DEF StackHandlers, ThreadHandlers, ModuleLookups, ModuleTables
<1>7. \A h \in DumpHandlers : Asking(h) /\ h.method \notin Scripts
  BY AnsweringAsks, ChangingAsks DEF DumpHandlers
<1>8. \A h \in ExpressionHandlers \cup AnalysisHandlers \cup BookmarkHandlers \cup PatchHandlers :
         Asking(h) /\ h.method \notin Scripts
  BY AnsweringAsks, ChangingAsks DEF ExpressionHandlers, AnalysisHandlers, BookmarkHandlers, PatchHandlers
<1>9. \A h \in AssemblerHandlers : Asking(h) /\ h.method \notin Scripts
  BY DEF AssemblerHandlers, Handler, Asking, NeededRights
<1>10. \A h \in ContextHandlers : Asking(h) /\ h.method \notin Scripts
  BY AnsweringAsks DEF ContextHandlers
<1> QED
  BY <1>1, <1>2, <1>3, <1>4, <1>5, <1>6, <1>7, <1>8, <1>9, <1>10 DEF RegisteredMethods

LEMMA ScriptsAsk ==
  \A h \in RegisteredMethods : h.method \in Scripts =>
     h.rights = {"script"} /\ h.change = "commands" /\ h.onlyIf = "always"
<1>1. \A h \in ScriptHandlers : h.method \in Scripts =>
         h.rights = {"script"} /\ h.change = "commands" /\ h.onlyIf = "always"
  BY AnsweringAsks, ChangingIs DEF ScriptHandlers, Scripts
<1> QED
  BY <1>1, HandlersAsk

LEMMA ScriptHandlersAsk == \A h \in ScriptHandlers : Asking(h)
  BY AnsweringAsks, ChangingAsks DEF ScriptHandlers

LEMMA AllAsk == \A h \in RegisteredMethods : Asking(h)
  BY HandlersAsk, ScriptHandlersAsk
-----------------------------------------------------------------------------
(* Answers.                                                                *)

LEMMA AppendedIs ==
  ASSUME NEW s, IsSequence(s), NEW e
  PROVE  LET more == Append(s, e)
         IN  /\ IsSequence(more) /\ Len(s) \in Nat /\ DOMAIN s = 1..Len(s)
             /\ DOMAIN more = 1..Len(s) + 1 /\ more[Len(s) + 1] = e
             /\ \A i \in 1..Len(s) : more[i] = s[i]
<1>1. PICK S : s \in Seq(S)
  BY DEF IsSequence
<1> DEFINE T == S \cup {e}
           more == Append(s, e)
<1>2. s \in Seq(T) /\ e \in T
  BY <1>1
<1> HIDE DEF T
<1>3. more \in Seq(T) /\ Len(more) = Len(s) + 1
  BY <1>2
<1>4. /\ Len(s) \in Nat /\ DOMAIN s = 1..Len(s) /\ DOMAIN more = 1..Len(s) + 1
      /\ more[Len(s) + 1] = e /\ \A i \in 1..Len(s) : more[i] = s[i]
  BY <1>2, <1>3
<1> QED
  BY <1>3, <1>4 DEF IsSequence

\* An answer to the item at hand, and an item that asks for none.
LEMMA OneMoreAnswer ==
  ASSUME NEW answers, NEW items, NEW n \in Nat \ {0}, NEW late \in 0..n,
         AnswersOf(answers, items, n, late), NEW entry, entry.item = n,
         IF items[n].valid THEN HasId(items[n]) /\ entry.id = items[n].id
         ELSE entry.id \in {"null", items[n].id},
         entry.verdict \notin {"invalid", "parseError"} => (entry.verdict = "timeout" <=> late # 0)
  PROVE  AnswersOf(Append(answers, entry), items, n + 1, late)
<1> DEFINE more == Append(answers, entry)
           last == Len(answers) + 1
<1>1. /\ IsSequence(more) /\ last \in Nat \ {0}
      /\ DOMAIN answers = 1..last - 1 /\ DOMAIN more = 1..last
      /\ more[last] = entry /\ \A i \in 1..last - 1 : more[i] = answers[i]
  BY AppendedIs DEF AnswersOf
<1> HIDE DEF more, last
<1>2. \A i \in 1..last : i = last \/ i \in 1..last - 1
  BY <1>1
<1>3. \A i \in 1..last - 1 : more[i].item \in 1..n - 1 /\ more[i].item < n
  BY <1>1 DEF AnswersOf
<1>4. \A i \in DOMAIN more : more[i].item \in 1..(n + 1) - 1
  BY <1>1, <1>2, <1>3
<1>5. \A i, j \in DOMAIN more : i < j => more[i].item < more[j].item
  <2> SUFFICES ASSUME NEW i \in 1..last, NEW j \in 1..last, i < j
               PROVE  more[i].item < more[j].item
    BY <1>1
  <2>1. i \in 1..last - 1
    BY <1>1
  <2>2. CASE j = last
    BY <1>1, <1>3, <2>1, <2>2
  <2>3. CASE j \in 1..last - 1
    BY <1>1, <2>1, <2>3 DEF AnswersOf
  <2> QED
    BY <1>2, <2>2, <2>3
<1>6. \A i \in DOMAIN more :
         IF items[more[i].item].valid
         THEN HasId(items[more[i].item]) /\ more[i].id = items[more[i].item].id
         ELSE more[i].id \in {"null", items[more[i].item].id}
  BY <1>1, <1>2 DEF AnswersOf
<1>7. \A i \in DOMAIN more :
         more[i].verdict \notin {"invalid", "parseError"} =>
            (more[i].verdict = "timeout" <=> late # 0 /\ more[i].item >= late)
  BY <1>1, <1>2 DEF AnswersOf
<1>8. ASSUME NEW k \in 1..(n + 1) - 1, NeedsAnswer(items[k])
      PROVE  \E i \in DOMAIN more : more[i].item = k
  <2>1. CASE k = n
    BY <1>1, <2>1
  <2>2. CASE k \in 1..n - 1
    BY <1>1, <1>8, <2>2 DEF AnswersOf
  <2> QED
    BY <2>1, <2>2
<1>9. AnswersOf(more, items, n + 1, late)
  BY <1>1, <1>4, <1>5, <1>6, <1>7, <1>8 DEF AnswersOf
<1> QED
  BY <1>9 DEF more

LEMMA NoAnswerNeeded ==
  ASSUME NEW answers, NEW items, NEW n \in Nat \ {0}, NEW late \in 0..n,
         AnswersOf(answers, items, n, late), ~NeedsAnswer(items[n])
  PROVE  AnswersOf(answers, items, n + 1, late)
<1>1. \A k \in 1..n : k = n \/ k \in 1..n - 1
  OBVIOUS
<1>2. (n + 1) - 1 = n /\ 1..n - 1 \subseteq 1..n
  OBVIOUS
<1> QED
  BY <1>1, <1>2 DEF AnswersOf

\* The deadline finds the items before the one at hand answered.
LEMMA DeadlineKeepsAnswers ==
  ASSUME NEW answers, NEW items, NEW n \in Nat \ {0}, AnswersOf(answers, items, n, 0)
  PROVE  AnswersOf(answers, items, n, n)
<1>1. \A i \in DOMAIN answers : ~(answers[i].item >= n)
  BY DEF AnswersOf
<1> QED
  BY <1>1 DEF AnswersOf

-----------------------------------------------------------------------------
(* The steps of a call.                                                    *)

\* What every step may use of a body.
LEMMA WorkingHas ==
  ASSUME NEW call, Working(call)
  PROVE  /\ call.body \in Bodies /\ Len(call.body.items) \in Nat
         /\ call.item \in Nat \ {0} /\ call.late \in 0..call.item /\ call.late \in Nat
         /\ DOMAIN call.body.items = 1..Len(call.body.items)
         /\ call.item <= Len(call.body.items) =>
              Item(call) = call.body.items[call.item] /\ Item(call).valid \in BOOLEAN
  BY BodiesAssumption DEF Working, Item

\* The next item is ahead: everything is in order with it, and nothing was
\* granted yet.
Onward(call, next) ==
  /\ DOMAIN next = CallFields
  /\ next.at = "item" /\ next.item = call.item + 1 /\ next.effect = "none"
  /\ next.body = call.body /\ next.late = call.late /\ next.acted = call.acted

LEMMA OnwardKeeps ==
  ASSUME NEW call, Working(call), call.item <= Len(call.body.items),
         NEW next, Onward(call, next),
         AnswersOf(next.answers, call.body.items, call.item + 1, call.late),
         NEW rights, NEW patterns
  PROVE  CallOK(next, rights, patterns)
<1>1. /\ call.body \in Bodies /\ Len(call.body.items) \in Nat
      /\ call.item \in Nat \ {0} /\ call.late \in 0..call.item /\ call.late \in Nat
  BY WorkingHas
<1>2. /\ next.at = "item" /\ next.item = call.item + 1 /\ next.effect = "none"
      /\ next.body = call.body /\ next.late = call.late /\ next.acted = call.acted
      /\ DOMAIN next = CallFields
  BY DEF Onward
<1>3. next.item \in 1..Len(next.body.items) + 1 /\ next.late \in 0..next.item
  BY <1>1, <1>2
<1>4. next.acted \subseteq 1..next.item /\ (next.late # 0 => \A k \in next.acted : k <= next.late)
  BY <1>1, <1>2 DEF Working
<1>5. Working(next)
  BY <1>1, <1>2, <1>3, <1>4 DEF Working, InHands
<1>6. Permitted(next, rights, patterns)
  BY <1>2 DEF Permitted, InHands
<1> QED
  BY <1>2, <1>5, <1>6 DEF CallOK

LEMMA AnsweredKeeps ==
  ASSUME NEW call, DOMAIN call = CallFields, Working(call), call.item <= Len(call.body.items),
         Item(call).valid, NEW verdict, verdict \notin {"invalid", "parseError"},
         verdict = "timeout" => call.late # 0, NEW rights, NEW patterns
  PROVE  CallOK(Answered(call, verdict), rights, patterns)
<1> DEFINE next == Answered(call, verdict)
           entry == Entry(call.item, Item(call).id, IF call.late # 0 THEN "timeout" ELSE verdict)
<1>1. /\ call.item \in Nat \ {0} /\ call.late \in 0..call.item /\ call.late \in Nat
      /\ Item(call) = call.body.items[call.item]
      /\ AnswersOf(call.answers, call.body.items, call.item, call.late)
  BY WorkingHas DEF Working
<1>2. Onward(call, next)
  BY DEF Answered, Onward, CallFields
<1>3. next.answers = IF HasId(Item(call)) THEN Append(call.answers, entry) ELSE call.answers
  BY DEF Answered, CallFields
<1>4. /\ entry.item = call.item /\ entry.id = Item(call).id
      /\ entry.verdict = (IF call.late # 0 THEN "timeout" ELSE verdict)
  BY DEF Entry
<1> HIDE DEF next, entry
<1>5. CASE HasId(Item(call))
  <2>1. AnswersOf(Append(call.answers, entry), call.body.items, call.item + 1, call.late)
    BY <1>1, <1>4, <1>5, OneMoreAnswer
  <2> QED
    BY <1>2, <1>3, <1>5, <2>1, OnwardKeeps DEF next
<1>6. CASE ~HasId(Item(call))
  <2>1. AnswersOf(call.answers, call.body.items, call.item + 1, call.late)
    BY <1>1, <1>6, NoAnswerNeeded DEF NeedsAnswer
  <2> QED
    BY <1>2, <1>3, <1>6, <2>1, OnwardKeeps DEF next
<1> QED
  BY <1>5, <1>6

LEMMA RejectedKeeps ==
  ASSUME NEW call, DOMAIN call = CallFields, call.at = "item", call.effect = "none",
         Working(call), call.item <= Len(call.body.items), ~Item(call).valid,
         NEW rights, NEW patterns
  PROVE  CallOK(Rejected(call), rights, patterns)
<1> DEFINE next == Rejected(call)
           id == IF call.body.shape = "line" /\ HasId(Item(call)) THEN Item(call).id ELSE "null"
           entry == Entry(call.item, id, "invalid")
<1>1. /\ call.item \in Nat \ {0} /\ call.late \in 0..call.item
      /\ Item(call) = call.body.items[call.item]
      /\ AnswersOf(call.answers, call.body.items, call.item, call.late)
  BY WorkingHas DEF Working
<1>2. Onward(call, next) /\ next.answers = Append(call.answers, entry)
  BY DEF Rejected, Onward, CallFields
<1>3. entry.item = call.item /\ entry.id \in {"null", Item(call).id} /\ entry.verdict = "invalid"
  BY DEF Entry
<1> HIDE DEF next, entry
<1>4. AnswersOf(Append(call.answers, entry), call.body.items, call.item + 1, call.late)
  BY <1>1, <1>3, OneMoreAnswer
<1> QED
  BY <1>2, <1>4, OnwardKeeps DEF next

LEMMA HandshakeKeeps ==
  ASSUME NEW call, DOMAIN call = CallFields, call.at = "item", call.effect = "none",
         Working(call), call.item <= Len(call.body.items), Item(call).valid,
         Item(call).method = "notifications/initialized", NEW rights, NEW patterns
  PROVE  CallOK(Handshake(call), rights, patterns)
<1>1. CASE call.late # 0
  BY <1>1, AnsweredKeeps DEF Handshake
<1>2. CASE call.late = 0
  <2> DEFINE next == [call EXCEPT !.item = @ + 1]
  <2>1. Onward(call, next) /\ next.answers = call.answers
    BY DEF Onward, CallFields
  <2>2. /\ call.item \in Nat \ {0} /\ call.late \in 0..call.item
        /\ Item(call) = call.body.items[call.item]
        /\ AnswersOf(call.answers, call.body.items, call.item, call.late)
    BY WorkingHas DEF Working
  <2> HIDE DEF next
  <2>3. AnswersOf(call.answers, call.body.items, call.item + 1, call.late)
    BY <2>2, NoAnswerNeeded DEF NeedsAnswer
  <2>4. CallOK(next, rights, patterns)
    BY <2>1, <2>3, OnwardKeeps
  <2> QED
    BY <1>2, <2>4 DEF Handshake, next
<1> QED
  BY <1>1, <1>2

\* An item in hand stays in hand, and may act.
LEMMA InHandKeeps ==
  ASSUME NEW call, Working(call), call.at \in InHands, NEW next, next.at \in InHands,
         next.body = call.body, next.item = call.item, next.late = call.late,
         next.answers = call.answers, next.acted \in {call.acted, call.acted \cup {call.item}},
         next.at = "command" => Commanding(next)
  PROVE  Working(next)
<1>1. /\ call.item \in Nat \ {0} /\ call.late \in {0, call.item}
      /\ call.acted \subseteq 1..call.item
  BY WorkingHas DEF Working, Executing
<1>2. next.acted \subseteq 1..call.item /\ (call.late # 0 => \A k \in next.acted : k <= call.late)
  BY <1>1
<1> QED
  BY <1>2 DEF Working, Executing, InHands

\* The call of a method.
Calling(call, method, args) == [call EXCEPT !.at = "call", !.method = method, !.args = args]

LEMMA CallingKeeps ==
  ASSUME NEW call, DOMAIN call = CallFields, call.at = "item", call.effect = "none", Working(call),
         call.item <= Len(call.body.items), Item(call).valid, call.late = 0,
         Item(call).method # "notifications/initialized", NEW method, NEW args,
         NEW rights, NEW patterns, rights \subseteq call.rights, patterns \subseteq call.patterns
  PROVE  CallOK(Calling(call, method, args), rights, patterns)
<1> DEFINE next == Calling(call, method, args)
<1>1. /\ DOMAIN next = CallFields /\ next.at = "call" /\ next.effect = "none"
      /\ next.body = call.body /\ next.item = call.item /\ next.late = call.late
      /\ next.answers = call.answers /\ next.acted = call.acted
      /\ next.rights = call.rights /\ next.patterns = call.patterns
  BY DEF CallFields, Calling
<1>2. Item(call) = call.body.items[call.item]
  BY WorkingHas
<1> HIDE DEF next
<1>3. Executing(next)
  BY <1>1, <1>2 DEF Executing
<1>4. Working(next)
  BY <1>1, <1>3 DEF Working, InHands
<1>5. Permitted(next, rights, patterns)
  BY <1>1 DEF Permitted, InHands
<1> QED
  BY <1>1, <1>4, <1>5 DEF CallOK, next

\* Every way of HandleMCPMethod() answers the item or goes on to a method.
LEMMA HandledKeeps ==
  ASSUME NEW call, DOMAIN call = CallFields, call.at = "item", call.effect = "none", Working(call),
         call.item <= Len(call.body.items), Item(call).valid, call.late = 0,
         NEW rights, NEW patterns, rights \subseteq call.rights, patterns \subseteq call.patterns
  PROVE  CallOK(Handled(call), rights, patterns)
<1> DEFINE item == Item(call)
<1>1. \A verdict \in {"result", "noSuchMethod", "invalidParams", "noSuchTool", "unfit",
                      "internalError"} : CallOK(Answered(call, verdict), rights, patterns)
  BY AnsweredKeeps
<1>2. item.method # "notifications/initialized" =>
        \A method, args : CallOK(Calling(call, method, args), rights, patterns)
  BY CallingKeeps
<1>3. CASE item.method \in Lists
  BY <1>1, <1>3 DEF Handled
<1>4. CASE item.method = "notifications/initialized"
  <2>1. Handled(call) = Handshake(call)
    BY <1>4 DEF Handled, Lists
  <2> QED
    BY <1>4, <2>1, HandshakeKeeps
<1>5. CASE item.method = "tools/call" /\ item.params.given
  <2>1. Handled(call) = ToolCalled(call, item.params)
    BY <1>5 DEF Handled, Lists
  <2>2. \/ \E verdict \in {"invalidParams", "noSuchTool", "unfit"} :
              Handled(call) = Answered(call, verdict)
        \/ Handled(call) = Calling(call, item.params.name, item.params.args)
    BY <2>1 DEF ToolCalled, Calling
  <2> QED
    BY <1>1, <1>2, <1>5, <2>2
<1>6. CASE item.method = "resources/read" /\ item.params.given
  <2>1. Handled(call) = ResourceRead(call, item.params)
    BY <1>6 DEF Handled, Lists
  <2>2. \/ \E verdict \in {"invalidParams", "internalError"} :
              Handled(call) = Answered(call, verdict)
        \/ \E method, args : Handled(call) = Calling(call, method, args)
    BY <2>1 DEF ResourceRead, Calling
  <2> QED
    BY <1>1, <1>2, <1>6, <2>2
<1>7. CASE item.method = "prompts/get" /\ item.params.given
  <2>1. Handled(call) = PromptGot(call, item.params)
    BY <1>7 DEF Handled, Lists
  <2> QED
    BY <1>1, <2>1 DEF PromptGot
<1>8. CASE ~item.params.given /\ item.method \in {"tools/call", "resources/read", "prompts/get"}
  <2>1. Handled(call) = Answered(call, "invalidParams")
    BY <1>8 DEF Handled, Lists
  <2> QED
    BY <1>1, <2>1
<1>9. CASE item.method \notin Lists \cup {"notifications/initialized", "tools/call",
                                          "resources/read", "prompts/get"}
  <2>1. Handled(call) = Answered(call, "noSuchMethod")
    BY <1>9 DEF Handled
  <2> QED
    BY <1>1, <2>1
<1> QED
  BY <1>3, <1>4, <1>5, <1>6, <1>7, <1>8, <1>9
-----------------------------------------------------------------------------
(* The steps of a client.                                                  *)

LEMMA AtRestIs ==
  /\ DOMAIN AtRest = CallFields /\ AtRest.at = "idle" /\ AtRest.effect = "none"
  /\ AtRest.late = 0 /\ AtRest.acted = {} /\ AtRest.answers = <<>>
  BY DEF AtRest, CallFields

LEMMA AtRestOK == ASSUME NEW rights, NEW patterns PROVE CallOK(AtRest, rights, patterns)
  BY AtRestIs DEF CallOK, Permitted, InHands

LEMMA BusyIs ==
  ASSUME McpInv, NEW c \in Clients, mcpCalls[c].at \in {"item"} \cup InHands
  PROVE  LET call == mcpCalls[c]
         IN  /\ DOMAIN call = CallFields /\ Working(call)
             /\ Permitted(call, RightsOf(cfgTree), cfgPatterns)
             /\ call.at \in InHands =>
                  Executing(call) /\ call.item <= Len(call.body.items) /\ Item(call).valid
  BY AtRestIs DEF McpInv, CallOK, Refused, InHands, Working, Executing, Item

LEMMA BecomesKeeps ==
  ASSUME McpInv, NEW c \in Clients, NEW next, Becomes(c, next),
         CallOK(next, RightsOf(cfgTree), cfgPatterns), UNCHANGED cfgVars
  PROVE  McpInv'
<1>1. mcpCalls' = [mcpCalls EXCEPT ![c] = next] /\ UNCHANGED <<cfgTree, cfgPatterns>>
  BY DEF Becomes, cfgVars
<1>2. /\ mcpCalls' = [d \in Clients |-> mcpCalls'[d]]
      /\ \A d \in Clients : mcpCalls'[d] = IF d = c THEN next ELSE mcpCalls[d]
  BY <1>1 DEF McpInv
<1>3. RightsOf(cfgTree)' = RightsOf(cfgTree) /\ cfgPatterns' = cfgPatterns
  BY <1>1 DEF RightsOf
<1>4. \A d \in Clients : CallOK(mcpCalls'[d], RightsOf(cfgTree), cfgPatterns)
  BY <1>2 DEF McpInv
<1>5. \A d \in Clients : CallOK(mcpCalls'[d], RightsOf(cfgTree'), cfgPatterns')
  BY <1>1, <1>4
<1> QED
  BY <1>2, <1>5 DEF McpInv

LEMMA AnswerKeeps ==
  ASSUME McpInv, NEW c \in Clients, mcpCalls[c].at \in InHands, NEW verdict,
         verdict \notin {"timeout", "invalid", "parseError"},
         Becomes(c, Answered(mcpCalls[c], verdict)), UNCHANGED cfgVars
  PROVE  McpInv'
<1>1. CallOK(Answered(mcpCalls[c], verdict), RightsOf(cfgTree), cfgPatterns)
  BY BusyIs, AnsweredKeeps
<1> QED
  BY <1>1, BecomesKeeps

\* A call that stays in hand, with what it was granted.
LEMMA HoldKeeps ==
  ASSUME McpInv, NEW c \in Clients, mcpCalls[c].at \in InHands,
         NEW next, Becomes(c, next), UNCHANGED cfgVars,
         DOMAIN next = CallFields, next.at \in InHands \ {"call"},
         next.body = mcpCalls[c].body, next.item = mcpCalls[c].item,
         next.late = mcpCalls[c].late, next.answers = mcpCalls[c].answers,
         next.acted \in {mcpCalls[c].acted, mcpCalls[c].acted \cup {mcpCalls[c].item}},
         next.rights = mcpCalls[c].rights, next.patterns = mcpCalls[c].patterns,
         next.at = "command" => Commanding(next) /\ "script" \in next.rights,
         Granted(next),
         next.at = "act" =>
            /\ HandlersOf(next.method) # {}
            /\ Acts(TheHandler(next.method), next.args) =>
                  TheHandler(next.method).rights \subseteq next.rights,
         next.effect # "none" =>
            /\ next.at \in {"done", "command", "stored"}
            /\ NeededRights(next.method, next.effect) \subseteq next.rights
  PROVE  McpInv'
<1>1. /\ Working(mcpCalls[c]) /\ RightsOf(cfgTree) \subseteq next.rights
      /\ cfgPatterns \subseteq next.patterns
  BY BusyIs DEF Permitted
<1>2. Working(next)
  BY <1>1, InHandKeeps
<1>3. Permitted(next, RightsOf(cfgTree), cfgPatterns)
  BY <1>1 DEF Permitted
<1> QED
  BY <1>2, <1>3, BecomesKeeps DEF CallOK

LEMMA ReceiveKeeps ==
  ASSUME McpInv, NEW c \in Clients, NEW body \in Bodies, Receive(c, body), UNCHANGED cfgVars
  PROVE  McpInv'
<1> DEFINE next == Received(body)
<1>1. Becomes(c, next)
  BY DEF Receive
<1>2. /\ DOMAIN next = CallFields /\ next.body = body /\ next.item = 1 /\ next.late = 0
      /\ next.acted = {} /\ next.effect = "none"
      /\ \/ next.at = "item" /\ next.answers = <<>>
         \/ next.at = "answer" /\ next.answers = <<Entry(0, "null", "parseError")>>
         \/ next.at = "answer" /\ next.answers = <<Entry(0, "null", "invalid")>>
  BY AtRestIs DEF Received, CallFields
<1> HIDE DEF next
<1>3. Permitted(next, RightsOf(cfgTree), cfgPatterns)
  BY <1>2 DEF Permitted, InHands
<1>4. next.at = "answer" => Refused(next)
  BY <1>2 DEF Refused
<1>5. ASSUME next.at = "item" PROVE Working(next)
  <2>1. Len(body.items) \in Nat
    BY BodiesAssumption
  <2>2. AnswersOf(<<>>, body.items, 1, 0)
    <3>1. IsSequence(<<>>) /\ DOMAIN <<>> = {}
      BY DEF IsSequence
    <3> QED
      BY <3>1 DEF AnswersOf
  <2>3. next.answers = <<>>
    BY <1>2, <1>5
  <2> QED
    BY <1>2, <1>5, <2>1, <2>2, <2>3 DEF Working, InHands
<1> QED
  BY <1>1, <1>2, <1>3, <1>4, <1>5, BecomesKeeps DEF CallOK

LEMMA DeadlineKeeps ==
  ASSUME McpInv, NEW c \in Clients, DeadlinePasses(c), UNCHANGED cfgVars
  PROVE  McpInv'
<1> DEFINE call == mcpCalls[c]
           next == [call EXCEPT !.late = call.item]
<1>1. Becomes(c, next) /\ call.at \notin {"idle", "answer"} /\ call.late = 0
  BY DEF DeadlinePasses
<1>2. CallOK(call, RightsOf(cfgTree), cfgPatterns)
  BY DEF McpInv
<1>3. Working(call) /\ DOMAIN call = CallFields
  BY <1>1, <1>2, AtRestIs DEF CallOK, Refused
<1>4. /\ DOMAIN next = CallFields /\ next.late = call.item
      /\ \A f \in CallFields \ {"late"} : next[f] = call[f]
  BY <1>3 DEF CallFields
<1> HIDE DEF next
<1>5. call.item \in Nat \ {0} /\ call.acted \subseteq 1..call.item
  BY <1>3, WorkingHas DEF Working
<1>6. /\ next.at = call.at /\ next.body = call.body /\ next.item = call.item
      /\ next.answers = call.answers /\ next.acted = call.acted /\ next.outcomes = call.outcomes
      /\ next.method = call.method /\ next.args = call.args /\ next.rights = call.rights
      /\ next.patterns = call.patterns /\ next.effect = call.effect
  BY <1>4 DEF CallFields
<1>7. AnswersOf(next.answers, next.body.items, next.item, next.late)
  BY <1>1, <1>3, <1>4, <1>5, <1>6, DeadlineKeepsAnswers DEF Working
<1>8. next.late \in 0..next.item /\ \A k \in next.acted : k <= next.late
  BY <1>4, <1>5, <1>6
<1>9. call.at \in InHands => Executing(next)
  BY <1>3, <1>4, <1>6 DEF Working, Executing
<1>10. call.at = "command" => Commanding(next)
  BY <1>3, <1>6 DEF Working, Commanding, Batch, StopOnError
<1>11. Working(next)
  BY <1>3, <1>6, <1>7, <1>8, <1>9, <1>10 DEF Working
<1>12. Permitted(next, RightsOf(cfgTree), cfgPatterns)
  BY <1>2, <1>6 DEF CallOK, Permitted, Granted
<1> QED
  BY <1>1, <1>4, <1>11, <1>12, BecomesKeeps DEF CallOK

LEMMA TakeItemKeeps ==
  ASSUME McpInv, NEW c \in Clients, TakeItem(c), UNCHANGED cfgVars
  PROVE  McpInv'
<1> DEFINE call == [mcpCalls[c] EXCEPT !.rights = RightsOf(cfgTree), !.patterns = cfgPatterns,
                                       !.effect = "none"]
           rights == RightsOf(cfgTree)
           last == [mcpCalls[c] EXCEPT !.at = "answer"]
<1>1. /\ call.at = "item"
      /\ Becomes(c, IF call.item > Len(call.body.items) THEN last
                    ELSE IF ~Item(call).valid THEN Rejected(call)
                    ELSE IF Skipped(call) THEN Answered(call, "timeout")
                    ELSE Handled(call))
  BY DEF TakeItem
<1>2. CallOK(mcpCalls[c], rights, cfgPatterns) /\ DOMAIN mcpCalls[c] = CallFields
  BY DEF McpInv, CallOK
<1>3. /\ DOMAIN call = CallFields /\ call.rights = rights /\ call.patterns = cfgPatterns
      /\ call.effect = "none"
      /\ \A f \in CallFields \ {"rights", "patterns", "effect"} : call[f] = mcpCalls[c][f]
  BY <1>2 DEF CallFields
<1>4. /\ DOMAIN last = CallFields /\ last.at = "answer"
      /\ \A f \in CallFields \ {"at"} : last[f] = mcpCalls[c][f]
  BY <1>2 DEF CallFields
<1> HIDE DEF call, last, rights
<1>5. mcpCalls[c].at = "item"
  BY <1>1, <1>3 DEF CallFields
<1>6. Working(mcpCalls[c]) /\ Permitted(mcpCalls[c], rights, cfgPatterns)
  BY <1>5, BusyIs DEF rights
<1>7. Working(call)
  <2>1. /\ call.at = mcpCalls[c].at /\ call.body = mcpCalls[c].body
        /\ call.item = mcpCalls[c].item /\ call.late = mcpCalls[c].late
        /\ call.answers = mcpCalls[c].answers /\ call.acted = mcpCalls[c].acted
    BY <1>3 DEF CallFields
  <2> QED
    BY <1>5, <1>6, <2>1 DEF Working, InHands
<1>8. CASE call.item > Len(call.body.items)
  <2>1. /\ last.body = mcpCalls[c].body /\ last.item = mcpCalls[c].item
        /\ last.late = mcpCalls[c].late /\ last.answers = mcpCalls[c].answers
        /\ last.acted = mcpCalls[c].acted /\ last.effect = mcpCalls[c].effect
        /\ call.body = mcpCalls[c].body /\ call.item = mcpCalls[c].item
    BY <1>3, <1>4 DEF CallFields
  <2>2. Working(last)
    BY <1>4, <1>6, <1>8, <2>1 DEF Working, InHands
  <2>3. mcpCalls[c].effect = "none"
    BY <1>5, <1>6 DEF Permitted
  <2>4. Permitted(last, rights, cfgPatterns)
    BY <1>4, <2>1, <2>3 DEF Permitted, InHands
  <2> QED
    BY <1>1, <1>4, <1>8, <2>2, <2>4, BecomesKeeps DEF CallOK, rights
<1>9. CASE call.item <= Len(call.body.items) /\ ~Item(call).valid
  <2>1. CallOK(Rejected(call), rights, cfgPatterns)
    BY <1>1, <1>3, <1>7, <1>9, RejectedKeeps
  <2>2. ~(call.item > Len(call.body.items))
    BY <1>7, <1>9, WorkingHas
  <2> QED
    BY <1>1, <1>9, <2>1, <2>2, BecomesKeeps DEF rights
<1>10. CASE call.item <= Len(call.body.items) /\ Item(call).valid
  <2>1. ~(call.item > Len(call.body.items))
    BY <1>7, <1>10, WorkingHas
  <2>2. CASE Skipped(call)
    <3>1. CallOK(Answered(call, "timeout"), rights, cfgPatterns)
      BY <1>3, <1>7, <1>10, <2>2, AnsweredKeeps DEF Skipped
    <3> QED
      BY <1>1, <1>10, <2>1, <2>2, <3>1, BecomesKeeps DEF rights
  <2>3. CASE ~Skipped(call)
    <3>1. CallOK(Handled(call), rights, cfgPatterns)
      BY <1>1, <1>3, <1>7, <1>10, <2>3, HandledKeeps DEF Skipped
    <3> QED
      BY <1>1, <1>10, <2>1, <2>3, <3>1, BecomesKeeps DEF rights
  <2> QED
    BY <2>2, <2>3
<1> QED
  <2>1. call.item > Len(call.body.items) \/ call.item <= Len(call.body.items)
    BY <1>7, WorkingHas
  <2> QED
    BY <1>8, <1>9, <1>10, <2>1

\* The fields of a call in hand that a step leaves alone.
Alike(next, call, fields) == \A f \in CallFields \ fields : next[f] = call[f]

LEMMA DispatchKeeps ==
  ASSUME McpInv, NEW c \in Clients, Dispatch(c), UNCHANGED cfgVars
  PROVE  McpInv'
<1> DEFINE call == mcpCalls[c]
           next == [call EXCEPT !.at = "run"]
<1>1. /\ call.at = "call" /\ call.at \in InHands
      /\ Becomes(c, IF Allowed(call.method) THEN next ELSE Answered(call, "denied"))
  BY DEF Dispatch, InHands
<1>2. DOMAIN call = CallFields /\ Permitted(call, RightsOf(cfgTree), cfgPatterns)
  BY <1>1, BusyIs
<1>3. CASE ~Allowed(call.method)
  BY <1>1, <1>3, AnswerKeeps
<1>4. CASE Allowed(call.method)
  <2>1. DOMAIN next = CallFields /\ next.at = "run" /\ Alike(next, call, {"at"})
    BY <1>2 DEF CallFields, Alike
  <2> HIDE DEF next
  <2>2. /\ next.body = call.body /\ next.item = call.item /\ next.late = call.late
        /\ next.answers = call.answers /\ next.acted = call.acted /\ next.method = call.method
        /\ next.rights = call.rights /\ next.patterns = call.patterns
        /\ next.effect = call.effect
    BY <2>1 DEF CallFields, Alike
  <2>3. next.effect = "none"
    BY <1>1, <1>2, <2>2 DEF Permitted
  <2>4. PICK pattern \in cfgPatterns : Matches(pattern, call.method)
    BY <1>4 DEF Allowed
  <2>5. Granted(next)
    BY <1>1, <1>2, <2>2, <2>4 DEF Permitted, Granted
  <2> QED
    BY <1>1, <1>4, <2>1, <2>2, <2>3, <2>5, HoldKeeps DEF InHands
<1> QED
  BY <1>3, <1>4

LEMMA RunKeeps ==
  ASSUME McpInv, NEW c \in Clients, Run(c), UNCHANGED cfgVars
  PROVE  McpInv'
<1> DEFINE call == mcpCalls[c]
           handler == TheHandler(call.method)
           next == Begun(call)
<1>1. /\ call.at = "run" /\ call.at \in InHands
      /\ \/ \E verdict \in {"unknownMethod", "refused", "invalidParams", "denied"} :
               Becomes(c, Answered(call, verdict))
         \/ /\ HandlersOf(call.method) # {} /\ Becomes(c, next)
            /\ Acts(handler, call.args) => handler.rights \subseteq RightsOf(cfgTree)
  BY DEF Run, InHands, TheHandler
<1>2. CASE \E verdict \in {"unknownMethod", "refused", "invalidParams", "denied"} :
              Becomes(c, Answered(call, verdict))
  BY <1>1, <1>2, AnswerKeeps
<1>3. CASE /\ HandlersOf(call.method) # {} /\ Becomes(c, next)
           /\ Acts(handler, call.args) => handler.rights \subseteq RightsOf(cfgTree)
  <2>1. DOMAIN call = CallFields /\ Permitted(call, RightsOf(cfgTree), cfgPatterns)
    BY <1>1, BusyIs
  <2>2. /\ call.effect = "none" /\ Granted(call)
        /\ Acts(handler, call.args) => handler.rights \subseteq call.rights
    BY <1>1, <1>3, <2>1 DEF Permitted, InHands
  <2>3. handler \in RegisteredMethods /\ handler.method = call.method
    BY <1>3 DEF TheHandler, HandlersOf
  <2>4. /\ DOMAIN next = CallFields /\ next.at \in {"section", "command", "act"}
        /\ next.at = "command" => next.outcomes = <<>> /\ call.method \in Scripts
        /\ Alike(next, call, {"at", "sections", "outcomes"})
    <3>1. CASE call.method \in {"context.get_snapshot", "context.get_basic"}
      <4>1. next = [call EXCEPT !.at = "section", !.sections = Sections(call.method, call.args)]
        BY <3>1 DEF Begun
      <4> QED
        BY <2>1, <4>1 DEF CallFields, Alike
    <3>2. CASE call.method \in Scripts
      <4>1. next = [call EXCEPT !.at = "command", !.outcomes = <<>>]
        BY <3>2 DEF Begun, Scripts
      <4> QED
        BY <2>1, <3>2, <4>1 DEF CallFields, Alike
    <3>3. CASE call.method \notin Scripts \cup {"context.get_snapshot", "context.get_basic"}
      <4>1. next = [call EXCEPT !.at = "act"]
        BY <3>3 DEF Begun, Scripts
      <4> QED
        BY <2>1, <4>1 DEF CallFields, Alike
    <3> QED
      BY <3>1, <3>2, <3>3
  <2> HIDE DEF next, handler
  <2>5. /\ next.body = call.body /\ next.item = call.item /\ next.late = call.late
        /\ next.answers = call.answers /\ next.acted = call.acted /\ next.method = call.method
        /\ next.rights = call.rights /\ next.patterns = call.patterns
        /\ next.effect = call.effect /\ next.args = call.args
    BY <2>4 DEF CallFields, Alike
  <2>6. next.at = "command" => "script" \in next.rights
    BY <2>2, <2>3, <2>4, <2>5, ScriptsAsk DEF Acts
  <2>7. next.at = "command" => Commanding(next)
    <3>1. next.outcomes = <<>> => next.outcomes \in Seq(BOOLEAN) /\ Len(next.outcomes) = 0
      OBVIOUS
    <3> QED
      BY <2>4, <3>1 DEF Commanding
  <2>8. next.at = "act" =>
           /\ HandlersOf(next.method) # {}
           /\ Acts(TheHandler(next.method), next.args) =>
                 TheHandler(next.method).rights \subseteq next.rights
    BY <1>3, <2>2, <2>5 DEF handler
  <2>9. Granted(next) /\ next.effect = "none" /\ next.at \in InHands \ {"call"}
    BY <2>2, <2>4, <2>5 DEF Granted, InHands
  <2> QED
    BY <1>1, <1>3, <2>4, <2>5, <2>6, <2>7, <2>8, <2>9, HoldKeeps
<1> QED
  BY <1>1, <1>2, <1>3

LEMMA ActKeeps ==
  ASSUME McpInv, NEW c \in Clients, Act(c), UNCHANGED cfgVars
  PROVE  McpInv'
<1> DEFINE call == mcpCalls[c]
           handler == TheHandler(call.method)
           acting == Acts(handler, call.args)
           next == [[call EXCEPT !.effect = IF acting THEN handler.change ELSE "none",
                                 !.acted = IF acting THEN @ \cup {call.item} ELSE @]
                       EXCEPT !.at = "done"]
<1>1. call.at = "act" /\ call.at \in InHands /\ Becomes(c, next)
  BY DEF Act, InHands, TheHandler
<1>2. DOMAIN call = CallFields /\ Permitted(call, RightsOf(cfgTree), cfgPatterns)
  BY <1>1, BusyIs
<1>3. /\ HandlersOf(call.method) # {} /\ Granted(call)
      /\ acting => handler.rights \subseteq call.rights
  BY <1>1, <1>2 DEF Permitted, InHands
<1>4. handler \in RegisteredMethods /\ handler.method = call.method
  BY <1>3 DEF TheHandler, HandlersOf
<1>5. NeededRights(call.method, handler.change) \subseteq handler.rights
  BY <1>4, AllAsk DEF Asking
<1>6. /\ DOMAIN next = CallFields /\ next.at = "done"
      /\ next.effect = IF acting THEN handler.change ELSE "none"
      /\ next.acted = IF acting THEN call.acted \cup {call.item} ELSE call.acted
      /\ Alike(next, call, {"at", "effect", "acted"})
  BY <1>2 DEF CallFields, Alike
<1> HIDE DEF next, handler, acting
<1>7. /\ next.body = call.body /\ next.item = call.item /\ next.late = call.late
      /\ next.answers = call.answers /\ next.method = call.method
      /\ next.rights = call.rights /\ next.patterns = call.patterns
  BY <1>6 DEF CallFields, Alike
<1>8. Granted(next) /\ next.at \in InHands \ {"call"}
  BY <1>3, <1>6, <1>7 DEF Granted, InHands
<1>9. next.effect # "none" => NeededRights(next.method, next.effect) \subseteq next.rights
  BY <1>3, <1>5, <1>6, <1>7
<1>10. next.acted \in {call.acted, call.acted \cup {call.item}}
  BY <1>6
<1> QED
  BY <1>1, <1>6, <1>7, <1>8, <1>9, <1>10, HoldKeeps

LEMMA ReturnKeeps ==
  ASSUME McpInv, NEW c \in Clients, Return(c), UNCHANGED cfgVars
  PROVE  McpInv'
<1>1. mcpCalls[c].at \in InHands
  BY DEF Return, InHands
<1>2. PICK verdict \in {"result", "failed"} : Becomes(c, Answered(mcpCalls[c], verdict))
  BY DEF Return
<1> QED
  BY <1>1, <1>2, AnswerKeeps

LEMMA ScriptReturnsKeeps ==
  ASSUME McpInv, NEW c \in Clients, ScriptReturns(c), UNCHANGED cfgVars
  PROVE  McpInv'
<1>1. mcpCalls[c].at \in InHands
  BY DEF ScriptReturns, InHands
<1>2. PICK verdict \in {"othersOutput", "result"} : Becomes(c, Answered(mcpCalls[c], verdict))
  BY DEF ScriptReturns
<1> QED
  BY <1>1, <1>2, AnswerKeeps

LEMMA RespondKeeps ==
  ASSUME McpInv, NEW c \in Clients, Respond(c), UNCHANGED cfgVars
  PROVE  McpInv'
  BY AtRestOK, BecomesKeeps DEF Respond

LEMMA CollectKeeps ==
  ASSUME McpInv, NEW c \in Clients, Collect(c), UNCHANGED cfgVars
  PROVE  McpInv'
<1> DEFINE call == mcpCalls[c]
           rest == Tail(call.sections)
           ended == [call EXCEPT !.at = "done"]
           further == [call EXCEPT !.sections = rest,
                                   !.at = IF rest = <<>> THEN "done" ELSE "section"]
<1>1. call.at = "section" /\ call.at \in InHands /\ (Becomes(c, ended) \/ Becomes(c, further))
  BY DEF Collect, InHands
<1>2. DOMAIN call = CallFields /\ Permitted(call, RightsOf(cfgTree), cfgPatterns)
  BY <1>1, BusyIs
<1>3. call.effect = "none" /\ Granted(call)
  BY <1>1, <1>2 DEF Permitted, InHands
<1>4. /\ DOMAIN ended = CallFields /\ ended.at = "done"
      /\ Alike(ended, call, {"at", "sections"})
  BY <1>2 DEF CallFields, Alike
<1>5. /\ DOMAIN further = CallFields /\ further.at \in {"done", "section"}
      /\ Alike(further, call, {"at", "sections"})
  BY <1>2 DEF CallFields, Alike
<1>6. PICK next : /\ Becomes(c, next) /\ DOMAIN next = CallFields
                  /\ next.at \in {"done", "section"} /\ Alike(next, call, {"at", "sections"})
  BY <1>1, <1>4, <1>5
<1>7. /\ next.body = call.body /\ next.item = call.item /\ next.late = call.late
      /\ next.answers = call.answers /\ next.acted = call.acted /\ next.method = call.method
      /\ next.rights = call.rights /\ next.patterns = call.patterns
      /\ next.effect = call.effect
  BY <1>6 DEF CallFields, Alike
<1>8. Granted(next) /\ next.at \in InHands \ {"call"}
  BY <1>3, <1>6, <1>7 DEF Granted, InHands
<1> HIDE DEF call
<1>9. next.acted \in {call.acted, call.acted \cup {call.item}} /\ next.effect = "none"
  BY <1>3, <1>7
<1> QED
  BY <1>1, <1>6, <1>7, <1>8, <1>9, HoldKeeps DEF call

\* A command that is begun behind a failed one belongs to a batch that goes on.
LEMMA OneMoreCommand ==
  ASSUME NEW call, Commanding(call), ~CommandsEnd(call), NEW success \in BOOLEAN,
         NEW next, next.outcomes = Append(call.outcomes, success),
         next.method = call.method, next.args = call.args
  PROVE  Commanding(next)
<1>1. /\ next.outcomes \in Seq(BOOLEAN) /\ Len(next.outcomes) = Len(call.outcomes) + 1
      /\ Len(call.outcomes) \in Nat /\ DOMAIN call.outcomes = 1..Len(call.outcomes)
      /\ \A i \in 1..Len(call.outcomes) : next.outcomes[i] = call.outcomes[i]
  BY DEF Commanding
<1>2. Len(next.outcomes) = Len(call.outcomes) + 1 /\ Len(call.outcomes) \in Nat
  BY <1>1
<1>3. Batch(next) = Batch(call) /\ StopOnError(next) = StopOnError(call)
  BY DEF Batch, StopOnError
<1>4. ASSUME ~Batch(call) PROVE Len(next.outcomes) <= 1
  <2>1. Len(call.outcomes) <= 1
    BY <1>4 DEF Commanding
  <2>2. ~(Len(call.outcomes) = 1)
    BY <1>4 DEF CommandsEnd
  <2>3. \A n \in Nat : n <= 1 /\ ~(n = 1) => n + 1 <= 1
    OBVIOUS
  <2> QED
    BY <1>2, <2>1, <2>2, <2>3
<1>5. ASSUME StopOnError(call), NEW i \in 1..Len(next.outcomes) - 1 PROVE next.outcomes[i]
  <2>1. CASE Batch(call)
    <3>1. \A j \in 1..Len(call.outcomes) : call.outcomes[j]
      BY <1>1, <1>5, <2>1 DEF CommandsEnd, AllSucceeded
    <3>2. i \in 1..Len(call.outcomes) /\ next.outcomes[i] = call.outcomes[i]
      BY <1>1, <1>5
    <3> QED
      BY <3>1, <3>2
  <2>2. CASE ~Batch(call)
    BY <1>1, <1>4, <2>2
  <2> QED
    BY <2>1, <2>2
<1> QED
  BY <1>1, <1>3, <1>4, <1>5 DEF Commanding

LEMMA CommandKeeps ==
  ASSUME McpInv, NEW c \in Clients, Command(c), UNCHANGED cfgVars
  PROVE  McpInv'
<1> DEFINE call == mcpCalls[c]
<1>1. call.at = "command" /\ call.at \in InHands /\ ~CommandsEnd(call)
  BY DEF Command, InHands
<1>2. /\ DOMAIN call = CallFields /\ Permitted(call, RightsOf(cfgTree), cfgPatterns)
      /\ Working(call)
  BY <1>1, BusyIs
<1>3. PICK success \in BOOLEAN :
         Becomes(c, [call EXCEPT !.outcomes = Append(@, success), !.effect = "commands",
                                 !.acted = @ \cup {call.item}])
  BY DEF Command
<1> DEFINE next == [call EXCEPT !.outcomes = Append(@, success), !.effect = "commands",
                                !.acted = @ \cup {call.item}]
<1>4. /\ DOMAIN next = CallFields /\ next.at = "command"
      /\ next.outcomes = Append(call.outcomes, success) /\ next.effect = "commands"
      /\ next.acted = call.acted \cup {call.item}
      /\ Alike(next, call, {"outcomes", "effect", "acted"})
  BY <1>1, <1>2 DEF CallFields, Alike
<1>5. Becomes(c, next)
  BY <1>3
<1> HIDE DEF next, call
<1>6. /\ next.body = call.body /\ next.item = call.item /\ next.late = call.late
      /\ next.answers = call.answers /\ next.method = call.method /\ next.args = call.args
      /\ next.rights = call.rights /\ next.patterns = call.patterns
  BY <1>4 DEF CallFields, Alike
<1>7. Granted(call) /\ "script" \in call.rights
  BY <1>1, <1>2 DEF Permitted, InHands
<1>8. Granted(next) /\ next.at \in InHands \ {"call"}
  BY <1>4, <1>6, <1>7 DEF Granted, InHands
<1>9. Commanding(call)
  BY <1>1, <1>2 DEF Working
<1>10. Commanding(next) /\ "script" \in next.rights
  BY <1>1, <1>4, <1>6, <1>7, <1>9, OneMoreCommand
<1>11. NeededRights(next.method, next.effect) \subseteq next.rights
  BY <1>4, <1>10 DEF NeededRights
<1>12. next.acted \in {call.acted, call.acted \cup {call.item}}
  BY <1>4
<1> QED
  BY <1>1, <1>4, <1>5, <1>6, <1>8, <1>10, <1>11, <1>12, HoldKeeps DEF call

LEMMA StoreKeeps ==
  ASSUME McpInv, NEW c \in Clients, Store(c), UNCHANGED cfgVars
  PROVE  McpInv'
<1> DEFINE call == mcpCalls[c]
           next == [call EXCEPT !.at = "stored"]
<1>1. call.at = "command" /\ call.at \in InHands /\ Becomes(c, next)
  BY DEF Store, InHands
<1>2. DOMAIN call = CallFields /\ Permitted(call, RightsOf(cfgTree), cfgPatterns)
  BY <1>1, BusyIs
<1>3. DOMAIN next = CallFields /\ next.at = "stored" /\ Alike(next, call, {"at"})
  BY <1>2 DEF CallFields, Alike
<1> HIDE DEF next, call
<1>4. /\ next.body = call.body /\ next.item = call.item /\ next.late = call.late
      /\ next.answers = call.answers /\ next.method = call.method /\ next.acted = call.acted
      /\ next.rights = call.rights /\ next.patterns = call.patterns
      /\ next.effect = call.effect
  BY <1>3 DEF CallFields, Alike
<1>5. Granted(next) /\ next.at \in InHands \ {"call"}
  BY <1>1, <1>2, <1>3, <1>4 DEF Permitted, Granted, InHands
<1>6. next.effect # "none" => NeededRights(next.method, next.effect) \subseteq next.rights
  BY <1>2, <1>4 DEF Permitted
<1>7. next.acted \in {call.acted, call.acted \cup {call.item}}
  BY <1>4
<1> QED
  BY <1>1, <1>3, <1>4, <1>5, <1>6, <1>7, HoldKeeps DEF call

\* The settings change: a call in hand is counted what they allow now, on top
\* of what it has been allowed.
LEMMA SettingsChangeKeeps ==
  ASSUME McpInv, SettingsChange PROVE McpInv'
<1> DEFINE rights == RightsOf(cfgTree')
           grown(call) == [call EXCEPT !.rights = @ \cup rights, !.patterns = @ \cup cfgPatterns']
<1>1. mcpCalls' = [c \in Clients |-> IF mcpCalls[c].at = "idle" THEN mcpCalls[c]
                                      ELSE grown(mcpCalls[c])]
  BY DEF SettingsChange
<1>2. RightsOf(cfgTree)' = rights
  BY DEF RightsOf
<1>3. ASSUME NEW c \in Clients PROVE CallOK(mcpCalls'[c], rights, cfgPatterns')
  <2> DEFINE call == mcpCalls[c]
             next == grown(call)
  <2>1. CallOK(call, RightsOf(cfgTree), cfgPatterns) /\ DOMAIN call = CallFields
    BY DEF McpInv, CallOK
  <2>2. CASE call.at = "idle"
    <3>1. mcpCalls'[c] = call
      BY <1>1, <2>2
    <3>2. call = AtRest
      BY <2>1, <2>2 DEF CallOK, Refused, Working, InHands
    <3> QED
      BY <3>1, <3>2, AtRestOK
  <2>3. CASE call.at # "idle"
    <3>1. mcpCalls'[c] = next
      BY <1>1, <2>3
    <3>2. /\ DOMAIN next = CallFields /\ next.rights = call.rights \cup rights
          /\ next.patterns = call.patterns \cup cfgPatterns'
          /\ Alike(next, call, {"rights", "patterns"})
      BY <2>1 DEF CallFields, Alike
    <3> HIDE DEF next, call, rights
    <3>3. /\ next.at = call.at /\ next.body = call.body /\ next.item = call.item
          /\ next.late = call.late /\ next.answers = call.answers /\ next.acted = call.acted
          /\ next.outcomes = call.outcomes /\ next.method = call.method
          /\ next.args = call.args /\ next.effect = call.effect
      BY <3>2 DEF CallFields, Alike
    <3>4. Refused(call) \/ Working(call)
      BY <2>1, <2>3, AtRestIs DEF CallOK
    <3>5. Refused(call) => Refused(next)
      BY <3>3 DEF Refused
    <3>6. Commanding(call) => Commanding(next)
      BY <3>3 DEF Commanding, Batch, StopOnError
    <3>7. Executing(call) => Executing(next)
      BY <3>3 DEF Executing
    <3>8. Working(call) => Working(next)
      BY <3>3, <3>6, <3>7 DEF Working
    <3>9. Granted(call) => Granted(next)
      BY <3>2, <3>3 DEF Granted
    <3>10. Permitted(call, RightsOf(cfgTree), cfgPatterns)
      BY <2>1 DEF CallOK
    <3>11. Permitted(next, rights, cfgPatterns')
      BY <3>2, <3>3, <3>9, <3>10 DEF Permitted
    <3> QED
      BY <3>1, <3>2, <3>4, <3>5, <3>8, <3>11 DEF CallOK
  <2> QED
    BY <2>2, <2>3
<1>4. \A c \in Clients : CallOK(mcpCalls'[c], RightsOf(cfgTree'), cfgPatterns')
  BY <1>3
<1>5. mcpCalls' = [c \in Clients |-> mcpCalls'[c]]
  BY <1>1
<1> QED
  BY <1>4, <1>5 DEF McpInv

-----------------------------------------------------------------------------
(* The invariant, and what it is for.                                      *)

LEMMA McpInitInv == ASSUME McpInit PROVE McpInv
  BY AtRestOK DEF McpInit, McpInv

LEMMA McpNextInv ==
  ASSUME McpInv,
         [(McpTraffic(Clients, Bodies) /\ UNCHANGED cfgVars) \/ SettingsChange]_<<mcpVars, cfgVars>>
  PROVE  McpInv'
<1>1. CASE McpTraffic(Clients, Bodies) /\ UNCHANGED cfgVars
  <2>1. PICK c \in Clients : \/ \E body \in Bodies : Receive(c, body)
                             \/ DeadlinePasses(c)
                             \/ McpStep(c)
    BY <1>1 DEF McpTraffic
  <2>2. CASE \E body \in Bodies : Receive(c, body)
    BY <1>1, <2>2, ReceiveKeeps
  <2>3. CASE DeadlinePasses(c)
    BY <1>1, <2>3, DeadlineKeeps
  <2>4. CASE TakeItem(c)
    BY <1>1, <2>4, TakeItemKeeps
  <2>5. CASE Dispatch(c)
    BY <1>1, <2>5, DispatchKeeps
  <2>6. CASE Run(c)
    BY <1>1, <2>6, RunKeeps
  <2>7. CASE Act(c)
    BY <1>1, <2>7, ActKeeps
  <2>8. CASE Return(c)
    BY <1>1, <2>8, ReturnKeeps
  <2>9. CASE Collect(c)
    BY <1>1, <2>9, CollectKeeps
  <2>10. CASE Command(c)
    BY <1>1, <2>10, CommandKeeps
  <2>11. CASE Store(c)
    BY <1>1, <2>11, StoreKeeps
  <2>12. CASE ScriptReturns(c)
    BY <1>1, <2>12, ScriptReturnsKeeps
  <2>13. CASE Respond(c)
    BY <1>1, <2>13, RespondKeeps
  <2> QED
    BY <2>1, <2>2, <2>3, <2>4, <2>5, <2>6, <2>7, <2>8, <2>9, <2>10, <2>11, <2>12, <2>13 DEF McpStep
<1>2. CASE SettingsChange
  BY <1>2, SettingsChangeKeeps
<1>3. CASE UNCHANGED <<mcpVars, cfgVars>>
  <2>1. mcpCalls' = mcpCalls /\ cfgTree' = cfgTree /\ cfgPatterns' = cfgPatterns
    BY <1>3 DEF mcpVars, cfgVars
  <2> QED
    BY <2>1 DEF McpInv, RightsOf
<1> QED
  BY <1>1, <1>2, <1>3

LEMMA McpInvariant == McpSpec => []McpInv
<1>1. McpInit => McpInv
  BY McpInitInv
<1>2. McpInv /\ [(McpTraffic(Clients, Bodies) /\ UNCHANGED cfgVars)
                 \/ SettingsChange]_<<mcpVars, cfgVars>> => McpInv'
  BY McpNextInv
<1> QED
  BY <1>1, <1>2, PTL DEF McpSpec

\* Whatever a request changes, some settings in force since its item was taken
\* allowed its method and granted the rights that the change needs: for every
\* client, body, document and edit of the settings, and every pattern of the
\* permissions (PermissionChecker::IsMethodAllowed, the handlers' own checks).
THEOREM EffectsPermitted == McpSpec => []EffectsArePermitted
<1>1. ASSUME McpInv PROVE EffectsArePermitted
  <2> SUFFICES ASSUME NEW c \in Clients, mcpCalls[c].effect # "none"
               PROVE  /\ NeededRights(mcpCalls[c].method, mcpCalls[c].effect)
                            \subseteq mcpCalls[c].rights
                      /\ Granted(mcpCalls[c])
    BY DEF EffectsArePermitted, Granted
  <2>1. Permitted(mcpCalls[c], RightsOf(cfgTree), cfgPatterns)
    BY <1>1 DEF McpInv, CallOK
  <2> QED
    BY <2>1 DEF Permitted, InHands
<1> QED
  BY <1>1, McpInvariant, PTL

\* Behind the deadline of a body, or behind a failed command of a batch that
\* stops on an error, nothing more is executed (HandleMCPBody, HandleMCPMethod,
\* ScriptHandler::ExecuteBatch).
THEOREM NothingMoreHappens == McpSpec => []NothingMoreIsDone
<1>1. ASSUME McpInv PROVE NothingMoreIsDone
  <2>1. ASSUME NEW c \in Clients, mcpCalls[c].late # 0, NEW k \in mcpCalls[c].acted
        PROVE  k <= mcpCalls[c].late
    <3>1. CallOK(mcpCalls[c], RightsOf(cfgTree), cfgPatterns)
      BY <1>1 DEF McpInv
    <3>2. Working(mcpCalls[c])
      BY <2>1, <3>1, AtRestIs DEF CallOK, Refused
    <3> QED
      BY <2>1, <3>2 DEF Working
  <2>2. ASSUME NEW c \in Clients, mcpCalls[c].at = "command", StopOnError(mcpCalls[c])
        PROVE  \A i \in 1..Len(mcpCalls[c].outcomes) - 1 : mcpCalls[c].outcomes[i]
    <3>1. Working(mcpCalls[c])
      BY <1>1, <2>2, BusyIs DEF InHands
    <3> QED
      BY <2>2, <3>1 DEF Working, Commanding
  <2> QED
    BY <2>1, <2>2 DEF NothingMoreIsDone, LateItemsDoNotAct, BatchStopsAtFailure
<1> QED
  BY <1>1, McpInvariant, PTL

\* The answers of a body that is being worked on.
LEMMA WorkingIsExact ==
  ASSUME NEW call, Working(call)
  PROVE  LET items == call.body.items
             answers == call.answers
         IN  /\ \A i, j \in DOMAIN answers : i < j => answers[i].item < answers[j].item
             /\ \A i \in DOMAIN answers :
                   LET item == items[answers[i].item]
                   IN  IF item.valid THEN HasId(item) /\ answers[i].id = item.id
                       ELSE answers[i].id \in {"null", item.id}
             /\ call.at = "answer" =>
                   \A k \in DOMAIN items :
                       NeedsAnswer(items[k]) => \E i \in DOMAIN answers : answers[i].item = k
             /\ \A i \in DOMAIN answers :
                   answers[i].verdict \notin {"invalid", "parseError"} =>
                      (answers[i].verdict = "timeout" <=>
                          call.late # 0 /\ answers[i].item >= call.late)
<1> DEFINE items == call.body.items
<1>1. /\ AnswersOf(call.answers, items, call.item, call.late)
      /\ call.at = "answer" => call.item > Len(items)
      /\ DOMAIN items = 1..Len(items) /\ Len(items) \in Nat /\ call.item \in Nat \ {0}
  BY WorkingHas DEF Working
<1> HIDE DEF items
<1>2. ASSUME call.at = "answer", NEW k \in DOMAIN items, NeedsAnswer(items[k])
      PROVE  \E i \in DOMAIN call.answers : call.answers[i].item = k
  <2>1. k \in 1..call.item - 1
    BY <1>1, <1>2
  <2> QED
    BY <1>1, <1>2, <2>1 DEF AnswersOf
<1> QED
  BY <1>1, <1>2 DEF AnswersOf, items

\* The answers of a body match its items and its deadline, whatever the items
\* are and whenever the deadline passes: in order, one at most for each, with
\* its id, one for every item that asks for one, a timeout exactly for those
\* that were not finished in time (HandleMCPBody, HandleMCPMethod).
THEOREM AnswersExact == McpSpec => []AnswersAreExact
<1>1. ASSUME McpInv PROVE AnswersAreExact
  <2>1. \A c \in Clients :
           mcpCalls[c] = AtRest \/ Refused(mcpCalls[c]) \/ Working(mcpCalls[c])
    BY <1>1 DEF McpInv, CallOK
  <2>2. \A call : Refused(call) =>
           /\ DOMAIN call.answers = {1} /\ call.answers[1].item = 0 /\ call.answers # <<>>
           /\ call.answers[1].verdict \in {"invalid", "parseError"}
    BY DEF Refused, Entry
  <2>3. ASSUME NEW c \in Clients
        PROVE LET call == mcpCalls[c]
                  items == call.body.items
                  answers == call.answers
              IN  /\ \A i, j \in DOMAIN answers : i < j => answers[i].item < answers[j].item
                  /\ \A i \in DOMAIN answers : answers[i].item # 0 =>
                        LET item == items[answers[i].item]
                        IN  IF item.valid THEN HasId(item) /\ answers[i].id = item.id
                            ELSE answers[i].id \in {"null", item.id}
                  /\ call.at = "answer" /\ (answers = <<>> \/ answers[1].item # 0) =>
                        \A k \in DOMAIN items :
                            NeedsAnswer(items[k]) => \E i \in DOMAIN answers : answers[i].item = k
    <3>1. CASE mcpCalls[c] = AtRest
      BY <3>1, AtRestIs
    <3>2. CASE Refused(mcpCalls[c])
      <4> DEFINE answers == mcpCalls[c].answers
      <4>1. DOMAIN answers = {1} /\ answers[1].item = 0 /\ answers # <<>>
        BY <2>2, <3>2
      <4> HIDE DEF answers
      <4>2. (\A i \in DOMAIN answers : answers[i].item = 0) /\ ~(answers[1].item # 0)
        BY <4>1
      <4>3. \A i, j \in DOMAIN answers : ~(i < j)
        BY <4>1
      <4> QED
        BY <4>1, <4>2, <4>3 DEF answers
    <3>3. CASE Working(mcpCalls[c])
      BY <3>3, WorkingIsExact
    <3> QED
      BY <2>1, <3>1, <3>2, <3>3
  <2>4. ASSUME NEW c \in Clients, NEW i \in DOMAIN mcpCalls[c].answers,
               mcpCalls[c].answers[i].verdict \notin {"invalid", "parseError"}
        PROVE  mcpCalls[c].answers[i].verdict = "timeout"
                 <=> mcpCalls[c].late # 0 /\ mcpCalls[c].answers[i].item >= mcpCalls[c].late
    <3>1. CASE mcpCalls[c] = AtRest
      BY <2>4, <3>1, AtRestIs
    <3>2. CASE Refused(mcpCalls[c])
      BY <2>2, <2>4, <3>2
    <3>3. CASE Working(mcpCalls[c])
      BY <2>4, <3>3, WorkingIsExact
    <3> QED
      BY <2>1, <3>1, <3>2, <3>3
  <2>5. AnswersMatchRequests
    BY <2>3 DEF AnswersMatchRequests
  <2>6. DeadlineDividesAnswers
    BY <2>4 DEF DeadlineDividesAnswers
  <2> QED
    BY <2>5, <2>6 DEF AnswersAreExact
<1> QED
  BY <1>1, McpInvariant, PTL

-----------------------------------------------------------------------------
(* The tables of tools and handlers fit each other.                        *)

\* Methods that share a table of handlers.
FamilyOf(method) ==
  IF method \in {"debug.get_state", "debug.run", "debug.pause", "debug.step_into",
                 "debug.step_over", "debug.step_out", "debug.restart", "debug.stop",
                 "debug.run_to", "debug.init", "debug.attach_pid"} THEN "debug"
  ELSE IF method \in {"register.get", "register.set", "register.list", "register.get_batch"}
  THEN "register"
  ELSE IF method \in {"memory.enumerate", "memory.get_info", "memory.free", "memory.read",
                      "memory.write", "memory.search", "memory.allocate"} THEN "memory"
  ELSE IF method \in {"breakpoint.list", "breakpoint.delete", "breakpoint.enable",
                      "breakpoint.disable", "breakpoint.set", "breakpoint.delete_all",
                      "breakpoint.reset_hitcount", "breakpoint.get", "breakpoint.toggle",
                      "breakpoint.set_condition", "breakpoint.set_log"} THEN "breakpoint"
  ELSE IF method \in {"disassembly.at", "disassembly.function", "disassembly.range"}
  THEN "disassembly"
  ELSE IF method \in {"symbol.resolve", "symbol.from_address", "symbol.search", "symbol.list",
                      "symbol.modules", "symbol.get_comment", "symbol.set_label",
                      "symbol.set_comment", "module.list", "module.get_main", "module.get",
                      "module.get_exports", "module.get_imports", "eval.expression", "xref.get",
                      "function.get", "function.list"} THEN "symbol"
  ELSE IF method \in {"stack.get_trace", "stack.get_pointers", "stack.read_frame",
                      "stack.is_on_stack"} THEN "stack"
  ELSE IF method \in {"thread.list", "thread.get_current", "thread.get_count", "thread.get",
                      "thread.switch", "thread.suspend", "thread.resume"} THEN "thread"
  ELSE IF method \in {"dump.module", "dump.memory_region", "dump.detect_oep",
                      "dump.analyze_module", "dump.get_dumpable_regions"} THEN "dump"
  ELSE IF method \in {"assembler.assemble"} THEN "assembler"
  ELSE IF method \in {"bookmark.set", "bookmark.delete", "bookmark.list"} THEN "bookmark"
  ELSE IF method \in {"patch.list", "patch.restore"} THEN "patch"
  ELSE IF method \in {"script.execute", "script.execute_batch", "script.get_last_result"}
  THEN "script"
  ELSE IF method \in {"context.get_snapshot", "context.get_basic", "context.compare_snapshots"}
  THEN "context"
  ELSE IF method \in {"system.info", "system.methods", "system.ping"} THEN "system"
  ELSE "none"

\* The types of a tool's parameters leave sensible values to them.
Typed(t) ==
  \A p \in t.required \cup t.optional : p[1] \in AddressParameters \cup {"value"} => p[2] = "string"

\* A sensible value of a parameter meets a demand of a handler.
Supplies(p, d) == p[1] = d[1] /\ \A v : Sensible(p, v) => v \in Takes[d[2]]
Supplied(t, h) == \A d \in h.demands : \E p \in t.required : Supplies(p, d)

\* What is to be shown of each family.
Fit(family, tools, handlers) ==
  /\ \A t \in tools : FamilyOf(t.method) = family /\ Typed(t)
  /\ \A h \in handlers : FamilyOf(h.method) = family
  /\ \A t, u \in tools : t.method = u.method => t = u
  /\ \A t \in tools : \E h \in handlers : h.method = t.method
  /\ \A t \in tools, h \in handlers : h.method = t.method => Supplied(t, h)

LEMMA Suppliers ==
  /\ \A name \in {"address", "start", "end"} :
        Supplies(<<name, "string">>, <<name, "address">>)
  /\ \A name \in {"name", "data", "pattern", "condition", "log_text", "symbol", "label", "comment",
                  "output_path", "expression", "instruction", "command"} :
        Supplies(<<name, "string">>, <<name, "string">>)
  /\ \A name \in {"pid", "thread_id"} : Supplies(<<name, "integer">>, <<name, "uint32">>)
  /\ \A name \in {"names", "commands"} : Supplies(<<name, "array">>, <<name, "array">>)
  /\ Supplies(<<"size", "integer">>, <<"size", "size">>)
  /\ Supplies(<<"value", "string">>, <<"value", "value">>)
  /\ Supplies(<<"module", "string">>, <<"module", "name">>)
  /\ \A name \in {"snapshot1", "snapshot2"} : Supplies(<<name, "object">>, <<name, "any">>)
<1> USE DEF Supplies, Sensible, Takes, OfType, AddressParameters
<1>1. \A name \in {"address", "start", "end"} :
        Supplies(<<name, "string">>, <<name, "address">>)
  BY DEF FitsAddress
<1>2. \A name \in {"name", "data", "pattern", "condition", "log_text", "symbol", "label", "comment",
                  "output_path", "expression", "instruction", "command"} :
        Supplies(<<name, "string">>, <<name, "string">>)
  BY DEF Strings
<1>3. \A name \in {"pid", "thread_id"} : Supplies(<<name, "integer">>, <<name, "uint32">>)
  OBVIOUS
<1>4. \A name \in {"names", "commands"} : Supplies(<<name, "array">>, <<name, "array">>)
  OBVIOUS
<1>5. Supplies(<<"size", "integer">>, <<"size", "size">>)
  BY DEF Integrals
<1>6. Supplies(<<"value", "string">>, <<"value", "value">>)
  OBVIOUS
<1>7. Supplies(<<"module", "string">>, <<"module", "name">>)
  BY DEF Strings, NameOrAddress
<1>8. \A name \in {"snapshot1", "snapshot2"} : Supplies(<<name, "object">>, <<name, "any">>)
  BY DEF Values
<1> QED
  BY <1>1, <1>2, <1>3, <1>4, <1>5, <1>6, <1>7, <1>8

LEMMA AnsweringIs ==
  ASSUME NEW methods, NEW demands
  PROVE  /\ \A h \in Answering(methods, demands) : h.method \in methods /\ h.demands = demands
         /\ \A m \in methods : \E h \in Answering(methods, demands) : h.method = m
<1>1. \A m : /\ Handler(m, demands, {}, "nothing").method = m
             /\ Handler(m, demands, {}, "nothing").demands = demands
  BY DEF Handler
<1> QED
  BY <1>1 DEF Answering

LEMMA ChangingHas ==
  ASSUME NEW methods, NEW demands, NEW rights, NEW change
  PROVE  /\ \A h \in Changing(methods, demands, rights, change) :
               h.method \in methods /\ h.demands = demands
         /\ \A m \in methods : \E h \in Changing(methods, demands, rights, change) : h.method = m
<1>1. \A m : /\ Handler(m, demands, rights, change).method = m
             /\ Handler(m, demands, rights, change).demands = demands
  BY DEF Handler
<1> QED
  BY <1>1 DEF Changing

LEMMA ToolIs ==
  /\ \A method, required, optional :
        LET t == Tool(method, required, optional)
        IN  t.method = method /\ t.required = required /\ t.optional = optional
  /\ \A methods : \A t \in Bare(methods) :
        t.method \in methods /\ t.required = {} /\ t.optional = {}
  /\ \A methods, required : \A t \in Requiring(methods, required) :
        t.method \in methods /\ t.required = required /\ t.optional = {}
<1>1. \A method, required, optional :
        LET t == Tool(method, required, optional)
        IN  t.method = method /\ t.required = required /\ t.optional = optional
  BY DEF Tool
<1> QED
  BY <1>1 DEF Bare, Requiring

LEMMA DebugFits == Fit("debug", DebugTools, ExecutionHandlers \cup SessionHandlers)
<1> DEFINE handlers == ExecutionHandlers \cup SessionHandlers
<1>1. \A t \in DebugTools : FamilyOf(t.method) = "debug" /\ Typed(t)
  BY DEF DebugTools, Bare, Requiring, Tool, anAddress, FamilyOf, Typed, AddressParameters
<1>2. \A t, u \in DebugTools : t.method = u.method => t = u
  BY DEF DebugTools, Bare, Requiring, Tool, anAddress
<1>3. \A h \in handlers : FamilyOf(h.method) = "debug"
  BY AnsweringIs, ChangingHas DEF ExecutionHandlers, SessionHandlers, address, FamilyOf
<1>4. \A t \in DebugTools : \E h \in handlers : h.method = t.method
  BY AnsweringIs, ChangingHas
     DEF DebugTools, Bare, Requiring, Tool, anAddress, ExecutionHandlers, SessionHandlers,
         address
<1>5. \A t \in DebugTools :
         /\ t.method = "debug.run_to" => {<<"address", "string">>} \subseteq t.required
         /\ t.method = "debug.attach_pid" => {<<"pid", "integer">>} \subseteq t.required
  BY DEF DebugTools, Bare, Requiring, Tool, anAddress
<1>6. \A h \in handlers :
         \/ h.demands = {}
         \/ h.method = "debug.run_to" /\ h.demands = {<<"address", "address">>}
         \/ h.method = "debug.attach_pid" /\ h.demands = {<<"pid", "uint32">>}
  BY AnsweringIs, ChangingHas DEF ExecutionHandlers, SessionHandlers, address
<1> HIDE DEF handlers
<1>7. \A t \in DebugTools, h \in handlers : h.method = t.method => Supplied(t, h)
  BY <1>5, <1>6, Suppliers DEF Supplied
<1> QED
  BY <1>1, <1>2, <1>3, <1>4, <1>7 DEF Fit, handlers

LEMMA RegisterFits == Fit("register", RegisterTools, RegisterHandlers)
<1>1. \A t \in RegisterTools : FamilyOf(t.method) = "register" /\ Typed(t)
  BY DEF RegisterTools, Tool, FamilyOf, Typed, AddressParameters
<1>2. \A t, u \in RegisterTools : t.method = u.method => t = u
  BY DEF RegisterTools, Tool
<1>3. \A h \in RegisterHandlers : FamilyOf(h.method) = "register"
  BY AnsweringIs, ChangingHas DEF RegisterHandlers, FamilyOf
<1>4. \A t \in RegisterTools : \E h \in RegisterHandlers : h.method = t.method
  BY AnsweringIs, ChangingHas DEF RegisterTools, Tool, RegisterHandlers
<1>5. \A t \in RegisterTools :
         /\ t.method = "register.get" => {<<"name", "string">>} \subseteq t.required
         /\ t.method = "register.get_batch" => {<<"names", "array">>} \subseteq t.required
         /\ t.method = "register.set" =>
               {<<"name", "string">>, <<"value", "string">>} \subseteq t.required
  BY DEF RegisterTools, Tool
<1>6. \A h \in RegisterHandlers :
         \/ h.demands = {}
         \/ h.method = "register.get" /\ h.demands = {<<"name", "string">>}
         \/ h.method = "register.get_batch" /\ h.demands = {<<"names", "array">>}
         \/ h.method = "register.set" /\ h.demands = {<<"name", "string">>, <<"value", "value">>}
  BY AnsweringIs, ChangingHas DEF RegisterHandlers
<1>7. \A t \in RegisterTools, h \in RegisterHandlers : h.method = t.method => Supplied(t, h)
  BY <1>5, <1>6, Suppliers DEF Supplied
<1> QED
  BY <1>1, <1>2, <1>3, <1>4, <1>7 DEF Fit

LEMMA MemoryFits == Fit("memory", MemoryTools, MemoryHandlers)
<1>1. \A t \in MemoryTools : FamilyOf(t.method) = "memory" /\ Typed(t)
  BY DEF MemoryTools, Bare, Requiring, Tool, anAddress, FamilyOf, Typed, AddressParameters
<1>2. \A t, u \in MemoryTools : t.method = u.method => t = u
  BY DEF MemoryTools, Bare, Requiring, Tool, anAddress
<1>3. \A h \in MemoryHandlers : FamilyOf(h.method) = "memory"
  BY AnsweringIs, ChangingHas DEF MemoryHandlers, address, FamilyOf
<1>4. \A t \in MemoryTools : \E h \in MemoryHandlers : h.method = t.method
  BY AnsweringIs, ChangingHas
     DEF MemoryTools, Bare, Requiring, Tool, anAddress, MemoryHandlers, address
<1>5. \A t \in MemoryTools :
         /\ t.method \in {"memory.get_info", "memory.free"} =>
               {<<"address", "string">>} \subseteq t.required
         /\ t.method = "memory.read" =>
               {<<"address", "string">>, <<"size", "integer">>} \subseteq t.required
         /\ t.method = "memory.write" =>
               {<<"address", "string">>, <<"data", "string">>} \subseteq t.required
         /\ t.method = "memory.search" => {<<"pattern", "string">>} \subseteq t.required
         /\ t.method = "memory.allocate" => {<<"size", "integer">>} \subseteq t.required
  BY DEF MemoryTools, Bare, Requiring, Tool, anAddress
<1>6. \A h \in MemoryHandlers :
         \/ h.demands = {}
         \/ /\ h.method \in {"memory.get_info", "memory.free"}
            /\ h.demands = {<<"address", "address">>}
         \/ h.method = "memory.read" /\ h.demands = {<<"address", "address">>, <<"size", "size">>}
         \/ /\ h.method = "memory.write"
            /\ h.demands = {<<"address", "address">>, <<"data", "string">>}
         \/ h.method = "memory.search" /\ h.demands = {<<"pattern", "string">>}
         \/ h.method = "memory.allocate" /\ h.demands = {<<"size", "size">>}
  BY AnsweringIs, ChangingHas DEF MemoryHandlers, address
<1>7. \A t \in MemoryTools, h \in MemoryHandlers : h.method = t.method => Supplied(t, h)
  BY <1>5, <1>6, Suppliers DEF Supplied
<1> QED
  BY <1>1, <1>2, <1>3, <1>4, <1>7 DEF Fit

LEMMA BreakpointFits == Fit("breakpoint", BreakpointTools \cup ExtendedBreakpointTools,
  BreakpointHandlers)
<1> DEFINE tools == BreakpointTools \cup ExtendedBreakpointTools
<1>1. \A t \in tools : FamilyOf(t.method) = "breakpoint" /\ Typed(t)
  BY DEF BreakpointTools, ExtendedBreakpointTools, Bare, Requiring, Tool, anAddress, aType,
         FamilyOf, Typed, AddressParameters
<1>2. \A t, u \in tools : t.method = u.method => t = u
  BY DEF BreakpointTools, ExtendedBreakpointTools, Bare, Requiring, Tool, anAddress, aType
<1>3. \A h \in BreakpointHandlers : FamilyOf(h.method) = "breakpoint"
  BY AnsweringIs, ChangingHas DEF BreakpointHandlers, address, FamilyOf
<1>4. \A t \in tools : \E h \in BreakpointHandlers : h.method = t.method
  BY AnsweringIs, ChangingHas
     DEF BreakpointTools, ExtendedBreakpointTools, Bare, Requiring, Tool, anAddress, aType,
         BreakpointHandlers, address
<1>5. \A t \in tools :
         /\ t.method \in {"breakpoint.get", "breakpoint.set", "breakpoint.delete",
                           "breakpoint.enable", "breakpoint.disable",
                           "breakpoint.toggle", "breakpoint.reset_hitcount"} =>
               {<<"address", "string">>} \subseteq t.required
         /\ t.method = "breakpoint.set_condition" =>
               {<<"address", "string">>, <<"condition", "string">>} \subseteq t.required
         /\ t.method = "breakpoint.set_log" =>
               {<<"address", "string">>, <<"log_text", "string">>} \subseteq t.required
  BY DEF BreakpointTools, ExtendedBreakpointTools, Bare, Requiring, Tool, anAddress, aType
<1>6. \A h \in BreakpointHandlers :
         \/ h.demands = {}
         \/ /\ h.method \in {"breakpoint.get", "breakpoint.set", "breakpoint.delete",
                              "breakpoint.enable", "breakpoint.disable",
                              "breakpoint.toggle", "breakpoint.reset_hitcount"}
            /\ h.demands = {<<"address", "address">>}
         \/ /\ h.method = "breakpoint.set_condition"
            /\ h.demands = {<<"address", "address">>, <<"condition", "string">>}
         \/ /\ h.method = "breakpoint.set_log"
            /\ h.demands = {<<"address", "address">>, <<"log_text", "string">>}
  BY AnsweringIs, ChangingHas DEF BreakpointHandlers, address
<1> HIDE DEF tools
<1>7. \A t \in tools, h \in BreakpointHandlers : h.method = t.method => Supplied(t, h)
  BY <1>5, <1>6, Suppliers DEF Supplied
<1> QED
  BY <1>1, <1>2, <1>3, <1>4, <1>7 DEF Fit, tools

LEMMA DisassemblyFits == Fit("disassembly", DisassemblyTools \cup ExtendedDisassemblyTools,
  DisassemblyHandlers)
<1> DEFINE tools == DisassemblyTools \cup ExtendedDisassemblyTools
<1>1. \A t \in tools : FamilyOf(t.method) = "disassembly" /\ Typed(t)
  BY DEF DisassemblyTools, ExtendedDisassemblyTools, Tool, anAddress, FamilyOf, Typed,
         AddressParameters
<1>2. \A t, u \in tools : t.method = u.method => t = u
  BY DEF DisassemblyTools, ExtendedDisassemblyTools, Tool, anAddress
<1>3. \A h \in DisassemblyHandlers : FamilyOf(h.method) = "disassembly"
  BY AnsweringIs, ChangingHas DEF DisassemblyHandlers, address, FamilyOf
<1>4. \A t \in tools : \E h \in DisassemblyHandlers : h.method = t.method
  BY AnsweringIs, ChangingHas
     DEF DisassemblyTools, ExtendedDisassemblyTools, Tool, anAddress, DisassemblyHandlers,
         address
<1>5. \A t \in tools :
         /\ t.method \in {"disassembly.at", "disassembly.function"} =>
               {<<"address", "string">>} \subseteq t.required
         /\ t.method = "disassembly.range" =>
               {<<"start", "string">>, <<"end", "string">>} \subseteq t.required
  BY DEF DisassemblyTools, ExtendedDisassemblyTools, Tool, anAddress
<1>6. \A h \in DisassemblyHandlers :
         \/ h.demands = {}
         \/ /\ h.method \in {"disassembly.at", "disassembly.function"}
            /\ h.demands = {<<"address", "address">>}
         \/ /\ h.method = "disassembly.range"
            /\ h.demands = {<<"start", "address">>, <<"end", "address">>}
  BY AnsweringIs, ChangingHas DEF DisassemblyHandlers, address
<1> HIDE DEF tools
<1>7. \A t \in tools, h \in DisassemblyHandlers : h.method = t.method => Supplied(t, h)
  BY <1>5, <1>6, Suppliers DEF Supplied
<1> QED
  BY <1>1, <1>2, <1>3, <1>4, <1>7 DEF Fit, tools

LEMMA SymbolFits ==
  Fit("symbol",
      SymbolTools \cup ExtendedSymbolTools \cup ExtendedModuleTools \cup AnalysisTools,
      SymbolQueries \cup SymbolNotes \cup ModuleLookups \cup ModuleTables
          \cup ExpressionHandlers \cup AnalysisHandlers)
<1> DEFINE tools == SymbolTools \cup ExtendedSymbolTools
                    \cup ExtendedModuleTools \cup AnalysisTools
           handlers == SymbolQueries \cup SymbolNotes \cup ModuleLookups
                       \cup ModuleTables \cup ExpressionHandlers \cup AnalysisHandlers
<1>1. \A t \in tools : FamilyOf(t.method) = "symbol" /\ Typed(t)
  BY DEF SymbolTools, ExtendedSymbolTools, ExtendedModuleTools, AnalysisTools, Bare, Requiring,
         Tool, anAddress, aModule, FamilyOf, Typed, AddressParameters
<1>2. \A t, u \in tools : t.method = u.method => t = u
  BY DEF SymbolTools, ExtendedSymbolTools, ExtendedModuleTools, AnalysisTools, Bare, Requiring,
         Tool, anAddress, aModule
<1>3. \A h \in handlers : FamilyOf(h.method) = "symbol"
  BY AnsweringIs, ChangingHas
     DEF SymbolQueries, SymbolNotes, ModuleLookups, ModuleTables, ExpressionHandlers,
         AnalysisHandlers, address, module, FamilyOf
<1>4. \A t \in tools : \E h \in handlers : h.method = t.method
  BY AnsweringIs, ChangingHas
     DEF SymbolTools, ExtendedSymbolTools, ExtendedModuleTools, AnalysisTools, Bare, Requiring,
         Tool, anAddress, aModule, SymbolQueries, SymbolNotes, ModuleLookups, ModuleTables,
         ExpressionHandlers, AnalysisHandlers, address, module
<1>5. \A t \in tools :
         /\ t.method \in {"symbol.from_address", "symbol.get_comment", "xref.get",
                           "function.get"} =>
               {<<"address", "string">>} \subseteq t.required
         /\ t.method = "symbol.resolve" => {<<"symbol", "string">>} \subseteq t.required
         /\ t.method = "symbol.search" => {<<"pattern", "string">>} \subseteq t.required
         /\ t.method = "symbol.set_label" =>
               {<<"address", "string">>, <<"label", "string">>} \subseteq t.required
         /\ t.method = "symbol.set_comment" =>
               {<<"address", "string">>, <<"comment", "string">>} \subseteq t.required
         /\ t.method \in {"module.get", "module.get_exports", "module.get_imports"} =>
               {<<"module", "string">>} \subseteq t.required
         /\ t.method = "eval.expression" => {<<"expression", "string">>} \subseteq t.required
  BY DEF SymbolTools, ExtendedSymbolTools, ExtendedModuleTools, AnalysisTools, Bare, Requiring,
         Tool, anAddress, aModule
<1>6. \A h \in handlers :
         \/ h.demands = {}
         \/ /\ h.method \in {"symbol.from_address", "symbol.get_comment", "xref.get",
                              "function.get"}
            /\ h.demands = {<<"address", "address">>}
         \/ h.method = "symbol.resolve" /\ h.demands = {<<"symbol", "string">>}
         \/ h.method = "symbol.search" /\ h.demands = {<<"pattern", "string">>}
         \/ /\ h.method = "symbol.set_label"
            /\ h.demands = {<<"address", "address">>, <<"label", "string">>}
         \/ /\ h.method = "symbol.set_comment"
            /\ h.demands = {<<"address", "address">>, <<"comment", "string">>}
         \/ /\ h.method \in {"module.get", "module.get_exports", "module.get_imports"}
            /\ h.demands = {<<"module", "name">>}
         \/ h.method = "eval.expression" /\ h.demands = {<<"expression", "string">>}
  BY AnsweringIs, ChangingHas
     DEF SymbolQueries, SymbolNotes, ModuleLookups, ModuleTables, ExpressionHandlers,
         AnalysisHandlers, address, module
<1> HIDE DEF tools, handlers
<1>7. \A t \in tools, h \in handlers : h.method = t.method => Supplied(t, h)
  BY <1>5, <1>6, Suppliers DEF Supplied
<1> QED
  BY <1>1, <1>2, <1>3, <1>4, <1>7 DEF Fit, tools, handlers

LEMMA StackFits == Fit("stack", StackTools, StackHandlers)
<1>1. \A t \in StackTools : FamilyOf(t.method) = "stack" /\ Typed(t)
  BY DEF StackTools, Bare, Requiring, Tool, anAddress, FamilyOf, Typed, AddressParameters
<1>2. \A t, u \in StackTools : t.method = u.method => t = u
  BY DEF StackTools, Bare, Requiring, Tool, anAddress
<1>3. \A h \in StackHandlers : FamilyOf(h.method) = "stack"
  BY AnsweringIs, ChangingHas DEF StackHandlers, address, FamilyOf
<1>4. \A t \in StackTools : \E h \in StackHandlers : h.method = t.method
  BY AnsweringIs, ChangingHas
     DEF StackTools, Bare, Requiring, Tool, anAddress, StackHandlers, address
<1>5. \A t \in StackTools :
         /\ t.method = "stack.is_on_stack" => {<<"address", "string">>} \subseteq t.required
         /\ t.method = "stack.read_frame" =>
               {<<"address", "string">>, <<"size", "integer">>} \subseteq t.required
  BY DEF StackTools, Bare, Requiring, Tool, anAddress
<1>6. \A h \in StackHandlers :
         \/ h.demands = {}
         \/ h.method = "stack.is_on_stack" /\ h.demands = {<<"address", "address">>}
         \/ /\ h.method = "stack.read_frame"
            /\ h.demands = {<<"address", "address">>, <<"size", "size">>}
  BY AnsweringIs, ChangingHas DEF StackHandlers, address
<1>7. \A t \in StackTools, h \in StackHandlers : h.method = t.method => Supplied(t, h)
  BY <1>5, <1>6, Suppliers DEF Supplied
<1> QED
  BY <1>1, <1>2, <1>3, <1>4, <1>7 DEF Fit

LEMMA ThreadFits == Fit("thread", ThreadTools \cup ExtendedThreadTools, ThreadHandlers)
<1> DEFINE tools == ThreadTools \cup ExtendedThreadTools
<1>1. \A t \in tools : FamilyOf(t.method) = "thread" /\ Typed(t)
  BY DEF ThreadTools, ExtendedThreadTools, Bare, Requiring, Tool, aThread, FamilyOf, Typed,
         AddressParameters
<1>2. \A t, u \in tools : t.method = u.method => t = u
  BY DEF ThreadTools, ExtendedThreadTools, Bare, Requiring, Tool, aThread
<1>3. \A h \in ThreadHandlers : FamilyOf(h.method) = "thread"
  BY AnsweringIs, ChangingHas DEF ThreadHandlers, thread, FamilyOf
<1>4. \A t \in tools : \E h \in ThreadHandlers : h.method = t.method
  BY AnsweringIs, ChangingHas
     DEF ThreadTools, ExtendedThreadTools, Bare, Requiring, Tool, aThread, ThreadHandlers,
         thread
<1>5. \A t \in tools :
         t.method \in {"thread.get", "thread.switch", "thread.suspend", "thread.resume"} =>
               {<<"thread_id", "integer">>} \subseteq t.required
  BY DEF ThreadTools, ExtendedThreadTools, Bare, Requiring, Tool, aThread
<1>6. \A h \in ThreadHandlers :
         \/ h.demands = {}
         \/ /\ h.method \in {"thread.get", "thread.switch", "thread.suspend", "thread.resume"}
            /\ h.demands = {<<"thread_id", "uint32">>}
  BY AnsweringIs, ChangingHas DEF ThreadHandlers, thread
<1> HIDE DEF tools
<1>7. \A t \in tools, h \in ThreadHandlers : h.method = t.method => Supplied(t, h)
  BY <1>5, <1>6, Suppliers DEF Supplied
<1> QED
  BY <1>1, <1>2, <1>3, <1>4, <1>7 DEF Fit, tools

LEMMA DumpFits == Fit("dump", DumpTools, DumpHandlers)
<1>1. \A t \in DumpTools : FamilyOf(t.method) = "dump" /\ Typed(t)
  BY DEF DumpTools, Tool, anAddress, aModule, aPath, FamilyOf, Typed, AddressParameters
<1>2. \A t, u \in DumpTools : t.method = u.method => t = u
  <2> DEFINE aDump == Tool("dump.module", aModule \cup aPath,
                {<<"oep", "string">>}
                \cup {<<f, "boolean">> : f \in {"rebuild_pe", "remove_integrity_check",
                                                "auto_detect_oep", "dump_full_image"}})
             region == Tool("dump.memory_region", anAddress \cup aPath \cup {<<"size", "integer">>},
                            {<<"as_raw_binary", "boolean">>})
             analyze == Tool("dump.analyze_module", {}, aModule)
             detect == Tool("dump.detect_oep", aModule, {})
             regions == Tool("dump.get_dumpable_regions", {}, {<<"module_base", "string">>})
  <2>1. DumpTools = {aDump, region, analyze, detect, regions}
    BY DEF DumpTools
  <2>2. /\ aDump.method = "dump.module" /\ region.method = "dump.memory_region"
        /\ analyze.method = "dump.analyze_module" /\ detect.method = "dump.detect_oep"
        /\ regions.method = "dump.get_dumpable_regions"
    BY ToolIs
  <2> HIDE DEF aDump, region, analyze, detect, regions
  <2> QED
    BY <2>1, <2>2
<1>3. \A h \in DumpHandlers : FamilyOf(h.method) = "dump"
  BY AnsweringIs, ChangingHas DEF DumpHandlers, address, module, path, FamilyOf
<1>4. \A t \in DumpTools : \E h \in DumpHandlers : h.method = t.method
  BY AnsweringIs, ChangingHas
     DEF DumpTools, Tool, anAddress, aModule, aPath, DumpHandlers, address, module, path
<1>5. \A t \in DumpTools :
         /\ t.method = "dump.module" =>
               {<<"module", "string">>, <<"output_path", "string">>} \subseteq t.required
         /\ t.method = "dump.memory_region" =>
               {<<"address", "string">>, <<"output_path", "string">>, <<"size", "integer">>}
                  \subseteq t.required
         /\ t.method = "dump.detect_oep" => {<<"module", "string">>} \subseteq t.required
  BY DEF DumpTools, Tool, anAddress, aModule, aPath
<1>6. \A h \in DumpHandlers :
         \/ h.demands = {}
         \/ /\ h.method = "dump.module"
            /\ h.demands = {<<"module", "name">>, <<"output_path", "string">>}
         \/ /\ h.method = "dump.memory_region"
            /\ h.demands = {<<"address", "address">>, <<"output_path", "string">>,
                             <<"size", "size">>}
         \/ h.method = "dump.detect_oep" /\ h.demands = {<<"module", "name">>}
  BY AnsweringIs, ChangingHas DEF DumpHandlers, address, module, path
<1>7. \A t \in DumpTools, h \in DumpHandlers : h.method = t.method => Supplied(t, h)
  BY <1>5, <1>6, Suppliers DEF Supplied
<1> QED
  BY <1>1, <1>2, <1>3, <1>4, <1>7 DEF Fit

LEMMA AssemblerFits == Fit("assembler", AssemblerTools, AssemblerHandlers)
<1>1. \A t \in AssemblerTools : FamilyOf(t.method) = "assembler" /\ Typed(t)
  BY DEF AssemblerTools, Tool, anAddress, FamilyOf, Typed, AddressParameters
<1>2. \A t, u \in AssemblerTools : t.method = u.method => t = u
  BY DEF AssemblerTools, Tool, anAddress
<1>3. \A h \in AssemblerHandlers : FamilyOf(h.method) = "assembler"
  BY AnsweringIs, ChangingHas DEF AssemblerHandlers, address, Handler, FamilyOf
<1>4. \A t \in AssemblerTools : \E h \in AssemblerHandlers : h.method = t.method
  BY AnsweringIs, ChangingHas
     DEF AssemblerTools, Tool, anAddress, AssemblerHandlers, address, Handler
<1>5. \A t \in AssemblerTools :
         t.method = "assembler.assemble" =>
               {<<"address", "string">>, <<"instruction", "string">>} \subseteq t.required
  BY DEF AssemblerTools, Tool, anAddress
<1>6. \A h \in AssemblerHandlers :
         \/ h.demands = {}
         \/ /\ h.method = "assembler.assemble"
            /\ h.demands = {<<"address", "address">>, <<"instruction", "string">>}
  BY AnsweringIs, ChangingHas DEF AssemblerHandlers, address, Handler
<1>7. \A t \in AssemblerTools, h \in AssemblerHandlers : h.method = t.method => Supplied(t, h)
  BY <1>5, <1>6, Suppliers DEF Supplied
<1> QED
  BY <1>1, <1>2, <1>3, <1>4, <1>7 DEF Fit

LEMMA BookmarkFits == Fit("bookmark", BookmarkTools, BookmarkHandlers)
<1>1. \A t \in BookmarkTools : FamilyOf(t.method) = "bookmark" /\ Typed(t)
  BY DEF BookmarkTools, Bare, Requiring, Tool, anAddress, FamilyOf, Typed, AddressParameters
<1>2. \A t, u \in BookmarkTools : t.method = u.method => t = u
  BY DEF BookmarkTools, Bare, Requiring, Tool, anAddress
<1>3. \A h \in BookmarkHandlers : FamilyOf(h.method) = "bookmark"
  BY AnsweringIs, ChangingHas DEF BookmarkHandlers, address, FamilyOf
<1>4. \A t \in BookmarkTools : \E h \in BookmarkHandlers : h.method = t.method
  BY AnsweringIs, ChangingHas
     DEF BookmarkTools, Bare, Requiring, Tool, anAddress, BookmarkHandlers, address
<1>5. \A t \in BookmarkTools :
         t.method \in {"bookmark.set", "bookmark.delete"} =>
               {<<"address", "string">>} \subseteq t.required
  BY DEF BookmarkTools, Bare, Requiring, Tool, anAddress
<1>6. \A h \in BookmarkHandlers :
         \/ h.demands = {}
         \/ /\ h.method \in {"bookmark.set", "bookmark.delete"}
            /\ h.demands = {<<"address", "address">>}
  BY AnsweringIs, ChangingHas DEF BookmarkHandlers, address
<1>7. \A t \in BookmarkTools, h \in BookmarkHandlers : h.method = t.method => Supplied(t, h)
  BY <1>5, <1>6, Suppliers DEF Supplied
<1> QED
  BY <1>1, <1>2, <1>3, <1>4, <1>7 DEF Fit

LEMMA PatchFits == Fit("patch", PatchTools, PatchHandlers)
<1>1. \A t \in PatchTools : FamilyOf(t.method) = "patch" /\ Typed(t)
  BY DEF PatchTools, Bare, Requiring, Tool, anAddress, FamilyOf, Typed, AddressParameters
<1>2. \A t, u \in PatchTools : t.method = u.method => t = u
  BY DEF PatchTools, Bare, Requiring, Tool, anAddress
<1>3. \A h \in PatchHandlers : FamilyOf(h.method) = "patch"
  BY AnsweringIs, ChangingHas DEF PatchHandlers, address, FamilyOf
<1>4. \A t \in PatchTools : \E h \in PatchHandlers : h.method = t.method
  BY AnsweringIs, ChangingHas
     DEF PatchTools, Bare, Requiring, Tool, anAddress, PatchHandlers, address
<1>5. \A t \in PatchTools :
         t.method = "patch.restore" => {<<"address", "string">>} \subseteq t.required
  BY DEF PatchTools, Bare, Requiring, Tool, anAddress
<1>6. \A h \in PatchHandlers :
         \/ h.demands = {}
         \/ h.method = "patch.restore" /\ h.demands = {<<"address", "address">>}
  BY AnsweringIs, ChangingHas DEF PatchHandlers, address
<1>7. \A t \in PatchTools, h \in PatchHandlers : h.method = t.method => Supplied(t, h)
  BY <1>5, <1>6, Suppliers DEF Supplied
<1> QED
  BY <1>1, <1>2, <1>3, <1>4, <1>7 DEF Fit

LEMMA ScriptFits == Fit("script", ScriptTools, ScriptHandlers)
<1>1. \A t \in ScriptTools : FamilyOf(t.method) = "script" /\ Typed(t)
  BY DEF ScriptTools, Bare, Tool, FamilyOf, Typed, AddressParameters
<1>2. \A t, u \in ScriptTools : t.method = u.method => t = u
  BY DEF ScriptTools, Bare, Tool
<1>3. \A h \in ScriptHandlers : FamilyOf(h.method) = "script"
  BY AnsweringIs, ChangingHas DEF ScriptHandlers, FamilyOf
<1>4. \A t \in ScriptTools : \E h \in ScriptHandlers : h.method = t.method
  BY AnsweringIs, ChangingHas DEF ScriptTools, Bare, Tool, ScriptHandlers
<1>5. \A t \in ScriptTools :
         /\ t.method = "script.execute" => {<<"command", "string">>} \subseteq t.required
         /\ t.method = "script.execute_batch" => {<<"commands", "array">>} \subseteq t.required
  BY DEF ScriptTools, Bare, Tool
<1>6. \A h \in ScriptHandlers :
         \/ h.demands = {}
         \/ h.method = "script.execute" /\ h.demands = {<<"command", "string">>}
         \/ h.method = "script.execute_batch" /\ h.demands = {<<"commands", "array">>}
  BY AnsweringIs, ChangingHas DEF ScriptHandlers
<1>7. \A t \in ScriptTools, h \in ScriptHandlers : h.method = t.method => Supplied(t, h)
  BY <1>5, <1>6, Suppliers DEF Supplied
<1> QED
  BY <1>1, <1>2, <1>3, <1>4, <1>7 DEF Fit

LEMMA ContextFits == Fit("context", ContextTools, ContextHandlers)
<1>1. \A t \in ContextTools : FamilyOf(t.method) = "context" /\ Typed(t)
  BY DEF ContextTools, Bare, Tool, FamilyOf, Typed, AddressParameters
<1>2. \A t, u \in ContextTools : t.method = u.method => t = u
  BY DEF ContextTools, Bare, Tool
<1>3. \A h \in ContextHandlers : FamilyOf(h.method) = "context"
  BY AnsweringIs, ChangingHas DEF ContextHandlers, FamilyOf
<1>4. \A t \in ContextTools : \E h \in ContextHandlers : h.method = t.method
  BY AnsweringIs, ChangingHas DEF ContextTools, Bare, Tool, ContextHandlers
<1>5. \A t \in ContextTools :
         t.method = "context.compare_snapshots" =>
               {<<"snapshot1", "object">>, <<"snapshot2", "object">>} \subseteq t.required
  BY DEF ContextTools, Bare, Tool
<1>6. \A h \in ContextHandlers :
         \/ h.demands = {}
         \/ /\ h.method = "context.compare_snapshots"
            /\ h.demands = {<<"snapshot1", "any">>, <<"snapshot2", "any">>}
  BY AnsweringIs, ChangingHas DEF ContextHandlers
<1>7. \A t \in ContextTools, h \in ContextHandlers : h.method = t.method => Supplied(t, h)
  BY <1>5, <1>6, Suppliers DEF Supplied
<1> QED
  BY <1>1, <1>2, <1>3, <1>4, <1>7 DEF Fit

\* A family that no other tool and no other handler belongs to.
Closed(family, tools, handlers) ==
  /\ Fit(family, tools, handlers)
  /\ \A t \in Tools : FamilyOf(t.method) = family => t \in tools
  /\ \A h \in RegisteredMethods : FamilyOf(h.method) = family => h \in handlers
  /\ handlers \subseteq RegisteredMethods

LEMMA FamiliesAreClosed ==
  /\ Closed("debug", DebugTools, ExecutionHandlers \cup SessionHandlers)
  /\ Closed("register", RegisterTools, RegisterHandlers)
  /\ Closed("memory", MemoryTools, MemoryHandlers)
  /\ Closed("breakpoint", BreakpointTools \cup ExtendedBreakpointTools, BreakpointHandlers)
  /\ Closed("disassembly", DisassemblyTools \cup ExtendedDisassemblyTools, DisassemblyHandlers)
  /\ Closed("symbol",
            SymbolTools \cup ExtendedSymbolTools \cup ExtendedModuleTools \cup AnalysisTools,
            SymbolQueries \cup SymbolNotes \cup ModuleLookups \cup ModuleTables
               \cup ExpressionHandlers \cup AnalysisHandlers)
  /\ Closed("stack", StackTools, StackHandlers)
  /\ Closed("thread", ThreadTools \cup ExtendedThreadTools, ThreadHandlers)
  /\ Closed("dump", DumpTools, DumpHandlers)
  /\ Closed("assembler", AssemblerTools, AssemblerHandlers)
  /\ Closed("bookmark", BookmarkTools, BookmarkHandlers)
  /\ Closed("patch", PatchTools, PatchHandlers)
  /\ Closed("script", ScriptTools, ScriptHandlers)
  /\ Closed("context", ContextTools, ContextHandlers)
<1>1. \A h \in SystemHandlers : FamilyOf(h.method) = "system"
  BY AnsweringIs DEF SystemHandlers, FamilyOf
<1>2. \A t \in Tools :
         /\ FamilyOf(t.method) = "debug" => t \in DebugTools
         /\ FamilyOf(t.method) = "register" => t \in RegisterTools
         /\ FamilyOf(t.method) = "memory" => t \in MemoryTools
         /\ FamilyOf(t.method) = "breakpoint" => t \in BreakpointTools \cup ExtendedBreakpointTools
         /\ FamilyOf(t.method) = "disassembly"
               => t \in DisassemblyTools \cup ExtendedDisassemblyTools
         /\ FamilyOf(t.method) = "symbol"
               => t \in SymbolTools \cup ExtendedSymbolTools \cup ExtendedModuleTools
                          \cup AnalysisTools
         /\ FamilyOf(t.method) = "stack" => t \in StackTools
         /\ FamilyOf(t.method) = "thread" => t \in ThreadTools \cup ExtendedThreadTools
         /\ FamilyOf(t.method) = "dump" => t \in DumpTools
         /\ FamilyOf(t.method) = "assembler" => t \in AssemblerTools
         /\ FamilyOf(t.method) = "bookmark" => t \in BookmarkTools
         /\ FamilyOf(t.method) = "patch" => t \in PatchTools
         /\ FamilyOf(t.method) = "script" => t \in ScriptTools
         /\ FamilyOf(t.method) = "context" => t \in ContextTools
  BY DebugFits, RegisterFits, MemoryFits, BreakpointFits, DisassemblyFits, SymbolFits, StackFits,
     ThreadFits, DumpFits, AssemblerFits, BookmarkFits, PatchFits, ScriptFits, ContextFits
     DEF Fit, Tools
<1>3. \A h \in RegisteredMethods :
         /\ FamilyOf(h.method) = "debug" => h \in ExecutionHandlers \cup SessionHandlers
         /\ FamilyOf(h.method) = "register" => h \in RegisterHandlers
         /\ FamilyOf(h.method) = "memory" => h \in MemoryHandlers
         /\ FamilyOf(h.method) = "breakpoint" => h \in BreakpointHandlers
         /\ FamilyOf(h.method) = "disassembly" => h \in DisassemblyHandlers
         /\ FamilyOf(h.method) = "symbol"
               => h \in SymbolQueries \cup SymbolNotes \cup ModuleLookups \cup ModuleTables
                          \cup ExpressionHandlers \cup AnalysisHandlers
         /\ FamilyOf(h.method) = "stack" => h \in StackHandlers
         /\ FamilyOf(h.method) = "thread" => h \in ThreadHandlers
         /\ FamilyOf(h.method) = "dump" => h \in DumpHandlers
         /\ FamilyOf(h.method) = "assembler" => h \in AssemblerHandlers
         /\ FamilyOf(h.method) = "bookmark" => h \in BookmarkHandlers
         /\ FamilyOf(h.method) = "patch" => h \in PatchHandlers
         /\ FamilyOf(h.method) = "script" => h \in ScriptHandlers
         /\ FamilyOf(h.method) = "context" => h \in ContextHandlers
  BY <1>1, DebugFits, RegisterFits, MemoryFits, BreakpointFits, DisassemblyFits, SymbolFits,
     StackFits, ThreadFits, DumpFits, AssemblerFits, BookmarkFits, PatchFits, ScriptFits,
     ContextFits DEF Fit, RegisteredMethods
<1>4. RegisteredMethods =
         SystemHandlers \cup (ExecutionHandlers \cup SessionHandlers) \cup RegisterHandlers
         \cup MemoryHandlers \cup BreakpointHandlers \cup DisassemblyHandlers
         \cup (SymbolQueries \cup SymbolNotes \cup ModuleLookups \cup ModuleTables
                  \cup ExpressionHandlers \cup AnalysisHandlers)
         \cup StackHandlers \cup ThreadHandlers \cup DumpHandlers \cup AssemblerHandlers
         \cup BookmarkHandlers \cup PatchHandlers \cup ScriptHandlers \cup ContextHandlers
  BY Zenon DEF RegisteredMethods
<1> QED
  BY <1>2, <1>3, <1>4, DebugFits, RegisterFits, MemoryFits, BreakpointFits, DisassemblyFits,
     SymbolFits, StackFits, ThreadFits, DumpFits, AssemblerFits, BookmarkFits, PatchFits,
     ScriptFits, ContextFits DEF Closed

LEMMA ClosedServes ==
  ASSUME NEW family, NEW tools, NEW handlers, Closed(family, tools, handlers),
         NEW t \in tools
  PROVE  /\ \A u \in Tools : u.method = t.method => u = t
         /\ Typed(t) /\ FamilyOf(t.method) = family
         /\ HandlersOf(t.method) # {} /\ \A h \in HandlersOf(t.method) : Supplied(t, h)
<1>1. FamilyOf(t.method) = family /\ Typed(t)
  BY DEF Closed, Fit
<1>2. \A u \in Tools : u.method = t.method => u = t
  BY <1>1 DEF Closed, Fit
<1>3. \A h \in HandlersOf(t.method) : h \in handlers /\ h.method = t.method
  BY <1>1 DEF Closed, HandlersOf
<1>4. PICK h \in handlers : h.method = t.method
  BY DEF Closed, Fit
<1>5. h \in HandlersOf(t.method)
  BY <1>4 DEF Closed, HandlersOf
<1> QED
  BY <1>1, <1>2, <1>3, <1>5 DEF Closed, Fit

\* A tool is the only one of its name, and every handler of its method takes
\* what sensible values it is called with.
LEMMA ToolsAreServed ==
  ASSUME NEW t \in Tools
  PROVE  /\ \A u \in Tools : u.method = t.method => u = t
         /\ Typed(t) /\ FamilyOf(t.method) # "none"
         /\ HandlersOf(t.method) # {} /\ \A h \in HandlersOf(t.method) : Supplied(t, h)
<1>1. \E family, tools, handlers :
         Closed(family, tools, handlers) /\ t \in tools /\ family # "none"
  <2>1. t \in DebugTools \cup RegisterTools \cup MemoryTools
                \cup (BreakpointTools \cup ExtendedBreakpointTools)
                \cup (DisassemblyTools \cup ExtendedDisassemblyTools)
                \cup (SymbolTools \cup ExtendedSymbolTools \cup ExtendedModuleTools
                         \cup AnalysisTools)
                \cup StackTools \cup (ThreadTools \cup ExtendedThreadTools) \cup DumpTools
                \cup AssemblerTools \cup BookmarkTools \cup PatchTools \cup ScriptTools
                \cup ContextTools
    BY DEF Tools
  <2> QED
    BY <2>1, FamiliesAreClosed, Zenon
<1> QED
  BY <1>1, ClosedServes

\* What a caller who reads the descriptions gives, the registry accepts and
\* the handler takes.
LEMMA SensibleCallFits ==
  ASSUME NEW t \in Tools, NEW args, SensibleCall(t, args)
  PROVE  /\ \A u \in Tools : u.method = t.method => ArgumentsFit(u, args)
         /\ HandlersOf(t.method) # {}
         /\ \A h \in HandlersOf(t.method) : DemandsMet(h, args)
<1>1. /\ \A u \in Tools : u.method = t.method => u = t
      /\ Typed(t)
      /\ HandlersOf(t.method) # {} /\ \A h \in HandlersOf(t.method) : Supplied(t, h)
  BY ToolsAreServed
<1>2. ArgumentsFit(t, args)
  <2> SUFFICES ASSUME NEW p \in t.required \cup t.optional, p[1] \in DOMAIN args
               PROVE  args[p[1]] \in OfType[p[2]]
    BY DEF SensibleCall, ArgumentsFit
  <2>1. Sensible(p, args[p[1]])
    BY DEF SensibleCall
  <2>2. CASE p[1] \in AddressParameters \cup {"value"}
    <3>1. p[2] = "string" /\ args[p[1]] = "address"
      BY <1>1, <2>1, <2>2 DEF Typed, Sensible
    <3> QED
      BY <3>1 DEF OfType, Strings
  <2>3. CASE p[1] \notin AddressParameters \cup {"value"} /\ p[2] = "integer"
    BY <2>1, <2>3 DEF Sensible, OfType, Integrals
  <2>4. CASE p[1] \notin AddressParameters \cup {"value"} /\ p[2] # "integer"
    BY <2>1, <2>4 DEF Sensible
  <2> QED
    BY <2>2, <2>3, <2>4
<1>3. ASSUME NEW h \in HandlersOf(t.method) PROVE DemandsMet(h, args)
  <2> SUFFICES ASSUME NEW d \in h.demands
               PROVE  d[1] \in DOMAIN args /\ args[d[1]] \in Takes[d[2]]
    BY DEF DemandsMet
  <2>1. PICK p \in t.required : Supplies(p, d)
    BY <1>1 DEF Supplied
  <2>2. p[1] \in DOMAIN args /\ Sensible(p, args[p[1]])
    BY DEF SensibleCall
  <2> QED
    BY <2>1, <2>2 DEF Supplies
<1> QED
  BY <1>1, <1>2, <1>3

TheResources == RegisteredResources \cup RegisteredTemplates

\* The text that belongs into a resource's URI.
TextFor(r) == IF r.taken = "address" THEN "address" ELSE "text"

LEMMA ResourceIs ==
  /\ \A uri, method :
        LET r == Resource(uri, method)
        IN  r.uri = uri /\ r.method = method /\ r.parameter = "none" /\ r.taken = "any"
  /\ \A uri, method, parameter, taken :
        LET r == Template(uri, method, parameter, taken)
        IN  r.uri = uri /\ r.method = method /\ r.parameter = parameter /\ r.taken = taken
  BY DEF Resource, Template

LEMMA ResourcesAreUnique ==
  \A r, s \in TheResources : r.uri = s.uri => r = s
<1>1. \A r, s \in RegisteredResources : r.uri = s.uri => r = s
  BY ResourceIs DEF RegisteredResources
<1>2. \A r, s \in RegisteredTemplates : r.uri = s.uri => r = s
  BY DEF RegisteredTemplates, Template
<1>3. \A r \in RegisteredResources, s \in RegisteredTemplates : r.uri # s.uri
  BY DEF RegisteredResources, RegisteredTemplates, Resource, Template
<1> QED
  BY <1>1, <1>2, <1>3 DEF TheResources

\* The handlers of a method ask for the same parameters, and there is one.
Demanding(method, demands, handlers) ==
  /\ \E h \in handlers : h.method = method
  /\ \A h \in handlers : h.method = method => h.demands = demands
Demands(method, demands) == Demanding(method, demands, RegisteredMethods)

LEMMA ClosedDemands ==
  ASSUME NEW family, NEW tools, NEW handlers, Closed(family, tools, handlers),
         NEW method, FamilyOf(method) = family,
         NEW demands, Demanding(method, demands, handlers)
  PROVE  Demands(method, demands)
  BY DEF Closed, Demands, Demanding

\* What the methods that read resources ask for.
LEMMA ReadersDemand ==
  /\ \A m \in {"debug.get_state", "register.list", "module.list", "thread.list",
               "memory.enumerate", "breakpoint.list", "stack.get_trace"} : Demands(m, {})
  /\ \A m \in {"disassembly.at", "disassembly.function", "breakpoint.get"} :
        Demands(m, {<<"address", "address">>})
  /\ \A m \in {"module.get", "module.get_exports", "module.get_imports"} :
        Demands(m, {<<"module", "name">>})
  /\ Demands("memory.read", {<<"address", "address">>, <<"size", "size">>})
  /\ Demands("symbol.resolve", {<<"symbol", "string">>})
<1> USE AnsweringIs, ChangingHas DEF Demanding
<1>1. Demanding("debug.get_state", {}, ExecutionHandlers \cup SessionHandlers)
  BY DEF ExecutionHandlers, SessionHandlers
<1>2. Demanding("register.list", {}, RegisterHandlers)
  BY DEF RegisterHandlers
<1>3. /\ Demanding("memory.enumerate", {}, MemoryHandlers)
      /\ Demanding("memory.read", {<<"address", "address">>, <<"size", "size">>}, MemoryHandlers)
  BY DEF MemoryHandlers, address
<1>4. /\ Demanding("breakpoint.list", {}, BreakpointHandlers)
      /\ Demanding("breakpoint.get", {<<"address", "address">>}, BreakpointHandlers)
  BY DEF BreakpointHandlers, address
<1>5. \A m \in {"disassembly.at", "disassembly.function"} :
         Demanding(m, {<<"address", "address">>}, DisassemblyHandlers)
  BY DEF DisassemblyHandlers, address
<1>6. LET handlers == SymbolQueries \cup SymbolNotes \cup ModuleLookups \cup ModuleTables
                         \cup ExpressionHandlers \cup AnalysisHandlers
      IN  /\ Demanding("module.list", {}, handlers)
          /\ Demanding("symbol.resolve", {<<"symbol", "string">>}, handlers)
          /\ \A m \in {"module.get", "module.get_exports", "module.get_imports"} :
                Demanding(m, {<<"module", "name">>}, handlers)
  BY DEF SymbolQueries, SymbolNotes, ModuleLookups, ModuleTables, ExpressionHandlers,
         AnalysisHandlers, module
<1>7. Demanding("thread.list", {}, ThreadHandlers)
  BY DEF ThreadHandlers
<1>8. Demanding("stack.get_trace", {}, StackHandlers)
  BY DEF StackHandlers
<1> HIDE DEF Demanding
<1>9. /\ FamilyOf("debug.get_state") = "debug" /\ FamilyOf("register.list") = "register"
      /\ \A m \in {"memory.enumerate", "memory.read"} : FamilyOf(m) = "memory"
      /\ \A m \in {"breakpoint.list", "breakpoint.get"} : FamilyOf(m) = "breakpoint"
      /\ \A m \in {"disassembly.at", "disassembly.function"} : FamilyOf(m) = "disassembly"
      /\ \A m \in {"module.list", "symbol.resolve", "module.get", "module.get_exports",
                   "module.get_imports"} : FamilyOf(m) = "symbol"
      /\ FamilyOf("thread.list") = "thread" /\ FamilyOf("stack.get_trace") = "stack"
  BY DEF FamilyOf
<1> HIDE AnsweringIs, ChangingHas
<1>10. /\ Demands("debug.get_state", {}) /\ Demands("register.list", {})
       /\ Demands("memory.enumerate", {}) /\ Demands("breakpoint.list", {})
       /\ Demands("thread.list", {}) /\ Demands("stack.get_trace", {})
  BY <1>1, <1>2, <1>3, <1>4, <1>7, <1>8, <1>9, FamiliesAreClosed, ClosedDemands
<1>11. Demands("memory.read", {<<"address", "address">>, <<"size", "size">>})
  BY <1>3, <1>9, FamiliesAreClosed, ClosedDemands
<1>12. \A m \in {"disassembly.at", "disassembly.function", "breakpoint.get"} :
          Demands(m, {<<"address", "address">>})
  BY <1>4, <1>5, <1>9, FamiliesAreClosed, ClosedDemands
<1>13. /\ Demands("module.list", {}) /\ Demands("symbol.resolve", {<<"symbol", "string">>})
       /\ \A m \in {"module.get", "module.get_exports", "module.get_imports"} :
             Demands(m, {<<"module", "name">>})
  BY <1>6, <1>9, FamiliesAreClosed, ClosedDemands
<1> QED
  BY <1>10, <1>11, <1>12, <1>13

LEMMA PlainResourceIs ==
  ASSUME NEW r \in RegisteredResources
  PROVE  /\ r.method \in {"debug.get_state", "register.list", "module.list", "thread.list",
                          "memory.enumerate", "breakpoint.list", "stack.get_trace"}
         /\ r.taken = "any" /\ r.uri # "missing"
  BY DEF RegisteredResources, Resource

LEMMA TemplateIs ==
  ASSUME NEW r \in RegisteredTemplates
  PROVE  /\ r.uri # "missing"
         /\ \/ r.method = "memory.read" /\ r.parameter = "address" /\ r.taken = "address"
            \/ /\ r.method \in {"disassembly.at", "disassembly.function", "breakpoint.get"}
               /\ r.parameter = "address" /\ r.taken = "address"
            \/ /\ r.method \in {"module.get", "module.get_exports", "module.get_imports"}
               /\ r.parameter = "module" /\ r.taken = "string"
            \/ r.method = "symbol.resolve" /\ r.parameter = "symbol" /\ r.taken = "string"
  BY DEF RegisteredTemplates, Template

\* What fits into the URI of a resource, its registry accepts and the handler
\* that reads it takes.
LEMMA ResourcesAreServed ==
  ASSUME NEW r \in TheResources
  PROVE  /\ \A s \in TheResources : s.uri = r.uri => s = r
         /\ r.uri # "missing" /\ TextFor(r) \in Takes[r.taken]
         /\ HandlersOf(r.method) # {}
         /\ \A h \in HandlersOf(r.method) : DemandsMet(h, Parameters(r, TextFor(r)))
<1> DEFINE args == Parameters(r, TextFor(r))
<1>1. \A s \in TheResources : s.uri = r.uri => s = r
  BY ResourcesAreUnique
<1>2. ASSUME NEW demands, Demands(r.method, demands),
             \A d \in demands : d[1] \in DOMAIN args /\ args[d[1]] \in Takes[d[2]]
      PROVE  /\ HandlersOf(r.method) # {}
             /\ \A h \in HandlersOf(r.method) : DemandsMet(h, args)
  BY <1>2 DEF Demands, Demanding, HandlersOf, DemandsMet
<1>3. CASE r \in RegisteredResources
  <2>1. Demands(r.method, {}) /\ r.taken = "any" /\ r.uri # "missing"
    BY <1>3, PlainResourceIs, ReadersDemand
  <2> QED
    BY <1>1, <1>2, <2>1 DEF TextFor, Takes, Values, Strings
<1>4. CASE r \in RegisteredTemplates
  <2>1. r.uri # "missing" /\ TextFor(r) \in Takes[r.taken]
    BY <1>4, TemplateIs DEF TextFor, Takes, Strings, FitsAddress
  <2>2. CASE r.method = "memory.read" /\ r.parameter = "address" /\ r.taken = "address"
    <3>1. /\ DOMAIN args = {"address", "size"} /\ args["address"] = "address"
          /\ args["size"] = "number"
      BY <2>2 DEF Parameters, TextFor
    <3> HIDE DEF args
    <3>2. \A d \in {<<"address", "address">>, <<"size", "size">>} :
             d[1] \in DOMAIN args /\ args[d[1]] \in Takes[d[2]]
      BY <3>1 DEF Takes, FitsAddress, Integrals
    <3> QED
      BY <1>1, <1>2, <2>1, <2>2, <3>2, ReadersDemand DEF args
  <2>3. CASE /\ r.method \in {"disassembly.at", "disassembly.function", "breakpoint.get"}
             /\ r.parameter = "address" /\ r.taken = "address"
    <3>1. "address" \in DOMAIN args /\ args["address"] = "address"
      BY <2>3 DEF Parameters, TextFor
    <3> HIDE DEF args
    <3>2. \A d \in {<<"address", "address">>} :
             d[1] \in DOMAIN args /\ args[d[1]] \in Takes[d[2]]
      BY <3>1 DEF Takes, FitsAddress
    <3> QED
      BY <1>1, <1>2, <2>1, <2>3, <3>2, ReadersDemand DEF args
  <2>4. CASE /\ r.method \in {"module.get", "module.get_exports", "module.get_imports"}
             /\ r.parameter = "module" /\ r.taken = "string"
    <3>1. "module" \in DOMAIN args /\ args["module"] = "text"
      BY <2>4 DEF Parameters, TextFor
    <3> HIDE DEF args
    <3>2. \A d \in {<<"module", "name">>} : d[1] \in DOMAIN args /\ args[d[1]] \in Takes[d[2]]
      BY <3>1 DEF Takes, NameOrAddress
    <3> QED
      BY <1>1, <1>2, <2>1, <2>4, <3>2, ReadersDemand DEF args
  <2>5. CASE r.method = "symbol.resolve" /\ r.parameter = "symbol" /\ r.taken = "string"
    <3>1. "symbol" \in DOMAIN args /\ args["symbol"] = "text"
      BY <2>5 DEF Parameters, TextFor
    <3> HIDE DEF args
    <3>2. \A d \in {<<"symbol", "string">>} : d[1] \in DOMAIN args /\ args[d[1]] \in Takes[d[2]]
      BY <3>1 DEF Takes, Strings
    <3> QED
      BY <1>1, <1>2, <2>1, <2>5, <3>2, ReadersDemand DEF args
  <2> QED
    BY <1>4, <2>2, <2>3, <2>4, <2>5, TemplateIs
<1> QED
  BY <1>3, <1>4 DEF TheResources

Listed(method) == \E t \in Tools : t.method = method

LEMMA ToolsAreListed ==
  \A m \in {"debug.get_state", "debug.step_over", "debug.step_into", "register.list",
            "disassembly.at", "disassembly.function", "stack.get_trace", "stack.read_frame",
            "memory.get_info", "memory.read", "memory.write", "memory.search",
            "symbol.from_address", "symbol.resolve", "symbol.search", "symbol.list",
            "module.list", "module.get_main", "dump.analyze_module", "dump.detect_oep",
            "dump.module", "breakpoint.set", "breakpoint.list", "breakpoint.set_log",
            "breakpoint.set_condition", "context.get_snapshot", "context.compare_snapshots",
            "thread.list"} : Listed(m)
<1>1. \A method, required, optional : Tool(method, required, optional).method = method
  BY DEF Tool
<1>2. /\ \A m \in {"debug.get_state", "debug.step_over", "debug.step_into"} :
            Tool(m, {}, {}) \in DebugTools
      /\ Tool("stack.get_trace", {}, {}) \in StackTools
      /\ Tool("module.list", {}, {}) \in SymbolTools
      /\ Tool("module.get_main", {}, {}) \in ExtendedModuleTools
      /\ Tool("breakpoint.list", {}, {}) \in BreakpointTools
      /\ Tool("thread.list", {}, {}) \in ThreadTools
  BY DEF DebugTools, StackTools, SymbolTools, ExtendedModuleTools, BreakpointTools, ThreadTools,
         Bare
<1>3. /\ Tool("memory.get_info", anAddress, {}) \in MemoryTools
      /\ Tool("symbol.from_address", anAddress, {}) \in SymbolTools
  BY DEF MemoryTools, SymbolTools, Requiring
<1>4. /\ \E t \in RegisterTools : t.method = "register.list"
      /\ \A m \in {"disassembly.at", "disassembly.function"} :
            \E t \in DisassemblyTools : t.method = m
      /\ \E t \in StackTools : t.method = "stack.read_frame"
  BY <1>1 DEF RegisterTools, DisassemblyTools, StackTools
<1>5. \A m \in {"memory.read", "memory.write", "memory.search"} :
         \E t \in MemoryTools : t.method = m
  BY <1>1 DEF MemoryTools
<1>6. /\ \A m \in {"symbol.resolve", "symbol.search"} : \E t \in SymbolTools : t.method = m
      /\ \E t \in ExtendedSymbolTools : t.method = "symbol.list"
  BY <1>1 DEF SymbolTools, ExtendedSymbolTools
<1>7. \A m \in {"dump.analyze_module", "dump.detect_oep", "dump.module"} :
         \E t \in DumpTools : t.method = m
  BY <1>1 DEF DumpTools
<1>8. /\ \E t \in BreakpointTools : t.method = "breakpoint.set"
      /\ \A m \in {"breakpoint.set_log", "breakpoint.set_condition"} :
            \E t \in ExtendedBreakpointTools : t.method = m
  BY <1>1 DEF BreakpointTools, ExtendedBreakpointTools
<1>9. \A m \in {"context.get_snapshot", "context.compare_snapshots"} :
         \E t \in ContextTools : t.method = m
  BY <1>1 DEF ContextTools
<1> QED
  BY <1>1, <1>2, <1>3, <1>4, <1>5, <1>6, <1>7, <1>8, <1>9 DEF Listed, Tools

LEMMA PromptIs ==
  \A name, required, optional, tools : Prompt(name, required, optional, tools).tools = tools
  BY DEF Prompt

\* Every tool that a prompt tells to use is listed.
LEMMA PromptsAreServed ==
  ASSUME NEW p \in Prompts PROVE p.tools \subseteq {t.method : t \in Tools}
<1>1. ASSUME p \in InvestigationPrompts PROVE \A m \in p.tools : Listed(m)
  BY <1>1, PromptIs, ToolsAreListed DEF InvestigationPrompts
<1>2. ASSUME p \in AnalysisPrompts PROVE \A m \in p.tools : Listed(m)
  BY <1>2, PromptIs, ToolsAreListed DEF AnalysisPrompts
<1>3. ASSUME p \in SessionPrompts PROVE \A m \in p.tools : Listed(m)
  BY <1>3, PromptIs, ToolsAreListed DEF SessionPrompts
<1> QED
  BY <1>1, <1>2, <1>3 DEF Prompts, Listed

-----------------------------------------------------------------------------
(* What the catalogue lists is served.                                     *)

\* The verdict on an item turns nothing away that the tables say is served.
Rightly(item, verdict) ==
  /\ item.method = "tools/call" /\ item.params.object =>
        \A t \in Tools :
            t.method = item.params.name /\ SensibleCall(t, item.params.args) =>
                verdict \notin {"noSuchTool", "unfit", "invalidParams", "unknownMethod"}
  /\ item.method = "resources/read" =>
        \A r \in TheResources :
            r.uri = item.params.name /\ item.params.args["text"] = TextFor(r) =>
                verdict \notin {"internalError", "invalidParams", "unknownMethod"}

ServedAnswers(call) ==
  \A i \in DOMAIN call.answers :
     LET answer == call.answers[i]
         item == call.body.items[answer.item]
     IN  answer.item # 0 /\ item.valid => Rightly(item, answer.verdict)

\* A method is called as its item asks.
Asked(call) ==
  LET item == call.body.items[call.item]
  IN  \/ /\ item.method = "tools/call"
         /\ call.method = item.params.name /\ call.args = item.params.args
      \/ /\ item.method = "resources/read"
         /\ \E r \in TheResources :
               /\ r.uri = item.params.name
               /\ call.method = r.method /\ call.args = Parameters(r, item.params.args["text"])

ServedCall(call) == ServedAnswers(call) /\ (call.at \in {"call", "run"} => Asked(call))
ServedInv == \A c \in Clients : ServedCall(mcpCalls[c])

\* Verdicts that turn nothing away, and items that the catalogue is not about.
Harmless == {"result", "noSuchMethod", "timeout", "denied", "refused", "failed", "othersOutput"}

LEMMA HarmlessIsRight ==
  ASSUME NEW item, NEW verdict,
         verdict \in Harmless \/ item.method \notin {"tools/call", "resources/read"}
  PROVE  Rightly(item, verdict)
  BY DEF Rightly, Harmless

LEMMA NothingIsMissing ==
  (\A t \in Tools : t.method # "missing") /\ (\A r \in TheResources : r.uri # "missing")
<1>1. FamilyOf("missing") = "none"
  BY DEF FamilyOf
<1> QED
  BY <1>1, ToolsAreServed, ResourcesAreServed

\* Whoever is refused as an unfit or unknown call was not called sensibly.
LEMMA RefusedRightly ==
  ASSUME NEW item, NEW verdict,
         \/ item.params.name = "missing"
         \/ /\ item.method = "tools/call"
            /\ \/ ~item.params.object
               \/ \A t \in Tools : t.method # item.params.name
               \/ \E t \in Tools :
                     t.method = item.params.name /\ ~ArgumentsFit(t, item.params.args)
         \/ /\ item.method = "resources/read"
            /\ \/ \A r \in TheResources : r.uri # item.params.name
               \/ \E r \in TheResources :
                     r.uri = item.params.name /\ item.params.args["text"] \notin Takes[r.taken]
  PROVE  Rightly(item, verdict)
<1>1. CASE item.params.name = "missing"
  BY <1>1, NothingIsMissing DEF Rightly
<1>2. ASSUME item.method = "tools/call", item.params.object,
             \/ \A t \in Tools : t.method # item.params.name
             \/ \E t \in Tools :
                   t.method = item.params.name /\ ~ArgumentsFit(t, item.params.args)
      PROVE  Rightly(item, verdict)
  <2>1. ASSUME NEW t \in Tools, t.method = item.params.name, SensibleCall(t, item.params.args)
        PROVE  FALSE
    BY <1>2, <2>1, SensibleCallFits
  <2> QED
    BY <1>2, <2>1 DEF Rightly
<1>3. ASSUME item.method = "resources/read",
             \/ \A r \in TheResources : r.uri # item.params.name
             \/ \E r \in TheResources :
                   r.uri = item.params.name /\ item.params.args["text"] \notin Takes[r.taken]
      PROVE  Rightly(item, verdict)
  <2>1. ASSUME NEW r \in TheResources, r.uri = item.params.name,
               item.params.args["text"] = TextFor(r)
        PROVE  FALSE
    BY <1>3, <2>1, ResourcesAreServed
  <2> QED
    BY <1>3, <2>1 DEF Rightly
<1>4. CASE item.method = "tools/call" /\ ~item.params.object
  BY <1>4 DEF Rightly
<1> QED
  BY <1>1, <1>2, <1>3, <1>4

LEMMA AnsweredServes ==
  ASSUME NEW call, DOMAIN call = CallFields, Working(call), call.item <= Len(call.body.items),
         ServedAnswers(call), NEW verdict, call.late # 0 \/ Rightly(Item(call), verdict)
  PROVE  ServedCall(Answered(call, verdict))
<1> DEFINE next == Answered(call, verdict)
           entry == Entry(call.item, Item(call).id, IF call.late # 0 THEN "timeout" ELSE verdict)
<1>1. /\ IsSequence(call.answers) /\ Item(call) = call.body.items[call.item]
  BY WorkingHas DEF Working, AnswersOf
<1>2. /\ next.at = "item" /\ next.body = call.body
      /\ next.answers = IF HasId(Item(call)) THEN Append(call.answers, entry) ELSE call.answers
  BY DEF Answered, CallFields
<1>3. entry.item = call.item /\ Rightly(Item(call), entry.verdict)
  BY HarmlessIsRight DEF Entry, Harmless
<1> HIDE DEF next, entry
<1>4. \A i \in DOMAIN next.answers :
         \/ i \in DOMAIN call.answers /\ next.answers[i] = call.answers[i]
         \/ next.answers[i] = entry
  BY <1>1, <1>2, AppendedIs
<1>5. ServedAnswers(next)
  BY <1>1, <1>2, <1>3, <1>4 DEF ServedAnswers
<1> QED
  BY <1>2, <1>5 DEF ServedCall, next

LEMMA AlikeServes ==
  ASSUME NEW call, ServedCall(call), NEW next, next.body = call.body, next.answers = call.answers,
         next.at \in {"call", "run"} =>
            /\ call.at \in {"call", "run"} /\ next.item = call.item
            /\ next.method = call.method /\ next.args = call.args
  PROVE  ServedCall(next)
  BY DEF ServedCall, ServedAnswers, Asked

LEMMA RejectedServes ==
  ASSUME NEW call, DOMAIN call = CallFields, call.at = "item", Working(call),
         call.item <= Len(call.body.items), ~Item(call).valid, ServedAnswers(call)
  PROVE  ServedCall(Rejected(call))
<1> DEFINE next == Rejected(call)
<1>1. IsSequence(call.answers) /\ Item(call) = call.body.items[call.item]
  BY WorkingHas DEF Working, AnswersOf
<1>2. PICK entry : entry.item = call.item /\ next.answers = Append(call.answers, entry)
  BY DEF Rejected, CallFields, Entry
<1>3. next.at = "item" /\ next.body = call.body
  BY DEF Rejected, CallFields
<1> HIDE DEF next
<1>4. \A i \in DOMAIN next.answers :
         \/ i \in DOMAIN call.answers /\ next.answers[i] = call.answers[i]
         \/ next.answers[i] = entry
  BY <1>1, <1>2, AppendedIs
<1>5. ServedAnswers(next)
  BY <1>1, <1>2, <1>3, <1>4 DEF ServedAnswers
<1> QED
  BY <1>3, <1>5 DEF ServedCall, next

LEMMA CallingServes ==
  ASSUME NEW call, DOMAIN call = CallFields, Working(call), call.item <= Len(call.body.items),
         ServedAnswers(call), NEW method, NEW args,
         LET item == Item(call)
         IN  \/ /\ item.method = "tools/call" /\ method = item.params.name
                /\ args = item.params.args
             \/ /\ item.method = "resources/read"
                /\ \E r \in TheResources :
                      /\ r.uri = item.params.name /\ method = r.method
                      /\ args = Parameters(r, item.params.args["text"])
  PROVE  ServedCall(Calling(call, method, args))
<1> DEFINE next == Calling(call, method, args)
<1>1. /\ next.at = "call" /\ next.body = call.body /\ next.item = call.item
      /\ next.answers = call.answers /\ next.method = method /\ next.args = args
  BY DEF CallFields, Calling
<1>2. Item(call) = call.body.items[call.item]
  BY WorkingHas
<1> HIDE DEF next
<1>3. Asked(next)
  BY <1>1, <1>2 DEF Asked
<1>4. ServedAnswers(next)
  BY <1>1 DEF ServedAnswers
<1> QED
  BY <1>3, <1>4 DEF ServedCall, next

LEMMA HandledServes ==
  ASSUME NEW call, DOMAIN call = CallFields, Working(call), call.at = "item",
         call.item <= Len(call.body.items), Item(call).valid, call.late = 0, ServedAnswers(call)
  PROVE  ServedCall(Handled(call))
<1> DEFINE item == Item(call)
<1>1. \A verdict : Rightly(item, verdict) => ServedCall(Answered(call, verdict))
  BY AnsweredServes
<1>2. item.params.given \/ item.params.name = "missing"
  <2>1. /\ call.body \in Bodies /\ item = call.body.items[call.item]
        /\ call.item \in DOMAIN call.body.items
    BY WorkingHas
  <2> QED
    BY <2>1, BodiesAssumption
<1>3. CASE item.method \in Lists
  <2>1. Handled(call) = Answered(call, "result")
    BY <1>3 DEF Handled
  <2> QED
    BY <1>1, <2>1, HarmlessIsRight DEF Harmless
<1>4. CASE item.method = "notifications/initialized"
  <2>1. Handled(call) = [call EXCEPT !.item = @ + 1]
    BY <1>4 DEF Handled, Handshake, Lists
  <2> DEFINE next == [call EXCEPT !.item = @ + 1]
  <2>2. next.body = call.body /\ next.answers = call.answers /\ next.at = "item"
    BY DEF CallFields
  <2> HIDE DEF next
  <2> QED
    BY <2>1, <2>2 DEF ServedCall, ServedAnswers, next
<1>5. CASE item.method = "tools/call" /\ item.params.given
  <2> DEFINE named == {t \in Tools : t.method = item.params.name}
  <2>1. Handled(call) = ToolCalled(call, item.params)
    BY <1>5 DEF Handled, Lists
  <2>2. CASE item.params.name = "missing" \/ ~item.params.object
    <3>1. Handled(call) = Answered(call, "invalidParams")
      BY <2>1, <2>2 DEF ToolCalled
    <3> QED
      BY <1>1, <1>5, <2>2, <3>1, RefusedRightly
  <2>3. CASE ~(item.params.name = "missing" \/ ~item.params.object) /\ named = {}
    <3>1. Handled(call) = Answered(call, "noSuchTool")
      BY <2>1, <2>3 DEF ToolCalled
    <3> QED
      BY <1>1, <1>5, <2>3, <3>1, RefusedRightly
  <2>4. CASE /\ ~(item.params.name = "missing" \/ ~item.params.object) /\ named # {}
             /\ \E t \in named : ~ArgumentsFit(t, item.params.args)
    <3>1. Handled(call) = Answered(call, "unfit")
      BY <2>1, <2>4 DEF ToolCalled
    <3> QED
      BY <1>1, <1>5, <2>4, <3>1, RefusedRightly
  <2>5. CASE /\ ~(item.params.name = "missing" \/ ~item.params.object) /\ named # {}
             /\ ~\E t \in named : ~ArgumentsFit(t, item.params.args)
    <3>1. Handled(call) = Calling(call, item.params.name, item.params.args)
      BY <2>1, <2>5 DEF ToolCalled, Calling
    <3> QED
      BY <1>5, <3>1, CallingServes
  <2> QED
    BY <2>2, <2>3, <2>4, <2>5
<1>6. CASE item.method = "resources/read" /\ item.params.given
  <2> DEFINE named == {r \in TheResources : r.uri = item.params.name}
             text == item.params.args["text"]
  <2>1. Handled(call) = ResourceRead(call, item.params)
    BY <1>6 DEF Handled, Lists
  <2>2. CASE item.params.name = "missing"
    <3>1. Handled(call) = Answered(call, "invalidParams")
      BY <2>1, <2>2 DEF ResourceRead
    <3> QED
      BY <1>1, <2>2, <3>1, RefusedRightly
  <2>3. CASE /\ item.params.name # "missing"
             /\ named = {} \/ \E r \in named : text \notin Takes[r.taken]
    <3>1. Handled(call) = Answered(call, "internalError")
      BY <2>1, <2>3 DEF ResourceRead, TheResources
    <3> QED
      BY <1>1, <1>6, <2>3, <3>1, RefusedRightly
  <2>4. CASE /\ item.params.name # "missing"
             /\ ~(named = {} \/ \E r \in named : text \notin Takes[r.taken])
    <3> DEFINE resource == CHOOSE r \in named : TRUE
    <3>1. Handled(call) = Calling(call, resource.method, Parameters(resource, text))
      BY <2>1, <2>4 DEF ResourceRead, TheResources, Calling
    <3>2. resource \in TheResources /\ resource.uri = item.params.name
      BY <2>4
    <3> HIDE DEF resource
    <3> QED
      BY <1>6, <3>1, <3>2, CallingServes
  <2> QED
    BY <2>2, <2>3, <2>4
<1>7. CASE item.method = "prompts/get" /\ item.params.given
  <2>1. Handled(call) = PromptGot(call, item.params)
    BY <1>7 DEF Handled, Lists
  <2>2. \E verdict : Handled(call) = Answered(call, verdict)
    BY <2>1 DEF PromptGot
  <2> QED
    BY <1>1, <1>7, <2>2, HarmlessIsRight
<1>8. CASE ~item.params.given /\ item.method \in {"tools/call", "resources/read", "prompts/get"}
  <2>1. Handled(call) = Answered(call, "invalidParams")
    BY <1>8 DEF Handled, Lists
  <2> QED
    BY <1>1, <1>2, <1>8, <2>1, RefusedRightly
<1>9. CASE item.method \notin Lists \cup {"notifications/initialized", "tools/call",
                                          "resources/read", "prompts/get"}
  <2>1. Handled(call) = Answered(call, "noSuchMethod")
    BY <1>9 DEF Handled
  <2> QED
    BY <1>1, <2>1, HarmlessIsRight DEF Harmless
<1> QED
  BY <1>3, <1>4, <1>5, <1>6, <1>7, <1>8, <1>9

LEMMA BecomesServes ==
  ASSUME McpInv, ServedInv, NEW c \in Clients, NEW next, Becomes(c, next), ServedCall(next)
  PROVE  ServedInv'
<1>1. \A d \in Clients : mcpCalls'[d] = IF d = c THEN next ELSE mcpCalls[d]
  BY DEF McpInv, Becomes
<1>2. \A d \in Clients : ServedCall(mcpCalls'[d])
  BY <1>1 DEF ServedInv
<1> QED
  BY <1>2 DEF ServedInv

LEMMA AnswerServes ==
  ASSUME McpInv, ServedInv, NEW c \in Clients, mcpCalls[c].at \in InHands, NEW verdict,
         Rightly(Item(mcpCalls[c]), verdict), Becomes(c, Answered(mcpCalls[c], verdict))
  PROVE  ServedInv'
<1>1. ServedCall(Answered(mcpCalls[c], verdict))
  BY BusyIs, AnsweredServes DEF ServedInv, ServedCall
<1> QED
  BY <1>1, BecomesServes

LEMMA HoldServes ==
  ASSUME McpInv, ServedInv, NEW c \in Clients, NEW next, Becomes(c, next),
         next.body = mcpCalls[c].body, next.answers = mcpCalls[c].answers,
         next.at \in {"call", "run"} =>
            /\ mcpCalls[c].at \in {"call", "run"} /\ next.item = mcpCalls[c].item
            /\ next.method = mcpCalls[c].method /\ next.args = mcpCalls[c].args
  PROVE  ServedInv'
<1>1. ServedCall(next)
  BY AlikeServes DEF ServedInv
<1> QED
  BY <1>1, BecomesServes

LEMMA TakeItemServes ==
  ASSUME McpInv, ServedInv, NEW c \in Clients, TakeItem(c) PROVE ServedInv'
<1> DEFINE call == [mcpCalls[c] EXCEPT !.rights = RightsOf(cfgTree), !.patterns = cfgPatterns,
                                       !.effect = "none"]
           last == [mcpCalls[c] EXCEPT !.at = "answer"]
<1>1. /\ call.at = "item"
      /\ Becomes(c, IF call.item > Len(call.body.items) THEN last
                    ELSE IF ~Item(call).valid THEN Rejected(call)
                    ELSE IF Skipped(call) THEN Answered(call, "timeout")
                    ELSE Handled(call))
  BY DEF TakeItem
<1>2. DOMAIN mcpCalls[c] = CallFields
  BY DEF McpInv, CallOK
<1>3. /\ DOMAIN call = CallFields
      /\ \A f \in CallFields \ {"rights", "patterns", "effect"} : call[f] = mcpCalls[c][f]
      /\ last.at = "answer" /\ last.body = mcpCalls[c].body /\ last.answers = mcpCalls[c].answers
  BY <1>2 DEF CallFields
<1> HIDE DEF call, last
<1>4. /\ call.at = mcpCalls[c].at /\ call.body = mcpCalls[c].body
      /\ call.item = mcpCalls[c].item /\ call.late = mcpCalls[c].late
      /\ call.answers = mcpCalls[c].answers /\ call.acted = mcpCalls[c].acted
  BY <1>3 DEF CallFields
<1>5. Working(mcpCalls[c])
  BY <1>1, <1>4, BusyIs
<1>6. Working(call) /\ ServedAnswers(call)
  BY <1>1, <1>4, <1>5 DEF Working, InHands, ServedInv, ServedCall, ServedAnswers
<1>7. call.item > Len(call.body.items) \/ call.item <= Len(call.body.items)
  BY <1>6, WorkingHas
<1>8. CASE call.item > Len(call.body.items)
  BY <1>1, <1>3, <1>8, HoldServes
<1>9. CASE ~(call.item > Len(call.body.items)) /\ ~Item(call).valid
  <2>1. ServedCall(Rejected(call))
    BY <1>1, <1>3, <1>6, <1>7, <1>9, RejectedServes
  <2> QED
    BY <1>1, <1>9, <2>1, BecomesServes
<1>10. CASE ~(call.item > Len(call.body.items)) /\ Item(call).valid
  <2>1. CASE Skipped(call)
    <3>1. ServedCall(Answered(call, "timeout"))
      BY <1>3, <1>6, <1>7, <1>10, <2>1, AnsweredServes DEF Skipped
    <3> QED
      BY <1>1, <1>10, <2>1, <3>1, BecomesServes
  <2>2. CASE ~Skipped(call)
    <3>1. ServedCall(Handled(call))
      BY <1>1, <1>3, <1>6, <1>7, <1>10, <2>2, HandledServes DEF Skipped
    <3> QED
      BY <1>1, <1>10, <2>2, <3>1, BecomesServes
  <2> QED
    BY <2>1, <2>2
<1> QED
  BY <1>8, <1>9, <1>10

\* A method that is called as its item asks has a handler that takes what
\* sensible values it was given.
LEMMA RunServes ==
  ASSUME McpInv, ServedInv, NEW c \in Clients, Run(c) PROVE ServedInv'
<1> DEFINE call == mcpCalls[c]
           item == Item(call)
           handler == CHOOSE h \in HandlersOf(call.method) : TRUE
<1>1. call.at = "run" /\ call.at \in InHands
  BY DEF Run, InHands
<1>2. /\ DOMAIN call = CallFields /\ Working(call) /\ Asked(call)
      /\ item = call.body.items[call.item]
  BY <1>1, BusyIs DEF ServedInv, ServedCall, Item
<1>3. \/ HandlersOf(call.method) = {} /\ Becomes(c, Answered(call, "unknownMethod"))
      \/ \E verdict \in Harmless : Becomes(c, Answered(call, verdict))
      \/ /\ HandlersOf(call.method) # {} /\ ~DemandsMet(handler, call.args)
         /\ Becomes(c, Answered(call, "invalidParams"))
      \/ Becomes(c, Begun(call))
  BY DEF Run, Harmless
<1>4. ASSUME NEW verdict, verdict \in {"unknownMethod", "invalidParams"},
             HandlersOf(call.method) = {} \/ ~DemandsMet(handler, call.args)
      PROVE  Rightly(item, verdict)
  <2>1. ASSUME HandlersOf(call.method) # {},
               \A h \in HandlersOf(call.method) : DemandsMet(h, call.args)
        PROVE  FALSE
    <3>1. handler \in HandlersOf(call.method)
      BY <2>1
    <3> QED
      BY <1>4, <2>1, <3>1
  <2>2. CASE /\ item.method = "tools/call"
             /\ call.method = item.params.name /\ call.args = item.params.args
    <3>1. ASSUME NEW t \in Tools, t.method = item.params.name, SensibleCall(t, item.params.args)
          PROVE  FALSE
      BY <2>1, <2>2, <3>1, SensibleCallFits
    <3> QED
      BY <2>2, <3>1 DEF Rightly
  <2>3. CASE /\ item.method = "resources/read"
             /\ \E r \in TheResources :
                   /\ r.uri = item.params.name
                   /\ call.method = r.method
                   /\ call.args = Parameters(r, item.params.args["text"])
    <3>1. PICK r \in TheResources :
             /\ r.uri = item.params.name
             /\ call.method = r.method /\ call.args = Parameters(r, item.params.args["text"])
      BY <2>3
    <3>2. ASSUME NEW s \in TheResources, s.uri = item.params.name,
                 item.params.args["text"] = TextFor(s)
          PROVE  FALSE
      <4>1. s = r
        BY <3>1, <3>2, ResourcesAreServed
      <4> QED
        BY <2>1, <3>1, <3>2, <4>1, ResourcesAreServed
    <3> QED
      BY <2>3, <3>2 DEF Rightly
  <2> QED
    BY <1>2, <2>2, <2>3 DEF Asked
<1>5. CASE HandlersOf(call.method) = {} /\ Becomes(c, Answered(call, "unknownMethod"))
  BY <1>1, <1>4, <1>5, AnswerServes
<1>6. CASE \E verdict \in Harmless : Becomes(c, Answered(call, verdict))
  BY <1>1, <1>6, HarmlessIsRight, AnswerServes
<1>7. CASE /\ ~DemandsMet(handler, call.args) /\ Becomes(c, Answered(call, "invalidParams"))
  BY <1>1, <1>4, <1>7, AnswerServes
<1>8. CASE Becomes(c, Begun(call))
  <2> DEFINE next == Begun(call)
  <2>1. /\ next.at \in {"section", "command", "act"}
        /\ next.body = call.body /\ next.answers = call.answers
    <3>1. \/ next = [call EXCEPT !.at = "section", !.sections = Sections(call.method, call.args)]
          \/ next = [call EXCEPT !.at = "command", !.outcomes = <<>>]
          \/ next = [call EXCEPT !.at = "act"]
      BY DEF Begun
    <3> HIDE DEF next
    <3> QED
      BY <1>2, <3>1 DEF CallFields
  <2> HIDE DEF next
  <2> QED
    BY <1>8, <2>1, HoldServes DEF next
<1> QED
  BY <1>3, <1>5, <1>6, <1>7, <1>8

LEMMA McpStepServes ==
  ASSUME McpInv, ServedInv, NEW c \in Clients, McpStep(c) PROVE ServedInv'
<1> DEFINE call == mcpCalls[c]
<1>0. DOMAIN call = CallFields
  BY DEF McpInv, CallOK
<1>1. CASE TakeItem(c)
  BY <1>1, TakeItemServes
<1>2. CASE Dispatch(c)
  <2> DEFINE next == [call EXCEPT !.at = "run"]
  <2>1. /\ call.at = "call" /\ call.at \in InHands
        /\ Becomes(c, next) \/ Becomes(c, Answered(call, "denied"))
    BY <1>2 DEF Dispatch, InHands
  <2>2. /\ next.body = call.body /\ next.answers = call.answers /\ next.item = call.item
        /\ next.method = call.method /\ next.args = call.args
    BY <1>0 DEF CallFields
  <2>3. ASSUME Becomes(c, next) PROVE ServedInv'
    <3> HIDE DEF next
    <3> QED
      BY <2>1, <2>2, <2>3, HoldServes
  <2> QED
    BY <2>1, <2>3, HarmlessIsRight, AnswerServes DEF Harmless
<1>3. CASE Run(c)
  BY <1>3, RunServes
<1>4. CASE Act(c)
  <2>1. PICK effect, acted :
           Becomes(c, [[call EXCEPT !.effect = effect, !.acted = acted] EXCEPT !.at = "done"])
    BY <1>4 DEF Act
  <2> DEFINE next == [[call EXCEPT !.effect = effect, !.acted = acted] EXCEPT !.at = "done"]
  <2>2. next.at = "done" /\ next.body = call.body /\ next.answers = call.answers
    BY <1>0 DEF CallFields
  <2> HIDE DEF next
  <2> QED
    BY <2>1, <2>2, HoldServes DEF next
<1>5. CASE Return(c) \/ ScriptReturns(c)
  <2>1. /\ call.at \in InHands
        /\ \E verdict \in Harmless : Becomes(c, Answered(call, verdict))
    BY <1>5 DEF Return, ScriptReturns, InHands, Harmless
  <2> QED
    BY <2>1, HarmlessIsRight, AnswerServes
<1>6. CASE Collect(c)
  <2>1. PICK next : /\ Becomes(c, next)
                    /\ \/ next = [call EXCEPT !.at = "done"]
                       \/ \E rest, at : /\ at \in {"done", "section"}
                                        /\ next = [call EXCEPT !.sections = rest, !.at = at]
    BY <1>6 DEF Collect
  <2>2. next.at \in {"done", "section"} /\ next.body = call.body /\ next.answers = call.answers
    BY <1>0, <2>1 DEF CallFields
  <2> QED
    BY <2>1, <2>2, HoldServes
<1>7. CASE Command(c)
  <2>1. PICK outcomes, acted :
           Becomes(c, [call EXCEPT !.outcomes = outcomes, !.effect = "commands",
                                   !.acted = acted]) /\ call.at = "command"
    BY <1>7 DEF Command
  <2> DEFINE next == [call EXCEPT !.outcomes = outcomes, !.effect = "commands", !.acted = acted]
  <2>2. next.at = "command" /\ next.body = call.body /\ next.answers = call.answers
    BY <1>0, <2>1 DEF CallFields
  <2> HIDE DEF next
  <2> QED
    BY <2>1, <2>2, HoldServes DEF next
<1>8. CASE Store(c)
  <2> DEFINE next == [call EXCEPT !.at = "stored"]
  <2>1. Becomes(c, next)
    BY <1>8 DEF Store
  <2>2. next.at = "stored" /\ next.body = call.body /\ next.answers = call.answers
    BY <1>0 DEF CallFields
  <2> HIDE DEF next
  <2> QED
    BY <2>1, <2>2, HoldServes
<1>9. CASE Respond(c)
  <2>1. ServedCall(AtRest)
    BY AtRestIs DEF ServedCall, ServedAnswers
  <2> QED
    BY <1>9, <2>1, BecomesServes DEF Respond
<1> QED
  BY <1>1, <1>2, <1>3, <1>4, <1>5, <1>6, <1>7, <1>8, <1>9 DEF McpStep

LEMMA ServedNext ==
  ASSUME McpInv, ServedInv,
         [(McpTraffic(Clients, Bodies) /\ UNCHANGED cfgVars) \/ SettingsChange]_<<mcpVars, cfgVars>>
  PROVE  ServedInv'
<1>1. ASSUME NEW c \in Clients, NEW body \in Bodies, Receive(c, body) PROVE ServedInv'
  <2> DEFINE next == Received(body)
  <2>1. Becomes(c, next)
    BY <1>1 DEF Receive
  <2>2. /\ next.at \in {"item", "answer"}
        /\ \/ next.answers = <<>>
           \/ next.answers = <<Entry(0, "null", "parseError")>>
           \/ next.answers = <<Entry(0, "null", "invalid")>>
    BY AtRestIs DEF Received, CallFields
  <2> HIDE DEF next
  <2>3. \A i \in DOMAIN next.answers : next.answers[i].item = 0
    BY <2>2 DEF Entry
  <2> QED
    BY <2>1, <2>2, <2>3, BecomesServes DEF ServedCall, ServedAnswers
<1>2. ASSUME NEW c \in Clients, DeadlinePasses(c) PROVE ServedInv'
  <2> DEFINE call == mcpCalls[c]
             next == [call EXCEPT !.late = call.item]
  <2>1. Becomes(c, next)
    BY <1>2 DEF DeadlinePasses
  <2>2. /\ next.at = call.at /\ next.body = call.body /\ next.answers = call.answers
        /\ next.item = call.item /\ next.method = call.method /\ next.args = call.args
    BY DEF McpInv, CallOK, CallFields
  <2> HIDE DEF next
  <2> QED
    BY <2>1, <2>2, HoldServes
<1>3. CASE McpTraffic(Clients, Bodies)
  BY <1>1, <1>2, <1>3, McpStepServes DEF McpTraffic
<1>4. CASE SettingsChange
  <2>1. ASSUME NEW c \in Clients
        PROVE  LET call == mcpCalls[c]
                   next == mcpCalls'[c]
               IN  /\ next.at = call.at /\ next.body = call.body /\ next.answers = call.answers
                   /\ next.item = call.item /\ next.method = call.method /\ next.args = call.args
    <3>1. DOMAIN mcpCalls[c] = CallFields
      BY DEF McpInv, CallOK
    <3>2. mcpCalls'[c] = IF mcpCalls[c].at = "idle" THEN mcpCalls[c]
                         ELSE [mcpCalls[c] EXCEPT !.rights = @ \cup RightsOf(cfgTree'),
                                                  !.patterns = @ \cup cfgPatterns']
      BY <1>4 DEF SettingsChange
    <3> QED
      BY <3>1, <3>2 DEF CallFields
  <2>2. \A c \in Clients : ServedCall(mcpCalls'[c])
    BY <2>1, AlikeServes DEF ServedInv
  <2> QED
    BY <2>2 DEF ServedInv
<1>5. CASE UNCHANGED <<mcpVars, cfgVars>>
  BY <1>5 DEF mcpVars, ServedInv
<1> QED
  BY <1>3, <1>4, <1>5

\* The tables of tools, handlers, resources and prompts fit each other: no
\* call of a listed tool and no read of a listed resource with sensible values
\* meets a method that is not registered or a handler that cannot take its
\* parameters, whatever the settings, and no prompt names a tool that is not
\* listed (MCPToolRegistry, MCPResourceRegistry, MCPPromptRegistry, the
\* handlers' registrations).
THEOREM CatalogueServed == McpSpec => []CatalogueIsServed
<1>1. McpInit => ServedInv
  BY AtRestIs DEF McpInit, ServedInv, ServedCall, ServedAnswers
<1>2. McpInv /\ ServedInv
      /\ [(McpTraffic(Clients, Bodies) /\ UNCHANGED cfgVars)
          \/ SettingsChange]_<<mcpVars, cfgVars>> => ServedInv'
  BY ServedNext
<1>3. ServedInv => CatalogueIsServed
  <2>1. PromptsNameListedTools
    BY PromptsAreServed DEF PromptsNameListedTools
  <2>2. ASSUME ServedInv PROVE ListedIsServed
    BY <2>2 DEF ServedInv, ServedCall, ServedAnswers, Rightly, ListedIsServed, TextFor,
                TheResources
  <2> QED
    BY <2>1, <2>2 DEF CatalogueIsServed
<1> QED
  BY <1>1, <1>2, <1>3, McpInvariant, PTL DEF McpSpec
=============================================================================
