---------------------------- MODULE UtilityProofs ----------------------------
(***************************************************************************)
(* What the program's utilities promise.  The log and its backup keep the  *)
(* newest lines and stay within the limit, for all sizes of lines, limits  *)
(* and changes of the settings; and each conversion of StringUtils.h agrees *)
(* with its meaning, for texts of every length.                             *)
(*                                                                         *)
(* What is computed along a text is proved by induction over its length:   *)
(* the numbers with the property are a set that holds 0 and the successor  *)
(* of each of its members.  A number such as 2047 is written as a set with *)
(* a name, because Zenon counts up to it.                                  *)
(***************************************************************************)
EXTENDS LogFiles, Texts, WellFoundedInduction, SequenceTheorems, TLAPS

LEMMA AllNumbers ==
  ASSUME NEW S \in SUBSET Nat, 0 \in S, \A n \in S : n + 1 \in S
  PROVE  S = Nat
<1>1. SUFFICES ASSUME Nat \ S # {} PROVE FALSE
  OBVIOUS
<1>2. PICK n \in Nat \ S : \A m \in Nat \ S : ~(<<m, n>> \in OpToRel(<, Nat))
  BY <1>1, NatLessThanWellFounded, WFMin
<1>3. \A m \in Nat \ S : ~(m < n)
  BY <1>2 DEF OpToRel
<1>4. n \in Nat /\ n \notin S /\ n # 0
  OBVIOUS
<1>5. n - 1 \in Nat /\ n - 1 < n
  BY <1>4
<1>6. n - 1 \in S
  BY <1>3, <1>5
<1>7. (n - 1) + 1 \in S
  BY <1>6
<1> QED
  BY <1>4, <1>7

-----------------------------------------------------------------------------
(* The bytes of lines of the log.                                          *)

Lines == [id : Nat, size : Nat]

\* The sizes of the first lines, added up.
Adds(f, n, lines) ==
  /\ f = [i \in 0..n |-> f[i]]
  /\ \A i \in 0..n : f[i] = IF i = 0 THEN 0 ELSE f[i - 1] + lines[i].size

LEMMA AddsOneByOne ==
  ASSUME NEW f, NEW n \in Nat, NEW lines, Adds(f, n, lines)
  PROVE  f[0] = 0 /\ \A i \in 1..n : f[i] = f[i - 1] + lines[i].size
<1>1. \A i \in 0..n : f[i] = IF i = 0 THEN 0 ELSE f[i - 1] + lines[i].size
  BY DEF Adds
<1>2. 0 \in 0..n /\ \A i \in 1..n : i \in 0..n /\ i # 0
  OBVIOUS
<1> QED
  BY <1>1, <1>2

LEMMA SumsExist == ASSUME NEW lines, NEW n \in Nat PROVE \E f : Adds(f, n, lines)
<1> DEFINE S == {m \in Nat : \E f : Adds(f, m, lines)}
<1>1. 0 \in S
  <2> DEFINE f == [i \in 0..0 |-> 0]
  <2>1. f = [i \in 0..0 |-> f[i]] /\ \A i \in 0..0 : i = 0 /\ f[i] = 0
    OBVIOUS
  <2> HIDE DEF f
  <2>2. Adds(f, 0, lines)
    BY <2>1 DEF Adds
  <2> QED
    BY <2>2
<1>2. ASSUME NEW m \in S PROVE m + 1 \in S
  <2>1. m \in Nat
    OBVIOUS
  <2>2. PICK f : Adds(f, m, lines)
    OBVIOUS
  <2> DEFINE g == [i \in 0..m + 1 |-> IF i = m + 1 THEN f[m] + lines[i].size ELSE f[i]]
  <2>3. g = [i \in 0..m + 1 |-> g[i]]
    OBVIOUS
  <2>4. ASSUME NEW i \in 0..m + 1
        PROVE  g[i] = IF i = 0 THEN 0 ELSE g[i - 1] + lines[i].size
    <3>1. CASE i = m + 1
      BY <2>1, <3>1
    <3>2. CASE i = 0
      BY <2>1, <2>2, <3>2, AddsOneByOne
    <3>3. CASE i \in 1..m
      <4>1. g[i] = f[i] /\ g[i - 1] = f[i - 1]
        BY <2>1, <3>3
      <4>2. f[i] = f[i - 1] + lines[i].size
        BY <2>1, <2>2, <3>3, AddsOneByOne
      <4> QED
        BY <3>3, <4>1, <4>2
    <3> QED
      BY <2>1, <3>1, <3>2, <3>3
  <2> HIDE DEF g
  <2>5. Adds(g, m + 1, lines)
    BY <2>3, <2>4 DEF Adds
  <2> QED
    BY <2>1, <2>5
<1> HIDE DEF S
<1>3. S \in SUBSET Nat
  BY DEF S
<1>4. S = Nat
  BY <1>1, <1>2, <1>3, AllNumbers
<1> QED
  BY <1>4 DEF S

LEMMA BytesAre ==
  ASSUME NEW lines, Len(lines) \in Nat
  PROVE  \E f : Adds(f, Len(lines), lines) /\ BytesOf(lines) = f[Len(lines)]
<1> DEFINE Sums(f) == f = [i \in 0..Len(lines) |-> IF i = 0 THEN 0 ELSE f[i - 1] + lines[i].size]
           sum == CHOOSE f : Sums(f)
<1>1. PICK f : Adds(f, Len(lines), lines)
  BY SumsExist
<1>2. Sums(f)
  BY <1>1 DEF Adds
<1>3. Sums(sum)
  BY <1>2
<1>4. BytesOf(lines) = sum[Len(lines)]
  BY DEF BytesOf
<1> HIDE DEF sum
<1>5. Adds(sum, Len(lines), lines)
  BY <1>3 DEF Adds
<1> QED
  BY <1>4, <1>5

\* Sums of lines that agree on the first n agree there, and are numbers.
LEMMA SumsAgree ==
  ASSUME NEW lines, NEW more, NEW n \in Nat, NEW m \in Nat, n <= m, NEW f, NEW g,
         Adds(f, n, lines), Adds(g, m, more),
         \A i \in 1..n : more[i] = lines[i] /\ lines[i].size \in Nat
  PROVE  f[n] = g[n] /\ f[n] \in Nat
<1> DEFINE S == {i \in Nat : i <= n => f[i] = g[i] /\ f[i] \in Nat}
<1>1. 0 \in S
  BY AddsOneByOne
<1>2. ASSUME NEW i \in S PROVE i + 1 \in S
  <2>1. i \in Nat
    OBVIOUS
  <2>2. SUFFICES ASSUME i + 1 <= n PROVE f[i + 1] = g[i + 1] /\ f[i + 1] \in Nat
    BY <2>1
  <2>3. f[i] = g[i] /\ f[i] \in Nat
    BY <2>1, <2>2
  <2>4. i + 1 \in 1..n /\ i + 1 \in 1..m /\ (i + 1) - 1 = i
    BY <2>1, <2>2
  <2>5. f[i + 1] = f[i] + lines[i + 1].size /\ g[i + 1] = g[i] + more[i + 1].size
    <3>1. \A j \in 1..n : f[j] = f[j - 1] + lines[j].size
      BY AddsOneByOne
    <3>2. \A j \in 1..m : g[j] = g[j - 1] + more[j].size
      BY AddsOneByOne
    <3> QED
      BY <2>4, <3>1, <3>2, Zenon
  <2> QED
    BY <2>3, <2>4, <2>5
<1> HIDE DEF S
<1>3. S \in SUBSET Nat
  BY DEF S
<1>4. S = Nat
  BY <1>1, <1>2, <1>3, AllNumbers
<1> QED
  BY <1>4 DEF S

\* No lines have no bytes, and one more line adds its size.
LEMMA BytesOfNothing == BytesOf(<<>>) = 0
<1>1. PICK f : Adds(f, Len(<<>>), <<>>) /\ BytesOf(<<>>) = f[Len(<<>>)]
  BY BytesAre
<1> QED
  BY <1>1, AddsOneByOne

LEMMA BytesOfAppended ==
  ASSUME NEW lines \in Seq(Lines), NEW line \in Lines
  PROVE  /\ BytesOf(lines) \in Nat
         /\ BytesOf(Append(lines, line)) = BytesOf(lines) + line.size
<1> DEFINE more == Append(lines, line)
           n == Len(lines)
<1>1. /\ n \in Nat /\ Len(more) = n + 1 /\ more[n + 1] = line
      /\ \A i \in 1..n : more[i] = lines[i] /\ lines[i].size \in Nat
  <2>1. n \in Nat /\ more \in Seq(Lines) /\ Len(more) = n + 1 /\ more[n + 1] = line
    OBVIOUS
  <2>2. \A i \in 1..n : more[i] = lines[i] /\ lines[i] \in Lines
    OBVIOUS
  <2> QED
    BY <2>1, <2>2 DEF Lines
<1> HIDE DEF more
<1>2. PICK f : Adds(f, n, lines) /\ BytesOf(lines) = f[n]
  BY <1>1, BytesAre
<1>3. PICK g : Adds(g, n + 1, more) /\ BytesOf(more) = g[n + 1]
  BY <1>1, BytesAre
<1> HIDE DEF n
<1>4. f[n] = g[n] /\ f[n] \in Nat
  <2>1. n \in Nat /\ n + 1 \in Nat /\ n <= n + 1
    BY <1>1
  <2> QED
    BY <1>1, <1>2, <1>3, <2>1, SumsAgree
<1>5. g[n + 1] = g[n] + line.size
  <2>1. n + 1 \in 1..n + 1 /\ (n + 1) - 1 = n
    BY <1>1
  <2> QED
    BY <1>1, <1>3, <2>1, AddsOneByOne
<1> QED
  BY <1>1, <1>2, <1>3, <1>4, <1>5 DEF more
-----------------------------------------------------------------------------
(* The invariant.                                                          *)

LogTypeOK ==
  /\ logFile \in Seq(Lines) /\ logBackup \in Seq(Lines)
  /\ logStream \in {"closed", "open", "bad"}
  /\ {logLimit, logSize, logCount} \subseteq Nat /\ logLimit < SizeRange
  /\ logIntact \in BOOLEAN

\* While nothing failed the lines are numbered up to the last one, and a log
\* that is empty under an open stream is known to be empty.
Numbered(file, backup, count) ==
  /\ \A i \in 1..Len(file) : file[i].id = count - Len(file) + i
  /\ \A i \in 1..Len(backup) : backup[i].id = count - Len(file) - Len(backup) + i
  /\ backup = <<>> => Len(file) = count
  /\ count > 0 => file # <<>>

LogInv ==
  /\ LogTypeOK
  /\ logIntact =>
       /\ Numbered(logFile, logBackup, logCount)
       /\ logStream # "bad"
       /\ logStream = "open" /\ logFile = <<>> => logSize = 0

LEMMA LogInitInv == LogInit => LogInv
<1> SUFFICES ASSUME LogInit PROVE LogInv
  OBVIOUS
<1>1. LogTypeOK
  BY LogAssumption DEF LogInit, LogTypeOK
<1>2. Numbered(logFile, logBackup, logCount)
  BY DEF LogInit, Numbered
<1> QED
  BY <1>1, <1>2 DEF LogInit, LogInv

LEMMA InitializeKeeps ==
  ASSUME LogInv, NEW limit \in LogLimits, InitializeLog(limit)
  PROVE  LogInv'
<1>1. UNCHANGED <<logFile, logBackup, logCount>> /\ LogTypeOK
  BY DEF InitializeLog, LogInv
<1>2. BytesOf(logFile) \in Nat
  <2>1. [id |-> 0, size |-> 0] \in Lines
    BY DEF Lines
  <2> QED
    BY <1>1, <2>1, BytesOfAppended DEF LogTypeOK
<1>3. limit \in Nat /\ limit < SizeRange /\ LeastLimit \in Nat /\ LeastLimit < SizeRange
  BY LogAssumption
<1>4. LogTypeOK'
  <2>1. logLimit' \in {logLimit, limit, LeastLimit} /\ logSize' \in {logSize, BytesOf(logFile), 0}
    BY DEF InitializeLog
  <2>2. logStream' \in {logStream, "open"} /\ logIntact' \in {logIntact, FALSE}
    BY DEF InitializeLog
  <2>3. {logLimit', logSize', logCount'} \subseteq Nat /\ logLimit' < SizeRange
    BY <1>1, <1>2, <1>3, <2>1 DEF LogTypeOK
  <2>4. logStream' \in {"closed", "open", "bad"} /\ logIntact' \in BOOLEAN
    BY <1>1, <2>2 DEF LogTypeOK
  <2> QED
    BY <1>1, <2>3, <2>4 DEF LogTypeOK
<1>5. logIntact' => logIntact /\ logStream' = "open" /\ logSize' = BytesOf(logFile)
  BY <1>1 DEF InitializeLog, LogTypeOK
<1>6. logIntact' => Numbered(logFile, logBackup, logCount)'
  BY <1>1, <1>5 DEF LogInv
<1>7. logFile = <<>> => BytesOf(logFile) = 0
  BY BytesOfNothing
<1> QED
  BY <1>1, <1>4, <1>5, <1>6, <1>7 DEF LogInv

LEMMA RoomIs ==
  ASSUME LogTypeOK, NEW size \in Nat, size <= logLimit
  PROVE  Room(size) = logLimit - size
<1>1. logLimit - size \in 0..SizeRange - 1 /\ SizeRange \in Nat \ {0}
  BY LogAssumption DEF LogTypeOK
<1> QED
  BY <1>1 DEF Room

\* What a line finds and leaves: the files it is written to, and how.
LEMMA LineIs ==
  ASSUME LogTypeOK, NEW given \in LineSizes, LogLine(given)
  PROVE  \E size \in Nat, files \in [file : Seq(Lines), backup : Seq(Lines),
                                     stream : {"closed", "open", "bad"}], whole \in BOOLEAN :
           /\ size <= logLimit
           /\ Written(files, size, whole)
           /\ \/ /\ logSize + size <= logLimit /\ logSize' = logSize + size
                 /\ files = [file |-> logFile, backup |-> logBackup, stream |-> logStream]
                 /\ logIntact' = (logIntact /\ whole)
              \/ /\ logSize + size > logLimit /\ logSize' = size
                 /\ \/ files = Rotated /\ logIntact' = (logIntact /\ whole)
                    \/ files \in RotatedBadly /\ logIntact' = FALSE
           /\ logStream # "closed" /\ logCount' = logCount + 1 /\ UNCHANGED logLimit
<1> DEFINE size == Cut(given)
           here == [file |-> logFile, backup |-> logBackup, stream |-> logStream]
           Files == [file : Seq(Lines), backup : Seq(Lines), stream : {"closed", "open", "bad"}]
<1>1. /\ {logLimit, logSize, given} \subseteq Nat /\ logFile \in Seq(Lines)
      /\ logBackup \in Seq(Lines) /\ logStream \in {"closed", "open", "bad"}
  BY LogAssumption DEF LogTypeOK
<1>2. size \in Nat /\ size <= logLimit
  BY <1>1 DEF Cut
<1>3. Room(size) = logLimit - size
  BY <1>2, RoomIs
<1>4. <<>> \in Seq(Lines)
  OBVIOUS
<1>5. here \in Files /\ Rotated \in Files /\ RotatedBadly \subseteq Files
  <2>1. here \in Files
    BY <1>1
  <2>2. Rotated \in Files
    BY <1>1, <1>4 DEF Rotated
  <2>3. RotatedBadly \subseteq Files
    <3> SUFFICES ASSUME NEW files \in RotatedBadly PROVE files \in Files
      OBVIOUS
    <3>1. PICK file \in {<<>>, logFile}, backup \in {logBackup, <<>>, logFile}, stream \in {"open", "closed"} :
            files = [file |-> file, backup |-> backup, stream |-> stream]
      BY DEF RotatedBadly
    <3>2. {file, backup} \subseteq Seq(Lines)
      BY <1>1, <1>4
    <3> QED
      BY <3>1, <3>2
  <2> QED
    BY <2>1, <2>2, <2>3
<1>6. logSize > Room(size) <=> logSize + size > logLimit
  BY <1>1, <1>2, <1>3
<1>7. logStream # "closed" /\ logCount' = logCount + 1 /\ UNCHANGED logLimit
  BY DEF LogLine
<1>8. logSize' = IF logSize + size > logLimit THEN size ELSE logSize + size
  <2>1. logSize' = (IF logSize > Room(size) THEN 0 ELSE logSize) + size
    BY DEF LogLine
  <2> QED
    BY <1>1, <1>2, <1>6, <2>1
<1>9. PICK whole \in BOOLEAN :
        \/ ~(logSize > Room(size)) /\ Written(here, size, whole) /\ logIntact' = (logIntact /\ whole)
        \/ logSize > Room(size) /\ Written(Rotated, size, whole) /\ logIntact' = (logIntact /\ whole)
        \/ /\ logSize > Room(size) /\ logIntact' = FALSE
           /\ \E files \in RotatedBadly : Written(files, size, whole)
  BY DEF LogLine
<1> HIDE DEF size, here, Files
<1>10. CASE /\ ~(logSize > Room(size)) /\ Written(here, size, whole)
            /\ logIntact' = (logIntact /\ whole)
  <2>1. logSize + size <= logLimit /\ logSize' = logSize + size
    BY <1>1, <1>2, <1>6, <1>8, <1>10
  <2> QED
    BY <1>2, <1>5, <1>7, <1>10, <2>1 DEF here, Files
<1>11. CASE /\ logSize > Room(size) /\ Written(Rotated, size, whole)
            /\ logIntact' = (logIntact /\ whole)
  <2>1. logSize + size > logLimit /\ logSize' = size
    BY <1>6, <1>8, <1>11
  <2> QED
    BY <1>2, <1>5, <1>7, <1>11, <2>1 DEF Files
<1>12. CASE /\ logSize > Room(size) /\ logIntact' = FALSE
            /\ \E files \in RotatedBadly : Written(files, size, whole)
  <2>1. logSize + size > logLimit /\ logSize' = size
    BY <1>6, <1>8, <1>12
  <2> QED
    BY <1>2, <1>5, <1>7, <1>12, <2>1 DEF Files
<1> QED
  BY <1>9, <1>10, <1>11, <1>12

\* One more line keeps the numbers, in the log as it was or behind a log that
\* became the backup.
LEMMA NumberedOnceMore ==
  ASSUME NEW file \in Seq(Lines), NEW backup \in Seq(Lines), NEW count \in Nat,
         Numbered(file, backup, count), NEW size \in Nat
  PROVE  LET line == [id |-> count + 1, size |-> size]
         IN  /\ Numbered(Append(file, line), backup, count + 1)
             /\ file # <<>> => Numbered(<<line>>, file, count + 1)
<1> DEFINE line == [id |-> count + 1, size |-> size]
           more == Append(file, line)
           n == Len(file)
<1>1. line \in Lines /\ line.id = count + 1
  BY DEF Lines
<1> HIDE DEF line
<1>2. /\ n \in Nat /\ Len(more) = n + 1 /\ more[n + 1] = line /\ more # <<>>
      /\ \A i \in 1..n : more[i] = file[i]
  BY <1>1
<1> HIDE DEF more
<1>3. Numbered(more, backup, count + 1)
  <2>1. \A i \in 1..Len(more) : more[i].id = (count + 1) - Len(more) + i
    <3> SUFFICES ASSUME NEW i \in 1..n + 1 PROVE more[i].id = (count + 1) - (n + 1) + i
      BY <1>2
    <3>1. CASE i = n + 1
      BY <1>1, <1>2, <3>1
    <3>2. CASE i \in 1..n
      <4>1. file[i].id = count - n + i
        BY <3>2 DEF Numbered
      <4> QED
        BY <1>2, <3>2, <4>1
    <3> QED
      BY <1>2, <3>1, <3>2
  <2>2. \A i \in 1..Len(backup) : backup[i].id = (count + 1) - Len(more) - Len(backup) + i
    <3> SUFFICES ASSUME NEW i \in 1..Len(backup)
                 PROVE  backup[i].id = (count + 1) - (n + 1) - Len(backup) + i
      BY <1>2
    <3>1. backup[i].id = count - n - Len(backup) + i
      BY DEF Numbered
    <3> QED
      BY <1>2, <3>1
  <2>3. backup = <<>> => Len(more) = count + 1
    BY <1>2 DEF Numbered
  <2> QED
    BY <1>2, <2>1, <2>2, <2>3 DEF Numbered
<1>4. ASSUME file # <<>> PROVE Numbered(<<line>>, file, count + 1)
  <2> DEFINE one == <<line>>
  <2>1. Len(one) = 1 /\ one[1] = line /\ one # <<>>
    OBVIOUS
  <2> HIDE DEF one
  <2>2. \A i \in 1..Len(one) : one[i].id = (count + 1) - Len(one) + i
    BY <1>1, <2>1
  <2>3. \A i \in 1..n : file[i].id = (count + 1) - Len(one) - n + i
    <3> SUFFICES ASSUME NEW i \in 1..n PROVE file[i].id = (count + 1) - 1 - n + i
      BY <2>1
    <3>1. file[i].id = count - n + i
      BY DEF Numbered
    <3> QED
      BY <1>2, <3>1
  <2>4. Numbered(one, file, count + 1)
    BY <1>4, <2>1, <2>2, <2>3 DEF Numbered
  <2> QED
    BY <2>4 DEF one
<1> QED
  BY <1>3, <1>4 DEF more, line

LEMMA LineKeeps == ASSUME LogInv, NEW given \in LineSizes, LogLine(given) PROVE LogInv'
<1> DEFINE line(size) == [id |-> logCount + 1, size |-> size]
<1>1. LogTypeOK /\ {logLimit, logSize, logCount} \subseteq Nat
  BY DEF LogInv, LogTypeOK
<1>2. PICK size \in Nat, files \in [file : Seq(Lines), backup : Seq(Lines),
                                    stream : {"closed", "open", "bad"}], whole \in BOOLEAN :
        /\ size <= logLimit
        /\ Written(files, size, whole)
        /\ \/ /\ logSize + size <= logLimit /\ logSize' = logSize + size
              /\ files = [file |-> logFile, backup |-> logBackup, stream |-> logStream]
              /\ logIntact' = (logIntact /\ whole)
           \/ /\ logSize + size > logLimit /\ logSize' = size
              /\ \/ files = Rotated /\ logIntact' = (logIntact /\ whole)
                 \/ files \in RotatedBadly /\ logIntact' = FALSE
        /\ logStream # "closed" /\ logCount' = logCount + 1 /\ UNCHANGED logLimit
  BY <1>1, LineIs
<1>3. line(size) \in Lines
  BY <1>1 DEF Lines
<1>4. LogTypeOK'
  <2>1. logFile' \in Seq(Lines) /\ logBackup' \in Seq(Lines)
    <3>1. Append(files.file, line(size)) \in Seq(Lines)
      BY <1>3
    <3> QED
      BY <1>2, <3>1 DEF Written
  <2>2. logStream' \in {"closed", "open", "bad"}
    BY <1>2 DEF Written
  <2>3. {logLimit', logSize', logCount'} \subseteq Nat /\ logLimit' < SizeRange
    BY <1>1, <1>2 DEF LogTypeOK
  <2>4. logIntact' \in BOOLEAN
    BY <1>1, <1>2 DEF LogTypeOK
  <2> QED
    BY <2>1, <2>2, <2>3, <2>4 DEF LogTypeOK
<1>5. ASSUME logIntact'
      PROVE  Numbered(logFile, logBackup, logCount)' /\ logStream' = "open" /\ logFile' # <<>>
  <2>1. /\ logIntact /\ whole = TRUE /\ logStream = "open"
        /\ Numbered(logFile, logBackup, logCount)
        /\ logFile = <<>> => logSize = 0
    BY <1>2, <1>5 DEF LogInv, LogTypeOK
  <2>2. \/ files = [file |-> logFile, backup |-> logBackup, stream |-> logStream]
        \/ files = Rotated /\ logSize + size > logLimit
    BY <1>2, <1>5
  <2>3. /\ files.stream = "open"
        /\ logFile' = Append(files.file, line(size)) /\ logBackup' = files.backup
        /\ logStream' = "open"
    BY <1>2, <2>1, <2>2 DEF Written, Rotated
  <2>4. logFile' # <<>>
    BY <1>3, <2>3
  <2>5. CASE files = [file |-> logFile, backup |-> logBackup, stream |-> logStream]
    <3>1. Numbered(Append(logFile, line(size)), logBackup, logCount + 1)
      BY <1>1, <2>1, NumberedOnceMore DEF LogTypeOK
    <3>2. logFile' = Append(logFile, line(size)) /\ logBackup' = logBackup
      BY <2>3, <2>5
    <3> QED
      BY <1>2, <2>3, <2>4, <3>1, <3>2
  <2>6. CASE files = Rotated /\ logSize + size > logLimit
    <3>1. logFile # <<>>
      BY <1>1, <1>2, <2>1, <2>6
    <3>2. Numbered(<<line(size)>>, logFile, logCount + 1)
      BY <1>1, <2>1, <3>1, NumberedOnceMore DEF LogTypeOK
    <3>3. logFile' = <<line(size)>> /\ logBackup' = logFile
      BY <2>3, <2>6 DEF Rotated
    <3> QED
      BY <1>2, <2>3, <2>4, <3>2, <3>3
  <2> QED
    BY <2>2, <2>5, <2>6
<1> QED
  BY <1>4, <1>5 DEF LogInv

LEMMA LogNextInv == LogInv /\ [LogNext]_logVars => LogInv'
<1> SUFFICES ASSUME LogInv, [LogNext]_logVars PROVE LogInv'
  OBVIOUS
<1>1. CASE ShutdownLog
  BY <1>1 DEF ShutdownLog, LogInv, LogTypeOK
<1>2. CASE UNCHANGED logVars
  BY <1>2 DEF logVars, LogInv, LogTypeOK
<1> QED
  BY <1>1, <1>2, InitializeKeeps, LineKeeps DEF LogNext

\* docs/review-fixes-2026-10-28.md:39, "Bounded log rotation with one .1
\* backup": unless an operation on the files failed, the backup and the log
\* hold the newest lines in one run, whatever their sizes and the limits were.
THEOREM NewestAreKept == LogSpec => []NewestLinesAreKept
<1>1. LogInv => NewestLinesAreKept
  <2> DEFINE b == Len(logBackup)
             n == Len(logFile)
             kept == logBackup \o logFile
  <2> SUFFICES ASSUME LogInv, logIntact, logCount > 0
               PROVE  /\ kept # <<>> /\ kept[Len(kept)].id = logCount
                      /\ \A i \in 1..Len(kept) - 1 : kept[i + 1].id = kept[i].id + 1
                      /\ kept[1].id > 1 => logBackup # <<>>
    BY DEF NewestLinesAreKept
  <2>1. /\ logFile \in Seq(Lines) /\ logBackup \in Seq(Lines) /\ logCount \in Nat
        /\ Numbered(logFile, logBackup, logCount) /\ logFile # <<>>
    BY DEF LogInv, LogTypeOK, Numbered
  <2>2. /\ b \in Nat /\ n \in Nat \ {0} /\ Len(kept) = b + n
        /\ \A i \in 1..b + n : kept[i] = IF i <= b THEN logBackup[i] ELSE logFile[i - b]
    BY <2>1
  <2>3. ASSUME NEW i \in 1..b + n PROVE kept[i].id = logCount - n - b + i
    <3>1. CASE i <= b
      BY <2>1, <2>2, <3>1 DEF Numbered
    <3>2. CASE ~(i <= b)
      <4>1. i - b \in 1..n /\ kept[i] = logFile[i - b]
        BY <2>2, <3>2
      <4>2. logFile[i - b].id = logCount - n + (i - b)
        BY <2>1, <4>1 DEF Numbered
      <4> QED
        BY <2>1, <2>2, <4>1, <4>2
    <3> QED
      BY <3>1, <3>2
  <2>4. logBackup = <<>> => b = 0 /\ n = logCount
    BY <2>1 DEF Numbered
  <2>5. kept # <<>>
    BY <2>1, <2>2
  <2> HIDE DEF kept, b, n
  <2>6. kept[Len(kept)].id = logCount
    BY <2>1, <2>2, <2>3
  <2>7. \A i \in 1..Len(kept) - 1 : kept[i + 1].id = kept[i].id + 1
    BY <2>1, <2>2, <2>3
  <2>8. logBackup = <<>> => kept[1].id = 1
    BY <2>1, <2>2, <2>3, <2>4
  <2> QED
    BY <2>5, <2>6, <2>7, <2>8
<1> QED
  BY <1>1, LogInitInv, LogNextInv, PTL DEF LogSpec

\* The same text: a line never makes the log larger than the limit in force,
\* after writes that failed and under limits that were changed, unless its
\* size could not be read.
THEOREM LogIsBounded == LogSpec => LinesFitTheLimit
<1> DEFINE Fits == logFile' # logFile /\ logFile' # <<>> /\ BytesOf(logFile) <= logSize =>
                     BytesOf(logFile') <= logLimit'
<1>1. LogInv /\ [LogNext]_logVars => [Fits]_logVars
  <2> SUFFICES ASSUME LogInv, LogNext, logFile' # logFile, logFile' # <<>>,
                      BytesOf(logFile) <= logSize
               PROVE  BytesOf(logFile') <= logLimit'
    OBVIOUS
  <2>1. PICK given \in LineSizes : LogLine(given)
    BY DEF LogNext, InitializeLog, ShutdownLog
  <2>2. LogTypeOK /\ {logLimit, logSize, logCount} \subseteq Nat
    BY DEF LogInv, LogTypeOK
  <2>3. PICK size \in Nat, files \in [file : Seq(Lines), backup : Seq(Lines),
                                      stream : {"closed", "open", "bad"}], whole \in BOOLEAN :
          /\ size <= logLimit
          /\ Written(files, size, whole)
          /\ \/ /\ logSize + size <= logLimit
                /\ files = [file |-> logFile, backup |-> logBackup, stream |-> logStream]
             \/ files = Rotated \/ files \in RotatedBadly
          /\ UNCHANGED logLimit
    BY <2>1, <2>2, LineIs
  <2> DEFINE line == [id |-> logCount + 1, size |-> size]
  <2>4. line \in Lines /\ line.size = size
    BY <2>2 DEF Lines
  <2>5. logFile' = Append(files.file, line) /\ files.stream = "open"
    <3>1. logFile' = (IF whole /\ files.stream = "open" THEN Append(files.file, line) ELSE files.file)
      BY <2>3 DEF Written
    <3>2. files.file \in {logFile, <<>>}
      BY <2>3 DEF Rotated, RotatedBadly
    <3> QED
      BY <3>1, <3>2
  <2>6. \/ files.file = logFile /\ logSize + size <= logLimit
        \/ files.file = <<>>
    BY <2>3, <2>5 DEF Rotated, RotatedBadly
  <2>7. BytesOf(logFile') = BytesOf(files.file) + size /\ BytesOf(files.file) \in Nat
    BY <2>3, <2>4, <2>5, BytesOfAppended
  <2>8. CASE files.file = logFile /\ logSize + size <= logLimit
    BY <2>2, <2>3, <2>7, <2>8
  <2>9. CASE files.file = <<>>
    BY <2>2, <2>3, <2>7, <2>9, BytesOfNothing
  <2> QED
    BY <2>6, <2>8, <2>9
<1> QED
  BY <1>1, LogInitInv, LogNextInv, PTL DEF LogSpec, LinesFitTheLimit

-----------------------------------------------------------------------------
(* Wildcards.  What is left of a pattern behind i characters is matched     *)
(* against what is left of a name behind j.                                 *)

Rest(pattern, name, i, j) ==
  \E ends \in [i..Len(pattern) -> 0..Len(name)] :
    /\ ends[i] = j /\ ends[Len(pattern)] = Len(name)
    /\ \A k \in i + 1..Len(pattern) : StandsFor(pattern, name, ends, k)

\* All of a pattern is what is left behind none of its characters.
LEMMA AllIsLeft ==
  ASSUME NEW pattern, NEW name
  PROVE  Reference(pattern, name) <=> Rest(pattern, name, 0, 0)
  BY DEF Reference, Rest

\* Nothing matches the end of a name.
LEMMA NothingIsLeft ==
  ASSUME NEW pattern, NEW name, Len(pattern) \in Nat, Len(name) \in Nat, NEW j \in 0..Len(name)
  PROVE  Rest(pattern, name, Len(pattern), j) <=> j = Len(name)
<1> DEFINE m == Len(pattern)
<1>1. m..m = {m} /\ m + 1..m = {}
  OBVIOUS
<1>2. ASSUME j = Len(name) PROVE Rest(pattern, name, m, j)
  <2> DEFINE ends == [k \in m..m |-> j]
  <2>1. ends \in [m..m -> 0..Len(name)] /\ ends[m] = j /\ ends[m] = Len(name)
    BY <1>1, <1>2
  <2> QED
    BY <1>1, <2>1 DEF Rest
<1> QED
  BY <1>2 DEF Rest

\* A step back in the pattern, whatever its character stands for.
LEMMA OneMore ==
  ASSUME NEW pattern, NEW name, Len(pattern) \in Nat, Len(name) \in Nat,
         NEW i \in 0..Len(pattern) - 1, NEW j \in 0..Len(name)
  PROVE  Rest(pattern, name, i, j) <=>
           \E k \in 0..Len(name) :
             /\ Rest(pattern, name, i + 1, k)
             /\ IF pattern[i + 1] = "*" THEN j <= k
                ELSE k = j + 1 /\ pattern[i + 1] \in {"?", name[k]}
<1> DEFINE m == Len(pattern)
           n == Len(name)
<1>1. ASSUME Rest(pattern, name, i, j)
      PROVE  \E k \in 0..n :
               /\ Rest(pattern, name, i + 1, k)
               /\ IF pattern[i + 1] = "*" THEN j <= k
                  ELSE k = j + 1 /\ pattern[i + 1] \in {"?", name[k]}
  <2>1. PICK ends \in [i..m -> 0..n] :
               /\ ends[i] = j /\ ends[m] = n
               /\ \A k \in i + 1..m : StandsFor(pattern, name, ends, k)
    BY <1>1 DEF Rest
  <2> DEFINE later == [k \in i + 1..m |-> ends[k]]
             k == ends[i + 1]
  <2>2. i + 1 \in i + 1..m /\ i + 1 \in i..m /\ m \in i + 1..m /\ i + 1 \in Nat
    OBVIOUS
  <2>3. later \in [i + 1..m -> 0..n] /\ later[i + 1] = k /\ later[m] = n /\ k \in 0..n
    BY <2>1, <2>2
  <2>4. ASSUME NEW l \in (i + 1) + 1..m PROVE StandsFor(pattern, name, later, l)
    <3>1. l \in i + 1..m /\ l - 1 \in i + 1..m
      OBVIOUS
    <3>2. later[l] = ends[l] /\ later[l - 1] = ends[l - 1]
      BY <3>1
    <3> QED
      BY <2>1, <3>1, <3>2 DEF StandsFor
  <2>5. Rest(pattern, name, i + 1, k)
    BY <2>3, <2>4 DEF Rest
  <2>6. StandsFor(pattern, name, ends, i + 1) /\ (i + 1) - 1 = i
    BY <2>1, <2>2
  <2>7. IF pattern[i + 1] = "*" THEN j <= k ELSE k = j + 1 /\ pattern[i + 1] \in {"?", name[k]}
    BY <2>1, <2>6 DEF StandsFor
  <2> QED
    BY <2>3, <2>5, <2>7
<1>2. ASSUME NEW k \in 0..n, Rest(pattern, name, i + 1, k),
             IF pattern[i + 1] = "*" THEN j <= k ELSE k = j + 1 /\ pattern[i + 1] \in {"?", name[k]}
      PROVE  Rest(pattern, name, i, j)
  <2>1. PICK later \in [i + 1..m -> 0..n] :
               /\ later[i + 1] = k /\ later[m] = n
               /\ \A l \in (i + 1) + 1..m : StandsFor(pattern, name, later, l)
    BY <1>2 DEF Rest
  <2> DEFINE ends == [l \in i..m |-> IF l = i THEN j ELSE later[l]]
  <2>2. i \in i..m /\ m \in i..m /\ m # i /\ \A l \in i..m : l # i => l \in i + 1..m
    OBVIOUS
  <2>3. ends \in [i..m -> 0..n] /\ ends[i] = j /\ ends[m] = n
    BY <2>1, <2>2
  <2>4. ASSUME NEW l \in i + 1..m PROVE StandsFor(pattern, name, ends, l)
    <3>1. l \in i..m /\ l # i /\ ends[l] = later[l]
      OBVIOUS
    <3>2. CASE l = i + 1
      <4>1. l - 1 = i
        BY <3>2
      <4>2. ends[l - 1] = j /\ ends[l] = k
        BY <2>1, <2>3, <3>1, <3>2, <4>1
      <4> QED
        BY <1>2, <3>2, <4>2 DEF StandsFor
    <3>3. CASE l # i + 1
      <4>1. l \in (i + 1) + 1..m /\ l - 1 \in i..m /\ l - 1 # i
        BY <3>3
      <4>2. ends[l - 1] = later[l - 1]
        BY <4>1
      <4> QED
        BY <2>1, <3>1, <4>1, <4>2 DEF StandsFor
    <3> QED
      BY <3>2, <3>3
  <2> HIDE DEF ends
  <2> QED
    BY <2>3, <2>4 DEF Rest
<1> QED
  BY <1>1, <1>2

\* At the end of a name only stars match.
LEMMA OneStar ==
  ASSUME NEW pattern, NEW name, Len(pattern) \in Nat, Len(name) \in Nat,
         NEW i \in 0..Len(pattern) - 1
  PROVE  Rest(pattern, name, i, Len(name)) <=>
           pattern[i + 1] = "*" /\ Rest(pattern, name, i + 1, Len(name))
<1> DEFINE n == Len(name)
           Ends(k) == IF pattern[i + 1] = "*" THEN n <= k
                      ELSE k = n + 1 /\ pattern[i + 1] \in {"?", name[k]}
<1>1. Rest(pattern, name, i, n) <=> \E k \in 0..n : Rest(pattern, name, i + 1, k) /\ Ends(k)
  <2>1. n \in 0..n
    OBVIOUS
  <2> QED
    BY <2>1, OneMore
<1>2. \A k \in 0..n : Ends(k) <=> pattern[i + 1] = "*" /\ k = n
  OBVIOUS
<1>3. n \in 0..n
  OBVIOUS
<1> HIDE DEF Ends
<1> QED
  BY <1>1, <1>2, <1>3, Zenon

LEMMA StarsAreLeft ==
  ASSUME NEW pattern, NEW name, Len(pattern) \in Nat, Len(name) \in Nat, NEW i \in 0..Len(pattern)
  PROVE  Rest(pattern, name, i, Len(name)) <=> \A k \in i + 1..Len(pattern) : pattern[k] = "*"
<1> DEFINE m == Len(pattern)
           Stars(b) == Rest(pattern, name, b, Len(name)) <=> \A k \in b + 1..m : pattern[k] = "*"
           Behind(d) == d <= m => Stars(m - d)
           S == {d \in Nat : Behind(d)}
<1>1. Stars(m)
  <2>1. m + 1..m = {} /\ Len(name) \in 0..Len(name)
    OBVIOUS
  <2> QED
    BY <2>1, NothingIsLeft
<1>2. ASSUME NEW b \in 0..m - 1, Stars(b + 1) PROVE Stars(b)
  <2>1. (\A k \in b + 1..m : pattern[k] = "*")
          <=> pattern[b + 1] = "*" /\ \A k \in (b + 1) + 1..m : pattern[k] = "*"
    <3>1. b + 1..m = {b + 1} \cup ((b + 1) + 1..m)
      OBVIOUS
    <3> QED
      BY <3>1
  <2>2. Rest(pattern, name, b, Len(name)) <=>
          pattern[b + 1] = "*" /\ Rest(pattern, name, b + 1, Len(name))
    BY OneStar
  <2> QED
    BY <1>2, <2>1, <2>2
<1> HIDE DEF Stars
<1>3. Behind(0)
  <2>1. m - 0 = m
    OBVIOUS
  <2> QED
    BY <1>1, <2>1, Zenon
<1>4. ASSUME NEW d \in Nat, Behind(d) PROVE Behind(d + 1)
  <2> SUFFICES ASSUME d + 1 <= m PROVE Stars(m - (d + 1))
    OBVIOUS
  <2>1. m - (d + 1) \in 0..m - 1 /\ (m - (d + 1)) + 1 = m - d /\ d <= m
    OBVIOUS
  <2> QED
    BY <1>2, <1>4, <2>1
<1> HIDE DEF Behind
<1>5. S = Nat
  <2>1. S \in SUBSET Nat /\ 0 \in S /\ \A d \in S : d + 1 \in S
    BY <1>3, <1>4
  <2> HIDE DEF S
  <2> QED
    BY <2>1, AllNumbers
<1>6. m - i \in Nat /\ m - i <= m /\ m - (m - i) = i
  OBVIOUS
<1>7. Behind(m - i)
  BY <1>5, <1>6
<1>8. Stars(i)
  BY <1>6, <1>7, Zenon DEF Behind
<1> QED
  BY <1>8 DEF Stars
-----------------------------------------------------------------------------
(* The matcher's loop, in the values of its variables.                      *)

LEMMA CharacterStep ==
  ASSUME NEW pattern, NEW name, Len(pattern) \in Nat, Len(name) \in Nat,
         NEW i \in 0..Len(pattern) - 1, NEW j \in 0..Len(name), pattern[i + 1] # "*"
  PROVE  Rest(pattern, name, i, j) <=>
           /\ j + 1 \in 0..Len(name) /\ Rest(pattern, name, i + 1, j + 1)
           /\ pattern[i + 1] \in {"?", name[j + 1]}
<1>1. Rest(pattern, name, i, j) <=>
         \E k \in 0..Len(name) :
           Rest(pattern, name, i + 1, k) /\ k = j + 1 /\ pattern[i + 1] \in {"?", name[k]}
  <2>1. Rest(pattern, name, i, j) <=>
           \E k \in 0..Len(name) :
             /\ Rest(pattern, name, i + 1, k)
             /\ IF pattern[i + 1] = "*" THEN j <= k
                ELSE k = j + 1 /\ pattern[i + 1] \in {"?", name[k]}
    BY OneMore
  <2> QED
    BY <2>1, Zenon
<1> QED
  BY <1>1

LEMMA StarStep ==
  ASSUME NEW pattern, NEW name, Len(pattern) \in Nat, Len(name) \in Nat,
         NEW i \in 0..Len(pattern) - 1, NEW j \in 0..Len(name), pattern[i + 1] = "*"
  PROVE  Rest(pattern, name, i, j) <=>
           \E k \in 0..Len(name) : j <= k /\ Rest(pattern, name, i + 1, k)
<1>1. Rest(pattern, name, i, j) <=>
         \E k \in 0..Len(name) :
           /\ Rest(pattern, name, i + 1, k)
           /\ IF pattern[i + 1] = "*" THEN j <= k
              ELSE k = j + 1 /\ pattern[i + 1] \in {"?", name[k]}
  BY OneMore
<1> QED
  BY <1>1, Zenon

\* The loop stays within pattern and name; behind the last star, as much of the
\* pattern is done as of the name.
Within(m, n, p, s, star, mark) ==
  /\ m \in Nat /\ n \in Nat /\ p \in 1..m + 1 /\ s \in 1..n + 1 /\ star \in Nat /\ mark \in Nat
  /\ star # 0 =>
       /\ star < p /\ 0 < mark /\ mark <= s
       /\ s - mark = (p - 1) - star

\* Without a star so far, what is left decides.  Behind a star, a later place
\* for what follows it may do as well, but no earlier star has to take more:
\* wherever the rest matches from the last star on, it matches as far behind
\* it as the loop has come.
Decides(pattern, name, p, s, star, mark) ==
  IF star = 0
  THEN Rest(pattern, name, 0, 0) <=> Rest(pattern, name, p - 1, s - 1)
  ELSE /\ Rest(pattern, name, 0, 0) <=>
            \E k \in 0..Len(name) : mark - 1 <= k /\ Rest(pattern, name, star, k)
       /\ Rest(pattern, name, p - 1, s - 1) => Rest(pattern, name, star, mark - 1)
       /\ \A k \in 0..Len(name) : Rest(pattern, name, star, k) =>
            /\ k + ((p - 1) - star) \in 0..Len(name)
            /\ Rest(pattern, name, p - 1, k + ((p - 1) - star))

\* The name is at its end: what is left of the pattern must be stars.
LEMMA NameEnds ==
  ASSUME NEW pattern, NEW name, NEW p, NEW s, NEW star, NEW mark,
         Within(Len(pattern), Len(name), p, s, star, mark),
         Decides(pattern, name, p, s, star, mark),
         s > Len(name)
  PROVE  Rest(pattern, name, 0, 0) <=> \A i \in p..Len(pattern) : pattern[i] = "*"
<1> DEFINE m == Len(pattern)
           n == Len(name)
<1>1. /\ m \in Nat /\ n \in Nat /\ p \in 1..m + 1 /\ s = n + 1 /\ s - 1 = n
      /\ star \in Nat /\ mark \in Nat
  BY DEF Within
<1>2. Rest(pattern, name, p - 1, n) <=> \A i \in p..m : pattern[i] = "*"
  <2>1. p - 1 \in 0..m /\ (p - 1) + 1 = p
    BY <1>1
  <2> QED
    BY <1>1, <2>1, StarsAreLeft
<1>3. CASE star = 0
  BY <1>1, <1>2, <1>3 DEF Decides
<1>4. CASE star # 0
  <2>1. /\ \A k \in 0..n : mark - 1 <= k /\ k + ((p - 1) - star) \in 0..n
             => k + ((p - 1) - star) = n
        /\ mark - 1 \in 0..n /\ mark - 1 <= mark - 1
    BY <1>1, <1>4 DEF Within
  <2>2. Rest(pattern, name, 0, 0) => Rest(pattern, name, p - 1, n)
    BY <1>4, <2>1 DEF Decides
  <2>3. Rest(pattern, name, p - 1, n) => Rest(pattern, name, 0, 0)
    BY <1>1, <1>4, <2>1 DEF Decides
  <2> QED
    BY <1>2, <2>2, <2>3
<1> QED
  BY <1>3, <1>4

\* A character of the pattern and one of the name agree.
LEMMA CharacterFits ==
  ASSUME NEW pattern, NEW name, NEW p, NEW s, NEW star, NEW mark,
         Within(Len(pattern), Len(name), p, s, star, mark),
         Decides(pattern, name, p, s, star, mark),
         s <= Len(name), p <= Len(pattern), pattern[p] \in {name[s], "?"}, pattern[p] # "*"
  PROVE  Decides(pattern, name, p + 1, s + 1, star, mark)
<1> DEFINE m == Len(pattern)
           n == Len(name)
           i == p - 1
           j == s - 1
           d == (p - 1) - star
<1>1. /\ m \in Nat /\ n \in Nat /\ p \in 1..m /\ s \in 1..n /\ star \in Nat /\ mark \in Nat
      /\ star # 0 => d \in Nat
  BY DEF Within
<1>2. /\ i \in 0..m - 1 /\ j \in 0..n /\ i + 1 = p /\ j + 1 = s /\ s \in 0..n
      /\ (p + 1) - 1 = p /\ (s + 1) - 1 = s /\ ((p + 1) - 1) - star = d + 1
  BY <1>1
<1> HIDE DEF i, j
<1>3. Rest(pattern, name, i, j) <=> Rest(pattern, name, p, s)
  <2>1. Rest(pattern, name, i, j) <=>
          /\ j + 1 \in 0..n /\ Rest(pattern, name, i + 1, j + 1)
          /\ pattern[i + 1] \in {"?", name[j + 1]}
    BY <1>1, <1>2, CharacterStep
  <2> QED
    BY <1>2, <2>1
<1>4. CASE star = 0
  BY <1>2, <1>3, <1>4 DEF Decides, i, j
<1>5. CASE star # 0
  <2>1. ASSUME NEW k \in 0..n, Rest(pattern, name, star, k)
        PROVE  k + (d + 1) \in 0..n /\ Rest(pattern, name, p, k + (d + 1))
    <3>1. k + d \in 0..n /\ Rest(pattern, name, i, k + d)
      BY <1>5, <2>1 DEF Decides, i
    <3>2. (k + d) + 1 = k + (d + 1)
      BY <1>1, <1>5
    <3> HIDE DEF d
    <3>3. (k + d) + 1 \in 0..n /\ Rest(pattern, name, i + 1, (k + d) + 1)
      BY <1>1, <1>2, <3>1, CharacterStep
    <3> QED
      BY <1>2, <3>2, <3>3
  <2>2. Rest(pattern, name, p, s) => Rest(pattern, name, star, mark - 1)
    BY <1>3, <1>5 DEF Decides, i, j
  <2>3. Rest(pattern, name, 0, 0) <=> \E k \in 0..n : mark - 1 <= k /\ Rest(pattern, name, star, k)
    BY <1>5 DEF Decides
  <2> HIDE DEF d
  <2> QED
    BY <1>2, <1>5, <2>1, <2>2, <2>3 DEF Decides
<1> QED
  BY <1>4, <1>5

\* A star of the pattern: it may take nothing first.
LEMMA StarIsMet ==
  ASSUME NEW pattern, NEW name, NEW p, NEW s, NEW star, NEW mark,
         Within(Len(pattern), Len(name), p, s, star, mark),
         Decides(pattern, name, p, s, star, mark),
         s <= Len(name), p <= Len(pattern), pattern[p] = "*"
  PROVE  Decides(pattern, name, p + 1, s, p, s)
<1> DEFINE m == Len(pattern)
           n == Len(name)
           i == p - 1
           j == s - 1
           d == (p - 1) - star
<1>1. /\ m \in Nat /\ n \in Nat /\ p \in 1..m /\ s \in 1..n /\ star \in Nat /\ mark \in Nat
      /\ star # 0 => d \in Nat /\ mark - 1 \in 0..n /\ \A k \in 0..n : mark - 1 <= k => j <= k + d
  BY DEF Within
<1>2. /\ i \in 0..m - 1 /\ j \in 0..n /\ i + 1 = p /\ (p + 1) - 1 = p /\ ((p + 1) - 1) - p = 0
      /\ p # 0 /\ \A k \in 0..n : k + 0 = k
  BY <1>1
<1> HIDE DEF i, j, d
<1>3. \A a \in 0..n : Rest(pattern, name, i, a) <=> \E k \in 0..n : a <= k /\ Rest(pattern, name, p, k)
  <2> TAKE a \in 0..n
  <2>1. Rest(pattern, name, i, a) <=> \E k \in 0..n : a <= k /\ Rest(pattern, name, i + 1, k)
    BY <1>1, <1>2, StarStep
  <2> QED
    BY <1>2, <2>1
<1>4. Rest(pattern, name, 0, 0) <=> Rest(pattern, name, i, j)
  <2>1. CASE star = 0
    BY <2>1 DEF Decides, i, j
  <2>2. CASE star # 0
    <3>1. /\ Rest(pattern, name, 0, 0) <=>
               \E k \in 0..n : mark - 1 <= k /\ Rest(pattern, name, star, k)
          /\ Rest(pattern, name, i, j) => Rest(pattern, name, star, mark - 1)
          /\ \A k \in 0..n : Rest(pattern, name, star, k) =>
               k + d \in 0..n /\ Rest(pattern, name, i, k + d)
      BY <2>2 DEF Decides, i, j, d
    <3>2. Rest(pattern, name, i, j) => Rest(pattern, name, 0, 0)
      BY <1>1, <2>2, <3>1
    <3>3. ASSUME NEW k \in 0..n, mark - 1 <= k, Rest(pattern, name, star, k)
          PROVE  Rest(pattern, name, i, j)
      <4>1. k + d \in 0..n /\ Rest(pattern, name, i, k + d) /\ j <= k + d
        BY <1>1, <2>2, <3>1, <3>3
      <4>2. PICK l \in 0..n : k + d <= l /\ Rest(pattern, name, p, l)
        BY <1>3, <4>1
      <4>3. j <= l
        BY <1>1, <1>2, <4>1, <4>2
      <4> QED
        BY <1>2, <1>3, <4>2, <4>3
    <3> QED
      BY <3>1, <3>2, <3>3
  <2> QED
    BY <2>1, <2>2
<1>5. Rest(pattern, name, 0, 0) <=> \E k \in 0..n : s - 1 <= k /\ Rest(pattern, name, p, k)
  BY <1>2, <1>3, <1>4 DEF j
<1> QED
  BY <1>2, <1>5 DEF Decides

\* Neither fits: what is left does not match here.
LEMMA NothingFits ==
  ASSUME NEW pattern, NEW name, NEW p, NEW s, NEW star, NEW mark,
         Within(Len(pattern), Len(name), p, s, star, mark),
         s <= Len(name),
         p <= Len(pattern) => pattern[p] \notin {name[s], "?"} /\ pattern[p] # "*"
  PROVE  ~Rest(pattern, name, p - 1, s - 1)
<1> DEFINE m == Len(pattern)
           n == Len(name)
           i == p - 1
           j == s - 1
<1>1. /\ m \in Nat /\ n \in Nat /\ p \in 1..m + 1 /\ s \in 1..n
      /\ i \in 0..m /\ j \in 0..n /\ i + 1 = p /\ j + 1 = s /\ j # n
      /\ p <= m => i \in 0..m - 1
      /\ ~(p <= m) => i = m
  BY DEF Within
<1> HIDE DEF i, j
<1>2. CASE p <= m
  <2>1. Rest(pattern, name, i, j) => pattern[i + 1] \in {"?", name[j + 1]}
    BY <1>1, <1>2, CharacterStep
  <2> QED
    BY <1>1, <1>2, <2>1 DEF i, j
<1>3. CASE ~(p <= m)
  <2>1. Rest(pattern, name, m, j) <=> j = n
    BY <1>1, NothingIsLeft
  <2> QED
    BY <1>1, <1>3, <2>1 DEF i, j
<1> QED
  BY <1>2, <1>3

\* The last star takes one character more.
LEMMA StarTakesMore ==
  ASSUME NEW pattern, NEW name, NEW p, NEW s, NEW star, NEW mark,
         Within(Len(pattern), Len(name), p, s, star, mark),
         Decides(pattern, name, p, s, star, mark),
         s <= Len(name), star # 0, ~Rest(pattern, name, p - 1, s - 1)
  PROVE  Decides(pattern, name, star + 1, mark + 1, star, mark + 1)
<1> DEFINE n == Len(name)
           d == (p - 1) - star
<1>1. /\ n \in Nat /\ s \in 1..n /\ star \in Nat /\ mark \in Nat /\ d \in Nat
      /\ (mark - 1) + d = s - 1 /\ mark - 1 \in 0..n
      /\ (mark + 1) - 1 = mark /\ (star + 1) - 1 = star /\ star - star = 0
      /\ \A k \in 0..n : k + 0 = k /\ (mark - 1 <= k /\ k # mark - 1 <=> mark <= k)
  BY DEF Within
<1> HIDE DEF d
<1>2. ~Rest(pattern, name, star, mark - 1)
  <2>1. Rest(pattern, name, star, mark - 1) => Rest(pattern, name, p - 1, (mark - 1) + d)
    BY <1>1 DEF Decides, d
  <2> QED
    BY <1>1, <2>1
<1>3. Rest(pattern, name, 0, 0) <=> \E k \in 0..n : mark - 1 <= k /\ Rest(pattern, name, star, k)
  BY DEF Decides
<1>4. Rest(pattern, name, 0, 0) <=> \E k \in 0..n : mark <= k /\ Rest(pattern, name, star, k)
  BY <1>1, <1>2, <1>3
<1> QED
  BY <1>1, <1>4 DEF Decides

MatchJobs ==
  [kind : {"match"}, pattern : Seq(NameChars \cup {"?", "*"}), name : Seq(NameChars),
   p : Nat, s : Nat, star : Nat, mark : Nat, result : {"none", "yes", "no"}]

NoStarIn(name) == \A i \in DOMAIN name : name[i] # "*"

\* A job that is done has the right result, one that is not will have it.
MatchOK(job) ==
  /\ job \in MatchJobs
  /\ Within(Len(job.pattern), Len(job.name), job.p, job.s, job.star, job.mark)
  /\ NoStarIn(job.name) =>
       IF job.result = "none" THEN Decides(job.pattern, job.name, job.p, job.s, job.star, job.mark)
       ELSE job.result = "yes" <=> Rest(job.pattern, job.name, 0, 0)

\* What the loop may make of a job, in the values of its variables.
Becomes(job, new, p, s, star, mark, result) ==
  /\ new.kind = "match" /\ new.pattern = job.pattern /\ new.name = job.name
  /\ new.p = p /\ new.s = s /\ new.star = star /\ new.mark = mark /\ new.result = result
  /\ p \in Nat /\ s \in Nat /\ star \in Nat /\ mark \in Nat => new \in MatchJobs

OnlyStars(job) == \A i \in job.p..Len(job.pattern) : job.pattern[i] = "*"
Fits(job) == job.p <= Len(job.pattern) /\ job.pattern[job.p] \in {job.name[job.s], "?"}
AtStar(job) == job.p <= Len(job.pattern) /\ job.pattern[job.p] = "*"

LEMMA StepIs ==
  ASSUME NEW job \in MatchJobs, NEW new, new = MatchStep(job)
  PROVE  /\ job.s > Len(job.name) =>
              Becomes(job, new, job.p, job.s, job.star, job.mark, IF OnlyStars(job) THEN "yes" ELSE "no")
         /\ job.s <= Len(job.name) /\ Fits(job) =>
              Becomes(job, new, job.p + 1, job.s + 1, job.star, job.mark, job.result)
         /\ job.s <= Len(job.name) /\ ~Fits(job) /\ AtStar(job) =>
              Becomes(job, new, job.p + 1, job.s, job.p, job.s, job.result)
         /\ job.s <= Len(job.name) /\ ~Fits(job) /\ ~AtStar(job) /\ job.star # 0 =>
              Becomes(job, new, job.star + 1, job.mark + 1, job.star, job.mark + 1, job.result)
         /\ job.s <= Len(job.name) /\ ~Fits(job) /\ ~AtStar(job) /\ job.star = 0 =>
              Becomes(job, new, job.p, job.s, job.star, job.mark, "no")
<1> DEFINE n == Len(job.name)
<1>1. job.s > n <=> ~(job.s <= n)
  BY DEF MatchJobs
<1>2. /\ job.s > n => new = [job EXCEPT !.result = IF OnlyStars(job) THEN "yes" ELSE "no"]
      /\ job.s <= n /\ Fits(job) => new = [job EXCEPT !.p = job.p + 1, !.s = job.s + 1]
      /\ job.s <= n /\ ~Fits(job) /\ AtStar(job) =>
           new = [job EXCEPT !.star = job.p, !.mark = job.s, !.p = job.p + 1]
      /\ job.s <= n /\ ~Fits(job) /\ ~AtStar(job) /\ job.star # 0 =>
           new = [job EXCEPT !.p = job.star + 1, !.mark = job.mark + 1, !.s = job.mark + 1]
      /\ job.s <= n /\ ~Fits(job) /\ ~AtStar(job) /\ job.star = 0 => new = [job EXCEPT !.result = "no"]
  BY <1>1, Zenon DEF MatchStep, Backtrack, OnlyStars, Fits, AtStar
<1>3. job.s > n =>
        Becomes(job, new, job.p, job.s, job.star, job.mark, IF OnlyStars(job) THEN "yes" ELSE "no")
  BY <1>2 DEF Becomes, MatchJobs
<1>4. job.s <= n /\ Fits(job) =>
        Becomes(job, new, job.p + 1, job.s + 1, job.star, job.mark, job.result)
  BY <1>2 DEF Becomes, MatchJobs
<1>5. job.s <= n /\ ~Fits(job) /\ AtStar(job) =>
        Becomes(job, new, job.p + 1, job.s, job.p, job.s, job.result)
  BY <1>2 DEF Becomes, MatchJobs
<1>6. job.s <= n /\ ~Fits(job) /\ ~AtStar(job) /\ job.star # 0 =>
        Becomes(job, new, job.star + 1, job.mark + 1, job.star, job.mark + 1, job.result)
  BY <1>2 DEF Becomes, MatchJobs
<1>7. job.s <= n /\ ~Fits(job) /\ ~AtStar(job) /\ job.star = 0 =>
        Becomes(job, new, job.p, job.s, job.star, job.mark, "no")
  BY <1>2 DEF Becomes, MatchJobs
<1> QED
  BY <1>3, <1>4, <1>5, <1>6, <1>7

LEMMA StaysWithin ==
  ASSUME NEW m, NEW n, NEW p, NEW s, NEW star, NEW mark, Within(m, n, p, s, star, mark), s <= n
  PROVE  /\ p <= m => Within(m, n, p + 1, s + 1, star, mark) /\ Within(m, n, p + 1, s, p, s)
         /\ star # 0 => Within(m, n, star + 1, mark + 1, star, mark + 1)
  BY DEF Within

LEMMA MatchGoesOn ==
  ASSUME NEW job, MatchOK(job), job.result = "none"
  PROVE  MatchOK(MatchStep(job))
<1> DEFINE m == Len(job.pattern)
           n == Len(job.name)
<1> SUFFICES ASSUME NEW new, new = MatchStep(job) PROVE MatchOK(new)
  OBVIOUS
<1>1. job \in MatchJobs /\ Within(m, n, job.p, job.s, job.star, job.mark)
  BY DEF MatchOK
<1>2. NoStarIn(job.name) => Decides(job.pattern, job.name, job.p, job.s, job.star, job.mark)
  BY DEF MatchOK
<1>3. ASSUME NEW p, NEW s, NEW st, NEW mark, NEW result, Becomes(job, new, p, s, st, mark, result),
             Within(m, n, p, s, st, mark),
             NoStarIn(job.name) =>
               IF result = "none" THEN Decides(job.pattern, job.name, p, s, st, mark)
               ELSE result = "yes" <=> Rest(job.pattern, job.name, 0, 0)
      PROVE  MatchOK(new)
  <2>1. p \in Nat /\ s \in Nat /\ st \in Nat /\ mark \in Nat
    BY <1>3 DEF Within
  <2> QED
    BY <1>3, <2>1 DEF Becomes, MatchOK
<1>4. job.s > n \/ job.s <= n
  BY <1>1 DEF Within
<1>5. CASE job.s > n
  <2> DEFINE result == IF OnlyStars(job) THEN "yes" ELSE "no"
  <2>1. Becomes(job, new, job.p, job.s, job.star, job.mark, result)
    BY <1>1, <1>5, StepIs
  <2>2. NoStarIn(job.name) => (Rest(job.pattern, job.name, 0, 0) <=> OnlyStars(job))
    BY <1>1, <1>2, <1>5, NameEnds DEF OnlyStars
  <2>3. result # "none" /\ (result = "yes" <=> OnlyStars(job))
    OBVIOUS
  <2> HIDE DEF result
  <2> QED
    BY <1>1, <1>3, <2>1, <2>2, <2>3
<1>6. CASE job.s <= n /\ Fits(job)
  <2>1. Becomes(job, new, job.p + 1, job.s + 1, job.star, job.mark, "none")
    BY <1>1, <1>6, StepIs
  <2>2. Within(m, n, job.p + 1, job.s + 1, job.star, job.mark)
    BY <1>1, <1>6, StaysWithin DEF Fits
  <2>3. NoStarIn(job.name) => job.pattern[job.p] # "*"
    <3>1. job.s \in DOMAIN job.name
      BY <1>1, <1>6 DEF Within, MatchJobs
    <3> QED
      BY <1>6, <3>1 DEF NoStarIn, Fits
  <2>4. NoStarIn(job.name) => Decides(job.pattern, job.name, job.p + 1, job.s + 1, job.star, job.mark)
    BY <1>1, <1>2, <1>6, <2>3, CharacterFits DEF Fits
  <2> QED
    BY <1>3, <2>1, <2>2, <2>4
<1>7. CASE job.s <= n /\ ~Fits(job) /\ AtStar(job)
  <2>1. Becomes(job, new, job.p + 1, job.s, job.p, job.s, "none")
    BY <1>1, <1>7, StepIs
  <2>2. Within(m, n, job.p + 1, job.s, job.p, job.s)
    BY <1>1, <1>7, StaysWithin DEF AtStar
  <2>3. NoStarIn(job.name) => Decides(job.pattern, job.name, job.p + 1, job.s, job.p, job.s)
    BY <1>1, <1>2, <1>7, StarIsMet DEF AtStar
  <2> QED
    BY <1>3, <2>1, <2>2, <2>3
<1>8. CASE job.s <= n /\ ~Fits(job) /\ ~AtStar(job)
  <2>1. ~Rest(job.pattern, job.name, job.p - 1, job.s - 1)
    BY <1>1, <1>8, NothingFits DEF Fits, AtStar
  <2>2. CASE job.star # 0
    <3>1. Becomes(job, new, job.star + 1, job.mark + 1, job.star, job.mark + 1, "none")
      BY <1>1, <1>8, <2>2, StepIs
    <3>2. Within(m, n, job.star + 1, job.mark + 1, job.star, job.mark + 1)
      BY <1>1, <1>8, <2>2, StaysWithin
    <3>3. NoStarIn(job.name) =>
            Decides(job.pattern, job.name, job.star + 1, job.mark + 1, job.star, job.mark + 1)
      BY <1>1, <1>2, <1>8, <2>1, <2>2, StarTakesMore
    <3> QED
      BY <1>3, <3>1, <3>2, <3>3
  <2>3. CASE job.star = 0
    <3>1. Becomes(job, new, job.p, job.s, job.star, job.mark, "no")
      BY <1>1, <1>8, <2>3, StepIs
    <3>2. NoStarIn(job.name) => ~Rest(job.pattern, job.name, 0, 0)
      BY <1>2, <2>1, <2>3 DEF Decides
    <3> QED
      BY <1>1, <1>3, <3>1, <3>2
  <2> QED
    BY <2>2, <2>3
<1> QED
  BY <1>4, <1>5, <1>6, <1>7, <1>8

LEMMA ElementsAre ==
  ASSUME NEW S, NEW text \in Seq(S)
  PROVE  Len(text) \in Nat /\ DOMAIN text = 1..Len(text) /\ \A k \in 1..Len(text) : text[k] \in S
  OBVIOUS

LEMMA TextsAreSequences ==
  ASSUME NEW S, NEW n \in Nat, NEW text \in TextsOf(S, n)
  PROVE  text \in Seq(S)
<1>1. PICK k \in 0..n : text \in [1..k -> S]
  BY DEF TextsOf
<1> QED
  BY <1>1

LEMMA MatchStarts ==
  ASSUME NEW pattern \in Seq(NameChars \cup {"?", "*"}), NEW name \in Seq(NameChars)
  PROVE  MatchOK(Matching(pattern, name))
<1> SUFFICES ASSUME NEW job, job = Matching(pattern, name) PROVE MatchOK(job)
  OBVIOUS
<1>1. job \in MatchJobs /\ job.pattern = pattern /\ job.name = name /\ job.p = 1 /\ job.s = 1
      /\ job.star = 0 /\ job.mark = 0 /\ job.result = "none"
  BY DEF Matching, MatchJobs
<1>2. Within(Len(pattern), Len(name), 1, 1, 0, 0)
  BY DEF Within
<1>3. Decides(pattern, name, 1, 1, 0, 0)
  <2>1. 1 - 1 = 0
    OBVIOUS
  <2> QED
    BY <2>1 DEF Decides
<1> QED
  BY <1>1, <1>2, <1>3 DEF MatchOK

LEMMA MatchHolds ==
  ASSUME MatchOK(textJob)
  PROVE  MatchIsExact
<1>1. Reference(textJob.pattern, textJob.name) <=> Rest(textJob.pattern, textJob.name, 0, 0)
  BY AllIsLeft
<1> QED
  BY <1>1 DEF MatchOK, MatchIsExact, NoStarIn

-----------------------------------------------------------------------------
(* Bytes as text.                                                          *)

LEMMA Quotients ==
  ASSUME NEW x \in 0..255
  PROVE  /\ x \div 4 \in 0..63 /\ x % 4 \in 0..3 /\ 4 * (x \div 4) + (x % 4) = x
         /\ x \div 16 \in 0..15 /\ x % 16 \in 0..15 /\ 16 * (x \div 16) + (x % 16) = x
         /\ x \div 64 \in 0..3 /\ x % 64 \in 0..63 /\ 64 * (x \div 64) + (x % 64) = x
<1>1. x \div 4 \in 0..63 /\ x % 4 \in 0..3 /\ 4 * (x \div 4) + (x % 4) = x
  OBVIOUS
<1>2. x \div 16 \in 0..15 /\ x % 16 \in 0..15 /\ 16 * (x \div 16) + (x % 16) = x
  OBVIOUS
<1>3. x \div 64 \in 0..3 /\ x % 64 \in 0..63 /\ 64 * (x \div 64) + (x % 64) = x
  OBVIOUS
<1> QED
  BY <1>1, <1>2, <1>3

\* A number and what is put behind it.
LEMMA PutBehind ==
  ASSUME NEW q \in 0..15, NEW r \in 0..15
  PROVE  /\ (q * 16 + r) \div 16 = q /\ (q * 16 + r) % 16 = r /\ q % 16 = q
         /\ q \in 0..3 => q * 16 + r \in 0..63 /\ q % 4 = q
         /\ r \in 0..3 => q * 4 + r \in 0..63 /\ (q * 4 + r) \div 4 = q /\ (q * 4 + r) % 4 = r
<1>1. (q * 16 + r) \div 16 = q /\ (q * 16 + r) % 16 = r
  OBVIOUS
<1>2. q % 16 = q /\ (q \in 0..3 => q * 16 + r \in 0..63 /\ q % 4 = q)
  OBVIOUS
<1>3. r \in 0..3 => q * 4 + r \in 0..63 /\ (q * 4 + r) \div 4 = q /\ (q * 4 + r) % 4 = r
  OBVIOUS
<1> QED
  BY <1>1, <1>2, <1>3

\* Four digits hold three bytes.
AreDigits(d) == d[1] \in 0..63 /\ d[2] \in 0..63 /\ d[3] \in 0..63 /\ d[4] \in 0..63
Hold(d, a, b, c) ==
  /\ (d[1] * 4 + ((d[2] \div 16) % 4)) % 256 = a
  /\ ((d[2] % 16) * 16 + ((d[3] \div 4) % 16)) % 256 = b
  /\ ((d[3] % 4) * 64 + d[4]) % 256 = c

LEMMA GroupOfDigits ==
  ASSUME NEW a \in 0..255, NEW b \in 0..255, NEW c \in 0..255
  PROVE  AreDigits(Digits(a, b, c)) /\ Hold(Digits(a, b, c), a, b, c)
<1> DEFINE a1 == a \div 4
           a2 == a % 4
           b1 == b \div 16
           b2 == b % 16
           c1 == c \div 64
           c2 == c % 64
           d2 == a2 * 16 + b1
           d3 == b2 * 4 + c1
<1>1. Digits(a, b, c) = <<a1, d2, d3, c2>>
  BY DEF Digits
<1>2. a1 \in 0..63 /\ a2 \in 0..3 /\ 4 * a1 + a2 = a
  BY Quotients
<1>3. b1 \in 0..15 /\ b2 \in 0..15 /\ 16 * b1 + b2 = b
  BY Quotients
<1>4. c1 \in 0..3 /\ c2 \in 0..63 /\ 64 * c1 + c2 = c
  BY Quotients
<1> HIDE DEF a1, a2, b1, b2, c1, c2
<1>5. d2 \in 0..63 /\ d2 \div 16 = a2 /\ d2 % 16 = b1 /\ a2 % 4 = a2
  BY <1>2, <1>3, PutBehind
<1>6. d3 \in 0..63 /\ d3 \div 4 = b2 /\ d3 % 4 = c1 /\ b2 % 16 = b2
  BY <1>3, <1>4, PutBehind
<1>7. a % 256 = a /\ b % 256 = b /\ c % 256 = c
  OBVIOUS
<1>8. a1 * 4 + a2 = a /\ b1 * 16 + b2 = b /\ c1 * 64 + c2 = c
  BY <1>2, <1>3, <1>4
<1> HIDE DEF d2, d3
<1>9. /\ (a1 * 4 + ((d2 \div 16) % 4)) % 256 = a
      /\ ((d2 % 16) * 16 + ((d3 \div 4) % 16)) % 256 = b
      /\ ((d3 % 4) * 64 + c2) % 256 = c
  <2>1. a1 * 4 + ((d2 \div 16) % 4) = a /\ (d2 % 16) * 16 + ((d3 \div 4) % 16) = b
        /\ (d3 % 4) * 64 + c2 = c
    BY <1>5, <1>6, <1>8, Zenon
  <2> QED
    BY <1>7, <2>1
<1>10. AreDigits(<<a1, d2, d3, c2>>)
  BY <1>2, <1>4, <1>5, <1>6 DEF AreDigits
<1>11. Hold(<<a1, d2, d3, c2>>, a, b, c)
  BY <1>9 DEF Hold
<1> QED
  BY <1>1, <1>10, <1>11

LEMMA DigitsAre ==
  ASSUME NEW d, AreDigits(d), NEW i \in 1..4
  PROVE  d[i] \in 0..63
<1>1. i = 1 \/ i = 2 \/ i = 3 \/ i = 4
  OBVIOUS
<1> QED
  BY <1>1 DEF AreDigits

LEMMA NoPadding ==
  ASSUME NEW x \in 0..63
  PROVE  x # Pad
  BY DEF Pad

\* The digits of the bytes from the u-th group on.
GroupAt(bytes, u) == Digits(ByteAt(bytes, 3 * u + 1), ByteAt(bytes, 3 * u + 2), ByteAt(bytes, 3 * u + 3))

LEMMA Base64Is ==
  ASSUME NEW bytes \in Seq(0..255)
  PROVE  LET text == ToBase64(bytes)
             n == Len(bytes)
         IN  /\ Len(text) = 4 * ((n + 2) \div 3) /\ DOMAIN text = 1..Len(text)
             /\ \A u \in Nat : \A i \in 1..4 : 4 * u + i \in 1..Len(text) =>
                  text[4 * u + i] = IF i <= (n - 3 * u) + 1 THEN GroupAt(bytes, u)[i] ELSE Pad
<1> DEFINE text == ToBase64(bytes)
           n == Len(bytes)
           length == 4 * ((n + 2) \div 3)
<1>1. n \in Nat /\ length \in Nat
  OBVIOUS
<1>2. text = [k \in 1..length |->
                LET first == 3 * ((k - 1) \div 4)
                    digit == ((k - 1) % 4) + 1
                IN  IF digit > n - first + 1 THEN Pad
                    ELSE Digits(ByteAt(bytes, first + 1), ByteAt(bytes, first + 2),
                                ByteAt(bytes, first + 3))[digit]]
  BY DEF ToBase64
<1> HIDE DEF text, length
<1>3. Len(text) = length /\ DOMAIN text = 1..Len(text)
  BY <1>1, <1>2
<1>4. ASSUME NEW u \in Nat, NEW i \in 1..4, 4 * u + i \in 1..length
      PROVE  text[4 * u + i] = IF i <= (n - 3 * u) + 1 THEN GroupAt(bytes, u)[i] ELSE Pad
  <2>1. ((4 * u + i) - 1) \div 4 = u /\ (((4 * u + i) - 1) % 4) + 1 = i
    OBVIOUS
  <2>2. text[4 * u + i] = IF i > n - 3 * u + 1 THEN Pad ELSE GroupAt(bytes, u)[i]
    BY <1>2, <1>4, <2>1 DEF GroupAt
  <2> QED
    BY <1>1, <2>2
<1> QED
  BY <1>3, <1>4 DEF text, length

\* The digits before the padding.
DigitsOf(n) == 4 * (n \div 3) + (IF n % 3 = 0 THEN 0 ELSE (n % 3) + 1)

LEMMA DigitCount ==
  ASSUME NEW n \in Nat
  PROVE  /\ DigitsOf(n) \in Nat /\ BytesIn(DigitsOf(n)) = n
         /\ DigitsOf(n) <= 4 * ((n + 2) \div 3)
         /\ \A u \in Nat : \A i \in 1..4 : 3 * u < n =>
              (4 * u + i <= DigitsOf(n) <=> i <= (n - 3 * u) + 1)
         /\ \A u \in Nat : 4 * u < 4 * ((n + 2) \div 3) => 3 * u < n
<1> DEFINE q == n \div 3
           r == n % 3
           v == DigitsOf(n)
<1>1. q \in Nat /\ r \in 0..2 /\ 3 * q + r = n
  <2>1. n \div 3 \in Nat /\ n % 3 \in 0..2
    OBVIOUS
  <2>2. 3 * (n \div 3) + (n % 3) = n
    OBVIOUS
  <2> QED
    BY <2>1, <2>2
<1>2. v = 4 * q + (IF r = 0 THEN 0 ELSE r + 1)
  BY DEF DigitsOf
<1> HIDE DEF q, r, v
<1>3. v \in Nat
  BY <1>1, <1>2
<1>4. BytesIn(v) = n
  <2>1. v \div 4 = q /\ v % 4 = IF r = 0 THEN 0 ELSE r + 1
    <3>1. CASE r = 0
      BY <1>1, <1>2, <3>1
    <3>2. CASE r = 1
      BY <1>1, <1>2, <3>2
    <3>3. CASE r = 2
      BY <1>1, <1>2, <3>3
    <3> QED
      BY <1>1, <3>1, <3>2, <3>3
  <2> QED
    BY <1>1, <2>1 DEF BytesIn
<1>5. v <= 4 * ((n + 2) \div 3) /\ \A u \in Nat : 4 * u < 4 * ((n + 2) \div 3) => 3 * u < n
  <2>1. (n + 2) \div 3 = IF r = 0 THEN q ELSE q + 1
    <3>1. CASE r = 0
      BY <1>1, <3>1
    <3>2. CASE r = 1
      BY <1>1, <3>2
    <3>3. CASE r = 2
      BY <1>1, <3>3
    <3> QED
      BY <1>1, <3>1, <3>2, <3>3
  <2> QED
    BY <1>1, <1>2, <2>1
<1>6. ASSUME NEW u \in Nat, NEW i \in 1..4, 3 * u < n
      PROVE  4 * u + i <= v <=> i <= (n - 3 * u) + 1
  <2>1. CASE u < q
    <3>1. u + 1 <= q
      BY <1>1, <2>1
    <3>2. 4 * u + i <= 4 * q /\ 4 * q <= v
      BY <1>1, <1>2, <3>1
    <3>3. 3 * u + 3 <= n
      BY <1>1, <3>1
    <3> QED
      BY <1>1, <1>3, <3>2, <3>3
  <2>2. CASE u = q
    <3>1. 4 * u + i <= v <=> i <= (IF r = 0 THEN 0 ELSE r + 1)
      BY <1>1, <1>2, <2>2
    <3>2. n - 3 * u = r
      BY <1>1, <2>2
    <3>3. r # 0
      BY <1>1, <1>6, <3>2
    <3> QED
      BY <3>1, <3>2, <3>3
  <2>3. CASE u > q
    <3>1. q + 1 <= u
      BY <1>1, <2>3
    <3>2. v <= 4 * q + 3 /\ 4 * q + 4 <= 4 * u
      BY <1>1, <1>2, <3>1
    <3>3. n <= 3 * q + 2 /\ 3 * q + 3 <= 3 * u
      BY <1>1, <3>1
    <3> QED
      BY <1>1, <1>3, <3>2, <3>3
  <2> QED
    BY <1>1, <2>1, <2>2, <2>3
<1> QED
  BY <1>3, <1>4, <1>5, <1>6 DEF v

\* A place in the text is one in a group.
LEMMA InGroup ==
  ASSUME NEW j \in Nat, j > 0
  PROVE  \E u \in Nat : \E i \in 1..4 : j = 4 * u + i
<1> DEFINE u == (j - 1) \div 4
           i == ((j - 1) % 4) + 1
<1>1. 4 * ((j - 1) \div 4) + ((j - 1) % 4) = j - 1
  OBVIOUS
<1>2. u \in Nat /\ i \in 1..4
  OBVIOUS
<1>3. j = 4 * u + i
  BY <1>1, <1>2
<1> HIDE DEF u, i
<1> QED
  BY <1>2, <1>3

LEMMA ByteAtIs ==
  ASSUME NEW bytes \in Seq(0..255), NEW i \in Nat \ {0}
  PROVE  ByteAt(bytes, i) \in 0..255
<1>1. Len(bytes) \in Nat /\ \A k \in 1..Len(bytes) : bytes[k] \in 0..255
  BY ElementsAre, Zenon
<1>2. i <= Len(bytes) => i \in 1..Len(bytes)
  BY <1>1
<1> QED
  BY <1>1, <1>2 DEF ByteAt

\* A digit of the text is no padding, and the padding is behind all digits.
LEMMA DigitAt ==
  ASSUME NEW bytes \in Seq(0..255), NEW j \in 1..Len(ToBase64(bytes))
  PROVE  ToBase64(bytes)[j] = Pad <=> ~(j <= DigitsOf(Len(bytes)))
<1> DEFINE n == Len(bytes)
           text == ToBase64(bytes)
<1>1. n \in Nat /\ Len(text) \in Nat
  BY Base64Is
<1>2. PICK u \in Nat : \E i \in 1..4 : j = 4 * u + i
  <2>1. j \in Nat /\ j > 0
    BY <1>1
  <2> QED
    BY <2>1, InGroup, Zenon
<1>3. PICK i \in 1..4 : j = 4 * u + i
  BY <1>2
<1>4. text[j] = IF i <= (n - 3 * u) + 1 THEN GroupAt(bytes, u)[i] ELSE Pad
  BY <1>3, Base64Is
<1>5. GroupAt(bytes, u)[i] # Pad
  <2>1. 3 * u + 1 \in Nat \ {0} /\ 3 * u + 2 \in Nat \ {0} /\ 3 * u + 3 \in Nat \ {0}
    OBVIOUS
  <2>2. /\ ByteAt(bytes, 3 * u + 1) \in 0..255 /\ ByteAt(bytes, 3 * u + 2) \in 0..255
        /\ ByteAt(bytes, 3 * u + 3) \in 0..255
    BY <2>1, ByteAtIs
  <2>3. GroupAt(bytes, u)[i] \in 0..63
    <3>1. AreDigits(GroupAt(bytes, u))
      BY <2>2, GroupOfDigits, Zenon DEF GroupAt
    <3> QED
      BY <3>1, DigitsAre
  <2> QED
    BY <2>3, NoPadding
<1>6. j <= DigitsOf(n) <=> i <= (n - 3 * u) + 1
  <2>1. 4 * u < 4 * ((n + 2) \div 3)
    <3>1. Len(text) = 4 * ((n + 2) \div 3) /\ j <= Len(text)
      BY <1>1, Base64Is
    <3> QED
      BY <1>1, <1>3, <3>1
  <2>2. 3 * u < n
    BY <1>1, <2>1, DigitCount
  <2> QED
    BY <1>1, <1>3, <2>2, DigitCount
<1> QED
  BY <1>4, <1>5, <1>6

\* What is decoded are the bytes.
LEMMA Base64Survives ==
  ASSUME NEW bytes \in Seq(0..255)
  PROVE  FromBase64(ToBase64(bytes)) = bytes
<1> DEFINE n == Len(bytes)
           text == ToBase64(bytes)
           v == DigitsOf(n)
           valid == IF \E i \in DOMAIN text : text[i] = Pad
                    THEN (CHOOSE i \in DOMAIN text :
                             text[i] = Pad /\ \A j \in 1..i - 1 : text[j] # Pad) - 1
                    ELSE Len(text)
           Digit(i) == IF i <= valid THEN text[i] ELSE 255
           Byte(k) == LET first == 4 * ((k - 1) \div 3)
                          a == Digit(first + 1)
                          b == Digit(first + 2)
                          c == Digit(first + 3)
                          d == Digit(first + 4)
                      IN  CASE (k % 3) = 1 -> (a * 4 + ((b \div 16) % 4)) % 256
                            [] k % 3 = 2 -> ((b % 16) * 16 + ((c \div 4) % 16)) % 256
                            [] OTHER -> ((c % 4) * 64 + d) % 256
<1>1. FromBase64(text) = [k \in 1..BytesIn(valid) |-> Byte(k)]
  BY Zenon DEF FromBase64
<1>2. n \in Nat /\ v \in Nat /\ BytesIn(v) = n
  <2>1. n \in Nat
    OBVIOUS
  <2> HIDE DEF n
  <2> QED
    BY <2>1, DigitCount
<1>3. Len(text) = 4 * ((n + 2) \div 3) /\ DOMAIN text = 1..Len(text) /\ Len(text) \in Nat
  BY <1>2, Base64Is
<1>4. v <= Len(text)
  BY <1>2, <1>3, DigitCount
<1>5. \A j \in 1..Len(text) : text[j] = Pad <=> ~(j <= v)
  BY DigitAt
<1> HIDE DEF text, n, v
<1>6. valid = v
  <2>1. CASE v = Len(text)
    <3>1. ~\E i \in DOMAIN text : text[i] = Pad
      BY <1>2, <1>3, <1>5, <2>1
    <3> QED
      BY <2>1, <3>1, Zenon
  <2>2. CASE v # Len(text)
    <3> DEFINE First(i) == text[i] = Pad /\ \A j \in 1..i - 1 : text[j] # Pad
    <3>1. v + 1 \in DOMAIN text /\ (v + 1) - 1 = v
      BY <1>2, <1>3, <1>4, <2>2
    <3>2. text[v + 1] = Pad
      BY <1>2, <1>3, <1>5, <3>1
    <3>3. \A j \in 1..v : text[j] # Pad
      BY <1>2, <1>3, <1>4, <1>5
    <3>4. First(v + 1)
      BY <3>1, <3>2, <3>3
    <3>5. ASSUME NEW i \in DOMAIN text, First(i) PROVE i = v + 1
      <4>1. ~(i <= v)
        BY <1>3, <1>5, <3>5
      <4>2. i > v + 1 => v + 1 \in 1..i - 1
        BY <1>2, <1>3, <3>5
      <4> QED
        BY <1>2, <1>3, <3>2, <3>5, <4>1, <4>2
    <3> HIDE DEF First
    <3>6. (CHOOSE i \in DOMAIN text : First(i)) = v + 1
      BY <3>1, <3>4, <3>5
    <3>7. \E i \in DOMAIN text : text[i] = Pad
      BY <3>1, <3>2
    <3>8. valid = (CHOOSE i \in DOMAIN text : First(i)) - 1
      BY <3>7, Zenon DEF First
    <3> QED
      BY <3>1, <3>6, <3>8
  <2> QED
    BY <2>1, <2>2
<1> HIDE DEF valid
<1>7. ASSUME NEW u \in Nat, NEW i \in 1..4, 3 * u < n, i <= (n - 3 * u) + 1
      PROVE  Digit(4 * u + i) = GroupAt(bytes, u)[i]
  <2>1. 4 * u + i <= v
    BY <1>2, <1>7, DigitCount DEF v, n
  <2>2. 4 * u + i \in 1..Len(text)
    BY <1>2, <1>3, <1>4, <2>1
  <2>3. text[4 * u + i] = GroupAt(bytes, u)[i]
    BY <1>7, <2>2, Base64Is DEF text, n
  <2> QED
    BY <1>6, <2>1, <2>3
<1> HIDE DEF Digit
<1>8. ASSUME NEW k \in 1..n PROVE Byte(k) = bytes[k]
  <2> DEFINE u == (k - 1) \div 3
             w == (k - 1) % 3
             g == GroupAt(bytes, u)
  <2>1. u \in Nat /\ w \in 0..2 /\ 3 * u + w = k - 1
    <3>1. k - 1 \in Nat
      BY <1>2
    <3>2. 3 * ((k - 1) \div 3) + ((k - 1) % 3) = k - 1
      BY <3>1
    <3> QED
      BY <3>1, <3>2
  <2> HIDE DEF u, w
  <2>2. 3 * u < n /\ w <= (n - 3 * u) - 1 /\ k = (3 * u + w) + 1
    BY <1>2, <2>1
  <2>3. k % 3 = IF w = 0 THEN 1 ELSE IF w = 1 THEN 2 ELSE 0
    <3>1. CASE w = 0
      BY <2>1, <2>2, <3>1
    <3>2. CASE w = 1
      BY <2>1, <2>2, <3>2
    <3>3. CASE w = 2
      BY <2>1, <2>2, <3>3
    <3> QED
      BY <2>1, <3>1, <3>2, <3>3
  <2>4. \A i \in 1..w + 2 : Digit(4 * u + i) = g[i]
    <3> TAKE i \in 1..w + 2
    <3>1. i \in 1..4 /\ i <= (n - 3 * u) + 1
      BY <1>2, <2>1, <2>2
    <3> QED
      BY <1>7, <2>1, <2>2, <3>1, Zenon
  <2>5. Hold(g, ByteAt(bytes, 3 * u + 1), ByteAt(bytes, 3 * u + 2), ByteAt(bytes, 3 * u + 3))
    <3>1. 3 * u + 1 \in Nat \ {0} /\ 3 * u + 2 \in Nat \ {0} /\ 3 * u + 3 \in Nat \ {0}
      BY <2>1
    <3>2. /\ ByteAt(bytes, 3 * u + 1) \in 0..255 /\ ByteAt(bytes, 3 * u + 2) \in 0..255
          /\ ByteAt(bytes, 3 * u + 3) \in 0..255
      BY <3>1, ByteAtIs
    <3> QED
      BY <3>2, GroupOfDigits, Zenon DEF GroupAt
  <2>6. ByteAt(bytes, k) = bytes[k]
    BY <1>2 DEF ByteAt, n
  <2> HIDE DEF g
  <2>7. CASE w = 0
    <3>1. Digit(4 * u + 1) = g[1] /\ Digit(4 * u + 2) = g[2]
      BY <2>1, <2>4, <2>7
    <3>2. k % 3 = 1 /\ k % 3 # 2 /\ k = 3 * u + 1
      BY <2>1, <2>2, <2>3, <2>7
    <3>3. Byte(k) = (Digit(4 * u + 1) * 4 + ((Digit(4 * u + 2) \div 16) % 4)) % 256
      BY <3>2, Zenon DEF u
    <3> QED
      BY <2>5, <2>6, <3>1, <3>2, <3>3, Zenon DEF Hold
  <2>8. CASE w = 1
    <3>1. Digit(4 * u + 2) = g[2] /\ Digit(4 * u + 3) = g[3]
      BY <2>1, <2>4, <2>8
    <3>2. k % 3 = 2 /\ k % 3 # 1 /\ k = 3 * u + 2
      BY <2>1, <2>2, <2>3, <2>8
    <3>3. Byte(k) = ((Digit(4 * u + 2) % 16) * 16 + ((Digit(4 * u + 3) \div 4) % 16)) % 256
      BY <3>2, Zenon DEF u
    <3> QED
      BY <2>5, <2>6, <3>1, <3>2, <3>3, Zenon DEF Hold
  <2>9. CASE w = 2
    <3>1. Digit(4 * u + 3) = g[3] /\ Digit(4 * u + 4) = g[4]
      BY <2>1, <2>4, <2>9
    <3>2. k % 3 # 1 /\ k % 3 # 2 /\ k = 3 * u + 3
      BY <2>1, <2>2, <2>3, <2>9
    <3>3. Byte(k) = ((Digit(4 * u + 3) % 4) * 64 + Digit(4 * u + 4)) % 256
      BY <3>2, Zenon DEF u
    <3> QED
      BY <2>5, <2>6, <3>1, <3>2, <3>3, Zenon DEF Hold
  <2> QED
    BY <2>1, <2>7, <2>8, <2>9
<1> HIDE DEF Byte
<1>9. bytes = [k \in 1..n |-> bytes[k]]
  BY DEF n
<1> QED
  BY <1>1, <1>2, <1>6, <1>8, <1>9 DEF text

-----------------------------------------------------------------------------
(* Functions that are defined by recursion over a text.                     *)

Recursive(N, V, base, Step) ==
  \E f \in [0..N -> V] : f[0] = base /\ \A i \in 1..N : f[i] = Step[i][f[i - 1]]

LEMMA Recursion ==
  ASSUME NEW N \in Nat, NEW V, NEW base \in V, NEW Step \in [Nat -> [V -> V]]
  PROVE  Recursive(N, V, base, Step)
<1> DEFINE Goes(f, n) == f[0] = base /\ \A i \in 1..n : f[i] = Step[i][f[i - 1]]
           Exists(n) == \E f \in [0..n -> V] : Goes(f, n)
           S == {n \in Nat : Exists(n)}
<1>1. Exists(0)
  <2> DEFINE f == [i \in 0..0 |-> base]
  <2>1. f \in [0..0 -> V] /\ f[0] = base /\ 1..0 = {}
    OBVIOUS
  <2> QED
    BY <2>1
<1>2. ASSUME NEW n \in Nat, Exists(n) PROVE Exists(n + 1)
  <2>1. PICK f \in [0..n -> V] : Goes(f, n)
    BY <1>2
  <2> DEFINE g == [i \in 0..n + 1 |-> IF i = n + 1 THEN Step[n + 1][f[n]] ELSE f[i]]
  <2>2. \A i \in 0..n + 1 : i # n + 1 => i \in 0..n
    OBVIOUS
  <2>3. f[n] \in V /\ n + 1 \in Nat
    OBVIOUS
  <2>4. g \in [0..n + 1 -> V]
    BY <2>2, <2>3
  <2>5. g[0] = base
    <3>1. 0 \in 0..n + 1 /\ 0 # n + 1
      OBVIOUS
    <3> QED
      BY <2>1, <3>1
  <2>6. ASSUME NEW i \in 1..n + 1 PROVE g[i] = Step[i][g[i - 1]]
    <3>1. i - 1 \in 0..n + 1 /\ i - 1 # n + 1 /\ i \in 0..n + 1
      OBVIOUS
    <3>2. g[i - 1] = f[i - 1]
      BY <3>1
    <3>3. CASE i = n + 1
      <4>1. i - 1 = n /\ g[i] = Step[n + 1][f[n]]
        BY <3>1, <3>3
      <4> QED
        BY <3>2, <3>3, <4>1
    <3>4. CASE i # n + 1
      <4>1. i \in 1..n /\ g[i] = f[i]
        BY <3>1, <3>4
      <4> QED
        BY <2>1, <3>2, <4>1
    <3> QED
      BY <3>3, <3>4
  <2> HIDE DEF g
  <2> QED
    BY <2>4, <2>5, <2>6
<1> HIDE DEF Exists
<1>3. S = Nat
  <2>1. S \in SUBSET Nat /\ 0 \in S /\ \A n \in S : n + 1 \in S
    BY <1>1, <1>2
  <2> HIDE DEF S
  <2> QED
    BY <2>1, AllNumbers
<1>4. Exists(N)
  BY <1>3
<1> QED
  BY <1>4 DEF Exists, Recursive

\* What holds at the start and goes on to hold, holds everywhere.
LEMMA UptoEnd ==
  ASSUME NEW N \in Nat, NEW P, 0 \in P, \A i \in 1..N : i - 1 \in P => i \in P
  PROVE  \A i \in 0..N : i \in P
<1> DEFINE S == {n \in Nat : n <= N => n \in P}
<1>1. 0 \in S /\ S \in SUBSET Nat
  OBVIOUS
<1>2. ASSUME NEW n \in Nat, n <= N => n \in P, n + 1 <= N PROVE n + 1 \in P
  <2>1. n + 1 \in 1..N /\ (n + 1) - 1 = n /\ n <= N
    BY <1>2
  <2>2. n \in P
    BY <1>2, <2>1
  <2> QED
    BY <2>1, <2>2
<1>3. \A n \in S : n + 1 \in S
  BY <1>2
<1> HIDE DEF S
<1>4. S = Nat
  BY <1>1, <1>3, AllNumbers
<1> QED
  BY <1>4 DEF S

-----------------------------------------------------------------------------
(* Hexadecimal text with a space in it.                                     *)

LEMMA WithoutIs ==
  ASSUME NEW S, NEW text \in Seq(S)
  PROVE  \E f \in [0..Len(text) -> Seq(S)] :
           /\ WithoutSpaces(text) = f[Len(text)] /\ f[0] = <<>>
           /\ \A i \in 1..Len(text) :
                f[i] = IF text[i] = Space THEN f[i - 1] ELSE Append(f[i - 1], text[i])
<1> DEFINE N == Len(text)
           Next(f, i) == IF text[i] = Space THEN f[i - 1] ELSE Append(f[i - 1], text[i])
           Is(f) == f = [i \in 0..N |-> IF i = 0 THEN <<>> ELSE Next(f, i)]
           h == CHOOSE f : Is(f)
           Step == [i \in Nat |-> [v \in Seq(S) |->
                     IF i \in 1..N /\ text[i] # Space THEN Append(v, text[i]) ELSE v]]
<1>1. N \in Nat /\ \A i \in 1..N : text[i] \in S
  BY ElementsAre, Zenon
<1>2. Step \in [Nat -> [Seq(S) -> Seq(S)]] /\ <<>> \in Seq(S)
  BY <1>1
<1>3. \A i \in 1..N : i \in Nat /\ \A v \in Seq(S) :
        Step[i][v] = IF text[i] = Space THEN v ELSE Append(v, text[i])
  BY <1>1
<1> HIDE DEF Step
<1>4. Recursive(N, Seq(S), <<>>, Step)
  BY <1>1, <1>2, Recursion
<1>4a. PICK g \in [0..N -> Seq(S)] : g[0] = <<>> /\ \A i \in 1..N : g[i] = Step[i][g[i - 1]]
  BY <1>4 DEF Recursive
<1>5. \A i \in 1..N : i - 1 \in 0..N /\ i \in 0..N /\ i # 0
  BY <1>1
<1>6. ASSUME NEW i \in 1..N PROVE g[i] = Next(g, i)
  <2>1. g[i - 1] \in Seq(S)
    BY <1>5
  <2> QED
    BY <1>3, <1>4a, <2>1
<1>7. Is(g)
  <2>1. \A i \in 0..N : i # 0 => i \in 1..N
    BY <1>1
  <2> HIDE DEF Next
  <2>2. \A i \in 0..N : g[i] = IF i = 0 THEN <<>> ELSE Next(g, i)
    BY <1>4a, <1>6, <2>1, Zenon
  <2> QED
    BY <2>2, Zenon
<1>8. Is(h)
  BY <1>7, Zenon
<1>9. WithoutSpaces(text) = h[N]
  BY Zenon DEF WithoutSpaces
<1> HIDE DEF h
<1>10. h[0] = <<>> /\ \A i \in 1..N : h[i] = Next(h, i)
  <2>1. 0 \in 0..N
    BY <1>1
  <2> QED
    BY <1>5, <1>8, <2>1
<1>11. \A i \in 0..N : h[i] \in Seq(S)
  <2> DEFINE P == {i \in Nat : h[i] \in Seq(S)}
  <2>1. 0 \in P
    <3>1. h[0] \in Seq(S) /\ 0 \in Nat
      BY <1>2, <1>10
    <3> QED
      BY <3>1, Zenon
  <2>2. ASSUME NEW i \in 1..N, h[i - 1] \in Seq(S) PROVE h[i] \in Seq(S)
    <3>1. h[i] = Next(h, i) /\ text[i] \in S
      BY <1>1, <1>10
    <3> QED
      BY <2>2, <3>1
  <2>3. \A i \in 0..N : i \in P
    <3>1. \A i \in 1..N : i - 1 \in P => i \in P
      BY <1>1, <2>2
    <3> HIDE DEF P
    <3> QED
      BY <1>1, <2>1, <3>1, UptoEnd
  <2> QED
    BY <2>3
<1>12. h \in [0..N -> Seq(S)]
  BY <1>8, <1>11
<1> QED
  BY <1>9, <1>10, <1>12

\* The beginning of a text grows by one character.
LEMMA OneLonger ==
  ASSUME NEW S, NEW text \in Seq(S), NEW n \in 1..Len(text)
  PROVE  SubSeq(text, 1, n) = Append(SubSeq(text, 1, n - 1), text[n])
<1>1. Len(text) \in Nat /\ n \in Nat /\ n - 1 \in Nat /\ 1 <= n /\ n <= Len(text)
  BY ElementsAre
<1>2. /\ SubSeq(text, 1, n) \in Seq(S) /\ SubSeq(text, 1, n - 1) \in Seq(S)
      /\ Len(SubSeq(text, 1, n)) = n /\ Len(SubSeq(text, 1, n - 1)) = n - 1
      /\ \A i \in 1..n : SubSeq(text, 1, n)[i] = text[i]
      /\ \A i \in 1..n - 1 : SubSeq(text, 1, n - 1)[i] = text[i]
  BY <1>1, SMTT(20)
<1> QED
  BY <1>1, <1>2

\* The spaces of a text with one space are left out.
LEMMA SpaceIsDropped ==
  ASSUME NEW h \in Seq(Nat), NEW at \in 0..Len(h), NEW text \in Seq(Int),
         Len(text) = Len(h) + 1, text[at + 1] = Space,
         \A i \in 1..at : text[i] = h[i],
         \A i \in at + 2..Len(h) + 1 : text[i] = h[i - 1]
  PROVE  WithoutSpaces(text) = h
<1> DEFINE M == Len(h)
           Left(i) == IF i <= at THEN i ELSE i - 1
<1>1. M \in Nat /\ at \in Nat /\ at <= M /\ Len(text) = M + 1
  BY ElementsAre
<1>2. PICK f \in [0..Len(text) -> Seq(Int)] :
        /\ WithoutSpaces(text) = f[Len(text)] /\ f[0] = <<>>
        /\ \A i \in 1..Len(text) :
             f[i] = IF text[i] = Space THEN f[i - 1] ELSE Append(f[i - 1], text[i])
  BY WithoutIs
<1>3. \A n \in 1..M : h[n] \in Nat /\ h[n] # Space
  BY ElementsAre, SMTT(20) DEF Space
<1> DEFINE P == {i \in Nat : f[i] = SubSeq(h, 1, Left(i))}
<1>4. 0 \in P
  <2>1. SubSeq(h, 1, 0) = <<>> /\ Left(0) = 0
    BY <1>1
  <2> QED
    BY <1>2, <2>1
<1>5. ASSUME NEW i \in 1..Len(text), f[i - 1] = SubSeq(h, 1, Left(i - 1))
      PROVE  f[i] = SubSeq(h, 1, Left(i))
  <2>1. CASE i <= at
    <3>1. i \in 1..M /\ i \in 1..at /\ Left(i) = i /\ Left(i - 1) = i - 1
      BY <1>1, <2>1, SMTT(20)
    <3>2. text[i] = h[i] /\ text[i] # Space
      BY <1>3, <3>1
    <3>3. SubSeq(h, 1, i) = Append(SubSeq(h, 1, i - 1), h[i])
      BY <3>1, OneLonger
    <3> QED
      BY <1>2, <1>5, <3>1, <3>2, <3>3
  <2>2. CASE i = at + 1
    <3>1. Left(i) = at /\ Left(i - 1) = at
      BY <1>1, <2>2
    <3> QED
      BY <1>2, <1>5, <2>2, <3>1
  <2>3. CASE i > at + 1
    <3>1. /\ i - 1 \in 1..M /\ i \in at + 2..M + 1
          /\ Left(i) = i - 1 /\ Left(i - 1) = (i - 1) - 1
      BY <1>1, <2>3
    <3>2. text[i] = h[i - 1] /\ text[i] # Space
      BY <1>3, <3>1
    <3>3. SubSeq(h, 1, i - 1) = Append(SubSeq(h, 1, (i - 1) - 1), h[i - 1])
      BY <3>1, OneLonger
    <3> QED
      BY <1>2, <1>5, <3>1, <3>2, <3>3
  <2>4. i <= at \/ i = at + 1 \/ i > at + 1
    BY <1>1
  <2> HIDE DEF Left
  <2> QED
    BY <2>1, <2>2, <2>3, <2>4, Zenon
<1>6. \A i \in 1..Len(text) : i - 1 \in P => i \in P
  <2>1. \A i \in 1..Len(text) : i \in Nat
    BY <1>1
  <2> QED
    BY <1>5, <2>1, Zenon
<1>7. Len(text) \in 0..Len(text) /\ Len(text) \in Nat
  BY <1>1
<1>8. Len(text) \in P
  <2> HIDE DEF P
  <2> QED
    BY <1>4, <1>6, <1>7, UptoEnd
<1>9. Left(Len(text)) = M
  BY <1>1
<1>10. SubSeq(h, 1, M) = h
  BY SubSeqFull
<1> QED
  BY <1>2, <1>8, <1>9, <1>10

IsJoined(a, b, c) ==
  /\ c \in Seq(Int) /\ Len(c) = Len(a) + Len(b)
  /\ \A i \in 1..Len(a) + Len(b) : c[i] = IF i <= Len(a) THEN a[i] ELSE b[i - Len(a)]

LEMMA Joined ==
  ASSUME NEW a \in Seq(Int), NEW b \in Seq(Int)
  PROVE  IsJoined(a, b, a \o b)
BY ConcatProperties DEF IsJoined

\* Two digits make a byte again.
LEMMA TwoDigits ==
  ASSUME NEW x \in 0..255, NEW p, NEW q, p = x \div 16, q = x % 16
  PROVE  p \in Nat /\ q \in Nat /\ p * 16 + q = x
<1>1. x \div 16 \in 0..15 /\ x % 16 \in 0..15 /\ 16 * (x \div 16) + (x % 16) = x
  OBVIOUS
<1>2. p \in 0..15 /\ q \in 0..15 /\ 16 * p + q = x
  BY <1>1
<1> QED
  BY <1>2

LEMMA HexSurvives ==
  ASSUME NEW bytes \in Seq(0..255), NEW at \in 0..2 * Len(bytes)
  PROVE  LET text == BytesToHex(bytes)
         IN  HexToBytes(SubSeq(text, 1, at) \o <<Space>> \o SubSeq(text, at + 1, Len(text))) = bytes
<1> DEFINE n == Len(bytes)
           h == BytesToHex(bytes)
           text == SubSeq(h, 1, at) \o <<Space>> \o SubSeq(h, at + 1, Len(h))
<1>1. n \in Nat /\ \A i \in 1..n : bytes[i] \in 0..255
  BY ElementsAre, Zenon
<1>2. \A i \in 1..n : bytes[i] \div 16 \in Nat /\ bytes[i] % 16 \in Nat
  BY <1>1, TwoDigits, Zenon
<1>3. h = [k \in 1..2 * n |-> IF (k % 2) = 1 THEN bytes[(k + 1) \div 2] \div 16 ELSE bytes[k \div 2] % 16]
  BY DEF BytesToHex
<1>4. \A k \in 1..2 * n : h[k] \in Nat
  <2> SUFFICES ASSUME NEW k \in 1..2 * n PROVE h[k] \in Nat
    OBVIOUS
  <2>1. CASE k % 2 = 1
    <3>1. (k + 1) \div 2 \in 1..n
      BY <1>1, <2>1
    <3> QED
      BY <1>2, <1>3, <2>1, <3>1
  <2>2. CASE k % 2 # 1
    <3>1. k \div 2 \in 1..n
      BY <1>1, <2>2
    <3> QED
      BY <1>2, <1>3, <2>2, <3>1
  <2> QED
    BY <2>1, <2>2
<1>5. h \in Seq(Nat) /\ Len(h) = 2 * n
  BY <1>1, <1>3, <1>4
<1>6. \A i \in 1..n : h[2 * i - 1] = bytes[i] \div 16 /\ h[2 * i] = bytes[i] % 16
  <2> SUFFICES ASSUME NEW i \in 1..n PROVE h[2 * i - 1] = bytes[i] \div 16 /\ h[2 * i] = bytes[i] % 16
    OBVIOUS
  <2>1. /\ 2 * i - 1 \in 1..2 * n /\ (2 * i - 1) % 2 = 1 /\ ((2 * i - 1) + 1) \div 2 = i
        /\ 2 * i \in 1..2 * n /\ (2 * i) % 2 # 1 /\ (2 * i) \div 2 = i
    BY <1>1
  <2> QED
    BY <1>3, <2>1
<1> HIDE DEF h
<1>7. /\ text \in Seq(Int) /\ Len(text) = Len(h) + 1 /\ text[at + 1] = Space
      /\ \A i \in 1..at : text[i] = h[i]
      /\ \A i \in at + 2..Len(h) + 1 : text[i] = h[i - 1]
  <2>1. at \in Nat /\ at <= Len(h) /\ Len(h) \in Nat
    BY <1>1, <1>5
  <2>2. /\ SubSeq(h, 1, at) \in Seq(Nat) /\ Len(SubSeq(h, 1, at)) = at
        /\ \A i \in 1..at : SubSeq(h, 1, at)[i] = h[i]
    BY <1>5, <2>1, SubSeqProperties
  <2>3. /\ SubSeq(h, at + 1, Len(h)) \in Seq(Nat) /\ Len(SubSeq(h, at + 1, Len(h))) = Len(h) - at
        /\ \A i \in 1..Len(h) - at : SubSeq(h, at + 1, Len(h))[i] = h[at + i]
    BY <1>5, <2>1, SMTT(20)
  <2> DEFINE a == SubSeq(h, 1, at)
             b == SubSeq(h, at + 1, Len(h))
  <2>4. a \in Seq(Int) /\ b \in Seq(Int) /\ <<Space>> \in Seq(Int)
    BY <2>2, <2>3 DEF Space
  <2> HIDE DEF a, b
  <2>5. Len(a) = at /\ Len(b) = Len(h) - at
    BY <2>2, <2>3 DEF a, b
  <2> DEFINE c == a \o <<Space>>
  <2>6. c \in Seq(Int) /\ Len(c) = at + 1 /\ c[at + 1] = Space /\ \A i \in 1..at : c[i] = a[i]
    <3>1. /\ c \in Seq(Int) /\ Len(c) = Len(a) + Len(<<Space>>)
          /\ \A i \in 1..Len(a) + Len(<<Space>>) :
                c[i] = IF i <= Len(a) THEN a[i] ELSE <<Space>>[i - Len(a)]
      <4>1. IsJoined(a, <<Space>>, c)
        BY <2>4, Joined DEF c
      <4> QED
        BY <4>1, Zenon DEF IsJoined
    <3>2. Len(<<Space>>) = 1 /\ <<Space>>[1] = Space
      OBVIOUS
    <3>3. /\ at + 1 \in 1..at + 1 /\ ~(at + 1 <= at) /\ (at + 1) - at = 1
          /\ \A i \in 1..at : i \in 1..at + 1 /\ i <= at
      BY <2>1
    <3>4. \A i \in 1..at + 1 : c[i] = IF i <= at THEN a[i] ELSE <<Space>>[i - at]
      BY <2>5, <3>1, <3>2, Zenon
    <3>5. c[at + 1] = Space /\ \A i \in 1..at : c[i] = a[i]
      BY <3>2, <3>3, <3>4, Zenon
    <3> QED
      BY <2>5, <3>1, <3>2, <3>5, Zenon
  <2> HIDE DEF c
  <2>7. /\ c \o b \in Seq(Int) /\ Len(c \o b) = Len(h) + 1
        /\ \A i \in 1..Len(h) + 1 : (c \o b)[i] = IF i <= at + 1 THEN c[i] ELSE b[i - (at + 1)]
    <3>1. /\ c \o b \in Seq(Int) /\ Len(c \o b) = Len(c) + Len(b)
          /\ \A i \in 1..Len(c) + Len(b) : (c \o b)[i] = IF i <= Len(c) THEN c[i] ELSE b[i - Len(c)]
      <4>1. c \in Seq(Int) /\ b \in Seq(Int)
        BY <2>4, <2>6
      <4> QED
        BY <4>1, Joined, Zenon DEF IsJoined
    <3>2. Len(c) = at + 1 /\ Len(c) + Len(b) = Len(h) + 1
      BY <2>1, <2>5, <2>6
    <3> QED
      BY <3>1, <3>2, Zenon
  <2>8. text = c \o b
    BY DEF a, b, c
  <2>9. /\ text \in Seq(Int) /\ Len(text) = Len(h) + 1 /\ text[at + 1] = Space
        /\ \A i \in 1..at : text[i] = a[i]
        /\ \A i \in at + 2..Len(h) + 1 : text[i] = b[i - (at + 1)]
    <3> HIDE DEF text
    <3>1. /\ at + 1 \in 1..Len(h) + 1 /\ at + 1 <= at + 1
          /\ \A i \in 1..at : i \in 1..Len(h) + 1 /\ i <= at + 1
          /\ \A i \in at + 2..Len(h) + 1 : i \in 1..Len(h) + 1 /\ ~(i <= at + 1)
      BY <2>1
    <3>2. \A i \in 1..Len(h) + 1 : text[i] = IF i <= at + 1 THEN c[i] ELSE b[i - (at + 1)]
      BY <2>7, <2>8, Zenon
    <3>3. text[at + 1] = Space /\ \A i \in 1..at : text[i] = a[i]
      BY <2>6, <3>1, <3>2, Zenon
    <3>4. \A i \in at + 2..Len(h) + 1 : text[i] = b[i - (at + 1)]
      BY <3>1, <3>2, Zenon
    <3> QED
      BY <2>7, <2>8, <3>3, <3>4, Zenon
  <2> HIDE DEF text
  <2>10. \A i \in at + 2..Len(h) + 1 : b[i - (at + 1)] = h[i - 1]
    <3> SUFFICES ASSUME NEW i \in at + 2..Len(h) + 1 PROVE b[i - (at + 1)] = h[i - 1]
      OBVIOUS
    <3>1. i - (at + 1) \in 1..Len(h) - at /\ at + (i - (at + 1)) = i - 1
      BY <2>1
    <3> QED
      BY <2>3, <3>1 DEF b
  <2> QED
    BY <2>1, <2>2, <2>9, <2>10 DEF a
<1>8. WithoutSpaces(text) = h
  <2>1. at \in 0..Len(h)
    BY <1>5
  <2> HIDE DEF text
  <2> QED
    BY <1>5, <1>7, <2>1, SpaceIsDropped
<1>9. HexToBytes(text) = [k \in 1..n |-> h[2 * k - 1] * 16 + h[2 * k]]
  <2>1. (2 * n) % 2 = 0 /\ (2 * n) \div 2 = n
    BY <1>1
  <2> HIDE DEF text
  <2> QED
    BY <1>5, <1>8, <2>1 DEF HexToBytes
<1>10. \A k \in 1..n : h[2 * k - 1] * 16 + h[2 * k] = bytes[k]
  <2> SUFFICES ASSUME NEW k \in 1..n PROVE h[2 * k - 1] * 16 + h[2 * k] = bytes[k]
    OBVIOUS
  <2>1. bytes[k] \in 0..255
    BY <1>1
  <2> QED
    BY <1>6, <2>1, TwoDigits, Zenon
<1>11. bytes = [k \in 1..n |-> bytes[k]]
  OBVIOUS
<1> HIDE DEF text
<1>12. HexToBytes(text) = bytes
  BY <1>9, <1>10, <1>11
<1> QED
  BY <1>12 DEF text, h

-----------------------------------------------------------------------------
(* Addresses.                                                              *)

LEMMA ValueIs ==
  ASSUME NEW digits \in Seq(Nat), NEW base \in Nat
  PROVE  \E f \in [0..Len(digits) -> Nat] :
           /\ ValueOf(digits, base) = f[Len(digits)] /\ f[0] = 0
           /\ \A i \in 1..Len(digits) : f[i] = f[i - 1] * base + digits[i]
<1> DEFINE N == Len(digits)
           Is(f) == f = [i \in 0..N |-> IF i = 0 THEN 0 ELSE f[i - 1] * base + digits[i]]
           h == CHOOSE f : Is(f)
           Step == [i \in Nat |-> [v \in Nat |-> IF i \in 1..N THEN v * base + digits[i] ELSE v]]
<1>1. N \in Nat /\ (\A i \in 1..N : digits[i] \in Nat /\ i \in Nat /\ i # 0 /\ i - 1 \in 0..N /\ i \in 0..N)
      /\ (\A i \in 0..N : i # 0 => i \in 1..N) /\ 0 \in 0..N
  BY ElementsAre
<1>1a. \A i \in 1..N : \A v \in Nat : v * base + digits[i] \in Nat
  BY <1>1
<1>2. Step \in [Nat -> [Nat -> Nat]] /\ 0 \in Nat
  BY <1>1a
<1>3. \A i \in 1..N : \A v \in Nat : Step[i][v] = v * base + digits[i]
  BY <1>1, Zenon
<1> HIDE DEF Step
<1>4. Recursive(N, Nat, 0, Step)
  BY <1>1, <1>2, Recursion
<1>5. PICK g \in [0..N -> Nat] : g[0] = 0 /\ \A i \in 1..N : g[i] = Step[i][g[i - 1]]
  BY <1>4 DEF Recursive
<1>6. \A i \in 1..N : g[i] = g[i - 1] * base + digits[i]
  BY <1>1, <1>3, <1>5, Zenon
<1>7. Is(g)
  BY <1>1, <1>5, <1>6
<1>8. Is(h)
  BY <1>7
<1>9. ValueOf(digits, base) = h[N]
  BY Zenon DEF ValueOf
<1> HIDE DEF h
<1>10. h[0] = 0 /\ \A i \in 1..N : h[i] = h[i - 1] * base + digits[i]
  BY <1>1, <1>8, Zenon
<1>11. \A i \in 0..N : h[i] \in Nat
  <2> DEFINE P == {i \in Nat : h[i] \in Nat}
  <2>1. 0 \in P
    BY <1>10
  <2>2. \A i \in 1..N : i - 1 \in P => i \in P
    BY <1>1a, <1>1, <1>10, Zenon
  <2>3. \A i \in 0..N : i \in P
    <3> HIDE DEF P
    <3> QED
      BY <1>1, <2>1, <2>2, UptoEnd
  <2> QED
    BY <2>3
<1>12. h \in [0..N -> Nat]
  BY <1>8, <1>11, Zenon
<1> QED
  BY <1>9, <1>10, <1>12

LEMMA ValuesAreNumbers ==
  ASSUME NEW digits \in Seq(Nat), NEW base \in Nat
  PROVE  ValueOf(digits, base) \in Nat
<1>1. Len(digits) \in 0..Len(digits)
  BY ElementsAre
<1>2. PICK f \in [0..Len(digits) -> Nat] : ValueOf(digits, base) = f[Len(digits)]
  BY ValueIs, Zenon
<1> QED
  BY <1>1, <1>2

\* Numbers have a range of their own.
LEMMA NumberIs ==
  ASSUME NEW text, text.digits \in Seq(Nat)
  PROVE  Number(text) \in 0..AddressSpan - 1 \cup {NoAddress}
<1> DEFINE value == ValueOf(text.digits, IF text.sign = "plus" THEN 10 ELSE 16)
<1>1. value \in Nat
  <2>1. (IF text.sign = "plus" THEN 10 ELSE 16) \in Nat
    OBVIOUS
  <2> QED
    BY <2>1, ValuesAreNumbers, Zenon
<1> HIDE DEF value
<1>2. AddressSpan \in Nat \ {0}
  BY TextsAssumption
<1>3. (AddressSpan - value) % AddressSpan \in 0..AddressSpan - 1
  <2>1. AddressSpan - value \in Int
    BY <1>1, <1>2
  <2> QED
    BY <1>2, <2>1
<1> DEFINE Refused == \/ text.digits = <<>> \/ ~text.proper
                      \/ value >= AddressSpan
                      \/ text.sign = "plus" /\ text.prefix
                      \/ text.sign = "plus" /\ \E i \in DOMAIN text.digits : text.digits[i] > 9
<1>4. Number(text) \in {NoAddress, (AddressSpan - value) % AddressSpan}
      \/ (~(value >= AddressSpan) /\ Number(text) = value)
  <2>1. Number(text) = IF Refused THEN NoAddress
                       ELSE IF text.minus THEN (AddressSpan - value) % AddressSpan ELSE value
    BY Zenon DEF Number, value
  <2>2. ~Refused => ~(value >= AddressSpan)
    OBVIOUS
  <2> HIDE DEF Refused
  <2> QED
    BY <2>1, <2>2
<1>5. CASE Number(text) \in {NoAddress, (AddressSpan - value) % AddressSpan}
  BY <1>3, <1>5
<1>6. CASE ~(value >= AddressSpan) /\ Number(text) = value
  BY <1>1, <1>2, <1>6
<1> QED
  BY <1>4, <1>5, <1>6

\* The quotients of an address, down to zero.
LEMMA QuotientsOf ==
  ASSUME NEW N \in Nat, NEW value \in Nat
  PROVE  \E f \in [0..N -> Nat] :
           /\ f = [n \in 0..N |-> IF n = 0 THEN value ELSE f[n - 1] \div 16]
           /\ f = CHOOSE g : g = [n \in 0..N |-> IF n = 0 THEN value ELSE g[n - 1] \div 16]
<1> DEFINE Is(f) == f = [n \in 0..N |-> IF n = 0 THEN value ELSE f[n - 1] \div 16]
           h == CHOOSE f : Is(f)
           Step == [i \in Nat |-> [v \in Nat |-> v \div 16]]
<1>1. (\A i \in 1..N : i \in Nat /\ i # 0 /\ i - 1 \in 0..N /\ i \in 0..N)
      /\ (\A i \in 0..N : i # 0 => i \in 1..N) /\ 0 \in 0..N
  OBVIOUS
<1>2. Step \in [Nat -> [Nat -> Nat]] /\ 0 \in Nat
  <2>1. \A v \in Nat : v \div 16 \in Nat
    OBVIOUS
  <2> QED
    BY <2>1
<1>3. \A i \in 1..N : \A v \in Nat : Step[i][v] = v \div 16
  BY <1>1, Zenon
<1> HIDE DEF Step
<1>4. Recursive(N, Nat, value, Step)
  BY <1>1, <1>2, Recursion
<1>5. PICK g \in [0..N -> Nat] : g[0] = value /\ \A i \in 1..N : g[i] = Step[i][g[i - 1]]
  BY <1>4 DEF Recursive
<1>6. \A i \in 1..N : g[i] = g[i - 1] \div 16
  BY <1>1, <1>3, <1>5, Zenon
<1>7. Is(g)
  BY <1>1, <1>5, <1>6
<1>8. Is(h)
  BY <1>7
<1>9. h = CHOOSE f : Is(f)
  OBVIOUS
<1> HIDE DEF h
<1>10. h[0] = value /\ \A i \in 1..N : h[i] = h[i - 1] \div 16
  BY <1>1, <1>8, Zenon
<1>11. \A i \in 0..N : h[i] \in Nat
  <2> DEFINE P == {i \in Nat : h[i] \in Nat}
  <2>1. 0 \in P
    BY <1>10
  <2>2. \A i \in 1..N : i - 1 \in P => i \in P
    BY <1>1, <1>10
  <2>3. \A i \in 0..N : i \in P
    <3> HIDE DEF P
    <3> QED
      BY <2>1, <2>2, UptoEnd
  <2> QED
    BY <2>3
<1>12. h \in [0..N -> Nat]
  BY <1>8, <1>11, Zenon
<1> QED
  BY <1>8, <1>9, <1>12, Zenon

LEMMA Least ==
  ASSUME NEW S \in SUBSET Nat, S # {}
  PROVE  \E n \in S : \A m \in 0..n - 1 : m \notin S
<1>1. PICK n \in S : \A m \in S : ~(<<m, n>> \in OpToRel(<, Nat))
  BY NatLessThanWellFounded, WFMin
<1>2. \A m \in S : ~(m < n)
  BY <1>1 DEF OpToRel
<1> QED
  BY <1>2

\* The digits of an address are what is left of it, sixteenth by sixteenth.
IsWritten(value, prefix, width, Left) ==
  /\ width \in Nat \ {0} /\ Left \in [0..width -> Nat]
  /\ Left[0] = value /\ Left[width] = 0
  /\ \A n \in 1..width : Left[n] = Left[n - 1] \div 16
  /\ FormatAddress(value, prefix) =
       AddressText("none", prefix, FALSE, TRUE, [k \in 1..width |-> Left[width - k] % 16])

LEMMA FormatIs ==
  ASSUME NEW value \in Nat, NEW prefix
  PROVE  \E width, Left : IsWritten(value, prefix, width, Left)
<1> DEFINE N == AddressWidth + value
           L == CHOOSE g : g = [n \in 0..N |-> IF n = 0 THEN value ELSE g[n - 1] \div 16]
           Enough(n) == AddressWidth <= n /\ L[n] = 0
           First(n) == Enough(n) /\ \A m \in 0..n - 1 : ~Enough(m)
           width == CHOOSE n \in 0..N : First(n)
<1>1. AddressWidth \in Nat \ {0} /\ N \in Nat
  BY TextsAssumption
<1>2. FormatAddress(value, prefix) =
        AddressText("none", prefix, FALSE, TRUE, [k \in 1..width |-> L[width - k] % 16])
  BY Zenon DEF FormatAddress
<1>3. L \in [0..N -> Nat] /\ L = [n \in 0..N |-> IF n = 0 THEN value ELSE L[n - 1] \div 16]
  <2> HIDE DEF N
  <2>1. PICK f \in [0..N -> Nat] :
          /\ f = [n \in 0..N |-> IF n = 0 THEN value ELSE f[n - 1] \div 16]
          /\ f = CHOOSE g : g = [n \in 0..N |-> IF n = 0 THEN value ELSE g[n - 1] \div 16]
    BY <1>1, QuotientsOf, Zenon
  <2>2. f = L
    BY <2>1, Zenon
  <2> QED
    BY <2>1, <2>2, Zenon
<1> HIDE DEF L
<1>4. L[0] = value /\ \A n \in 1..N : L[n] = L[n - 1] \div 16 /\ L[n] \in Nat /\ L[n - 1] \in Nat
  <2>1. 0 \in 0..N /\ \A n \in 1..N : n \in 0..N /\ n # 0 /\ n - 1 \in 0..N
    BY <1>1
  <2> QED
    BY <1>3, <2>1, Zenon
<1>5. L[N] = 0
  <2> DEFINE P == {i \in Nat : L[i] = 0 \/ L[i] + i <= value}
  <2>1. 0 \in P
    BY <1>4
  <2>2. ASSUME NEW i \in 1..N, L[i - 1] = 0 \/ L[i - 1] + (i - 1) <= value
        PROVE  L[i] = 0 \/ L[i] + i <= value
    <3> DEFINE x == L[i - 1]
               y == L[i]
    <3>1. x \in Nat /\ y = x \div 16 /\ (x = 0 \/ x + (i - 1) <= value) /\ i \in Nat
      BY <1>1, <1>4, <2>2
    <3> HIDE DEF x, y
    <3>2. y = 0 \/ y + i <= value
      BY <3>1
    <3> QED
      BY <3>2 DEF y
  <2>3. \A i \in 1..N : i \in Nat
    BY <1>1
  <2>4. \A i \in 1..N : i - 1 \in P => i \in P
    BY <2>2, <2>3, Zenon
  <2>5. N \in P
    <3>1. N \in 0..N
      BY <1>1
    <3> HIDE DEF P
    <3> QED
      BY <1>1, <2>1, <2>4, <3>1, UptoEnd, Zenon
  <2>6. L[N] = 0 \/ L[N] + N <= value
    BY <2>5, Zenon
  <2>7. L[N] \in Nat
    <3>1. N \in 0..N
      BY <1>1
    <3> QED
      BY <1>3, <3>1, Zenon
  <2> QED
    BY <1>1, <2>6, <2>7
<1>6. \E n \in 0..N : First(n)
  <2> DEFINE S == {n \in 0..N : Enough(n)}
  <2>1. N \in S
    BY <1>1, <1>5
  <2>2. S \in SUBSET Nat /\ S # {}
    BY <2>1
  <2>3. PICK n \in S : \A m \in 0..n - 1 : m \notin S
    <3> HIDE DEF S
    <3> QED
      BY <2>2, Least
  <2>4. n \in 0..N /\ Enough(n)
    OBVIOUS
  <2>5. \A m \in 0..n - 1 : m \in 0..N
    BY <1>1, <2>4
  <2>6. \A m \in 0..n - 1 : ~Enough(m)
    BY <2>3, <2>5, Zenon
  <2> QED
    BY <2>4, <2>6, Zenon
<1>7. width \in 0..N /\ First(width)
  <2> HIDE DEF First
  <2> QED
    BY <1>6
<1> HIDE DEF width
<1>8. width \in Nat \ {0} /\ width <= N /\ L[width] = 0
  BY <1>1, <1>7
<1> DEFINE Left == [n \in 0..width |-> L[n]]
<1>9. Left \in [0..width -> Nat] /\ Left[0] = value /\ Left[width] = 0
  <2>1. \A n \in 0..width : n \in 0..N
    BY <1>1, <1>8
  <2>2. 0 \in 0..width /\ width \in 0..width
    BY <1>8
  <2> QED
    BY <1>3, <1>4, <1>8, <2>1, <2>2, Zenon
<1>10. \A n \in 1..width : Left[n] = Left[n - 1] \div 16
  <2>1. \A n \in 1..width : n \in 1..N /\ n \in 0..width /\ n - 1 \in 0..width
    BY <1>1, <1>8
  <2> QED
    BY <1>4, <2>1, Zenon
<1>11. [k \in 1..width |-> L[width - k] % 16] = [k \in 1..width |-> Left[width - k] % 16]
  <2>1. \A k \in 1..width : width - k \in 0..width
    BY <1>8
  <2> QED
    BY <2>1, Zenon
<1> HIDE DEF Left
<1>12. IsWritten(value, prefix, width, Left)
  BY <1>2, <1>8, <1>9, <1>10, <1>11, Zenon DEF IsWritten
<1> QED
  BY <1>12, Zenon

\* What is left of an address is the value of its first digits.
LEMMA AddressSurvives ==
  ASSUME NEW value \in 0..AddressSpan - 1, NEW prefix
  PROVE  ParseAddress(FormatAddress(value, prefix)) = value
<1>1. value \in Nat /\ AddressSpan \in Nat /\ ~(value >= AddressSpan) /\ value # NoAddress
  BY TextsAssumption DEF NoAddress
<1>2. PICK width, Left : IsWritten(value, prefix, width, Left)
  BY <1>1, FormatIs
<1>3. /\ width \in Nat \ {0} /\ Left \in [0..width -> Nat] /\ Left[0] = value /\ Left[width] = 0
      /\ \A n \in 1..width : Left[n] = Left[n - 1] \div 16
  BY <1>2 DEF IsWritten
<1> DEFINE digits == [k \in 1..width |-> Left[width - k] % 16]
           text == FormatAddress(value, prefix)
<1>4. text = AddressText("none", prefix, FALSE, TRUE, digits)
  BY <1>2 DEF IsWritten
<1>5. \A k \in 1..width : width - k \in 0..width /\ width - (k - 1) \in 1..width
                          /\ (width - (k - 1)) - 1 = width - k
  BY <1>3
<1>6. \A k \in 1..width : digits[k] = Left[width - k] % 16 /\ digits[k] \in Nat
                          /\ Left[width - (k - 1)] = Left[width - k] \div 16 /\ Left[width - k] \in Nat
  <2>1. \A x \in Nat : x % 16 \in Nat
    OBVIOUS
  <2> QED
    BY <1>3, <1>5, <2>1, Zenon
<1>7. digits \in Seq(Nat) /\ Len(digits) = width /\ digits # <<>>
  <2>1. digits = [k \in 1..width |-> digits[k]] /\ \A k \in 1..width : digits[k] \in Nat
    BY <1>6, Zenon
  <2> HIDE DEF digits
  <2>2. digits \in Seq(Nat) /\ Len(digits) = width
    BY <1>3, <2>1
  <2> QED
    BY <1>3, <2>2
<1> HIDE DEF digits, text
<1>8. PICK f \in [0..Len(digits) -> Nat] :
        /\ ValueOf(digits, 16) = f[Len(digits)] /\ f[0] = 0
        /\ \A i \in 1..Len(digits) : f[i] = f[i - 1] * 16 + digits[i]
  BY <1>7, ValueIs
<1>9. f[width] = value
  <2> DEFINE P == {i \in Nat : f[i] = Left[width - i]}
  <2>1. 0 \in P
    BY <1>3, <1>8
  <2>2. ASSUME NEW i \in 1..width, f[i - 1] = Left[width - (i - 1)] PROVE f[i] = Left[width - i]
    <3> DEFINE x == Left[width - i]
               q == Left[width - (i - 1)]
               r == digits[i]
    <3>1. x \in Nat /\ q = x \div 16 /\ r = x % 16
      BY <1>6
    <3>2. f[i] = q * 16 + r
      BY <1>7, <1>8, <2>2
    <3> HIDE DEF x, q, r
    <3>3. q * 16 + r = x
      <4>1. 16 * (x \div 16) + (x % 16) = x
        BY <3>1
      <4> QED
        BY <3>1, <4>1
    <3> QED
      BY <3>2, <3>3 DEF x
  <2>3. \A i \in 1..width : i \in Nat
    BY <1>3
  <2>4. \A i \in 1..width : i - 1 \in P => i \in P
    BY <2>2, <2>3, Zenon
  <2>5. width \in P
    <3>1. width \in 0..width /\ width \in Nat
      BY <1>3
    <3> HIDE DEF P
    <3> QED
      BY <2>1, <2>4, <3>1, UptoEnd, Zenon
  <2>6. f[width] = Left[width - width] /\ width - width = 0
    BY <1>3, <2>5
  <2> QED
    BY <1>3, <2>6
<1>10. ValueOf(digits, 16) = value
  BY <1>7, <1>8, <1>9
<1>11. /\ text.sign = "none" /\ text.minus = FALSE /\ text.proper = TRUE /\ text.digits = digits
  BY <1>4 DEF AddressText
<1>12. Number(text) = value
  <2>1. (IF text.sign = "plus" THEN 10 ELSE 16) = 16 /\ text.sign # "plus"
    BY <1>11
  <2>2. ValueOf(text.digits, IF text.sign = "plus" THEN 10 ELSE 16) = value
    BY <1>10, <1>11, <2>1, Zenon
  <2> QED
    BY <1>1, <1>7, <1>11, <2>1, <2>2, Zenon DEF Number
<1>13. ParseAddress(text) = value
  <2>1. text.sign # "minus" /\ Number(text) # NoAddress
    BY <1>1, <1>11, <1>12
  <2> QED
    BY <1>12, <2>1, Zenon DEF ParseAddress
<1> QED
  BY <1>13 DEF text

-----------------------------------------------------------------------------
(* Names in UTF-8.                                                          *)

Points == 0..2047
Octets == 0..255
IsAscii(c) == c \in 0..127
IsPair(c, a, b) == a \in 194..223 /\ b \in 128..191 /\ (a - 192) * 64 + b - 128 = c

LEMMA PointIs ==
  ASSUME NEW c \in Points
  PROVE  \/ IsAscii(c) /\ EncodePoint(c) = <<c>>
         \/ \E a \in Octets, b \in Octets : IsPair(c, a, b) /\ EncodePoint(c) = <<a, b>>
<1>0. c \in Nat /\ c \div 64 <= 31
  BY SMT DEF Points
<1>1. CASE c < 128
  <2>1. IsAscii(c)
    BY <1>0, <1>1 DEF IsAscii
  <2>2. EncodePoint(c) = <<c>>
    BY <1>1, Zenon DEF EncodePoint
  <2> QED
    BY <2>1, <2>2, Zenon
<1>2. CASE ~(c < 128)
  <2> DEFINE q == c \div 64
             r == c % 64
  <2>1. q \in 2..31 /\ r \in 0..63 /\ 64 * q + r = c
    BY <1>0, <1>2
  <2>2. EncodePoint(c) = <<192 + q, 128 + r>>
    BY <1>2, Zenon DEF EncodePoint
  <2> HIDE DEF q, r
  <2>3. 192 + q \in Octets /\ 128 + r \in Octets /\ IsPair(c, 192 + q, 128 + r)
    BY <2>1 DEF IsPair, Octets
  <2> QED
    BY <2>2, <2>3, Zenon
<1> QED
  BY <1>1, <1>2, Zenon

LEMMA PointsAreBytes ==
  ASSUME NEW c \in Points
  PROVE  EncodePoint(c) \in Seq(Octets) /\ Len(EncodePoint(c)) \in 1..2
<1>1. CASE IsAscii(c) /\ EncodePoint(c) = <<c>>
  BY <1>1 DEF IsAscii, Octets
<1>2. CASE \E a \in Octets, b \in Octets : IsPair(c, a, b) /\ EncodePoint(c) = <<a, b>>
  BY <1>2
<1> QED
  BY <1>1, <1>2, PointIs, Zenon

\* The encodings of a name's beginnings.
Encodes(points, f) ==
  /\ f \in [0..Len(points) -> Seq(Octets)]
  /\ Utf8(points) = f[Len(points)] /\ f[0] = <<>>
  /\ \A i \in 1..Len(points) : f[i] = f[i - 1] \o EncodePoint(points[i])

LEMMA Utf8Is ==
  ASSUME NEW points \in Seq(Points)
  PROVE  \E f : Encodes(points, f)
<1> DEFINE N == Len(points)
           V == Seq(Octets)
           Is(f) == f = [i \in 0..N |-> IF i = 0 THEN <<>> ELSE f[i - 1] \o EncodePoint(points[i])]
           h == CHOOSE f : Is(f)
           Step == [i \in Nat |-> [v \in V |-> IF i \in 1..N THEN v \o EncodePoint(points[i]) ELSE v]]
<1>1. /\ N \in Nat /\ 0 \in 0..N /\ \A i \in 0..N : i # 0 => i \in 1..N
      /\ \A i \in 1..N : points[i] \in Points /\ i \in Nat /\ i # 0 /\ i - 1 \in 0..N /\ i \in 0..N
  BY ElementsAre
<1>2. \A i \in 1..N : \A v \in V : v \o EncodePoint(points[i]) \in V
  <2>1. \A i \in 1..N : EncodePoint(points[i]) \in V
    BY <1>1, PointsAreBytes, Zenon
  <2> QED
    BY <2>1, ConcatProperties, Zenon
<1>3. <<>> \in V
  OBVIOUS
<1> HIDE DEF V
<1>4. Step \in [Nat -> [V -> V]]
  BY <1>2
<1>5. \A i \in 1..N : \A v \in V : Step[i][v] = v \o EncodePoint(points[i])
  BY <1>1, Zenon
<1> HIDE DEF Step
<1>6. Recursive(N, V, <<>>, Step)
  BY <1>1, <1>3, <1>4, Recursion
<1>7. PICK g \in [0..N -> V] : g[0] = <<>> /\ \A i \in 1..N : g[i] = Step[i][g[i - 1]]
  BY <1>6 DEF Recursive
<1>8. \A i \in 1..N : g[i] = g[i - 1] \o EncodePoint(points[i])
  BY <1>1, <1>5, <1>7, Zenon
<1>9. Is(g)
  <2>1. \A i \in 0..N : g[i] = IF i = 0 THEN <<>> ELSE g[i - 1] \o EncodePoint(points[i])
    BY <1>1, <1>7, <1>8, Zenon
  <2> QED
    BY <2>1, Zenon
<1>10. Is(h)
  BY <1>9, Zenon
<1>11. Utf8(points) = h[N]
  BY Zenon DEF Utf8
<1> HIDE DEF h
<1>12. h[0] = <<>> /\ \A i \in 1..N : h[i] = h[i - 1] \o EncodePoint(points[i])
  BY <1>1, <1>10, Zenon
<1>13. \A i \in 0..N : h[i] \in V
  <2> DEFINE P == {i \in Nat : h[i] \in V}
  <2>1. 0 \in P
    <3>1. 0 \in Nat
      OBVIOUS
    <3> QED
      BY <1>3, <1>12, <3>1, Zenon
  <2>2. \A i \in 1..N : i - 1 \in P => i \in P
    BY <1>1, <1>2, <1>12, Zenon
  <2>3. \A i \in 0..N : i \in P
    <3> HIDE DEF P
    <3> QED
      BY <1>1, <2>1, <2>2, UptoEnd, Zenon
  <2> QED
    BY <2>3, Zenon
<1>14. h \in [0..N -> V]
  BY <1>10, <1>13, Zenon
<1>15. Encodes(points, h)
  BY <1>11, <1>12, <1>14, Zenon DEF Encodes, V
<1> QED
  BY <1>15, Zenon

\* A text of characters below 128 is its own encoding.
LEMMA AsciiIsItself ==
  ASSUME NEW text \in Seq(0..127)
  PROVE  Utf8(text) = text
<1> DEFINE N == Len(text)
<1>1. text \in Seq(Points)
  <2>1. 0..127 \subseteq Points
    BY DEF Points
  <2> QED
    BY <2>1, SeqMonotonic, Zenon
<1>2. PICK f : Encodes(text, f)
  BY <1>1, Utf8Is
<1>3. f[0] = <<>> /\ Utf8(text) = f[N] /\ \A i \in 1..N : f[i] = f[i - 1] \o EncodePoint(text[i])
  BY <1>2, Zenon DEF Encodes
<1>4. N \in Nat /\ \A i \in 1..N : text[i] \in 0..127 /\ i \in Nat
  BY ElementsAre
<1>5. \A i \in 1..N : EncodePoint(text[i]) = <<text[i]>>
  <2>1. \A c \in 0..127 : c < 128
    OBVIOUS
  <2>2. \A c \in 0..127 : EncodePoint(c) = <<c>>
    BY <2>1, Zenon DEF EncodePoint
  <2> QED
    BY <1>4, <2>2, Zenon
<1> DEFINE P == {i \in Nat : f[i] = SubSeq(text, 1, i)}
<1>6. 0 \in P
  <2>1. SubSeq(text, 1, 0) = <<>> /\ 0 \in Nat
    OBVIOUS
  <2> QED
    BY <1>3, <2>1, Zenon
<1>7. ASSUME NEW i \in 1..N, f[i - 1] = SubSeq(text, 1, i - 1) PROVE f[i] = SubSeq(text, 1, i)
  <2>1. SubSeq(text, 1, i) = Append(SubSeq(text, 1, i - 1), text[i])
    BY OneLonger
  <2>2. SubSeq(text, 1, i - 1) \in Seq(0..127)
    BY <1>4
  <2>3. Append(SubSeq(text, 1, i - 1), text[i]) = SubSeq(text, 1, i - 1) \o <<text[i]>>
    BY <1>4, <2>2, AppendIsConcat
  <2> QED
    BY <1>3, <1>5, <1>7, <2>1, <2>3, Zenon
<1>8. \A i \in 1..N : i - 1 \in P => i \in P
  BY <1>4, <1>7, Zenon
<1>9. N \in P
  <2>1. N \in 0..N
    BY <1>4
  <2> HIDE DEF P
  <2> QED
    BY <1>4, <1>6, <1>8, <2>1, UptoEnd, Zenon
<1>10. f[N] = SubSeq(text, 1, N)
  BY <1>9, Zenon
<1> QED
  BY <1>3, <1>10, SubSeqFull, Zenon

\* A byte that stands where one may stand, and what is decoded up to it.
Stands(bytes, i) ==
  \/ bytes[i] < 128
  \/ bytes[i] \in 194..223 /\ (i + 1 <= Len(bytes) /\ bytes[i + 1] \in 128..191)
  \/ i > 1 /\ (i <= Len(bytes) /\ bytes[i] \in 128..191) /\ bytes[i - 1] \in 194..223
DecodedAt(bytes, D, i) ==
  IF bytes[i] < 128 THEN Append(D[i - 1], bytes[i])
  ELSE IF bytes[i] \in 194..223 THEN D[i - 1]
  ELSE Append(D[i - 1], (bytes[i - 1] - 192) * 64 + bytes[i] - 128)
Decodes(bytes, D) ==
  /\ Utf16(bytes) = D[Len(bytes)] /\ D[0] = <<>>
  /\ \A i \in 1..Len(bytes) : D[i] = DecodedAt(bytes, D, i)

LEMMA Utf16Is ==
  ASSUME NEW bytes \in Seq(Octets), \A i \in 1..Len(bytes) : Stands(bytes, i)
  PROVE  \E D : Decodes(bytes, D)
<1> DEFINE N == Len(bytes)
           Two(i) == (bytes[i - 1] - 192) * 64 + bytes[i] - 128
           T == {bytes[i] : i \in 1..N} \cup {Two(i) : i \in 1..N}
           V == Seq(T)
           Next(v, i) == IF bytes[i] < 128 THEN Append(v, bytes[i])
                         ELSE IF bytes[i] \in 194..223 THEN v
                         ELSE Append(v, Two(i))
           Is(f) == f = [n \in 0..N |-> IF n = 0 THEN <<>> ELSE Next(f[n - 1], n)]
           h == CHOOSE f : Is(f)
           Step == [i \in Nat |-> [v \in V |-> IF i \in 1..N THEN Next(v, i) ELSE v]]
<1>1. /\ N \in Nat /\ 0 \in 0..N /\ DOMAIN bytes = 1..N
      /\ (\A i \in 0..N : i # 0 => i \in 1..N)
      /\ \A i \in 1..N : i \in Nat /\ i # 0 /\ i - 1 \in 0..N /\ i \in 0..N
  BY ElementsAre
<1>2. \A i \in 1..N : bytes[i] \in T /\ Two(i) \in T
  <2> HIDE DEF Two
  <2> QED
    OBVIOUS
<1> HIDE DEF T
<1>3. <<>> \in V
  OBVIOUS
<1>4. \A i \in 1..N : \A v \in V : Next(v, i) \in V
  <2>1. \A v \in V, t \in T : Append(v, t) \in V
    BY AppendProperties, Zenon
  <2> HIDE DEF V, Two
  <2> QED
    BY <1>2, <2>1, Zenon
<1> HIDE DEF V
<1>5. Step \in [Nat -> [V -> V]]
  <2> HIDE DEF Next
  <2> QED
    BY <1>4
<1>6. \A i \in 1..N : \A v \in V : Step[i][v] = Next(v, i)
  <2> HIDE DEF Next
  <2> QED
    BY <1>1, Zenon
<1> HIDE DEF Step
<1>7. Recursive(N, V, <<>>, Step)
  BY <1>1, <1>3, <1>5, Recursion
<1>8. PICK g \in [0..N -> V] : g[0] = <<>> /\ \A i \in 1..N : g[i] = Step[i][g[i - 1]]
  BY <1>7 DEF Recursive
<1>9. \A i \in 1..N : g[i] = Next(g[i - 1], i)
  <2> HIDE DEF Next
  <2> QED
    BY <1>1, <1>6, <1>8, Zenon
<1>10. g = [n \in 0..N |-> IF n = 0 THEN <<>> ELSE Next(g[n - 1], n)]
  <2> HIDE DEF Next
  <2> QED
    BY <1>1, <1>8, <1>9
<1>11. Is(h)
  <2> HIDE DEF Next
  <2> QED
    BY <1>10, Zenon
<1>12. Utf16(bytes) = h[N]
  <2>1. \A i \in DOMAIN bytes : Stands(bytes, i)
    BY <1>1, Zenon
  <2> QED
    BY <2>1, Zenon DEF Utf16, Stands
<1> HIDE DEF h
<1>13. h[0] = <<>> /\ \A i \in 1..N : h[i] = Next(h[i - 1], i)
  <2> HIDE DEF Next
  <2> QED
    BY <1>1, <1>11, Zenon
<1>14. Decodes(bytes, h)
  BY <1>12, <1>13, Zenon DEF Decodes, DecodedAt
<1> QED
  BY <1>14, Zenon

\* Every beginning of a name is encoded at the beginning of its text.
LEMMA Beginnings ==
  ASSUME NEW points \in Seq(Points), NEW f, Encodes(points, f), NEW i \in 0..Len(points)
  PROVE  /\ Len(f[i]) <= Len(f[Len(points)])
         /\ \A k \in 1..Len(f[i]) : f[Len(points)][k] = f[i][k]
<1> DEFINE N == Len(points)
           Begins(j, m) == Len(f[j]) <= Len(f[m]) /\ \A k \in 1..Len(f[j]) : f[m][k] = f[j][k]
           P == {m \in Nat : i <= m => Begins(i, m)}
<1>1. N \in Nat /\ i \in Nat /\ i <= N /\ \A m \in 1..N : m \in Nat /\ m - 1 \in 0..N
  <2>1. N \in Nat
    BY ElementsAre, Zenon
  <2> QED
    BY <2>1
<1>2. \A m \in 0..N : f[m] \in Seq(Octets) /\ Len(f[m]) \in Nat
  BY DEF Encodes
<1>3. 0 \in P
  <2>1. i <= 0 => i = 0
    BY <1>1
  <2>2. Begins(0, 0)
    BY <1>1, <1>2
  <2> QED
    BY <2>1, <2>2
<1>4. ASSUME NEW m \in 1..N, i <= m - 1 => Begins(i, m - 1), i <= m PROVE Begins(i, m)
  <2>1. CASE i = m
    BY <1>1, <1>2, <2>1
  <2>2. CASE i # m
    <3> DEFINE e == EncodePoint(points[m])
               u == f[m - 1]
    <3>1. f[m] = u \o e /\ u \in Seq(Octets) /\ e \in Seq(Octets)
      BY <1>1, <1>2, PointsAreBytes, ElementsAre, Zenon DEF Encodes
    <3>2. Begins(i, m - 1)
      BY <1>1, <1>4, <2>2
    <3> HIDE DEF e, u
    <3>3. Len(u \o e) = Len(u) + Len(e) /\ Len(u) \in Nat /\ Len(e) \in Nat
          /\ \A k \in 1..Len(u) : (u \o e)[k] = u[k]
      BY <3>1
    <3>4. Len(f[i]) \in Nat
      BY <1>2
    <3>5. Len(f[i]) <= Len(u) /\ \A k \in 1..Len(f[i]) : u[k] = f[i][k]
      BY <3>2 DEF u
    <3>6. Len(f[m]) = Len(u) + Len(e) /\ \A k \in 1..Len(u) : f[m][k] = u[k]
      BY <3>1, <3>3, Zenon
    <3>7. Len(f[i]) <= Len(f[m])
      BY <3>3, <3>4, <3>5, <3>6
    <3>8. \A k \in 1..Len(f[i]) : k \in 1..Len(u)
      BY <3>3, <3>4, <3>5
    <3> QED
      BY <3>5, <3>6, <3>7, <3>8, Zenon
  <2> QED
    BY <2>1, <2>2
<1> HIDE DEF Begins
<1>5. \A m \in 1..N : m - 1 \in P => m \in P
  BY <1>1, <1>4, Zenon
<1>6. N \in P
  <2>1. N \in 0..N
    BY <1>1
  <2> HIDE DEF P
  <2> QED
    BY <1>1, <1>3, <1>5, <2>1, UptoEnd, Zenon
<1>7. Begins(i, N)
  BY <1>1, <1>6, Zenon
<1> QED
  BY <1>7 DEF Begins

\* Where the encoding of one character stands in the text.
Placed(bytes, at, end, c) ==
  /\ at \in Nat /\ end <= Len(bytes)
  /\ \/ end = at + 1 /\ IsAscii(c) /\ bytes[at + 1] = c
     \/ end = at + 2 /\ IsPair(c, bytes[at + 1], bytes[at + 2])

LEMMA PointsArePlaced ==
  ASSUME NEW points \in Seq(Points), NEW f, Encodes(points, f), NEW i \in 1..Len(points)
  PROVE  Placed(f[Len(points)], Len(f[i - 1]), Len(f[i]), points[i])
<1> DEFINE N == Len(points)
           c == points[i]
           e == EncodePoint(c)
           u == f[i - 1]
           bytes == f[N]
<1>1. N \in Nat
  BY ElementsAre, Zenon
<1>2. i - 1 \in 0..N /\ i \in 0..N
  BY <1>1
<1>3. c \in Points
  BY ElementsAre, Zenon
<1>4. e \in Seq(Octets) /\ u \in Seq(Octets) /\ f[i] = u \o e
  BY <1>2, <1>3, PointsAreBytes, Zenon DEF Encodes
<1>5. Len(f[i]) <= Len(bytes) /\ \A k \in 1..Len(f[i]) : bytes[k] = f[i][k]
  BY <1>2, Beginnings, Zenon
<1> HIDE DEF e, u, bytes
<1>6. /\ Len(u) \in Nat /\ Len(f[i]) = Len(u) + Len(e)
      /\ \A k \in 1..Len(e) : f[i][Len(u) + k] = e[k]
  <2>1. /\ Len(u) \in Nat /\ Len(u \o e) = Len(u) + Len(e)
        /\ \A k \in 1..Len(e) : (u \o e)[Len(u) + k] = e[k]
    BY <1>4
  <2> QED
    BY <1>4, <2>1, Zenon
<1>7. CASE IsAscii(c) /\ e = <<c>>
  <2>1. Len(e) = 1 /\ e[1] = c /\ 1 \in 1..Len(e)
    BY <1>7
  <2>2. Len(f[i]) = Len(u) + 1 /\ Len(u) + 1 \in 1..Len(f[i])
    BY <1>6, <2>1
  <2>3. bytes[Len(u) + 1] = c
    BY <1>5, <1>6, <2>1, <2>2, Zenon
  <2> QED
    BY <1>5, <1>6, <1>7, <2>2, <2>3, Zenon DEF Placed, u, bytes
<1>8. ASSUME NEW a \in Octets, NEW b \in Octets, IsPair(c, a, b), e = <<a, b>>
      PROVE  Placed(bytes, Len(u), Len(f[i]), c)
  <2>1. Len(e) = 2 /\ e[1] = a /\ e[2] = b /\ 1 \in 1..Len(e) /\ 2 \in 1..Len(e)
    BY <1>8
  <2>2. Len(f[i]) = Len(u) + 2 /\ Len(u) + 1 \in 1..Len(f[i]) /\ Len(u) + 2 \in 1..Len(f[i])
    BY <1>6, <2>1
  <2>3. bytes[Len(u) + 1] = a /\ bytes[Len(u) + 2] = b
    BY <1>5, <1>6, <2>1, <2>2, Zenon
  <2> QED
    BY <1>5, <1>6, <1>8, <2>2, <2>3, Zenon DEF Placed
<1>9. (IsAscii(c) /\ e = <<c>>) \/ \E a \in Octets, b \in Octets : IsPair(c, a, b) /\ e = <<a, b>>
  BY <1>3, PointIs, Zenon DEF e
<1> QED
  BY <1>7, <1>8, <1>9, Zenon DEF u, bytes

\* Every byte of an encoded character stands where it may.
LEMMA PlacesStand ==
  ASSUME NEW bytes, Len(bytes) \in Nat, NEW at, NEW end, NEW c,
         Placed(bytes, at, end, c), NEW k \in at + 1..end
  PROVE  Stands(bytes, k)
<1>1. at \in Nat /\ end <= Len(bytes)
  BY DEF Placed
<1>2. CASE end = at + 1 /\ IsAscii(c) /\ bytes[at + 1] = c
  <2>1. k = at + 1 /\ c < 128
    BY <1>1, <1>2 DEF IsAscii
  <2>2. bytes[k] < 128
    BY <1>2, <2>1, Zenon
  <2> QED
    BY <2>2, Zenon DEF Stands
<1>3. CASE end = at + 2 /\ IsPair(c, bytes[at + 1], bytes[at + 2])
  <2>1. bytes[at + 1] \in 194..223 /\ bytes[at + 2] \in 128..191
    BY <1>3 DEF IsPair
  <2>2. CASE k = at + 1
    <3>1. k + 1 = at + 2 /\ k + 1 <= Len(bytes)
      BY <1>1, <1>3, <2>2
    <3> QED
      BY <2>1, <2>2, <3>1 DEF Stands
  <2>3. CASE k = at + 2
    <3>1. k - 1 = at + 1 /\ k > 1 /\ k <= Len(bytes)
      BY <1>1, <1>3, <2>3
    <3> QED
      BY <2>1, <2>3, <3>1 DEF Stands
  <2> QED
    BY <1>1, <1>3, <2>2, <2>3
<1> QED
  BY <1>2, <1>3 DEF Placed

\* Decoding them yields the character.
LEMMA PlacesDecode ==
  ASSUME NEW bytes, Len(bytes) \in Nat, NEW D, Decodes(bytes, D), NEW at, NEW end, NEW c,
         Placed(bytes, at, end, c)
  PROVE  D[end] = Append(D[at], c)
<1>1. at \in Nat /\ end <= Len(bytes)
  BY DEF Placed
<1>2. CASE end = at + 1 /\ IsAscii(c) /\ bytes[at + 1] = c
  <2>1. end \in 1..Len(bytes) /\ end - 1 = at /\ bytes[end] = c
    BY <1>1, <1>2
  <2>2. bytes[end] < 128
    BY <1>2, <2>1 DEF IsAscii
  <2>3. D[end] = DecodedAt(bytes, D, end)
    BY <2>1, Zenon DEF Decodes
  <2> QED
    BY <2>1, <2>2, <2>3, Zenon DEF DecodedAt
<1>3. CASE end = at + 2 /\ IsPair(c, bytes[at + 1], bytes[at + 2])
  <2> DEFINE a == bytes[at + 1]
             b == bytes[at + 2]
             one == at + 1
  <2>1. a \in 194..223 /\ b \in 128..191 /\ (a - 192) * 64 + b - 128 = c
    BY <1>3 DEF IsPair
  <2>2. /\ one \in 1..Len(bytes) /\ one - 1 = at /\ bytes[one] = a
        /\ end \in 1..Len(bytes) /\ end - 1 = one /\ bytes[end] = b
    BY <1>1, <1>3
  <2> HIDE DEF a, b, one
  <2>3. ~(a < 128) /\ ~(b < 128) /\ b \notin 194..223
    BY <2>1
  <2>4. D[one] = DecodedAt(bytes, D, one) /\ D[end] = DecodedAt(bytes, D, end)
    BY <2>2, Zenon DEF Decodes
  <2>5. D[one] = D[at]
    BY <2>1, <2>2, <2>3, <2>4 DEF DecodedAt
  <2>6. D[end] = Append(D[one], (a - 192) * 64 + b - 128)
    BY <2>2, <2>3, <2>4 DEF DecodedAt
  <2> QED
    BY <2>1, <2>5, <2>6, Zenon
<1> QED
  BY <1>2, <1>3 DEF Placed

\* Decoding what was encoded.
LEMMA NamesSurvive ==
  ASSUME NEW points \in Seq(Points)
  PROVE  Utf8(points) \in Seq(Octets) /\ Utf16(Utf8(points)) = points
<1> DEFINE N == Len(points)
<1>1. N \in Nat /\ 0 \in 0..N /\ N \in 0..N
  <2>1. N \in Nat
    BY ElementsAre, Zenon
  <2> QED
    BY <2>1
<1>2. \A i \in 1..N : i \in Nat /\ i - 1 \in 0..N /\ i \in 0..N
  BY <1>1
<1>3. PICK f : Encodes(points, f)
  BY Utf8Is, Zenon
<1>4. /\ Utf8(points) = f[N] /\ f[0] = <<>> /\ f[N] \in Seq(Octets)
      /\ \A i \in 0..N : f[i] \in Seq(Octets)
  BY <1>1, <1>3, Zenon DEF Encodes
<1> DEFINE bytes == f[N]
           At(i) == Len(f[i])
<1>5. Len(bytes) \in Nat /\ At(0) = 0 /\ \A i \in 0..N : At(i) \in Nat
  BY <1>4
<1>6. \A i \in 1..N : Placed(bytes, At(i - 1), At(i), points[i])
  BY <1>3, PointsArePlaced, Zenon
<1>7. \A i \in 1..Len(bytes) : Stands(bytes, i)
  <2> DEFINE P == {i \in Nat : \A k \in 1..At(i) : Stands(bytes, k)}
  <2>1. 0 \in P
    BY <1>5
  <2>2. ASSUME NEW i \in 1..N, \A k \in 1..At(i - 1) : Stands(bytes, k), NEW k \in 1..At(i)
        PROVE  Stands(bytes, k)
    <3> HIDE DEF At, bytes
    <3>1. At(i - 1) \in Nat /\ At(i) \in Nat
      BY <1>2, <1>5, Zenon
    <3>2. k \in 1..At(i - 1) \/ k \in At(i - 1) + 1..At(i)
      BY <3>1
    <3> QED
      BY <1>5, <1>6, <2>2, <3>2, PlacesStand, Zenon
  <2>3. \A i \in 1..N : i - 1 \in P => i \in P
    <3> HIDE DEF At, bytes
    <3> QED
      BY <1>2, <2>2, Zenon
  <2>4. N \in P
    <3> HIDE DEF P
    <3> QED
      BY <1>1, <2>1, <2>3, UptoEnd, Zenon
  <2> QED
    BY <2>4, Zenon
<1>8. PICK D : Decodes(bytes, D)
  BY <1>4, <1>7, Utf16Is, Zenon
<1>9. Utf16(bytes) = D[Len(bytes)] /\ D[0] = <<>>
  BY <1>8, Zenon DEF Decodes
<1>10. D[At(N)] = SubSeq(points, 1, N)
  <2> DEFINE P == {i \in Nat : D[At(i)] = SubSeq(points, 1, i)}
  <2>1. 0 \in P
    <3>1. SubSeq(points, 1, 0) = <<>> /\ 0 \in Nat
      OBVIOUS
    <3> QED
      BY <1>5, <1>9, <3>1, Zenon
  <2>2. ASSUME NEW i \in 1..N, D[At(i - 1)] = SubSeq(points, 1, i - 1)
        PROVE  D[At(i)] = SubSeq(points, 1, i)
    <3> HIDE DEF At, bytes
    <3>1. D[At(i)] = Append(D[At(i - 1)], points[i])
      <4>1. Placed(bytes, At(i - 1), At(i), points[i]) /\ Len(bytes) \in Nat
        BY <1>5, <1>6, Zenon
      <4> QED
        BY <1>8, <4>1, PlacesDecode
    <3>2. SubSeq(points, 1, i) = Append(SubSeq(points, 1, i - 1), points[i])
      BY OneLonger, Zenon
    <3> QED
      BY <2>2, <3>1, <3>2, Zenon
  <2>3. \A i \in 1..N : i - 1 \in P => i \in P
    <3> HIDE DEF At, bytes
    <3> QED
      BY <1>2, <2>2, Zenon
  <2>4. N \in P
    <3> HIDE DEF P
    <3> QED
      BY <1>1, <2>1, <2>3, UptoEnd, Zenon
  <2> QED
    BY <2>4, Zenon
<1> QED
  BY <1>4, <1>9, <1>10, SubSeqFull, Zenon

LEMMA OnlyAscii ==
  ASSUME NEW text \in Seq(Octets), \A i \in 1..Len(text) : text[i] < 128
  PROVE  text \in Seq(0..127)
<1> DEFINE n == Len(text)
<1>1. n \in Nat /\ text = [i \in 1..n |-> text[i]]
  OBVIOUS
<1>2. ASSUME NEW x \in Octets, x < 128 PROVE x \in 0..127
  BY <1>2 DEF Octets
<1>3. ASSUME NEW i \in 1..n PROVE text[i] \in 0..127
  <2>1. text[i] \in Octets
    BY ElementsAre, Zenon DEF n
  <2>2. text[i] < 128
    BY Zenon DEF n
  <2> QED
    BY <1>2, <2>1, <2>2, Zenon
<1> HIDE DEF n
<1>4. text \in [1..n -> 0..127]
  BY <1>1, <1>3, Zenon
<1> QED
  BY <1>1, <1>4

LEMMA NotNoBytes ==
  ASSUME NEW S \in SUBSET Nat, NEW text \in Seq(S)
  PROVE  text # NoBytes
<1>1. SUFFICES ASSUME text = NoBytes PROVE FALSE
  OBVIOUS
<1>2. Len(text) = 1 /\ text[1] = -3 /\ 1 \in 1..Len(text)
  BY <1>1 DEF NoBytes
<1>3. text[1] \in S
  BY <1>2, ElementsAre, Zenon
<1>4. text[1] \in Nat
  BY <1>3
<1> QED
  BY <1>2, <1>4

\* What was encoded twice is encoded once.
LEMMA TwiceIsUndone ==
  ASSUME NEW points \in Seq(Points)
  PROVE  FixUtf8Mojibake(Utf8(Utf8(points))) = Utf8(points)
<1> DEFINE once == Utf8(points)
           twice == Utf8(once)
<1>1. once \in Seq(Octets) /\ Utf16(once) = points
  BY NamesSurvive, Zenon
<1>2. once \in Seq(Points)
  <2>1. Octets \subseteq Points
    BY SMT DEF Points, Octets
  <2> QED
    BY <1>1, <2>1, SeqMonotonic, Zenon
<1> HIDE DEF once
<1>3. Utf16(twice) = once
  BY <1>2, NamesSurvive, Zenon
<1>4. once # NoBytes /\ points # NoBytes
  <2>1. Octets \in SUBSET Nat
    BY SMT DEF Octets
  <2>2. Points \in SUBSET Nat
    BY SMT DEF Points
  <2> QED
    BY <1>1, <2>1, <2>2, NotNoBytes, Zenon
<1>5. ~\E i \in DOMAIN once : once[i] > 255
  <2>1. \A i \in DOMAIN once : once[i] \in Octets
    BY <1>1, ElementsAre, Zenon
  <2>2. \A x \in Octets : ~(x > 255)
    BY SMT DEF Octets
  <2> QED
    BY <2>1, <2>2, Zenon
<1>6. CASE \A i \in DOMAIN once : once[i] < 128
  <2>1. \A i \in 1..Len(once) : once[i] < 128
    BY <1>1, <1>6, ElementsAre, Zenon
  <2>2. once \in Seq(0..127)
    BY <1>1, <2>1, OnlyAscii, Zenon
  <2>3. twice = once
    BY <2>2, AsciiIsItself, Zenon
  <2>4. FixUtf8Mojibake(twice) = twice
    BY <1>3, <1>4, <1>6, Zenon DEF FixUtf8Mojibake
  <2> QED
    BY <2>3, <2>4 DEF once
<1>7. CASE ~\A i \in DOMAIN once : once[i] < 128
  <2>1. FixUtf8Mojibake(twice) = once
    BY <1>1, <1>3, <1>4, <1>5, <1>7, Zenon DEF FixUtf8Mojibake
  <2> QED
    BY <2>1 DEF once
<1> QED
  BY <1>6, <1>7

\* What was encoded once is left as it is, or could have been encoded twice.
LEMMA OnceIsLeft ==
  ASSUME NEW points \in Seq(Points), FixUtf8Mojibake(Utf8(points)) # Utf8(points)
  PROVE  Utf16(points) # NoBytes
<1>1. Utf16(Utf8(points)) = points
  BY NamesSurvive, Zenon
<1> QED
  BY <1>1, Zenon DEF FixUtf8Mojibake

-----------------------------------------------------------------------------
(* The conversions are exact.                                              *)

\* What holds of every job: of a match at every step of the loop, of the
\* others what the properties say.
JobOK(job) ==
  /\ job.kind = "match" => MatchOK(job)
  /\ job.kind = "bytes" => job.base64 = job.bytes /\ job.hex = job.bytes
  /\ job.kind = "address" =>
       /\ job.result = AName /\ job.text.sign = "none" => ~job.text.prefix /\ ~job.text.proper
       /\ job.result \notin {AName, NoAddress} =>
             \A prefix \in BOOLEAN : ParseAddress(FormatAddress(job.result, prefix)) = job.result
  /\ job.kind = "text" =>
       /\ job.twice = Utf8(job.points)
       /\ job.once # Utf8(job.points) => Utf16(job.points) # NoBytes

LEMMA GiveNameOK ==
  ASSUME NEW pattern \in TextsOf(NameChars \cup {"?", "*"}, MaxText), NEW name \in TextsOf(NameChars, MaxText),
         NEW new, new = Matching(pattern, name)
  PROVE  JobOK(new)
<1>1. pattern \in Seq(NameChars \cup {"?", "*"}) /\ name \in Seq(NameChars)
  <2>1. MaxText \in Nat
    BY TextsAssumption, SMT
  <2> QED
    BY <2>1, TextsAreSequences, Zenon
<1>2. MatchOK(new)
  BY <1>1, MatchStarts, Zenon
<1>3. new.kind = "match"
  BY DEF Matching
<1> QED
  BY <1>2, <1>3 DEF JobOK

LEMMA StepMatchOK ==
  ASSUME NEW job, JobOK(job), job.kind = "match", job.result = "none",
         NEW new, new = MatchStep(job)
  PROVE  JobOK(new)
<1>1. MatchOK(job)
  BY DEF JobOK
<1>2. MatchOK(new)
  BY <1>1, MatchGoesOn, Zenon
<1>3. new.kind = "match"
  BY <1>2 DEF MatchOK, MatchJobs
<1> QED
  BY <1>2, <1>3 DEF JobOK

LEMMA GiveBytesOK ==
  ASSUME NEW bytes \in TextsOf(ByteValues, MaxText + 1), NEW at \in 0..2 * Len(bytes), NEW new,
         new = [kind |-> "bytes", bytes |-> bytes,
                base64 |-> FromBase64(ToBase64(bytes)),
                hex |-> LET text == BytesToHex(bytes)
                        IN  HexToBytes(SubSeq(text, 1, at) \o <<Space>>
                                       \o SubSeq(text, at + 1, Len(text)))]
  PROVE  JobOK(new)
<1>1. bytes \in Seq(Octets)
  <2>1. MaxText + 1 \in Nat /\ ByteValues \subseteq Octets
    BY TextsAssumption, SMT DEF Octets
  <2>2. bytes \in Seq(ByteValues)
    BY <2>1, TextsAreSequences, Zenon
  <2> QED
    BY <2>1, <2>2, SeqMonotonic, Zenon
<1> DEFINE text == BytesToHex(bytes)
           base64 == FromBase64(ToBase64(bytes))
           hex == HexToBytes(SubSeq(text, 1, at) \o <<Space>> \o SubSeq(text, at + 1, Len(text)))
<1>2. base64 = bytes
  BY <1>1, Base64Survives, Zenon DEF Octets
<1>3. hex = bytes
  BY <1>1, HexSurvives, Zenon DEF Octets
<1>4. new = [kind |-> "bytes", bytes |-> bytes, base64 |-> base64, hex |-> hex]
  BY Zenon
<1> HIDE DEF base64, hex
<1> QED
  BY <1>2, <1>3, <1>4 DEF JobOK

LEMMA GiveAddressOK ==
  ASSUME NEW text, text.digits \in Seq(Nat), NEW new,
         new = [kind |-> "address", text |-> text, result |-> ParseAddress(text)]
  PROVE  JobOK(new)
<1> DEFINE r == ParseAddress(text)
<1>1. Number(text) \in 0..AddressSpan - 1 \cup {NoAddress}
  BY NumberIs, Zenon
<1>2. /\ text.sign = "minus" => r = NoAddress
      /\ text.sign # "minus" /\ Number(text) # NoAddress => r = Number(text)
      /\ text.sign # "minus" /\ Number(text) = NoAddress =>
           r = IF IsPlainNumber(text) THEN NoAddress ELSE AName
  BY Zenon DEF ParseAddress
<1> HIDE DEF r
<1>3. AddressSpan \in Nat /\ AName = -2 /\ NoAddress = -1
  BY TextsAssumption, SMT DEF AName, NoAddress
<1>4. ASSUME r = AName, text.sign = "none" PROVE ~text.prefix /\ ~text.proper
  <2>1. Number(text) = NoAddress
    BY <1>1, <1>2, <1>3, <1>4
  <2>2. ~IsPlainNumber(text)
    BY <1>2, <1>3, <1>4, <2>1
  <2> QED
    BY <1>4, <2>2, Zenon DEF IsPlainNumber
<1>5. ASSUME r \notin {AName, NoAddress}, NEW prefix
      PROVE  ParseAddress(FormatAddress(r, prefix)) = r
  <2>1. r = Number(text) /\ r # NoAddress
    BY <1>2, <1>5
  <2>2. r \in 0..AddressSpan - 1
    BY <1>1, <2>1, Zenon
  <2> QED
    BY <2>2, AddressSurvives, Zenon
<1>6. new.kind = "address" /\ new.text = text /\ new.result = r
  BY DEF r
<1> QED
  BY <1>4, <1>5, <1>6 DEF JobOK

LEMMA GiveTextOK ==
  ASSUME NEW points \in TextsOf(CodePoints, MaxText), NEW new,
         new = [kind |-> "text", points |-> points,
                once |-> FixUtf8Mojibake(Utf8(points)),
                twice |-> FixUtf8Mojibake(Utf8(Utf8(points)))]
  PROVE  JobOK(new)
<1>1. points \in Seq(Points)
  <2>1. MaxText \in Nat /\ CodePoints \subseteq Points
    BY TextsAssumption, SMT DEF Points
  <2>2. points \in Seq(CodePoints)
    BY <2>1, TextsAreSequences, Zenon
  <2> QED
    BY <2>1, <2>2, SeqMonotonic, Zenon
<1>2. FixUtf8Mojibake(Utf8(Utf8(points))) = Utf8(points)
  BY <1>1, TwiceIsUndone, Zenon
<1>3. FixUtf8Mojibake(Utf8(points)) # Utf8(points) => Utf16(points) # NoBytes
  BY <1>1, OnceIsLeft, Zenon
<1> QED
  BY <1>2, <1>3 DEF JobOK

\* Whatever texts, bytes, addresses and names of any length are given: the
\* matcher's loop decides what the pattern means, bytes survive Base64 and
\* hexadecimal text, every address is read back as it is shown, and a text
\* that was encoded twice is decoded once.
THEOREM ConversionsHold == TextsSpec => []ConversionsAreExact
<1>1. TextsInit => JobOK(textJob)
  BY DEF TextsInit, NoJob, JobOK
<1>2. ASSUME JobOK(textJob), [TextsNext]_textVars PROVE JobOK(textJob')
  <2>1. CASE GiveName
    BY <2>1, GiveNameOK, Zenon DEF GiveName
  <2>2. CASE StepMatch
    BY <1>2, <2>2, StepMatchOK, Zenon DEF StepMatch
  <2>3. CASE GiveBytes
    BY <2>3, GiveBytesOK, Zenon DEF GiveBytes
  <2>4. CASE GiveAddress
    <3>1. PICK sign, prefix, minus, proper, digits :
            LET text == AddressText(sign, prefix, minus, proper, digits)
            IN  digits \in TextsOf({0, 1, 15}, MaxText)
                /\ textJob' = [kind |-> "address", text |-> text, result |-> ParseAddress(text)]
      BY <2>4, Zenon DEF GiveAddress
    <3>2. digits \in Seq(Nat)
      <4>1. MaxText \in Nat /\ {0, 1, 15} \subseteq Nat
        BY TextsAssumption, SMT
      <4>2. digits \in Seq({0, 1, 15})
        BY <3>1, <4>1, TextsAreSequences, Zenon
      <4> QED
        BY <4>1, <4>2, SeqMonotonic, Zenon
    <3> DEFINE text == AddressText(sign, prefix, minus, proper, digits)
    <3>3. text.digits \in Seq(Nat)
      BY <3>2 DEF AddressText
    <3> HIDE DEF text
    <3>4. textJob' = [kind |-> "address", text |-> text, result |-> ParseAddress(text)]
      BY <3>1, Zenon DEF text
    <3> QED
      BY <3>3, <3>4, GiveAddressOK, Zenon
  <2>5. CASE GiveText
    BY <2>5, GiveTextOK, Zenon DEF GiveText
  <2>6. CASE UNCHANGED textVars
    BY <1>2, <2>6, Zenon DEF textVars
  <2> QED
    BY <1>2, <2>1, <2>2, <2>3, <2>4, <2>5, <2>6 DEF TextsNext
<1>3. ASSUME JobOK(textJob) PROVE ConversionsAreExact
  <2>1. MatchIsExact
    <3>1. CASE textJob.kind = "match"
      BY <1>3, <3>1, MatchHolds DEF JobOK
    <3>2. CASE textJob.kind # "match"
      BY <3>2 DEF MatchIsExact
    <3> QED
      BY <3>1, <3>2
  <2>2. BytesSurviveText
    BY <1>3, Zenon DEF JobOK, BytesSurviveText
  <2>3. NumbersAreNoNames
    BY <1>3, Zenon DEF JobOK, NumbersAreNoNames
  <2>4. EncodingIsUndoneOnce
    BY <1>3, Zenon DEF JobOK, EncodingIsUndoneOnce
  <2> QED
    BY <2>1, <2>2, <2>3, <2>4 DEF ConversionsAreExact
<1>4. JobOK(textJob) /\ [TextsNext]_textVars => JobOK(textJob)'
  BY <1>2
<1> QED
  BY <1>1, <1>3, <1>4, PTL DEF TextsSpec
=============================================================================
