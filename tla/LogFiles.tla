------------------------------ MODULE LogFiles ------------------------------
(***************************************************************************)
(* The log and its one backup: Logger (src/src/core/Logger.cpp) under      *)
(* ApplyRuntimeConfiguration() of src/src/PluginEntry.cpp, which closes    *)
(* the log and opens it with other settings while other threads write.     *)
(* Log() holds Logger's mutex throughout, so that a line is one step.      *)
(*                                                                         *)
(* A line is its number and its size with the end of the line; levels and  *)
(* the output to the console are left out.                                 *)
(***************************************************************************)
EXTENDS Integers, Sequences

CONSTANTS
  LineSizes,    \* sizes of lines
  LogLimits,    \* the sizes that the settings may ask for
  LeastLimit,   \* 128 in the code
  SizeRange,    \* the numbers of an uint64_t
  MaxLines      \* a bound on the lines

ASSUME LogAssumption ==
    /\ LineSizes \cup LogLimits \cup {LeastLimit, MaxLines} \subseteq Nat
    /\ SizeRange \in Nat /\ \A limit \in LogLimits \cup {LeastLimit} : limit < SizeRange

VARIABLES
  logFile,      \* the lines in the log on the disk
  logBackup,    \* the lines in its backup
  logStream,    \* m_file: "closed", "open" or "bad", after a write that failed
  logReady,     \* m_initialized
  logLimit,     \* m_maxFileSize
  logSize,      \* m_fileSize
  logCount,     \* how many lines were logged
  logIntact     \* no operation on a file has failed

logVars == <<logFile, logBackup, logStream, logReady, logLimit, logSize, logCount, logIntact>>

BytesOf(lines) ==
    LET sum[n \in 0..Len(lines)] == IF n = 0 THEN 0 ELSE sum[n - 1] + lines[n].size
    IN  sum[Len(lines)]

LogInit ==
    /\ logFile = <<>> /\ logBackup = <<>>
    /\ logStream = "closed" /\ logReady = FALSE
    /\ logLimit = LeastLimit /\ logSize = 0
    /\ logCount = 0 /\ logIntact = TRUE

-----------------------------------------------------------------------------
\* Initialize(): the log is opened behind what it holds.  Reading its size may
\* fail, and so may opening it.
InitializeLog(limit) ==
    /\ ~logReady
    /\ \/ /\ logReady' = TRUE /\ logStream' = "open"
          /\ logLimit' = (IF limit < LeastLimit THEN LeastLimit ELSE limit)
          /\ \/ logSize' = BytesOf(logFile) /\ UNCHANGED logIntact
             \/ logSize' = 0 /\ logIntact' = FALSE
       \/ /\ logIntact' = FALSE
          /\ UNCHANGED <<logReady, logStream, logLimit, logSize>>
    /\ UNCHANGED <<logFile, logBackup, logCount>>

\* Shutdown(): the flag and the stream; what it counted stays.
ShutdownLog ==
    /\ logReady
    /\ logReady' = FALSE /\ logStream' = "closed"
    /\ UNCHANGED <<logFile, logBackup, logLimit, logSize, logCount, logIntact>>

\* Mutant: a line is taken as it is.
AsItIs(size) == size

\* A line longer than a whole log is cut.
Cut(size) == IF size > logLimit THEN logLimit ELSE size

\* Mutant: the log is emptied without a backup.
TruncatedOnly == [file |-> <<>>, backup |-> logBackup, stream |-> "open"]

\* The old backup goes and the log takes its place.
Rotated == [file |-> <<>>, backup |-> logFile, stream |-> "open"]

\* Or not: a file in use by another program cannot be removed, renamed or
\* opened.  What could not be renamed is truncated.
RotatedBadly ==
    {[file |-> <<>>, backup |-> backup, stream |-> "open"] : backup \in {logBackup, <<>>}}
    \cup {[file |-> <<>>, backup |-> logFile, stream |-> "closed"]}
    \cup {[file |-> logFile, backup |-> backup, stream |-> "closed"] :
            backup \in {logBackup, <<>>}}

\* The unsigned difference of the limit and a line.
Room(size) == (logLimit - size) % SizeRange

\* The line reaches the stream; a stream that failed before takes nothing, and
\* the size is counted all the same.
Written(files, size, whole) ==
    /\ logFile' = (IF whole /\ files.stream = "open"
                   THEN Append(files.file, [id |-> logCount + 1, size |-> size])
                   ELSE files.file)
    /\ logBackup' = files.backup
    /\ logStream' = (IF files.stream = "open" /\ ~whole THEN "bad" ELSE files.stream)

LogLine(given) ==
    LET size == Cut(given)
        here == [file |-> logFile, backup |-> logBackup, stream |-> logStream]
        full == logSize > Room(size)
    IN  /\ logReady /\ logStream # "closed"
        /\ \E whole \in BOOLEAN :
              \/ ~full /\ Written(here, size, whole) /\ logIntact' = (logIntact /\ whole)
              \/ full /\ Written(Rotated, size, whole) /\ logIntact' = (logIntact /\ whole)
              \/ /\ full /\ logIntact' = FALSE
                 /\ \E files \in RotatedBadly : Written(files, size, whole)
        /\ logSize' = (IF full THEN 0 ELSE logSize) + size
        /\ logCount' = logCount + 1
        /\ UNCHANGED <<logReady, logLimit>>

LogNext ==
    \/ \E limit \in LogLimits : InitializeLog(limit)
    \/ ShutdownLog
    \/ logCount < MaxLines /\ \E size \in LineSizes : LogLine(size)

LogSpec == LogInit /\ [][LogNext]_logVars

-----------------------------------------------------------------------------
(* Properties.                                                             *)

\* docs/review-fixes-2026-10-28.md:39, "Bounded log rotation with one .1
\* backup": while no operation on the files fails, the line numbers of the
\* backup and the log are one run up to the last line, and nothing is missing
\* before it unless there is a backup, through any change of the settings.
NewestLinesAreKept ==
    LET kept == logBackup \o logFile
    IN  logIntact /\ logCount > 0 =>
          /\ kept # <<>> /\ kept[Len(kept)].id = logCount
          /\ \A i \in 1..Len(kept) - 1 : kept[i + 1].id = kept[i].id + 1
          /\ kept[1].id > 1 => logBackup # <<>>

\* The same text: unless its size could not be read, a log that a line was
\* added to is no larger than the limit in force, whatever the limit was when
\* the rest was written and whichever writes failed.
LinesFitTheLimit ==
    [][logFile' # logFile /\ logFile' # <<>> /\ BytesOf(logFile) <= logSize =>
          BytesOf(logFile') <= logLimit']_logVars
=============================================================================
