-------------------------------- MODULE Logger --------------------------------
(***************************************************************************)
(* asLogger and asLog (code/log) over asCFileWriter (code/file).  Any      *)
(* thread logs by stamping a line and posting it to asLogger, a message    *)
(* thread (its queue is Mailbox: first in, first out); asLog writes in the *)
(* thread of its one caller, and its line gets its time from WriteString,  *)
(* when the file was already chosen.  Both name their file after the day,  *)
(* both append to it, and by default in the same directory.  The clock may *)
(* tick between any two steps, and it is read again in each.               *)
(***************************************************************************)
EXTENDS Integers, Sequences, FiniteSets, SequencesExt

CONSTANTS LogThreads,   \* threads that call asLogger
          MaxLines,     \* bound: lines logged in all
          MaxDay        \* bound: days that pass

VARIABLES
  day,        \* the clock, in units of the name of a file
  stamped,    \* per thread: the lines formatted and not posted, at most one
  logInbox,   \* the queue of asLogger
  logRun,     \* "run", "stop" (STOP was handled), "ended"
  writer,     \* per logger: m_lastTime, the m_path of m_cfw, the line at hand
  logDir,     \* the directory exists
  files,      \* per day: the lines in the file
  times,      \* per day: the time at the head of each of these lines
  console,    \* the lines printed
  logState,   \* "run", "undefined"
  logged,     \* history: every line anybody logged
  failed      \* history: lines for which fopen failed

logVars == <<day, stamped, logInbox, logRun, writer, logDir, files, times,
             console, logState, logged, failed>>

Days == 1..MaxDay
Direct == "direct"         \* the thread that owns the asLog

ASSUME LogAssumption == MaxDay \in Nat \ {0} /\ Direct \notin LogThreads

Writers == {"asLogger", "asLog"}
Stop == [from |-> "exit", n |-> 0, lv |-> 0, day |-> 0]
Levels == 1..3             \* 1: console and file, 2: console, 3: file
ToFile(l) == l.lv \in {1, 3}

LogInit ==
  /\ day = 1 /\ stamped = [p \in LogThreads |-> <<>>] /\ logInbox = <<>>
  /\ logRun = "run" /\ logDir = FALSE /\ console = <<>> /\ logState = "run"
  /\ writer = [w \in Writers |-> [at |-> "idle", last |-> 0, path |-> 0,
                                  line |-> Stop]]
  /\ files = [d \in Days |-> <<>>] /\ times = [d \in Days |-> <<>>]
  /\ logged = {} /\ failed = {}

Tick == /\ day < MaxDay
        /\ day' = day + 1
        /\ UNCHANGED <<stamped, logInbox, logRun, writer, logDir, files, times,
                       console, logState, logged, failed>>

Lines(who) == {l \in logged : l.from = who}
NewLine(who, lv, time) ==
  [from |-> who, n |-> Cardinality(Lines(who)) + 1, lv |-> lv, day |-> time]

-----------------------------------------------------------------------------
\* FormatString and FormatStringEx: the line gets its time, and then ...
FormatString(p, lv) ==
  /\ logState = "run" /\ stamped[p] = <<>>
  /\ Cardinality(logged) < MaxLines
  /\ logged' = logged \cup {NewLine(p, lv, day)}
  /\ stamped' = [stamped EXCEPT ![p] = <<NewLine(p, lv, day)>>]
  /\ UNCHANGED <<day, logInbox, logRun, writer, logDir, files, times,
                 console, logState, failed>>

\* ... is posted.
PostLine(p) ==
  /\ logState = "run" /\ stamped[p] # <<>>
  /\ logInbox' = logInbox \o stamped[p]
  /\ stamped' = [stamped EXCEPT ![p] = <<>>]
  /\ UNCHANGED <<day, logRun, writer, logDir, files, times,
                 console, logState, logged, failed>>

\* ExitThread, at the end of main.
ExitLogger ==
  /\ logState = "run" /\ logRun = "run" /\ Stop \notin ToSet(logInbox)
  /\ logInbox' = Append(logInbox, Stop)
  /\ UNCHANGED <<day, stamped, logRun, writer, logDir, files, times,
                 console, logState, logged, failed>>

\* asLog, LogEx: the line has no time yet (0).
LogEx ==
  /\ logState = "run" /\ writer["asLog"].at = "idle"
  /\ Cardinality(logged) < MaxLines
  /\ logged' = logged \cup {NewLine(Direct, 3, 0)}
  /\ writer' = [writer EXCEPT !["asLog"].at = "check",
                              !["asLog"].line = NewLine(Direct, 3, 0)]
  /\ UNCHANGED <<day, stamped, logInbox, logRun, logDir, files, times,
                 console, logState, failed>>

\* asLog, Log: the time, 20 bytes, goes to an array of 11.  If the program
\* goes on it does so as after LogEx.
LogOverflows ==
  /\ logState = "run" /\ writer["asLog"].at = "idle"
  /\ Cardinality(logged) < MaxLines
  /\ logState' = "undefined"
  /\ UNCHANGED <<day, stamped, logInbox, logRun, writer, logDir, files, times,
                 console, logged, failed>>

-----------------------------------------------------------------------------
\* The thread of asLogger takes a message.  After STOP it still handles what
\* was in the same batch.
HandleMessage ==
  /\ logState = "run" /\ logRun \in {"run", "stop"}
  /\ writer["asLogger"].at = "idle" /\ logInbox # <<>>
  /\ logInbox' = Tail(logInbox)
  /\ LET l == Head(logInbox)
     IN  /\ logRun' = IF l = Stop THEN "stop" ELSE logRun
         /\ console' = IF l.lv \in {1, 2} THEN Append(console, l) ELSE console
         /\ writer' = IF ToFile(l)
                      THEN [writer EXCEPT !["asLogger"].at = "check",
                                          !["asLogger"].line = l]
                      ELSE writer
  /\ UNCHANGED <<day, stamped, logDir, files, times, logState, logged, failed>>

LoggerEnds ==
  /\ logRun = "stop" /\ writer["asLogger"].at = "idle"
  /\ logRun' = "ended"
  /\ UNCHANGED <<day, stamped, logInbox, writer, logDir, files, times,
                 console, logState, logged, failed>>

\* A mutant: the file is made once.
CheckMakeFileOnce(w) ==
  /\ logState = "run" /\ writer[w].at = "check"
  /\ writer' = [writer EXCEPT ![w].at = IF @ = "check" /\ writer[w].last # 0
                                        THEN "write" ELSE "make"]
  /\ UNCHANGED <<day, stamped, logInbox, logRun, logDir, files, times,
                 console, logState, logged, failed>>

\* The time is read once to see whether the day is another ...
CheckMakeFile(w) ==
  /\ logState = "run" /\ writer[w].at = "check"
  /\ writer' = [writer EXCEPT ![w].at = IF writer[w].last # day THEN "make"
                                        ELSE "write"]
  /\ UNCHANGED <<day, stamped, logInbox, logRun, logDir, files, times,
                 console, logState, logged, failed>>

\* ... and once more for its name.  Init of the file writer makes the
\* directory, which may fail; nobody looks at that.
MakeFile(w) ==
  /\ logState = "run" /\ writer[w].at = "make"
  /\ writer' = [writer EXCEPT ![w].at = "write", ![w].last = day, ![w].path = day]
  /\ logDir' \in {TRUE, logDir}
  /\ UNCHANGED <<day, stamped, logInbox, logRun, files, times,
                 console, logState, logged, failed>>

\* A mutant: the file is opened for writing from its beginning.
OpenFileTruncates(f) == <<>>

\* What the file holds once it is opened, in mode "a".
OpenFile(f) == f

\* The time a line is written with: asLog lets WriteString read the clock,
\* asLogger's line brings its own.
TimeOf(w) == IF w = "asLog" THEN day ELSE writer[w].line.day

\* WriteString opens the file, gives asLog's line its time, writes and closes
\* the file.  A line whose file cannot be opened is gone.
WriteString(w, opens) ==
  /\ logState = "run" /\ writer[w].at = "write"
  /\ opens => logDir
  /\ writer' = [writer EXCEPT ![w].at = "idle", ![w].line = Stop]
  /\ IF opens
     THEN /\ files' = [files EXCEPT ![writer[w].path] =
                         Append(OpenFile(@), writer[w].line)]
          /\ times' = [times EXCEPT ![writer[w].path] =
                         Append(OpenFile(@), TimeOf(w))]
          /\ UNCHANGED failed
     ELSE failed' = failed \cup {writer[w].line} /\ UNCHANGED <<files, times>>
  /\ UNCHANGED <<day, stamped, logInbox, logRun, logDir, console, logState,
                 logged>>

LogNext ==
  \/ Tick \/ ExitLogger \/ HandleMessage \/ LoggerEnds \/ LogOverflows
  \/ LogEx
  \/ \E p \in LogThreads : PostLine(p) \/ \E lv \in Levels : FormatString(p, lv)
  \/ \E w \in Writers :
       \/ CheckMakeFile(w) \/ MakeFile(w)
       \/ \E opens \in BOOLEAN : WriteString(w, opens)

LogSpec == LogInit /\ [][LogNext]_logVars

-----------------------------------------------------------------------------
\* Every line that a logger took from its caller or its queue stands in one
\* file, once, unless that file could not be opened for it; the lines of one
\* caller stand in the order in which it logged them, on the console too; no
\* line of asLogger stands in the file of a day before the time it carries, as
\* it is stamped before its file is chosen, and no line of asLog in the file of
\* a day after, as it is stamped when its file is open: at midnight it may
\* stand, with a time of the new day, in the file of the old one.  All this
\* although two loggers append to the same files and midnight comes anywhere.
\* About: FormatStringEx, HandleMessage, CheckMakeFile, WriteString, OpenFile.
LogIntact ==
  LET onDisk == FlattenSeq([d \in Days |-> files[d]])
      waiting == (UNION {ToSet(stamped[p]) : p \in LogThreads})
                   \cup ToSet(logInbox) \cup {writer[w].line : w \in Writers}
      InOrder(ls) == \A i, j \in DOMAIN ls :
                       i < j /\ ls[i].from = ls[j].from => ls[i].n < ls[j].n
  IN  /\ InOrder(onDisk) /\ InOrder(console)
      /\ ToSet(onDisk) = {l \in logged : ToFile(l)} \ (waiting \cup failed)
      /\ \A d \in Days : \A i \in DOMAIN files[d] :
           IF files[d][i].from = Direct THEN d <= times[d][i] ELSE times[d][i] <= d
=============================================================================
