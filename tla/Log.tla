-------------------------------- MODULE Log --------------------------------
(***************************************************************************)
(* The logger (log.c): librekv_logWrite and librekv_logWrite_va, which     *)
(* differ only in how they format a line.                                  *)
(*                                                                         *)
(* Every call reads log.conf again, if there is one, for the directory of  *)
(* the log and the levels to write; opens the file of the day in it; adds  *)
(* its line and closes the file.  Directory and day make the file's path,  *)
(* which is kept in a static buffer: the path of the last log.conf, or one *)
(* in HOME if there never was a log.conf.                                  *)
(*                                                                         *)
(* Between the steps of a call somebody may edit, protect or remove        *)
(* log.conf, and midnight may pass.  A path is the sequence of the parts   *)
(* of its directory and of a day; it stands for a string as long as the    *)
(* sequence, in as far as which of two paths is longer matters.  HOME is   *)
(* set, and a line fits into the buffer of its stream.                     *)
(***************************************************************************)
EXTENDS Integers, Sequences

CONSTANTS
  Parts,       \* the parts of directories
  Configs,     \* the contents of log.conf: a directory and a set of levels
  None,        \* there is no log.conf
  Unreadable,  \* log.conf is there, but cannot be opened
  HOME,        \* the directory that HOME names
  MaxDay       \* bound on the days

\* The levels that callers log at.  NONE and ALL are for log.conf.
Levels == {"INF", "DEBUG", "ERROR"}

\* A directory has a part for its "/".
ASSUME LogAssumption ==
  /\ Configs \subseteq [path : Seq(Parts) \ {<< >>}, level : SUBSET Levels]
  /\ None \notin Configs /\ Unreadable \notin Configs /\ None # Unreadable
  /\ HOME \in Seq(Parts) \ {<< >>}
  /\ MaxDay \in Nat \ {0}

VARIABLES
  conf,         \* log.conf
  day,          \* today
  logsetting,   \* the static settings: filepath and loglevel
  loging,       \* logtime, and logfile: the path of the open stream, if any
  streams,      \* how many streams the process has open
  pc,           \* where the call is
  request,      \* the level it logs at
  line,         \* the line it has written to a file
  seen          \* the log.confs and the days that there were during the call

process == <<logsetting, loging, streams, pc, request, line>>
vars == <<conf, day, process, seen>>
-----------------------------------------------------------------------------
NULL == << >>     \* no stream, and the empty path

\* The zeroed statics of a new process.
NoSetting == [filepath |-> NULL, loglevel |-> {}]
NoLoging == [logtime |-> 0, logfile |-> NULL]
NoLine == [file |-> NULL, level |-> "INF", time |-> 0]

\* The path of a day's file.
Paths == Seq(Parts \cup (1 .. MaxDay))
FilePath(dir, d) == Append(dir, d)

\* memcpy(filepath, path, strlen(path)), on buffers that end with a zero byte.
\* Mutant: a path that is there already is kept.
Kept(filepath, path) == IF filepath = NULL THEN path ELSE filepath
Copied(filepath, path) == path \o SubSeq(filepath, Len(path) + 1, Len(filepath))

Init ==
  /\ conf \in Configs \cup {None, Unreadable}
  /\ day = 1
  /\ logsetting = NoSetting
  /\ loging = NoLoging
  /\ streams = 0
  /\ pc = "idle"
  /\ request = "INF"
  /\ line = NoLine
  /\ seen = [confs |-> {}, days |-> {}]
-----------------------------------------------------------------------------
\* A call, and its return.
Call(level) ==
  /\ pc = "idle"
  /\ pc' = "settings"
  /\ request' = level
  /\ line' = NoLine
  /\ seen' = [confs |-> {conf}, days |-> {day}]
  /\ UNCHANGED <<conf, day, logsetting, loging, streams>>

\* The level that is written when log.conf says nothing.  Mutant: the level of
\* an earlier log.conf stays.
LevelKept == logsetting.loglevel
DefaultLevel == {"INF"}

\* getlogset: without a log.conf only INF is written; the path stays.
SetDefaults ==
  /\ pc = "settings"
  /\ conf = None
  /\ logsetting' = [logsetting EXCEPT !.loglevel = DefaultLevel]
  /\ pc' = "filter"
  /\ UNCHANGED <<conf, day, loging, streams, request, line, seen>>

FindConfig ==
  /\ pc = "settings"
  /\ conf # None
  /\ pc' = "read"
  /\ UNCHANGED <<conf, day, logsetting, loging, streams, request, line, seen>>

\* ReadConfig cannot open log.conf, or not any more.
ReadFails ==
  /\ pc = "read"
  /\ conf \in {None, Unreadable}
  /\ logsetting' = [logsetting EXCEPT !.loglevel = DefaultLevel]
  /\ pc' = "filter"
  /\ UNCHANGED <<conf, day, loging, streams, request, line, seen>>

ReadConfig ==
  /\ pc = "read"
  /\ conf \in Configs
  /\ logsetting' = [filepath |-> Copied(logsetting.filepath, FilePath(conf.path, day)),
                    loglevel |-> conf.level]
  /\ pc' = "filter"
  /\ UNCHANGED <<conf, day, loging, streams, request, line, seen>>

\* initlog: the level is not to be written.
FilterOut ==
  /\ pc = "filter"
  /\ request \notin logsetting.loglevel
  /\ pc' = "idle"
  /\ UNCHANGED <<conf, day, logsetting, loging, streams, request, line, seen>>

\* It is: loging is cleared, and the time of the line is taken.
SetTime ==
  /\ pc = "filter"
  /\ request \in logsetting.loglevel
  /\ loging' = [logtime |-> day, logfile |-> NULL]
  /\ pc' = "open"
  /\ UNCHANGED <<conf, day, logsetting, streams, request, line, seen>>

\* The path of this call: the cached one, or the first one, in HOME.
CallPath ==
  IF logsetting.filepath = NULL THEN FilePath(HOME, day) ELSE logsetting.filepath

OpenFile ==
  /\ pc = "open"
  /\ logsetting' = [logsetting EXCEPT !.filepath = CallPath]
  /\ loging' = [loging EXCEPT !.logfile = CallPath]
  /\ streams' = streams + 1
  /\ pc' = "write"
  /\ UNCHANGED <<conf, day, request, line, seen>>

OpenFails ==
  /\ pc = "open"
  /\ logsetting' = [logsetting EXCEPT !.filepath = CallPath]
  /\ pc' = "idle"
  /\ UNCHANGED <<conf, day, loging, streams, request, line, seen>>

\* fclose, and the handle is cleared.  Mutant: the handle alone.
Forget == loging' = [loging EXCEPT !.logfile = NULL] /\ UNCHANGED streams
Close == loging' = [loging EXCEPT !.logfile = NULL] /\ streams' = streams - 1

\* The line reaches the file when it is flushed, unless the disk is full;
\* nobody looks at what fflush says.
WriteLine ==
  /\ pc = "write"
  /\ \/ line' = [file |-> loging.logfile, level |-> request, time |-> loging.logtime]
     \/ UNCHANGED line
  /\ Close
  /\ pc' = "idle"
  /\ UNCHANGED <<conf, day, logsetting, request, seen>>

Step ==
  \/ SetDefaults \/ FindConfig \/ ReadFails \/ ReadConfig
  \/ FilterOut \/ SetTime \/ OpenFile \/ OpenFails \/ WriteLine
-----------------------------------------------------------------------------
\* What changes meanwhile.
EditConfig ==
  /\ conf' \in Configs \cup {None, Unreadable}
  /\ seen' = IF pc = "idle" THEN seen ELSE [seen EXCEPT !.confs = @ \cup {conf'}]
  /\ UNCHANGED <<day, process>>

Midnight ==
  /\ day < MaxDay
  /\ day' = day + 1
  /\ seen' = IF pc = "idle" THEN seen ELSE [seen EXCEPT !.days = @ \cup {day'}]
  /\ UNCHANGED <<conf, process>>

\* The process ends, at any point, and is started again.
Restart ==
  /\ logsetting' = NoSetting
  /\ loging' = NoLoging
  /\ streams' = 0
  /\ pc' = "idle"
  /\ request' = "INF"
  /\ line' = NoLine
  /\ seen' = [confs |-> {}, days |-> {}]
  /\ UNCHANGED <<conf, day>>

Next ==
  \/ \E level \in Levels : Call(level)
  \/ Step
  \/ EditConfig \/ Midnight \/ Restart

Spec == Init /\ [][Next]_vars
-----------------------------------------------------------------------------
TypeOK ==
  /\ conf \in Configs \cup {None, Unreadable}
  /\ day \in 1 .. MaxDay
  /\ logsetting \in [filepath : Paths, loglevel : SUBSET Levels]
  /\ loging \in [logtime : 0 .. MaxDay, logfile : Paths]
  /\ streams \in 0 .. 1
  /\ pc \in {"idle", "settings", "read", "filter", "open", "write"}
  /\ request \in Levels
  /\ line \in [file : Paths, level : Levels, time : 0 .. MaxDay]
  /\ seen \in [confs : SUBSET (Configs \cup {None, Unreadable}), days : SUBSET (1 .. MaxDay)]

\* A line is where a log.conf of its own call wants it: the call has seen one
\* that writes the line's level, and the file is that of a day of the call, not
\* after the line's own time, in the directory of that log.conf.  Or the call
\* has seen that there is none to read; then the line is an INF line, in the
\* file of a day that has come, in HOME or in the directory of an earlier
\* log.conf.  So neither the path nor the levels that a process remembers from
\* an earlier call get into a call that reads log.conf.
LineBelongs ==
  line # NoLine =>
    \/ \E c \in seen.confs \cap Configs, d \in seen.days :
         line.level \in c.level /\ d <= line.time /\ line.file = FilePath(c.path, d)
    \/ /\ seen.confs \cap {None, Unreadable} # {}
       /\ line.level = "INF"
       /\ \E dir \in {HOME} \cup {c.path : c \in Configs}, d \in 1 .. day :
            line.file = FilePath(dir, d)

\* Every stream is closed, whichever way a call ends and however often it is
\* made: between calls none is open, and in a call the handle is the only one.
HandlesClosed ==
  /\ streams = IF loging.logfile = NULL THEN 0 ELSE 1
  /\ pc # "write" => streams = 0
=============================================================================
