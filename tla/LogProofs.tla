----------------------------- MODULE LogProofs -----------------------------
(***************************************************************************)
(* Log's invariants for every set of log.confs.  Types and handles are     *)
(* right in all cases; a line belongs to its call whenever no path is      *)
(* longer than another one that may overwrite it: the case that log.c gets *)
(* right.                                                                  *)
(***************************************************************************)
EXTENDS Log, SequenceTheorems, TLAPS

\* All log.confs name directories of one length, and HOME is not longer.
EvenPaths ==
  \A c \in Configs : Len(HOME) <= Len(c.path) /\ \A e \in Configs : Len(e.path) = Len(c.path)

AllConfs == Configs \cup {None, Unreadable}
Dirs == {HOME} \cup {c.path : c \in Configs}

\* A file that is, by today, in a directory that some log.conf or HOME names.
Known(file, today) == \E dir \in Dirs, d \in 1 .. today : file = FilePath(dir, d)

\* The file and the levels that a log.conf which the call has seen asks for.
Chosen(file, levels, time) ==
  \E c \in seen.confs \cap Configs, d \in seen.days :
    levels = c.level /\ d <= time /\ file = FilePath(c.path, d)

Unchosen(levels) == seen.confs \cap {None, Unreadable} # {} /\ levels = {"INF"}

\* What a call knows after each of its steps.
Watched == pc # "idle" => conf \in seen.confs /\ day \in seen.days /\ line = NoLine
PathKnown == logsetting.filepath = NULL \/ Known(logsetting.filepath, day)
LevelSettled ==
  /\ pc = "filter" =>
       \/ Chosen(logsetting.filepath, logsetting.loglevel, day)
       \/ Unchosen(logsetting.loglevel)
  /\ pc = "open" =>
       /\ request \in logsetting.loglevel
       /\ \/ Chosen(logsetting.filepath, logsetting.loglevel, loging.logtime)
          \/ Unchosen(logsetting.loglevel)
FileSettled ==
  pc = "write" =>
    /\ request \in logsetting.loglevel
    /\ Known(loging.logfile, day)
    /\ \/ Chosen(loging.logfile, logsetting.loglevel, loging.logtime)
       \/ Unchosen(logsetting.loglevel)

CallInv == Watched /\ PathKnown /\ LevelSettled /\ FileSettled

\* What holds whatever the lengths of the paths are.
BasicInv == TypeOK /\ HandlesClosed /\ (pc = "write" => streams = 1)

IInv == BasicInv /\ CallInv /\ LineBelongs

LEMMA EmptyPath == NULL \in Paths
BY DEF NULL, Paths

LEMMA FilePathProperties ==
  ASSUME NEW dir \in Dirs, NEW d \in 1 .. MaxDay
  PROVE  /\ FilePath(dir, d) \in Paths
         /\ FilePath(dir, d) # NULL
         /\ Len(FilePath(dir, d)) = Len(dir) + 1
<1> DEFINE S == Parts \cup (1 .. MaxDay)
<1>1. dir \in Seq(Parts)
  BY LogAssumption DEF Dirs
<1>2. dir \in Seq(S) /\ d \in S
  <2>1. \A x \in Seq(Parts) : x \in Seq(S)
    OBVIOUS
  <2> QED
    BY <1>1, <2>1
<1> HIDE DEF S
<1>3. /\ Append(dir, d) \in Seq(S)
      /\ Append(dir, d) # << >>
      /\ Len(Append(dir, d)) = Len(dir) + 1
  BY <1>2, AppendProperties
<1> QED
  BY <1>3 DEF FilePath, Paths, NULL, S

\* A path overwrites one that is not longer as a whole.
LEMMA CopiedWhole ==
  ASSUME NEW old \in Paths, NEW new \in Paths, Len(old) <= Len(new)
  PROVE  Copied(old, new) = new
<1>1. SubSeq(old, Len(new) + 1, Len(old)) = << >>
  BY LenProperties DEF Paths
<1> QED
  BY <1>1, ConcatEmptySeq DEF Copied, Paths

\* What log.conf says is taken as it is.
LEMMA ReadWhole ==
  ASSUME IInv, EvenPaths, conf \in Configs
  PROVE  Copied(logsetting.filepath, FilePath(conf.path, day)) = FilePath(conf.path, day)
<1> DEFINE old == logsetting.filepath  new == FilePath(conf.path, day)
<1>1. day \in 1 .. MaxDay /\ conf.path \in Dirs /\ old \in Paths
  BY DEF IInv, BasicInv, TypeOK, Dirs
<1>2. new \in Paths /\ Len(new) = Len(conf.path) + 1 /\ Len(conf.path) \in Nat
  BY <1>1, FilePathProperties, LogAssumption
<1>3. CASE old = NULL
  BY <1>1, <1>2, <1>3, CopiedWhole DEF NULL
<1>4. CASE Known(old, day)
  <2>1. PICK dir \in Dirs, d \in 1 .. day : old = FilePath(dir, d)
    BY <1>4 DEF Known
  <2>2. d \in 1 .. MaxDay
    BY <1>1, LogAssumption
  <2>3. Len(old) = Len(dir) + 1
    BY <2>1, <2>2, FilePathProperties
  <2>4. Len(dir) <= Len(conf.path) /\ Len(dir) \in Nat
    BY LogAssumption DEF EvenPaths, Dirs
  <2> QED
    BY <1>1, <1>2, <2>3, <2>4, CopiedWhole
<1> QED
  BY <1>3, <1>4 DEF IInv, CallInv, PathKnown

LEMMA CopiedType ==
  ASSUME NEW old \in Paths, NEW new \in Paths
  PROVE  Copied(old, new) \in Paths
<1>1. SubSeq(old, Len(new) + 1, Len(old)) \in Paths
  BY LenProperties, SubSeqProperties DEF Paths
<1> QED
  BY <1>1, ConcatProperties DEF Copied, Paths

LEMMA BasicInit == Init => BasicInv
BY EmptyPath, LogAssumption
   DEF Init, BasicInv, TypeOK, HandlesClosed, NoSetting, NoLoging, NoLine, Levels

LEMMA BasicNext == BasicInv /\ [Next]_vars => BasicInv'
<1> SUFFICES ASSUME BasicInv, [Next]_vars PROVE BasicInv'
  OBVIOUS
<1> USE DEF BasicInv
<1>1. /\ day \in 1 .. MaxDay /\ HOME \in Dirs
      /\ \A c \in Configs : c.path \in Dirs /\ c.level \in SUBSET Levels
  BY LogAssumption DEF TypeOK, Dirs
<1>2. CallPath \in Paths /\ CallPath # NULL
  BY <1>1, FilePathProperties DEF TypeOK, CallPath
<1>3. CASE \E level \in Levels : Call(level)
  BY <1>1, <1>3, EmptyPath, LogAssumption DEF Call, TypeOK, HandlesClosed, NoLine, Levels
<1>4. CASE SetDefaults \/ FindConfig \/ ReadFails \/ FilterOut
  BY <1>4 DEF SetDefaults, FindConfig, ReadFails, FilterOut, TypeOK, HandlesClosed,
              DefaultLevel, Levels
<1>5. CASE ReadConfig
  <2>1. FilePath(conf.path, day) \in Paths
    BY <1>1, <1>5, FilePathProperties DEF ReadConfig
  <2>2. Copied(logsetting.filepath, FilePath(conf.path, day)) \in Paths
    BY <2>1, CopiedType DEF TypeOK
  <2>3. TypeOK'
    BY <1>1, <1>5, <2>2 DEF ReadConfig, TypeOK
  <2> QED
    BY <1>5, <2>3 DEF ReadConfig, HandlesClosed
<1>6. CASE SetTime
  BY <1>6, EmptyPath, LogAssumption DEF SetTime, TypeOK, HandlesClosed
<1>7. CASE OpenFile \/ OpenFails
  BY <1>2, <1>7 DEF OpenFile, OpenFails, TypeOK, HandlesClosed
<1>8. CASE WriteLine
  BY <1>8, EmptyPath DEF WriteLine, Close, TypeOK, HandlesClosed
<1>9. CASE EditConfig \/ Midnight
  BY <1>9, LogAssumption DEF EditConfig, Midnight, process, TypeOK, HandlesClosed
<1>10. CASE Restart
  BY <1>10, EmptyPath, LogAssumption
     DEF Restart, TypeOK, HandlesClosed, NoSetting, NoLoging, NoLine, Levels
<1>11. CASE UNCHANGED vars
  BY <1>11 DEF vars, process, TypeOK, HandlesClosed
<1> QED
  BY <1>3, <1>4, <1>5, <1>6, <1>7, <1>8, <1>9, <1>10, <1>11 DEF Next, Step

LEMMA BasicInvariant == Spec => []BasicInv
BY BasicInit, BasicNext, PTL DEF Spec

\* The settings, the paths and the count of streams have their types, whatever
\* the log.confs say.
THEOREM LogTypeCorrect == Spec => []TypeOK
<1>1. BasicInv => TypeOK
  BY DEF BasicInv
<1> QED
  BY <1>1, BasicInvariant, PTL

\* Every stream is closed, whichever way the calls end.
THEOREM HandlesCorrect == Spec => []HandlesClosed
<1>1. BasicInv => HandlesClosed
  BY DEF BasicInv
<1> QED
  BY <1>1, BasicInvariant, PTL
-----------------------------------------------------------------------------
LEMMA LogInit == Init => IInv
<1> SUFFICES ASSUME Init PROVE IInv
  OBVIOUS
<1>1. CallInv
  BY DEF Init, CallInv, Watched, PathKnown, LevelSettled, FileSettled, NoSetting
<1> QED
  BY <1>1, BasicInit DEF Init, IInv, LineBelongs

LEMMA CallKeeps ==
  ASSUME IInv, NEW level \in Levels, Call(level)
  PROVE  (CallInv /\ LineBelongs)'
BY DEF IInv, Call, CallInv, Watched, PathKnown, LevelSettled, FileSettled, LineBelongs

\* There is no log.conf, or none that can be read.
LEMMA DefaultsKeep ==
  ASSUME IInv, SetDefaults \/ ReadFails
  PROVE  (CallInv /\ LineBelongs)'
<1> USE DEF IInv, SetDefaults, ReadFails
<1>1. logsetting'.filepath = logsetting.filepath /\ logsetting'.loglevel = {"INF"}
  BY DEF BasicInv, TypeOK, DefaultLevel
<1>2. Watched' /\ PathKnown' /\ FileSettled'
  BY <1>1 DEF CallInv, Watched, PathKnown, FileSettled
<1>3. LevelSettled'
  BY <1>1 DEF CallInv, Watched, LevelSettled, Unchosen
<1>4. LineBelongs'
  BY DEF LineBelongs, CallInv, Watched
<1> QED
  BY <1>2, <1>3, <1>4 DEF CallInv

LEMMA ReadKeeps ==
  ASSUME IInv, EvenPaths, ReadConfig
  PROVE  (CallInv /\ LineBelongs)'
<1> DEFINE path == FilePath(conf.path, day)
<1> USE DEF IInv, ReadConfig
<1>1. logsetting' = [filepath |-> path, loglevel |-> conf.level]
  BY ReadWhole
<1>2. day \in 1 .. MaxDay /\ conf.path \in Dirs
  BY DEF BasicInv, TypeOK, Dirs
<1>3. conf \in seen.confs \cap Configs /\ day \in seen.days
  BY DEF CallInv, Watched
<1>4. Known(path, day)
  BY <1>2 DEF Known
<1>5. Chosen(path, conf.level, day)
  BY <1>2, <1>3 DEF Chosen
<1> HIDE DEF path
<1>6. Watched' /\ PathKnown' /\ FileSettled'
  BY <1>1, <1>4 DEF CallInv, Watched, PathKnown, FileSettled
<1>7. LevelSettled'
  BY <1>1, <1>5 DEF LevelSettled, Chosen
<1>8. LineBelongs'
  BY DEF LineBelongs, CallInv, Watched
<1> QED
  BY <1>6, <1>7, <1>8 DEF CallInv

LEMMA FilterKeeps ==
  ASSUME IInv, FindConfig \/ FilterOut \/ SetTime
  PROVE  (CallInv /\ LineBelongs)'
<1> USE DEF IInv, FindConfig, FilterOut, SetTime
<1>1. Watched' /\ PathKnown' /\ FileSettled'
  BY DEF CallInv, Watched, PathKnown, FileSettled
<1>2. LevelSettled'
  BY DEF CallInv, LevelSettled, Chosen, Unchosen
<1>3. LineBelongs'
  BY DEF LineBelongs, CallInv, Watched
<1> QED
  BY <1>1, <1>2, <1>3 DEF CallInv

\* The path that the call opens is known, and is the one it has settled on.
LEMMA OpenKeeps ==
  ASSUME IInv, OpenFile \/ OpenFails
  PROVE  (CallInv /\ LineBelongs)'
<1> USE DEF IInv
<1>1. day \in 1 .. MaxDay /\ HOME \in Dirs
  BY DEF BasicInv, TypeOK, Dirs
<1>2. Known(CallPath, day)
  BY <1>1 DEF CallInv, PathKnown, CallPath, Known
<1>3. ASSUME NEW levels, NEW time, Chosen(logsetting.filepath, levels, time)
      PROVE  CallPath = logsetting.filepath
  <2>1. \E c \in Configs, d \in 1 .. MaxDay : logsetting.filepath = FilePath(c.path, d)
    BY <1>3 DEF Chosen, BasicInv, TypeOK
  <2>2. logsetting.filepath # NULL
    BY <2>1, FilePathProperties DEF Dirs
  <2> QED
    BY <2>2 DEF CallPath
<1>4. logsetting' = [logsetting EXCEPT !.filepath = CallPath]
  BY DEF OpenFile, OpenFails
<1>5. Watched' /\ PathKnown' /\ LevelSettled'
  BY <1>2, <1>4
     DEF CallInv, Watched, PathKnown, LevelSettled, OpenFile, OpenFails, BasicInv, TypeOK
<1>6. FileSettled'
  <2>1. CASE OpenFails
    BY <2>1 DEF FileSettled, OpenFails
  <2>2. CASE OpenFile
    <3>1. /\ loging'.logfile = CallPath
          /\ loging'.logtime = loging.logtime
          /\ logsetting'.loglevel = logsetting.loglevel
      BY <1>4, <2>2 DEF OpenFile, BasicInv, TypeOK
    <3>2. /\ request \in logsetting.loglevel
          /\ \/ Chosen(CallPath, logsetting.loglevel, loging.logtime)
             \/ Unchosen(logsetting.loglevel)
      BY <1>3, <2>2 DEF OpenFile, CallInv, LevelSettled
    <3> QED
      BY <1>2, <2>2, <3>1, <3>2 DEF OpenFile, FileSettled, Chosen, Unchosen
  <2> QED
    BY <2>1, <2>2
<1>7. LineBelongs'
  BY DEF LineBelongs, CallInv, Watched, OpenFile, OpenFails
<1> QED
  BY <1>5, <1>6, <1>7 DEF CallInv

LEMMA WriteKeeps ==
  ASSUME IInv, WriteLine
  PROVE  (CallInv /\ LineBelongs)'
<1> USE DEF IInv, WriteLine
<1>1. CallInv'
  BY DEF CallInv, Watched, PathKnown, LevelSettled, FileSettled
<1>2. LineBelongs'
  <2>1. CASE UNCHANGED line
    BY <2>1 DEF LineBelongs, CallInv, Watched
  <2>2. CASE line' = [file |-> loging.logfile, level |-> request, time |-> loging.logtime]
    <3>1. CASE Chosen(loging.logfile, logsetting.loglevel, loging.logtime)
      BY <2>2, <3>1 DEF Chosen, LineBelongs, CallInv, FileSettled
    <3>2. CASE Unchosen(logsetting.loglevel)
      BY <2>2, <3>2 DEF Unchosen, LineBelongs, CallInv, FileSettled, Known, Dirs
    <3> QED
      BY <3>1, <3>2 DEF CallInv, FileSettled
  <2> QED
    BY <2>1, <2>2
<1> QED
  BY <1>1, <1>2

\* What happens outside of the process takes nothing from what a call knows.
LEMMA OutsideKeeps ==
  ASSUME IInv, EditConfig \/ Midnight
  PROVE  (CallInv /\ LineBelongs)'
<1> USE DEF IInv, EditConfig, Midnight, process
<1>1. /\ day <= day' /\ day \in Nat /\ day' \in Nat
      /\ seen.confs \subseteq seen'.confs /\ seen.days \subseteq seen'.days
  BY DEF BasicInv, TypeOK
<1>2. ASSUME NEW file, Known(file, day) PROVE Known(file, day')
  BY <1>1, <1>2 DEF Known
<1>3. Watched' /\ PathKnown'
  BY <1>2 DEF CallInv, Watched, PathKnown, BasicInv, TypeOK
<1>4. seen.days \subseteq Nat
  BY DEF BasicInv, TypeOK
<1>5. LevelSettled'
  BY <1>1, <1>4 DEF CallInv, LevelSettled, Chosen, Unchosen
<1>6. FileSettled'
  BY <1>1, <1>2 DEF CallInv, FileSettled, Chosen, Unchosen
<1>7. LineBelongs'
  <2>1. line' = line
    OBVIOUS
  <2> QED
    BY <1>1, <2>1 DEF LineBelongs
<1> QED
  BY <1>3, <1>5, <1>6, <1>7 DEF CallInv

LEMMA RestartKeeps ==
  ASSUME Restart
  PROVE  (CallInv /\ LineBelongs)'
BY DEF Restart, NoSetting, CallInv, Watched, PathKnown, LevelSettled, FileSettled, LineBelongs

LEMMA LogNext == EvenPaths /\ IInv /\ [Next]_vars => IInv'
<1> SUFFICES ASSUME EvenPaths, IInv, [Next]_vars PROVE (CallInv /\ LineBelongs)'
  BY BasicNext DEF IInv
<1>1. CASE \E level \in Levels : Call(level)
  BY <1>1, CallKeeps
<1>2. CASE Step
  BY <1>2, DefaultsKeep, ReadKeeps, FilterKeeps, OpenKeeps, WriteKeeps DEF Step
<1>3. CASE EditConfig \/ Midnight \/ Restart
  BY <1>3, OutsideKeeps, RestartKeeps
<1>4. CASE UNCHANGED vars
  BY <1>4 DEF vars, process, IInv, LineBelongs, CallInv,
              Watched, PathKnown, LevelSettled, FileSettled, Chosen, Unchosen
<1> QED
  BY <1>1, <1>2, <1>3, <1>4 DEF Next

LEMMA LogInvariant == ASSUME EvenPaths PROVE Spec => []IInv
BY LogInit, LogNext, PTL DEF Spec

\* Every line belongs to its call, whatever the log.confs say, and whenever they
\* change, midnight passes or the process is started again, as long as their
\* directories have names of one length, and HOME has none that is longer.
THEOREM LineCorrect == ASSUME EvenPaths PROVE Spec => []LineBelongs
<1>1. IInv => LineBelongs
  BY DEF IInv
<1> QED
  BY <1>1, LogInvariant, PTL

=============================================================================
