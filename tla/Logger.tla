------------------------------- MODULE Logger -------------------------------
(***************************************************************************)
(* The process-wide logger of src/utils/logger.cc, called by the owner of  *)
(* a tracer and by its reader thread at once.  Log tests the level before  *)
(* it takes the mutex; then the line goes to stderr and, if a file is set, *)
(* to the file.  SetOutput closes the file there was and opens another,    *)
(* which may fail.  Close, which is public, takes no mutex.  The k-th line *)
(* on stderr is the number k: what a line says is left out.                *)
(***************************************************************************)
EXTENDS Integers, Sequences

CONSTANTS
  Callers,    \* the threads that use the logger
  Nobody,     \* no thread
  Levels,     \* LogLevel, a set of numbers
  CloseAlone, \* Close is called only while no other thread is in the logger,
              \* and none enters it meanwhile; nothing in the code sees to that
  MaxLines,   \* no line is begun when stderr has as many
  MaxFiles    \* bound on the files opened

ASSUME LoggerAssumption ==
  /\ Nobody \notin Callers
  /\ Levels \subseteq Nat /\ 1 \in Levels
  /\ CloseAlone \in BOOLEAN
  /\ MaxLines \in Nat /\ MaxFiles \in Nat

NoFile == 0   \* nullptr; the k-th file opened is the number k

VARIABLES
  level,     \* level_
  file,      \* file_
  mutex,     \* the thread that holds mutex_, or Nobody
  logging,   \* where each thread is in Log, SetOutput or Close
  held,      \* the value of file_ each thread tested
  printed,   \* how many lines stderr has
  mine,      \* the number of the line each thread is writing
  filed,     \* history: the lines in the files, as [line, file] records
  opened,    \* history: how many files have been opened
  closed,    \* history: the files closed, in order
  exited     \* the static instance has been destroyed

loggerVars == <<level, file, mutex, logging, held, printed, mine, filed, opened,
          closed, exited>>
fileVars == <<file, opened, closed>>
lineVars == <<printed, mine, filed>>

(* file_ is read at its test and once more when it is used.  If another    *)
(* thread writes it in between, the two differ and either may be used.     *)
Handles(t) == {held[t], file}

(* In a Close that was called from outside.                                *)
ClosingOutside(t) == logging[t] \in {"test", "fclose", "clear"} /\ mutex # t

MayEnter(t) ==
  /\ ~exited /\ logging[t] = "idle"
  /\ CloseAlone => \A u \in Callers : ~ClosingOutside(u)

-----------------------------------------------------------------------------
LoggerInit ==
  /\ level = 1 /\ file = NoFile /\ mutex = Nobody
  /\ logging = [t \in Callers |-> "idle"]
  /\ held = [t \in Callers |-> NoFile]
  /\ printed = 0 /\ mine = [t \in Callers |-> 0] /\ filed = <<>>
  /\ opened = 0 /\ closed = <<>>
  /\ exited = FALSE

(* level_ is read without the mutex: the level before or after a SetLevel  *)
(* that runs at the same time.                                             *)
LogTest(t, l) ==
  /\ MayEnter(t)
  /\ printed < MaxLines
  /\ l >= level
  /\ logging' = [logging EXCEPT ![t] = "lock"]
  /\ UNCHANGED <<level, mutex, held, fileVars, lineVars, exited>>

LogLock(t) ==
  /\ logging[t] = "lock"
  /\ mutex = Nobody
  /\ mutex' = t
  /\ logging' = [logging EXCEPT ![t] = "stderr"]
  /\ UNCHANGED <<level, held, fileVars, lineVars, exited>>

LogStderrUnlocking(t) ==
  /\ logging[t] = "stderr"
  /\ printed' = printed + 1
  /\ mine' = [mine EXCEPT ![t] = printed + 1]
  /\ held' = [held EXCEPT ![t] = file]
  /\ mutex' = Nobody
  /\ logging' = [logging EXCEPT ![t] = IF file = NoFile THEN "idle" ELSE "file"]
  /\ UNCHANGED <<level, fileVars, filed, exited>>

(* The line on stderr, and the test of file_. *)
LogStderr(t) ==
  /\ logging[t] = "stderr"
  /\ printed' = printed + 1
  /\ mine' = [mine EXCEPT ![t] = printed + 1]
  /\ held' = [held EXCEPT ![t] = file]
  /\ logging' = [logging EXCEPT ![t] = IF file = NoFile THEN "unlock" ELSE "file"]
  /\ UNCHANGED <<level, mutex, fileVars, filed, exited>>

(* The line in the file, flushed. *)
LogFile(t) ==
  /\ logging[t] = "file"
  /\ \E f \in Handles(t) : filed' = Append(filed, [line |-> mine[t], file |-> f])
  /\ logging' = [logging EXCEPT ![t] = "unlock"]
  /\ UNCHANGED <<level, mutex, held, fileVars, printed, mine, exited>>

Unlock(t) ==
  /\ logging[t] = "unlock"
  /\ mutex' = Nobody
  /\ logging' = [logging EXCEPT ![t] = "idle"]
  /\ UNCHANGED <<level, held, fileVars, lineVars, exited>>

(* It holds the mutex from its first step to its last. *)
SetLevel(t, l) ==
  /\ MayEnter(t) /\ mutex = Nobody
  /\ level' = l
  /\ UNCHANGED <<mutex, logging, held, fileVars, lineVars, exited>>

SetOutputLockKeeping(t) ==
  /\ MayEnter(t) /\ mutex = Nobody
  /\ mutex' = t
  /\ logging' = [logging EXCEPT ![t] = "open"]
  /\ UNCHANGED <<level, held, fileVars, lineVars, exited>>

(* SetOutput takes the mutex and calls Close; *)
SetOutputLock(t) ==
  /\ MayEnter(t) /\ mutex = Nobody
  /\ mutex' = t
  /\ logging' = [logging EXCEPT ![t] = "test"]
  /\ UNCHANGED <<level, held, fileVars, lineVars, exited>>

(* open: a path is given and fopen succeeds. *)
SetOutputOpen(t, open) ==
  /\ logging[t] = "open"
  /\ open => opened < MaxFiles
  /\ opened' = IF open THEN opened + 1 ELSE opened
  /\ file' = IF open THEN opened + 1 ELSE NoFile
  /\ logging' = [logging EXCEPT ![t] = "unlock"]
  /\ UNCHANGED <<level, mutex, held, closed, lineVars, exited>>

(* anyone else calls it without the mutex. *)
CloseCall(t) ==
  /\ MayEnter(t)
  /\ CloseAlone => \A u \in Callers : logging[u] = "idle"
  /\ logging' = [logging EXCEPT ![t] = "test"]
  /\ UNCHANGED <<level, mutex, held, fileVars, lineVars, exited>>

AfterClose(t) == IF mutex = t THEN "open" ELSE "idle"   \* in SetOutput or not

CloseTest(t) ==
  /\ logging[t] = "test"
  /\ held' = [held EXCEPT ![t] = file]
  /\ logging' = [logging EXCEPT ![t] = IF file = NoFile THEN AfterClose(t)
                                      ELSE "fclose"]
  /\ UNCHANGED <<level, mutex, fileVars, lineVars, exited>>

CloseFile(t) ==
  /\ logging[t] = "fclose"
  /\ \E f \in Handles(t) : closed' = Append(closed, f)
  /\ logging' = [logging EXCEPT ![t] = "clear"]
  /\ UNCHANGED <<level, file, mutex, held, opened, lineVars, exited>>

CloseClear(t) ==
  /\ logging[t] = "clear"
  /\ file' = NoFile
  /\ logging' = [logging EXCEPT ![t] = AfterClose(t)]
  /\ UNCHANGED <<level, mutex, held, opened, closed, lineVars, exited>>

(* ~Logger, when main has returned and the other threads are gone. *)
Exit ==
  /\ ~exited
  /\ \A t \in Callers : logging[t] = "idle"
  /\ closed' = IF file = NoFile THEN closed ELSE Append(closed, file)
  /\ file' = NoFile
  /\ exited' = TRUE
  /\ UNCHANGED <<level, mutex, logging, held, lineVars, opened>>

LogStep(t) ==
  \/ \E l \in Levels : LogTest(t, l)
  \/ LogLock(t) \/ LogStderr(t) \/ LogFile(t) \/ Unlock(t)

OutputStep(t) ==
  \/ SetOutputLock(t) \/ CloseCall(t)
  \/ CloseTest(t) \/ CloseFile(t) \/ CloseClear(t)
  \/ \E open \in BOOLEAN : SetOutputOpen(t, open)

LoggerOver == exited /\ UNCHANGED loggerVars

LoggerNext ==
  \/ \E t \in Callers : LogStep(t) \/ OutputStep(t)
  \/ \E t \in Callers, l \in Levels : SetLevel(t, l)
  \/ Exit
  \/ LoggerOver

LoggerSpec == LoggerInit /\ [][LoggerNext]_loggerVars

-----------------------------------------------------------------------------
Places == {"idle", "lock", "stderr", "file", "unlock", "test", "fclose", "clear",
           "open"}

LoggerTypeOK ==
  /\ level \in Levels /\ file \in Nat /\ mutex \in Callers \cup {Nobody}
  /\ logging \in [Callers -> Places] /\ held \in [Callers -> Nat]
  /\ printed \in Nat /\ mine \in [Callers -> Nat]
  /\ filed \in Seq([line : Nat, file : Nat])
  /\ opened \in Nat /\ closed \in Seq(Nat)
  /\ exited \in BOOLEAN

(* Whatever the threads do at once, the files hold their lines in the      *)
(* order of stderr, each once, and in files opened in that order; between  *)
(* two lines of a file none of stderr is missing.                          *)
FilesFollowStderr ==
  /\ \A i, j \in 1 .. Len(filed) :
       i < j => /\ filed[i].line < filed[j].line
                /\ filed[i].file <= filed[j].file
  /\ \A i \in 1 .. Len(filed) - 1 :
       filed[i + 1].file = filed[i].file =>
         filed[i + 1].line = filed[i].line + 1

Open(f) == f \in 1 .. opened /\ \A i \in 1 .. Len(closed) : closed[i] # f

(* No FILE is closed twice, leaked or used after fclose: the one that Log  *)
(* writes to or Close closes is open, no other is, and none is left open   *)
(* when the process ends.                                                  *)
FilesClosedOnce ==
  /\ \A i, j \in 1 .. Len(closed) : i # j => closed[i] # closed[j]
  /\ \A t \in Callers :
       logging[t] \in {"file", "fclose"} => \A f \in Handles(t) : Open(f)
  /\ \A f \in 1 .. opened : Open(f) => f = file
  /\ exited => \A f \in 1 .. opened : ~Open(f)
=============================================================================
