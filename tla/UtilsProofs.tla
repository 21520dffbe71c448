---------------------------- MODULE UtilsProofs -----------------------------
(***************************************************************************)
(* Theorems about src/utils: the logger, for any threads, levels, lines    *)
(* and files, and the tick conversions, for all numbers of ticks and       *)
(* nanoseconds and words of every width.                                   *)
(***************************************************************************)
EXTENDS Logger, Timestamp, SlotArithmetic, TLAPS

-----------------------------------------------------------------------------
(* The logger                                                              *)

(* Each step keeps the types, whoever calls Close when.                    *)
LEMMA LoggerTypeKept == LoggerTypeOK /\ [LoggerNext]_loggerVars => LoggerTypeOK'
<1> SUFFICES ASSUME LoggerTypeOK, [LoggerNext]_loggerVars PROVE LoggerTypeOK'
  OBVIOUS
<1> USE LoggerAssumption DEF LoggerAssumption, fileVars, lineVars, NoFile
<1>0. NoFile \in Nat /\ {"idle", "lock", "stderr", "file", "unlock", "test",
      "fclose", "clear", "open"} = Places
  BY DEF Places
<1>1. CASE UNCHANGED loggerVars
  BY <1>1 DEF loggerVars, LoggerTypeOK
<1>2. ASSUME NEW t \in Callers, NEW l \in Levels, LogTest(t, l) \/ SetLevel(t, l)
      PROVE  LoggerTypeOK'
  BY <1>0, <1>2 DEF LoggerTypeOK, LogTest, SetLevel
<1>3. ASSUME NEW t \in Callers,
             \/ LogLock(t) \/ LogStderr(t) \/ Unlock(t) \/ SetOutputLock(t)
             \/ CloseCall(t) \/ CloseTest(t) \/ CloseClear(t)
      PROVE  LoggerTypeOK'
  <2>1. CASE LogLock(t) \/ Unlock(t) \/ SetOutputLock(t) \/ CloseCall(t)
    BY <1>0, <2>1 DEF LoggerTypeOK, LogLock, Unlock, SetOutputLock, CloseCall
  <2>2. CASE LogStderr(t)
    BY <1>0, <2>2 DEF LoggerTypeOK, LogStderr
  <2>3. CASE CloseTest(t)
    <3>1. held' \in [Callers -> Nat]
      BY <2>3 DEF LoggerTypeOK, CloseTest
    <3>2. logging' \in [Callers -> Places]
      BY <1>0, <2>3 DEF LoggerTypeOK, CloseTest, AfterClose
    <3> QED BY <2>3, <3>1, <3>2 DEF LoggerTypeOK, CloseTest
  <2>4. CASE CloseClear(t)
    BY <1>0, <2>4 DEF LoggerTypeOK, CloseClear, AfterClose
  <2> QED BY <1>3, <2>1, <2>2, <2>3, <2>4
<1>4. ASSUME NEW t \in Callers, LogFile(t) PROVE LoggerTypeOK'
  <2>1. PICK f \in Handles(t) : filed' = Append(filed, [line |-> mine[t], file |-> f])
    BY <1>4 DEF LogFile
  <2>2. f \in Nat /\ mine[t] \in Nat
    BY <2>1 DEF Handles, LoggerTypeOK
  <2> DEFINE entry == [line |-> mine[t], file |-> f]
             Entries == [line : Nat, file : Nat]
  <2>3. entry \in Entries /\ filed \in Seq(Entries) /\ filed' = Append(filed, entry)
    BY <2>1, <2>2 DEF LoggerTypeOK
  <2> HIDE DEF entry, Entries
  <2>4. filed' \in Seq(Entries)
    BY <2>3, AppendFacts
  <2> QED BY <1>0, <1>4, <2>4 DEF LoggerTypeOK, LogFile, Entries
<1>5. ASSUME NEW t \in Callers, CloseFile(t) PROVE LoggerTypeOK'
  <2>1. PICK f \in Handles(t) : closed' = Append(closed, f)
    BY <1>5 DEF CloseFile
  <2>2. f \in Nat /\ closed \in Seq(Nat)
    BY <2>1 DEF Handles, LoggerTypeOK
  <2>3. closed' \in Seq(Nat)
    BY <2>1, <2>2, AppendFacts
  <2> QED BY <1>0, <1>5, <2>3 DEF LoggerTypeOK, CloseFile
<1>6. ASSUME NEW t \in Callers, NEW open \in BOOLEAN, SetOutputOpen(t, open)
      PROVE  LoggerTypeOK'
  BY <1>0, <1>6 DEF LoggerTypeOK, SetOutputOpen
<1>7. ASSUME Exit PROVE LoggerTypeOK'
  <2>1. closed' \in Seq(Nat)
    BY <1>7, AppendFacts DEF LoggerTypeOK, Exit
  <2> QED BY <1>7, <2>1 DEF LoggerTypeOK, Exit
<1> QED BY <1>1, <1>2, <1>3, <1>4, <1>5, <1>6, <1>7
        DEF LoggerNext, LogStep, OutputStep, LoggerOver

LEMMA LoggerTypeInit == LoggerInit => LoggerTypeOK
<1> SUFFICES ASSUME LoggerInit PROVE LoggerTypeOK
  OBVIOUS
<1> USE LoggerAssumption DEF LoggerAssumption, LoggerInit, NoFile
<1>1. exited \in BOOLEAN /\ filed \in Seq([line : Nat, file : Nat])
      /\ closed \in Seq(Nat)
  BY EmptySeq
<1>2. logging \in [Callers -> Places] /\ mine \in [Callers -> Nat]
      /\ held \in [Callers -> Nat]
  BY DEF Places
<1>3. level \in Levels /\ file \in Nat /\ mutex \in Callers \cup {Nobody}
      /\ printed \in Nat /\ opened \in Nat
  OBVIOUS
<1> QED BY ONLY <1>1, <1>2, <1>3 DEF LoggerTypeOK

(* Every variable of the logger keeps its type, whatever the threads do    *)
(* and whoever calls Close when.                                           *)
THEOREM LoggerTypeCorrect == LoggerSpec => []LoggerTypeOK
BY LoggerTypeInit, LoggerTypeKept, PTL DEF LoggerSpec

-----------------------------------------------------------------------------
(* What holds when Close is called alone.                                  *)

Locked == {"stderr", "file", "unlock", "open"}
InClose == {"test", "fclose", "clear"}

(* Between the begin and the end of a lock_guard a thread holds mutex_; in *)
(* a Close called from outside it is alone.                                *)
MutexHeld ==
  /\ \A t \in Callers : logging[t] \in Locked => mutex = t
  /\ \A t \in Callers : mutex = t => logging[t] \in Locked \cup InClose
  /\ \A t, u \in Callers : ClosingOutside(t) /\ u # t => logging[u] = "idle"
  /\ exited => \A t \in Callers : logging[t] = "idle"

(* The files closed are the first ones opened, all but the one in file_,   *)
(* which is closed too for the moment before it is cleared.                *)
FilePart ==
  /\ file \in {NoFile, opened}
  /\ \A k \in 1 .. Len(closed) : closed[k] = k
  /\ file = NoFile => Len(closed) = opened
  /\ file # NoFile =>
       Len(closed) = IF \E t \in Callers : logging[t] = "clear"
                     THEN opened ELSE opened - 1
  /\ \A t \in Callers : logging[t] \in {"file", "fclose"} =>
       held[t] = file /\ file # NoFile
  /\ \A t \in Callers : logging[t] = "open" => file = NoFile
  /\ exited => file = NoFile

(* A thread about to write to the file holds the newest line on stderr,    *)
(* and the line before it is the last one in the file.                     *)
Writing == \E t \in Callers : logging[t] = "file"
LinePart ==
  /\ \A t \in Callers : logging[t] = "file" => mine[t] = printed
  /\ \A i \in 1 .. Len(filed) :
       /\ filed[i].line <= printed /\ filed[i].file <= opened
       /\ Writing => filed[i].line < printed
  /\ \A i \in 1 .. Len(filed) :
       i = Len(filed) /\ file # NoFile /\ filed[i].file = file =>
         printed = IF Writing THEN filed[i].line + 1 ELSE filed[i].line
  /\ FilesFollowStderr

LoggerInv == LoggerTypeOK /\ MutexHeld /\ FilePart /\ LinePart

(* One thread at a time is anywhere but before or at the lock.             *)
LEMMA OneInside ==
  ASSUME LoggerTypeOK, MutexHeld, NEW t \in Callers, NEW u \in Callers, u # t,
         logging[t] \in Locked \cup InClose
  PROVE  logging[u] \in {"idle", "lock"}
<1>1. logging[u] \in Places
  BY DEF LoggerTypeOK
<1>2. logging[u] \notin Locked
  BY DEF MutexHeld, ClosingOutside, InClose, Locked
<1>3. logging[u] \notin InClose
  BY DEF MutexHeld, ClosingOutside, InClose, Locked
<1> QED BY <1>1, <1>2, <1>3 DEF Places, Locked, InClose

-----------------------------------------------------------------------------
LEMMA LoggerInvInit == LoggerInit => LoggerInv
<1> SUFFICES ASSUME LoggerInit PROVE LoggerInv
  OBVIOUS
<1>1. LoggerTypeOK
  BY LoggerTypeInit
<1> USE LoggerAssumption DEF LoggerAssumption, LoggerInit, NoFile
<1>2. MutexHeld
  BY DEF MutexHeld, ClosingOutside, Locked, InClose
<1>3. FilePart
  BY DEF FilePart
<1>4. LinePart
  BY DEF LinePart, FilesFollowStderr
<1> QED BY <1>1, <1>2, <1>3, <1>4 DEF LoggerInv

LEMMA FiledTypes ==
  ASSUME LoggerTypeOK, NEW i \in 1 .. Len(filed)
  PROVE  filed[i].line \in Nat /\ filed[i].file \in Nat
<1> DEFINE Entries == [line : Nat, file : Nat]
<1>1. filed \in Seq(Entries)
  BY DEF LoggerTypeOK
<1> HIDE DEF Entries
<1>2. filed[i] \in Entries
  BY <1>1, ElementOfSeq
<1> QED BY <1>2 DEF Entries

(* Every step keeps the mutual exclusion.                                  *)
LEMMA MutexKept ==
  ASSUME CloseAlone, LoggerTypeOK, MutexHeld, LoggerNext
  PROVE  MutexHeld'
<1> USE LoggerAssumption DEF LoggerAssumption, fileVars, lineVars
<1>1. ASSUME NEW t \in Callers, NEW l \in Levels, LogTest(t, l) \/ SetLevel(t, l)
      PROVE  MutexHeld'
  BY <1>1 DEF LoggerTypeOK, MutexHeld, LogTest, SetLevel, MayEnter, ClosingOutside,
              Locked, InClose
<1>2. ASSUME NEW t \in Callers, LogLock(t) \/ Unlock(t) \/ SetOutputLock(t)
      PROVE  MutexHeld'
  <2>1. CASE LogLock(t)
    <3>1. \A u \in Callers : logging[u] \notin Locked /\ ~ClosingOutside(u)
      BY <2>1 DEF LogLock, MutexHeld, ClosingOutside
    <3> QED BY <2>1, <3>1 DEF LoggerTypeOK, MutexHeld, LogLock, ClosingOutside,
                              Locked, InClose
  <2>2. CASE Unlock(t)
    BY <2>2 DEF LoggerTypeOK, MutexHeld, Unlock, ClosingOutside, Locked, InClose
  <2>3. CASE SetOutputLock(t)
    BY <2>3 DEF LoggerTypeOK, MutexHeld, SetOutputLock, MayEnter, ClosingOutside,
                Locked, InClose
  <2> QED BY <1>2, <2>1, <2>2, <2>3
<1>3. ASSUME NEW t \in Callers, LogStderr(t) \/ LogFile(t) PROVE MutexHeld'
  BY <1>3 DEF LoggerTypeOK, MutexHeld, LogStderr, LogFile, ClosingOutside,
              Locked, InClose
<1>4. ASSUME NEW t \in Callers, CloseCall(t) PROVE MutexHeld'
  BY <1>4 DEF LoggerTypeOK, MutexHeld, CloseCall, MayEnter, ClosingOutside,
              Locked, InClose
<1>5. ASSUME NEW t \in Callers, CloseTest(t) \/ CloseFile(t) \/ CloseClear(t)
      PROVE  MutexHeld'
  <2>1. CASE CloseTest(t)
    BY <2>1 DEF LoggerTypeOK, MutexHeld, CloseTest, AfterClose, ClosingOutside,
                Locked, InClose
  <2>2. CASE CloseFile(t)
    BY <2>2 DEF LoggerTypeOK, MutexHeld, CloseFile, ClosingOutside, Locked, InClose
  <2>3. CASE CloseClear(t)
    BY <2>3 DEF LoggerTypeOK, MutexHeld, CloseClear, AfterClose, ClosingOutside,
                Locked, InClose
  <2> QED BY <1>5, <2>1, <2>2, <2>3
<1>6. ASSUME NEW t \in Callers, NEW open \in BOOLEAN, SetOutputOpen(t, open)
      PROVE  MutexHeld'
  BY <1>6 DEF LoggerTypeOK, MutexHeld, SetOutputOpen, ClosingOutside,
              Locked, InClose
<1>7. CASE Exit
  BY <1>7 DEF MutexHeld, Exit, ClosingOutside, InClose
<1>8. CASE LoggerOver
  BY <1>8 DEF MutexHeld, LoggerOver, loggerVars, ClosingOutside
<1> QED BY <1>1, <1>2, <1>3, <1>4, <1>5, <1>6, <1>7, <1>8
        DEF LoggerNext, LogStep, OutputStep

(* The steps that touch neither the files nor the lines.                   *)
LEMMA QuietKeeps ==
  ASSUME LoggerInv, NEW t \in Callers,
         \/ \E l \in Levels : LogTest(t, l) \/ SetLevel(t, l)
         \/ LogLock(t) \/ Unlock(t) \/ SetOutputLock(t) \/ CloseCall(t)
         \/ CloseTest(t)
  PROVE  FilePart' /\ LinePart'
<1> USE DEF LoggerInv
<1>1. UNCHANGED <<file, opened, closed, printed, mine, filed, exited>>
  BY DEF LogTest, SetLevel, LogLock, Unlock, SetOutputLock, CloseCall, CloseTest,
         fileVars, lineVars
<1>2. \A u \in Callers : logging'[u] = "file" <=> logging[u] = "file"
  BY DEF LoggerTypeOK, LogTest, SetLevel, LogLock, Unlock, SetOutputLock,
         CloseCall, CloseTest, MayEnter, AfterClose
<1>3. \A u \in Callers : logging'[u] = "clear" <=> logging[u] = "clear"
  BY DEF LoggerTypeOK, LogTest, SetLevel, LogLock, Unlock, SetOutputLock,
         CloseCall, CloseTest, MayEnter, AfterClose
<1>4. \A u \in Callers : logging'[u] \in {"file", "fclose"} =>
        held'[u] = file /\ file # NoFile
  BY DEF FilePart, LoggerTypeOK, LogTest, SetLevel, LogLock, Unlock, SetOutputLock,
         CloseCall, CloseTest, MayEnter, AfterClose
<1>5. \A u \in Callers : logging'[u] = "open" => file = NoFile
  BY DEF FilePart, LoggerTypeOK, LogTest, SetLevel, LogLock, Unlock, SetOutputLock,
         CloseCall, CloseTest, MayEnter, AfterClose
<1>6. FilePart'
  BY <1>1, <1>3, <1>4, <1>5 DEF FilePart
<1>7. Writing' <=> Writing
  BY <1>2 DEF Writing
<1>8. LinePart'
  BY <1>1, <1>2, <1>7 DEF LinePart, FilesFollowStderr
<1> QED BY <1>6, <1>8

LEMMA StderrKeeps ==
  ASSUME LoggerInv, NEW t \in Callers, LogStderr(t)
  PROVE  FilePart' /\ LinePart'
<1> USE DEF LoggerInv, fileVars, LogStderr
<1>1. \A u \in Callers : u # t => logging'[u] = logging[u] /\ logging[u] \in {"idle", "lock"}
  BY OneInside DEF LoggerTypeOK, Locked
<1>2. /\ logging'[t] = IF file = NoFile THEN "unlock" ELSE "file"
      /\ logging[t] = "stderr" /\ held'[t] = file
  BY DEF LoggerTypeOK
<1>3. ~Writing /\ (Writing' <=> file # NoFile)
  BY <1>1, <1>2 DEF Writing
<1>4. \A u \in Callers : logging[u] # "clear" /\ logging'[u] # "clear"
  BY <1>1, <1>2
<1>5. FilePart'
  BY <1>1, <1>2, <1>4 DEF FilePart
<1>6. printed \in Nat /\ printed' = printed + 1 /\ mine'[t] = printed + 1
  BY DEF LoggerTypeOK
<1>7. \A i \in 1 .. Len(filed) : filed[i].line \in Nat
  BY FiledTypes
<1>8. LinePart'
  BY <1>1, <1>2, <1>3, <1>6, <1>7 DEF LinePart, FilesFollowStderr
<1> QED BY <1>5, <1>8

LEMMA FileKeeps ==
  ASSUME LoggerInv, NEW t \in Callers, LogFile(t)
  PROVE  FilePart' /\ LinePart'
<1> USE DEF LoggerInv
<1> DEFINE entry == [line |-> mine[t], file |-> file]
           Entries == [line : Nat, file : Nat]
<1>1. logging[t] = "file" /\ held[t] = file /\ file # NoFile /\ file = opened
      /\ mine[t] = printed /\ Writing
  BY DEF FilePart, LinePart, LogFile, Writing
<1>2. filed' = Append(filed, entry)
  BY <1>1 DEF LogFile, Handles
<1>3. entry \in Entries /\ filed \in Seq(Entries)
  BY DEF LoggerTypeOK
<1>4. /\ filed' \in Seq(Entries) /\ Len(filed') = Len(filed) + 1
      /\ \A i \in 1 .. Len(filed) : filed'[i] = filed[i]
      /\ filed'[Len(filed) + 1] = entry
  <2> HIDE DEF entry, Entries
  <2> QED BY <1>2, <1>3, AppendFacts
<1>5. /\ UNCHANGED <<file, opened, closed, held, printed, mine, exited>>
      /\ logging'[t] = "unlock"
      /\ \A u \in Callers : u # t => logging'[u] = logging[u]
  BY DEF LogFile, fileVars, LoggerTypeOK
<1>6. \A u \in Callers : u # t => logging[u] \in {"idle", "lock"}
  BY <1>1, OneInside DEF Locked
<1>7. FilePart'
  BY <1>1, <1>5, <1>6 DEF FilePart
<1>8. ~Writing'
  BY <1>5, <1>6 DEF Writing
<1>9. entry.line = printed /\ entry.file = opened /\ printed \in Nat /\ opened \in Nat
  BY <1>1 DEF LoggerTypeOK
<1> HIDE DEF entry
<1>10. Len(filed) \in Nat /\ \A i \in 1 .. Len(filed) : filed[i].line \in Nat
  BY <1>3, FiledTypes, LenProperties
<1> DEFINE n == Len(filed)
<1>11. n \in Nat /\ Len(filed') = n + 1
  BY <1>4, <1>10
<1>12. \A i \in 1 .. n : /\ filed'[i] = filed[i] /\ filed[i].line \in Nat
                         /\ filed[i].line < printed /\ filed[i].file <= opened
                         /\ i = n /\ filed[i].file = file => printed = filed[i].line + 1
  BY <1>1, <1>4, <1>10 DEF LinePart
<1>13. /\ \A i, j \in 1 .. n : i < j => /\ filed[i].line < filed[j].line
                                        /\ filed[i].file <= filed[j].file
       /\ \A i \in 1 .. n - 1 : filed[i + 1].file = filed[i].file =>
            filed[i + 1].line = filed[i].line + 1
  BY DEF LinePart, FilesFollowStderr
<1>14. filed'[n + 1].line = printed /\ filed'[n + 1].file = opened
  BY <1>4, <1>9
<1> HIDE DEF n
<1>15. \A i \in 1 .. n + 1 : /\ filed'[i].line <= printed /\ filed'[i].file <= opened
                             /\ i = n + 1 => printed = filed'[i].line
  <2> SUFFICES ASSUME NEW i \in 1 .. n + 1
               PROVE  /\ filed'[i].line <= printed /\ filed'[i].file <= opened
                      /\ i = n + 1 => printed = filed'[i].line
    OBVIOUS
  <2>1. i = n + 1 \/ (i \in 1 .. n /\ i # n + 1)
    BY <1>11
  <2> QED BY <1>9, <1>12, <1>14, <2>1
<1>16. ASSUME NEW i \in 1 .. n + 1, NEW j \in 1 .. n + 1, i < j
       PROVE  filed'[i].line < filed'[j].line /\ filed'[i].file <= filed'[j].file
  <2>1. i \in 1 .. n /\ (j = n + 1 \/ j \in 1 .. n)
    BY <1>11, <1>16
  <2> QED BY <1>12, <1>13, <1>14, <1>16, <2>1
<1>17. ASSUME NEW i \in 1 .. (n + 1) - 1, filed'[i + 1].file = filed'[i].file
       PROVE  filed'[i + 1].line = filed'[i].line + 1
  <2>1. i \in 1 .. n /\ (i = n \/ (i \in 1 .. n - 1 /\ i + 1 \in 1 .. n))
    BY <1>11
  <2>2. CASE i = n
    BY <1>1, <1>12, <1>14, <1>17, <2>1, <2>2
  <2>3. CASE i \in 1 .. n - 1 /\ i + 1 \in 1 .. n
    BY <1>12, <1>13, <1>17, <2>1, <2>3
  <2> QED BY <2>1, <2>2, <2>3
<1>18. FilesFollowStderr'
  BY <1>11, <1>16, <1>17 DEF FilesFollowStderr
<1>19. LinePart'
  BY <1>1, <1>5, <1>6, <1>8, <1>11, <1>15, <1>18 DEF LinePart
<1> QED BY <1>7, <1>19

(* fclose adds the number in file_ to those closed.                        *)
LEMMA ClosingFacts ==
  ASSUME LoggerTypeOK, closed' = Append(closed, opened), opened \in Nat \ {0},
         Len(closed) = opened - 1, \A k \in 1 .. Len(closed) : closed[k] = k
  PROVE  Len(closed') = opened /\ \A k \in 1 .. Len(closed') : closed'[k] = k
<1>1. closed \in Seq(Nat) /\ opened \in Nat
  BY DEF LoggerTypeOK
<1>2. /\ Len(closed') = Len(closed) + 1
      /\ \A k \in 1 .. Len(closed) : closed'[k] = closed[k]
      /\ closed'[Len(closed) + 1] = opened
  BY <1>1, AppendFacts
<1> QED BY <1>1, <1>2

LEMMA CloseKeeps ==
  ASSUME LoggerInv, NEW t \in Callers, CloseFile(t) \/ CloseClear(t)
  PROVE  FilePart' /\ LinePart'
<1> USE DEF LoggerInv, lineVars
<1>1. \A u \in Callers : u # t => logging'[u] = logging[u] /\ logging[u] \in {"idle", "lock"}
  BY OneInside DEF LoggerTypeOK, InClose, CloseFile, CloseClear
<1>2. logging[t] \in {"fclose", "clear"} /\ logging'[t] \in {"clear", "open", "idle"}
  BY DEF LoggerTypeOK, CloseFile, CloseClear, AfterClose
<1>3. ~Writing /\ ~Writing' /\ \A u \in Callers : logging'[u] # "file"
  BY <1>1, <1>2 DEF Writing
<1>4. opened \in Nat
  BY DEF LoggerTypeOK
<1>5. FilePart'
  <2>1. CASE CloseFile(t)
    <3>1. /\ logging[t] = "fclose" /\ logging'[t] = "clear"
          /\ UNCHANGED <<file, opened, held, exited>>
      BY <2>1 DEF CloseFile, LoggerTypeOK
    <3>2. held[t] = file /\ file = opened /\ file # NoFile
      BY <3>1 DEF FilePart
    <3>3. \A u \in Callers : logging[u] # "clear"
      BY <1>1, <3>1
    <3>4. Len(closed) = opened - 1 /\ \A k \in 1 .. Len(closed) : closed[k] = k
      BY <3>2, <3>3 DEF FilePart
    <3>5. closed' = Append(closed, opened) /\ opened \in Nat \ {0}
      BY <1>4, <2>1, <3>2 DEF CloseFile, Handles, NoFile
    <3>6. Len(closed') = opened /\ \A k \in 1 .. Len(closed') : closed'[k] = k
      BY <3>4, <3>5, ClosingFacts
    <3> QED BY <1>1, <3>1, <3>2, <3>6 DEF FilePart
  <2>2. CASE CloseClear(t)
    <3>1. /\ logging[t] = "clear" /\ file' = NoFile
          /\ UNCHANGED <<opened, closed, exited>>
      BY <2>2 DEF CloseClear
    <3>2. Len(closed) = opened /\ \A k \in 1 .. Len(closed) : closed[k] = k
      BY <3>1 DEF FilePart
    <3> QED BY <1>1, <1>2, <1>3, <2>2, <3>1, <3>2
            DEF FilePart, CloseClear, LoggerTypeOK, AfterClose
  <2> QED BY <2>1, <2>2
<1>6. LinePart'
  <2>1. UNCHANGED <<printed, mine, filed, opened>> /\ file' \in {NoFile, file}
    BY DEF CloseFile, CloseClear
  <2> QED BY <1>3, <2>1 DEF LinePart, FilesFollowStderr
<1> QED BY <1>5, <1>6

LEMMA OpenKeeps ==
  ASSUME LoggerInv, NEW t \in Callers, NEW open \in BOOLEAN, SetOutputOpen(t, open)
  PROVE  FilePart' /\ LinePart'
<1> USE DEF LoggerInv, lineVars, SetOutputOpen
<1>1. \A u \in Callers : u # t => logging'[u] = logging[u] /\ logging[u] \in {"idle", "lock"}
  BY OneInside DEF LoggerTypeOK, Locked
<1>2. logging[t] = "open" /\ logging'[t] = "unlock"
  BY DEF LoggerTypeOK
<1>3. ~Writing /\ ~Writing' /\ \A u \in Callers : logging'[u] # "file"
  BY <1>1, <1>2 DEF Writing
<1>4. opened \in Nat /\ file = NoFile /\ Len(closed) = opened /\ ~exited
  BY <1>2 DEF LoggerTypeOK, FilePart, MutexHeld
<1>5. FilePart'
  BY <1>1, <1>2, <1>4 DEF FilePart, NoFile
<1>6. \A i \in 1 .. Len(filed) : filed[i].file \in Nat
  BY FiledTypes
<1>7. LinePart'
  BY <1>3, <1>4, <1>6 DEF LinePart, FilesFollowStderr, NoFile
<1> QED BY <1>5, <1>7

LEMMA ExitKeeps ==
  ASSUME LoggerInv, Exit
  PROVE  FilePart' /\ LinePart'
<1> USE DEF LoggerInv, Exit, lineVars
<1>1. opened \in Nat
  BY DEF LoggerTypeOK
<1>2. Len(closed') = opened /\ \A k \in 1 .. Len(closed') : closed'[k] = k
  <2>1. CASE file = NoFile
    BY <2>1 DEF FilePart
  <2>2. CASE file # NoFile
    <3>1. /\ closed' = Append(closed, opened) /\ opened \in Nat \ {0}
          /\ Len(closed) = opened - 1 /\ \A k \in 1 .. Len(closed) : closed[k] = k
      BY <1>1, <2>2 DEF FilePart, NoFile
    <3> QED BY <3>1, ClosingFacts
  <2> QED BY <2>1, <2>2
<1>3. FilePart'
  BY <1>2 DEF FilePart
<1>4. LinePart'
  BY DEF LinePart, FilesFollowStderr, Writing
<1> QED BY <1>3, <1>4

LEMMA LoggerInvAlways == CloseAlone => (LoggerSpec => []LoggerInv)
<1> SUFFICES ASSUME CloseAlone PROVE LoggerSpec => []LoggerInv
  OBVIOUS
<1>1. LoggerInv /\ [LoggerNext]_loggerVars => LoggerInv'
  <2> SUFFICES ASSUME LoggerInv, [LoggerNext]_loggerVars PROVE LoggerInv'
    OBVIOUS
  <2>1. LoggerTypeOK'
    BY LoggerTypeKept DEF LoggerInv
  <2>2. CASE UNCHANGED loggerVars
    BY <2>2 DEF loggerVars, LoggerInv, LoggerTypeOK, MutexHeld, FilePart, LinePart,
                FilesFollowStderr, Writing, ClosingOutside
  <2>3. CASE LoggerNext
    <3>1. MutexHeld'
      BY <2>3, MutexKept DEF LoggerInv
    <3>2. FilePart' /\ LinePart'
      <4>1. ASSUME NEW t \in Callers, LogStep(t) \/ OutputStep(t)
            PROVE  FilePart' /\ LinePart'
        BY <4>1, QuietKeeps, StderrKeeps, FileKeeps, CloseKeeps, OpenKeeps
           DEF LogStep, OutputStep
      <4>2. ASSUME NEW t \in Callers, NEW l \in Levels, SetLevel(t, l)
            PROVE  FilePart' /\ LinePart'
        BY <4>2, QuietKeeps
      <4>3. CASE LoggerOver
        BY <4>3 DEF LoggerOver, loggerVars, LoggerInv, FilePart, LinePart,
                    FilesFollowStderr, Writing
      <4> QED BY <2>3, <4>1, <4>2, <4>3, ExitKeeps DEF LoggerNext
    <3> QED BY <2>1, <3>1, <3>2 DEF LoggerInv
  <2> QED BY <2>2, <2>3
<1> QED BY <1>1, LoggerInvInit, PTL DEF LoggerSpec

-----------------------------------------------------------------------------
(* When Close is called alone, no FILE is closed twice, leaked or used     *)
(* after fclose, for any number of threads and files.                      *)
THEOREM FilesClosedOnceAlways == CloseAlone => (LoggerSpec => []FilesClosedOnce)
<1> SUFFICES ASSUME CloseAlone PROVE LoggerSpec => []FilesClosedOnce
  OBVIOUS
<1>1. LoggerInv => FilesClosedOnce
  <2> SUFFICES ASSUME LoggerInv PROVE FilesClosedOnce
    OBVIOUS
  <2> USE DEF LoggerInv
  <2> DEFINE n == Len(closed)
  <2>1. opened \in Nat /\ n \in Nat
    BY LenProperties DEF LoggerTypeOK
  <2>2. \A k \in 1 .. n : closed[k] = k
    BY DEF FilePart
  <2>3. \A f : Open(f) <=> f \in 1 .. opened /\ f \notin 1 .. n
    BY <2>2 DEF Open
  <2>4. file = NoFile => n = opened
    BY DEF FilePart
  <2>5. file # NoFile => file = opened /\ n \in {opened - 1, opened}
    BY DEF FilePart
  <2>6. ASSUME NEW t \in Callers, logging[t] \in {"file", "fclose"}, NEW f \in Handles(t)
        PROVE  Open(f)
    <3>1. f = file /\ file # NoFile
      BY <2>6 DEF FilePart, Handles
    <3>2. \A u \in Callers : logging[u] # "clear"
      BY <2>6, OneInside DEF Locked, InClose
    <3>3. n = opened - 1 /\ file = opened /\ opened # 0
      BY <2>5, <3>1, <3>2 DEF FilePart, NoFile
    <3> HIDE DEF n
    <3>4. f \in 1 .. opened /\ f \notin 1 .. n
      BY <2>1, <3>1, <3>3
    <3> QED BY <2>3, <3>4
  <2>7. exited => n = opened
    BY <2>4 DEF FilePart
  <2> HIDE DEF n
  <2>8. \A f \in 1 .. opened : Open(f) => f = file
    BY <2>1, <2>3, <2>4, <2>5
  <2>9. exited => \A f \in 1 .. opened : ~Open(f)
    BY <2>3, <2>7
  <2>10. \A i, j \in 1 .. Len(closed) : i # j => closed[i] # closed[j]
    BY <2>2 DEF n
  <2> QED BY <2>6, <2>8, <2>9, <2>10 DEF FilesClosedOnce
<1> QED BY <1>1, LoggerInvAlways, PTL

(* When Close is called alone, the files hold their lines in the order of  *)
(* stderr, each once and none left out, for any number of threads.         *)
THEOREM FilesFollowStderrAlways == CloseAlone => (LoggerSpec => []FilesFollowStderr)
<1> SUFFICES ASSUME CloseAlone PROVE LoggerSpec => []FilesFollowStderr
  OBVIOUS
<1>1. LoggerInv => FilesFollowStderr
  BY DEF LoggerInv, LinePart
<1> QED BY <1>1, LoggerInvAlways, PTL

-----------------------------------------------------------------------------
(* The tick conversions                                                   *)

LEMMA Division ==
  ASSUME NEW a \in Nat, NEW f \in Nat \ {0}
  PROVE  /\ a \div f \in Nat /\ a % f \in Nat /\ a % f < f
         /\ a = (a \div f) * f + (a % f)
BY SMT

LEMMA QuotientIs ==
  ASSUME NEW q \in Nat, NEW r \in Nat, NEW f \in Nat \ {0}, r < f
  PROVE  (q * f + r) \div f = q /\ (q * f + r) % f = r
BY SMT

(* Reducing a summand before the sum changes nothing.                      *)
LEMMA ReducedSum ==
  ASSUME NEW x \in Nat, NEW y \in Nat, NEW w \in Nat \ {0}
  PROVE  ((x % w) + y) % w = (x + y) % w
<1> DEFINE z == (x % w) + y
<1>1. z \in Nat /\ x + y = (x \div w) * w + z
  BY Division
<1>2. z = (z \div w) * w + (z % w) /\ z \div w \in Nat /\ z % w \in Nat /\ z % w < w
  BY <1>1, Division
<1>3. x \div w \in Nat
  BY Division
<1> HIDE DEF z
<1>4. x + y = ((x \div w) + (z \div w)) * w + (z % w)
  <2> DEFINE a == x \div w  b == z \div w
  <2>1. a \in Nat /\ b \in Nat
    BY <1>2, <1>3
  <2> HIDE DEF a, b
  <2>2. (a + b) * w = a * w + b * w
    BY <2>1
  <2> QED BY <1>1, <1>2, <2>1, <2>2 DEF a, b
<1>5. (x \div w) + (z \div w) \in Nat
  BY <1>2, <1>3
<1>6. (x + y) % w = z % w
  <2> DEFINE c == (x \div w) + (z \div w)
             d == z % w
  <2>1. c \in Nat /\ d \in Nat /\ d < w /\ x + y = c * w + d
    BY <1>2, <1>4, <1>5
  <2> HIDE DEF c, d
  <2>2. (c * w + d) % w = d
    BY <2>1, QuotientIs
  <2> QED BY <2>1, <2>2 DEF d
<1> QED BY <1>6 DEF z

(* Frequencies and durations are numbers.                                  *)
LEMMA CalibrationIsNat ==
  ASSUME NEW tsc \in Nat, NEW ns \in Nat
  PROVE  CalibrateTSCFrequency(tsc, ns) \in Nat
<1> DEFINE x == (tsc * Billion) % Word
<1>1. Word \in Nat \ {0} /\ Billion \in Nat /\ tsc * Billion \in Nat
  BY TypesAssumption, TimestampAssumption DEF TypesAssumption, TimestampAssumption
<1>2. x \in Nat
  BY <1>1, Division
<1> HIDE DEF x
<1>3. ns # 0 => x \div ns \in Nat
  BY <1>2, Division
<1> QED BY <1>1, <1>3 DEF CalibrateTSCFrequency, x

LEMMA ConversionIsNat ==
  ASSUME NEW delta \in Nat, NEW freq \in Nat
  PROVE  TSCToNanos(delta, freq) \in Nat
<1> DEFINE x == delta * Billion
<1>1. Word \in Nat \ {0} /\ x \in Nat
  BY TypesAssumption, TimestampAssumption DEF TypesAssumption, TimestampAssumption
<1> HIDE DEF x
<1>2. CASE freq # 0
  <2> DEFINE y == x \div freq
  <2>1. y \in Nat
    BY <1>1, <1>2, Division
  <2> HIDE DEF y
  <2>2. y % Word \in Nat
    BY <1>1, <2>1, Division
  <2> QED BY <1>2, <2>2 DEF TSCToNanos, x, y
<1> QED BY <1>2 DEF TSCToNanos

(* The split conversion gives what the one with 128 bits gives, whatever   *)
(* the ticks and the width of the numbers.                                 *)
LEMMA SplitIsExact ==
  ASSUME NEW delta \in Nat, NEW freq \in Nat, freq * Billion <= Word
  PROVE  TSCToNanosSplit(delta, freq) = TSCToNanos(delta, freq)
<1> USE TimestampAssumption
<1>w. Word \in Nat \ {0}
  BY TypesAssumption DEF TypesAssumption
<1>0. CASE freq = 0
  BY <1>0 DEF TSCToNanosSplit, TSCToNanos
<1>1. CASE freq # 0
  <2> DEFINE q == delta \div freq
             r == delta % freq
             p == r * Billion
             s == p \div freq
             t == p % freq
  <2>1. q \in Nat /\ r \in Nat /\ r < freq /\ delta = q * freq + r
    BY <1>1, Division
  <2> HIDE DEF q, r
  <2>2. p \in Nat /\ p < freq * Billion
    BY <2>1 DEF TimestampAssumption
  <2>3. p % Word = p
    <3>1. p < Word
      BY <2>2, <1>w DEF TimestampAssumption
    <3> HIDE DEF p
    <3> QED BY <2>2, <3>1, <1>w
  <2>4. delta * Billion = (q * Billion) * freq + p
    <3>1. (q * freq + r) * Billion = (q * freq) * Billion + r * Billion
      BY <2>1 DEF TimestampAssumption
    <3>2. (q * freq) * Billion = (q * Billion) * freq
      BY <2>1 DEF TimestampAssumption
    <3> QED BY <2>1, <3>1, <3>2
  <2> HIDE DEF p
  <2>5. s \in Nat /\ t \in Nat /\ t < freq /\ p = s * freq + t
    BY <1>1, <2>2, Division
  <2> HIDE DEF s, t
  <2> DEFINE b == q * Billion
  <2>6. b \in Nat
    BY <2>1 DEF TimestampAssumption
  <2>7. delta * Billion = b * freq + p
    BY <2>4
  <2> HIDE DEF b
  <2>8. delta * Billion = (b + s) * freq + t
    <3>1. (b + s) * freq = b * freq + s * freq
      BY <2>5, <2>6
    <3> QED BY <2>5, <2>6, <2>7, <3>1
  <2>9. (delta * Billion) \div freq = b + s
    <3> DEFINE c == b + s
    <3>1. c \in Nat /\ delta * Billion = c * freq + t
      BY <2>5, <2>6, <2>8
    <3> HIDE DEF c
    <3>2. (c * freq + t) \div freq = c
      BY <1>1, <2>5, <3>1, QuotientIs
    <3> QED BY <3>1, <3>2 DEF c
  <2>10. ((b % Word) + s) % Word = (b + s) % Word
    BY <1>w, <2>5, <2>6, ReducedSum
  <2>11. TSCToNanosSplit(delta, freq) = ((b % Word) + s) % Word
    BY <1>1, <2>3 DEF TSCToNanosSplit, b, s, p, r, q
  <2>12. TSCToNanos(delta, freq) = (b + s) % Word
    BY <1>1, <2>9 DEF TSCToNanos
  <2> QED BY <2>10, <2>11, <2>12
<1> QED BY <1>0, <1>1

LEMMA CalibrationIsSafe ==
  ASSUME NEW m \in Nat, NEW n \in Nat \ {0}, m * Billion < Word,
         CalibrateTSCFrequency(m, n) # 0
  PROVE  TSCToNanos(m, CalibrateTSCFrequency(m, n)) >= n
<1> USE TimestampAssumption, TypesAssumption DEF TimestampAssumption, TypesAssumption
<1> DEFINE x == m * Billion
           f == x \div n
           k == x \div f
<1>1. x \in Nat /\ x < Word
  OBVIOUS
<1>2. CalibrateTSCFrequency(m, n) = f
  <2>1. x % Word = x
    <3> HIDE DEF x
    <3> QED BY <1>1
  <2> QED BY <2>1 DEF CalibrateTSCFrequency
<1> HIDE DEF x
<1>3. f \in Nat /\ f # 0 /\ x % n \in Nat /\ x = f * n + (x % n)
  BY <1>1, <1>2, Division
<1> HIDE DEF f
<1>4. k \in Nat /\ x % f \in Nat /\ x % f < f /\ x = k * f + (x % f)
  BY <1>1, <1>3, Division
<1> HIDE DEF k
<1>5. k >= n
  <2> SUFFICES ASSUME k + 1 <= n PROVE FALSE
    BY <1>4
  <2>1. (k + 1) * f <= n * f
    BY <1>3, <1>4
  <2>2. (k + 1) * f = k * f + f /\ n * f = f * n
    BY <1>3, <1>4
  <2> DEFINE a == k * f  b == f * n  c == x % f  d == x % n
  <2>3. a \in Nat /\ b \in Nat /\ a + f <= b
    BY <1>3, <1>4, <2>1, <2>2
  <2>4. c \in Nat /\ d \in Nat /\ c < f /\ x = a + c /\ x = b + d
    BY <1>3, <1>4
  <2> HIDE DEF a, b, c, d
  <2> QED BY <1>3, <2>3, <2>4
<1>6. k <= x
  <2>1. k * f >= k
    BY <1>3, <1>4
  <2> QED BY <1>1, <1>3, <1>4, <2>1
<1>7. k % Word = k
  BY <1>1, <1>4, <1>6
<1> QED BY <1>2, <1>3, <1>5, <1>7 DEF TSCToNanos, x, k

(* The static keeps what the calibration measured.                         *)
Calibrated ==
  /\ TimestampTypeOK
  /\ calibrated => tsc_frequency = CalibrateTSCFrequency(delta_tsc, delta_ns)

LEMMA CalibratedAlways == TimestampSpec => []Calibrated
<1> USE DEF Calibrated, TimestampTypeOK
<1>1. TimestampInit => Calibrated
  <2> SUFFICES ASSUME TimestampInit PROVE Calibrated
    OBVIOUS
  <2>1. calibrated = FALSE /\ delta_tsc \in Nat /\ delta_ns \in Nat
        /\ tsc_frequency \in Nat
    BY DEF TimestampInit
  <2> QED BY <2>1, Zenon
<1>2. Calibrated /\ [TimestampNext]_timestampVars => Calibrated'
  <2> SUFFICES ASSUME Calibrated, [TimestampNext]_timestampVars
               PROVE  Calibrated'
    OBVIOUS
  <2>1. CASE UNCHANGED timestampVars
    BY <2>1 DEF timestampVars, CalibrateTSCFrequency
  <2>2. ASSUME NEW tsc \in Ticks, NEW ns \in Ticks, ~calibrated,
               GetTSCFrequency(tsc, ns)
        PROVE  Calibrated'
    <3>1. tsc \in Nat /\ ns \in Nat
      BY TimestampAssumption DEF TimestampAssumption
    <3> DEFINE freq == CalibrateTSCFrequency(tsc, ns)
    <3>2. freq \in Nat
      BY <3>1, CalibrationIsNat
    <3>3. /\ calibrated' = TRUE /\ delta_tsc' = tsc /\ delta_ns' = ns
          /\ tsc_frequency' = freq
      BY <2>2 DEF GetTSCFrequency
    <3>4. tsc_frequency' = CalibrateTSCFrequency(delta_tsc', delta_ns')
      BY <3>3
    <3> HIDE DEF freq
    <3> QED BY <3>1, <3>2, <3>3, <3>4 DEF CalibrateTSCFrequency
  <2> QED BY <2>1, <2>2 DEF TimestampNext, GetTSCFrequency
<1> QED BY <1>1, <1>2, PTL DEF TimestampSpec

(* The static and what it was made of are natural numbers.                 *)
THEOREM TimestampTypeCorrect == TimestampSpec => []TimestampTypeOK
<1>1. Calibrated => TimestampTypeOK
  BY DEF Calibrated
<1> QED BY <1>1, CalibratedAlways, PTL

(* The conversions agree whatever the ticks, the times and the width of    *)
(* the numbers.                                                            *)
THEOREM ConversionsAgreeAlways == TimestampSpec => []ConversionsAgree
<1>1. Calibrated => SplitAgrees
  BY SplitIsExact, TimestampAssumption
  DEF SplitAgrees, Calibrated, TimestampTypeOK, TimestampAssumption
<1>2. Calibrated => CalibrationAgrees
  <2> SUFFICES ASSUME Calibrated, calibrated, delta_tsc * Billion < Word,
                      tsc_frequency # 0
               PROVE  TSCToNanos(delta_tsc, tsc_frequency) >= delta_ns
    BY DEF CalibrationAgrees
  <2>1. delta_tsc \in Nat /\ delta_ns \in Nat
        /\ tsc_frequency = CalibrateTSCFrequency(delta_tsc, delta_ns)
    BY DEF Calibrated, TimestampTypeOK
  <2>2. CASE delta_ns = 0
    <3>1. TSCToNanos(delta_tsc, tsc_frequency) \in Nat
      BY <2>1, ConversionIsNat, CalibrationIsNat
    <3> QED BY <2>2, <3>1
  <2>3. CASE delta_ns # 0
    BY <2>1, <2>3, CalibrationIsSafe
  <2> QED BY <2>2, <2>3
<1>3. Calibrated => ConversionsAgree
  BY <1>1, <1>2 DEF ConversionsAgree
<1> QED BY <1>3, CalibratedAlways, PTL

=============================================================================
