------------------------- MODULE FtraceReaderProofs -------------------------
(***************************************************************************)
(* Theorems about FtraceReader for every capacity, every bound, simulated  *)
(* or live: what running_, the thread and the two program counters say of  *)
(* each other, and the safety properties that follow.                      *)
(***************************************************************************)
EXTENDS FtraceReader, RingBufferProofs

Quiet == rpc \in {"off", "exit"}
Joining == apc \in {"join_stop", "join_destroy"}

ControlTypes ==
  /\ simulated \in BOOLEAN /\ running \in BOOLEAN /\ terminated \in BOOLEAN
  /\ thread \in {"none", "live", "done"}
  /\ rpc \in {"off", "open", "check", "getline", "push", "count", "notify", "exit"}
  /\ apc \in {"idle", "start", "spawn", "stop", "join_stop", "destroy",
              "join_destroy", "members", "drain", "generate",
              "generate_count", "generate_notify", "set_callback", "dead"}
  /\ callback \in {"none", "set", "moving"} /\ event_count \in Nat

(* The life of the reader thread.  Start clears the way before it sets     *)
(* running_; what Api does while IsRunning() is false finds a quiet thread.*)
ThreadLife ==
  /\ thread = "live" <=> rpc # "off"
  /\ ~running /\ ~Joining => Quiet
  /\ apc \in {"start", "spawn"} => Quiet
  /\ apc = "spawn" => running
  /\ apc \in {"start", "generate", "generate_count", "generate_notify", "set_callback"}
       => ~running
  /\ callback = "moving" => apc = "set_callback"

(* In simulated mode only Stop clears running_, and it joins.              *)
Joined ==
  simulated =>
    /\ rpc \notin {"open", "getline"}
    /\ thread # "none" => running \/ Joining
    /\ apc \in {"start", "spawn", "members"} => thread = "none"
    /\ ~terminated

(* A thread is in a ring operation only where its own code calls it.       *)
InTheRing ==
  /\ pc[Reader] \in {"idle"} \cup PushSteps /\ pc[Api] \in {"idle"} \cup PushSteps \cup PopSteps
  /\ \A t \in Threads : pc[t] \notin {"push_evict", "push_count"}
  /\ pc[Reader] # "idle" => rpc = "push"
  /\ pc[Api] \in PushSteps => apc = "generate"
  /\ pc[Api] \in PopSteps => apc = "drain"

FRInv == ControlTypes /\ ThreadLife /\ Joined /\ InTheRing /\ CountsAgree

-----------------------------------------------------------------------------
(* Both threads are known to the ring.                                     *)
LEMMA BothThreads == Threads = {Reader, Api} /\ Reader # Api /\ Writers = {Reader, Api}
BY ReaderAssumption DEF Threads

(* The steps that are not ring operations leave the ring alone.            *)
LEMMA OnlyTheseUseTheRing ==
  [FRNext]_allVars /\ ~ReaderPush /\ ~GeneratePush /\ ~ReadStep => UNCHANGED vars
BY DEF FRNext, ReaderStep, ApiStep, ApiCall, Over, allVars,
   ReaderOpen, ReaderCheck, ReaderCount, ReaderNotify, ReaderExit, ReaderGetline,
   StartStore, StartSpawn, StopStore, StopJoin, DestroyMembers,
   GenerateCount, GenerateNotify, SetCallbackEnd,
   StartLoad, StopLoad, ReadBegin, GenerateBegin, SetCallbackBegin

LEMMA StepOfTheRing == [FRNext]_allVars => [Next]_vars
<1> SUFFICES ASSUME [FRNext]_allVars PROVE [Next]_vars
  OBVIOUS
<1>1. CASE UNCHANGED vars
  BY <1>1
<1>2. CASE ReaderPush
  BY <1>2, BothThreads DEF ReaderPush, Next, ThreadNext
<1>3. CASE GeneratePush
  BY <1>3, BothThreads DEF GeneratePush, Next, ThreadNext
<1>4. CASE ReadStep
  BY <1>4, BothThreads DEF ReadStep, Next, ThreadNext, PopStep
<1> QED BY <1>1, <1>2, <1>3, <1>4, OnlyTheseUseTheRing

(* The owner and its thread use the ring as RingBuffer lets threads use    *)
(* it: every behaviour of the reader is one of the ring.                   *)
THEOREM ReaderUsesRing == FRSpec => Spec
<1>1. FRInit => Init
  BY DEF FRInit
<1> QED BY <1>1, StepOfTheRing, PTL DEF FRSpec, Spec

(* What the steps of an operation on the ring do to the counts.            *)
LEMMA PushEffect ==
  ASSUME TypeOK, NEW t \in Threads, pc[t] \notin {"push_evict", "push_count"},
         PushLoadHead(t) \/ PushStep(t)
  PROVE  /\ pc' = [pc EXCEPT ![t] = pc'[t]]
         /\ pc'[t] \in {"idle"} \cup (PushSteps \ {"push_evict", "push_count"})
         /\ Len(accepted') + overflow_count'
              = Len(accepted) + overflow_count + (IF pc'[t] = "idle" THEN 1 ELSE 0)
         /\ offered' = offered + (IF pc[t] = "idle" THEN 1 ELSE 0)
<1> USE DEF TypeOK, Goto, shared, history
<1>0. Len(accepted) \in Nat /\ overflow_count \in Nat
  BY LenProperties
<1>1. CASE PushLoadHead(t)
  BY <1>0, <1>1 DEF PushLoadHead, PushSteps
<1>2. CASE PushLoadTail(t)
  BY <1>0, <1>2, ReaderAssumption DEF PushLoadTail, AfterTailLoad, PushSteps
<1>3. CASE PushDrop(t)
  BY <1>0, <1>3 DEF PushDrop
<1>4. CASE PushWrite(t) \/ PushCopy(t)
  <2>1. PICK to \in {"push_copy", "push_publish"} : pc' = [pc EXCEPT ![t] = to]
    BY <1>4 DEF PushWrite, PushCopy
  <2>3. pc'[t] = to
    BY <2>1
  <2>2. UNCHANGED <<accepted, overflow_count, offered>> /\ pc[t] # "idle"
    BY <1>4 DEF PushWrite, PushCopy
  <2>4. pc' = [pc EXCEPT ![t] = pc'[t]]
    BY <2>1, <2>3
  <2>5. offered \in Nat
    BY RingAssumption
  <2> QED BY ONLY <1>0, <2>2, <2>3, <2>4, <2>5 DEF PushSteps
<1>5. CASE PushPublish(t)
  <2>1. Len(accepted') = Len(accepted) + 1
    BY <1>5, AppendFacts DEF PushPublish
  <2> QED BY <1>0, <1>5, <2>1 DEF PushPublish
<1>6. ~PushEvict(t) /\ ~PushCount(t)
  BY DEF PushEvict, PushCount
<1> QED BY <1>1, <1>2, <1>3, <1>4, <1>5, <1>6 DEF PushStep

LEMMA PopEffect ==
  ASSUME TypeOK, NEW t \in Threads, PopLoadTail(t) \/ PopStep(t)
  PROVE  /\ pc' = [pc EXCEPT ![t] = pc'[t]]
         /\ pc'[t] \in {"idle"} \cup PopSteps
         /\ UNCHANGED <<accepted, overflow_count, offered>>
BY DEF TypeOK, Goto, shared, history, PopLoadTail, PopStep, PopLoadHead, PopRead,
       PopPublish, PopSteps

LEMMA FRInvInit == FRInit => FRInv
<1> SUFFICES ASSUME FRInit PROVE FRInv
  OBVIOUS
<1> USE BothThreads DEF FRInit, Init
<1>1. ControlTypes /\ ThreadLife /\ Joined
  BY DEF ControlTypes, ThreadLife, Joined, Quiet, Joining
<1>2. InTheRing
  BY DEF InTheRing, PushSteps, PopSteps
<1>3. CountsAgree
  BY DEF CountsAgree
<1> QED BY <1>1, <1>2, <1>3 DEF FRInv

-----------------------------------------------------------------------------
(* The steps of Api outside the ring.                                      *)
LEMMA ApiControlKeeps ==
  ASSUME TypeOK, FRInv,
         \/ StartLoad \/ StartStore \/ StartSpawn
         \/ \E d \in {"stop", "destroy"} : StopLoad(d) \/ StopStore(d) \/ StopJoin(d)
         \/ DestroyMembers
         \/ \E n \in Counts : ReadBegin(n) \/ GenerateBegin(n)
         \/ SetCallbackBegin \/ SetCallbackEnd
         \/ GenerateCount \/ GenerateNotify
  PROVE  FRInv'
<1> USE DEF FRInv
<1>0. Counts \subseteq Nat \ {0}
  BY ReaderAssumption
<1>v. UNCHANGED vars
  BY DEF StartLoad, StartStore, StartSpawn, StopLoad, StopStore, StopJoin,
     DestroyMembers, ReadBegin, GenerateBegin, SetCallbackBegin, SetCallbackEnd,
     GenerateCount, GenerateNotify
<1>1. ControlTypes' /\ ThreadLife' /\ Joined'
  <2> USE DEF ControlTypes, ThreadLife, Joined, Quiet, Joining, AGoto
  <2>1. CASE StartLoad
    BY <2>1 DEF StartLoad
  <2>8. CASE StartStore
    BY <2>8 DEF StartStore
  <2>2. CASE StartSpawn
    BY <2>2 DEF StartSpawn
  <2>3. ASSUME NEW d \in {"stop", "destroy"}, StopLoad(d) \/ StopStore(d) \/ StopJoin(d)
        PROVE  ControlTypes' /\ ThreadLife' /\ Joined'
    <3>1. CASE StopLoad(d)
      BY <2>3, <3>1 DEF StopLoad, AfterStop
    <3>2. CASE StopStore(d)
      BY <2>3, <3>2 DEF StopStore, JoinOf
    <3>3. CASE StopJoin(d)
      BY <2>3, <3>3 DEF StopJoin, JoinOf, AfterStop
    <3> QED BY <2>3, <3>1, <3>2, <3>3
  <2>4. CASE DestroyMembers
    BY <2>4 DEF DestroyMembers
  <2>5. ASSUME NEW n \in Counts, ReadBegin(n) \/ GenerateBegin(n)
        PROVE  ControlTypes' /\ ThreadLife' /\ Joined'
    BY <1>0, <2>5 DEF ReadBegin, GenerateBegin
  <2>6. CASE SetCallbackBegin \/ SetCallbackEnd
    BY <2>6 DEF SetCallbackBegin, SetCallbackEnd
  <2>7. CASE GenerateCount \/ GenerateNotify
    BY <2>7 DEF GenerateCount, GenerateNotify
  <2> QED BY <2>1, <2>2, <2>3, <2>4, <2>5, <2>6, <2>7, <2>8
<1>2. InTheRing'
  <2>1. pc[Api] = "idle"
    <3>1. apc \notin {"generate", "drain"}
      BY DEF AGoto, StartLoad, StartStore, StartSpawn, StopLoad, StopStore, StopJoin, JoinOf,
       DestroyMembers, ReadBegin, GenerateBegin, SetCallbackBegin, SetCallbackEnd,
       GenerateCount, GenerateNotify
    <3> QED BY <3>1 DEF InTheRing
  <2>2. pc[Reader] # "idle" => rpc' = "push"
    <3>1. rpc' = rpc \/ apc = "spawn"
      BY DEF AGoto, StartLoad, StartStore, StartSpawn, StopLoad, StopStore, StopJoin, JoinOf,
       DestroyMembers, ReadBegin, GenerateBegin, SetCallbackBegin, SetCallbackEnd,
       GenerateCount, GenerateNotify
    <3> QED BY <3>1 DEF InTheRing, ThreadLife, Quiet
  <2>3. pc' = pc
    BY <1>v DEF vars
  <2> QED BY <2>1, <2>2, <2>3 DEF InTheRing, PushSteps, PopSteps
<1>3. CountsAgree'
  <2>1. UNCHANGED <<accepted, overflow_count>>
    BY <1>v DEF vars
  <2>2. rpc' = "count" <=> rpc = "count"
    BY DEF ThreadLife, Quiet, AGoto, StartLoad, StartStore, StartSpawn, StopLoad, StopStore, StopJoin, JoinOf,
       DestroyMembers, ReadBegin, GenerateBegin, SetCallbackBegin, SetCallbackEnd,
       GenerateCount, GenerateNotify
  <2>3. CASE GenerateCount
    BY <2>1, <2>2, <2>3 DEF GenerateCount, AGoto, CountsAgree, ControlTypes
  <2>4. CASE ~GenerateCount
    <3>1. event_count' = event_count /\ apc # "generate_count" /\ apc' # "generate_count"
      BY <2>4 DEF AGoto, AfterStop, StartLoad, StartStore, StartSpawn, StopLoad, StopStore, StopJoin, JoinOf,
       DestroyMembers, ReadBegin, GenerateBegin, SetCallbackBegin, SetCallbackEnd,
       GenerateCount, GenerateNotify
    <3> QED BY <2>1, <2>2, <3>1 DEF CountsAgree
  <2> QED BY <2>3, <2>4
<1> QED BY <1>1, <1>2, <1>3

(* The steps of the reader thread outside the ring.                        *)
LEMMA ReaderControlKeeps ==
  ASSUME TypeOK, FRInv,
         \/ \E result \in {"ok", "fail"} : ReaderOpen(result)
         \/ ReaderCheck \/ ReaderGetline
         \/ ReaderCount \/ ReaderNotify \/ ReaderExit
  PROVE  FRInv'
<1> USE DEF FRInv, RGoto
<1>v. UNCHANGED vars /\ UNCHANGED <<simulated, apc, callback, terminated>>
  BY DEF ReaderOpen, ReaderCheck, ReaderGetline, ReaderCount, ReaderNotify, ReaderExit
<1>1. ControlTypes' /\ ThreadLife' /\ Joined'
  <2> USE DEF ControlTypes, ThreadLife, Joined, Quiet, Joining
  <2>1. ASSUME NEW result \in {"ok", "fail"}, ReaderOpen(result)
        PROVE  ControlTypes' /\ ThreadLife' /\ Joined'
    BY <2>1 DEF ReaderOpen
  <2>2. CASE ReaderCheck
    BY <2>2 DEF ReaderCheck
  <2>3. CASE ReaderGetline
    BY <2>3 DEF ReaderGetline
  <2>4. CASE ReaderCount \/ ReaderNotify
    BY <2>4 DEF ReaderCount, ReaderNotify
  <2>5. CASE ReaderExit
    BY <2>5 DEF ReaderExit
  <2> QED BY <2>1, <2>2, <2>3, <2>4, <2>5
<1>2. InTheRing'
  <2>1. pc[Reader] = "idle"
    <3>1. rpc # "push"
      BY DEF ReaderOpen, ReaderCheck, ReaderGetline, ReaderCount, ReaderNotify, ReaderExit
    <3> QED BY <3>1 DEF InTheRing
  <2>2. pc' = pc
    BY <1>v DEF vars
  <2> QED BY <1>v, <2>1, <2>2 DEF InTheRing
<1>3. CountsAgree'
  <2>1. UNCHANGED <<accepted, overflow_count>>
    BY <1>v DEF vars
  <2>2. CASE ReaderCount
    BY <2>1, <2>2 DEF ReaderCount, CountsAgree, ControlTypes
  <2>3. CASE ~ReaderCount
    <3>1. event_count' = event_count /\ rpc # "count" /\ rpc' # "count"
      BY <2>3 DEF ReaderOpen, ReaderCheck, ReaderGetline, ReaderNotify, ReaderExit
    <3> QED BY <1>v, <2>1, <3>1 DEF CountsAgree
  <2> QED BY <2>2, <2>3
<1> QED BY <1>1, <1>2, <1>3

(* The steps of either thread in the ring.                                 *)
LEMMA ReaderPushKeeps ==
  ASSUME TypeOK, FRInv, ReaderPush
  PROVE  FRInv'
<1> USE BothThreads DEF FRInv
<1>1. /\ pc' = [pc EXCEPT ![Reader] = pc'[Reader]]
      /\ pc'[Reader] \in {"idle"} \cup (PushSteps \ {"push_evict", "push_count"})
      /\ Len(accepted') + overflow_count'
           = Len(accepted) + overflow_count + (IF pc'[Reader] = "idle" THEN 1 ELSE 0)
  BY PushEffect DEF ReaderPush, InTheRing
<1>2. /\ rpc = "push" /\ rpc' = IF pc'[Reader] = "idle" THEN "count" ELSE "push"
      /\ UNCHANGED <<simulated, running, thread, apc, callback, event_count, terminated>>
  BY DEF ReaderPush, RGoto
<1>3. ControlTypes' /\ ThreadLife' /\ Joined'
  BY <1>2 DEF ControlTypes, ThreadLife, Joined, Quiet, Joining
<1>4. pc'[Api] = pc[Api]
  BY <1>1 DEF TypeOK
<1>5. InTheRing'
  BY <1>1, <1>2, <1>4 DEF InTheRing
<1>6. CountsAgree'
  <2>1. event_count \in Nat /\ Len(accepted) \in Nat /\ overflow_count \in Nat
    BY LenProperties DEF ControlTypes, TypeOK
  <2>2. rpc # "count" /\ (rpc' = "count" <=> pc'[Reader] = "idle")
    BY <1>2
  <2> HIDE DEF FRInv
  <2>3. CountsAgree
    BY DEF FRInv
  <2> QED BY <1>1, <1>2, <2>1, <2>2, <2>3 DEF CountsAgree
<1> QED BY <1>3, <1>5, <1>6

LEMMA GeneratePushKeeps ==
  ASSUME TypeOK, FRInv, GeneratePush
  PROVE  FRInv'
<1> USE BothThreads DEF FRInv
<1>1. /\ pc' = [pc EXCEPT ![Api] = pc'[Api]]
      /\ pc'[Api] \in {"idle"} \cup (PushSteps \ {"push_evict", "push_count"})
      /\ Len(accepted') + overflow_count'
           = Len(accepted) + overflow_count + (IF pc'[Api] = "idle" THEN 1 ELSE 0)
  BY PushEffect DEF GeneratePush, InTheRing
<1>2. /\ apc = "generate"
      /\ apc' = IF pc'[Api] = "idle" THEN "generate_count" ELSE "generate"
      /\ UNCHANGED <<simulated, running, thread, rpc, callback, event_count, terminated>>
  BY DEF GeneratePush
<1>3. ControlTypes' /\ ThreadLife' /\ Joined'
  BY <1>2 DEF ControlTypes, ThreadLife, Joined, Quiet, Joining
<1>4. pc'[Reader] = pc[Reader]
  BY <1>1 DEF TypeOK
<1>5. InTheRing'
  BY <1>1, <1>2, <1>4 DEF InTheRing, PushSteps, PopSteps
<1>6. CountsAgree'
  <2>1. event_count \in Nat /\ Len(accepted) \in Nat /\ overflow_count \in Nat
    BY LenProperties DEF ControlTypes, TypeOK
  <2>2. apc # "generate_count" /\ (apc' = "generate_count" <=> pc'[Api] = "idle")
    BY <1>2
  <2> HIDE DEF FRInv
  <2>3. CountsAgree
    BY DEF FRInv
  <2> QED BY <1>1, <1>2, <2>1, <2>2, <2>3 DEF CountsAgree
<1> QED BY <1>3, <1>5, <1>6

LEMMA ReadStepKeeps ==
  ASSUME TypeOK, FRInv, ReadStep
  PROVE  FRInv'
<1> USE BothThreads DEF FRInv
<1>1. /\ pc' = [pc EXCEPT ![Api] = pc'[Api]]
      /\ pc'[Api] \in {"idle"} \cup PopSteps
      /\ UNCHANGED <<accepted, overflow_count>>
  BY PopEffect DEF ReadStep, PopStep
<1>2. /\ apc = "drain" /\ apc' \in {"idle", "drain"}
      /\ apc' = "drain" \/ pc'[Api] = "idle"
      /\ UNCHANGED <<simulated, running, thread, rpc, callback, event_count, terminated>>
  BY DEF ReadStep, PopPublish, Goto, TypeOK
<1>3. ControlTypes' /\ ThreadLife' /\ Joined'
  BY <1>2 DEF ControlTypes, ThreadLife, Joined, Quiet, Joining
<1>4. pc'[Reader] = pc[Reader]
  BY <1>1 DEF TypeOK
<1>5. InTheRing'
  BY <1>1, <1>2, <1>4 DEF InTheRing, PushSteps, PopSteps
<1>6. CountsAgree'
  BY <1>1, <1>2 DEF CountsAgree
<1> QED BY <1>3, <1>5, <1>6

LEMMA FRInvAlways == FRSpec => []FRInv
<1>1. FRSpec => []TypeOK
  BY ReaderUsesRing, TypeCorrect, PTL
<1>2. TypeOK /\ FRInv /\ [FRNext]_allVars => FRInv'
  <2> SUFFICES ASSUME TypeOK, FRInv, [FRNext]_allVars PROVE FRInv'
    OBVIOUS
  <2>1. CASE UNCHANGED allVars
    BY <2>1 DEF allVars, own, vars, FRInv, ControlTypes, ThreadLife, Joined, InTheRing,
                CountsAgree, Quiet, Joining
  <2>2. CASE ReaderStep \/ ReaderGetline
    BY <2>2, ReaderControlKeeps, ReaderPushKeeps DEF ReaderStep
  <2>3. CASE ApiStep \/ ApiCall
    BY <2>3, ApiControlKeeps, GeneratePushKeeps, ReadStepKeeps DEF ApiStep, ApiCall
  <2> QED BY <2>1, <2>2, <2>3 DEF FRNext, Over
<1> QED BY <1>1, <1>2, FRInvInit, PTL DEF FRSpec

-----------------------------------------------------------------------------
(* What bounds the counters: Api's own counts, and the events offered,     *)
(* each accepted, refused or in the one Push under way.                    *)
Bounded ==
  /\ todo \in Nat /\ starts \in 0 .. MaxStarts
  /\ apc \in {"drain", "generate", "generate_count", "generate_notify"} => todo # 0
  /\ apc \in {"start", "spawn"} => starts < MaxStarts
  /\ offered = Len(accepted) + overflow_count
                 + (IF pc[Reader] \in PushSteps THEN 1 ELSE 0)
                 + (IF pc[Api] \in PushSteps THEN 1 ELSE 0)

LEMMA BoundedStep ==
  ASSUME TypeOK, FRInv, Bounded, [FRNext]_allVars
  PROVE  Bounded'
<1> USE BothThreads, ReaderAssumption DEF Bounded
<1>0. Len(accepted) \in Nat /\ overflow_count \in Nat
  BY LenProperties DEF TypeOK
<1>i. "idle" \notin PushSteps /\ PushSteps \cap PopSteps = {}
  BY DEF PushSteps, PopSteps
<1>1. CASE UNCHANGED vars /\ ~ReadStep
  <2>1. UNCHANGED <<offered, accepted, overflow_count, pc>>
    BY <1>1 DEF vars
  <2>2. /\ todo' \in Nat /\ starts' \in 0 .. MaxStarts
        /\ apc' \in {"drain", "generate", "generate_count", "generate_notify"} => todo' # 0
        /\ apc' \in {"start", "spawn"} => starts' < MaxStarts
    <3> USE DEF AGoto
    <3>1. CASE UNCHANGED <<todo, apc, starts>>
      BY <3>1
    <3>2. CASE StartLoad
      BY <3>2 DEF StartLoad
    <3>3. CASE StartStore
      BY <3>3 DEF StartStore
    <3>4. CASE StartSpawn
      BY <3>4 DEF StartSpawn
    <3>5. ASSUME NEW d \in {"stop", "destroy"}, StopLoad(d) \/ StopStore(d) \/ StopJoin(d)
          PROVE  /\ UNCHANGED <<todo, starts>>
                 /\ apc' \in {"stop", "destroy", "join_stop", "join_destroy", "idle", "members"}
      BY <3>5 DEF StopLoad, StopStore, StopJoin, AfterStop, JoinOf
    <3>6. CASE DestroyMembers \/ SetCallbackBegin \/ SetCallbackEnd
      BY <3>6 DEF DestroyMembers, SetCallbackBegin, SetCallbackEnd
    <3>7. ASSUME NEW n \in Counts, ReadBegin(n) \/ GenerateBegin(n)
          PROVE  todo' = n /\ UNCHANGED starts /\ apc' \in {"drain", "generate"}
      BY <3>7 DEF ReadBegin, GenerateBegin
    <3>8. CASE GenerateCount
      BY <3>8 DEF GenerateCount
    <3>9. CASE GenerateNotify
      BY <3>9 DEF GenerateNotify
    <3>10. CASE ReaderStep \/ ReaderGetline \/ Over \/ UNCHANGED allVars
      BY <3>1, <3>10 DEF ReaderStep, ReaderOpen, ReaderCheck, ReaderPush, ReaderCount,
         ReaderNotify, ReaderExit, ReaderGetline, Over, allVars, own
    <3>11. CASE GeneratePush
      <4>1. pc'[Api] # "idle"
        <5>1. pc' = pc
          BY <2>1
        <5> QED BY <5>1, <3>11 DEF GeneratePush, PushLoadHead, PushStep, PushLoadTail,
                PushDrop, PushEvict, PushCount, PushWrite, PushCopy, PushPublish, Goto,
                TypeOK, AfterTailLoad
      <4> QED BY <4>1, <3>11 DEF GeneratePush
    <3> QED BY <1>1, <3>2, <3>3, <3>4, <3>5, <3>6, <3>7, <3>8, <3>9, <3>10, <3>11
        DEF FRNext, ApiStep, ApiCall
  <2> QED BY <2>1, <2>2
<1>2. CASE ReaderPush
  <2>1. /\ pc' = [pc EXCEPT ![Reader] = pc'[Reader]]
        /\ pc'[Reader] \in {"idle"} \cup PushSteps
        /\ pc[Reader] \in {"idle"} \cup PushSteps
        /\ Len(accepted') + overflow_count'
             = Len(accepted) + overflow_count + (IF pc'[Reader] = "idle" THEN 1 ELSE 0)
        /\ offered' = offered + (IF pc[Reader] = "idle" THEN 1 ELSE 0)
    BY <1>2, PushEffect DEF ReaderPush, FRInv, InTheRing
  <2>2. UNCHANGED <<todo, apc, starts>>
    BY <1>2 DEF ReaderPush
  <2>3. pc'[Api] = pc[Api]
    BY <2>1 DEF TypeOK
  <2> QED BY <1>0, <1>i, <2>1, <2>2, <2>3
<1>3. CASE GeneratePush
  <2>1. /\ pc' = [pc EXCEPT ![Api] = pc'[Api]]
        /\ pc'[Api] \in {"idle"} \cup PushSteps
        /\ Len(accepted') + overflow_count'
             = Len(accepted) + overflow_count + (IF pc'[Api] = "idle" THEN 1 ELSE 0)
        /\ offered' = offered + (IF pc[Api] = "idle" THEN 1 ELSE 0)
    BY <1>3, PushEffect DEF GeneratePush, FRInv, InTheRing
  <2>2. pc[Api] \in {"idle"} \cup PushSteps
    <3>1. apc = "generate"
      BY <1>3 DEF GeneratePush
    <3> QED BY <3>1 DEF FRInv, InTheRing
  <2>3. /\ UNCHANGED <<todo, starts>> /\ todo # 0
        /\ apc' \in {"generate", "generate_count"}
    BY <1>3 DEF GeneratePush
  <2>4. pc'[Reader] = pc[Reader]
    BY <2>1 DEF TypeOK
  <2> QED BY <1>0, <1>i, <2>1, <2>2, <2>3, <2>4
<1>4. CASE ReadStep
  <2>1. /\ pc' = [pc EXCEPT ![Api] = pc'[Api]]
        /\ pc'[Api] \in {"idle"} \cup PopSteps
        /\ UNCHANGED <<accepted, overflow_count, offered>>
    BY <1>4, PopEffect DEF ReadStep, PopStep
  <2>2. pc[Api] \notin PushSteps /\ pc'[Api] \notin PushSteps
    <3>1. apc = "drain"
      BY <1>4 DEF ReadStep
    <3> QED BY <1>i, <2>1, <3>1 DEF FRInv, InTheRing
  <2>3. /\ todo' \in Nat /\ UNCHANGED starts /\ apc' \in {"idle", "drain"}
        /\ apc' = "drain" => todo' # 0
    BY <1>4 DEF ReadStep
  <2>4. pc'[Reader] = pc[Reader]
    BY <2>1 DEF TypeOK
  <2> QED BY <2>1, <2>2, <2>3, <2>4
<1> QED
  <2>1. ASSUME ~ReaderPush, ~GeneratePush, ~ReadStep PROVE UNCHANGED vars
    BY <2>1, OnlyTheseUseTheRing
  <2> QED BY <1>1, <1>2, <1>3, <1>4, <2>1

-----------------------------------------------------------------------------
(* The producer's side of the ring is never used by both threads at once.  *)
THEOREM OneProducerHolds == FRSpec => []OneProducer
<1>1. FRInv => OneProducer
  BY DEF FRInv, InTheRing, ThreadLife, Quiet, Joining, OneProducer, PushSteps
<1> QED BY <1>1, FRInvAlways, PTL

(* IsRunning() == false tells that the ring and the callback are free.     *)
THEOREM NotRunningIsQuietHolds == FRSpec => []NotRunningIsQuiet
<1>1. FRInv => NotRunningIsQuiet
  BY DEF FRInv, ThreadLife, Quiet, Joining, NotRunningIsQuiet
<1> QED BY <1>1, FRInvAlways, PTL

(* A caller that heeds IsRunning() never assigns the callback under the    *)
(* reader thread.                                                          *)
THEOREM NoCallbackRaceHolds == FRSpec => []NoCallbackRace
<1>1. FRInv => NoCallbackRace
  BY DEF FRInv, ThreadLife, Quiet, Joining, NoCallbackRace
<1> QED BY <1>1, FRInvAlways, PTL

(* EventCount() agrees with what the ring took and what it dropped.        *)
THEOREM CountsAgreeHolds == FRSpec => []CountsAgree
<1>1. FRInv => CountsAgree
  BY DEF FRInv
<1> QED BY <1>1, FRInvAlways, PTL

(* In simulated mode no std::thread is destroyed or replaced unjoined.     *)
THEOREM SimulatedNeverTerminatesHolds == FRSpec => []SimulatedNeverTerminates
<1>1. FRInv => SimulatedNeverTerminates
  BY DEF FRInv, Joined, SimulatedNeverTerminates
<1> QED BY <1>1, FRInvAlways, PTL

(* Every variable of the reader and of its ring keeps its type; no counter *)
(* passes its bound.                                                       *)
THEOREM FRTypeCorrect == FRSpec => []FRTypeOK
<1>1. FRSpec => []TypeOK
  BY ReaderUsesRing, TypeCorrect, PTL
<1>2. FRInit => Bounded
  BY BothThreads, ReaderAssumption DEF FRInit, Init, Bounded, PushSteps
<1>3. TypeOK /\ FRInv /\ Bounded /\ [FRNext]_allVars => Bounded'
  BY BoundedStep
<1>4. TypeOK /\ FRInv /\ Bounded => FRTypeOK
  <2> SUFFICES ASSUME TypeOK, FRInv, Bounded PROVE FRTypeOK
    OBVIOUS
  <2>1. callback \in {"none", "set", "moving"}
    BY DEF FRInv, ControlTypes
  <2>2. event_count \in 0 .. MaxPush
    <3>1. event_count \in Nat /\ Len(accepted) \in Nat /\ overflow_count \in Nat
          /\ offered \in 0 .. MaxPush /\ MaxPush \in Nat
      BY LenProperties, RingAssumption DEF FRInv, ControlTypes, TypeOK
    <3>2. event_count <= Len(accepted) + overflow_count
      BY <3>1 DEF FRInv, CountsAgree
    <3>3. Len(accepted) + overflow_count <= offered
      BY <3>1 DEF Bounded
    <3> QED BY <3>1, <3>2, <3>3
  <2> QED BY <2>1, <2>2 DEF FRInv, ControlTypes, Bounded, FRTypeOK
<1> QED BY <1>1, <1>2, <1>3, <1>4, FRInvAlways, PTL DEF FRSpec
-----------------------------------------------------------------------------
(***************************************************************************)
(* The ring between its two producers.  At any time one of them, w, is the *)
(* producer of the single-producer ring and its inductive invariant holds  *)
(* for w; a thread that begins a Push takes the part over from one that is *)
(* not inside a Push, which OneProducer makes sure of.                     *)
(***************************************************************************)
RingInv == \E w \in Writers : IInv(w, Api)

LEMMA HandOver ==
  ASSUME NEW w \in Threads, NEW v \in Threads, NEW r \in Threads,
         IInv(w, r), pc[w] \notin PushSteps,
         \A t \in Threads : pc[t] # "size_tail",
         Observers = {}
  PROVE  IInv(v, r)
<1> USE DEF IInv
<1>1. \A t \in Threads : pc[t] \notin PushSteps
  BY DEF Roles
<1>2. Roles(v, r)
  BY <1>1 DEF Roles
<1>3. Producing(v)
  BY <1>1 DEF Producing, PushSteps
<1>4. Accounts(v)
  BY <1>1 DEF Accounts, Pending
<1>5. Looking(v, r)
  BY DEF Looking
<1> QED BY <1>2, <1>3, <1>4, <1>5

(* Some producer, for which the invariant holds, is the only one to begin. *)
LEMMA CurrentProducer ==
  ASSUME TypeOK, FRInv, FRInv', RingInv
  PROVE  \E w \in Writers : OnlyProducer(w, Api) /\ IInv(w, Api)
<1> USE BothThreads, ReaderAssumption
<1>1. PICK w \in Writers : IInv(w, Api)
  BY DEF RingInv
<1>2. \A t \in Threads : pc[t] # "size_tail"
  BY DEF FRInv, InTheRing, PushSteps, PopSteps
<1>3. ASSUME NEW t \in Threads, PushLoadHead(t)
      PROVE  /\ t \in Writers
             /\ pc' = [pc EXCEPT ![t] = "push_tail"]
             /\ pc[t] = "idle"
  BY <1>3 DEF PushLoadHead, Goto
<1>4. CASE \A t \in Threads : PushLoadHead(t) => t = w
  BY <1>1, <1>4 DEF OnlyProducer
<1>5. ASSUME NEW v \in Threads, PushLoadHead(v), v # w
      PROVE  OnlyProducer(v, Api) /\ IInv(v, Api)
  <2>1. \A t \in Threads : PushLoadHead(t) => t = v
    BY <1>3, <1>5 DEF TypeOK
  <2>2. pc[w] \notin PushSteps
    <3>1. pc'[v] \in PushSteps /\ pc'[w] = pc[w]
      BY <1>3, <1>5 DEF TypeOK, PushSteps
    <3>2. ~(pc'[Reader] \in PushSteps /\ pc'[Api] \in PushSteps)
      BY DEF FRInv, InTheRing, ThreadLife, Quiet, Joining, PushSteps
    <3> QED BY <1>5, <3>1, <3>2
  <2> QED BY <1>1, <1>2, <2>1, <2>2, HandOver DEF OnlyProducer
<1> QED BY <1>3, <1>4, <1>5

LEMMA RingInvStep ==
  ASSUME TypeOK, FRInv, FRInv', RingInv, [FRNext]_allVars
  PROVE  RingInv'
<1>1. PICK w \in Writers : OnlyProducer(w, Api) /\ IInv(w, Api)
  BY CurrentProducer
<1>2. IInv(w, Api)'
  BY <1>1, InductiveStep, StepOfTheRing
<1> QED BY <1>2 DEF RingInv

(* The ring of the reader keeps the inductive invariant of the ring with   *)
(* one producer, although both of its threads push.                        *)
THEOREM RingInvAlways == FRSpec => []RingInv
<1>1. FRSpec => []TypeOK
  BY ReaderUsesRing, TypeCorrect, PTL
<1>2. FRInit => RingInv
  BY InductiveInit, BothThreads DEF FRInit, RingInv
<1> QED BY <1>1, <1>2, RingInvStep, FRInvAlways, PTL DEF FRSpec

(* No slot is ever touched by both threads while one of them writes it.    *)
THEOREM ReaderNoDataRace == FRSpec => []NoDataRace
<1>1. RingInv => NoDataRace
  BY NoRaceInside DEF RingInv
<1> QED BY <1>1, RingInvAlways, PTL

(* ReadEvents returns each accepted event once, in order, whichever thread *)
(* pushed it.                                                              *)
THEOREM ReaderExactlyOnce == FRSpec => []ExactlyOnce
<1>1. RingInv => ExactlyOnce
  BY OnceInside DEF RingInv
<1> QED BY <1>1, RingInvAlways, PTL

(* Events come out in the order in which the two producers offered them.   *)
THEOREM ReaderDeliveredInOrder == FRSpec => []DeliveredInOrder
<1>1. RingInv => DeliveredInOrder
  BY OrderInside DEF RingInv
<1> QED BY <1>1, RingInvAlways, PTL

(* Seen through the reader the ring is the queue of EventQueue.            *)
THEOREM ReaderImplementsQueue == FRSpec => ImplementsQueue
<1>1. FRSpec => []TypeOK
  BY ReaderUsesRing, TypeCorrect, PTL
<1>2. FRInit => Queue!Init
  BY RefinementInit, BothThreads DEF FRInit
<1>3. ASSUME TypeOK, FRInv, FRInv', RingInv, [FRNext]_allVars
      PROVE  [Queue!Next]_(Queue!queueVars)
  <2>1. PICK w \in Writers : OnlyProducer(w, Api) /\ IInv(w, Api)
    BY <1>3, CurrentProducer
  <2>2. [Next]_vars
    BY <1>3, StepOfTheRing
  <2>3. IInv(w, Api)'
    BY <2>1, <2>2, InductiveStep
  <2> QED BY <2>1, <2>2, <2>3, RefinementStep
<1> QED BY <1>1, <1>2, <1>3, RingInvAlways, FRInvAlways, PTL
        DEF FRSpec, ImplementsQueue, Queue!Spec

(* A ReadEvents that comes back short has emptied the ring.                *)
THEOREM ShortReadIsCompleteHolds == FRSpec => ShortReadIsComplete
<1>1. FRSpec => []TypeOK
  BY ReaderUsesRing, TypeCorrect, PTL
<1>2. ASSUME TypeOK, RingInv, FRNext, apc = "drain", apc' = "idle", todo' > 0
      PROVE  delivered' = accepted'
  <2>1. PICK w \in Writers : IInv(w, Api)
    BY <1>2 DEF RingInv
  <2>2. ReadStep
    BY <1>2 DEF FRNext, ReaderStep, ApiStep, ApiCall, Over, allVars, own, AGoto, RGoto,
       ReaderOpen, ReaderCheck, ReaderPush, ReaderCount, ReaderNotify, ReaderExit,
       ReaderGetline, StartStore, StartSpawn, StopStore, StopJoin, JoinOf, DestroyMembers,
       GeneratePush, GenerateCount, GenerateNotify, SetCallbackEnd,
       StartLoad, StopLoad, ReadBegin, GenerateBegin, SetCallbackBegin
  <2>3. PopLoadHead(Api) /\ pc'[Api] = "idle"
    BY <1>2, <2>2 DEF ReadStep
  <2>4. head <= ltail[Api] /\ pc[Api] = "pop_head"
    BY <1>2, <2>3, BothThreads DEF PopLoadHead, Goto, IsEmpty, TypeOK
  <2>5. ltail[Api] = tail /\ tail <= head
    BY <2>1, <2>4 DEF IInv, Consuming, Window, PopSteps
  <2>6. head \in Nat /\ tail \in Nat
    BY <1>2 DEF TypeOK
  <2>7. head = tail
    BY <2>4, <2>5, <2>6
  <2>8. Held = <<>>
    BY <2>6, <2>7 DEF Held
  <2>9. delivered \o Held = accepted /\ delivered \in Seq(Value)
    BY <1>2, <2>1, OnceInside DEF ExactlyOnce, TypeOK
  <2>10. delivered = accepted
    BY <2>8, <2>9
  <2> QED BY <2>3, <2>10 DEF PopLoadHead, history
<1>3. TypeOK /\ RingInv /\ [FRNext]_allVars
        => [apc = "drain" /\ apc' = "idle" /\ todo' > 0 /\ ~running
              => delivered' = accepted']_allVars
  BY <1>2
<1> QED BY <1>1, <1>3, RingInvAlways, PTL DEF FRSpec, ShortReadIsComplete
=============================================================================
