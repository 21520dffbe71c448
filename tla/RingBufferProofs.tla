-------------------------- MODULE RingBufferProofs --------------------------
(***************************************************************************)
(* Theorems about RingBuffer for every capacity, every bound and every     *)
(* width of the counters.  Type correctness holds for any set of threads   *)
(* and either policy.  Then come one producer w, one consumer r (which may *)
(* be the same thread) and kDrop, the only way the library uses the ring   *)
(* between threads, and kOverwrite in a single thread, as the tests use    *)
(* it.  Last, both implement the queue of EventQueue.                      *)
(***************************************************************************)
EXTENDS RingBuffer, SlotArithmetic, FiniteSetTheorems, TLAPS

-----------------------------------------------------------------------------
(* The ring uses its positions through Slot only: a slot is one of buffer, *)
(* and two positions of a window of Capacity never share one.              *)
LEMMA SlotFacts ==
  /\ \A n \in Nat : Slot(n) \in Slots
  /\ \A a, b \in Nat : a < b /\ b < a + Capacity => Slot(a) # Slot(b)
<1>1. ASSUME NEW n \in Nat PROVE Slot(n) \in Slots
  BY RingAssumption DEF Slot, Slots
<1>2. ASSUME NEW a \in Nat, NEW b \in Nat, a < b, b < a + Capacity
      PROVE Slot(a) # Slot(b)
  BY <1>2, RingAssumption, ModInjective DEF Slot
<1> QED BY <1>1, <1>2

(* Unsigned subtraction stays in the word, and is exact when it can be.    *)
LEMMA WordSubFacts ==
  ASSUME NEW a \in Nat, NEW b \in Nat
  PROVE  /\ WordSub(a, b) \in 0 .. Word - 1
         /\ b <= a /\ a < Word => WordSub(a, b) = a - b
<1>1. Word \in Nat \ {0}
  BY RingAssumption
<1>2. (a - b) % Word \in 0 .. Word - 1
  BY <1>1, SMT
<1>3. b <= a /\ a < Word => (a - b) % Word = a - b
  BY <1>1, SMT
<1> QED BY <1>2, <1>3 DEF WordSub

-----------------------------------------------------------------------------
(* Type correctness. *)

LEMMA TypeInit == Init => TypeOK
BY RingAssumption, SlotFacts DEF Init, TypeOK, Value, NoEvent, Torn

LEMMA TypeStep == TypeOK /\ [Next]_vars => TypeOK'
<1> SUFFICES ASSUME TypeOK, [Next]_vars PROVE TypeOK'
  OBVIOUS
<1> USE DEF TypeOK, shared, locals, history, Goto
<1>1. CASE UNCHANGED vars
  BY <1>1 DEF vars
<1>2. ASSUME NEW t \in Threads, ThreadNext(t) PROVE TypeOK'
  <2>1. CASE PushLoadHead(t)
    BY <2>1, RingAssumption DEF PushLoadHead, PushSteps, Value
  <2>2. CASE PushLoadTail(t)
    BY <2>2 DEF PushLoadTail, AfterTailLoad, PushSteps
  <2>3. CASE PushDrop(t)
    BY <2>3 DEF PushDrop
  <2>4. CASE PushEvict(t)
    BY <2>4 DEF PushEvict, PushSteps
  <2>5. CASE PushCount(t)
    BY <2>5 DEF PushCount, PushSteps
  <2>6. CASE PushWrite(t)
    BY <2>6 DEF PushWrite, PushSteps, Value
  <2>7. CASE PushCopy(t)
    BY <2>7 DEF PushCopy, PushSteps
  <2>8. CASE PushPublish(t)
    BY <2>8 DEF PushPublish
  <2>9. CASE PopLoadTail(t)
    BY <2>9 DEF PopLoadTail, PopSteps
  <2>10. CASE PopLoadHead(t)
    BY <2>10 DEF PopLoadHead, PopSteps
  <2>11. CASE PopRead(t)
    BY <2>11, SlotFacts DEF PopRead, PopSteps
  <2>12. CASE PopPublish(t)
    BY <2>12 DEF PopPublish
  <2>13. CASE SizeLoadHead(t)
    BY <2>13 DEF SizeLoadHead, SizeSteps
  <2>14. CASE SizeLoadTail(t)
    BY <2>14, WordSubFacts DEF SizeLoadTail
  <2>15. CASE Reset(t)
    BY <2>15 DEF Reset
  <2> QED
    BY <1>2, <2>1, <2>2, <2>3, <2>4, <2>5, <2>6, <2>7, <2>8, <2>9, <2>10,
       <2>11, <2>12, <2>13, <2>14, <2>15 DEF ThreadNext, PushStep, PopStep
<1> QED BY <1>1, <1>2 DEF Next

(* Whatever the threads and the policy, every variable keeps its type.     *)
THEOREM TypeCorrect == Spec => []TypeOK
BY TypeInit, TypeStep, PTL DEF Spec

-----------------------------------------------------------------------------
(***************************************************************************)
(* The inductive invariant of the SPSC ring with kDrop.  The properties    *)
(* are not inductive: that a Push may write its slot, or a Pop read one,   *)
(* rests on what the thread learned at an earlier load, so the invariant   *)
(* says what each program counter still knows about head and tail.         *)
(***************************************************************************)

OnePair(w, r) ==
  /\ Writers = {w}
  /\ Readers = {r}
  /\ Policy = "kDrop"

(* The weaker condition a step needs: whoever begins a Push is w.  Threads *)
(* that hand the producer's side over satisfy it one after the other.      *)
OnlyProducer(w, r) ==
  /\ w \in Writers
  /\ Readers = {r}
  /\ Policy = "kDrop"
  /\ \A t \in Threads : PushLoadHead(t) => t = w

(* The only threads inside Push and Pop. *)
Roles(w, r) ==
  \A t \in Threads : /\ pc[t] \in PushSteps => t = w
                     /\ pc[t] \in PopSteps => t = r
                     /\ pc[t] \notin {"push_evict", "push_count"}

(* head counts what was accepted, tail what was delivered.                 *)
Window ==
  /\ tail <= head
  /\ head <= tail + Capacity
  /\ Len(accepted) = head
  /\ Len(delivered) = tail

(* The positions below tail were delivered, those of the window are held.  *)
Contents ==
  /\ \A k \in 1 .. tail : delivered[k] = accepted[k]
  /\ \A k \in tail .. head - 1 : buffer[Slot(k)] = accepted[k + 1]

(* What a Push knows: its head is current, and there is room to write.     *)
Producing(w) ==
  /\ pc[w] \in PushSteps => lhead[w] = head
  /\ pc[w] \in {"push_write", "push_copy", "push_publish"}
       => head < tail + Capacity
  /\ pc[w] = "push_publish" => buffer[Slot(head)] = item[w]

(* What a Pop knows: its tail is current, and there is something to read.  *)
Consuming(r) ==
  /\ pc[r] \in PopSteps => ltail[r] = tail
  /\ pc[r] \in {"pop_read", "pop_publish"} => tail < head
  /\ pc[r] = "pop_publish" => item[r] = accepted[tail + 1]

(* Every event offered since the last Reset is accepted, counted as lost,  *)
(* or in the hands of the running Push; and accepted events are in order.  *)
Pending(w) == IF pc[w] \in PushSteps THEN 1 ELSE 0

Accounts(w) ==
  /\ offered - base = head + overflow_count + Pending(w)
  /\ pc[w] \in PushSteps => item[w] = offered
  /\ \A i \in 1 .. head : accepted[i] <= offered - Pending(w)
  /\ \A i, j \in 1 .. head : i < j => accepted[i] < accepted[j]

(* What the producer or the consumer knows inside Size.                    *)
Looking(w, r) ==
  /\ \A t \in {w, r} :
       pc[t] = "size_tail" => tail <= lhead[t] /\ lhead[t] <= head
  /\ pc[w] = "size_tail" => lhead[w] = head
  /\ Observers \subseteq {w, r}
       => \A t \in Threads : /\ size[t] <= Capacity
                             /\ pc[t] = "size_tail" => t \in {w, r}

IInv(w, r) ==
  /\ TypeOK
  /\ Roles(w, r)
  /\ Window
  /\ Contents
  /\ Producing(w)
  /\ Consuming(r)
  /\ Accounts(w)
  /\ Looking(w, r)

LEMMA InductiveInit ==
  ASSUME NEW w \in Threads, NEW r \in Threads, Init
  PROVE  IInv(w, r)
<1>1. TypeOK
  BY TypeInit
<1> QED
  BY <1>1, RingAssumption
  DEF Init, IInv, Roles, Window, Contents, Producing, Consuming, Accounts,
      Pending, Looking, PushSteps, PopSteps

(* The counters never get near the width of the word. *)
LEMMA HeadBelowWord ==
  ASSUME NEW w, NEW r, IInv(w, r)
  PROVE  head < Word
<1>1. TypeOK /\ Accounts(w)
  BY DEF IInv
<1> QED BY <1>1, RingAssumption DEF Accounts, TypeOK, Pending

LEMMA InductiveStep ==
  ASSUME NEW w, NEW r, OnlyProducer(w, r), IInv(w, r), [Next]_vars
  PROVE  IInv(w, r)'
<1>1. TypeOK /\ TypeOK'
  BY TypeStep DEF IInv
<1>2. /\ w \in Threads /\ r \in Threads
      /\ Readers = {r} /\ Policy = "kDrop"
  BY DEF OnlyProducer, Threads
<1>3. head < Word /\ Capacity \in Nat \ {0}
  BY HeadBelowWord, RingAssumption
<1>4. \A i \in 1 .. head : accepted[i] \in Int
  BY <1>1 DEF IInv, Window, TypeOK, Value, Torn
<1> USE <1>1, <1>2, <1>3 DEF IInv, TypeOK, PushSteps, PopSteps, Pending,
                             shared, locals, history, Goto
<1>5. CASE UNCHANGED vars
  BY <1>5 DEF vars, Roles, Window, Contents, Producing, Consuming, Accounts,
              Looking
<1>6. ASSUME NEW t \in Threads, ThreadNext(t) PROVE IInv(w, r)'
  <2>1. CASE PushLoadHead(t)
    <3>0. t = w
      BY <2>1 DEF OnlyProducer
    <3>1. (Window /\ Contents)'
      BY <2>1 DEF PushLoadHead, Window, Contents
    <3>2. Roles(w, r)'
      BY <2>1, <3>0 DEF PushLoadHead, Roles
    <3>3. Producing(w)'
      BY <2>1, <3>0 DEF PushLoadHead, Producing
    <3>4. (Consuming(r) /\ Accounts(w))'
      BY <2>1, <3>0 DEF PushLoadHead, Consuming, Accounts, Roles, Producing
    <3>5. Looking(w, r)'
      BY <2>1, <3>0 DEF PushLoadHead, Looking, Roles, Window
    <3> QED
      BY <3>1, <3>2, <3>3, <3>4, <3>5
  <2>2. CASE PushLoadTail(t)
    <3>1. (Window /\ Contents /\ Accounts(w))'
      BY <2>2 DEF PushLoadTail, Window, Contents, Accounts, Roles,
         AfterTailLoad
    <3>2. Looking(w, r)'
      BY <2>2 DEF PushLoadTail, Looking, Roles, AfterTailLoad
    <3>3. (Roles(w, r) /\ Consuming(r))'
      BY <2>2 DEF PushLoadTail, Roles, Consuming, AfterTailLoad
    <3>4. Producing(w)'
      BY <2>2, WordSubFacts DEF PushLoadTail, Producing, Roles, Window,
         Accounts, AfterTailLoad, IsFull
    <3> QED
      BY <3>1, <3>2, <3>3, <3>4
  <2>3. CASE PushDrop(t)
    <3>1. (Window /\ Contents /\ Consuming(r) /\ Looking(w, r))'
      BY <2>3 DEF PushDrop, Window, Contents, Consuming, Looking, Roles
    <3>2. (Roles(w, r) /\ Producing(w))'
      BY <2>3 DEF PushDrop, Roles, Producing
    <3>3. Accounts(w)'
      BY <2>3, <1>4 DEF PushDrop, Accounts, Roles, Producing, Window
    <3> QED
      BY <3>1, <3>2, <3>3
  <2>4. CASE PushWrite(t)
    <3>1. (Window /\ Accounts(w) /\ Looking(w, r))'
      BY <2>4 DEF PushWrite, Window, Accounts, Looking, Roles
    <3>2. (Roles(w, r) /\ Producing(w) /\ Consuming(r))'
      BY <2>4 DEF PushWrite, Roles, Producing, Consuming
    <3>3. Contents'
      BY <2>4, SlotFacts DEF PushWrite, Contents, Roles, Producing, Window
    <3> QED
      BY <3>1, <3>2, <3>3
  <2>5. CASE PushCopy(t)
    <3>1. (Window /\ Accounts(w))'
      BY <2>5 DEF PushCopy, Window, Accounts, Roles
    <3>5. Looking(w, r)'
      BY <2>5 DEF PushCopy, Looking
    <3>2. (Roles(w, r) /\ Consuming(r))'
      BY <2>5 DEF PushCopy, Roles, Consuming
    <3>3. Contents'
      BY <2>5, SlotFacts DEF PushCopy, Contents, Roles, Producing, Window
    <3>4. Producing(w)'
      BY <2>5, SlotFacts DEF PushCopy, Producing, Roles
    <3> QED
      BY <3>1, <3>2, <3>3, <3>4, <3>5
  <2>6. CASE PushPublish(t)
    <3>1. head' = head + 1 /\ item[t] \in Value /\ t = w
      BY <2>6 DEF PushPublish, Roles, Producing, Window
    <3>2. /\ Len(accepted') = head + 1
          /\ \A i \in 1 .. head : accepted'[i] = accepted[i]
          /\ accepted'[head + 1] = item[t]
      BY <2>6, <3>1, AppendFacts DEF PushPublish, Window
    <3>3. Roles(w, r)'
      BY <2>6 DEF PushPublish, Roles
    <3>4. Window'
      BY <2>6, <3>1, <3>2 DEF PushPublish, Window, Producing
    <3>5. Contents'
      BY <2>6, <3>1, <3>2 DEF PushPublish, Contents, Producing, Window
    <3>6. Producing(w)'
      BY <2>6 DEF PushPublish, Producing, Roles
    <3>7. Consuming(r)'
      BY <2>6, <3>1, <3>2 DEF PushPublish, Consuming, Roles, Producing, Window
    <3>8. Accounts(w)'
      <4>1. /\ pc[w] = "push_publish" /\ pc'[w] = "idle" /\ item[w] = offered
            /\ UNCHANGED <<offered, base, overflow_count>>
        BY <2>6, <3>1 DEF PushPublish, Accounts
      <4>2. /\ head \in Nat /\ offered \in Nat /\ base \in Nat
            /\ overflow_count \in Nat
        OBVIOUS
      <4>3. Accounts(w)
        OBVIOUS
      <4> HIDE <1>1 DEF IInv, TypeOK
      <4>4. offered' - base' = head' + overflow_count' + 0
        BY <3>1, <4>1, <4>2, <4>3 DEF Accounts
      <4>5. \A i \in 1 .. head' : accepted'[i] <= offered' - 0
        BY <1>4, <3>1, <3>2, <4>1, <4>2, <4>3 DEF Accounts
      <4>6. \A i, j \in 1 .. head' : i < j => accepted'[i] < accepted'[j]
        BY <1>4, <3>1, <3>2, <4>1, <4>2, <4>3 DEF Accounts
      <4> QED BY <4>1, <4>4, <4>5, <4>6 DEF Accounts
    <3>9. Looking(w, r)'
      BY <2>6 DEF PushPublish, Looking, Roles, Producing, Window
    <3> QED
      BY <3>1, <3>2, <3>3, <3>4, <3>5, <3>6, <3>7, <3>8, <3>9
  <2>7. CASE PopLoadTail(t)
    <3>1. (Window /\ Contents /\ Accounts(w))'
      BY <2>7 DEF PopLoadTail, Window, Contents, Accounts, Roles
    <3>2. (Roles(w, r) /\ Producing(w) /\ Consuming(r))'
      BY <2>7 DEF PopLoadTail, Roles, Producing, Consuming
    <3>3. Looking(w, r)'
      BY <2>7 DEF PopLoadTail, Looking, Roles
    <3> QED
      BY <3>1, <3>2, <3>3
  <2>8. CASE PopLoadHead(t)
    <3>1. (Window /\ Contents /\ Accounts(w))'
      BY <2>8 DEF PopLoadHead, Window, Contents, Accounts
    <3>2. Looking(w, r)'
      BY <2>8 DEF PopLoadHead, Looking, Roles
    <3>3. (Roles(w, r) /\ Producing(w))'
      BY <2>8 DEF PopLoadHead, Roles, Producing
    <3>4. Consuming(r)'
      BY <2>8 DEF PopLoadHead, Consuming, Roles, Window, IsEmpty
    <3> QED
      BY <3>1, <3>2, <3>3, <3>4
  <2>9. CASE PopRead(t)
    <3>1. (Window /\ Contents /\ Looking(w, r))'
      BY <2>9 DEF PopRead, Window, Contents, Looking, Roles
    <3>2. (Roles(w, r) /\ Producing(w))'
      BY <2>9 DEF PopRead, Roles, Producing
    <3>3. Consuming(r)'
      BY <2>9 DEF PopRead, Consuming, Roles, Contents, Window
    <3>4. Accounts(w)'
      BY <2>9 DEF PopRead, Accounts, Roles
    <3> QED
      BY <3>1, <3>2, <3>3, <3>4
  <2>10. CASE PopPublish(t)
    <3>1. (Roles(w, r) /\ Producing(w))'
      BY <2>10 DEF PopPublish, Roles, Producing, Window, Consuming
    <3>2. Window'
      BY <2>10, AppendFacts DEF PopPublish, Window, Roles, Consuming
    <3>3. Contents'
      BY <2>10, AppendFacts DEF PopPublish, Contents, Roles, Consuming, Window
    <3>4. Consuming(r)'
      BY <2>10 DEF PopPublish, Consuming, Roles
    <3>5. Accounts(w)'
      BY <2>10 DEF PopPublish, Accounts, Roles
    <3>6. Looking(w, r)'
      BY <2>10 DEF PopPublish, Looking, Roles, Consuming, Window
    <3> QED
      BY <3>1, <3>2, <3>3, <3>4, <3>5, <3>6
  <2>11. CASE SizeLoadHead(t)
    <3>1. (Window /\ Contents /\ Accounts(w))'
      BY <2>11 DEF SizeLoadHead, Window, Contents, Accounts
    <3>2. (Roles(w, r) /\ Producing(w) /\ Consuming(r))'
      BY <2>11 DEF SizeLoadHead, Roles, Producing, Consuming
    <3>3. Looking(w, r)'
      BY <2>11 DEF SizeLoadHead, Looking, Roles, Window
    <3> QED
      BY <3>1, <3>2, <3>3
  <2>12. CASE SizeLoadTail(t)
    <3>1. (Window /\ Contents /\ Accounts(w))'
      BY <2>12 DEF SizeLoadTail, Window, Contents, Accounts
    <3>2. (Roles(w, r) /\ Producing(w) /\ Consuming(r))'
      BY <2>12 DEF SizeLoadTail, Roles, Producing, Consuming
    <3>3. t \in {w, r} => tail <= lhead[t] /\ lhead[t] <= head
      BY <2>12 DEF SizeLoadTail, Looking
    <3>4. ASSUME t \in {w, r} PROVE WordSub(lhead[t], tail) = lhead[t] - tail
      <4>1. lhead[t] \in Nat /\ tail \in Nat /\ head \in Nat
        OBVIOUS
      <4> HIDE <1>1 DEF IInv, TypeOK
      <4>2. tail <= lhead[t] /\ lhead[t] <= head
        BY <3>3, <3>4
      <4>3. lhead[t] < Word
        BY <4>1, <4>2, <1>3, RingAssumption
      <4> QED
        BY <4>1, <4>2, <4>3, WordSubFacts
    <3>5. Looking(w, r)'
      <4>1. /\ pc' = [pc EXCEPT ![t] = "idle"]
            /\ size' = [size EXCEPT ![t] = WordSub(lhead[t], tail)]
            /\ UNCHANGED <<head, tail, lhead>>
            /\ pc[t] = "size_tail"
        BY <2>12 DEF SizeLoadTail
      <4>3. /\ Looking(w, r) /\ Window
            /\ pc \in [Threads -> {"idle"} \union PushSteps \union PopSteps \union SizeSteps]
            /\ size \in [Threads -> 0 .. Word - 1]
            /\ lhead[t] \in Nat /\ tail \in Nat /\ head \in Nat
        OBVIOUS
      <4> HIDE <1>1 DEF IInv, TypeOK, PushSteps, PopSteps
      <4>2. t \in {w, r} => WordSub(lhead[t], tail) <= Capacity
        BY <1>3, <3>3, <3>4, <4>3 DEF Window
      <4> QED BY <4>1, <4>2, <4>3 DEF Looking
    <3> QED
      BY <3>1, <3>2, <3>3, <3>4, <3>5
  <2>13. CASE Reset(t)
    <3>1. (Roles(w, r) /\ Producing(w) /\ Consuming(r))'
      BY <2>13 DEF Reset, Roles, Producing, Consuming
    <3>2. (Window /\ Contents)'
      BY <2>13 DEF Reset, Window, Contents
    <3>3. Accounts(w)'
      BY <2>13 DEF Reset, Accounts
    <3>4. Looking(w, r)'
      BY <2>13 DEF Reset, Looking
    <3> QED
      BY <3>1, <3>2, <3>3, <3>4
  <2>14. ~PushEvict(t) /\ ~PushCount(t)
    BY DEF Roles, PushEvict, PushCount
  <2> QED
    BY <1>6, <2>1, <2>2, <2>3, <2>4, <2>5, <2>6, <2>7, <2>8, <2>9, <2>10,
         <2>11, <2>12, <2>13, <2>14
       DEF ThreadNext, PushStep, PopStep
<1> QED BY <1>5, <1>6 DEF Next

(* One producer, one consumer and kDrop keep the inductive invariant.      *)
THEOREM Invariance ==
  ASSUME NEW w, NEW r, OnePair(w, r)
  PROVE  Spec => []IInv(w, r)
<1>1. [Next]_vars => OnlyProducer(w, r)
  BY DEF OnePair, OnlyProducer, PushLoadHead
<1>2. IInv(w, r) /\ [Next]_vars => IInv(w, r)'
  BY <1>1, InductiveStep
<1>3. Init => IInv(w, r)
  BY InductiveInit DEF OnePair, Threads
<1> QED BY <1>2, <1>3, PTL DEF Spec

-----------------------------------------------------------------------------
(* What the invariant means. *)

(* The producer's slot is never the consumer's: their positions differ by  *)
(* less than the capacity.                                                 *)
LEMMA NoRaceInside ==
  ASSUME NEW w, NEW r, IInv(w, r)
  PROVE  NoDataRace
BY SlotFacts, RingAssumption
DEF IInv, TypeOK, Roles, Window, Producing, Consuming, NoDataRace, Writing,
    Reading, PushSteps, PopSteps

(* No two threads touch a slot at once, when one of them writes it.        *)
THEOREM NoDataRaceHolds ==
  ASSUME NEW w, NEW r, OnePair(w, r)
  PROVE  Spec => []NoDataRace
BY NoRaceInside, Invariance, PTL

(* Size() is in range when only the producer and the consumer call it.     *)
THEOREM SizeInRangeHolds ==
  ASSUME NEW w, NEW r, OnePair(w, r), Observers \subseteq {w, r}
  PROVE  Spec => []SizeInRange
<1>1. IInv(w, r) => SizeInRange
  BY DEF IInv, Looking, SizeInRange
<1> QED BY <1>1, Invariance, PTL

LEMMA OrderInside ==
  ASSUME NEW w, NEW r, IInv(w, r)
  PROVE  DeliveredInOrder
BY DEF IInv, TypeOK, Window, Contents, Accounts, DeliveredInOrder

(* Events are delivered in the order they were offered, each once.         *)
THEOREM DeliveredInOrderHolds ==
  ASSUME NEW w, NEW r, OnePair(w, r)
  PROVE  Spec => []DeliveredInOrder
BY OrderInside, Invariance, PTL

(* With one thread able to be somewhere, how many are there.               *)
LEMMA OneAtMost ==
  ASSUME NEW S, NEW w, S \subseteq {w}
  PROVE  Cardinality(S) = IF w \in S THEN 1 ELSE 0
<1>1. CASE w \in S
  <2>1. S = {w}
    BY <1>1
  <2> QED BY <1>1, <2>1, FS_Singleton
<1>2. CASE w \notin S
  <2>1. S = {}
    BY <1>2
  <2> QED BY <1>2, <2>1, FS_EmptySet
<1> QED BY <1>1, <1>2

(* No event offered since the last Reset is unaccounted for.               *)
THEOREM LossAccountedHolds ==
  ASSUME NEW w, NEW r, OnePair(w, r)
  PROVE  Spec => []LossAccounted
<1>1. ASSUME IInv(w, r) PROVE LossAccounted
  <2>1. w \in Threads
    BY DEF OnePair, Threads
  <2>2. Cardinality(At(PushSteps)) = Pending(w)
    <3>1. /\ At(PushSteps) \subseteq {w}
          /\ w \in At(PushSteps) <=> pc[w] \in PushSteps
      BY <1>1, <2>1 DEF IInv, Roles, At
    <3> QED BY <3>1, OneAtMost DEF Pending
  <2>3. At({"push_count"}) = {}
    BY <1>1 DEF IInv, Roles, At
  <2>4. Cardinality(At({"push_count"})) = 0
    BY <2>3, FS_EmptySet
  <2> QED
    BY <1>1, <2>2, <2>4
    DEF IInv, TypeOK, Window, Accounts, Pending, LossAccounted
<1> QED BY <1>1, Invariance, PTL

(* A function that reads the window of the slots is the last part of the   *)
(* sequence the slots were filled from.                                    *)
LEMMA WindowIsSubSeq ==
  ASSUME NEW h \in Nat, NEW t \in Nat, t <= h, NEW b, NEW a \in Seq(Value),
         Len(a) = h, \A k \in t .. h - 1 : b[Slot(k)] = a[k + 1],
         NEW f, f = [i \in 1 .. (h - t) |-> b[Slot(t + i - 1)]]
  PROVE  f = SubSeq(a, t + 1, h)
<1> DEFINE s == SubSeq(a, t + 1, h)
<1>1. \A i \in t + 1 .. h : a[i] \in Value
  BY ElementOfSeq
<1>2. s \in Seq(Value) /\ Len(s) = h - t
  BY <1>1, SubSeqProperties
<1>3. \A i \in 1 .. h - t : s[i] = a[t + i]
  BY <1>1, SubSeqProperties
<1>4. \A i \in 1 .. h - t : f[i] = a[t + i]
  <2> SUFFICES ASSUME NEW i \in 1 .. h - t PROVE f[i] = a[t + i]
    OBVIOUS
  <2>1. t + i - 1 \in t .. h - 1 /\ (t + i - 1) + 1 = t + i
    OBVIOUS
  <2> QED BY <2>1
<1>5. DOMAIN s = 1 .. h - t /\ s \in [1 .. h - t -> Value]
  BY <1>2, LenProperties
<1> HIDE DEF s
<1>6. f = s
  BY <1>3, <1>4, <1>5
<1> QED BY <1>6 DEF s

(* A prefix of a sequence followed by the rest of it is the sequence.      *)
LEMMA PrefixAndRest ==
  ASSUME NEW a \in Seq(Value), NEW d \in Seq(Value), Len(d) <= Len(a),
         \A i \in 1 .. Len(d) : d[i] = a[i]
  PROVE  d \o SubSeq(a, Len(d) + 1, Len(a)) = a
<1> DEFINE n == Len(d)
           p == SubSeq(a, 1, n)
<1>1. n \in Nat /\ Len(a) \in Nat /\ \A i \in 1 .. n : a[i] \in Value
  BY LenProperties, ElementOfSeq
<1>2. /\ p \in Seq(Value)
      /\ Len(p) = n
      /\ \A i \in 1 .. n : p[i] = a[i]
  BY <1>1, SubSeqProperties
<1>3. d = p
  <2> HIDE DEF p
  <2> QED BY <1>2, SeqEqual
<1>4. p \o SubSeq(a, n + 1, Len(a)) = SubSeq(a, 1, Len(a))
  <2>1. /\ 1 \in 1 .. Len(a) + 1
        /\ n \in 1 - 1 .. Len(a)
        /\ Len(a) \in n .. Len(a)
    BY <1>1
  <2> HIDE DEF n
  <2> QED BY <2>1, ConcatAdjacentSubSeq
<1>5. SubSeq(a, 1, Len(a)) = a
  BY SubSeqFull
<1> QED BY <1>3, <1>4, <1>5

(* What came out and what is held is what went in.                         *)
LEMMA OnceInside ==
  ASSUME NEW w, NEW r, IInv(w, r)
  PROVE  ExactlyOnce
<1>1. /\ head \in Nat /\ tail \in Nat /\ tail <= head
      /\ accepted \in Seq(Value) /\ delivered \in Seq(Value)
      /\ Len(accepted) = head /\ Len(delivered) = tail
      /\ \A i \in 1 .. tail : delivered[i] = accepted[i]
      /\ \A k \in tail .. head - 1 : buffer[Slot(k)] = accepted[k + 1]
  BY DEF IInv, TypeOK, Window, Contents
<1>2. Held = SubSeq(accepted, tail + 1, head)
  BY <1>1, WindowIsSubSeq DEF Held
<1>3. delivered \o SubSeq(accepted, Len(delivered) + 1, Len(accepted)) = accepted
  BY <1>1, PrefixAndRest
<1> QED BY <1>1, <1>2, <1>3 DEF ExactlyOnce

(* No event is lost, invented, repeated, reordered or torn on the way.     *)
THEOREM ExactlyOnceHolds ==
  ASSUME NEW w, NEW r, OnePair(w, r)
  PROVE  Spec => []ExactlyOnce
BY OnceInside, Invariance, PTL

(* A step leaves alone every slot that holds an undelivered element.       *)
LEMMA StableStep ==
  ASSUME NEW w, NEW r, IInv(w, r), [Next]_vars
  PROVE  \A k \in tail' .. head - 1 : buffer'[Slot(k)] = buffer[Slot(k)]
<1> USE DEF IInv, TypeOK, shared, locals, history, Goto
<1>1. CASE UNCHANGED buffer
  BY <1>1
<1>2. ASSUME NEW t \in Threads, PushWrite(t) \/ PushCopy(t)
      PROVE  \A k \in tail' .. head - 1 : buffer'[Slot(k)] = buffer[Slot(k)]
  <2>1. lhead[t] = head /\ head < tail + Capacity /\ tail' = tail
    BY <1>2 DEF PushWrite, PushCopy, Roles, Producing, PushSteps
  <2>2. ASSUME NEW k \in tail' .. head - 1
        PROVE  Slot(k) \in Slots /\ Slot(k) # Slot(lhead[t])
    <3>1. k \in Nat /\ k < head /\ head < k + Capacity
      BY <2>1, RingAssumption
    <3>2. Slot(k) \in Slots /\ Slot(k) # Slot(head)
      BY <3>1, SlotFacts
    <3> QED BY <2>1, <3>2
  <2> QED BY <1>2, <2>2 DEF PushWrite, PushCopy
<1>3. (\E t \in Threads : PushWrite(t) \/ PushCopy(t)) \/ UNCHANGED buffer
  BY DEF Next, ThreadNext, PushStep, PopStep, vars, PushLoadHead, PushLoadTail,
         PushDrop, PushEvict, PushCount, PushPublish, PopLoadTail, PopLoadHead,
         PopRead, PopPublish, SizeLoadHead, SizeLoadTail, Reset
<1> QED BY <1>1, <1>2, <1>3

THEOREM HeldIsStableHolds ==
  ASSUME NEW w, NEW r, OnePair(w, r)
  PROVE  Spec => HeldIsStable
<1>1. IInv(w, r) /\ [Next]_vars
        => [\A k \in tail' .. head - 1 : buffer'[Slot(k)] = buffer[Slot(k)]]_vars
  BY StableStep
<1> QED BY <1>1, Invariance, PTL DEF Spec, HeldIsStable

-----------------------------------------------------------------------------
(***************************************************************************)
(* kOverwrite in the hands of one thread w, the way the library's tests    *)
(* use it.  The event of position k is then base + k + 1, and what the     *)
(* thread knows inside a call is current, as nobody else moves.            *)
(***************************************************************************)

OneThread(w) == Threads = {w} /\ Policy = "kOverwrite"

(* What the thread knows inside a call. *)
Current(w) ==
  /\ pc[w] # "push_drop"
  /\ pc[w] \in PushSteps => lhead[w] = head /\ item[w] = offered
  /\ pc[w] = "push_evict" => ltail[w] = tail /\ head = tail + Capacity
  /\ pc[w] \in {"push_count", "push_write", "push_copy", "push_publish"}
       => head < tail + Capacity
  /\ pc[w] = "push_publish" => buffer[Slot(head)] = item[w]
  /\ pc[w] \in PopSteps => ltail[w] = tail
  /\ pc[w] \in {"pop_read", "pop_publish"} => tail < head
  /\ pc[w] = "pop_publish" => item[w] = base + tail + 1
  /\ pc[w] = "size_tail" => lhead[w] = head
  /\ size[w] <= Capacity

(* The slots hold the newest events, older ones were delivered or evicted. *)
Newest ==
  /\ tail <= head
  /\ head <= tail + Capacity
  /\ \A k \in tail .. head - 1 : buffer[Slot(k)] = base + k + 1
  /\ \A i \in 1 .. Len(delivered) : delivered[i] <= base + tail
  /\ DeliveredInOrder

(* head counts the events offered, tail those delivered or evicted.        *)
Owed(w) == IF pc[w] = "push_count" THEN 1 ELSE 0

Counted(w) ==
  /\ offered - base = head + Pending(w)
  /\ tail = Len(delivered) + overflow_count + Owed(w)

AloneInv(w) == TypeOK /\ Current(w) /\ Newest /\ Counted(w)

LEMMA AloneInit ==
  ASSUME NEW w, OneThread(w), Init
  PROVE  AloneInv(w)
<1>1. TypeOK
  BY TypeInit
<1> QED
  BY <1>1, RingAssumption
  DEF OneThread, Init, AloneInv, Current, Newest, Counted, Pending, Owed,
      DeliveredInOrder, PushSteps, PopSteps

LEMMA AloneStep ==
  ASSUME NEW w, OneThread(w), AloneInv(w), [Next]_vars
  PROVE  AloneInv(w)'
<1>1. TypeOK /\ TypeOK'
  BY TypeStep DEF AloneInv
<1>2. w \in Threads /\ Policy = "kOverwrite" /\ \A t \in Threads : t = w
  BY DEF OneThread
<1>3. /\ Capacity \in Nat \ {0}
      /\ head \in Nat /\ tail \in Nat /\ base \in Nat /\ offered \in Nat
      /\ overflow_count \in Nat
      /\ delivered \in Seq(Value) /\ Len(delivered) \in Nat
  BY <1>1, RingAssumption, LenProperties DEF TypeOK
<1>4. head < Word
  BY <1>1, <1>3, RingAssumption DEF AloneInv, Counted, Pending, TypeOK
<1>5. \A i \in 1 .. Len(delivered) : delivered[i] \in Int
  BY <1>1 DEF TypeOK, Value, Torn
<1>6. Current(w) /\ Newest /\ Counted(w)
  BY DEF AloneInv
<1>7. /\ pc \in [Threads -> {"idle"} \union PushSteps \union PopSteps \union SizeSteps]
      /\ buffer \in [Slots -> Value]
      /\ item \in [Threads -> Value]
      /\ lhead \in [Threads -> Nat] /\ ltail \in [Threads -> Nat]
      /\ size \in [Threads -> 0 .. Word - 1]
  BY <1>1 DEF TypeOK
<1> SUFFICES Current(w)' /\ Newest' /\ Counted(w)'
  BY <1>1 DEF AloneInv
<1> HIDE <1>1
<1> USE <1>2, <1>3, <1>6, <1>7 DEF Goto, shared, locals, history, PushSteps, PopSteps,
        Pending, Owed
<1>8. CASE UNCHANGED vars
  BY <1>8 DEF vars, Current, Newest, Counted, DeliveredInOrder
<1>9. ASSUME NEW t \in Threads, ThreadNext(t)
      PROVE  Current(w)' /\ Newest' /\ Counted(w)'
  <2>0. t = w
    BY <1>2
  <2>1. CASE PushLoadHead(w)
    BY <2>1 DEF PushLoadHead, Current, Newest, Counted, DeliveredInOrder
  <2>2. CASE PushLoadTail(w)
    <3>1. lhead[w] = head /\ WordSub(head, tail) = head - tail
      BY <1>4, <2>2, WordSubFacts DEF PushLoadTail, Current, Newest
    <3>2. Current(w)'
      BY <2>2, <3>1 DEF PushLoadTail, AfterTailLoad, IsFull, Current, Newest
    <3>3. (Newest /\ Counted(w))'
      BY <2>2 DEF PushLoadTail, AfterTailLoad, Newest, Counted, DeliveredInOrder
    <3> QED BY <3>2, <3>3
  <2>3. CASE PushEvict(w)
    <3>1. Current(w)'
      BY <2>3 DEF PushEvict, Current
    <3>2. Counted(w)'
      BY <2>3 DEF PushEvict, Current, Counted
    <3>3. /\ tail' = tail + 1 /\ tail < head
          /\ UNCHANGED <<head, base, buffer, delivered>>
      BY <2>3 DEF PushEvict, Current
    <3> HIDE <1>6, <1>7
    <3>4. Newest
      BY <1>6
    <3>5. Newest'
      BY <1>5, <3>3, <3>4 DEF Newest, DeliveredInOrder
    <3> QED BY <3>1, <3>2, <3>5
  <2>4. CASE PushCount(w)
    BY <2>4 DEF PushCount, Current, Newest, Counted, DeliveredInOrder
  <2>5. CASE PushWrite(w)
    <3>1. Current(w)' /\ Counted(w)'
      BY <2>5 DEF PushWrite, Current, Counted
    <3>2. Newest'
      BY <2>5, SlotFacts DEF PushWrite, Current, Newest, DeliveredInOrder
    <3> QED BY <3>1, <3>2
  <2>6. CASE PushCopy(w)
    <3>1. Current(w)' /\ Counted(w)'
      BY <2>6, SlotFacts DEF PushCopy, Current, Counted
    <3>2. Newest'
      BY <2>6, SlotFacts DEF PushCopy, Current, Newest, DeliveredInOrder
    <3> QED BY <3>1, <3>2
  <2>7. CASE PushPublish(w)
    <3>1. Current(w)' /\ Counted(w)'
      BY <2>7 DEF PushPublish, Current, Counted
    <3>2. /\ head' = head + 1 /\ head < tail + Capacity
          /\ buffer[Slot(head)] = base + head + 1
          /\ UNCHANGED <<tail, base, buffer, delivered>>
      BY <2>7 DEF PushPublish, Current, Counted
    <3> HIDE <1>6, <1>7
    <3>3. Newest
      BY <1>6
    <3>4. Newest'
      BY <3>2, <3>3 DEF Newest, DeliveredInOrder
    <3> QED BY <3>1, <3>4
  <2>8. CASE PopLoadTail(w) \/ PopLoadHead(w)
    <3>1. Current(w)'
      BY <2>8 DEF PopLoadTail, PopLoadHead, IsEmpty, Current, Newest
    <3>2. (Newest /\ Counted(w))'
      BY <2>8 DEF PopLoadTail, PopLoadHead, Newest, Counted, DeliveredInOrder
    <3> QED BY <3>1, <3>2
  <2>9. CASE PopRead(w)
    BY <2>9 DEF PopRead, Current, Newest, Counted, DeliveredInOrder
  <2>10. CASE PopPublish(w)
    <3>1. /\ Len(delivered') = Len(delivered) + 1
          /\ \A i \in 1 .. Len(delivered) : delivered'[i] = delivered[i]
          /\ delivered'[Len(delivered) + 1] = base + tail + 1
      BY <2>10, AppendFacts DEF PopPublish, Current
    <3>2. Current(w)' /\ Counted(w)'
      BY <2>10, <3>1 DEF PopPublish, Current, Counted
    <3>3. Newest'
      BY <1>5, <2>10, <3>1 DEF PopPublish, Current, Newest, DeliveredInOrder
    <3> QED BY <3>2, <3>3
  <2>11. CASE SizeLoadHead(w)
    BY <2>11 DEF SizeLoadHead, Current, Newest, Counted, DeliveredInOrder
  <2>12. CASE SizeLoadTail(w)
    <3>1. lhead[w] = head /\ WordSub(head, tail) = head - tail
      BY <1>4, <2>12, WordSubFacts DEF SizeLoadTail, Current, Newest
    <3> QED
      BY <2>12, <3>1 DEF SizeLoadTail, Current, Newest, Counted, DeliveredInOrder
  <2>13. CASE Reset(w)
    BY <2>13 DEF Reset, Current, Newest, Counted, DeliveredInOrder
  <2>14. ~PushDrop(w)
    BY DEF PushDrop, Current
  <2> QED
    BY <1>9, <2>0, <2>1, <2>2, <2>3, <2>4, <2>5, <2>6, <2>7, <2>8, <2>9, <2>10,
       <2>11, <2>12, <2>13, <2>14 DEF ThreadNext, PushStep, PopStep
<1> QED BY <1>8, <1>9 DEF Next

(* One thread and kOverwrite keep that invariant, with events in order.    *)
THEOREM AloneInvariance ==
  ASSUME NEW w, OneThread(w)
  PROVE  Spec => []AloneInv(w)
BY AloneInit, AloneStep, PTL DEF Spec

(* Between calls the ring holds the newest events offered, without a gap.  *)
THEOREM LatestWinsHolds ==
  ASSUME NEW w, OneThread(w)
  PROVE  Spec => []LatestWins
<1>1. ASSUME AloneInv(w), Idle PROVE Held = [i \in 1 .. (head - tail) |-> offered - (head - tail) + i]
  <2>1. Pending(w) = 0
    BY <1>1 DEF OneThread, Idle, Pending, PushSteps
  <2>2. /\ head \in Nat /\ tail \in Nat /\ base \in Nat /\ offered \in Nat
        /\ offered = base + head
        /\ \A k \in tail .. head - 1 : buffer[Slot(k)] = base + k + 1
    BY <1>1, <2>1, RingAssumption DEF AloneInv, TypeOK, Newest, Counted
  <2>3. ASSUME NEW i \in 1 .. (head - tail)
        PROVE  buffer[Slot(tail + i - 1)] = offered - (head - tail) + i
    <3>1. tail + i - 1 \in tail .. head - 1
      BY <2>2
    <3> QED BY <2>2, <3>1
  <2> QED BY <2>3 DEF Held
<1>2. AloneInv(w) => LatestWins
  BY <1>1 DEF LatestWins
<1> QED BY <1>2, AloneInvariance, PTL

(* Events come out in the order they were offered, none of them twice.     *)
THEOREM LatestInOrderHolds ==
  ASSUME NEW w, OneThread(w)
  PROVE  Spec => []DeliveredInOrder
<1>1. AloneInv(w) => DeliveredInOrder
  BY DEF AloneInv, Newest
<1> QED BY <1>1, AloneInvariance, PTL

(* Every event offered was delivered, is held, was counted as evicted, or  *)
(* belongs to the Push under way.                                          *)
THEOREM LatestAccountedHolds ==
  ASSUME NEW w, OneThread(w)
  PROVE  Spec => []LossAccounted
<1>1. ASSUME AloneInv(w) PROVE LossAccounted
  <2>1. /\ At(PushSteps) \subseteq {w} /\ At({"push_count"}) \subseteq {w}
        /\ w \in At(PushSteps) <=> pc[w] \in PushSteps
        /\ w \in At({"push_count"}) <=> pc[w] = "push_count"
    BY DEF OneThread, At
  <2>2. /\ Cardinality(At(PushSteps)) = Pending(w)
        /\ Cardinality(At({"push_count"})) = Owed(w)
    BY <2>1, OneAtMost DEF Pending, Owed
  <2> QED
    BY <1>1, <2>2, LenProperties
    DEF AloneInv, TypeOK, Counted, Pending, Owed, LossAccounted
<1> QED BY <1>1, AloneInvariance, PTL

-----------------------------------------------------------------------------
(***************************************************************************)
(* With one producer, one consumer and kDrop the ring implements the       *)
(* bounded FIFO queue of EventQueue, for every capacity, bound and width.  *)
(* Three steps move the queue: the load of tail_ that finds the ring full  *)
(* refuses the event, the store to head_ accepts one, the store to tail_   *)
(* takes one.  Reset clears it, every other step is invisible.  The second *)
(* half shows the same for kOverwrite in one thread, where the store to    *)
(* tail_ inside Push evicts.                                               *)
(***************************************************************************)

Undecided == PushSteps \ {"push_drop"}
Refused   == {"push_drop", "push_count"}

(* The mapped counters, for the one thread that can be inside a Push.      *)
Offers(w) == offered - (IF pc[w] \in Undecided THEN 1 ELSE 0)
Losses(w) == overflow_count + (IF pc[w] \in Refused THEN 1 ELSE 0)

LEMMA MappedCounters ==
  ASSUME NEW w, NEW r, w \in Threads, IInv(w, r)
  PROVE  /\ offered - Cardinality(At(PushSteps \ {"push_drop"})) = Offers(w)
         /\ overflow_count + Cardinality(At({"push_drop", "push_count"})) = Losses(w)
<1>1. /\ At(Undecided) \subseteq {w} /\ At(Refused) \subseteq {w}
      /\ w \in At(Undecided) <=> pc[w] \in Undecided
      /\ w \in At(Refused) <=> pc[w] \in Refused
  BY DEF IInv, Roles, Undecided, Refused, PushSteps, At
<1>2. /\ Cardinality(At(Undecided)) = IF pc[w] \in Undecided THEN 1 ELSE 0
      /\ Cardinality(At(Refused)) = IF pc[w] \in Refused THEN 1 ELSE 0
  BY <1>1, OneAtMost
<1> QED BY <1>2 DEF Offers, Losses, Undecided, Refused

LEMMA MappedCountersNext ==
  ASSUME NEW w, NEW r, w \in Threads, IInv(w, r)'
  PROVE  /\ (offered - Cardinality(At(PushSteps \ {"push_drop"})))' = Offers(w)'
         /\ (overflow_count + Cardinality(At({"push_drop", "push_count"})))' = Losses(w)'
<1>1. /\ At(Undecided)' \subseteq {w} /\ At(Refused)' \subseteq {w}
      /\ w \in At(Undecided)' <=> pc'[w] \in Undecided
      /\ w \in At(Refused)' <=> pc'[w] \in Refused
  BY DEF IInv, Roles, Undecided, Refused, PushSteps, At
<1>2. /\ Cardinality(At(Undecided)') = IF pc'[w] \in Undecided THEN 1 ELSE 0
      /\ Cardinality(At(Refused)') = IF pc'[w] \in Refused THEN 1 ELSE 0
  BY <1>1, OneAtMost
<1> QED BY <1>2 DEF Offers, Losses, Undecided, Refused

(* The queue is what was accepted and not delivered, before a step ...     *)
LEMMA MappedQueue ==
  ASSUME NEW w, NEW r, IInv(w, r)
  PROVE  Held = SubSeq(accepted, tail + 1, head)
BY WindowIsSubSeq DEF IInv, TypeOK, Window, Contents, Held

(* ... and after it. *)
LEMMA MappedQueueNext ==
  ASSUME NEW w, NEW r, IInv(w, r)'
  PROVE  Held' = SubSeq(accepted', tail' + 1, head')
BY WindowIsSubSeq DEF IInv, TypeOK, Window, Contents, Held

(* The part of a sequence after position t, as a queue.                    *)
LEMMA RestOfSeq ==
  ASSUME NEW S, NEW a \in Seq(S), NEW t \in 0 .. Len(a)
  PROVE  /\ SubSeq(a, t + 1, Len(a)) \in Seq(S)
         /\ Len(SubSeq(a, t + 1, Len(a))) = Len(a) - t
         /\ \A i \in 1 .. Len(a) - t : SubSeq(a, t + 1, Len(a))[i] = a[t + i]
<1>1. Len(a) \in Nat /\ \A i \in t + 1 .. Len(a) : a[i] \in S
  BY LenProperties, ElementOfSeq
<1> QED BY <1>1, SubSeqProperties

LEMMA GrowRest ==
  ASSUME NEW S, NEW a \in Seq(S), NEW t \in 0 .. Len(a), NEW e \in S
  PROVE  SubSeq(Append(a, e), t + 1, Len(a) + 1)
           = Append(SubSeq(a, t + 1, Len(a)), e)
<1> DEFINE b == Append(a, e)
           p == SubSeq(b, t + 1, Len(b))
           q == SubSeq(a, t + 1, Len(a))
<1>1. /\ b \in Seq(S)
      /\ Len(b) = Len(a) + 1
      /\ \A i \in 1 .. Len(a) : b[i] = a[i]
      /\ b[Len(a) + 1] = e
      /\ Len(a) \in Nat
  BY AppendFacts, LenProperties
<1> HIDE DEF b
<1>2. /\ p \in Seq(S)
      /\ Len(p) = Len(b) - t
      /\ \A i \in 1 .. Len(b) - t : p[i] = b[t + i]
  BY <1>1, RestOfSeq
<1>3. /\ q \in Seq(S)
      /\ Len(q) = Len(a) - t
      /\ \A i \in 1 .. Len(a) - t : q[i] = a[t + i]
  BY RestOfSeq
<1> HIDE DEF p, q
<1>4. /\ Append(q, e) \in Seq(S)
      /\ Len(Append(q, e)) = Len(q) + 1
      /\ \A i \in 1 .. Len(q) : Append(q, e)[i] = q[i]
      /\ Append(q, e)[Len(q) + 1] = e
  BY <1>3, AppendFacts
<1>5. \A i \in 1 .. Len(p) : p[i] = Append(q, e)[i]
  <2> SUFFICES ASSUME NEW i \in 1 .. Len(p) PROVE p[i] = Append(q, e)[i]
    OBVIOUS
  <2>1. CASE i <= Len(q)
    BY <1>1, <1>2, <1>3, <1>4, <2>1
  <2>2. CASE i = Len(q) + 1
    <3>1. t + i = Len(a) + 1
      BY <1>1, <1>3, <2>2
    <3>2. p[i] = e
      BY <1>1, <1>2, <3>1
    <3> QED BY <1>4, <2>2, <3>2
  <2> QED BY <1>1, <1>2, <1>3, <2>1, <2>2
<1>6. Len(p) = Len(Append(q, e))
  BY <1>1, <1>2, <1>3, <1>4
<1>7. p = Append(q, e)
  <2> DEFINE a1 == Append(q, e)
  <2>1. p \in Seq(S) /\ a1 \in Seq(S) /\ Len(p) = Len(a1) /\ \A i \in 1 .. Len(p) : p[i] = a1[i]
    BY <1>2, <1>4, <1>5, <1>6
  <2> HIDE DEF a1
  <2>2. p = a1
    BY <2>1, SeqEqual
  <2> QED BY <2>2 DEF a1
<1> QED BY <1>1, <1>7 DEF p, q, b

LEMMA ShrinkRest ==
  ASSUME NEW S, NEW a \in Seq(S), NEW t \in Nat, t < Len(a)
  PROVE  /\ SubSeq(a, t + 1, Len(a)) # <<>>
         /\ Head(SubSeq(a, t + 1, Len(a))) = a[t + 1]
         /\ Tail(SubSeq(a, t + 1, Len(a))) = SubSeq(a, t + 2, Len(a))
<1>1. Len(a) \in Nat
  BY LenProperties
<1>2. t + 1 \in 1 .. Len(a) /\ Len(a) \in t + 1 .. Len(a) /\ t \in 0 .. Len(a)
  BY <1>1
<1>3. Len(SubSeq(a, t + 1, Len(a))) # 0
  BY <1>1, <1>2, RestOfSeq
<1>4. SubSeq(a, t + 1, Len(a)) # <<>>
  BY <1>3, EmptySeq
<1>5. (t + 1) + 1 = t + 2
  OBVIOUS
<1> QED BY <1>2, <1>4, <1>5, HeadTailOfSubSeq

-----------------------------------------------------------------------------
LEMMA RefinementInit ==
  ASSUME NEW w \in Threads, NEW r \in Threads, Init
  PROVE  Queue!Init
<1>1. IInv(w, r)
  BY InductiveInit
<1>2. Offers(w) = 0 /\ Losses(w) = 0
  <2>1. pc[w] = "idle" /\ offered = 0 /\ overflow_count = 0
    BY DEF Init
  <2>2. pc[w] \notin Undecided /\ pc[w] \notin Refused
    BY <2>1 DEF Undecided, Refused, PushSteps
  <2>3. Offers(w) = offered - 0 /\ Losses(w) = overflow_count + 0
    BY <2>2 DEF Offers, Losses
  <2> QED BY <2>1, <2>3
<1>3. Held = <<>>
  BY DEF Init, Held
<1> QED BY <1>1, <1>2, <1>3, MappedCounters DEF Queue!Init, Init

(* What a step does to the mapped variables. *)
LEMMA RefinementStep ==
  ASSUME NEW w, NEW r, OnlyProducer(w, r), IInv(w, r), IInv(w, r)', [Next]_vars
  PROVE  [Queue!Next]_(Queue!queueVars)
<1> DEFINE off == Offers(w)
           los == Losses(w)
<1>1. w \in Threads /\ r \in Threads /\ Policy = "kDrop"
  BY DEF OnlyProducer, Threads
<1>2. TypeOK /\ Window
  BY DEF IInv
<1>3. Held = SubSeq(accepted, tail + 1, head)
  BY MappedQueue
<1>4. Held' = SubSeq(accepted', tail' + 1, head')
  BY MappedQueueNext
<1>5. Held \in Seq(Value) /\ Len(Held) = head - tail
  BY <1>2, <1>3, RestOfSeq DEF TypeOK, Window
<1>10. head < Word
  BY HeadBelowWord
<1> HIDE DEF off, los
<1>6. ASSUME off' = off, los' = los, UNCHANGED <<Held, delivered>>
      PROVE  UNCHANGED Queue!queueVars
  BY <1>1, <1>6, MappedCounters, MappedCountersNext DEF Queue!queueVars, off, los
<1>7. ASSUME UNCHANGED <<accepted, tail, head>> PROVE Held' = Held
  BY <1>3, <1>4, <1>7
<1> USE DEF shared, locals, history, Goto
<1>8. CASE UNCHANGED vars
  BY <1>6, <1>7, <1>8 DEF vars, off, los, Offers, Losses
<1>9. ASSUME NEW t \in Threads, ThreadNext(t)
      PROVE  Queue!Next \/ UNCHANGED Queue!queueVars
  <2> USE <1>1, <1>2 DEF TypeOK, off, los, Offers, Losses, Undecided, Refused, PushSteps
  <2>1. CASE PushLoadHead(t)
    <3>1. t = w
      BY <2>1 DEF OnlyProducer
    <3> QED BY <1>6, <1>7, <2>1, <3>1 DEF PushLoadHead
  <2>2. CASE PushLoadTail(t)
    <3>1. t = w
      BY <2>2 DEF PushLoadTail, IInv, Roles
    <3>2. CASE ~IsFull(lhead[t], tail)
      BY <1>6, <1>7, <2>2, <3>1, <3>2 DEF PushLoadTail, AfterTailLoad
    <3>3. CASE IsFull(lhead[t], tail)
      <4>1. off' = off + 1 /\ los' = los + 1 /\ UNCHANGED <<Held, delivered>>
        BY <1>7, <2>2, <3>1, <3>3 DEF PushLoadTail, AfterTailLoad
      <4>2. Len(Held) = Capacity
        <5>1. lhead[t] = head /\ WordSub(head, tail) = head - tail
          BY <1>10, <2>2, <3>1, WordSubFacts
          DEF PushLoadTail, IInv, Producing, Window
        <5> QED
          BY <1>5, <3>3, <5>1, RingAssumption DEF IsFull, Window
      <4> QED
        BY <4>1, <4>2, MappedCounters, MappedCountersNext
        DEF Queue!Next, Queue!RejectNewest, Queue!Full
    <3> QED BY <3>2, <3>3
  <2>3. CASE PushDrop(t)
    BY <1>6, <1>7, <2>3 DEF PushDrop, IInv, Roles
  <2>4. CASE PushWrite(t)
    BY <1>6, <1>7, <2>4 DEF PushWrite
  <2>5. CASE PushCopy(t)
    BY <1>6, <1>7, <2>5 DEF PushCopy
  <2>6. CASE PushPublish(t)
    <3>1. t = w /\ lhead[t] = head /\ item[t] = offered /\ head - tail < Capacity
      BY <2>6, RingAssumption
      DEF PushPublish, IInv, Roles, Producing, Accounts, Window
    <3>2. off' = off + 1 /\ los' = los /\ off' = item[t]
      BY <2>6, <3>1 DEF PushPublish
    <3>3. Held' = Append(Held, item[t])
      <4>1. /\ accepted' = Append(accepted, item[t])
            /\ tail' = tail /\ head' = Len(accepted) + 1
            /\ tail \in 0 .. Len(accepted) /\ item[t] \in Value
            /\ head = Len(accepted) /\ accepted \in Seq(Value)
        BY <2>6, <3>1 DEF PushPublish, Window
      <4>2. Held' = SubSeq(Append(accepted, item[t]), tail + 1, Len(accepted) + 1)
        BY <1>4, <4>1
      <4>3. Held = SubSeq(accepted, tail + 1, Len(accepted))
        BY <1>3, <4>1
      <4> HIDE <1>1, <1>2 DEF TypeOK, PushSteps, Undecided, Refused
      <4>4. SubSeq(Append(accepted, item[t]), tail + 1, Len(accepted) + 1)
              = Append(SubSeq(accepted, tail + 1, Len(accepted)), item[t])
        BY <4>1, GrowRest, Zenon
      <4> QED
        BY <4>2, <4>3, <4>4, Zenon
    <3>4. Len(Held) # Capacity
      BY <1>5, <3>1, RingAssumption
    <3> QED
      BY <2>6, <3>2, <3>3, <3>4, MappedCounters, MappedCountersNext
      DEF Queue!Next, Queue!Accept, Queue!Full, PushPublish
  <2>7. CASE PopLoadTail(t)
    BY <1>6, <1>7, <2>7 DEF PopLoadTail
  <2>8. CASE PopLoadHead(t)
    BY <1>6, <1>7, <2>8 DEF PopLoadHead
  <2>9. CASE PopRead(t)
    BY <1>6, <1>7, <2>9 DEF PopRead
  <2>10. CASE PopPublish(t)
    <3>1. ltail[t] = tail /\ tail < head /\ item[t] = accepted[tail + 1]
      BY <2>10 DEF PopPublish, IInv, Roles, Consuming, PopSteps
    <3>2. off' = off /\ los' = los
      BY <2>10 DEF PopPublish
    <3>3. Held # <<>> /\ Head(Held) = item[t] /\ Held' = Tail(Held)
      <4>1. /\ accepted' = accepted /\ head' = head /\ tail' + 1 = tail + 2
            /\ head = Len(accepted) /\ tail \in Nat /\ tail < Len(accepted)
        BY <2>10, <3>1 DEF PopPublish, Window
      <4>2. Held' = SubSeq(accepted, tail + 2, Len(accepted))
        BY <1>4, <4>1
      <4>3. Held = SubSeq(accepted, tail + 1, Len(accepted))
        BY <1>3, <4>1
      <4>4. accepted \in Seq(Value)
        OBVIOUS
      <4> QED
        BY <3>1, <4>1, <4>2, <4>3, <4>4, ShrinkRest
    <3> QED
      BY <2>10, <3>2, <3>3, MappedCounters, MappedCountersNext
      DEF Queue!Next, Queue!Take, PopPublish
  <2>11. CASE SizeLoadHead(t)
    BY <1>6, <1>7, <2>11 DEF SizeLoadHead
  <2>12. CASE SizeLoadTail(t)
    BY <1>6, <1>7, <2>12 DEF SizeLoadTail
  <2>13. CASE Reset(t)
    <3>1. off' = off /\ los' = 0
      BY <2>13 DEF Reset
    <3>2. Held' = <<>>
      BY <2>13 DEF Reset, Held
    <3> QED
      BY <2>13, <3>1, <3>2, MappedCounters, MappedCountersNext
      DEF Queue!Next, Queue!Clear, Reset
  <2>14. ~PushEvict(t) /\ ~PushCount(t)
    BY DEF IInv, Roles, PushEvict, PushCount
  <2> QED
    BY <1>9, <2>1, <2>2, <2>3, <2>4, <2>5, <2>6, <2>7, <2>8, <2>9, <2>10,
       <2>11, <2>12, <2>13, <2>14 DEF ThreadNext, PushStep, PopStep
<1> QED BY <1>8, <1>9 DEF Next

(* The ring implements the queue it promises.                              *)
THEOREM Refinement ==
  ASSUME NEW w, NEW r, OnePair(w, r)
  PROVE  Spec => ImplementsQueue
<1>1. Init => Queue!Init
  BY RefinementInit DEF OnePair, Threads
<1>2. IInv(w, r) /\ IInv(w, r)' /\ [Next]_vars => [Queue!Next]_(Queue!queueVars)
  <2>1. [Next]_vars => OnlyProducer(w, r)
    BY DEF OnePair, OnlyProducer, PushLoadHead
  <2> QED BY <2>1, RefinementStep
<1> QED BY <1>1, <1>2, Invariance, PTL DEF Spec, ImplementsQueue, Queue!Spec

-----------------------------------------------------------------------------
(***************************************************************************)
(* With one thread and kOverwrite the counters of the queue are            *)
(* base + head events offered and tail - Len(delivered) lost, and the      *)
(* events held follow the number base + tail.  Evicting the oldest event   *)
(* is a step of its own, the store to tail_ in Push.                       *)
(***************************************************************************)

(* A sequence with one more element at the end, one less at the front.     *)
LEMMA OneMore ==
  ASSUME NEW S, NEW f \in Seq(S), NEW g \in Seq(S), Len(g) = Len(f) + 1,
         \A i \in 1 .. Len(f) : g[i] = f[i]
  PROVE  g = Append(f, g[Len(g)])
<1> DEFINE e == g[Len(g)]
           a == Append(f, e)
<1>1. Len(f) \in Nat
  OBVIOUS
<1>2. e \in S
  BY <1>1, ElementOfSeq
<1> HIDE DEF e
<1>3. /\ a \in Seq(S) /\ Len(a) = Len(f) + 1
      /\ \A i \in 1 .. Len(f) : a[i] = f[i]
      /\ a[Len(f) + 1] = e
  BY <1>2, AppendFacts
<1> HIDE DEF a
<1>4. ASSUME NEW i \in 1 .. Len(g) PROVE g[i] = a[i]
  <2>1. CASE i <= Len(f)
    BY <1>1, <1>3, <2>1
  <2>2. CASE i = Len(f) + 1
    BY <1>1, <1>3, <2>2 DEF e
  <2> QED BY <1>1, <2>1, <2>2
<1>5. g = a
  BY <1>3, <1>4, SeqEqual
<1> QED BY <1>5 DEF a, e

LEMMA OneLess ==
  ASSUME NEW S, NEW f \in Seq(S), NEW g \in Seq(S), Len(f) = Len(g) + 1,
         \A i \in 1 .. Len(g) : g[i] = f[i + 1]
  PROVE  f # <<>> /\ Head(f) = f[1] /\ g = Tail(f)
<1> DEFINE a == Tail(f)
<1>1. Len(g) \in Nat /\ f # <<>>
  BY EmptySeq
<1>2. /\ Head(f) = f[1] /\ a \in Seq(S) /\ Len(a) = Len(f) - 1
      /\ \A i \in 1 .. Len(f) - 1 : a[i] = f[i + 1]
  BY <1>1, HeadTailProperties
<1> HIDE DEF a
<1>3. Len(g) = Len(a) /\ \A i \in 1 .. Len(g) : g[i] = a[i]
  BY <1>1, <1>2
<1>4. g = a
  BY <1>2, <1>3, SeqEqual
<1> QED BY <1>1, <1>2, <1>4 DEF a

(* What a function that reads a window of the slots is.                    *)
LEMMA WindowFacts ==
  ASSUME NEW h \in Nat, NEW t \in Nat, t <= h, NEW b \in [Slots -> Value],
         NEW f, f = [i \in 1 .. (h - t) |-> b[Slot(t + i - 1)]]
  PROVE  /\ f \in Seq(Value) /\ Len(f) = h - t
         /\ \A i \in 1 .. (h - t) :
              t + i - 1 \in t .. h - 1 /\ f[i] = b[Slot(t + i - 1)]
<1>1. \A i \in 1 .. (h - t) : t + i - 1 \in t .. h - 1 /\ t + i - 1 \in Nat
  OBVIOUS
<1>2. f \in [1 .. (h - t) -> Value]
  BY <1>1, SlotFacts
<1>3. h - t \in Nat
  OBVIOUS
<1>4. f \in Seq(Value)
  BY <1>2, <1>3, SeqDef
<1>5. Len(f) = h - t
  BY <1>3, <1>4, LenProperties
<1> QED BY <1>1, <1>4, <1>5

(* The mapped variables before a step ...                                  *)
LEMMA AloneMapped ==
  ASSUME NEW w, OneThread(w), AloneInv(w)
  PROVE  /\ offered - Cardinality(At(PushSteps \ {"push_drop"})) = base + head
         /\ overflow_count + Cardinality(At({"push_drop", "push_count"}))
              = overflow_count + Owed(w)
         /\ Held \in Seq(Value) /\ Len(Held) = head - tail
         /\ \A i \in 1 .. head - tail : Held[i] = base + (tail + i - 1) + 1
<1>1. /\ At(PushSteps \ {"push_drop"}) \subseteq {w}
      /\ At({"push_drop", "push_count"}) \subseteq {w}
      /\ w \in At(PushSteps \ {"push_drop"}) <=> pc[w] \in PushSteps
      /\ w \in At({"push_drop", "push_count"}) <=> pc[w] = "push_count"
  BY DEF OneThread, AloneInv, Current, At
<1>2. /\ Cardinality(At(PushSteps \ {"push_drop"})) = Pending(w)
      /\ Cardinality(At({"push_drop", "push_count"})) = Owed(w)
  BY <1>1, OneAtMost DEF Pending, Owed
<1>3. offered - Pending(w) = base + head
  BY DEF AloneInv, TypeOK, Counted, Pending
<1>4. /\ Held \in Seq(Value) /\ Len(Held) = head - tail
      /\ \A i \in 1 .. head - tail :
           /\ tail + i - 1 \in tail .. head - 1
           /\ Held[i] = buffer[Slot(tail + i - 1)]
  BY WindowFacts DEF AloneInv, TypeOK, Newest, Held
<1>5. \A k \in tail .. head - 1 : buffer[Slot(k)] = base + k + 1
  BY Zenon DEF AloneInv, Newest
<1>6. \A i \in 1 .. head - tail : Held[i] = base + (tail + i - 1) + 1
  BY <1>4, <1>5, Zenon
<1> QED BY <1>2, <1>3, <1>4, <1>6

(* ... and after it. *)
LEMMA AloneMappedNext ==
  ASSUME NEW w, OneThread(w), AloneInv(w)'
  PROVE  /\ (offered - Cardinality(At(PushSteps \ {"push_drop"})))' = base' + head'
         /\ (overflow_count + Cardinality(At({"push_drop", "push_count"})))'
              = overflow_count' + Owed(w)'
         /\ Held' \in Seq(Value) /\ Len(Held') = head' - tail'
         /\ \A i \in 1 .. head' - tail' : Held'[i] = base' + (tail' + i - 1) + 1
<1>1. /\ At(PushSteps \ {"push_drop"})' \subseteq {w}
      /\ At({"push_drop", "push_count"})' \subseteq {w}
      /\ w \in At(PushSteps \ {"push_drop"})' <=> pc'[w] \in PushSteps
      /\ w \in At({"push_drop", "push_count"})' <=> pc'[w] = "push_count"
  BY DEF OneThread, AloneInv, Current, At
<1>2. /\ Cardinality(At(PushSteps \ {"push_drop"})') = Pending(w)'
      /\ Cardinality(At({"push_drop", "push_count"})') = Owed(w)'
  BY <1>1, OneAtMost DEF Pending, Owed
<1>3. offered' - Pending(w)' = base' + head'
  <2>1. /\ offered' \in Nat /\ base' \in Nat /\ head' \in Nat
        /\ Pending(w)' \in Nat /\ offered' - base' = head' + Pending(w)'
    BY RingAssumption DEF AloneInv, TypeOK, Counted, Pending
  <2> QED BY <2>1
<1>4. /\ Held' \in Seq(Value) /\ Len(Held') = head' - tail'
      /\ \A i \in 1 .. head' - tail' :
           /\ tail' + i - 1 \in tail' .. head' - 1
           /\ Held'[i] = buffer'[Slot(tail' + i - 1)]
  BY WindowFacts DEF AloneInv, TypeOK, Newest, Held
<1>5. \A k \in tail' .. head' - 1 : buffer'[Slot(k)] = base' + k + 1
  BY Zenon DEF AloneInv, Newest
<1>6. \A i \in 1 .. head' - tail' : Held'[i] = base' + (tail' + i - 1) + 1
  BY <1>4, <1>5, Zenon
<1> QED BY <1>2, <1>3, <1>4, <1>6

LEMMA AloneRefinementInit ==
  ASSUME NEW w, OneThread(w), Init
  PROVE  Queue!Init
<1>1. AloneInv(w)
  BY AloneInit
<1>2. base + head = 0 /\ overflow_count + Owed(w) = 0 /\ Held = <<>>
  BY DEF OneThread, Init, Owed, Held
<1> QED BY <1>1, <1>2, AloneMapped DEF Queue!Init, Init

LEMMA AloneRefinementStep ==
  ASSUME NEW w, OneThread(w), AloneInv(w), AloneInv(w)', [Next]_vars
  PROVE  [Queue!Next]_(Queue!queueVars)
<1> DEFINE los == overflow_count + Owed(w)
<1>1. /\ Current(w) /\ Newest /\ TypeOK
      /\ w \in Threads /\ Policy = "kOverwrite" /\ \A t \in Threads : t = w
  BY DEF AloneInv, OneThread
<1>2. /\ head \in Nat /\ tail \in Nat /\ base \in Nat /\ offered \in Nat
      /\ overflow_count \in Nat /\ Capacity \in Nat \ {0}
      /\ tail <= head /\ head <= tail + Capacity
  BY <1>1, RingAssumption DEF TypeOK, Newest
<1>3. /\ Held \in Seq(Value) /\ Len(Held) = head - tail
      /\ \A i \in 1 .. head - tail : Held[i] = base + (tail + i - 1) + 1
  BY AloneMapped
<1>4. /\ Held' \in Seq(Value) /\ Len(Held') = head' - tail'
      /\ \A i \in 1 .. head' - tail' : Held'[i] = base' + (tail' + i - 1) + 1
  BY AloneMappedNext
<1>5. pc \in [Threads -> {"idle"} \union PushSteps \union PopSteps \union SizeSteps]
  BY <1>1 DEF TypeOK
<1> HIDE DEF los
<1>6. ASSUME UNCHANGED <<base, head, tail, delivered>>, los' = los
      PROVE  UNCHANGED Queue!queueVars
  <2>1. Len(Held') = Len(Held) /\ \A i \in 1 .. Len(Held') : Held'[i] = Held[i]
    BY <1>3, <1>4, <1>6
  <2>2. Held' = Held
    BY <1>3, <1>4, <2>1, SeqEqual
  <2> QED BY <1>6, <2>2, AloneMapped, AloneMappedNext DEF Queue!queueVars, los
<1>7. ASSUME tail < head, tail' = tail + 1, UNCHANGED <<base, head>>
      PROVE  Held # <<>> /\ Head(Held) = base + tail + 1 /\ Held' = Tail(Held)
  <2>1. Len(Held) = Len(Held') + 1
    BY <1>2, <1>3, <1>7, <1>4
  <2>2. \A i \in 1 .. Len(Held') : Held'[i] = Held[i + 1]
    BY <1>2, <1>3, <1>7, <1>4
  <2>3. Held[1] = base + tail + 1
    BY <1>2, <1>3, <1>7
  <2> QED BY <1>3, <1>4, <2>1, <2>2, <2>3, OneLess
<1> USE DEF shared, locals, history, Goto, los, Owed
<1>8. CASE UNCHANGED vars
  BY <1>6, <1>8 DEF vars
<1>9. ASSUME NEW t \in Threads, ThreadNext(t)
      PROVE  Queue!Next \/ UNCHANGED Queue!queueVars
  <2>0. t = w
    BY <1>1
  <2> USE <1>1, <1>5
  <2>1. CASE PushLoadHead(w) \/ PushLoadTail(w)
    BY <1>6, <2>1 DEF PushLoadHead, PushLoadTail, AfterTailLoad, PushSteps
  <2>2. CASE PushEvict(w)
    <3>1. /\ tail' = tail + 1 /\ head = tail + Capacity
          /\ UNCHANGED <<base, head, delivered>>
          /\ los' = los + 1
      BY <1>2, <2>2 DEF PushEvict, Current
    <3>2. Held' = Tail(Held) /\ Len(Held) = Capacity
      BY <1>2, <1>3, <1>7, <3>1
    <3> QED
      BY <3>1, <3>2, AloneMapped, AloneMappedNext
      DEF Queue!Next, Queue!EvictOldest, Queue!Full
  <2>3. CASE PushCount(w)
    BY <1>2, <1>6, <2>3 DEF PushCount
  <2>4. CASE PushWrite(w) \/ PushCopy(w)
    BY <1>6, <2>4 DEF PushWrite, PushCopy
  <2>5. CASE PushPublish(w)
    <3>1. /\ head' = head + 1 /\ head < tail + Capacity
          /\ UNCHANGED <<base, tail, delivered>> /\ los' = los
      BY <2>5 DEF PushPublish, Current, PushSteps
    <3>2. Held' = Append(Held, base + head + 1)
      <4>1. Len(Held') = Len(Held) + 1
        BY <1>2, <1>3, <1>4, <3>1
      <4>2. \A i \in 1 .. Len(Held) : Held'[i] = Held[i]
        BY <1>2, <1>3, <1>4, <3>1
      <4>3. Held'[Len(Held')] = base + head + 1
        BY <1>2, <1>3, <1>4, <3>1, <4>1
      <4> QED BY <1>3, <1>4, <4>1, <4>2, <4>3, OneMore
    <3>3. base' + head' = base + head + 1 /\ Len(Held) # Capacity
      BY <1>2, <1>3, <3>1
    <3> QED
      BY <3>1, <3>2, <3>3, AloneMapped, AloneMappedNext
      DEF Queue!Next, Queue!Accept, Queue!Full
  <2>6. CASE PopLoadTail(w) \/ PopLoadHead(w) \/ PopRead(w)
    BY <1>6, <2>6 DEF PopLoadTail, PopLoadHead, PopRead
  <2>7. CASE PopPublish(w)
    <3>1. /\ tail' = tail + 1 /\ tail < head /\ item[w] = base + tail + 1
          /\ delivered' = Append(delivered, item[w])
          /\ UNCHANGED <<base, head>> /\ los' = los
      BY <2>7 DEF PopPublish, Current, PopSteps
    <3>2. Held # <<>> /\ Head(Held) = item[w] /\ Held' = Tail(Held)
      BY <1>7, <3>1
    <3> QED
      BY <3>1, <3>2, AloneMapped, AloneMappedNext DEF Queue!Next, Queue!Take
  <2>8. CASE SizeLoadHead(w) \/ SizeLoadTail(w)
    BY <1>6, <2>8 DEF SizeLoadHead, SizeLoadTail
  <2>9. CASE Reset(w)
    <3>1. /\ base' = offered /\ head' = 0 /\ tail' = 0 /\ delivered' = <<>>
          /\ los' = 0 /\ offered = base + head
      BY <1>2, <2>9 DEF Reset, AloneInv, Counted, Pending, PushSteps
    <3>2. Held' = <<>>
      BY <3>1 DEF Held
    <3>3. base' + head' = base + head
      BY <1>2, <3>1
    <3> HIDE <1>1, <1>5, <2>9
    <3> QED
      BY <3>1, <3>2, <3>3, AloneMapped, AloneMappedNext
      DEF Queue!Next, Queue!Clear
  <2>10. ~PushDrop(w)
    BY DEF PushDrop, Current
  <2> QED
    BY <1>9, <2>0, <2>1, <2>2, <2>3, <2>4, <2>5, <2>6, <2>7, <2>8, <2>9, <2>10
    DEF ThreadNext, PushStep, PopStep
<1> QED BY <1>8, <1>9 DEF Next

(* The ring implements the queue that evicts the oldest event.             *)
THEOREM OverwriteRefinement ==
  ASSUME NEW w, OneThread(w)
  PROVE  Spec => ImplementsQueue
BY AloneRefinementInit, AloneRefinementStep, AloneInvariance, PTL
DEF Spec, ImplementsQueue, Queue!Spec
=============================================================================
