----------------------------- MODULE RingBuffer -----------------------------
(***************************************************************************)
(* RingBuffer<T> of include/rtdiag/ring_buffer.h, used by its most general *)
(* client: at any time a thread may call any operation it is entitled to   *)
(* (Writers call Push, Readers call Pop, Observers call Size, Resetters    *)
(* call Reset).  One action is one access to an atomic or to a slot, so    *)
(* that every interleaving of two calls is explored.  A slot is written in *)
(* two steps and holds Torn in between: a reader that overlaps a writer,   *)
(* which is undefined behaviour in the code, obtains an arbitrary value.   *)
(*                                                                         *)
(* head and tail are uint64_t counters; their difference is computed       *)
(* modulo Word (2^64 in the code).  MaxPush, the bound on the number of    *)
(* Push calls, is below Word: the counters themselves never wrap.          *)
(***************************************************************************)
EXTENDS Integers, Sequences, FiniteSets

CONSTANTS
  Writers,   \* threads that call Push
  Readers,   \* threads that call Pop
  Observers, \* threads that call Size
  Resetters, \* threads that call Reset
  Capacity,  \* mask_ + 1
  Policy,    \* policy_
  MaxPush,   \* bound on the number of Push calls
  Word       \* the modulus of uint64_t arithmetic

ASSUME RingAssumption ==
  /\ Capacity \in Nat \ {0}
  /\ Policy \in {"kDrop", "kOverwrite"}
  /\ MaxPush \in Nat
  /\ Word \in Nat
  /\ MaxPush < Word

Threads == Writers \union Readers \union Observers \union Resetters

VARIABLES
  head,           \* head_
  tail,           \* tail_
  overflow_count, \* overflow_count_
  buffer,         \* buffer_
  pc,             \* where each thread is inside a call
  lhead,          \* the local "head" of the call a thread is in
  ltail,          \* the local "tail" of the call a thread is in
  item,           \* the element a thread pushes or has popped
  size,           \* what the last Size call of a thread returned
  offered,        \* history: Push calls so far; the k-th event pushed is k
  base,           \* history: the value of offered at the last Reset
  accepted,       \* history: the events Push published since the last Reset
  delivered       \* history: the events Pop returned since the last Reset

shared == <<head, tail, overflow_count, buffer>>
locals == <<pc, lhead, ltail, item, size>>
history == <<offered, base, accepted, delivered>>
vars == <<head, tail, overflow_count, buffer, pc, lhead, ltail, item, size,
          offered, base, accepted, delivered>>

NoEvent == 0   \* a value-initialised element
Torn    == -1  \* a slot whose copy is in progress
Value   == Nat \union {Torn}

-----------------------------------------------------------------------------
PushSteps == {"push_tail", "push_drop", "push_evict", "push_count",
              "push_write", "push_copy", "push_publish"}
PopSteps  == {"pop_head", "pop_read", "pop_publish"}
SizeSteps == {"size_tail"}

Slots   == 0 .. Capacity - 1
Slot(n) == n % Capacity             \* n & mask_
WordSub(a, b) == (a - b) % Word     \* unsigned subtraction
(* Bugs a careless edit could introduce are kept beside the definitions    *)
(* they would spoil, named for the mistake; no specification uses them.    *)
IsFullLate(h, t) == WordSub(h, t) > Capacity
IsEmptyLate(h, t) == t > h
IsEmptyEarly(h, t) == t + 1 >= h
IsFull(h, t)  == WordSub(h, t) > Capacity - 1
IsEmpty(h, t) == t >= h

Init ==
  /\ head = 0
  /\ tail = 0
  /\ overflow_count = 0
  /\ buffer = [s \in Slots |-> NoEvent]
  /\ pc = [t \in Threads |-> "idle"]
  /\ lhead = [t \in Threads |-> 0]
  /\ ltail = [t \in Threads |-> 0]
  /\ item = [t \in Threads |-> NoEvent]
  /\ size = [t \in Threads |-> 0]
  /\ offered = 0
  /\ base = 0
  /\ accepted = <<>>
  /\ delivered = <<>>

Goto(t, from, to) == pc[t] = from /\ pc' = [pc EXCEPT ![t] = to]

-----------------------------------------------------------------------------
(* bool Push(const T& item) *)

PushLoadHead(t) ==
  /\ t \in Writers
  /\ offered < MaxPush
  /\ Goto(t, "idle", "push_tail")
  /\ offered' = offered + 1
  /\ item' = [item EXCEPT ![t] = offered + 1]
  /\ lhead' = [lhead EXCEPT ![t] = head]
  /\ UNCHANGED <<shared, ltail, size, base, accepted, delivered>>

(* Where Push continues once it has loaded t0 from tail_. *)
AfterTailLoadSwapped(h, t0) ==
  IF ~IsFull(h, t0) THEN "push_write"
  ELSE IF Policy = "kDrop" THEN "push_evict" ELSE "push_drop"
AfterTailLoad(h, t0) ==
  IF ~IsFull(h, t0) THEN "push_write"
  ELSE IF Policy = "kDrop" THEN "push_drop" ELSE "push_evict"

PushLoadTail(t) ==
  /\ Goto(t, "push_tail", AfterTailLoad(lhead[t], tail))
  /\ ltail' = [ltail EXCEPT ![t] = tail]
  /\ UNCHANGED <<shared, lhead, item, size, history>>

PushDropUncounted(t) ==
  /\ Goto(t, "push_drop", "idle")
  /\ UNCHANGED <<shared, lhead, ltail, item, size, history>>

(* kDrop: count the event and return false. *)
PushDrop(t) ==
  /\ Goto(t, "push_drop", "idle")
  /\ overflow_count' = overflow_count + 1
  /\ UNCHANGED <<head, tail, buffer, lhead, ltail, item, size, history>>

PushEvictTwo(t) ==
  /\ Goto(t, "push_evict", "push_count")
  /\ tail' = ltail[t] + 2
  /\ UNCHANGED <<head, overflow_count, buffer, lhead, ltail, item, size, history>>

PushEvictNothing(t) ==
  /\ Goto(t, "push_evict", "push_count")
  /\ UNCHANGED <<shared, lhead, ltail, item, size, history>>

(* kOverwrite: store the advanced tail, ... *)
PushEvict(t) ==
  /\ Goto(t, "push_evict", "push_count")
  /\ tail' = ltail[t] + 1
  /\ UNCHANGED <<head, overflow_count, buffer, lhead, ltail, item, size, history>>

(* ... then count the evicted event. *)
PushCount(t) ==
  /\ Goto(t, "push_count", "push_write")
  /\ overflow_count' = overflow_count + 1
  /\ UNCHANGED <<head, tail, buffer, lhead, ltail, item, size, history>>

PushWrite(t) ==
  /\ Goto(t, "push_write", "push_copy")
  /\ buffer' = [buffer EXCEPT ![Slot(lhead[t])] = Torn]
  /\ UNCHANGED <<head, tail, overflow_count, lhead, ltail, item, size, history>>

PushCopy(t) ==
  /\ Goto(t, "push_copy", "push_publish")
  /\ buffer' = [buffer EXCEPT ![Slot(lhead[t])] = item[t]]
  /\ UNCHANGED <<head, tail, overflow_count, lhead, ltail, item, size, history>>

PushPublish(t) ==
  /\ Goto(t, "push_publish", "idle")
  /\ head' = lhead[t] + 1
  /\ accepted' = Append(accepted, item[t])
  /\ UNCHANGED <<tail, overflow_count, buffer, lhead, ltail, item, size,
                 offered, base, delivered>>

-----------------------------------------------------------------------------
(* bool Pop(T& item) *)

PopLoadTail(t) ==
  /\ t \in Readers
  /\ Goto(t, "idle", "pop_head")
  /\ ltail' = [ltail EXCEPT ![t] = tail]
  /\ UNCHANGED <<shared, lhead, item, size, history>>

PopLoadHead(t) ==
  /\ Goto(t, "pop_head", IF IsEmpty(head, ltail[t]) THEN "idle" ELSE "pop_read")
  /\ lhead' = [lhead EXCEPT ![t] = head]
  /\ UNCHANGED <<shared, ltail, item, size, history>>

PopRead(t) ==
  /\ Goto(t, "pop_read", "pop_publish")
  /\ item' = [item EXCEPT ![t] = buffer[Slot(ltail[t])]]
  /\ UNCHANGED <<shared, lhead, ltail, size, history>>

PopPublish(t) ==
  /\ Goto(t, "pop_publish", "idle")
  /\ tail' = ltail[t] + 1
  /\ delivered' = Append(delivered, item[t])
  /\ UNCHANGED <<head, overflow_count, buffer, lhead, ltail, item, size,
                 offered, base, accepted>>

-----------------------------------------------------------------------------
(* size_t Size() const, which Empty() and Full() compare with 0 and mask_ *)

SizeLoadHead(t) ==
  /\ t \in Observers
  /\ Goto(t, "idle", "size_tail")
  /\ lhead' = [lhead EXCEPT ![t] = head]
  /\ UNCHANGED <<shared, ltail, item, size, history>>

SizeSwapped(t) ==
  /\ Goto(t, "size_tail", "idle")
  /\ size' = [size EXCEPT ![t] = tail - lhead[t]]
  /\ UNCHANGED <<shared, lhead, ltail, item, history>>

SizeLoadTail(t) ==
  /\ Goto(t, "size_tail", "idle")
  /\ size' = [size EXCEPT ![t] = WordSub(lhead[t], tail)]
  /\ UNCHANGED <<shared, lhead, ltail, item, history>>

ResetKeepsCount(t) ==
  /\ t \in Resetters
  /\ \A u \in Threads : pc[u] = "idle"
  /\ head' = 0
  /\ tail' = 0
  /\ base' = offered
  /\ accepted' = <<>>
  /\ delivered' = <<>>
  /\ UNCHANGED <<overflow_count, buffer, locals, offered>>

(* void Reset(), "call only when idle": no thread is inside a call.  The   *)
(* slots keep their elements.                                              *)
Reset(t) ==
  /\ t \in Resetters
  /\ \A u \in Threads : pc[u] = "idle"
  /\ head' = 0
  /\ tail' = 0
  /\ overflow_count' = 0
  /\ base' = offered
  /\ accepted' = <<>>
  /\ delivered' = <<>>
  /\ UNCHANGED <<buffer, locals, offered>>

-----------------------------------------------------------------------------
PushStep(t) ==
  \/ PushLoadTail(t) \/ PushDrop(t) \/ PushEvict(t) \/ PushCount(t)
  \/ PushWrite(t) \/ PushCopy(t) \/ PushPublish(t)
PopStep(t) == PopLoadHead(t) \/ PopRead(t) \/ PopPublish(t)

ThreadNext(t) ==
  \/ PushLoadHead(t) \/ PushStep(t)
  \/ PopLoadTail(t) \/ PopStep(t)
  \/ SizeLoadHead(t) \/ SizeLoadTail(t)
  \/ Reset(t)

Next == \E t \in Threads : ThreadNext(t)

Spec == Init /\ [][Next]_vars

(* Every operation is wait-free: a thread that has entered a call is never *)
(* blocked and finishes it.  A consumer calls Pop again and again, possibly *)
(* looking at Empty() in between, as the loops of the concurrency test and *)
(* of the throughput benchmark do.  Nothing makes a producer push.         *)
Fairness ==
  \A t \in Threads :
    /\ WF_vars(PushStep(t))
    /\ SF_vars(PopLoadTail(t))
    /\ WF_vars(PopStep(t))
    /\ WF_vars(SizeLoadTail(t))

FairSpec == Spec /\ Fairness

-----------------------------------------------------------------------------
(* The elements the ring holds, oldest first. *)
Held == [i \in 1 .. (head - tail) |-> buffer[Slot(tail + i - 1)]]

Idle == \A t \in Threads : pc[t] = "idle"

At(steps) == {t \in Threads : pc[t] \in steps}

Events(s) == {s[i] : i \in 1 .. Len(s)}

(* The slots a thread is reading or writing. *)
Writing(t) == IF pc[t] \in {"push_write", "push_copy"} THEN {Slot(lhead[t])} ELSE {}
Reading(t) == IF pc[t] = "pop_read" THEN {Slot(ltail[t])} ELSE {}

(* Every variable keeps its type. *)
TypeOK ==
  /\ head \in Nat
  /\ tail \in Nat
  /\ overflow_count \in Nat
  /\ buffer \in [Slots -> Value]
  /\ pc \in [Threads -> {"idle"} \union PushSteps \union PopSteps \union SizeSteps]
  /\ lhead \in [Threads -> Nat]
  /\ ltail \in [Threads -> Nat]
  /\ item \in [Threads -> Value]
  /\ size \in [Threads -> 0 .. Word - 1]
  /\ offered \in 0 .. MaxPush
  /\ base \in 0 .. offered
  /\ accepted \in Seq(Value)
  /\ delivered \in Seq(Value)

(* A slot is never copied in by one thread while another thread copies it  *)
(* in or out: the promise behind "no locks needed" of the class comment.   *)
NoDataRace ==
  \A t, u \in Threads :
    t # u => Writing(t) \intersect (Writing(u) \union Reading(u)) = {}

(* kDrop: what Pop has returned followed by what the ring holds is exactly *)
(* what Push has accepted: nothing is lost, invented, repeated, reordered  *)
(* or torn, whatever the two threads are in the middle of.                 *)
ExactlyOnce == delivered \o Held = accepted

(* Every event offered since the last Reset was delivered, is held, was    *)
(* counted by OverflowCount(), or belongs to a Push still running (which   *)
(* owes a count if it has just evicted an event).                          *)
LossAccounted ==
  offered - base = Len(delivered) + (head - tail) + overflow_count
                     + Cardinality(At(PushSteps)) + Cardinality(At({"push_count"}))

(* Size() returns a number of elements, never the huge value of a wrapped  *)
(* subtraction, although it loads head_ and tail_ at two different times.  *)
SizeInRange == \A t \in Threads : size[t] <= Capacity

(* Events come out in the order they were offered, none of them twice.     *)
DeliveredInOrder ==
  \A i, j \in 1 .. Len(delivered) : i < j => delivered[i] < delivered[j]

(* kOverwrite, "latest wins": between calls the ring holds the newest      *)
(* events offered, without a gap.                                          *)
LatestWins ==
  Idle /\ Policy = "kOverwrite"
    => Held = [i \in 1 .. (head - tail) |-> offered - (head - tail) + i]

(* No step changes a slot that still holds an undelivered element.         *)
HeldIsStable ==
  [][\A k \in tail' .. head - 1 : buffer'[Slot(k)] = buffer[Slot(k)]]_vars

(* What Push accepted comes out, unless a Reset discards it: a consumer    *)
(* that keeps polling misses nothing.                                      *)
AcceptedIsDelivered ==
  \A k \in 1 .. MaxPush :
    (k \in Events(accepted)) ~> (k \in Events(delivered) \/ base >= k)

(* The queue the ring implements.  A Push that finds the ring full counts  *)
(* as refused at its load of tail_, an accepted one at its store to head_. *)
Queue == INSTANCE EventQueue WITH
  offers <- offered - Cardinality(At(PushSteps \ {"push_drop"})),
  queue <- Held,
  lost <- overflow_count + Cardinality(At({"push_drop", "push_count"}))

(* The ring implements the bounded FIFO queue of EventQueue.               *)
ImplementsQueue == Queue!Spec
=============================================================================
