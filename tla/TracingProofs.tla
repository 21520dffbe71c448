---------------------------- MODULE TracingProofs ----------------------------
(***************************************************************************)
(* Theorems about RingOrders and TraceBuffer for rings of every size, and  *)
(* about EventParser and LiveInversions for every set of lines: with the   *)
(* memory orders of the source there is no data race and the ring is a     *)
(* queue; batches taken out of the ring while a producer pushes never      *)
(* leave out an event that matches the filter; what the parser returns is  *)
(* what the kernel wrote, except for softirqs, and no live trace has an    *)
(* inversion for the detector.                                             *)
(***************************************************************************)
EXTENDS RingOrders, TraceBuffer, LiveInversions, SlotArithmetic,
        WellFoundedInduction

-----------------------------------------------------------------------------
(* RingOrders                                                              *)

(* What a thread has seen of the other's counter, and what it knows of the *)
(* other's accesses since, never runs ahead of what happened.              *)
Seen ==
  /\ tailSeen <= tail /\ tail <= headSeen /\ headSeen <= head
  /\ head <= tailSeen + RingSize
  /\ tailSeen <= readsKnown /\ headSeen <= writesKnown

(* A thread between its loads and its store still has what it tested.      *)
Tested ==
  /\ pushing # "idle" => head < tailSeen + RingSize
  /\ popping # "idle" => tail < headSeen

(* The slots between tail and head hold their events, and the consumer has *)
(* received those before.                                                  *)
Held ==
  /\ \A k \in Nat : tail <= k /\ k < head => slots[k % RingSize] = k + 1
  /\ pushing = "publish" => slots[head % RingSize] = head + 1
  /\ Len(received) = IF popping = "publish" THEN tail + 1 ELSE tail
  /\ \A k \in 1 .. Len(received) : received[k] = k

OrdersInv == OrdersTypeOK /\ Seen /\ Tested /\ Held

-----------------------------------------------------------------------------
(* A load never knows less than before, and with the orders of the source  *)
(* it knows all that precedes the store it reads.                          *)
LEMMA CarriedFacts ==
  ASSUME NEW v \in Nat, NEW known \in Nat
  PROVE  /\ Carried(HeadStore, HeadLoad, v, known) \in Nat
         /\ v <= Carried(HeadStore, HeadLoad, v, known)
         /\ Carried(TailStore, TailLoad, v, known) \in Nat
         /\ v <= Carried(TailStore, TailLoad, v, known)
BY DEF Carried, HeadStore, HeadLoad, TailStore, TailLoad

LEMMA SlotIndex ==
  ASSUME NEW k \in Nat
  PROVE  k % RingSize \in 0 .. RingSize - 1
BY OrdersAssumption DEF OrdersAssumption

LEMMA OrdersInvInit == OrdersInit => OrdersInv
<1> SUFFICES ASSUME OrdersInit PROVE OrdersInv
  OBVIOUS
<1>1. OrdersTypeOK
  BY OrdersAssumption DEF OrdersAssumption, OrdersInit, OrdersTypeOK, NoEvent
<1> QED
  BY <1>1, OrdersAssumption
  DEF OrdersAssumption, OrdersInit, OrdersInv, Seen, Tested, Held

(* The producer's loads and its publication.                               *)
LEMMA PushLoadKeeps ==
  ASSUME OrdersInv, NEW t \in tailSeen .. tail, PushLoad(t)
  PROVE  OrdersInv'
<1> USE OrdersAssumption DEF OrdersAssumption, OrdersInv, consumerVars
<1>1. t \in Nat /\ tailSeen <= t /\ t <= tail
  BY DEF OrdersTypeOK
<1>2. readsKnown' \in Nat /\ t <= readsKnown'
  BY <1>1, CarriedFacts DEF OrdersTypeOK, PushLoad
<1>3. OrdersTypeOK'
  BY <1>1, <1>2 DEF OrdersTypeOK, PushLoad
<1>4. Seen'
  BY <1>1, <1>2 DEF Seen, PushLoad, OrdersTypeOK
<1>5. Tested'
  BY <1>1 DEF Seen, Tested, PushLoad, OrdersTypeOK
<1>6. Held'
  BY DEF Held, PushLoad
<1> QED BY <1>3, <1>4, <1>5, <1>6

(* The write goes to a slot none of the held events is in.                 *)
LEMMA PushWriteKeeps ==
  ASSUME OrdersInv, PushWrite
  PROVE  OrdersInv'
<1> USE OrdersAssumption DEF OrdersAssumption, OrdersInv, consumerVars
<1>1. head \in Nat /\ head % RingSize \in 0 .. RingSize - 1
  BY SlotIndex DEF OrdersTypeOK
<1>2. OrdersTypeOK'
  BY <1>1 DEF OrdersTypeOK, PushWrite
<1>3. Seen' /\ Tested'
  BY DEF Seen, Tested, PushWrite
<1>4. ASSUME NEW k \in Nat, tail <= k, k < head
      PROVE  slots'[k % RingSize] = k + 1
  <2>1. head < k + RingSize
    BY <1>4 DEF Tested, Seen, PushWrite, OrdersTypeOK
  <2>2. k % RingSize # head % RingSize
    BY <1>1, <1>4, <2>1, ModInjective
  <2>3. slots'[k % RingSize] = slots[k % RingSize]
    BY <2>2, SlotIndex DEF PushWrite, OrdersTypeOK
  <2> QED BY <1>4, <2>3 DEF Held
<1>5. slots'[head % RingSize] = head + 1
  BY <1>1 DEF PushWrite, OrdersTypeOK
<1>6. Held'
  BY <1>4, <1>5 DEF Held, PushWrite
<1> QED BY <1>2, <1>3, <1>6

LEMMA PushPublishKeeps ==
  ASSUME OrdersInv, PushPublish
  PROVE  OrdersInv'
<1> USE OrdersAssumption DEF OrdersAssumption, OrdersInv, consumerVars
<1>1. OrdersTypeOK'
  BY DEF OrdersTypeOK, PushPublish
<1>2. Seen' /\ Tested'
  BY DEF Seen, Tested, PushPublish, OrdersTypeOK
<1>3. ASSUME NEW k \in Nat, tail <= k, k < head + 1
      PROVE  slots[k % RingSize] = k + 1
  <2>1. CASE k = head
    BY <2>1 DEF Held, PushPublish
  <2>2. CASE k # head
    <3>1. k < head
      BY <1>3, <2>2 DEF OrdersTypeOK
    <3> QED BY <1>3, <3>1 DEF Held
  <2> QED BY <2>1, <2>2
<1>4. Held'
  BY <1>3 DEF Held, PushPublish
<1> QED BY <1>1, <1>2, <1>4

(* The consumer's loads, its copy out of the slot and its publication.     *)
LEMMA PopLoadKeeps ==
  ASSUME OrdersInv, NEW h \in headSeen .. head, PopLoad(h)
  PROVE  OrdersInv'
<1> USE OrdersAssumption DEF OrdersAssumption, OrdersInv, producerVars
<1>1. h \in Nat /\ headSeen <= h /\ h <= head
  BY DEF OrdersTypeOK
<1>2. writesKnown' \in Nat /\ h <= writesKnown'
  BY <1>1, CarriedFacts DEF OrdersTypeOK, PopLoad
<1>3. OrdersTypeOK'
  BY <1>1, <1>2 DEF OrdersTypeOK, PopLoad
<1>4. Seen' /\ Tested'
  BY <1>1, <1>2 DEF Seen, Tested, PopLoad, OrdersTypeOK
<1>5. Held'
  BY DEF Held, PopLoad
<1> QED BY <1>3, <1>4, <1>5

LEMMA PopReadKeeps ==
  ASSUME OrdersInv, PopRead
  PROVE  OrdersInv'
<1> USE OrdersAssumption DEF OrdersAssumption, OrdersInv, producerVars
<1>1. tail \in Nat /\ tail < writesKnown /\ tail < head
  BY DEF OrdersTypeOK, Seen, Tested, PopRead
<1>2. received' = Append(received, tail + 1)
  <2>1. slots[tail % RingSize] = tail + 1
    BY <1>1 DEF Held
  <2> QED BY <1>1, <2>1 DEF PopRead
<1>3. /\ received' \in Seq(Nat) /\ Len(received') = tail + 1
      /\ \A k \in 1 .. tail : received'[k] = received[k]
      /\ received'[tail + 1] = tail + 1
  BY <1>1, <1>2, AppendFacts DEF OrdersTypeOK, Held, PopRead
<1>4. OrdersTypeOK'
  BY <1>3 DEF OrdersTypeOK, PopRead
<1>5. Seen' /\ Tested'
  BY DEF Seen, Tested, PopRead
<1>6. \A k \in 1 .. Len(received') : received'[k] = k
  <2>1. Len(received) = tail /\ \A k \in 1 .. tail : received[k] = k
    BY DEF Held, PopRead
  <2> QED BY <1>1, <1>3, <2>1
<1>7. Held'
  BY <1>3, <1>6 DEF Held, PopRead
<1> QED BY <1>4, <1>5, <1>7

LEMMA PopPublishKeeps ==
  ASSUME OrdersInv, PopPublish
  PROVE  OrdersInv'
<1> USE OrdersAssumption DEF OrdersAssumption, OrdersInv, producerVars
<1>1. OrdersTypeOK'
  BY DEF OrdersTypeOK, PopPublish
<1>2. Seen' /\ Tested'
  BY DEF Seen, Tested, PopPublish, OrdersTypeOK
<1>3. \A k \in Nat : tail' <= k => tail <= k
  BY DEF PopPublish, OrdersTypeOK
<1>4. Held'
  BY <1>3 DEF Held, PopPublish
<1> QED BY <1>1, <1>2, <1>4

LEMMA OrdersInvAlways == OrdersSpec => []OrdersInv
<1>1. OrdersInv /\ [OrdersNext]_ordersVars => OrdersInv'
  <2> SUFFICES ASSUME OrdersInv, [OrdersNext]_ordersVars PROVE OrdersInv'
    OBVIOUS
  <2>1. CASE UNCHANGED ordersVars
    BY <2>1 DEF ordersVars, OrdersInv, OrdersTypeOK, Seen, Tested, Held
  <2>2. CASE OrdersNext
    BY <2>2, PushLoadKeeps, PushWriteKeeps, PushPublishKeeps,
       PopLoadKeeps, PopReadKeeps, PopPublishKeeps DEF OrdersNext
  <2> QED BY <2>1, <2>2
<1> QED BY <1>1, OrdersInvInit, PTL DEF OrdersSpec

-----------------------------------------------------------------------------
(* The types of the counters, the program counters and the histories.      *)
THEOREM OrdersTypeCorrect == OrdersSpec => []OrdersTypeOK
<1>1. OrdersInv => OrdersTypeOK
  BY DEF OrdersInv
<1> QED BY <1>1, OrdersInvAlways, PTL

(* The release stores and acquire loads of the source order every copy     *)
(* into a slot and every copy out of it, in a ring of any size.            *)
THEOREM OrdersSufficeAlways == OrdersSpec => []OrdersSuffice
<1>1. OrdersInv => OrdersSuffice
  BY OrdersAssumption
  DEF OrdersAssumption, OrdersInv, OrdersTypeOK, Seen, Tested, OrdersSuffice
<1> QED BY <1>1, OrdersInvAlways, PTL

(* However late stores become visible, events arrive in order, each once   *)
(* and whole.                                                              *)
THEOREM ReceivedInOrderAlways == OrdersSpec => []ReceivedInOrder
<1>1. OrdersInv => ReceivedInOrder
  BY DEF OrdersInv, Held, ReceivedInOrder
<1> QED BY <1>1, OrdersInvAlways, PTL

(* The events numbered from n + 1 to h, as a queue: a new one at the end,  *)
(* the oldest one taken.                                                   *)
Queued(n, h) == [k \in 1 .. h - n |-> n + k]

LEMMA QueuedIs ==
  ASSUME NEW n \in Nat, NEW h \in Nat, n <= h
  PROVE  /\ Queued(n, h) \in Seq(Nat)
         /\ Len(Queued(n, h)) = h - n
         /\ \A k \in 1 .. h - n : Queued(n, h)[k] = n + k
<1>1. h - n \in Nat
  OBVIOUS
<1>2. \A k \in 1 .. h - n : n + k \in Nat
  OBVIOUS
<1>3. Queued(n, h) \in [1 .. h - n -> Nat]
  BY <1>2 DEF Queued
<1>4. Queued(n, h) \in Seq(Nat)
  BY <1>1, <1>3, SeqDef
<1>5. DOMAIN Queued(n, h) = 1 .. h - n
  BY DEF Queued
<1>6. Len(Queued(n, h)) = h - n
  BY <1>1, <1>4, <1>5, LenProperties
<1>7. \A k \in 1 .. h - n : Queued(n, h)[k] = n + k
  BY DEF Queued
<1> QED BY <1>4, <1>6, <1>7

LEMMA QueuedGrows ==
  ASSUME NEW n \in Nat, NEW h \in Nat, n <= h
  PROVE  Queued(n, h + 1) = Append(Queued(n, h), h + 1)
<1> DEFINE p == Queued(n, h)
           q == Append(p, h + 1)
           r == Queued(n, h + 1)
<1>1. /\ p \in Seq(Nat) /\ Len(p) = h - n
      /\ \A k \in 1 .. h - n : p[k] = n + k
  BY QueuedIs
<1>2. /\ r \in Seq(Nat) /\ Len(r) = h + 1 - n
      /\ \A k \in 1 .. h + 1 - n : r[k] = n + k
  <2>1. h + 1 \in Nat /\ n <= h + 1
    OBVIOUS
  <2> QED BY <2>1, QueuedIs
<1> HIDE DEF p, r
<1>3. /\ q \in Seq(Nat) /\ Len(q) = Len(p) + 1
      /\ \A k \in 1 .. Len(p) : q[k] = p[k]
      /\ q[Len(p) + 1] = h + 1
  BY <1>1, AppendFacts
<1> HIDE DEF q
<1>4. Len(r) = Len(q)
  BY <1>1, <1>2, <1>3
<1>5. ASSUME NEW k \in 1 .. Len(r) PROVE r[k] = q[k]
  <2>1. k \in 1 .. h + 1 - n /\ r[k] = n + k
    BY <1>2
  <2>2. CASE k = Len(p) + 1
    BY <1>1, <1>3, <2>1, <2>2
  <2>3. CASE k # Len(p) + 1
    <3>1. k \in 1 .. h - n /\ k \in 1 .. Len(p)
      BY <1>1, <2>1, <2>3
    <3> QED BY <1>1, <1>3, <2>1, <3>1
  <2> QED BY <2>2, <2>3
<1>6. r = q
  BY <1>2, <1>3, <1>4, <1>5, SeqEqual
<1> QED BY <1>6 DEF p, q, r

LEMMA QueuedShrinks ==
  ASSUME NEW n \in Nat, NEW h \in Nat, n < h
  PROVE  /\ Queued(n, h) # <<>>
         /\ Head(Queued(n, h)) = n + 1
         /\ Tail(Queued(n, h)) = Queued(n + 1, h)
<1> DEFINE p == Queued(n, h)
           q == Tail(p)
           r == Queued(n + 1, h)
<1>1. /\ p \in Seq(Nat) /\ Len(p) = h - n
      /\ \A k \in 1 .. h - n : p[k] = n + k
  BY QueuedIs
<1>2. /\ r \in Seq(Nat) /\ Len(r) = h - (n + 1)
      /\ \A k \in 1 .. h - (n + 1) : r[k] = n + 1 + k
  <2>1. n + 1 \in Nat /\ n + 1 <= h
    OBVIOUS
  <2> QED BY <2>1, QueuedIs
<1> HIDE DEF p, r
<1>3. p # <<>>
  BY <1>1, EmptySeq
<1>4. Head(p) = n + 1
  BY <1>1, <1>3, HeadTailProperties
<1>5. /\ q \in Seq(Nat) /\ Len(q) = Len(p) - 1
      /\ \A k \in 1 .. Len(q) : q[k] = p[k + 1]
  BY <1>1, <1>3, HeadTailProperties
<1> HIDE DEF q
<1>6. Len(q) = Len(r)
  BY <1>1, <1>2, <1>5
<1>7. \A k \in 1 .. Len(q) : q[k] = r[k]
  BY <1>1, <1>2, <1>5
<1>8. q = r
  BY <1>2, <1>5, <1>6, <1>7, SeqEqual
<1> QED BY <1>3, <1>4, <1>8 DEF p, q, r

LEMMA FIFOInit == OrdersInit => FIFO!Init
<1> SUFFICES ASSUME OrdersInit PROVE FIFO!Init
  OBVIOUS
<1>1. head = 0 /\ received = <<>> /\ Len(received) = 0
  BY EmptySeq DEF OrdersInit
<1>2. Len(Queued(0, 0)) = 0 /\ Queued(0, 0) \in Seq(Nat)
  BY QueuedIs
<1>3. Queued(Len(received), head) = <<>>
  BY <1>1, <1>2, EmptySeq
<1> QED BY <1>1, <1>3 DEF FIFO!Init, Queued

(* The store to head_ takes an event in, the copy out of a slot hands one  *)
(* on, nothing else changes the queue.                                     *)
LEMMA FIFOStep ==
  ASSUME OrdersInv, [OrdersNext]_ordersVars
  PROVE  [FIFO!Next]_(FIFO!queueVars)
<1> DEFINE n == Len(received)
<1>1. n \in Nat /\ head \in Nat /\ n <= head /\ head - n <= RingSize /\ RingSize \in Nat
  BY OrdersAssumption
  DEF OrdersAssumption, OrdersInv, OrdersTypeOK, Seen, Tested, Held
<1>2. ASSUME UNCHANGED <<head, received>> PROVE UNCHANGED FIFO!queueVars
  BY <1>2 DEF FIFO!queueVars
<1>3. CASE UNCHANGED ordersVars
  BY <1>2, <1>3 DEF ordersVars
<1>4. ASSUME NEW t \in tailSeen .. tail, PushLoad(t) PROVE UNCHANGED FIFO!queueVars
  BY <1>2, <1>4 DEF PushLoad, consumerVars
<1>5. CASE PushWrite
  BY <1>2, <1>5 DEF PushWrite, consumerVars
<1>6. CASE PushPublish
  <2>1. head' = head + 1 /\ received' = received
    BY <1>6 DEF PushPublish, consumerVars
  <2>2. head - n < RingSize
    <3>1. /\ tailSeen \in Nat /\ tail \in Nat /\ tailSeen <= tail
          /\ head < tailSeen + RingSize
      BY <1>6 DEF PushPublish, OrdersInv, OrdersTypeOK, Seen, Tested
    <3>2. tail <= n
      BY <3>1 DEF OrdersInv, Held
    <3> HIDE DEF n
    <3> QED BY <1>1, <3>1, <3>2
  <2>3. Len(Queued(n, head)) = head - n
    BY <1>1, QueuedIs
  <2>4. Queued(n, head + 1) = Append(Queued(n, head), head + 1)
    BY <1>1, QueuedGrows
  <2>5. Len(Queued(n, head)) # RingSize
    BY <1>1, <2>2, <2>3
  <2>6. FIFO!Accept
    BY <2>1, <2>4, <2>5 DEF FIFO!Accept, FIFO!Full, Queued
  <2> QED BY <2>6 DEF FIFO!Next
<1>7. ASSUME NEW h \in headSeen .. head, PopLoad(h) PROVE UNCHANGED FIFO!queueVars
  BY <1>2, <1>7 DEF PopLoad, producerVars
<1>8. CASE PopRead
  <2>1. /\ n = tail /\ n < head /\ tail < writesKnown /\ head' = head
    BY <1>1, <1>8
    DEF PopRead, producerVars, OrdersInv, OrdersTypeOK, Seen, Tested, Held
  <2>2. received' = Append(received, n + 1)
    BY <1>1, <1>8, <2>1 DEF PopRead, OrdersInv, Held
  <2>3. received \in Seq(Nat) /\ n + 1 \in Nat
    BY <1>1 DEF OrdersInv, OrdersTypeOK
  <2>4. Len(received') = n + 1
    BY <2>2, <2>3, AppendFacts
  <2>5. /\ Queued(n, head) # <<>> /\ Head(Queued(n, head)) = n + 1
        /\ Tail(Queued(n, head)) = Queued(n + 1, head)
    BY <1>1, <2>1, QueuedShrinks
  <2>6. FIFO!Take
    BY <2>1, <2>2, <2>4, <2>5 DEF FIFO!Take, Queued
  <2> QED BY <2>6 DEF FIFO!Next
<1>9. CASE PopPublish
  BY <1>2, <1>9 DEF PopPublish, producerVars
<1> QED BY <1>3, <1>4, <1>5, <1>6, <1>7, <1>8, <1>9 DEF OrdersNext

(* With the memory orders of Push and Pop, and however late each thread    *)
(* learns of the other's stores, a ring of any size is one bounded queue.  *)
THEOREM OrdersImplementQueueHolds == OrdersSpec => OrdersImplementQueue
<1>1. OrdersInv /\ [OrdersNext]_ordersVars => [FIFO!Next]_(FIFO!queueVars)
  BY FIFOStep
<1> QED BY <1>1, FIFOInit, OrdersInvAlways, PTL
        DEF OrdersSpec, OrdersImplementQueue, FIFO!Spec

-----------------------------------------------------------------------------
(* TraceBuffer                                                             *)

Rising(s) == \A i, j \in 1 .. Len(s) : i < j => s[i] < s[j]

(* The ring holds the newest of the events offered, in order; what the     *)
(* caller has is older than what the ring still holds.                     *)
RingPart ==
  /\ offers \in 0 .. MaxOffers
  /\ queue \in Seq(Nat) /\ delivered \in Seq(Nat)
  /\ Len(queue) <= Capacity
  /\ Rising(queue)
  /\ \A i \in 1 .. Len(queue) : queue[i] \in 1 .. offers
  /\ \A i \in 1 .. Len(delivered) : delivered[i] <= offers

CallerPart ==
  /\ out \in Seq(Nat)
  /\ Rising(out)
  /\ \A i \in 1 .. Len(out) :
       /\ out[i] <= offers
       /\ \A j \in 1 .. Len(queue) : out[i] < queue[j]
  /\ matching \subseteq 1 .. offers
  /\ Range(out) \cap matching = Range(delivered) \cap matching

CallPart ==
  /\ call \in {"idle", "Drain", "DrainFiltered"}
  /\ max_count \in Nat
  /\ drained \in 0 .. max_count

BufferInv == RingPart /\ CallerPart /\ CallPart

-----------------------------------------------------------------------------
(* What appending an element and taking the first one do to a sequence.    *)
LEMMA Appended ==
  ASSUME NEW s \in Seq(Nat), NEW e \in Nat
  PROVE  /\ Append(s, e) \in Seq(Nat)
         /\ Len(Append(s, e)) = Len(s) + 1 /\ Len(s) \in Nat
         /\ \A i \in 1 .. Len(s) : Append(s, e)[i] = s[i]
         /\ Append(s, e)[Len(s) + 1] = e
         /\ Range(Append(s, e)) = Range(s) \cup {e}
<1> DEFINE a == Append(s, e)
<1>1. /\ a \in Seq(Nat) /\ Len(a) = Len(s) + 1 /\ Len(s) \in Nat
      /\ \A i \in 1 .. Len(s) : a[i] = s[i]
      /\ a[Len(s) + 1] = e
      /\ DOMAIN a = 1 .. Len(a) /\ DOMAIN s = 1 .. Len(s)
  BY AppendProperties, LenProperties
<1> HIDE DEF a
<1>2. Range(a) = Range(s) \cup {e}
  <2>1. ASSUME NEW i \in DOMAIN a PROVE a[i] \in Range(s) \cup {e}
    <3>1. CASE i = Len(s) + 1
      BY <1>1, <3>1
    <3>2. CASE i # Len(s) + 1
      <4>1. i \in 1 .. Len(s)
        BY <1>1, <3>2
      <4> QED BY <1>1, <4>1 DEF Range
    <3> QED BY <3>1, <3>2
  <2>2. ASSUME NEW i \in DOMAIN s PROVE s[i] \in Range(a)
    <3>1. i \in DOMAIN a /\ a[i] = s[i]
      BY <1>1
    <3> QED BY <3>1 DEF Range
  <2>3. e \in Range(a)
    <3>1. Len(s) + 1 \in DOMAIN a
      BY <1>1
    <3> QED BY <1>1, <3>1 DEF Range
  <2>4. Range(a) \subseteq Range(s) \cup {e}
    BY <2>1 DEF Range
  <2>5. Range(s) \subseteq Range(a)
    BY <2>2 DEF Range
  <2> QED BY <2>3, <2>4, <2>5
<1> QED BY <1>1, <1>2 DEF a

LEMMA Taken ==
  ASSUME NEW s \in Seq(Nat), s # <<>>
  PROVE  /\ Tail(s) \in Seq(Nat)
         /\ Len(Tail(s)) = Len(s) - 1 /\ Len(s) \in Nat \ {0}
         /\ \A i \in 1 .. Len(s) - 1 : Tail(s)[i] = s[i + 1]
         /\ Head(s) = s[1] /\ Head(s) \in Nat
<1>1. Len(s) # 0 /\ Len(s) \in Nat
  BY EmptySeq, LenProperties
<1> QED BY <1>1, HeadTailProperties

(* A rising sequence stays one, and keeps its bounds.                      *)
LEMMA RisingAppend ==
  ASSUME NEW s \in Seq(Nat), NEW e \in Nat, Rising(s),
         \A i \in 1 .. Len(s) : s[i] < e
  PROVE  Rising(Append(s, e))
<1> DEFINE a == Append(s, e)
<1>1. /\ Len(a) = Len(s) + 1 /\ Len(s) \in Nat
      /\ \A i \in 1 .. Len(s) : a[i] = s[i]
      /\ a[Len(s) + 1] = e
  BY Appended
<1> HIDE DEF a
<1>2. ASSUME NEW i \in 1 .. Len(a), NEW j \in 1 .. Len(a), i < j PROVE a[i] < a[j]
  <2>1. i \in 1 .. Len(s) /\ a[i] = s[i]
    BY <1>1, <1>2
  <2>2. CASE j = Len(s) + 1
    BY <1>1, <2>1, <2>2
  <2>3. CASE j # Len(s) + 1
    <3>1. j \in 1 .. Len(s) /\ a[j] = s[j]
      BY <1>1, <2>3
    <3> QED BY <1>2, <2>1, <3>1 DEF Rising
  <2> QED BY <2>2, <2>3
<1>3. Rising(a)
  BY <1>2 DEF Rising
<1> QED BY <1>3 DEF a

LEMMA RisingTail ==
  ASSUME NEW s \in Seq(Nat), s # <<>>, Rising(s)
  PROVE  /\ Rising(Tail(s))
         /\ \A j \in 1 .. Len(Tail(s)) : Head(s) < Tail(s)[j]
<1> DEFINE t == Tail(s)
           n == Len(s)
           h == Head(s)
<1>1. /\ n \in Nat \ {0} /\ Len(t) = n - 1
      /\ \A i \in 1 .. n - 1 : t[i] = s[i + 1]
      /\ h = s[1]
      /\ \A i, j \in 1 .. n : i < j => s[i] < s[j]
  BY Taken DEF Rising
<1> HIDE DEF t, n, h
<1>2. ASSUME NEW i \in 1 .. n - 1, NEW j \in 1 .. n - 1, i < j PROVE t[i] < t[j]
  <2>1. i + 1 \in 1 .. n /\ j + 1 \in 1 .. n /\ i + 1 < j + 1
    BY <1>1, <1>2
  <2> QED BY <1>1, <2>1
<1>3. ASSUME NEW j \in 1 .. n - 1 PROVE h < t[j]
  <2>1. 1 \in 1 .. n /\ j + 1 \in 1 .. n /\ 1 < j + 1
    BY <1>1
  <2> QED BY <1>1, <2>1
<1> QED BY <1>1, <1>2, <1>3 DEF Rising, t, h

-----------------------------------------------------------------------------
LEMMA BufferInvInit == BufferInit => BufferInv
BY BufferAssumption DEF BufferInit, Ring!Init, BufferInv, RingPart, CallerPart,
   CallPart, Rising, Range

(* A turn of Drain, or Pop, takes the oldest event: the caller gets it, or *)
(* it does not match the filter.                                           *)
LEMMA TakeKeeps ==
  ASSUME RingPart, CallerPart, Ring!Take, UNCHANGED matching,
         \/ out' = Append(out, Head(queue))
         \/ out' = out /\ Head(queue) \notin matching
  PROVE  RingPart' /\ CallerPart'
<1> DEFINE e == Head(queue)
<1>1. /\ queue \in Seq(Nat) /\ queue # <<>> /\ Rising(queue)
      /\ queue' = Tail(queue) /\ delivered' = Append(delivered, e)
      /\ UNCHANGED <<offers, matching>>
      /\ delivered \in Seq(Nat) /\ out \in Seq(Nat) /\ Rising(out)
      /\ offers \in 0 .. MaxOffers /\ MaxOffers \in Nat /\ Len(queue) <= Capacity
      /\ matching \subseteq 1 .. offers
      /\ Range(out) \cap matching = Range(delivered) \cap matching
  BY BufferAssumption DEF Ring!Take, RingPart, CallerPart
<1>2. /\ \A i \in 1 .. Len(queue) : queue[i] \in 1 .. offers
      /\ \A i \in 1 .. Len(delivered) : delivered[i] <= offers
  BY DEF RingPart
<1>3. \A i \in 1 .. Len(out) :
        out[i] <= offers /\ \A j \in 1 .. Len(queue) : out[i] < queue[j]
  BY DEF CallerPart
<1>4. /\ queue' \in Seq(Nat)
      /\ Len(queue') = Len(queue) - 1 /\ Len(queue) \in Nat \ {0}
      /\ \A i \in 1 .. Len(queue) - 1 : queue'[i] = queue[i + 1]
      /\ e = queue[1] /\ e \in Nat
  BY <1>1, Taken
<1>5. Rising(queue') /\ \A j \in 1 .. Len(queue') : e < queue'[j]
  BY <1>1, RisingTail
<1>6. e \in 1 .. offers /\ \A i \in 1 .. Len(out) : out[i] < e
  <2>1. 1 \in 1 .. Len(queue)
    BY <1>4
  <2> QED BY <1>2, <1>3, <1>4, <2>1
<1> HIDE DEF e
<1>7. RingPart'
  <2>1. /\ delivered' \in Seq(Nat)
        /\ Len(delivered') = Len(delivered) + 1 /\ Len(delivered) \in Nat
        /\ \A i \in 1 .. Len(delivered) : delivered'[i] = delivered[i]
        /\ delivered'[Len(delivered) + 1] = e
    BY <1>1, <1>4, Appended
  <2>2. ASSUME NEW i \in 1 .. Len(queue') PROVE queue'[i] \in 1 .. offers
    <3>1. i \in 1 .. Len(queue) - 1 /\ i + 1 \in 1 .. Len(queue)
      BY <1>4
    <3> QED BY <1>2, <1>4, <3>1
  <2>3. ASSUME NEW i \in 1 .. Len(delivered') PROVE delivered'[i] <= offers
    <3>1. CASE i = Len(delivered) + 1
      BY <1>1, <1>6, <2>1, <3>1
    <3>2. CASE i # Len(delivered) + 1
      <4>1. i \in 1 .. Len(delivered)
        BY <2>1, <3>2
      <4> QED BY <1>2, <2>1, <4>1
    <3> QED BY <3>1, <3>2
  <2>4. Len(queue') <= Capacity
    BY <1>1, <1>4, BufferAssumption
  <2> QED BY <1>1, <1>4, <1>5, <2>1, <2>2, <2>3, <2>4 DEF RingPart
<1>8. ASSUME NEW i \in 1 .. Len(out)
      PROVE  out[i] <= offers /\ \A j \in 1 .. Len(queue') : out[i] < queue'[j]
  <2>1. out[i] <= offers
    BY <1>3
  <2>2. ASSUME NEW j \in 1 .. Len(queue') PROVE out[i] < queue'[j]
    <3>1. j \in 1 .. Len(queue) - 1 /\ j + 1 \in 1 .. Len(queue)
      BY <1>4
    <3>2. queue'[j] = queue[j + 1]
      BY <1>4, <3>1
    <3> QED BY <1>3, <3>1, <3>2
  <2> QED BY <2>1, <2>2
<1>9. Range(delivered') = Range(delivered) \cup {e}
  BY <1>1, <1>4, Appended
<1>10. CASE out' = Append(out, e)
  <2>1. /\ out' \in Seq(Nat)
        /\ Len(out') = Len(out) + 1 /\ Len(out) \in Nat
        /\ \A i \in 1 .. Len(out) : out'[i] = out[i]
        /\ out'[Len(out) + 1] = e
        /\ Range(out') = Range(out) \cup {e}
    BY <1>1, <1>4, <1>10, Appended
  <2>2. Rising(out')
    BY <1>1, <1>4, <1>6, <1>10, RisingAppend
  <2>3. ASSUME NEW i \in 1 .. Len(out')
        PROVE  out'[i] <= offers /\ \A j \in 1 .. Len(queue') : out'[i] < queue'[j]
    <3>1. CASE i = Len(out) + 1
      <4>1. out'[i] = e /\ e <= offers
        BY <1>1, <1>6, <2>1, <3>1
      <4> QED BY <1>5, <4>1
    <3>2. CASE i # Len(out) + 1
      <4>1. i \in 1 .. Len(out) /\ out'[i] = out[i]
        BY <2>1, <3>2
      <4> QED BY <1>8, <4>1
    <3> QED BY <3>1, <3>2
  <2>4. Range(out') \cap matching = Range(delivered') \cap matching
    BY <1>1, <1>9, <2>1
  <2>5. CallerPart'
    BY <1>1, <2>1, <2>2, <2>3, <2>4 DEF CallerPart
  <2> QED BY <1>7, <2>5
<1>11. CASE out' = out /\ e \notin matching
  <2>1. Range(out') \cap matching = Range(delivered') \cap matching
    BY <1>1, <1>9, <1>11
  <2>2. CallerPart'
    BY <1>1, <1>8, <1>11, <2>1 DEF CallerPart
  <2> QED BY <1>7, <2>2
<1> QED BY <1>10, <1>11 DEF e

(* The producer offers an event: a new number, in the ring or refused.     *)
LEMMA OfferKeeps ==
  ASSUME BufferInv, NEW matches \in BOOLEAN, Offer(matches)
  PROVE  BufferInv'
<1>1. /\ offers' = offers + 1 /\ offers' \in 0 .. MaxOffers
      /\ offers \in Nat /\ offers' \in Nat
      /\ UNCHANGED <<delivered, out, call, max_count, drained>>
      /\ matching' \subseteq matching \cup {offers'}
  BY BufferAssumption DEF Offer, Ring!Accept, Ring!RejectNewest, BufferInv, RingPart
<1>2. /\ queue \in Seq(Nat) /\ Len(queue) <= Capacity /\ Rising(queue)
      /\ \A i \in 1 .. Len(queue) : queue[i] \in 1 .. offers
  BY DEF BufferInv, RingPart
<1>3. /\ delivered \in Seq(Nat)
      /\ \A i \in 1 .. Len(delivered) : delivered[i] <= offers
  BY DEF BufferInv, RingPart
<1>4. /\ out \in Seq(Nat) /\ Rising(out)
      /\ \A i \in 1 .. Len(out) :
           out[i] <= offers /\ \A j \in 1 .. Len(queue) : out[i] < queue[j]
  BY DEF BufferInv, CallerPart
<1>5. /\ matching \subseteq 1 .. offers
      /\ Range(out) \cap matching = Range(delivered) \cap matching
  BY DEF BufferInv, CallerPart
<1>6. Range(out) \cap matching' = Range(delivered) \cap matching'
  <2>1. offers' \notin Range(out)
    <3>1. DOMAIN out = 1 .. Len(out) /\ \A i \in 1 .. Len(out) : out[i] \in Nat
      BY <1>4, LenProperties, ElementOfSeq
    <3>2. ASSUME NEW i \in DOMAIN out PROVE out[i] # offers'
      BY <1>1, <1>4, <3>1
    <3> QED BY <3>2 DEF Range
  <2>2. offers' \notin Range(delivered)
    <3>1. DOMAIN delivered = 1 .. Len(delivered)
          /\ \A i \in 1 .. Len(delivered) : delivered[i] \in Nat
      BY <1>3, LenProperties, ElementOfSeq
    <3>2. ASSUME NEW i \in DOMAIN delivered PROVE delivered[i] # offers'
      BY <1>1, <1>3, <3>1
    <3> QED BY <3>2 DEF Range
  <2>3. ASSUME NEW m \in matching' PROVE m \in Range(out) <=> m \in Range(delivered)
    BY <1>1, <1>5, <2>1, <2>2
  <2> QED BY <2>3
<1>7. matching' \subseteq 1 .. offers'
  BY <1>1, <1>5
<1>8. /\ queue' \in Seq(Nat) /\ Len(queue') <= Capacity /\ Rising(queue')
      /\ \A i \in 1 .. Len(queue') : queue'[i] \in 1 .. offers'
      /\ \A i \in 1 .. Len(out) : \A j \in 1 .. Len(queue') : out[i] < queue'[j]
  <2>1. CASE queue' = queue
    BY <1>1, <1>2, <1>4, <2>1
  <2>2. CASE queue' = Append(queue, offers') /\ Len(queue) # Capacity
    <3>1. /\ queue' \in Seq(Nat)
          /\ Len(queue') = Len(queue) + 1 /\ Len(queue) \in Nat
          /\ \A i \in 1 .. Len(queue) : queue'[i] = queue[i]
          /\ queue'[Len(queue) + 1] = offers'
      BY <1>1, <1>2, <2>2, Appended
    <3>2. Len(queue') <= Capacity
      BY <1>2, <2>2, <3>1, BufferAssumption
    <3>3. Rising(queue')
      <4>1. \A i \in 1 .. Len(queue) : queue[i] < offers'
        BY <1>1, <1>2
      <4> QED BY <1>1, <1>2, <2>2, <4>1, RisingAppend
    <3>4. ASSUME NEW j \in 1 .. Len(queue')
          PROVE  /\ queue'[j] \in 1 .. offers'
                 /\ \A i \in 1 .. Len(out) : out[i] < queue'[j]
      <4>1. CASE j = Len(queue) + 1
        <5>1. queue'[j] = offers'
          BY <3>1, <4>1
        <5>2. \A i \in 1 .. Len(out) : out[i] \in Nat /\ out[i] <= offers
          BY <1>4, ElementOfSeq
        <5> QED BY <1>1, <5>1, <5>2
      <4>2. CASE j # Len(queue) + 1
        <5>1. j \in 1 .. Len(queue) /\ queue'[j] = queue[j]
          BY <3>1, <4>2
        <5>2. queue[j] \in 1 .. offers
          BY <1>2, <5>1
        <5> QED BY <1>1, <1>4, <5>1, <5>2
      <4> QED BY <4>1, <4>2
    <3> QED BY <3>1, <3>2, <3>3, <3>4
  <2> QED BY <2>1, <2>2 DEF Offer, Ring!Accept, Ring!RejectNewest, Ring!Full
<1>9. \A i \in 1 .. Len(out) : out[i] <= offers'
  <2>1. \A i \in 1 .. Len(out) : out[i] \in Nat
    BY <1>4, ElementOfSeq
  <2> QED BY <1>1, <1>4, <2>1
<1>10. \A i \in 1 .. Len(delivered) : delivered[i] <= offers'
  <2>1. \A i \in 1 .. Len(delivered) : delivered[i] \in Nat
    BY <1>3, ElementOfSeq
  <2> QED BY <1>1, <1>3, <2>1
<1>11. RingPart'
  BY <1>1, <1>3, <1>8, <1>10 DEF RingPart
<1>12. CallerPart'
  BY <1>1, <1>4, <1>6, <1>7, <1>8, <1>9 DEF CallerPart
<1>13. CallPart'
  BY <1>1 DEF BufferInv, CallPart
<1> QED BY <1>11, <1>12, <1>13 DEF BufferInv

LEMMA BufferInvStep == BufferInv /\ [BufferNext]_bufferVars => BufferInv'
<1> SUFFICES ASSUME BufferInv, [BufferNext]_bufferVars PROVE BufferInv'
  OBVIOUS
<1> USE DEF BufferInv
<1>1. CASE UNCHANGED bufferVars
  BY <1>1 DEF bufferVars, ringVars, RingPart, CallerPart, CallPart, Rising
<1>2. ASSUME NEW matches \in BOOLEAN, Offer(matches) PROVE BufferInv'
  BY <1>2, OfferKeeps
<1>3. CASE Pop
  BY <1>3, TakeKeeps DEF Pop, CallPart
<1>4. ASSUME NEW name \in {"Drain", "DrainFiltered"}, NEW n \in Limits,
             DrainBegin(name, n)
      PROVE  BufferInv'
  <2>1. n \in Nat
    BY BufferAssumption
  <2>2. CallPart'
    BY <1>4, <2>1 DEF DrainBegin, CallPart
  <2>3. UNCHANGED <<offers, queue, delivered, matching, out>>
    BY <1>4 DEF DrainBegin, ringVars
  <2> QED BY <2>2, <2>3 DEF RingPart, CallerPart, Rising
<1>5. CASE DrainTake
  <2>1. CallPart'
    BY <1>5 DEF DrainTake, CallPart
  <2> QED BY <1>5, <2>1, TakeKeeps DEF DrainTake
<1>6. CASE DrainSkip
  <2>1. CallPart'
    BY <1>6 DEF DrainSkip, CallPart
  <2> QED BY <1>6, <2>1, TakeKeeps DEF DrainSkip
<1>7. CASE DrainReturn
  <2>1. CallPart'
    BY <1>7 DEF DrainReturn, CallPart
  <2>2. UNCHANGED <<offers, queue, delivered, matching, out>>
    BY <1>7 DEF DrainReturn, ringVars
  <2> QED BY <2>1, <2>2 DEF RingPart, CallerPart, Rising
<1>8. CASE BufferReset
  <2>1. /\ queue' = <<>> /\ delivered' = <<>> /\ out' = <<>>
        /\ UNCHANGED <<offers, matching, call, max_count, drained>>
    BY <1>8 DEF BufferReset, Ring!Clear
  <2> QED BY <2>1, BufferAssumption DEF RingPart, CallerPart, CallPart, Rising, Range
<1> QED BY <1>1, <1>2, <1>3, <1>4, <1>5, <1>6, <1>7, <1>8 DEF BufferNext, DrainStep

LEMMA BufferInvAlways == BufferSpec => []BufferInv
BY BufferInvInit, BufferInvStep, PTL DEF BufferSpec

-----------------------------------------------------------------------------
(* Every variable keeps its type: the ring never holds more than Capacity  *)
(* events, a call never hands out more than it was asked for.              *)
THEOREM BufferTypeCorrect == BufferSpec => []BufferTypeOK
<1>1. BufferInv => BufferTypeOK
  BY BufferAssumption DEF BufferInv, RingPart, CallerPart, CallPart, BufferTypeOK
<1> QED BY <1>1, BufferInvAlways, PTL

(* No event that matches the filter is left out, repeated or reordered.    *)
THEOREM NoMatchLostHolds == BufferSpec => []NoMatchLost
<1>1. BufferInv => NoMatchLost
  BY DEF BufferInv, CallerPart, Rising, NoMatchLost
<1> QED BY <1>1, BufferInvAlways, PTL

-----------------------------------------------------------------------------
(* EventParser                                                             *)

(* A needle is at i if the tokens from i on are those of the needle.       *)
LEMMA AtIs ==
  ASSUME NEW line \in Seq(Token), NEW needle \in Seq(Token), NEW i \in 1 .. Len(line)
  PROVE  At(line, needle, i) <=>
           /\ i + Len(needle) - 1 <= Len(line)
           /\ \A j \in 1 .. Len(needle) : line[i + j - 1] = needle[j]
<1> DEFINE n == Len(needle)
           z == i + n - 1
           s == SubSeq(line, i, z)
<1>1. n \in Nat /\ Len(line) \in Nat /\ z \in Int
  BY LenProperties
<1> SUFFICES ASSUME z <= Len(line)
             PROVE  s = needle <=> \A j \in 1 .. n : line[i + j - 1] = needle[j]
  BY DEF At
<1>2. \A k \in i .. z : line[k] \in Token
  BY <1>1, ElementOfSeq
<1>3. /\ s \in Seq(Token) /\ Len(s) = n
      /\ \A j \in 1 .. n : s[j] = line[i + j - 1]
  <2>1. /\ s \in Seq(Token)
        /\ Len(s) = IF i <= z THEN z - i + 1 ELSE 0
        /\ \A j \in 1 .. z - i + 1 : s[j] = line[i + j - 1]
    BY <1>1, <1>2, SubSeqProperties
  <2> HIDE DEF s
  <2>2. z - i + 1 = n /\ (n = 0 \/ i <= z) /\ (n = 0 => ~(i <= z))
    BY <1>1
  <2> QED BY <1>1, <2>1, <2>2
<1> HIDE DEF s, n
<1>4. ASSUME \A j \in 1 .. n : line[i + j - 1] = needle[j] PROVE s = needle
  BY <1>3, <1>4, SeqEqual DEF n
<1>5. ASSUME s = needle PROVE \A j \in 1 .. n : line[i + j - 1] = needle[j]
  BY <1>3, <1>5
<1> QED BY <1>4, <1>5

(* One token, or two, at i.                                                *)
LEMMA AtOne ==
  ASSUME NEW line \in Seq(Token), NEW x \in Token, NEW i \in 1 .. Len(line)
  PROVE  At(line, <<x>>, i) <=> line[i] = x
<1> DEFINE needle == <<x>>
<1>1. needle \in Seq(Token) /\ Len(needle) = 1 /\ needle[1] = x
  OBVIOUS
<1> HIDE DEF needle
<1>2. At(line, needle, i) <=> /\ i + Len(needle) - 1 <= Len(line)
                              /\ \A j \in 1 .. Len(needle) : line[i + j - 1] = needle[j]
  BY <1>1, AtIs
<1>3. Len(line) \in Nat
  BY LenProperties
<1>4. At(line, needle, i) <=> line[i] = x
  BY <1>1, <1>2, <1>3
<1> QED BY <1>4 DEF needle

LEMMA AtTwo ==
  ASSUME NEW line \in Seq(Token), NEW x \in Token, NEW y \in Token,
         NEW i \in 1 .. Len(line)
  PROVE  At(line, <<x, y>>, i) <=>
           i < Len(line) /\ line[i] = x /\ line[i + 1] = y
<1> DEFINE needle == <<x, y>>
<1>1. /\ needle \in Seq(Token) /\ Len(needle) = 2
      /\ needle[1] = x /\ needle[2] = y
  OBVIOUS
<1>0. Len(line) \in Nat
  BY LenProperties
<1> HIDE DEF needle
<1>2. At(line, needle, i) <=> /\ i + Len(needle) - 1 <= Len(line)
                              /\ \A j \in 1 .. Len(needle) : line[i + j - 1] = needle[j]
  BY <1>1, AtIs
<1>3. \A j \in 1 .. 2 : j = 1 \/ j = 2
  OBVIOUS
<1>4. i + 1 - 1 = i /\ i + 2 - 1 = i + 1 /\ (i + 2 - 1 <= Len(line) <=> i < Len(line))
  BY <1>0
<1>5. (\A j \in 1 .. 2 : line[i + j - 1] = needle[j]) <=> line[i] = x /\ line[i + 1] = y
  <2>1. 1 \in 1 .. 2 /\ 2 \in 1 .. 2
    OBVIOUS
  <2> QED BY <1>1, <1>3, <1>4, <2>1, Zenon
<1>6. At(line, needle, i) <=> i < Len(line) /\ line[i] = x /\ line[i + 1] = y
  BY <1>1, <1>2, <1>4, <1>5, Zenon
<1> QED BY <1>6 DEF needle

(* A needle of three tokens.                                               *)
LEMMA AtThree ==
  ASSUME NEW line \in Seq(Token), NEW x \in Token, NEW y \in Token,
         NEW z \in Token, NEW i \in 1 .. Len(line)
  PROVE  At(line, <<x, y, z>>, i) <=>
           i + 1 < Len(line) /\ line[i] = x /\ line[i + 1] = y /\ line[i + 2] = z
<1> DEFINE needle == <<x, y, z>>
<1>1. /\ needle \in Seq(Token) /\ Len(needle) = 3
      /\ needle[1] = x /\ needle[2] = y /\ needle[3] = z
  OBVIOUS
<1>0. Len(line) \in Nat
  BY LenProperties
<1> HIDE DEF needle
<1>2. At(line, needle, i) <=> /\ i + Len(needle) - 1 <= Len(line)
                              /\ \A j \in 1 .. Len(needle) : line[i + j - 1] = needle[j]
  BY <1>1, AtIs
<1>3. \A j \in 1 .. 3 : j = 1 \/ j = 2 \/ j = 3
  OBVIOUS
<1>4. /\ i + 1 - 1 = i /\ i + 2 - 1 = i + 1 /\ i + 3 - 1 = i + 2
      /\ (i + 3 - 1 <= Len(line) <=> i + 1 < Len(line))
  BY <1>0
<1>5. (\A j \in 1 .. 3 : line[i + j - 1] = needle[j])
        <=> line[i] = x /\ line[i + 1] = y /\ line[i + 2] = z
  <2>1. 1 \in 1 .. 3 /\ 2 \in 1 .. 3 /\ 3 \in 1 .. 3
    OBVIOUS
  <2> QED BY <1>1, <1>3, <1>4, <2>1, Zenon
<1>6. At(line, needle, i) <=>
        i + 1 < Len(line) /\ line[i] = x /\ line[i + 1] = y /\ line[i + 2] = z
  BY <1>1, <1>2, <1>4, <1>5, Zenon
<1> QED BY <1>6 DEF needle

-----------------------------------------------------------------------------
(* The bounds of a set of positions.                                       *)
LEMMA LeastOf ==
  ASSUME NEW S, S \subseteq Int, NEW m \in S, \A j \in S : m <= j
  PROVE  Min(S) = m
<1>1. \A x \in S : (\A y \in S : x <= y) => x = m
  BY SMT
<1>2. \E x \in S : \A y \in S : x <= y
  OBVIOUS
<1> QED BY <1>1, <1>2 DEF Min

LEMMA GreatestOf ==
  ASSUME NEW S, S \subseteq Int, NEW m \in S, \A j \in S : j <= m
  PROVE  Max(S) = m
<1>1. \A x \in S : (\A y \in S : x >= y) => x = m
  BY SMT
<1>2. \E x \in S : \A y \in S : x >= y
  OBVIOUS
<1> QED BY <1>1, <1>2 DEF Max

(* The least of a set of positions.                                        *)
LEMMA LeastIn ==
  ASSUME NEW S, S \subseteq Nat, S # {}
  PROVE  Min(S) \in S
<1> DEFINE R == OpToRel(<, Nat)
<1>1. \A x, y \in Nat : y < x => <<y, x>> \in R
  BY DEF OpToRel
<1>2. IsWellFoundedOn(R, Nat)
  BY NatLessThanWellFounded
<1> HIDE DEF R
<1>3. PICK k \in S : \A y \in S : ~(<<y, k>> \in R)
  BY <1>2, WFMin
<1>4. \A j \in S : k <= j
  <2> SUFFICES ASSUME NEW j \in S PROVE k <= j
    OBVIOUS
  <2>1. k \in Nat /\ j \in Nat /\ ~(<<j, k>> \in R)
    BY <1>3
  <2> QED BY <1>1, <2>1
<1>5. S \subseteq Int
  OBVIOUS
<1>6. Min(S) = k
  BY <1>4, <1>5, LeastOf, Zenon
<1> QED BY <1>6

(* Find returns the first place from a position on, or 0.                  *)
LEMMA FindIs ==
  ASSUME NEW line \in Seq(Token), NEW needle, NEW from \in Nat \ {0},
         NEW p \in from .. Len(line), At(line, needle, p),
         \A i \in from .. p - 1 : ~At(line, needle, i)
  PROVE  Find(line, needle, from) = p
<1> DEFINE S == {i \in from .. Len(line) : At(line, needle, i)}
<1>1. Len(line) \in Nat
  BY LenProperties
<1>2. S \subseteq Int /\ p \in S
  BY <1>1
<1>3. \A j \in S : p <= j
  BY <1>1
<1>4. S # {}
  BY <1>2
<1> HIDE DEF S
<1>5. First(S) = p
  BY <1>2, <1>3, <1>4, LeastOf DEF First
<1> QED BY <1>5 DEF Find, S

LEMMA FindNone ==
  ASSUME NEW line, NEW needle, NEW from,
         \A i \in from .. Len(line) : ~At(line, needle, i)
  PROVE  Find(line, needle, from) = 0
<1>1. {i \in from .. Len(line) : At(line, needle, i)} = {}
  OBVIOUS
<1> QED BY <1>1 DEF Find, First

(* The first place of one token.                                           *)
LEMMA FindOne ==
  ASSUME NEW line \in Seq(Token), NEW x \in Token, NEW from \in Nat \ {0},
         NEW p \in from .. Len(line), line[p] = x,
         \A i \in from .. p - 1 : line[i] # x
  PROVE  Find(line, <<x>>, from) = p
<1>1. Len(line) \in Nat
  BY LenProperties
<1>2. p \in 1 .. Len(line) /\ \A i \in from .. p - 1 : i \in 1 .. Len(line)
  BY <1>1
<1>3. At(line, <<x>>, p) /\ \A i \in from .. p - 1 : ~At(line, <<x>>, i)
  BY <1>2, AtOne
<1> QED BY <1>3, FindIs

(* x and y are at p, and there is no x before, from a position on.         *)
FirstPair(line, x, y, from, p) ==
  /\ line \in Seq(Token) /\ x \in Token /\ y \in Token
  /\ from \in Nat \ {0} /\ p \in from .. Len(line) - 1
  /\ line[p] = x /\ line[p + 1] = y
  /\ \A i \in from .. p - 1 : line[i] # x

LEMMA FindTwo ==
  ASSUME NEW line, NEW x, NEW y, NEW from, NEW p, FirstPair(line, x, y, from, p)
  PROVE  Find(line, <<x, y>>, from) = p
<1> USE DEF FirstPair
<1> DEFINE needle == <<x, y>>
<1>1. Len(line) \in Nat
  BY LenProperties
<1>2. /\ p \in 1 .. Len(line) /\ p < Len(line) /\ p \in from .. Len(line)
      /\ \A i \in from .. p - 1 : i \in 1 .. Len(line)
  BY <1>1
<1> HIDE DEF FirstPair
<1>3. At(line, needle, p)
  BY <1>2, AtTwo DEF FirstPair
<1>4. ASSUME NEW i \in from .. p - 1 PROVE ~At(line, needle, i)
  <2>1. i \in 1 .. Len(line) /\ line[i] # x
    BY <1>2 DEF FirstPair
  <2>2. At(line, needle, i) <=> i < Len(line) /\ line[i] = x /\ line[i + 1] = y
    BY <2>1, AtTwo DEF FirstPair
  <2> QED BY <2>1, <2>2
<1> HIDE DEF needle
<1>5. Find(line, needle, from) = p
  BY <1>2, <1>3, <1>4, FindIs DEF FirstPair
<1> QED BY <1>5 DEF needle

(* What Upto cuts out, up to the stop at p or to the end.                  *)
LEMMA UptoStop ==
  ASSUME NEW line \in Seq(Token), NEW x \in Token, NEW from \in Nat \ {0},
         NEW p \in from .. Len(line), line[p] = x,
         \A i \in from .. p - 1 : line[i] # x
  PROVE  Upto(line, from, x) = SubSeq(line, from, p - 1)
<1>1. Find(line, <<x>>, from) = p
  BY FindOne
<1>2. p # 0
  OBVIOUS
<1> QED BY <1>1, <1>2 DEF Upto

LEMMA UptoEnd ==
  ASSUME NEW line \in Seq(Token), NEW x \in Token, NEW from \in Nat \ {0},
         \A i \in from .. Len(line) : line[i] # x
  PROVE  Upto(line, from, x) = SubSeq(line, from, Len(line))
<1>1. \A i \in from .. Len(line) : i \in 1 .. Len(line)
  BY LenProperties
<1>2. Find(line, <<x>>, from) = 0
  BY <1>1, AtOne, FindNone
<1> QED BY <1>2 DEF Upto

(* A part of a line, by its tokens.                                        *)
LEMMA PartIs ==
  ASSUME NEW line \in Seq(Token), NEW t \in Seq(Token), NEW a \in Nat \ {0},
         NEW b \in Int, b = a + Len(t) - 1, b <= Len(line),
         \A j \in 1 .. Len(t) : line[a + j - 1] = t[j]
  PROVE  SubSeq(line, a, b) = t
<1>1. Len(t) \in Nat /\ Len(line) \in Nat
  BY LenProperties
<1>2. CASE Len(t) = 0
  <2>1. t = <<>>
    BY <1>2, EmptySeq
  <2> QED BY <1>2, <2>1, SubSeqEmpty
<1>3. CASE Len(t) # 0
  <2>1. a \in 1 .. Len(line) /\ a + Len(t) - 1 <= Len(line)
    BY <1>1, <1>3
  <2>2. At(line, t, a)
    BY <2>1, AtIs
  <2> QED BY <2>2 DEF At
<1> QED BY <1>2, <1>3

(* The first n tokens, and a single one.                                   *)
LEMMA HeadPart ==
  ASSUME NEW line \in Seq(Token), NEW n \in 0 .. Len(line)
  PROVE  /\ SubSeq(line, 1, n) \in Seq(Token)
         /\ Len(SubSeq(line, 1, n)) = n
         /\ \A i \in 1 .. n : SubSeq(line, 1, n)[i] = line[i]
<1>1. n \in Nat /\ \A i \in 1 .. n : line[i] \in Token
  BY LenProperties, ElementOfSeq
<1> DEFINE s == SubSeq(line, 1, n)
<1>2. /\ s \in Seq(Token)
      /\ Len(s) = IF 1 <= n THEN n - 1 + 1 ELSE 0
      /\ \A i \in 1 .. n - 1 + 1 : s[i] = line[1 + i - 1]
  BY <1>1, SubSeqProperties
<1> HIDE DEF s
<1>3. s \in Seq(Token) /\ Len(s) = n /\ \A i \in 1 .. n : s[i] = line[i]
  BY <1>1, <1>2
<1> QED BY <1>3 DEF s

LEMMA TokenIs ==
  ASSUME NEW line \in Seq(Token), NEW p \in 1 .. Len(line)
  PROVE  SubSeq(line, p, p) = <<line[p]>>
<1> DEFINE t == <<line[p]>>
<1>1. line[p] \in Token /\ Len(line) \in Nat
  BY ElementOfSeq, LenProperties
<1>2. t \in Seq(Token) /\ Len(t) = 1 /\ t[1] = line[p]
  BY <1>1
<1> HIDE DEF t
<1>3. \A j \in 1 .. Len(t) : line[p + j - 1] = t[j]
  BY <1>2
<1>4. SubSeq(line, p, p) = t
  BY <1>1, <1>2, <1>3, PartIs
<1> QED BY <1>4 DEF t

-----------------------------------------------------------------------------
(* z is a, of n tokens, followed by b, of k.                               *)
Joined(z, a, n, b, k) ==
  /\ z \in Seq(Token) /\ Len(z) = n + k
  /\ \A i \in 1 .. n : z[i] = a[i]
  /\ \A i \in n + 1 .. n + k : z[i] = b[i - n]

LEMMA Join ==
  ASSUME NEW a \in Seq(Token), NEW b \in Seq(Token), NEW n, n = Len(a),
         NEW k, k = Len(b)
  PROVE  Joined(a \o b, a, n, b, k)
<1>1. n \in Nat /\ k \in Nat
  BY LenProperties
<1> DEFINE z == a \o b
<1>2. /\ z \in Seq(Token)
      /\ Len(z) = n + k
      /\ \A i \in 1 .. n + k : z[i] = IF i <= n THEN a[i] ELSE b[i - n]
  BY ConcatProperties
<1> HIDE DEF z
<1>3. Joined(z, a, n, b, k)
  BY <1>1, <1>2 DEF Joined
<1> QED BY <1>3 DEF z

(* The tokens of a part of a line, from the numbers in it.                 *)
LEMMA TaskFacts ==
  ASSUME NEW task, IsTask(task)
  PROVE  /\ task.comm \in Seq(Token) /\ Len(task.comm) \in Nat \ {0}
         /\ \A i \in 1 .. Len(task.comm) :
              task.comm[i] \notin {Blank, "[", "]"} \cup Labels \cup Keys
         /\ {task.pid, task.prio} \subseteq Token \ (Marks \cup Labels \cup Keys)
<1>1. task.comm \in Seq(Token) /\ task.comm # <<>>
  BY DEF IsTask
<1>2. Len(task.comm) \in Nat \ {0} /\ DOMAIN task.comm = 1 .. Len(task.comm)
  BY <1>1, LenProperties, EmptySeq
<1> QED BY <1>1, <1>2, ParserAssumption DEF IsTask

(* Where the tokens of a switch are, by the parts it is joined of.         *)
SwitchTokens(s, x, x1, x2, p, y, y1, y2, q) ==
  /\ s[1] = "prev_comm" /\ s[2] = "="
  /\ \A i \in 3 .. p + 2 : s[i] = x[i - 2]
  /\ s[p + 3] = Blank /\ s[p + 4] = "prev_pid" /\ s[p + 5] = "="
  /\ s[p + 6] = x1 /\ s[p + 7] = Blank /\ s[p + 8] = "prev_prio"
  /\ s[p + 9] = "=" /\ s[p + 10] = x2 /\ s[p + 11] = Blank
  /\ s[p + 12] = "prev_state" /\ s[p + 13] = "=" /\ s[p + 14] = "S"
  /\ s[p + 15] = Blank /\ s[p + 16] = "==>" /\ s[p + 17] = Blank
  /\ s[p + 18] = "next_comm" /\ s[p + 19] = "="
  /\ \A i \in p + 20 .. q + 19 : s[i] = y[i - (p + 19)]
  /\ s[q + 20] = Blank /\ s[q + 21] = "next_pid" /\ s[q + 22] = "="
  /\ s[q + 23] = y1 /\ s[q + 24] = Blank /\ s[q + 25] = "next_prio"
  /\ s[q + 26] = "=" /\ s[q + 27] = y2

(* The parts of a switch, joined, put its tokens there.                    *)
LEMMA SwitchLayout ==
  ASSUME NEW p \in Nat, NEW r \in Nat, NEW q, q = p + r,
         NEW a, NEW b, NEW e, NEW x, NEW y, NEW s, NEW s1, NEW s2, NEW s3,
         NEW x1, NEW x2, NEW y1, NEW y2,
         Joined(s1, a, 2, x, p), Joined(s2, s1, 2 + p, b, 17),
         Joined(s3, s2, p + 19, y, r), Joined(s, s3, q + 19, e, 8),
         a[1] = "prev_comm", a[2] = "=",
         /\ b[1] = Blank /\ b[2] = "prev_pid" /\ b[3] = "=" /\ b[4] = x1
         /\ b[5] = Blank /\ b[6] = "prev_prio" /\ b[7] = "=" /\ b[8] = x2
         /\ b[9] = Blank /\ b[10] = "prev_state" /\ b[11] = "=" /\ b[12] = "S"
         /\ b[13] = Blank /\ b[14] = "==>" /\ b[15] = Blank /\ b[16] = "next_comm"
         /\ b[17] = "=",
         /\ e[1] = Blank /\ e[2] = "next_pid" /\ e[3] = "=" /\ e[4] = y1
         /\ e[5] = Blank /\ e[6] = "next_prio" /\ e[7] = "=" /\ e[8] = y2
  PROVE  SwitchTokens(s, x, x1, x2, p, y, y1, y2, q)
<1>1. /\ \A i \in 1 .. 2 : s1[i] = a[i]
      /\ \A i \in 3 .. 2 + p : s1[i] = x[i - 2]
      /\ \A i \in 1 .. p + 2 : s2[i] = s1[i]
      /\ \A i \in p + 3 .. p + 19 : s2[i] = b[i - (2 + p)]
  BY DEF Joined
<1>2. /\ \A i \in 1 .. p + 19 : s3[i] = s2[i]
      /\ \A i \in p + 20 .. q + 19 : s3[i] = y[i - (p + 19)]
  BY DEF Joined
<1>3. /\ \A i \in 1 .. q + 19 : s[i] = s3[i]
      /\ \A i \in q + 20 .. q + 27 : s[i] = e[i - (q + 19)]
  BY DEF Joined
<1>4. \A i \in 1 .. p + 19 : s[i] = s2[i]
  BY <1>2, <1>3
<1>5. \A i \in p + 3 .. p + 19 : s[i] = b[i - (2 + p)]
  BY <1>1, <1>4
<1>6. /\ s[1] = "prev_comm" /\ s[2] = "="
      /\ \A i \in 3 .. p + 2 : s[i] = x[i - 2]
  BY <1>1, <1>4
<1>7. \A i \in p + 20 .. q + 19 : s[i] = y[i - (p + 19)]
  BY <1>2, <1>3
<1>8. /\ s[p + 3] = Blank /\ s[p + 4] = "prev_pid" /\ s[p + 5] = "="
      /\ s[p + 6] = x1 /\ s[p + 7] = Blank /\ s[p + 8] = "prev_prio"
      /\ s[p + 9] = "=" /\ s[p + 10] = x2 /\ s[p + 11] = Blank
  BY <1>5
<1>9. /\ s[p + 12] = "prev_state" /\ s[p + 13] = "=" /\ s[p + 14] = "S"
      /\ s[p + 15] = Blank /\ s[p + 16] = "==>" /\ s[p + 17] = Blank
      /\ s[p + 18] = "next_comm" /\ s[p + 19] = "="
  BY <1>5
<1>10. /\ s[q + 20] = Blank /\ s[q + 21] = "next_pid" /\ s[q + 22] = "="
       /\ s[q + 23] = y1 /\ s[q + 24] = Blank /\ s[q + 25] = "next_prio"
       /\ s[q + 26] = "=" /\ s[q + 27] = y2
  BY <1>3
<1> QED BY <1>6, <1>7, <1>8, <1>9, <1>10, Zenon DEF SwitchTokens

SwitchSizes(prev, next, p, q) == p = Len(prev.comm) /\ q = p + Len(next.comm)

(* The text of a switch is such a sequence.                                *)
LEMMA SwitchIs ==
  ASSUME NEW prev, NEW next, IsTask(prev), IsTask(next),
         NEW p, NEW q, SwitchSizes(prev, next, p, q)
  PROVE  /\ SwitchText(prev, next) \in Seq(Token)
         /\ Len(SwitchText(prev, next)) = q + 27
         /\ SwitchTokens(SwitchText(prev, next), prev.comm, prev.pid, prev.prio, p,
                     next.comm, next.pid, next.prio, q)
<1> DEFINE a == <<"prev_comm", "=">>
           b == <<Blank, "prev_pid", "=", prev.pid, Blank,
                  "prev_prio", "=", prev.prio, Blank, "prev_state", "=", "S", Blank,
                  "==>", Blank, "next_comm", "=">>
           e == <<Blank, "next_pid", "=", next.pid, Blank, "next_prio", "=", next.prio>>
           r == Len(next.comm)
           s1 == a \o prev.comm
           s2 == s1 \o b
           s3 == s2 \o next.comm
           s == s3 \o e
<1>1. SwitchText(prev, next) = s
  BY DEF SwitchText
<1>2. /\ Blank \in Token /\ "=" \in Token /\ "S" \in Token /\ "==>" \in Token
      /\ "prev_comm" \in Token /\ "prev_pid" \in Token /\ "prev_prio" \in Token
      /\ "prev_state" \in Token /\ "next_comm" \in Token
      /\ "next_pid" \in Token /\ "next_prio" \in Token
  BY ParserAssumption DEF Marks, Labels, Rest
<1>3. /\ prev.pid \in Token /\ prev.prio \in Token /\ prev.comm \in Seq(Token)
      /\ Len(prev.comm) \in Nat
  BY TaskFacts
<1>4. /\ next.pid \in Token /\ next.prio \in Token /\ next.comm \in Seq(Token)
      /\ Len(next.comm) \in Nat
  BY TaskFacts
<1>5. a \in Seq(Token) /\ 2 = Len(a) /\ a[1] = "prev_comm" /\ a[2] = "="
  BY <1>2
<1>6. b \in Seq(Token) /\ 17 = Len(b)
  BY <1>2, <1>3
<1>7. /\ b[1] = Blank /\ b[2] = "prev_pid" /\ b[3] = "=" /\ b[4] = prev.pid
      /\ b[5] = Blank /\ b[6] = "prev_prio" /\ b[7] = "=" /\ b[8] = prev.prio
      /\ b[9] = Blank /\ b[10] = "prev_state" /\ b[11] = "=" /\ b[12] = "S"
      /\ b[13] = Blank /\ b[14] = "==>" /\ b[15] = Blank /\ b[16] = "next_comm"
      /\ b[17] = "="
  OBVIOUS
<1>8. e \in Seq(Token) /\ 8 = Len(e)
  BY <1>2, <1>4
<1>9. /\ e[1] = Blank /\ e[2] = "next_pid" /\ e[3] = "=" /\ e[4] = next.pid
      /\ e[5] = Blank /\ e[6] = "next_prio" /\ e[7] = "=" /\ e[8] = next.prio
  OBVIOUS
<1>10. p \in Nat /\ p = Len(prev.comm) /\ r \in Nat /\ q = p + r
  BY <1>3, <1>4 DEF SwitchSizes
<1> HIDE DEF a, b, e, r
<1>23. (2 + p) + 17 = p + 19 /\ (p + 19) + r = q + 19 /\ (q + 19) + 8 = q + 27
  <2>1. p \in Nat /\ r \in Nat /\ q = p + r
    BY <1>10
  <2> QED BY <2>1
<1>11. Joined(s1, a, 2, prev.comm, p)
  BY <1>3, <1>5, <1>10, Join, Zenon
<1>12. s1 \in Seq(Token) /\ 2 + p = Len(s1)
  BY <1>11, Zenon DEF Joined
<1> HIDE DEF s1
<1>13. Joined(s2, s1, 2 + p, b, 17)
  BY <1>6, <1>12, Join, Zenon
<1>14. s2 \in Seq(Token) /\ Len(s2) = (2 + p) + 17
  BY <1>13, Zenon DEF Joined
<1> HIDE DEF s2
<1>15. p + 19 = Len(s2)
  BY <1>14, <1>23, Zenon
<1>16. Joined(s3, s2, p + 19, next.comm, r)
  BY <1>4, <1>14, <1>15, Join, Zenon DEF r
<1>17. s3 \in Seq(Token) /\ Len(s3) = (p + 19) + r
  BY <1>16, Zenon DEF Joined
<1> HIDE DEF s3
<1>18. q + 19 = Len(s3)
  BY <1>17, <1>23, Zenon
<1>19. Joined(s, s3, q + 19, e, 8)
  BY <1>8, <1>17, <1>18, Join, Zenon
<1>20. s \in Seq(Token) /\ Len(s) = (q + 19) + 8
  BY <1>19, Zenon DEF Joined
<1> HIDE DEF s
<1>21. Len(s) = q + 27
  BY <1>20, <1>23, Zenon
<1>22. SwitchTokens(s, prev.comm, prev.pid, prev.prio, p, next.comm, next.pid, next.prio, q)
  <2>1. p \in Nat /\ r \in Nat /\ q = p + r
    BY <1>10, Zenon
  <2>2. a[1] = "prev_comm" /\ a[2] = "="
    BY <1>5, Zenon
  <2> QED BY <1>7, <1>9, <1>11, <1>13, <1>16, <1>19, <2>1, <2>2, SwitchLayout, ZenonT(30)
<1> QED BY <1>1, <1>20, <1>21, <1>22, Zenon

(* Where the tokens of a line are: c in the task's name, m in the event's, *)
(* and d in the details f.                                                 *)
LineAt(line, w, f, c, m, d) ==
  /\ line[1] = Blank
  /\ \A i \in 2 .. c + 1 : line[i] = w.prev.comm[i - 1]
  /\ line[c + 2] = "-" /\ line[c + 3] = w.prev.pid /\ line[c + 4] = Blank
  /\ line[c + 5] = "[" /\ line[c + 6] = w.cpu /\ line[c + 7] = "]"
  /\ line[c + 8] = Blank /\ line[c + 9] = "d..1" /\ line[c + 10] = Blank
  /\ line[c + 11] = w.seconds /\ line[c + 12] = "." /\ line[c + 13] = w.fraction
  /\ line[c + 14] = ":" /\ line[c + 15] = Blank
  /\ \A i \in c + 16 .. c + m + 15 : line[i] = w.name[i - (c + 15)]
  /\ line[c + m + 16] = ":" /\ line[c + m + 17] = Blank
  /\ \A i \in c + m + 18 .. c + m + d + 17 : line[i] = f[i - (c + m + 17)]

(* The parts of a line, joined, put its tokens there.                      *)
LEMMA LineLayout ==
  ASSUME NEW c \in Nat, NEW m \in Nat, NEW d \in Nat,
         NEW a, NEW b, NEW e, NEW f, NEW line, NEW w,
         NEW s1, NEW s2, NEW s3, NEW s4,
         Joined(s1, a, 1, w.prev.comm, c), Joined(s2, s1, 1 + c, b, 14),
         Joined(s3, s2, c + 15, w.name, m), Joined(s4, s3, c + m + 15, e, 2),
         Joined(line, s4, c + m + 17, f, d),
         a[1] = Blank, e[1] = ":", e[2] = Blank,
         /\ b[1] = "-" /\ b[2] = w.prev.pid /\ b[3] = Blank /\ b[4] = "["
         /\ b[5] = w.cpu /\ b[6] = "]" /\ b[7] = Blank /\ b[8] = "d..1"
         /\ b[9] = Blank /\ b[10] = w.seconds /\ b[11] = "." /\ b[12] = w.fraction
         /\ b[13] = ":" /\ b[14] = Blank
  PROVE  LineAt(line, w, f, c, m, d)
<1>1. /\ \A i \in 1 .. 1 : s1[i] = a[i]
      /\ \A i \in 2 .. 1 + c : s1[i] = w.prev.comm[i - 1]
      /\ \A i \in 1 .. c + 1 : s2[i] = s1[i]
      /\ \A i \in c + 2 .. c + 15 : s2[i] = b[i - (1 + c)]
  BY DEF Joined
<1>2. /\ \A i \in 1 .. c + 15 : s3[i] = s2[i]
      /\ \A i \in c + 16 .. c + m + 15 : s3[i] = w.name[i - (c + 15)]
  BY DEF Joined
<1>3. /\ \A i \in 1 .. c + m + 15 : s4[i] = s3[i]
      /\ \A i \in c + m + 16 .. c + m + 17 : s4[i] = e[i - (c + m + 15)]
  BY DEF Joined
<1>4. /\ \A i \in 1 .. c + m + 17 : line[i] = s4[i]
      /\ \A i \in c + m + 18 .. c + m + d + 17 : line[i] = f[i - (c + m + 17)]
  BY DEF Joined
<1>5. \A i \in 1 .. c + m + 15 : line[i] = s3[i]
  BY <1>3, <1>4
<1>6. \A i \in 1 .. c + 15 : line[i] = s2[i]
  BY <1>2, <1>5
<1>7. line[1] = Blank /\ \A i \in 2 .. c + 1 : line[i] = w.prev.comm[i - 1]
  BY <1>1, <1>6
<1>8. \A i \in c + 2 .. c + 15 : line[i] = b[i - (1 + c)]
  BY <1>1, <1>6
<1>9. /\ line[c + 2] = "-" /\ line[c + 3] = w.prev.pid /\ line[c + 4] = Blank
      /\ line[c + 5] = "[" /\ line[c + 6] = w.cpu /\ line[c + 7] = "]"
      /\ line[c + 8] = Blank /\ line[c + 9] = "d..1" /\ line[c + 10] = Blank
      /\ line[c + 11] = w.seconds /\ line[c + 12] = "." /\ line[c + 13] = w.fraction
      /\ line[c + 14] = ":" /\ line[c + 15] = Blank
  BY <1>8
<1>10. \A i \in c + 16 .. c + m + 15 : line[i] = w.name[i - (c + 15)]
  BY <1>2, <1>5
<1>11. line[c + m + 16] = ":" /\ line[c + m + 17] = Blank
  BY <1>3, <1>4
<1> QED BY <1>4, <1>7, <1>9, <1>10, <1>11, Zenon DEF LineAt

(* What the events are about, and their names.                             *)
LEMMA DetailIs ==
  ASSUME NEW w \in Written
  PROVE  DetailText(w) \in Seq(Token) /\ Len(DetailText(w)) \in Nat
<1>1. IsTask(w.prev) /\ IsTask(w.next)
  BY ParserAssumption DEF IsReport
<1>2. SwitchText(w.prev, w.next) \in Seq(Token)
  <2> DEFINE p == Len(w.prev.comm)
             q == p + Len(w.next.comm)
  <2>1. SwitchSizes(w.prev, w.next, p, q)
    BY Zenon DEF SwitchSizes
  <2> HIDE DEF p, q
  <2> QED BY <1>1, <2>1, SwitchIs, Zenon
<1>3. "vec" \in Token /\ "=" \in Token /\ "1" \in Token
  BY ParserAssumption DEF Marks, Rest
<1>4. <<"vec", "=", "1">> \in Seq(Token)
  BY <1>3
<1>5. DetailText(w) \in Seq(Token)
  BY <1>2, <1>4, Zenon DEF DetailText
<1> QED BY <1>5, LenProperties

(* The name of an event is one key, soft and a key, or a word of no other  *)
(* meaning.                                                                *)
LEMMA NameIs ==
  ASSUME NEW name, IsName(name)
  PROVE  /\ name \in Seq(Token) /\ Len(name) \in {1, 2}
         /\ Len(name) = 1 =>
              \/ \E key \in Single : name = <<key>> /\ name[1] = key
              \/ name[1] \notin Marks \cup Labels \cup Keys
         /\ Len(name) = 2 => name[1] = "soft" /\ name[2] \in Softirqs
<1>1. CASE name \in {<<key>> : key \in Single}
  <2>1. PICK key \in Single : name = <<key>>
    BY <1>1
  <2>2. key \in Token
    BY ParserAssumption DEF Keys
  <2>3. name \in Seq(Token) /\ Len(name) = 1 /\ name[1] = key
    BY <2>1, <2>2
  <2> QED BY <2>1, <2>3
<1>2. CASE name \in {<<"soft", key>> : key \in Softirqs}
  <2>1. PICK key \in Softirqs : name = <<"soft", key>>
    BY <1>2
  <2>2. key \in Token /\ "soft" \in Token
    BY ParserAssumption DEF Keys
  <2>3. name \in Seq(Token) /\ Len(name) = 2 /\ name[1] = "soft" /\ name[2] = key
    BY <2>1, <2>2
  <2> QED BY <2>3
<1>3. CASE /\ name \in Seq(Token) /\ Len(name) = 1
           /\ Head(name) \notin Marks \cup Labels \cup Keys
  <2>1. Head(name) = name[1]
    BY <1>3
  <2> QED BY <1>3, <2>1
<1> QED BY <1>1, <1>2, <1>3 DEF IsName

Sizes(w, c, m, d) ==
  c = Len(w.prev.comm) /\ m = Len(w.name) /\ d = Len(DetailText(w))

(* What the kernel prints is such a line.                                  *)
LEMMA TextIs ==
  ASSUME NEW w \in Written, NEW c, NEW m, NEW d, Sizes(w, c, m, d)
  PROVE  /\ Text(w) \in Seq(Token) /\ Len(Text(w)) = c + m + d + 17
         /\ LineAt(Text(w), w, DetailText(w), c, m, d)
<1> DEFINE a == <<Blank>>
           b == <<"-", w.prev.pid, Blank, "[", w.cpu, "]", Blank, "d..1",
                  Blank, w.seconds, ".", w.fraction, ":", Blank>>
           e == <<":", Blank>>
           f == DetailText(w)
           s1 == a \o w.prev.comm
           s2 == s1 \o b
           s3 == s2 \o w.name
           s4 == s3 \o e
           line == s4 \o f
<1>1. Text(w) = line
  BY DEF Text
<1>2. /\ Blank \in Token /\ "-" \in Token /\ "[" \in Token /\ "]" \in Token
      /\ "." \in Token /\ ":" \in Token /\ "d..1" \in Token
  BY ParserAssumption DEF Marks, Rest
<1>3. IsTask(w.prev) /\ IsName(w.name)
  BY ParserAssumption DEF IsReport
<1>4. w.cpu \in Token /\ w.seconds \in Token /\ w.fraction \in Token
  BY ParserAssumption DEF IsReport
<1>5. w.prev.pid \in Token /\ w.prev.comm \in Seq(Token) /\ Len(w.prev.comm) \in Nat
  BY <1>3, TaskFacts
<1>6. w.name \in Seq(Token)
  BY <1>3, NameIs
<1>7. a \in Seq(Token) /\ 1 = Len(a) /\ a[1] = Blank
  BY <1>2
<1>8. b \in Seq(Token) /\ 14 = Len(b)
  BY <1>2, <1>4, <1>5
<1>9. /\ b[1] = "-" /\ b[2] = w.prev.pid /\ b[3] = Blank /\ b[4] = "["
      /\ b[5] = w.cpu /\ b[6] = "]" /\ b[7] = Blank /\ b[8] = "d..1"
      /\ b[9] = Blank /\ b[10] = w.seconds /\ b[11] = "." /\ b[12] = w.fraction
      /\ b[13] = ":" /\ b[14] = Blank
  OBVIOUS
<1>10. e \in Seq(Token) /\ 2 = Len(e) /\ e[1] = ":" /\ e[2] = Blank
  BY <1>2
<1>11. f \in Seq(Token)
  BY DetailIs
<1>12. /\ c \in Nat /\ m \in Nat /\ d \in Nat
       /\ c = Len(w.prev.comm) /\ m = Len(w.name) /\ d = Len(DetailText(w))
  BY <1>5, <1>6, DetailIs, LenProperties DEF Sizes
<1>28. /\ (1 + c) + 14 = c + 15 /\ (c + 15) + m = c + m + 15
       /\ (c + m + 15) + 2 = c + m + 17 /\ (c + m + 17) + d = c + m + d + 17
  <2>1. c \in Nat /\ m \in Nat /\ d \in Nat
    BY <1>12
  <2> QED BY <2>1
<1> HIDE DEF a, b, e, f
<1>13. Joined(s1, a, 1, w.prev.comm, c)
  BY <1>5, <1>7, <1>12, Join, Zenon
<1>14. s1 \in Seq(Token) /\ 1 + c = Len(s1)
  BY <1>13, Zenon DEF Joined
<1> HIDE DEF s1
<1>15. Joined(s2, s1, 1 + c, b, 14)
  BY <1>8, <1>14, Join, Zenon
<1>16. s2 \in Seq(Token) /\ Len(s2) = (1 + c) + 14
  BY <1>15, Zenon DEF Joined
<1> HIDE DEF s2
<1>17. c + 15 = Len(s2)
  BY <1>16, <1>28, Zenon
<1>18. Joined(s3, s2, c + 15, w.name, m)
  BY <1>6, <1>12, <1>16, <1>17, Join, Zenon
<1>19. s3 \in Seq(Token) /\ Len(s3) = (c + 15) + m
  BY <1>18, Zenon DEF Joined
<1> HIDE DEF s3
<1>20. c + m + 15 = Len(s3)
  BY <1>19, <1>28, Zenon
<1>21. Joined(s4, s3, c + m + 15, e, 2)
  BY <1>10, <1>19, <1>20, Join, Zenon
<1>22. s4 \in Seq(Token) /\ Len(s4) = (c + m + 15) + 2
  BY <1>21, Zenon DEF Joined
<1> HIDE DEF s4
<1>23. c + m + 17 = Len(s4)
  BY <1>22, <1>28, Zenon
<1>24. Joined(line, s4, c + m + 17, f, d)
  BY <1>11, <1>12, <1>22, <1>23, Join, Zenon DEF f
<1>25. line \in Seq(Token) /\ Len(line) = (c + m + 17) + d
  BY <1>24, Zenon DEF Joined
<1> HIDE DEF line
<1>26. Len(line) = c + m + d + 17
  BY <1>25, <1>28, Zenon
<1>27. LineAt(line, w, f, c, m, d)
  <2>1. c \in Nat /\ m \in Nat /\ d \in Nat
    BY <1>12, Zenon
  <2>2. a[1] = Blank /\ e[1] = ":" /\ e[2] = Blank
    BY <1>7, <1>10, Zenon
  <2>3. /\ Joined(s1, a, 1, w.prev.comm, c) /\ Joined(s2, s1, 1 + c, b, 14)
        /\ Joined(s3, s2, c + 15, w.name, m) /\ Joined(s4, s3, c + m + 15, e, 2)
        /\ Joined(line, s4, c + m + 17, f, d)
    BY <1>13, <1>15, <1>18, <1>21, <1>24, Zenon
  <2> QED BY <1>9, <2>1, <2>2, <2>3, LineLayout, Zenon
<1> QED BY <1>1, <1>25, <1>26, <1>27, Zenon DEF f

-----------------------------------------------------------------------------
(* A blank, a number, a report: how their tokens differ from the others.   *)
LEMMA BlankIs ==
  /\ Blank # "[" /\ Blank # "]" /\ Blank # "-" /\ Blank # ":" /\ Blank # "="
  /\ Blank # "." /\ Blank # "d..1" /\ Blank # "S" /\ Blank # "==>"
  /\ Blank # "vec" /\ Blank # "1" /\ Blank # "prev_state" /\ Blank # "#"
  /\ Blank \notin Labels /\ Blank \notin Keys
BY Zenon DEF Blank, Labels, Keys, Single, Softirqs

LEMMA PlainFacts ==
  ASSUME NEW x, x \in DOMAIN Numeral
  PROVE  /\ x \in Token /\ x # Blank /\ x # "[" /\ x # "]" /\ x # "-" /\ x # ":"
         /\ x # "=" /\ x # "." /\ x \notin Labels /\ x \notin Keys
         /\ Numeral[x] \in Nat
<1>1. x \in Token \ (Marks \cup Labels \cup Keys)
  BY ParserAssumption
<1>2. Numeral[x] \in Nat
  BY ParserAssumption
<1> QED BY <1>1, <1>2 DEF Marks

LEMMA ReportFacts ==
  ASSUME NEW w \in Written
  PROVE  /\ IsTask(w.prev) /\ IsTask(w.next) /\ IsName(w.name)
         /\ w.prev.pid \in DOMAIN Numeral /\ w.prev.prio \in DOMAIN Numeral
         /\ w.next.pid \in DOMAIN Numeral /\ w.next.prio \in DOMAIN Numeral
         /\ w.cpu \in DOMAIN Numeral /\ w.seconds \in DOMAIN Numeral
         /\ w.fraction \in DOMAIN Numeral
         /\ Chars[w.fraction] \in 0 .. 9 /\ Time(w) \in Nat \ {0}
<1>1. IsReport(w)
  BY ParserAssumption
<1> QED BY <1>1 DEF IsReport, IsTask

LEMMA SizesFacts ==
  ASSUME NEW w \in Written, NEW c, NEW m, NEW d, Sizes(w, c, m, d)
  PROVE  /\ c \in Nat \ {0} /\ m \in {1, 2} /\ d \in Nat
         /\ c = Len(w.prev.comm) /\ m = Len(w.name) /\ d = Len(DetailText(w))
         /\ \A i \in 1 .. c : w.prev.comm[i] \notin {Blank, "[", "]"} \cup Labels \cup Keys
         /\ \A i \in 1 .. m : w.name[i] \notin Marks \cup Labels
<1>1. /\ c = Len(w.prev.comm) /\ m = Len(w.name) /\ d = Len(DetailText(w))
  BY Zenon DEF Sizes
<1>2. /\ Len(w.prev.comm) \in Nat \ {0}
      /\ \A i \in 1 .. Len(w.prev.comm) :
           w.prev.comm[i] \notin {Blank, "[", "]"} \cup Labels \cup Keys
  BY ReportFacts, TaskFacts, Zenon
<1>3. Len(w.name) \in {1, 2}
  BY ReportFacts, NameIs, Zenon
<1>4. ASSUME NEW i \in 1 .. Len(w.name) PROVE w.name[i] \notin Marks \cup Labels
  <2>1. (Keys \cup {"soft"}) \cap (Marks \cup Labels) = {}
    <3>1. (Keys \cup {"soft"}) \cap Labels = {}
      BY DEF Keys, Single, Softirqs, Labels
    <3>2. Keys \cap (Marks \ {Blank}) = {} /\ "soft" \in Keys
      BY BlankIs DEF Keys, Single, Softirqs, Marks
    <3> QED BY <3>1, <3>2, BlankIs
  <2>2. Single \subseteq Keys /\ Softirqs \subseteq Keys
    BY DEF Keys
  <2>3. i = 1 \/ (i = 2 /\ Len(w.name) = 2)
    <3> DEFINE n == Len(w.name)
    <3>1. i \in 1 .. n /\ n \in {1, 2}
      BY <1>3
    <3> HIDE DEF n
    <3>2. i = 1 \/ (i = 2 /\ n = 2)
      BY <3>1
    <3> QED BY <3>2 DEF n
  <2>4. w.name[i] \in Keys \cup {"soft"} \/ w.name[i] \notin Marks \cup Labels \cup Keys
    BY <1>3, <2>2, <2>3, ReportFacts, NameIs
  <2> QED BY <2>1, <2>4
<1>5. d \in Nat
  BY <1>1, DetailIs, Zenon
<1> QED BY <1>1, <1>2, <1>3, <1>4, <1>5, Zenon

(* Which tokens are not where they might be looked for.                    *)
LEMMA NothingBefore ==
  ASSUME NEW w \in Written, NEW c \in Nat \ {0}, NEW m \in {1, 2}, NEW d \in Nat,
         NEW line, NEW f, LineAt(line, w, f, c, m, d),
         \A i \in 1 .. c : w.prev.comm[i] \notin {Blank, "[", "]"} \cup Labels \cup Keys,
         \A i \in 1 .. m : w.name[i] \notin Marks \cup Labels
  PROVE  /\ \A i \in 1 .. c + 4 : line[i] # "["
         /\ \A i \in 1 .. c + 6 : line[i] # "]"
         /\ \A i \in c + 7 .. c + 13 : line[i] # ":"
         /\ \A i \in c + 16 .. c + m + 15 : line[i] # ":"
         /\ \A i \in c + 3 .. c + 5 : line[i] # "-"
         /\ \A i \in 2 .. c + 1 : line[i] # Blank
         /\ \A i \in 1 .. c + m + 17 : line[i] \notin Labels
<1>1. /\ line[1] = Blank
      /\ \A i \in 2 .. c + 1 : line[i] = w.prev.comm[i - 1]
      /\ line[c + 2] = "-" /\ line[c + 3] = w.prev.pid /\ line[c + 4] = Blank
      /\ line[c + 5] = "[" /\ line[c + 6] = w.cpu /\ line[c + 7] = "]"
  BY DEF LineAt
<1>2. /\ line[c + 8] = Blank /\ line[c + 9] = "d..1" /\ line[c + 10] = Blank
      /\ line[c + 11] = w.seconds /\ line[c + 12] = "." /\ line[c + 13] = w.fraction
      /\ line[c + 14] = ":" /\ line[c + 15] = Blank
  BY DEF LineAt
<1>3. /\ \A i \in c + 16 .. c + m + 15 : line[i] = w.name[i - (c + 15)]
      /\ line[c + m + 16] = ":" /\ line[c + m + 17] = Blank
  BY DEF LineAt
<1>4. \A i \in 2 .. c + 1 : line[i] \notin {Blank, "[", "]"} \cup Labels \cup Keys
  BY <1>1
<1>5. \A i \in c + 16 .. c + m + 15 : line[i] \notin Marks \cup Labels
  BY <1>3
<1>6. /\ w.prev.pid \in DOMAIN Numeral /\ w.cpu \in DOMAIN Numeral
      /\ w.seconds \in DOMAIN Numeral /\ w.fraction \in DOMAIN Numeral
  BY ReportFacts, Zenon
<1>7. ASSUME NEW i \in 1 .. c + 4 PROVE line[i] # "["
  <2>1. i = 1 \/ i \in 2 .. c + 1 \/ i = c + 2 \/ i = c + 3 \/ i = c + 4
    OBVIOUS
  <2> QED BY <1>1, <1>4, <1>6, <2>1, PlainFacts, BlankIs
<1>8. ASSUME NEW i \in 1 .. c + 6 PROVE line[i] # "]"
  <2>1. \/ i = 1 \/ i \in 2 .. c + 1 \/ i = c + 2 \/ i = c + 3 \/ i = c + 4
        \/ i = c + 5 \/ i = c + 6
    OBVIOUS
  <2> QED BY <1>1, <1>4, <1>6, <2>1, PlainFacts, BlankIs
<1>9. ASSUME NEW i \in c + 7 .. c + 13 PROVE line[i] # ":"
  <2>1. \/ i = c + 7 \/ i = c + 8 \/ i = c + 9 \/ i = c + 10 \/ i = c + 11
        \/ i = c + 12 \/ i = c + 13
    OBVIOUS
  <2> QED BY <1>1, <1>2, <1>6, <2>1, PlainFacts, BlankIs
<1>10. \A i \in c + 16 .. c + m + 15 : line[i] # ":"
  BY <1>5 DEF Marks
<1>11. ASSUME NEW i \in c + 3 .. c + 5 PROVE line[i] # "-"
  <2>1. i = c + 3 \/ i = c + 4 \/ i = c + 5
    OBVIOUS
  <2> QED BY <1>1, <1>6, <2>1, PlainFacts, BlankIs
<1>12. \A i \in 2 .. c + 1 : line[i] # Blank
  BY <1>4
<1>13. ASSUME NEW i \in 1 .. c + m + 17 PROVE line[i] \notin Labels
  <2>1. Blank \notin Labels /\ {"-", "[", "]", ".", ":", "d..1"} \cap Labels = {}
    BY BlankIs DEF Labels
  <2>2. /\ w.prev.pid \notin Labels /\ w.cpu \notin Labels /\ w.seconds \notin Labels
        /\ w.fraction \notin Labels
    BY <1>6, PlainFacts
  <2>3. CASE i \in 1 .. c + 7
    <3>1. \/ i = 1 \/ i \in 2 .. c + 1 \/ i = c + 2 \/ i = c + 3 \/ i = c + 4
          \/ i = c + 5 \/ i = c + 6 \/ i = c + 7
      BY <2>3
    <3> QED BY <1>1, <1>4, <2>1, <2>2, <3>1
  <2>4. CASE i \in c + 8 .. c + 15
    <3>1. \/ i = c + 8 \/ i = c + 9 \/ i = c + 10 \/ i = c + 11
          \/ i = c + 12 \/ i = c + 13 \/ i = c + 14 \/ i = c + 15
      BY <2>4
    <3> QED BY <1>2, <2>1, <2>2, <3>1
  <2>5. CASE i \in c + 16 .. c + m + 15
    BY <1>5, <2>5
  <2>6. CASE i = c + m + 16 \/ i = c + m + 17
    BY <1>3, <2>1, <2>6
  <2>7. \/ i \in 1 .. c + 7 \/ i \in c + 8 .. c + 15 \/ i \in c + 16 .. c + m + 15
        \/ i = c + m + 16 \/ i = c + m + 17
    OBVIOUS
  <2> QED BY <2>3, <2>4, <2>5, <2>6, <2>7
<1> QED BY <1>7, <1>8, <1>9, <1>10, <1>11, <1>12, <1>13
-----------------------------------------------------------------------------
(* What the parser's operators find in the line.                           *)

Line(line, w, c, m, d) ==
  /\ w \in Written /\ Sizes(w, c, m, d)
  /\ c \in Nat \ {0} /\ m \in {1, 2} /\ d \in Nat
  /\ line = Text(w) /\ line \in Seq(Token) /\ Len(line) = c + m + d + 17
  /\ LineAt(line, w, DetailText(w), c, m, d)

(* Every text printed is such a line for some sizes.                       *)
LEMMA LineIs ==
  ASSUME NEW w \in Written
  PROVE  \E c, m, d : Line(Text(w), w, c, m, d)
<1> DEFINE c == Len(w.prev.comm)
           m == Len(w.name)
           d == Len(DetailText(w))
<1>1. Sizes(w, c, m, d)
  BY Zenon DEF Sizes
<1> HIDE DEF c, m, d
<1>2. c \in Nat \ {0} /\ m \in {1, 2} /\ d \in Nat
  BY <1>1, SizesFacts, Zenon
<1>3. /\ Text(w) \in Seq(Token) /\ Len(Text(w)) = c + m + d + 17
      /\ LineAt(Text(w), w, DetailText(w), c, m, d)
  BY <1>1, TextIs, Zenon
<1>4. Line(Text(w), w, c, m, d)
  BY <1>1, <1>2, <1>3, Zenon DEF Line
<1> QED BY <1>4, Zenon

(* NothingBefore, for a line.                                              *)
LEMMA Nothing ==
  ASSUME NEW w, NEW line, NEW c, NEW m, NEW d, Line(line, w, c, m, d)
  PROVE  /\ \A i \in 1 .. c + 4 : line[i] # "["
         /\ \A i \in 1 .. c + 6 : line[i] # "]"
         /\ \A i \in c + 7 .. c + 13 : line[i] # ":"
         /\ \A i \in c + 16 .. c + m + 15 : line[i] # ":"
         /\ \A i \in c + 3 .. c + 5 : line[i] # "-"
         /\ \A i \in 2 .. c + 1 : line[i] # Blank
         /\ \A i \in 1 .. c + m + 17 : line[i] \notin Labels
<1>1. /\ w \in Written /\ Sizes(w, c, m, d)
      /\ c \in Nat \ {0} /\ m \in {1, 2} /\ d \in Nat
      /\ LineAt(line, w, DetailText(w), c, m, d)
  BY Zenon DEF Line
<1>2. /\ \A i \in 1 .. c : w.prev.comm[i] \notin {Blank, "[", "]"} \cup Labels \cup Keys
      /\ \A i \in 1 .. m : w.name[i] \notin Marks \cup Labels
  BY <1>1, SizesFacts, Zenon
<1> HIDE DEF Line
<1> QED BY <1>1, <1>2, NothingBefore, Zenon

(* Where the brackets are found.                                           *)
LEMMA Brackets ==
  ASSUME NEW w, NEW line, NEW c, NEW m, NEW d, Line(line, w, c, m, d)
  PROVE  /\ Find(line, <<"[">>, 1) = c + 5
         /\ Find(line, <<"]">>, 1) = c + 7
         /\ Find(line, <<"]">>, c + 5) = c + 7
<1>1. /\ c \in Nat \ {0} /\ m \in {1, 2} /\ d \in Nat
      /\ line \in Seq(Token) /\ Len(line) = c + m + d + 17
      /\ LineAt(line, w, DetailText(w), c, m, d)
  BY Zenon DEF Line
<1>2. line[c + 5] = "[" /\ line[c + 7] = "]" /\ "[" \in Token /\ "]" \in Token
  BY <1>1, ParserAssumption DEF LineAt, Marks
<1>3. c + 5 \in 1 .. Len(line) /\ c + 7 \in 1 .. Len(line) /\ c + 7 \in c + 5 .. Len(line)
  BY <1>1
<1>4. /\ \A i \in 1 .. (c + 5) - 1 : line[i] # "["
      /\ \A i \in 1 .. (c + 7) - 1 : line[i] # "]"
      /\ \A i \in c + 5 .. (c + 7) - 1 : line[i] # "]"
  <2>1. (c + 5) - 1 = c + 4 /\ (c + 7) - 1 = c + 6 /\ c + 5 .. c + 6 \subseteq 1 .. c + 6
    BY <1>1
  <2>2. /\ \A i \in 1 .. c + 4 : line[i] # "["
        /\ \A i \in 1 .. c + 6 : line[i] # "]"
    BY Nothing, Zenon
  <2> QED BY <2>1, <2>2, Zenon
<1>5. 1 \in Nat \ {0} /\ c + 5 \in Nat \ {0}
  BY <1>1
<1>6. Find(line, <<"[">>, 1) = c + 5
  BY <1>1, <1>2, <1>3, <1>4, <1>5, FindOne, Zenon
<1>7. Find(line, <<"]">>, 1) = c + 7
  BY <1>1, <1>2, <1>3, <1>4, <1>5, FindOne, Zenon
<1>8. Find(line, <<"]">>, c + 5) = c + 7
  <2>1. /\ line \in Seq(Token) /\ "]" \in Token /\ line[c + 7] = "]"
        /\ c + 7 \in c + 5 .. Len(line) /\ c + 5 \in Nat \ {0}
        /\ \A i \in c + 5 .. (c + 7) - 1 : line[i] # "]"
    BY <1>1, <1>2, <1>3, <1>4, <1>5, Zenon
  <2> QED BY <2>1, FindOne, Zenon
<1> QED BY <1>6, <1>7, <1>8, Zenon

(* Trim of a part without blanks, and of a blank and such a part.          *)
LEMMA TrimSolid ==
  ASSUME NEW s \in Seq(Token), NEW n \in Nat \ {0}, NEW k \in Nat,
         Len(s) = k + n,
         \A i \in 1 .. k : s[i] = Blank, \A i \in k + 1 .. k + n : s[i] # Blank
  PROVE  Trim(s) = SubSeq(s, k + 1, k + n)
<1> DEFINE solid == {i \in 1 .. Len(s) : s[i] # Blank}
<1>1. /\ solid \subseteq Int /\ k + 1 \in solid /\ k + n \in solid
      /\ \A j \in solid : k + 1 <= j /\ j <= k + n
  OBVIOUS
<1> HIDE DEF solid
<1>2. Min(solid) = k + 1 /\ Max(solid) = k + n /\ solid # {}
  BY <1>1, LeastOf, GreatestOf
<1> QED BY <1>2 DEF Trim, solid

(* The cpu, the time, the task and the details are those of the report.    *)
LEMMA CPUFound ==
  ASSUME NEW w, NEW line, NEW c, NEW m, NEW d, Line(line, w, c, m, d)
  PROVE  OrZero(ExtractCPU(line)) = Numeral[w.cpu]
<1>1. /\ c \in Nat \ {0} /\ m \in {1, 2} /\ d \in Nat /\ w \in Written
      /\ line \in Seq(Token) /\ Len(line) = c + m + d + 17
      /\ LineAt(line, w, DetailText(w), c, m, d)
  BY Zenon DEF Line
<1>2. line[c + 6] = w.cpu /\ line[c + 7] = "]" /\ "]" \in Token
  BY <1>1, ParserAssumption DEF LineAt, Marks
<1>3. /\ w.cpu \in DOMAIN Numeral /\ w.cpu \in Token /\ w.cpu # Blank /\ w.cpu # "]"
      /\ Numeral[w.cpu] \in Nat
  BY <1>1, ReportFacts, PlainFacts, Zenon
<1>4. /\ c + 6 \in Nat \ {0} /\ c + 7 \in c + 6 .. Len(line) /\ (c + 7) - 1 = c + 6
      /\ c + 6 \in 1 .. Len(line)
      /\ \A i \in c + 6 .. c + 6 : i = c + 6
  BY <1>1
<1>5. Upto(line, c + 6, "]") = <<w.cpu>>
  <2>1. Upto(line, c + 6, "]") = SubSeq(line, c + 6, (c + 7) - 1)
    <3>1. \A i \in c + 6 .. (c + 7) - 1 : line[i] # "]"
      BY <1>2, <1>3, <1>4, Zenon
    <3>2. /\ line \in Seq(Token) /\ "]" \in Token /\ line[c + 7] = "]"
          /\ c + 7 \in c + 6 .. Len(line) /\ c + 6 \in Nat \ {0}
      BY <1>1, <1>2, <1>4, Zenon
    <3> QED BY <3>1, <3>2, UptoStop, Zenon
  <2>2. SubSeq(line, c + 6, c + 6) = <<line[c + 6]>>
    BY <1>1, <1>4, TokenIs, Zenon
  <2> QED BY <1>2, <1>4, <2>1, <2>2, Zenon
<1>6. Trim(<<w.cpu>>) = <<w.cpu>>
  <2> DEFINE t == <<w.cpu>>
  <2>1. t \in Seq(Token) /\ Len(t) = 1 /\ t[1] = w.cpu
    BY <1>3
  <2> HIDE DEF t
  <2>2. Trim(t) = SubSeq(t, 0 + 1, 0 + 1)
    <3>1. /\ Len(t) = 0 + 1 /\ 0 \in Nat /\ 1 \in Nat \ {0}
          /\ \A i \in 1 .. 0 : t[i] = Blank
          /\ \A i \in 0 + 1 .. 0 + 1 : t[i] # Blank
      BY <1>3, <2>1
    <3> QED BY <2>1, <3>1, TrimSolid, Zenon
  <2>3. SubSeq(t, 1, Len(t)) = t
    BY <2>1, SubSeqFull, Zenon
  <2>4. Trim(t) = t
    BY <2>1, <2>2, <2>3
  <2> QED BY <2>4 DEF t
<1>7. Atoi(<<w.cpu>>) = Numeral[w.cpu]
  BY <1>3 DEF Atoi
<1>8. /\ Find(line, <<"[">>, 1) = c + 5 /\ Find(line, <<"]">>, c + 5) = c + 7
      /\ c + 5 # 0 /\ c + 7 # 0 /\ (c + 5) + 1 = c + 6
  BY <1>1, Brackets
<1>9. ExtractCPU(line) = Numeral[w.cpu]
  BY <1>5, <1>6, <1>7, <1>8, Zenon DEF ExtractCPU
<1> QED BY <1>3, <1>9 DEF OrZero

(* A part of a line.                                                       *)
LEMMA SliceIs ==
  ASSUME NEW line \in Seq(Token), NEW a \in Nat \ {0}, NEW b \in Nat,
         a <= b + 1, b <= Len(line)
  PROVE  /\ SubSeq(line, a, b) \in Seq(Token)
         /\ Len(SubSeq(line, a, b)) = b - a + 1
         /\ \A k \in 1 .. b - a + 1 : SubSeq(line, a, b)[k] = line[a + k - 1]
<1> DEFINE s == SubSeq(line, a, b)
<1>1. \A i \in a .. b : line[i] \in Token
  BY LenProperties, ElementOfSeq
<1>2. /\ s \in Seq(Token)
      /\ Len(s) = IF a <= b THEN b - a + 1 ELSE 0
      /\ \A k \in 1 .. b - a + 1 : s[k] = line[a + k - 1]
  BY <1>1, SubSeqProperties
<1> HIDE DEF s
<1>3. Len(s) = b - a + 1
  BY <1>2
<1> QED BY <1>2, <1>3 DEF s

(* The digits and dots before a colon, as ExtractTimestamp finds them.     *)
Run(line, colon) ==
  {i \in 1 .. colon : \A j \in i .. colon - 1 : line[j] \in Digital}

LEMMA RunStarts ==
  ASSUME NEW line, NEW colon \in Nat \ {0}
  PROVE  Min(Run(line, colon)) \in Run(line, colon)
<1>1. Run(line, colon) \subseteq Nat /\ colon \in Run(line, colon)
  BY DEF Run
<1> HIDE DEF Run
<1>2. Run(line, colon) # {}
  BY <1>1
<1> QED BY <1>1, <1>2, LeastIn, Zenon

LEMMA BlankNoDigit == Blank \notin Digital
<1>1. Blank \notin DOMAIN Numeral
  BY PlainFacts, Zenon
<1> QED BY <1>1, BlankIs, Zenon DEF Digital

LEMMA TimeFound ==
  ASSUME NEW w, NEW line, NEW c, NEW m, NEW d, Line(line, w, c, m, d)
  PROVE  ExtractTimestamp(line) = Time(w)
<1>1. /\ c \in Nat \ {0} /\ m \in {1, 2} /\ d \in Nat /\ w \in Written
      /\ line \in Seq(Token) /\ Len(line) = c + m + d + 17
      /\ LineAt(line, w, DetailText(w), c, m, d)
  BY Zenon DEF Line
<1>2. /\ line[c + 10] = Blank /\ line[c + 11] = w.seconds /\ line[c + 12] = "."
      /\ line[c + 13] = w.fraction /\ line[c + 14] = ":"
      /\ ":" \in Token /\ "." \in Token
  BY <1>1, ParserAssumption DEF LineAt, Marks
<1>3. \A i \in c + 7 .. (c + 14) - 1 : line[i] # ":"
  <2>1. (c + 14) - 1 = c + 13
    BY <1>1
  <2> QED BY <2>1, Nothing, Zenon
<1>4. /\ c + 7 \in Nat \ {0} /\ c + 14 \in c + 7 .. Len(line) /\ c + 7 # 0
      /\ (c + 14) - 1 = c + 13 /\ c + 14 # 0
  BY <1>1
<1>5. Find(line, <<"]">>, 1) = c + 7
  BY Brackets, Zenon
<1>6. Find(line, <<":">>, c + 7) = c + 14
  BY <1>1, <1>2, <1>3, <1>4, FindOne, Zenon
<1>7. /\ w.seconds \in DOMAIN Numeral /\ w.fraction \in DOMAIN Numeral
      /\ w.seconds # "." /\ w.fraction # "." /\ Chars[w.fraction] \in 0 .. 9
  BY <1>1, ReportFacts, PlainFacts, Zenon
<1>8. Min(Run(line, c + 14)) = c + 11
  <2>1. /\ line[c + 11] \in Digital /\ line[c + 12] \in Digital
        /\ line[c + 13] \in Digital /\ line[c + 10] \notin Digital
    BY <1>2, <1>7, BlankNoDigit, Zenon DEF Digital
  <2>2. c + 11 \in Run(line, c + 14)
    <3>1. \A j \in c + 11 .. (c + 14) - 1 : j = c + 11 \/ j = c + 12 \/ j = c + 13
      BY <1>1
    <3>2. c + 11 \in 1 .. c + 14
      BY <1>1
    <3> QED BY <2>1, <3>1, <3>2, Zenon DEF Run
  <2>3. ASSUME NEW i \in Run(line, c + 14) PROVE i \in Int /\ c + 11 <= i
    <3>1. i \in 1 .. c + 14 /\ \A j \in i .. (c + 14) - 1 : line[j] \in Digital
      BY DEF Run
    <3>2. c + 10 \notin i .. (c + 14) - 1
      BY <2>1, <3>1, Zenon
    <3> QED BY <1>1, <3>1, <3>2
  <2>4. Run(line, c + 14) \subseteq Int
    BY <2>3, Zenon
  <2> QED BY <2>2, <2>3, <2>4, LeastOf, Zenon
<1> DEFINE ts == SubSeq(line, c + 11, c + 13)
<1>9. ts \in Seq(Token) /\ Len(ts) = 3
      /\ ts[1] = w.seconds /\ ts[2] = "." /\ ts[3] = w.fraction
  <2>1. /\ c + 11 \in Nat \ {0} /\ c + 13 \in Nat /\ c + 11 <= (c + 13) + 1
        /\ c + 13 <= Len(line) /\ (c + 13) - (c + 11) + 1 = 3
        /\ (c + 11) + 1 - 1 = c + 11 /\ (c + 11) + 2 - 1 = c + 12
        /\ (c + 11) + 3 - 1 = c + 13
    BY <1>1
  <2>2. /\ ts \in Seq(Token) /\ Len(ts) = (c + 13) - (c + 11) + 1
        /\ \A k \in 1 .. (c + 13) - (c + 11) + 1 : ts[k] = line[(c + 11) + k - 1]
    <3>1. /\ line \in Seq(Token) /\ c + 11 \in Nat \ {0} /\ c + 13 \in Nat
          /\ c + 11 <= (c + 13) + 1 /\ c + 13 <= Len(line)
      BY <1>1, <2>1, Zenon
    <3> QED BY <3>1, SliceIs, Zenon
  <2>3. 1 \in 1 .. 3 /\ 2 \in 1 .. 3 /\ 3 \in 1 .. 3
    OBVIOUS
  <2> HIDE DEF ts
  <2> QED BY <1>2, <2>1, <2>2, <2>3, Zenon
<1> HIDE DEF ts
<1>10. Find(ts, <<".">>, 1) = 2
  <2>1. 1 \in Nat \ {0} /\ 2 \in 1 .. Len(ts)
    BY <1>9
  <2>2. \A i \in 1 .. 2 - 1 : ts[i] # "."
    BY <1>7, <1>9
  <2> QED BY <1>2, <1>9, <2>1, <2>2, FindOne, Zenon
<1>11. SubSeq(ts, 1, 1) = <<w.seconds>> /\ SubSeq(ts, 3, 3) = <<w.fraction>>
  <2>1. 1 \in 1 .. Len(ts) /\ 3 \in 1 .. Len(ts)
    BY <1>9
  <2> QED BY <1>9, <2>1, TokenIs, Zenon
<1>12. \A x \in DOMAIN Numeral :
         /\ Atoi(<<x>>) = Numeral[x] /\ <<x>> # <<>> /\ Head(<<x>>) = x
         /\ ~(Len(<<x>>) > 1)
  BY DEF Atoi
<1>13. ~(Chars[w.fraction] > 9)
  BY <1>7
<1>14. Nanos(<<w.fraction>>) = Numeral[w.fraction] * 10 ^ (9 - Chars[w.fraction])
  BY <1>7, <1>12, <1>13, Zenon DEF Nanos
<1>15. ExtractTimestamp(line) = Atoi(SubSeq(ts, 1, 1)) * 10 ^ 9 + Nanos(SubSeq(ts, 3, 3))
  <2>1. 2 - 1 = 1 /\ 2 + 1 = 3 /\ 2 # 0
    OBVIOUS
  <2>2. ExtractTimestamp(line) = Atoi(SubSeq(ts, 1, 2 - 1)) * 10 ^ 9
                                   + Nanos(SubSeq(ts, 2 + 1, Len(ts)))
    BY <1>4, <1>5, <1>6, <1>8, <1>10, <2>1, Zenon DEF ExtractTimestamp, Run, ts
  <2> QED BY <1>9, <2>1, <2>2, Zenon
<1> QED BY <1>7, <1>11, <1>12, <1>14, <1>15, Zenon DEF Time

LEMMA TaskFound ==
  ASSUME NEW w, NEW line, NEW c, NEW m, NEW d, Line(line, w, c, m, d)
  PROVE  ExtractCommPid(line) = [comm |-> Cut(w.prev.comm, CommChars),
                                 pid |-> Numeral[w.prev.pid]]
<1>1. /\ c \in Nat \ {0} /\ m \in {1, 2} /\ d \in Nat /\ w \in Written
      /\ line \in Seq(Token) /\ Len(line) = c + m + d + 17
      /\ LineAt(line, w, DetailText(w), c, m, d) /\ Sizes(w, c, m, d)
  BY Zenon DEF Line
<1>2. /\ line[1] = Blank /\ line[c + 2] = "-" /\ line[c + 3] = w.prev.pid
      /\ line[c + 4] = Blank /\ line[c + 5] = "["
      /\ \A i \in 2 .. c + 1 : line[i] = w.prev.comm[i - 1]
  BY <1>1 DEF LineAt
<1>3. /\ w.prev.comm \in Seq(Token) /\ c = Len(w.prev.comm)
      /\ w.prev.pid \in DOMAIN Numeral /\ w.prev.pid # Blank
  BY <1>1, ReportFacts, TaskFacts, PlainFacts, Zenon DEF Sizes
<1>4. Find(line, <<"[">>, 1) = c + 5 /\ c + 5 # 0
  BY <1>1, Brackets
<1> DEFINE dashes == {i \in 1 .. c + 5 : line[i] = "-"}
<1>5. Max(dashes) = c + 2 /\ dashes # {}
  <2>1. c \in Nat /\ line[c + 2] = "-"
    BY <1>1, <1>2, Zenon
  <2>2. \A i \in c + 3 .. c + 5 : line[i] # "-"
    BY Nothing, Zenon
  <2>3. dashes \subseteq Int /\ c + 2 \in dashes
    BY <2>1
  <2>4. \A j \in dashes : j <= c + 2
    BY <2>1, <2>2
  <2> HIDE DEF dashes
  <2>5. Max(dashes) = c + 2
    BY <2>3, <2>4, GreatestOf, Zenon
  <2> QED BY <2>3, <2>5
<1>6. Head(line) # "-"
  <2>1. line # <<>> /\ Head(line) = line[1]
    BY <1>1
  <2> QED BY <1>2, <2>1, BlankIs
<1>7. Trim(SubSeq(line, 1, (c + 2) - 1)) = w.prev.comm
  <2> DEFINE t == SubSeq(line, 1, c + 1)
  <2>2. /\ t \in Seq(Token) /\ Len(t) = 1 + c
        /\ \A i \in 1 .. c + 1 : t[i] = line[i]
    <3>1. c \in Nat
      BY <1>1
    <3>2. t \in Seq(Token) /\ Len(t) = c + 1 /\ \A i \in 1 .. c + 1 : t[i] = line[i]
      <4>1. line \in Seq(Token) /\ c + 1 \in 0 .. Len(line)
        BY <1>1
      <4> QED BY <4>1, HeadPart, Zenon
    <3> HIDE DEF t
    <3> QED BY <3>1, <3>2
  <2> HIDE DEF t
  <2>3. Trim(t) = SubSeq(t, 1 + 1, 1 + c)
    <3>1. c \in Nat \ {0} /\ 1 \in Nat /\ \A i \in 1 .. 1 : t[i] = Blank
      <4>1. c \in Nat \ {0} /\ line[1] = Blank
        BY <1>1, <1>2, Zenon
      <4> HIDE DEF t
      <4> QED BY <2>2, <4>1
    <3>2. \A i \in 1 + 1 .. 1 + c : t[i] # Blank
      <4>1. \A i \in 2 .. c + 1 : line[i] # Blank
        BY Nothing, Zenon
      <4>2. c \in Nat /\ \A i \in 1 .. c + 1 : t[i] = line[i]
        BY <1>1, <2>2
      <4> QED BY <4>1, <4>2
    <3> QED BY <2>2, <3>1, <3>2, TrimSolid, Zenon
  <2>4. SubSeq(t, 2, 1 + c) = w.prev.comm
    <3>1. \A j \in 1 .. c : t[2 + j - 1] = w.prev.comm[j]
      <4> SUFFICES ASSUME NEW j \in 1 .. c PROVE t[2 + j - 1] = w.prev.comm[j]
        OBVIOUS
      <4>1. 2 + j - 1 = j + 1 /\ j + 1 \in 2 .. c + 1 /\ (j + 1) - 1 = j
            /\ j + 1 \in 1 .. c + 1
        BY <1>1
      <4> QED BY <1>2, <2>2, <4>1, Zenon
    <3>2. 2 \in Nat \ {0} /\ 1 + c \in Int /\ 1 + c = 2 + c - 1 /\ 1 + c <= Len(t)
      BY <1>1, <2>2
    <3> QED BY <1>3, <2>2, <3>1, <3>2, PartIs, Zenon
  <2>5. 1 + 1 = 2 /\ (c + 2) - 1 = c + 1
    BY <1>1
  <2> QED BY <2>3, <2>4, <2>5, Zenon DEF t
<1>8. Upto(line, (c + 2) + 1, Blank) = <<w.prev.pid>>
  <2>1. /\ c + 3 \in Nat \ {0} /\ c + 4 \in c + 3 .. Len(line) /\ (c + 4) - 1 = c + 3
        /\ c + 3 \in 1 .. Len(line) /\ (c + 2) + 1 = c + 3
        /\ \A i \in c + 3 .. (c + 4) - 1 : i = c + 3
    BY <1>1
  <2>2. \A i \in c + 3 .. (c + 4) - 1 : line[i] # Blank
    BY <1>2, <1>3, <2>1, Zenon
  <2>3. Blank \in Token
    BY ParserAssumption DEF Marks
  <2>4. Upto(line, c + 3, Blank) = SubSeq(line, c + 3, (c + 4) - 1)
    BY <1>1, <1>2, <2>1, <2>2, <2>3, UptoStop, Zenon
  <2>5. SubSeq(line, c + 3, c + 3) = <<line[c + 3]>>
    BY <1>1, <2>1, TokenIs, Zenon
  <2> QED BY <1>2, <2>1, <2>4, <2>5, Zenon
<1>9. Atoi(<<w.prev.pid>>) = Numeral[w.prev.pid]
  BY <1>3 DEF Atoi
<1>10. dashes = {i \in 1 .. IF Find(line, <<"[">>, 1) = 0 THEN Len(line)
                            ELSE Find(line, <<"[">>, 1) : line[i] = "-"}
  BY <1>4, Zenon
<1> HIDE DEF dashes
<1> QED BY <1>4, <1>5, <1>6, <1>7, <1>8, <1>9, <1>10, Zenon DEF ExtractCommPid

LEMMA DetailsFound ==
  ASSUME NEW w, NEW line, NEW c, NEW m, NEW d, Line(line, w, c, m, d)
  PROVE  Details(line) = Cut(DetailText(w), DetailChars)
<1>1. /\ c \in Nat \ {0} /\ m \in {1, 2} /\ d \in Nat /\ w \in Written
      /\ line \in Seq(Token) /\ Len(line) = c + m + d + 17
      /\ LineAt(line, w, DetailText(w), c, m, d) /\ Sizes(w, c, m, d)
  BY Zenon DEF Line
<1>2. /\ line[c + 14] = ":" /\ line[c + 15] = Blank
      /\ line[c + m + 16] = ":" /\ line[c + m + 17] = Blank
      /\ \A i \in c + m + 18 .. c + m + d + 17 : line[i] = DetailText(w)[i - (c + m + 17)]
  BY <1>1, Zenon DEF LineAt
<1>3. ":" \in Token /\ Blank \in Token
  BY ParserAssumption DEF Marks
<1>4. /\ c + 7 \in Nat \ {0} /\ c + 14 \in c + 7 .. Len(line) - 1
      /\ (c + 14) + 1 = c + 15 /\ (c + 14) + 2 = c + 16 /\ (c + 14) - 1 = c + 13
      /\ c + 16 \in Nat \ {0} /\ c + m + 16 \in c + 16 .. Len(line) - 1
      /\ (c + m + 16) + 1 = c + m + 17 /\ (c + m + 16) + 2 = c + m + 18
      /\ (c + m + 16) - 1 = c + m + 15
      /\ c + 7 # 0 /\ c + 14 # 0 /\ c + m + 16 # 0
  BY <1>1
<1>5. Find(line, <<":", Blank>>, c + 7) = c + 14
  <2>1. \A i \in c + 7 .. (c + 14) - 1 : line[i] # ":"
    BY <1>4, Nothing, Zenon
  <2>2. /\ line \in Seq(Token) /\ ":" \in Token /\ Blank \in Token
        /\ c + 7 \in Nat \ {0} /\ c + 14 \in c + 7 .. Len(line) - 1
        /\ line[c + 14] = ":" /\ line[(c + 14) + 1] = Blank
    BY <1>1, <1>2, <1>3, <1>4, Zenon
  <2>3. FirstPair(line, ":", Blank, c + 7, c + 14)
    BY <2>1, <2>2, Zenon DEF FirstPair
  <2> QED BY <2>3, FindTwo, Zenon
<1>6. Find(line, <<":", Blank>>, c + 16) = c + m + 16
  <2>1. \A i \in c + 16 .. (c + m + 16) - 1 : line[i] # ":"
    BY <1>4, Nothing, Zenon
  <2>2. /\ line \in Seq(Token) /\ ":" \in Token /\ Blank \in Token
        /\ c + 16 \in Nat \ {0} /\ c + m + 16 \in c + 16 .. Len(line) - 1
        /\ line[c + m + 16] = ":" /\ line[(c + m + 16) + 1] = Blank
    BY <1>1, <1>2, <1>3, <1>4, Zenon
  <2>3. FirstPair(line, ":", Blank, c + 16, c + m + 16)
    BY <2>1, <2>2, Zenon DEF FirstPair
  <2> QED BY <2>3, FindTwo, Zenon
<1>7. Find(line, <<"]">>, 1) = c + 7
  BY Brackets, Zenon
<1>8. Details(line) = Cut(SubSeq(line, c + m + 18, Len(line)), DetailChars)
  BY <1>4, <1>5, <1>6, <1>7, Zenon DEF Details
<1>9. DetailText(w) \in Seq(Token) /\ d = Len(DetailText(w))
  BY <1>1, DetailIs, Zenon DEF Sizes
<1>10. /\ c + m + 18 \in Nat \ {0} /\ Len(line) \in Int
       /\ Len(line) = (c + m + 18) + d - 1 /\ Len(line) <= Len(line)
  BY <1>1
<1>11. ASSUME NEW j \in 1 .. d PROVE line[(c + m + 18) + j - 1] = DetailText(w)[j]
  <2> DEFINE i == (c + m + 18) + j - 1
  <2>1. i \in c + m + 18 .. c + m + d + 17 /\ i - (c + m + 17) = j
    BY <1>1
  <2> HIDE DEF i
  <2>2. line[i] = DetailText(w)[j]
    BY <1>2, <2>1, Zenon
  <2> QED BY <2>2 DEF i
<1>12. SubSeq(line, c + m + 18, Len(line)) = DetailText(w)
  BY <1>1, <1>9, <1>10, <1>11, PartIs, Zenon
<1> QED BY <1>8, <1>12, Zenon
-----------------------------------------------------------------------------
(* The names of events are where the event's name is, and the labels of a  *)
(* switch where they belong.                                               *)
Words == Labels \cup Keys
LabelsAt(p, q) == {1, p + 4, p + 8, p + 18, q + 21, q + 25}

LEMMA WordsAre ==
  /\ Blank \notin Words
  /\ {"-", "[", "]", ".", ":", "=", "d..1", "prev_state", "S", "==>", "vec", "1"}
       \cap Words = {}
  /\ Labels \cap Keys = {}
<1>1. Blank \notin Words
  BY BlankIs DEF Words
<1>2. {"-", "[", "]", ".", ":", "=", "d..1", "prev_state", "S", "==>", "vec", "1"}
        \cap Labels = {}
  BY DEF Labels
<1>3. {"-", "[", "]", ".", ":", "=", "d..1", "prev_state", "S", "==>", "vec", "1"}
        \cap Keys = {}
  BY DEF Keys, Single, Softirqs
<1>4. Labels \cap Keys = {}
  BY DEF Labels, Keys, Single, Softirqs
<1> QED BY <1>1, <1>2, <1>3, <1>4 DEF Words

QuietSwitch(s, x, x1, x2, p, y, y1, y2, q) ==
  /\ SwitchTokens(s, x, x1, x2, p, y, y1, y2, q)
  /\ p \in Nat /\ q \in Nat /\ p <= q
  /\ \A i \in 1 .. p : x[i] \notin Words
  /\ \A i \in 1 .. q - p : y[i] \notin Words
  /\ x1 \notin Words /\ x2 \notin Words /\ y1 \notin Words /\ y2 \notin Words

(* A switch's text has no key, and labels only where LabelsAt says.        *)
LEMMA SwitchQuiet ==
  ASSUME NEW s, NEW x, NEW x1, NEW x2, NEW p, NEW y, NEW y1, NEW y2, NEW q,
         QuietSwitch(s, x, x1, x2, p, y, y1, y2, q), NEW i \in 1 .. q + 27
  PROVE  s[i] \notin Keys /\ (i \notin LabelsAt(p, q) => s[i] \notin Labels)
<1>1. /\ s[1] = "prev_comm" /\ s[2] = "="
      /\ \A k \in 3 .. p + 2 : s[k] = x[k - 2]
      /\ \A k \in p + 20 .. q + 19 : s[k] = y[k - (p + 19)]
  BY DEF SwitchTokens, QuietSwitch
<1>2. /\ s[p + 3] = Blank /\ s[p + 4] = "prev_pid" /\ s[p + 5] = "="
      /\ s[p + 6] = x1 /\ s[p + 7] = Blank /\ s[p + 8] = "prev_prio"
      /\ s[p + 9] = "=" /\ s[p + 10] = x2 /\ s[p + 11] = Blank
  BY DEF SwitchTokens, QuietSwitch
<1>3. /\ s[p + 12] = "prev_state" /\ s[p + 13] = "=" /\ s[p + 14] = "S"
      /\ s[p + 15] = Blank /\ s[p + 16] = "==>" /\ s[p + 17] = Blank
      /\ s[p + 18] = "next_comm" /\ s[p + 19] = "="
  BY DEF SwitchTokens, QuietSwitch
<1>4. /\ s[q + 20] = Blank /\ s[q + 21] = "next_pid" /\ s[q + 22] = "="
      /\ s[q + 23] = y1 /\ s[q + 24] = Blank /\ s[q + 25] = "next_prio"
      /\ s[q + 26] = "=" /\ s[q + 27] = y2
  BY DEF SwitchTokens, QuietSwitch
<1>5. /\ Blank \notin Words /\ "=" \notin Words /\ "prev_state" \notin Words
      /\ "S" \notin Words /\ "==>" \notin Words
  BY WordsAre
<1>6. /\ "prev_comm" \notin Keys /\ "prev_pid" \notin Keys /\ "prev_prio" \notin Keys
      /\ "next_comm" \notin Keys /\ "next_pid" \notin Keys /\ "next_prio" \notin Keys
  BY WordsAre DEF Labels
<1>8. /\ p \in Nat /\ q \in Nat /\ p <= q
      /\ \A k \in 1 .. p : x[k] \notin Words
      /\ \A k \in 1 .. q - p : y[k] \notin Words
      /\ x1 \notin Words /\ x2 \notin Words /\ y1 \notin Words /\ y2 \notin Words
  BY DEF QuietSwitch
<1>7. s[i] \notin Words \/ (s[i] \notin Keys /\ i \in LabelsAt(p, q))
  <2>1. CASE i \in 1 .. p + 2
    <3>1. i = 1 \/ i = 2 \/ i \in 3 .. p + 2
      BY <1>8, <2>1
    <3>2. i \in 3 .. p + 2 => i - 2 \in 1 .. p
      BY <1>8, <2>1
    <3> QED BY <1>8, <1>1, <1>5, <1>6, <3>1, <3>2 DEF LabelsAt
  <2>2. CASE i \in p + 3 .. p + 11
    <3>1. \/ i = p + 3 \/ i = p + 4 \/ i = p + 5 \/ i = p + 6 \/ i = p + 7
          \/ i = p + 8 \/ i = p + 9 \/ i = p + 10 \/ i = p + 11
      BY <1>8, <2>2
    <3> QED BY <1>8, <1>2, <1>5, <1>6, <3>1 DEF LabelsAt
  <2>3. CASE i \in p + 12 .. p + 19
    <3>1. \/ i = p + 12 \/ i = p + 13 \/ i = p + 14 \/ i = p + 15 \/ i = p + 16
          \/ i = p + 17 \/ i = p + 18 \/ i = p + 19
      BY <1>8, <2>3
    <3> QED BY <1>8, <1>3, <1>5, <1>6, <3>1 DEF LabelsAt
  <2>4. CASE i \in p + 20 .. q + 19
    <3>1. i - (p + 19) \in 1 .. q - p
      BY <1>8, <2>4
    <3> QED BY <1>8, <1>1, <2>4, <3>1
  <2>5. CASE i \in q + 20 .. q + 27
    <3>1. \/ i = q + 20 \/ i = q + 21 \/ i = q + 22 \/ i = q + 23 \/ i = q + 24
          \/ i = q + 25 \/ i = q + 26 \/ i = q + 27
      BY <1>8, <2>5
    <3> QED BY <1>8, <1>4, <1>5, <1>6, <3>1 DEF LabelsAt
  <2>6. \/ i \in 1 .. p + 2 \/ i \in p + 3 .. p + 11 \/ i \in p + 12 .. p + 19
        \/ i \in p + 20 .. q + 19 \/ i \in q + 20 .. q + 27
    BY <1>8
  <2> QED BY <2>1, <2>2, <2>3, <2>4, <2>5, <2>6
<1> QED BY <1>7 DEF Words

(* What is known of the two tasks of a report.                             *)
LEMMA TaskQuiet ==
  ASSUME NEW task, IsTask(task)
  PROVE  /\ \A i \in 1 .. Len(task.comm) : task.comm[i] \notin Words
         /\ task.pid \notin Words /\ task.prio \notin Words
<1>1. /\ \A i \in 1 .. Len(task.comm) :
           task.comm[i] \notin {Blank, "[", "]"} \cup Labels \cup Keys
      /\ {task.pid, task.prio} \subseteq Token \ (Marks \cup Labels \cup Keys)
  BY TaskFacts, Zenon
<1> QED BY <1>1 DEF Words

(* The text of a switch, with all that is known of its tokens.             *)
LEMMA SwitchKnown ==
  ASSUME NEW prev, NEW next, IsTask(prev), IsTask(next),
         NEW p, NEW q, SwitchSizes(prev, next, p, q)
  PROVE  /\ Len(SwitchText(prev, next)) = q + 27
         /\ QuietSwitch(SwitchText(prev, next), prev.comm, prev.pid, prev.prio, p,
                        next.comm, next.pid, next.prio, q)
<1> DEFINE s == SwitchText(prev, next)
           r == Len(next.comm)
<1>1. p = Len(prev.comm) /\ q = p + r
  BY Zenon DEF SwitchSizes
<1>2. p \in Nat /\ r \in Nat
  BY <1>1, TaskFacts
<1>3. /\ \A k \in 1 .. p : prev.comm[k] \notin Words
      /\ \A k \in 1 .. r : next.comm[k] \notin Words
      /\ prev.pid \notin Words /\ prev.prio \notin Words
      /\ next.pid \notin Words /\ next.prio \notin Words
  BY <1>1, TaskQuiet, Zenon
<1>4. Len(s) = q + 27 /\ SwitchTokens(s, prev.comm, prev.pid, prev.prio, p,
                                  next.comm, next.pid, next.prio, q)
  BY SwitchIs, Zenon
<1> HIDE DEF s, r
<1>5. q \in Nat /\ p <= q /\ q - p = r
  <2>1. p \in Nat /\ r \in Nat /\ q = p + r
    BY <1>1, <1>2, Zenon
  <2> QED BY <2>1
<1>6. \A k \in 1 .. q - p : next.comm[k] \notin Words
  BY <1>3, <1>5, Zenon
<1>7. QuietSwitch(s, prev.comm, prev.pid, prev.prio, p,
                  next.comm, next.pid, next.prio, q)
  BY <1>2, <1>3, <1>4, <1>5, <1>6, Zenon DEF QuietSwitch
<1> QED BY <1>4, <1>7, Zenon DEF s

(* No details have a key: a key stands only in the event's name.           *)
LEMMA DetailQuiet ==
  ASSUME NEW w \in Written, NEW i \in 1 .. Len(DetailText(w))
  PROVE  DetailText(w)[i] \notin Keys
<1>1. CASE w.name = <<"sched_switch">>
  <2> DEFINE p == Len(w.prev.comm)
             q == p + Len(w.next.comm)
             s == SwitchText(w.prev, w.next)
  <2>1. DetailText(w) = s
    BY <1>1, Zenon DEF DetailText
  <2>2. IsTask(w.prev) /\ IsTask(w.next)
    BY ReportFacts, Zenon
  <2>3. SwitchSizes(w.prev, w.next, p, q)
    BY Zenon DEF SwitchSizes
  <2> HIDE DEF p, q
  <2>4. Len(s) = q + 27 /\ QuietSwitch(s, w.prev.comm, w.prev.pid, w.prev.prio, p,
                                       w.next.comm, w.next.pid, w.next.prio, q)
    BY <2>2, <2>3, SwitchKnown, Zenon
  <2> HIDE DEF s
  <2>5. s[i] \notin Keys
    BY <2>1, <2>4, SwitchQuiet, Zenon
  <2> QED BY <2>1, <2>5, Zenon
<1>2. CASE w.name # <<"sched_switch">>
  <2> DEFINE s == <<"vec", "=", "1">>
  <2>1. DetailText(w) = s
    BY <1>2, Zenon DEF DetailText
  <2>2. Len(s) = 3 /\ s[1] = "vec" /\ s[2] = "=" /\ s[3] = "1"
    OBVIOUS
  <2> HIDE DEF s
  <2>3. i \in 1 .. 3
    BY <2>1, <2>2, Zenon
  <2>4. i = 1 \/ i = 2 \/ i = 3
    BY <2>3
  <2>5. "vec" \notin Keys /\ "=" \notin Keys /\ "1" \notin Keys
    BY WordsAre DEF Words
  <2> QED BY <2>1, <2>2, <2>4, <2>5, Zenon
<1> QED BY <1>1, <1>2

LEMMA KeyPlaces ==
  ASSUME NEW w, NEW line, NEW c, NEW m, NEW d, Line(line, w, c, m, d),
         NEW i \in 1 .. Len(line), line[i] \in Keys
  PROVE  i \in c + 16 .. c + m + 15
<1>1. /\ c \in Nat \ {0} /\ m \in {1, 2} /\ d \in Nat /\ w \in Written
      /\ Sizes(w, c, m, d) /\ LineAt(line, w, DetailText(w), c, m, d)
  BY Zenon DEF Line
<1>2. i \in 1 .. c + m + d + 17
  BY Zenon DEF Line
<1>3. /\ line[1] = Blank
      /\ \A k \in 2 .. c + 1 : line[k] = w.prev.comm[k - 1]
      /\ line[c + 2] = "-" /\ line[c + 3] = w.prev.pid /\ line[c + 4] = Blank
      /\ line[c + 5] = "[" /\ line[c + 6] = w.cpu /\ line[c + 7] = "]"
  BY <1>1, Zenon DEF LineAt
<1>4. /\ line[c + 8] = Blank /\ line[c + 9] = "d..1" /\ line[c + 10] = Blank
      /\ line[c + 11] = w.seconds /\ line[c + 12] = "." /\ line[c + 13] = w.fraction
      /\ line[c + 14] = ":" /\ line[c + 15] = Blank
  BY <1>1, Zenon DEF LineAt
<1>5. /\ line[c + m + 16] = ":" /\ line[c + m + 17] = Blank
      /\ \A k \in c + m + 18 .. c + m + d + 17 :
           line[k] = DetailText(w)[k - (c + m + 17)]
  BY <1>1, Zenon DEF LineAt
<1>6. /\ \A k \in 1 .. c : w.prev.comm[k] \notin Keys
      /\ \A k \in 1 .. d : DetailText(w)[k] \notin Keys
  <2>1. \A k \in 1 .. c : w.prev.comm[k] \notin {Blank, "[", "]"} \cup Labels \cup Keys
    BY <1>1, SizesFacts, Zenon
  <2>2. \A k \in 1 .. d : DetailText(w)[k] \notin Keys
    BY <1>1, DetailQuiet, Zenon DEF Sizes
  <2> QED BY <2>1, <2>2, Zenon
<1>7. /\ w.prev.pid \notin Keys /\ w.cpu \notin Keys
      /\ w.seconds \notin Keys /\ w.fraction \notin Keys
  BY <1>1, ReportFacts, PlainFacts, Zenon
<1>8. /\ Blank \notin Keys /\ "-" \notin Keys /\ "[" \notin Keys /\ "]" \notin Keys
      /\ "." \notin Keys /\ ":" \notin Keys /\ "d..1" \notin Keys
  BY WordsAre DEF Words
<1>9. c \in Nat /\ m \in Nat /\ d \in Nat
  BY <1>1
<1> HIDE DEF Line
<1>10. CASE i \in 1 .. c + 7
  <2>1. \/ i = 1 \/ i \in 2 .. c + 1 \/ i = c + 2 \/ i = c + 3 \/ i = c + 4
        \/ i = c + 5 \/ i = c + 6 \/ i = c + 7
    BY <1>9, <1>10
  <2>2. i \in 2 .. c + 1 => i - 1 \in 1 .. c
    BY <1>9
  <2> QED BY <1>3, <1>6, <1>7, <1>8, <2>1, <2>2, Zenon
<1>11. CASE i \in c + 8 .. c + 15
  <2>1. \/ i = c + 8 \/ i = c + 9 \/ i = c + 10 \/ i = c + 11
        \/ i = c + 12 \/ i = c + 13 \/ i = c + 14 \/ i = c + 15
    BY <1>9, <1>11
  <2> QED BY <1>4, <1>7, <1>8, <2>1, Zenon
<1>12. CASE i \in c + m + 16 .. c + m + d + 17
  <2>1. \/ i = c + m + 16 \/ i = c + m + 17 \/ i \in c + m + 18 .. c + m + d + 17
    BY <1>9, <1>12
  <2>2. i \in c + m + 18 .. c + m + d + 17 => i - (c + m + 17) \in 1 .. d
    BY <1>9
  <2> QED BY <1>5, <1>6, <1>8, <2>1, <2>2, Zenon
<1>13. \/ i \in 1 .. c + 7 \/ i \in c + 8 .. c + 15 \/ i \in c + 16 .. c + m + 15
       \/ i \in c + m + 16 .. c + m + d + 17
  BY <1>2, <1>9
<1> QED BY <1>10, <1>11, <1>12, <1>13, Zenon

(* Which of the parser's names it finds in the line.                       *)
LEMMA KeyIncluded ==
  ASSUME NEW w, NEW line, NEW c, NEW m, NEW d, Line(line, w, c, m, d),
         NEW key \in Keys, key # "soft"
  PROVE  Includes(line, <<key, ":">>) <=> w.name[m] = key
<1>1. /\ c \in Nat \ {0} /\ m \in {1, 2} /\ d \in Nat /\ w \in Written
      /\ line \in Seq(Token) /\ Len(line) = c + m + d + 17
      /\ Sizes(w, c, m, d) /\ LineAt(line, w, DetailText(w), c, m, d)
  BY Zenon DEF Line
<1>2. key \in Token /\ ":" \in Token
  BY ParserAssumption DEF Marks
<1>3. /\ \A k \in c + 16 .. c + m + 15 : line[k] = w.name[k - (c + 15)]
      /\ line[c + m + 16] = ":"
  BY <1>1, Zenon DEF LineAt
<1>4. m = 2 => w.name[1] = "soft"
  BY <1>1, ReportFacts, NameIs, Zenon DEF Sizes
<1>5. ASSUME NEW i \in 1 .. Len(line), line[i] = key
      PROVE  i = c + m + 15 /\ w.name[m] = key
  <2>1. i \in c + 16 .. c + m + 15
    BY <1>5, KeyPlaces, Zenon
  <2>2. c \in Nat /\ m \in {1, 2}
    BY <1>1, Zenon
  <2>3. i - (c + 15) = m \/ (m = 2 /\ i - (c + 15) = 1)
    BY <2>1, <2>2
  <2>4. i - (c + 15) = m
    BY <1>3, <1>4, <1>5, <2>1, <2>3, Zenon
  <2>5. i = c + m + 15
    BY <2>1, <2>2, <2>4
  <2> QED BY <1>3, <1>5, <2>1, <2>4, <2>5, Zenon
<1>6. ASSUME w.name[m] = key PROVE Includes(line, <<key, ":">>)
  <2> DEFINE p == c + m + 15
  <2>1. /\ p \in 1 .. Len(line) - 1 /\ p + 1 = c + m + 16 /\ p # 0
        /\ p \in c + 16 .. c + m + 15 /\ p - (c + 15) = m
        /\ \A i \in 1 .. p - 1 : i \in 1 .. Len(line) /\ i # p
    BY <1>1
  <2>2. line[p] = key /\ line[p + 1] = ":"
    BY <1>3, <1>6, <2>1, Zenon
  <2>3. \A i \in 1 .. p - 1 : line[i] # key
    BY <1>5, <2>1, Zenon
  <2>4. 1 \in Nat \ {0}
    OBVIOUS
  <2> HIDE DEF p
  <2>5. FirstPair(line, key, ":", 1, p)
    BY <1>1, <1>2, <2>1, <2>2, <2>3, <2>4, Zenon DEF FirstPair
  <2>6. Find(line, <<key, ":">>, 1) = p
    BY <2>5, FindTwo, Zenon
  <2> QED BY <2>1, <2>6, Zenon DEF Includes
<1>7. ASSUME w.name[m] # key PROVE ~Includes(line, <<key, ":">>)
  <2>1. ASSUME NEW i \in 1 .. Len(line) PROVE ~At(line, <<key, ":">>, i)
    <3>1. line[i] # key
      BY <1>5, <1>7, Zenon
    <3>2. At(line, <<key, ":">>, i) <=> i < Len(line) /\ line[i] = key /\ line[i + 1] = ":"
      BY <1>1, <1>2, AtTwo
    <3> QED BY <3>1, <3>2
  <2>2. Find(line, <<key, ":">>, 1) = 0
    BY <2>1, FindNone, Zenon
  <2> QED BY <2>2, Zenon DEF Includes
<1> QED BY <1>6, <1>7

(* A softirq's name is found in no line whose event has a plain name.      *)
LEMMA SoftIncluded ==
  ASSUME NEW w, NEW line, NEW c, NEW m, NEW d, Line(line, w, c, m, d), m = 1,
         NEW key \in Keys
  PROVE  ~Includes(line, <<"soft", key, ":">>)
<1>1. /\ c \in Nat \ {0} /\ w \in Written /\ line \in Seq(Token)
      /\ Sizes(w, c, m, d) /\ LineAt(line, w, DetailText(w), c, m, d)
  BY Zenon DEF Line
<1>2. key \in Token /\ ":" \in Token /\ "soft" \in Token
  BY ParserAssumption DEF Marks, Keys
<1>3. w.name[1] # "soft"
  <2>1. "soft" \in Keys /\ "soft" \notin Single
    BY DEF Keys, Single
  <2>2. \/ \E k \in Single : w.name = <<k>> /\ w.name[1] = k
        \/ w.name[1] \notin Marks \cup Labels \cup Keys
    BY <1>1, ReportFacts, NameIs, Zenon DEF Sizes
  <2> QED BY <2>1, <2>2
<1>4. ASSUME NEW i \in 1 .. Len(line) PROVE ~At(line, <<"soft", key, ":">>, i)
  <2>1. line[i] # "soft"
    <3> SUFFICES ASSUME line[i] = "soft" PROVE FALSE
      OBVIOUS
    <3>1. "soft" \in Keys
      BY DEF Keys
    <3>2. i \in c + 16 .. c + m + 15
      BY <3>1, KeyPlaces, Zenon
    <3>3. i - (c + 15) = 1
      BY <1>1, <3>2
    <3>4. line[i] = w.name[1]
      BY <1>1, <3>2, <3>3, Zenon DEF LineAt
    <3> QED BY <1>3, <3>4
  <2>2. At(line, <<"soft", key, ":">>, i) <=>
          i + 1 < Len(line) /\ line[i] = "soft" /\ line[i + 1] = key /\ line[i + 2] = ":"
    BY <1>1, <1>2, AtThree
  <2> QED BY <2>1, <2>2
<1>5. Find(line, <<"soft", key, ":">>, 1) = 0
  BY <1>4, FindNone, Zenon
<1> QED BY <1>5, Zenon DEF Includes
-----------------------------------------------------------------------------
(* The parser's names, in the order they are tried.                        *)
LEMMA NamesAre ==
  /\ DOMAIN Names = 1 .. 10
  /\ Names[1] = <<"kSchedSwitch", <<"sched_switch", ":">>>>
  /\ Names[2] = <<"kSchedWakeup", <<"sched_wakeup", ":">>>>
  /\ Names[3] = <<"kIrqEntry", <<"irq_handler_entry", ":">>>>
  /\ Names[4] = <<"kIrqEntry", <<"irq_entry", ":">>>>
  /\ Names[5] = <<"kIrqExit", <<"irq_handler_exit", ":">>>>
  /\ Names[6] = <<"kIrqExit", <<"irq_exit", ":">>>>
  /\ Names[7] = <<"kSoftirqEntry", <<"soft", "irq_entry", ":">>>>
  /\ Names[8] = <<"kSoftirqExit", <<"soft", "irq_exit", ":">>>>
  /\ Names[9] = <<"kFunctionEntry", <<"funcgraph_entry", ":">>>>
  /\ Names[10] = <<"kFunctionExit", <<"funcgraph_exit", ":">>>>
BY DEF Names

(* k is the one entry of Names that is found.                              *)
OnlyFound(line, k) ==
  k \in 1 .. 10 /\ \A j \in 1 .. 10 : Includes(line, Names[j][2]) <=> j = k

(* The type, when one name is found and when none is.                      *)
LEMMA ClassifyOne ==
  ASSUME NEW line, NEW k, OnlyFound(line, k)
  PROVE  ClassifyEvent(line) = Names[k][1]
<1> DEFINE at == {j \in DOMAIN Names : Includes(line, Names[j][2])}
<1>1. at = {k}
  BY NamesAre DEF OnlyFound
<1>2. k \in Int
  BY DEF OnlyFound
<1> HIDE DEF at
<1>3. Min(at) = k /\ at # {}
  BY <1>1, <1>2, LeastOf
<1> QED BY <1>3 DEF ClassifyEvent, at

LEMMA ClassifyNone ==
  ASSUME NEW line, \A j \in 1 .. 10 : ~Includes(line, Names[j][2])
  PROVE  ClassifyEvent(line) = "kUnknown"
<1>1. {j \in DOMAIN Names : Includes(line, Names[j][2])} = {}
  BY NamesAre
<1> QED BY <1>1, Zenon DEF ClassifyEvent

(* An event is a switch only if "sched_switch:" is in its line.            *)
LEMMA ClassifyOther ==
  ASSUME NEW line, ~Includes(line, <<"sched_switch", ":">>)
  PROVE  ClassifyEvent(line) # "kSchedSwitch"
<1> DEFINE at == {j \in DOMAIN Names : Includes(line, Names[j][2])}
<1>1. at \subseteq 2 .. 10
  <2>1. Names[1][2] = <<"sched_switch", ":">> /\ DOMAIN Names = 1 .. 10
    BY NamesAre
  <2>2. 1 \notin at
    BY <2>1, Zenon
  <2>3. at \subseteq 1 .. 10
    BY <2>1, Zenon
  <2> HIDE DEF at
  <2> QED BY <2>2, <2>3
<1>2. \A j \in 2 .. 10 : Names[j][1] # "kSchedSwitch"
  <2> SUFFICES ASSUME NEW j \in 2 .. 10 PROVE Names[j][1] # "kSchedSwitch"
    OBVIOUS
  <2>1. \/ j = 2 \/ j = 3 \/ j = 4 \/ j = 5 \/ j = 6 \/ j = 7 \/ j = 8 \/ j = 9 \/ j = 10
    OBVIOUS
  <2> QED BY <2>1, NamesAre
<1> HIDE DEF at
<1>3. CASE at = {}
  BY <1>3 DEF ClassifyEvent, at
<1>4. CASE at # {}
  <2>1. Min(at) \in at
    <3>1. at \subseteq Nat
      BY <1>1
    <3> QED BY <1>4, <3>1, LeastIn, Zenon
  <2>2. ClassifyEvent(line) = Names[Min(at)][1]
    BY <1>4 DEF ClassifyEvent, at
  <2> QED BY <1>1, <1>2, <2>1, <2>2, Zenon
<1> QED BY <1>3, <1>4

(* The types of the names the kernel writes.                               *)
Found(line, name) ==
  /\ \A key \in Keys \ {"soft"} : Includes(line, <<key, ":">>) <=> name[1] = key
  /\ \A key \in Keys : ~Includes(line, <<"soft", key, ":">>)

(* An event of a known name has its type; of another, none.                *)
LEMMA TypeOfOne ==
  ASSUME NEW line, NEW name, Found(line, name), NEW key \in Single, name = <<key>>,
         name[1] = key
  PROVE  ClassifyEvent(line) = TypeOf(name)
<1>1. /\ \A k \in {"sched_switch", "sched_wakeup", "irq_handler_entry", "irq_entry",
                   "irq_handler_exit", "irq_exit", "funcgraph_entry", "funcgraph_exit"} :
           Includes(line, <<k, ":">>) <=> key = k
      /\ ~Includes(line, <<"soft", "irq_entry", ":">>)
      /\ ~Includes(line, <<"soft", "irq_exit", ":">>)
  BY DEF Found, Keys, Single, Softirqs
<1>2. /\ Includes(line, Names[1][2]) <=> key = "sched_switch"
      /\ Includes(line, Names[2][2]) <=> key = "sched_wakeup"
      /\ Includes(line, Names[3][2]) <=> key = "irq_handler_entry"
      /\ Includes(line, Names[4][2]) <=> key = "irq_entry"
      /\ Includes(line, Names[5][2]) <=> key = "irq_handler_exit"
      /\ Includes(line, Names[6][2]) <=> key = "irq_exit"
      /\ ~Includes(line, Names[7][2])
      /\ ~Includes(line, Names[8][2])
      /\ Includes(line, Names[9][2]) <=> key = "funcgraph_entry"
      /\ Includes(line, Names[10][2]) <=> key = "funcgraph_exit"
  BY <1>1, NamesAre
<1>3. \A j \in 1 .. 10 : \/ j = 1 \/ j = 2 \/ j = 3 \/ j = 4 \/ j = 5
                         \/ j = 6 \/ j = 7 \/ j = 8 \/ j = 9 \/ j = 10
  OBVIOUS
<1>4. key \in {"sched_switch", "sched_wakeup", "irq_handler_entry",
               "irq_handler_exit", "funcgraph_entry", "funcgraph_exit"}
  BY DEF Single
<1>5. CASE key = "sched_switch"
  <2>1. OnlyFound(line, 1)
    BY <1>2, <1>3, <1>5 DEF OnlyFound
  <2>2. ClassifyEvent(line) = "kSchedSwitch"
    BY <2>1, ClassifyOne, NamesAre
  <2> QED BY <1>5, <2>2 DEF TypeOf
<1>6. CASE key = "sched_wakeup"
  <2>1. OnlyFound(line, 2)
    BY <1>2, <1>3, <1>6 DEF OnlyFound
  <2>2. ClassifyEvent(line) = "kSchedWakeup"
    BY <2>1, ClassifyOne, NamesAre
  <2> QED BY <1>6, <2>2 DEF TypeOf
<1>7. CASE key = "irq_handler_entry"
  <2>1. OnlyFound(line, 3)
    BY <1>2, <1>3, <1>7 DEF OnlyFound
  <2>2. ClassifyEvent(line) = "kIrqEntry"
    BY <2>1, ClassifyOne, NamesAre
  <2> QED BY <1>7, <2>2 DEF TypeOf
<1>8. CASE key = "irq_handler_exit"
  <2>1. OnlyFound(line, 5)
    BY <1>2, <1>3, <1>8 DEF OnlyFound
  <2>2. ClassifyEvent(line) = "kIrqExit"
    BY <2>1, ClassifyOne, NamesAre
  <2> QED BY <1>8, <2>2 DEF TypeOf
<1>9. CASE key = "funcgraph_entry"
  <2>1. OnlyFound(line, 9)
    BY <1>2, <1>3, <1>9 DEF OnlyFound
  <2>2. ClassifyEvent(line) = "kFunctionEntry"
    BY <2>1, ClassifyOne, NamesAre
  <2> QED BY <1>9, <2>2 DEF TypeOf
<1>10. CASE key = "funcgraph_exit"
  <2>1. OnlyFound(line, 10)
    BY <1>2, <1>3, <1>10 DEF OnlyFound
  <2>2. ClassifyEvent(line) = "kFunctionExit"
    BY <2>1, ClassifyOne, NamesAre
  <2> QED BY <1>10, <2>2 DEF TypeOf
<1> QED BY <1>4, <1>5, <1>6, <1>7, <1>8, <1>9, <1>10

LEMMA TypeOfNone ==
  ASSUME NEW line, NEW name, Found(line, name), name[1] \notin Keys
  PROVE  ClassifyEvent(line) = TypeOf(name)
<1>1. /\ \A k \in {"sched_switch", "sched_wakeup", "irq_handler_entry", "irq_entry",
                   "irq_handler_exit", "irq_exit", "funcgraph_entry", "funcgraph_exit"} :
           ~Includes(line, <<k, ":">>)
      /\ ~Includes(line, <<"soft", "irq_entry", ":">>)
      /\ ~Includes(line, <<"soft", "irq_exit", ":">>)
  BY DEF Found, Keys, Single, Softirqs
<1>2. /\ ~Includes(line, Names[1][2]) /\ ~Includes(line, Names[2][2])
      /\ ~Includes(line, Names[3][2]) /\ ~Includes(line, Names[4][2])
      /\ ~Includes(line, Names[5][2]) /\ ~Includes(line, Names[6][2])
      /\ ~Includes(line, Names[7][2]) /\ ~Includes(line, Names[8][2])
      /\ ~Includes(line, Names[9][2]) /\ ~Includes(line, Names[10][2])
  BY <1>1, NamesAre
<1>3. \A j \in 1 .. 10 : \/ j = 1 \/ j = 2 \/ j = 3 \/ j = 4 \/ j = 5
                         \/ j = 6 \/ j = 7 \/ j = 8 \/ j = 9 \/ j = 10
  OBVIOUS
<1>4. \A j \in 1 .. 10 : ~Includes(line, Names[j][2])
  BY <1>2, <1>3, Zenon
<1>5. /\ name # <<"sched_switch">> /\ name # <<"sched_wakeup">>
      /\ name # <<"irq_handler_entry">> /\ name # <<"irq_handler_exit">>
      /\ name # <<"soft", "irq_entry">> /\ name # <<"soft", "irq_exit">>
      /\ name # <<"funcgraph_entry">> /\ name # <<"funcgraph_exit">>
  BY DEF Keys, Single, Softirqs
<1>6. TypeOf(name) = "kUnknown"
  BY <1>5, Zenon DEF TypeOf
<1> QED BY <1>4, <1>6, ClassifyNone, Zenon

(* The type is the name's, but for softirqs, and a switch is a switch.     *)
LEMMA TypeFound ==
  ASSUME NEW w, NEW line, NEW c, NEW m, NEW d, Line(line, w, c, m, d)
  PROVE  /\ IsSoftirq(w) \/ ClassifyEvent(line) = TypeOf(w.name)
         /\ ClassifyEvent(line) = "kSchedSwitch" => w.name = <<"sched_switch">>
<1>1. w \in Written /\ m \in {1, 2} /\ m = Len(w.name)
  BY Zenon DEF Line, Sizes
<1>2. /\ w.name \in Seq(Token)
      /\ m = 1 => \/ \E key \in Single : w.name = <<key>> /\ w.name[1] = key
                  \/ w.name[1] \notin Marks \cup Labels \cup Keys
      /\ m = 2 => w.name[1] = "soft" /\ w.name[2] \in Softirqs
  BY <1>1, ReportFacts, NameIs, Zenon
<1>3. CASE m = 2
  <2>1. IsSoftirq(w)
    <3>1. Head(w.name) = w.name[1]
      BY <1>2
    <3> QED BY <1>2, <1>3, <3>1 DEF IsSoftirq
  <2>2. "sched_switch" \in Keys /\ "sched_switch" # "soft" /\ "sched_switch" \notin Softirqs
    BY DEF Keys, Single, Softirqs
  <2>3. w.name[m] # "sched_switch"
    BY <1>2, <1>3, <2>2
  <2>4. ~Includes(line, <<"sched_switch", ":">>)
    BY <2>2, <2>3, KeyIncluded, Zenon
  <2> QED BY <2>1, <2>4, ClassifyOther, Zenon
<1>4. CASE m = 1
  <2>1. Found(line, w.name)
    <3>1. ASSUME NEW key \in Keys \ {"soft"}
          PROVE  Includes(line, <<key, ":">>) <=> w.name[1] = key
      <4>1. key \in Keys /\ key # "soft"
        OBVIOUS
      <4>2. Includes(line, <<key, ":">>) <=> w.name[m] = key
        BY <4>1, KeyIncluded, Zenon
      <4> QED BY <1>4, <4>2, Zenon
    <3>2. ASSUME NEW key \in Keys PROVE ~Includes(line, <<"soft", key, ":">>)
      BY <1>4, SoftIncluded, Zenon
    <3> QED BY <3>1, <3>2, Zenon DEF Found
  <2>2. CASE \E key \in Single : w.name = <<key>> /\ w.name[1] = key
    <3>1. PICK key \in Single : w.name = <<key>> /\ w.name[1] = key
      BY <2>2
    <3>2. ClassifyEvent(line) = TypeOf(w.name)
      BY <2>1, <3>1, TypeOfOne, Zenon
    <3>3. CASE key = "sched_switch"
      BY <3>1, <3>2, <3>3
    <3>4. CASE key # "sched_switch"
      <4>1. "sched_switch" \in Keys /\ "sched_switch" # "soft"
        BY DEF Keys, Single
      <4>2. ~Includes(line, <<"sched_switch", ":">>)
        <5>1. w.name[m] # "sched_switch"
          BY <1>4, <3>1, <3>4
        <5> QED BY <4>1, <5>1, KeyIncluded, Zenon
      <4> QED BY <3>2, <4>2, ClassifyOther, Zenon
    <3> QED BY <3>3, <3>4
  <2>3. CASE w.name[1] \notin Keys
    <3>1. ClassifyEvent(line) = TypeOf(w.name)
      BY <2>1, <2>3, TypeOfNone, Zenon
    <3>2. "sched_switch" \in Keys /\ "sched_switch" # "soft"
      BY DEF Keys, Single
    <3>3. ~Includes(line, <<"sched_switch", ":">>)
      BY <1>4, <2>3, <3>2, KeyIncluded, Zenon
    <3> QED BY <3>1, <3>3, ClassifyOther, Zenon
  <2> QED BY <1>2, <1>4, <2>2, <2>3
<1> QED BY <1>1, <1>3, <1>4

(* The first of the parser's names that is found gives the type.           *)
LEMMA ClassifyFirst ==
  ASSUME NEW line, NEW k \in 1 .. 10, Includes(line, Names[k][2]),
         \A j \in 1 .. 10 : Includes(line, Names[j][2]) => k <= j
  PROVE  ClassifyEvent(line) = Names[k][1]
<1> DEFINE at == {j \in DOMAIN Names : Includes(line, Names[j][2])}
<1>1. DOMAIN Names = 1 .. 10
  BY NamesAre, Zenon
<1>2. k \in at /\ \A j \in at : k <= j
  BY <1>1, Zenon
<1>3. at \subseteq Int
  BY <1>1
<1> HIDE DEF at
<1>4. Min(at) = k /\ at # {}
  BY <1>2, <1>3, LeastOf, Zenon
<1> QED BY <1>4, Zenon DEF ClassifyEvent, at

(* A softirq is found under the name of a plain interrupt, tried before.   *)
LEMMA SoftirqFound ==
  ASSUME NEW w, NEW line, NEW c, NEW m, NEW d, Line(line, w, c, m, d), IsSoftirq(w)
  PROVE  \/ w.name = <<"soft", "irq_entry">> /\ ClassifyEvent(line) = "kIrqEntry"
         \/ w.name = <<"soft", "irq_exit">> /\ ClassifyEvent(line) = "kIrqExit"
<1>1. w \in Written /\ m = Len(w.name)
  BY Zenon DEF Line, Sizes
<1>2. /\ w.name \in Seq(Token) /\ Len(w.name) \in {1, 2}
      /\ Len(w.name) = 1 => \/ \E key \in Single : w.name = <<key>> /\ w.name[1] = key
                            \/ w.name[1] \notin Marks \cup Labels \cup Keys
      /\ Len(w.name) = 2 => w.name[1] = "soft" /\ w.name[2] \in Softirqs
  BY <1>1, ReportFacts, NameIs, Zenon
<1>3. w.name[1] = "soft"
  <2>1. Head(w.name) = w.name[1]
    BY <1>2
  <2> QED BY <2>1, Zenon DEF IsSoftirq
<1>4. Len(w.name) = 2 /\ w.name[2] \in Softirqs
  <2>1. "soft" \in Keys /\ "soft" \notin Single
    BY DEF Keys, Single
  <2> QED BY <1>2, <1>3, <2>1
<1>5. \A key \in Keys \ {"soft"} : Includes(line, <<key, ":">>) <=> w.name[2] = key
  <2> SUFFICES ASSUME NEW key \in Keys \ {"soft"}
               PROVE  Includes(line, <<key, ":">>) <=> w.name[2] = key
    OBVIOUS
  <2>1. key \in Keys /\ key # "soft"
    OBVIOUS
  <2>2. Includes(line, <<key, ":">>) <=> w.name[m] = key
    BY <2>1, KeyIncluded, Zenon
  <2>3. m = 2
    BY <1>1, <1>4, Zenon
  <2> QED BY <2>2, <2>3, Zenon
<1>6. \A j \in 1 .. 10 : \/ j = 1 \/ j = 2 \/ j = 3 \/ j = 4 \/ j = 5
                         \/ j = 6 \/ j = 7 \/ j = 8 \/ j = 9 \/ j = 10
  OBVIOUS
<1>7. CASE w.name[2] = "irq_entry"
  <2>1. w.name = <<"soft", "irq_entry">>
    BY <1>2, <1>3, <1>4, <1>7
  <2>2. /\ ~Includes(line, <<"sched_switch", ":">>)
        /\ ~Includes(line, <<"sched_wakeup", ":">>)
        /\ ~Includes(line, <<"irq_handler_entry", ":">>)
        /\ Includes(line, <<"irq_entry", ":">>)
    BY <1>5, <1>7 DEF Keys, Single, Softirqs
  <2>3. /\ ~Includes(line, Names[1][2]) /\ ~Includes(line, Names[2][2])
        /\ ~Includes(line, Names[3][2]) /\ Includes(line, Names[4][2])
    BY <2>2, NamesAre
  <2>4. \A j \in 1 .. 10 : Includes(line, Names[j][2]) => 4 <= j
    <3>1. 4 <= 4 /\ 4 <= 5 /\ 4 <= 6 /\ 4 <= 7 /\ 4 <= 8 /\ 4 <= 9 /\ 4 <= 10
      OBVIOUS
    <3> QED BY <1>6, <2>3, <3>1, Zenon
  <2>5. ClassifyEvent(line) = Names[4][1]
    <3>1. 4 \in 1 .. 10
      OBVIOUS
    <3> QED BY <2>3, <2>4, <3>1, ClassifyFirst, Zenon
  <2> QED BY <2>1, <2>5, NamesAre
<1>8. CASE w.name[2] = "irq_exit"
  <2>1. w.name = <<"soft", "irq_exit">>
    BY <1>2, <1>3, <1>4, <1>8
  <2>2. /\ ~Includes(line, <<"sched_switch", ":">>)
        /\ ~Includes(line, <<"sched_wakeup", ":">>)
        /\ ~Includes(line, <<"irq_handler_entry", ":">>)
        /\ ~Includes(line, <<"irq_entry", ":">>)
        /\ ~Includes(line, <<"irq_handler_exit", ":">>)
        /\ Includes(line, <<"irq_exit", ":">>)
    BY <1>5, <1>8 DEF Keys, Single, Softirqs
  <2>3. /\ ~Includes(line, Names[1][2]) /\ ~Includes(line, Names[2][2])
        /\ ~Includes(line, Names[3][2]) /\ ~Includes(line, Names[4][2])
        /\ ~Includes(line, Names[5][2]) /\ Includes(line, Names[6][2])
    BY <2>2, NamesAre
  <2>4. \A j \in 1 .. 10 : Includes(line, Names[j][2]) => 6 <= j
    <3>1. 6 <= 6 /\ 6 <= 7 /\ 6 <= 8 /\ 6 <= 9 /\ 6 <= 10
      OBVIOUS
    <3> QED BY <1>6, <2>3, <3>1, Zenon
  <2>5. ClassifyEvent(line) = Names[6][1]
    <3>1. 6 \in 1 .. 10
      OBVIOUS
    <3> QED BY <2>3, <2>4, <3>1, ClassifyFirst, Zenon
  <2> QED BY <2>1, <2>5, NamesAre
<1> QED BY <1>4, <1>7, <1>8 DEF Softirqs
-----------------------------------------------------------------------------
(* A label of a switch at a, and its value t up to the next blank or to    *)
(* the end of the line.                                                    *)
FieldAt(line, label, a, t) ==
  /\ line \in Seq(Token) /\ label \in Token /\ t \in Seq(Token)
  /\ a \in Nat \ {0} /\ a + 1 + Len(t) <= Len(line)
  /\ line[a] = label /\ line[a + 1] = "="
  /\ \A i \in 1 .. a - 1 : line[i] # label
  /\ \A j \in 1 .. Len(t) : line[a + 1 + j] = t[j] /\ t[j] # Blank
  /\ \/ a + 1 + Len(t) = Len(line)
     \/ a + 2 + Len(t) <= Len(line) /\ line[a + 2 + Len(t)] = Blank

(* Field returns the value.                                                *)
LEMMA FieldIs ==
  ASSUME NEW line, NEW label, NEW a, NEW t, FieldAt(line, label, a, t)
  PROVE  Field(line, label) = t
<1> DEFINE n == Len(t)
           z == Len(line)
<1>1. /\ line \in Seq(Token) /\ label \in Token /\ t \in Seq(Token)
      /\ a \in Nat \ {0} /\ a + 1 + n <= z
      /\ line[a] = label /\ line[a + 1] = "="
      /\ \A i \in 1 .. a - 1 : line[i] # label
      /\ \A j \in 1 .. n : line[a + 1 + j] = t[j] /\ t[j] # Blank
      /\ (a + 1 + n = z \/ (a + 2 + n <= z /\ line[a + 2 + n] = Blank))
  BY Zenon DEF FieldAt
<1>2. n \in Nat /\ z \in Nat
  BY <1>1, LenProperties
<1>3. "=" \in Token /\ Blank \in Token
  BY ParserAssumption DEF Marks
<1> HIDE DEF n
<1>4. Find(line, <<label, "=">>, 1) = a
  <2>1. a \in 1 .. z - 1 /\ 1 \in Nat \ {0}
    <3> HIDE DEF z
    <3> QED BY <1>1, <1>2
  <2>2. FirstPair(line, label, "=", 1, a)
    BY <1>1, <1>3, <2>1, Zenon DEF FirstPair
  <2> QED BY <2>2, FindTwo, Zenon
<1>5. \A i \in a + 2 .. a + 1 + n : line[i] # Blank
  <2> SUFFICES ASSUME NEW i \in a + 2 .. a + 1 + n PROVE line[i] # Blank
    OBVIOUS
  <2> DEFINE j == i - (a + 1)
  <2>1. a \in Nat
    BY <1>1
  <2>2. j \in 1 .. n /\ a + 1 + j = i
    BY <1>2, <2>1
  <2> HIDE DEF j
  <2> QED BY <1>1, <2>2, Zenon
<1>6. SubSeq(line, a + 2, a + 1 + n) = t
  <2>1. a \in Nat
    BY <1>1
  <2>2. a + 2 \in Nat \ {0} /\ a + 1 + n \in Int /\ a + 1 + n = (a + 2) + n - 1
    BY <1>2, <2>1
  <2>3. ASSUME NEW j \in 1 .. n PROVE line[(a + 2) + j - 1] = t[j]
    <3>1. (a + 2) + j - 1 = a + 1 + j
      BY <2>1
    <3> QED BY <1>1, <3>1
  <2> QED BY <1>1, <2>2, <2>3, PartIs, Zenon DEF n
<1>7. CASE a + 1 + n = z
  <2>1. \A i \in a + 2 .. z : line[i] # Blank
    BY <1>5, <1>7, Zenon
  <2>2. a + 2 \in Nat \ {0}
    BY <1>1
  <2>3. Upto(line, a + 2, Blank) = SubSeq(line, a + 2, z)
    BY <1>1, <1>3, <2>1, <2>2, UptoEnd, Zenon
  <2>4. a # 0
    BY <1>1
  <2> HIDE DEF z
  <2>5. Upto(line, a + 2, Blank) = t
    BY <1>6, <1>7, <2>3, Zenon
  <2> QED BY <1>4, <2>4, <2>5, Zenon DEF Field
<1>8. CASE a + 2 + n <= z /\ line[a + 2 + n] = Blank
  <2> DEFINE p == a + 2 + n
  <2>1. /\ a + 2 \in Nat \ {0} /\ p \in a + 2 .. z /\ p - 1 = a + 1 + n /\ a # 0
    <3>1. a \in Nat \ {0} /\ n \in Nat /\ z \in Nat /\ a + 2 + n <= z
      BY <1>1, <1>2, <1>8, Zenon
    <3> HIDE DEF z
    <3> QED BY <3>1
  <2>2. line[p] = Blank
    BY <1>8, Zenon
  <2> HIDE DEF p
  <2>3. \A i \in a + 2 .. p - 1 : line[i] # Blank
    BY <1>5, <2>1, Zenon
  <2>4. Upto(line, a + 2, Blank) = SubSeq(line, a + 2, p - 1)
    BY <1>1, <1>3, <2>1, <2>2, <2>3, UptoStop, Zenon
  <2>5. Upto(line, a + 2, Blank) = t
    BY <1>6, <2>1, <2>4, Zenon
  <2> QED BY <1>4, <2>1, <2>5, Zenon DEF Field
<1> QED BY <1>1, <1>7, <1>8, Zenon

(* A line that has the text s of a switch after its first o tokens.        *)
InSwitch(line, o, s, p, q) ==
  /\ line \in Seq(Token) /\ o \in Nat /\ p \in Nat /\ q \in Nat /\ p <= q
  /\ Len(line) = o + q + 27
  /\ \A j \in 1 .. q + 27 : line[o + j] = s[j]
  /\ \A i \in 1 .. o : line[i] \notin Labels
  /\ \A j \in 1 .. q + 27 : j \notin LabelsAt(p, q) => s[j] \notin Labels

(* The text s has the label first at j and then its value t.               *)
Valued(s, label, j, t, p, q) ==
  /\ label \in Labels /\ t \in Seq(Token) /\ j \in Nat \ {0}
  /\ s[j] = label /\ s[j + 1] = "="
  /\ \A k \in LabelsAt(p, q) : k < j => s[k] # label
  /\ \A k \in 1 .. Len(t) : s[j + 1 + k] = t[k] /\ t[k] # Blank
  /\ \/ j + 1 + Len(t) = q + 27
     \/ j + 2 + Len(t) <= q + 27 /\ s[j + 2 + Len(t)] = Blank

(* A value in the text of a switch is found in the line.                   *)
LEMMA ValueFound ==
  ASSUME NEW line, NEW o, NEW s, NEW p, NEW q, InSwitch(line, o, s, p, q),
         NEW label, NEW j, NEW t, Valued(s, label, j, t, p, q)
  PROVE  Field(line, label) = t
<1> DEFINE n == Len(t)
           z == Len(line)
<1>1. /\ line \in Seq(Token) /\ o \in Nat /\ p \in Nat /\ q \in Nat /\ p <= q
      /\ z = o + q + 27
      /\ \A k \in 1 .. q + 27 : line[o + k] = s[k]
      /\ \A i \in 1 .. o : line[i] \notin Labels
      /\ \A k \in 1 .. q + 27 : k \notin LabelsAt(p, q) => s[k] \notin Labels
  BY Zenon DEF InSwitch
<1>2. /\ label \in Labels /\ t \in Seq(Token) /\ j \in Nat \ {0}
      /\ s[j] = label /\ s[j + 1] = "="
      /\ \A k \in LabelsAt(p, q) : k < j => s[k] # label
      /\ \A k \in 1 .. n : s[j + 1 + k] = t[k] /\ t[k] # Blank
      /\ \/ j + 1 + n = q + 27
         \/ j + 2 + n <= q + 27 /\ s[j + 2 + n] = Blank
  BY Zenon DEF Valued
<1>3. label \in Token
  BY <1>2, ParserAssumption
<1>4. n \in Nat
  BY <1>2, LenProperties, Zenon
<1>5. o \in Nat /\ q \in Nat /\ j \in Nat \ {0} /\ n \in Nat /\ z = o + q + 27
  BY <1>1, <1>2, <1>4, Zenon
<1> HIDE DEF n, z
<1>6. j + 1 + n <= q + 27
  <2>1. j + 1 + n = q + 27 \/ j + 2 + n <= q + 27
    BY <1>2, Zenon
  <2> QED BY <1>5, <2>1
<1> DEFINE a == o + j
<1>7. /\ a \in Nat \ {0} /\ a + 1 + n <= z /\ a + 1 = o + (j + 1)
      /\ j \in 1 .. q + 27 /\ j + 1 \in 1 .. q + 27
      /\ a + 2 + n = o + (j + 2 + n)
      /\ (j + 1 + n = q + 27 => a + 1 + n = z)
      /\ (j + 2 + n <= q + 27 => a + 2 + n <= z /\ j + 2 + n \in 1 .. q + 27)
      /\ \A k \in 1 .. n : a + 1 + k = o + (j + 1 + k) /\ j + 1 + k \in 1 .. q + 27
  BY <1>5, <1>6
<1>8. \A i \in 1 .. a - 1 : line[i] # label
  <2> SUFFICES ASSUME NEW i \in 1 .. a - 1 PROVE line[i] # label
    OBVIOUS
  <2>1. CASE i <= o
    <3>1. i \in 1 .. o
      BY <1>5, <2>1
    <3> QED BY <1>1, <1>2, <3>1, Zenon
  <2>2. CASE i > o
    <3> DEFINE k == i - o
    <3>1. k \in 1 .. q + 27 /\ k < j /\ o + k = i
      BY <1>5, <1>7, <2>2
    <3> HIDE DEF k
    <3> QED BY <1>1, <1>2, <3>1, Zenon
  <2>3. i <= o \/ i > o
    BY <1>5
  <2> QED BY <2>1, <2>2, <2>3
<1> HIDE DEF a
<1>9. line[a] = label /\ line[a + 1] = "="
  BY <1>1, <1>2, <1>7, Zenon DEF a
<1>10. \A k \in 1 .. n : line[a + 1 + k] = t[k] /\ t[k] # Blank
  <2> SUFFICES ASSUME NEW k \in 1 .. n PROVE line[a + 1 + k] = t[k] /\ t[k] # Blank
    OBVIOUS
  <2>1. a + 1 + k = o + (j + 1 + k) /\ j + 1 + k \in 1 .. q + 27
    BY <1>7, Zenon
  <2>2. line[o + (j + 1 + k)] = s[j + 1 + k] /\ s[j + 1 + k] = t[k] /\ t[k] # Blank
    BY <1>1, <1>2, <2>1, Zenon
  <2> QED BY <2>1, <2>2, Zenon
<1>11. \/ a + 1 + n = z
       \/ a + 2 + n <= z /\ line[a + 2 + n] = Blank
  BY <1>1, <1>2, <1>7, Zenon
<1>12. FieldAt(line, label, a, t)
  BY <1>1, <1>2, <1>3, <1>7, <1>8, <1>9, <1>10, <1>11, Zenon DEF FieldAt, n, z
<1> QED BY <1>12, FieldIs, Zenon

(* The values of a switch: a number, and all six.                          *)
LEMMA NumberValued ==
  ASSUME NEW s, NEW label \in Labels, NEW j \in Nat \ {0}, NEW x \in DOMAIN Numeral,
         NEW p, NEW q \in Nat, s[j] = label, s[j + 1] = "=", s[j + 2] = x,
         \A k \in LabelsAt(p, q) : k < j => s[k] # label,
         j + 2 = q + 27 \/ (j + 3 <= q + 27 /\ s[j + 3] = Blank)
  PROVE  Valued(s, label, j, <<x>>, p, q)
<1> DEFINE t == <<x>>
<1>1. x \in Token /\ x # Blank
  BY PlainFacts
<1>2. t \in Seq(Token) /\ Len(t) = 1 /\ t[1] = x
  BY <1>1
<1> HIDE DEF t
<1>3. \A k \in 1 .. Len(t) : s[j + 1 + k] = t[k] /\ t[k] # Blank
  <2>1. j + 1 + 1 = j + 2 /\ \A k \in 1 .. 1 : k = 1
    OBVIOUS
  <2>2. s[j + 1 + 1] = t[1] /\ t[1] # Blank
    BY <1>1, <1>2, <2>1, Zenon
  <2> QED BY <1>2, <2>1, <2>2, Zenon
<1>4. \/ j + 1 + Len(t) = q + 27
      \/ j + 2 + Len(t) <= q + 27 /\ s[j + 2 + Len(t)] = Blank
  <2>1. j + 1 + 1 = j + 2 /\ j + 2 + 1 = j + 3
    OBVIOUS
  <2> QED BY <1>2, <2>1, Zenon
<1>5. Valued(s, label, j, t, p, q)
  BY <1>2, <1>3, <1>4, Zenon DEF Valued
<1> QED BY <1>5 DEF t

LEMMA SwitchValues ==
  ASSUME NEW prev, NEW next, IsTask(prev), IsTask(next), NEW s,
         NEW p, NEW q, SwitchSizes(prev, next, p, q),
         QuietSwitch(s, prev.comm, prev.pid, prev.prio, p,
                     next.comm, next.pid, next.prio, q)
  PROVE  /\ Valued(s, "prev_comm", 1, prev.comm, p, q)
         /\ Valued(s, "prev_pid", p + 4, <<prev.pid>>, p, q)
         /\ Valued(s, "prev_prio", p + 8, <<prev.prio>>, p, q)
         /\ Valued(s, "next_comm", p + 18, next.comm, p, q)
         /\ Valued(s, "next_pid", q + 21, <<next.pid>>, p, q)
         /\ Valued(s, "next_prio", q + 25, <<next.prio>>, p, q)
<1>1. /\ p \in Nat /\ q \in Nat /\ p <= q
      /\ SwitchTokens(s, prev.comm, prev.pid, prev.prio, p,
                  next.comm, next.pid, next.prio, q)
  BY Zenon DEF QuietSwitch
<1>2. /\ s[1] = "prev_comm" /\ s[2] = "="
      /\ \A i \in 3 .. p + 2 : s[i] = prev.comm[i - 2]
      /\ s[p + 3] = Blank /\ s[p + 4] = "prev_pid" /\ s[p + 5] = "="
      /\ s[p + 6] = prev.pid /\ s[p + 7] = Blank /\ s[p + 8] = "prev_prio"
      /\ s[p + 9] = "=" /\ s[p + 10] = prev.prio /\ s[p + 11] = Blank
  BY <1>1, Zenon DEF SwitchTokens
<1>3. /\ s[p + 18] = "next_comm" /\ s[p + 19] = "="
      /\ \A i \in p + 20 .. q + 19 : s[i] = next.comm[i - (p + 19)]
      /\ s[q + 20] = Blank /\ s[q + 21] = "next_pid" /\ s[q + 22] = "="
      /\ s[q + 23] = next.pid /\ s[q + 24] = Blank /\ s[q + 25] = "next_prio"
      /\ s[q + 26] = "=" /\ s[q + 27] = next.prio
  BY <1>1, Zenon DEF SwitchTokens
<1>4. /\ prev.pid \in DOMAIN Numeral /\ prev.prio \in DOMAIN Numeral
      /\ next.pid \in DOMAIN Numeral /\ next.prio \in DOMAIN Numeral
  BY DEF IsTask
<1>5. /\ prev.comm \in Seq(Token) /\ next.comm \in Seq(Token)
      /\ p = Len(prev.comm) /\ q = p + Len(next.comm)
      /\ \A i \in 1 .. p : prev.comm[i] # Blank
      /\ \A i \in 1 .. Len(next.comm) : next.comm[i] # Blank
  <2>1. p = Len(prev.comm) /\ q = p + Len(next.comm)
    BY Zenon DEF SwitchSizes
  <2>2. /\ prev.comm \in Seq(Token) /\ next.comm \in Seq(Token)
        /\ \A i \in 1 .. p : prev.comm[i] \notin {Blank, "[", "]"} \cup Labels \cup Keys
        /\ \A i \in 1 .. Len(next.comm) :
             next.comm[i] \notin {Blank, "[", "]"} \cup Labels \cup Keys
    BY <2>1, TaskFacts, Zenon
  <2>3. \A x : x \notin {Blank, "[", "]"} \cup Labels \cup Keys => x # Blank
    OBVIOUS
  <2> QED BY <2>1, <2>2, <2>3, Zenon
<1>6. /\ \A k \in LabelsAt(p, q) : k < 1 => s[k] # "prev_comm"
      /\ \A k \in LabelsAt(p, q) : k < p + 4 => s[k] # "prev_pid"
      /\ \A k \in LabelsAt(p, q) : k < p + 8 => s[k] # "prev_prio"
      /\ \A k \in LabelsAt(p, q) : k < p + 18 => s[k] # "next_comm"
      /\ \A k \in LabelsAt(p, q) : k < q + 21 => s[k] # "next_pid"
      /\ \A k \in LabelsAt(p, q) : k < q + 25 => s[k] # "next_prio"
  <2>1. p \in Nat /\ q \in Nat /\ p <= q
    BY <1>1, Zenon
  <2>2. /\ s[1] = "prev_comm" /\ s[p + 4] = "prev_pid" /\ s[p + 8] = "prev_prio"
        /\ s[p + 18] = "next_comm" /\ s[q + 21] = "next_pid" /\ s[q + 25] = "next_prio"
    BY <1>2, <1>3, Zenon
  <2>3. \A k \in LabelsAt(p, q) : k \notin {p + 4, p + 8, p + 18, q + 21, q + 25} => k = 1
    BY DEF LabelsAt
  <2> QED BY <2>1, <2>2 DEF LabelsAt
<1>7. /\ "prev_comm" \in Labels /\ "prev_pid" \in Labels /\ "prev_prio" \in Labels
      /\ "next_comm" \in Labels /\ "next_pid" \in Labels /\ "next_prio" \in Labels
  BY DEF Labels
<1>8. p \in Nat /\ q \in Nat /\ p <= q
  BY <1>1, Zenon
<1>9. Valued(s, "prev_pid", p + 4, <<prev.pid>>, p, q)
  <2>1. /\ p + 4 \in Nat \ {0} /\ (p + 4) + 1 = p + 5 /\ (p + 4) + 2 = p + 6
        /\ (p + 4) + 3 = p + 7 /\ (p + 4) + 3 <= q + 27
    BY <1>8
  <2> QED BY <1>2, <1>4, <1>6, <1>7, <1>8, <2>1, NumberValued, Zenon
<1>10. Valued(s, "prev_prio", p + 8, <<prev.prio>>, p, q)
  <2>1. /\ p + 8 \in Nat \ {0} /\ (p + 8) + 1 = p + 9 /\ (p + 8) + 2 = p + 10
        /\ (p + 8) + 3 = p + 11 /\ (p + 8) + 3 <= q + 27
    BY <1>8
  <2> QED BY <1>2, <1>4, <1>6, <1>7, <1>8, <2>1, NumberValued, Zenon
<1>11. Valued(s, "next_pid", q + 21, <<next.pid>>, p, q)
  <2>1. /\ q + 21 \in Nat \ {0} /\ (q + 21) + 1 = q + 22 /\ (q + 21) + 2 = q + 23
        /\ (q + 21) + 3 = q + 24 /\ (q + 21) + 3 <= q + 27
    BY <1>8
  <2> QED BY <1>3, <1>4, <1>6, <1>7, <1>8, <2>1, NumberValued, Zenon
<1>12. Valued(s, "next_prio", q + 25, <<next.prio>>, p, q)
  <2>1. /\ q + 25 \in Nat \ {0} /\ (q + 25) + 1 = q + 26 /\ (q + 25) + 2 = q + 27
    BY <1>8
  <2> QED BY <1>3, <1>4, <1>6, <1>7, <1>8, <2>1, NumberValued, Zenon
<1>13. Valued(s, "prev_comm", 1, prev.comm, p, q)
  <2>1. /\ 1 \in Nat \ {0} /\ 1 + 1 = 2 /\ 1 + 2 + p = p + 3 /\ 1 + 2 + p <= q + 27
    BY <1>8
  <2>3. ASSUME NEW k \in 1 .. p
        PROVE  s[1 + 1 + k] = prev.comm[k] /\ prev.comm[k] # Blank
    <3> DEFINE i == 1 + 1 + k
    <3>1. i \in 3 .. p + 2 /\ i - 2 = k
      BY <1>8
    <3> HIDE DEF i
    <3>2. s[i] = prev.comm[k]
      BY <1>2, <3>1, Zenon
    <3> QED BY <1>5, <3>2, Zenon DEF i
  <2>4. 1 + 2 + p <= q + 27 /\ s[1 + 2 + p] = Blank
    BY <1>2, <2>1, Zenon
  <2> QED BY <1>2, <1>5, <1>6, <1>7, <2>1, <2>3, <2>4, Zenon DEF Valued
<1>14. Valued(s, "next_comm", p + 18, next.comm, p, q)
  <2> DEFINE r == Len(next.comm)
  <2>1. r \in Nat /\ q = p + r
    BY <1>5, LenProperties, Zenon
  <2> HIDE DEF r
  <2>2. /\ p + 18 \in Nat \ {0} /\ (p + 18) + 1 = p + 19
        /\ (p + 18) + 2 + r = q + 20 /\ (p + 18) + 2 + r <= q + 27
    BY <1>8, <2>1
  <2>4. ASSUME NEW k \in 1 .. r
        PROVE  s[(p + 18) + 1 + k] = next.comm[k] /\ next.comm[k] # Blank
    <3> DEFINE i == (p + 18) + 1 + k
    <3>1. i \in p + 20 .. q + 19 /\ i - (p + 19) = k
      BY <1>8, <2>1
    <3> HIDE DEF i
    <3>2. s[i] = next.comm[k]
      BY <1>3, <3>1, Zenon
    <3> QED BY <1>5, <3>2, Zenon DEF i, r
  <2>5. (p + 18) + 2 + r <= q + 27 /\ s[(p + 18) + 2 + r] = Blank
    BY <1>3, <2>2, Zenon
  <2> QED BY <1>3, <1>5, <1>6, <1>7, <2>2, <2>4, <2>5, Zenon DEF Valued, r
<1> QED BY <1>9, <1>10, <1>11, <1>12, <1>13, <1>14, Zenon

(* What ParseSchedSwitch returns for the line of a switch.                 *)
Switch(w) ==
  [ts |-> Time(w), cpu |-> Numeral[w.cpu],
   prev_comm |-> Cut(w.prev.comm, CommChars),
   next_comm |-> Cut(w.next.comm, CommChars),
   prev_pid |-> Numeral[w.prev.pid], next_pid |-> Numeral[w.next.pid],
   prev_prio |-> Numeral[w.prev.prio], next_prio |-> Numeral[w.next.prio]]

(* A line about a switch has that switch's text, and all six are found.    *)
LEMMA LineInSwitch ==
  ASSUME NEW w, NEW line, NEW c, NEW m, NEW d, Line(line, w, c, m, d),
         NEW p, NEW q, NEW s, s = DetailText(w), Len(s) = q + 27,
         NEW x, NEW x1, NEW x2, NEW y, NEW y1, NEW y2,
         QuietSwitch(s, x, x1, x2, p, y, y1, y2, q)
  PROVE  InSwitch(line, c + m + 17, s, p, q)
<1> DEFINE o == c + m + 17
           z == Len(line)
<1>1. /\ c \in Nat \ {0} /\ m \in {1, 2} /\ d \in Nat /\ w \in Written
      /\ line \in Seq(Token) /\ z = c + m + d + 17
      /\ LineAt(line, w, s, c, m, d) /\ d = Len(s)
  BY Zenon DEF Line, Sizes
<1>2. p \in Nat /\ q \in Nat /\ p <= q
  BY Zenon DEF QuietSwitch
<1>3. \A j \in 1 .. q + 27 : j \notin LabelsAt(p, q) => s[j] \notin Labels
  BY SwitchQuiet, Zenon
<1>4. \A i \in 1 .. o : line[i] \notin Labels
  BY Nothing, Zenon
<1>5. c \in Nat /\ m \in Nat /\ d = q + 27 /\ z = c + m + d + 17
  <2>1. c \in Nat \ {0} /\ m \in {1, 2} /\ d = q + 27 /\ z = c + m + d + 17
    BY <1>1, Zenon
  <2> HIDE DEF z
  <2> QED BY <2>1
<1> HIDE DEF z
<1>6. o \in Nat /\ z = o + q + 27 /\ d \in Nat
  BY <1>2, <1>5
<1>7. ASSUME NEW j \in 1 .. q + 27 PROVE line[o + j] = s[j]
  <2> DEFINE i == o + j
  <2>1. i \in c + m + 18 .. c + m + d + 17 /\ i - (c + m + 17) = j
    BY <1>2, <1>5
  <2> HIDE DEF i, o
  <2>2. line[i] = s[j]
    BY <1>1, <2>1, Zenon DEF LineAt
  <2> QED BY <2>2 DEF i
<1> QED BY <1>1, <1>2, <1>3, <1>4, <1>6, <1>7, Zenon DEF InSwitch, z

LEMMA SwitchFound ==
  ASSUME NEW w, NEW line, NEW c, NEW m, NEW d, Line(line, w, c, m, d),
         w.name = <<"sched_switch">>
  PROVE  ParseSchedSwitch(line) = Switch(w)
<1> DEFINE p == Len(w.prev.comm)
           q == p + Len(w.next.comm)
           s == DetailText(w)
           o == c + m + 17
<1>1. w \in Written
  BY Zenon DEF Line
<1>2. IsTask(w.prev) /\ IsTask(w.next)
  BY <1>1, ReportFacts, Zenon
<1>3. SwitchSizes(w.prev, w.next, p, q)
  BY Zenon DEF SwitchSizes
<1> HIDE DEF p, q
<1>4. s = SwitchText(w.prev, w.next)
  BY Zenon DEF DetailText
<1>5. Len(s) = q + 27 /\ QuietSwitch(s, w.prev.comm, w.prev.pid, w.prev.prio, p,
                                     w.next.comm, w.next.pid, w.next.prio, q)
  BY <1>2, <1>3, <1>4, SwitchKnown, Zenon
<1>6. InSwitch(line, o, s, p, q)
  BY <1>5, LineInSwitch, Zenon
<1> HIDE DEF s, o
<1>7. /\ Valued(s, "prev_comm", 1, w.prev.comm, p, q)
      /\ Valued(s, "prev_pid", p + 4, <<w.prev.pid>>, p, q)
      /\ Valued(s, "prev_prio", p + 8, <<w.prev.prio>>, p, q)
      /\ Valued(s, "next_comm", p + 18, w.next.comm, p, q)
      /\ Valued(s, "next_pid", q + 21, <<w.next.pid>>, p, q)
      /\ Valued(s, "next_prio", q + 25, <<w.next.prio>>, p, q)
  BY <1>2, <1>3, <1>5, SwitchValues, Zenon
<1>8. /\ Field(line, "prev_comm") = w.prev.comm
      /\ Field(line, "prev_pid") = <<w.prev.pid>>
      /\ Field(line, "prev_prio") = <<w.prev.prio>>
      /\ Field(line, "next_comm") = w.next.comm
      /\ Field(line, "next_pid") = <<w.next.pid>>
      /\ Field(line, "next_prio") = <<w.next.prio>>
  <2>1. ASSUME NEW label, NEW j, NEW t, Valued(s, label, j, t, p, q)
        PROVE  Field(line, label) = t
    BY <1>6, <2>1, ValueFound, Zenon
  <2> QED BY <1>7, <2>1, Zenon
<1>9. /\ Atoi(<<w.prev.pid>>) = Numeral[w.prev.pid]
      /\ Atoi(<<w.prev.prio>>) = Numeral[w.prev.prio]
      /\ Atoi(<<w.next.pid>>) = Numeral[w.next.pid]
      /\ Atoi(<<w.next.prio>>) = Numeral[w.next.prio]
  <2>1. ASSUME NEW x \in DOMAIN Numeral PROVE Atoi(<<x>>) = Numeral[x]
    BY DEF Atoi
  <2> QED BY <1>1, <2>1, ReportFacts, Zenon
<1>10. ExtractTimestamp(line) = Time(w) /\ OrZero(ExtractCPU(line)) = Numeral[w.cpu]
  BY TimeFound, CPUFound, Zenon
<1> QED BY <1>8, <1>9, <1>10, Zenon DEF ParseSchedSwitch, Switch

(* What ParseFtraceLine returns for a line the kernel wrote.               *)
Parsed(e, w) ==
  /\ e.ts = Time(w) /\ e.cpu = Numeral[w.cpu]
  /\ e.comm = Cut(w.prev.comm, CommChars) /\ e.pid = Numeral[w.prev.pid]
  /\ e.details = Cut(DetailText(w), DetailChars)
  /\ IsSoftirq(w) \/ e.type = TypeOf(w.name)
  /\ e.type = "kSchedSwitch" => ParseSchedSwitch(Text(w)) = Switch(w)

(* A line the kernel wrote is an event, and comes back as written.         *)
LEMMA LineParsed ==
  ASSUME NEW w \in Written
  PROVE  IsEvent(Text(w)) /\ Parsed(ParseFtraceLine(Text(w)), w)
<1> DEFINE line == Text(w)
           e == ParseFtraceLine(line)
<1>1. PICK c, m, d : Line(line, w, c, m, d)
  BY LineIs, Zenon
<1>2. ExtractCommPid(line) = [comm |-> Cut(w.prev.comm, CommChars),
                              pid |-> Numeral[w.prev.pid]]
  BY <1>1, TaskFound, Zenon
<1>3. ExtractTimestamp(line) = Time(w) /\ OrZero(ExtractCPU(line)) = Numeral[w.cpu]
  BY <1>1, TimeFound, CPUFound, Zenon
<1>4. Details(line) = Cut(DetailText(w), DetailChars)
  BY <1>1, DetailsFound, Zenon
<1>5. /\ IsSoftirq(w) \/ ClassifyEvent(line) = TypeOf(w.name)
      /\ ClassifyEvent(line) = "kSchedSwitch" => w.name = <<"sched_switch">>
  BY <1>1, TypeFound, Zenon
<1>6. w.name = <<"sched_switch">> => ParseSchedSwitch(line) = Switch(w)
  BY <1>1, SwitchFound, Zenon
<1>7. line # <<>> /\ Head(line) # "#"
  <2>1. /\ line \in Seq(Token) /\ Len(line) = c + m + d + 17 /\ line[1] = Blank
        /\ c \in Nat /\ m \in Nat /\ d \in Nat
    <3>1. /\ line \in Seq(Token) /\ Len(line) = c + m + d + 17
          /\ LineAt(line, w, DetailText(w), c, m, d)
          /\ c \in Nat \ {0} /\ m \in {1, 2} /\ d \in Nat
      BY <1>1, Zenon DEF Line
    <3>2. line[1] = Blank
      BY <3>1, Zenon DEF LineAt
    <3>3. c \in Nat /\ m \in Nat
      BY <3>1
    <3> QED BY <3>1, <3>2, <3>3, Zenon
  <2> HIDE DEF line
  <2>2. line # <<>>
    <3>1. c + m + d + 17 # 0
      BY <2>1
    <3>2. Len(<<>>) = 0
      OBVIOUS
    <3> QED BY <2>1, <3>1, <3>2, Zenon
  <2>3. Head(line) = line[1]
    BY <2>1, HeadTailProperties, <2>2
  <2> QED BY <2>1, <2>2, <2>3, BlankIs, Zenon
<1> HIDE DEF line
<1>8. /\ e.ts = ExtractTimestamp(line) /\ e.cpu = OrZero(ExtractCPU(line))
      /\ e.comm = ExtractCommPid(line).comm /\ e.pid = ExtractCommPid(line).pid
      /\ e.details = Details(line) /\ e.type = ClassifyEvent(line)
  BY DEF ParseFtraceLine
<1> HIDE DEF e
<1>9. e.comm = Cut(w.prev.comm, CommChars) /\ e.pid = Numeral[w.prev.pid]
  BY <1>2, <1>8
<1>10. e.ts > 0
  <2>1. Time(w) \in Nat \ {0}
    BY ReportFacts, Zenon
  <2>2. Time(w) > 0
    BY <2>1
  <2> QED BY <1>3, <1>8, <2>2, Zenon
<1>11. IsEvent(line)
  BY <1>7, <1>10, Zenon DEF IsEvent, e
<1>12. Parsed(e, w)
  BY <1>3, <1>4, <1>5, <1>6, <1>8, <1>9, Zenon DEF Parsed, line
<1> QED BY <1>11, <1>12, Zenon DEF e, line

(* No other line becomes an event.                                         *)
LEMMA FindAt ==
  ASSUME NEW line \in Seq(Token), NEW x \in Token, NEW from \in Nat \ {0},
         Find(line, <<x>>, from) # 0
  PROVE  /\ Find(line, <<x>>, from) \in from .. Len(line)
         /\ line[Find(line, <<x>>, from)] = x
<1> DEFINE S == {i \in from .. Len(line) : At(line, <<x>>, i)}
<1>1. S \subseteq Nat /\ \A i \in S : i \in 1 .. Len(line)
  BY LenProperties
<1>2. Find(line, <<x>>, from) = First(S)
  BY Zenon DEF Find
<1>3. \A i \in S : i \in from .. Len(line) /\ line[i] = x
  BY <1>1, AtOne
<1> HIDE DEF S
<1>4. S # {} /\ First(S) = Min(S)
  BY <1>2 DEF First
<1>5. Min(S) \in S
  BY <1>1, <1>4, LeastIn, Zenon
<1> QED BY <1>2, <1>3, <1>4, <1>5, Zenon

(* A line of Others is none: it is a comment or has no time.               *)
LEMMA RemarkIgnored ==
  ASSUME NEW line \in Others
  PROVE  ~IsEvent(line)
<1>1. IsRemark(line)
  BY ParserAssumption, Zenon
<1>2. line \in Seq(Token)
  BY <1>1, Zenon DEF IsRemark
<1>3. CASE line = <<>> \/ Head(line) = "#"
  BY <1>3, Zenon DEF IsEvent
<1>4. CASE \A i, j \in 1 .. Len(line) :
              i < j /\ line[i] = "." /\ line[j] = ":" =>
                \E k \in i .. j - 1 : line[k] \notin Digital
  <2> DEFINE bracket == Find(line, <<"]">>, 1)
             colon == IF bracket = 0 THEN 0 ELSE Find(line, <<":">>, bracket)
             start == Min(Run(line, colon))
             ts == SubSeq(line, start, colon - 1)
             dot == Find(ts, <<".">>, 1)
  <2>1. "]" \in Token /\ ":" \in Token /\ "." \in Token /\ 1 \in Nat \ {0}
    BY ParserAssumption DEF Marks
  <2>2. ASSUME colon # 0, dot # 0 PROVE FALSE
    <3>1. bracket # 0 /\ colon = Find(line, <<":">>, bracket)
      BY <2>2, Zenon
    <3>2. bracket \in Nat \ {0} /\ Len(line) \in Nat
      <4>1. bracket \in 1 .. Len(line)
        BY <1>2, <2>1, <3>1, FindAt, Zenon
      <4> HIDE DEF bracket
      <4> QED BY <1>2, <4>1, LenProperties
    <3>3. colon \in bracket .. Len(line) /\ line[colon] = ":"
      <4> HIDE DEF bracket
      <4>1. Find(line, <<":">>, bracket) # 0
        BY <2>2, <3>1, Zenon
      <4>2. /\ Find(line, <<":">>, bracket) \in bracket .. Len(line)
            /\ line[Find(line, <<":">>, bracket)] = ":"
        BY <1>2, <2>1, <3>2, <4>1, FindAt, Zenon
      <4> QED BY <3>1, <4>2, Zenon
    <3> HIDE DEF bracket, colon
    <3>4. colon \in Nat \ {0} /\ colon \in 1 .. Len(line)
      BY <3>2, <3>3
    <3>5. start \in 1 .. colon /\ \A j \in start .. colon - 1 : line[j] \in Digital
      BY <3>4, RunStarts, Zenon DEF Run
    <3> HIDE DEF start
    <3>6. ts \in Seq(Token) /\ \A k \in 1 .. Len(ts) : /\ ts[k] = line[start + k - 1]
                                                     /\ start + k - 1 \in start .. colon - 1
      <4>1. /\ start \in Nat \ {0} /\ colon - 1 \in Nat /\ start <= (colon - 1) + 1
            /\ colon - 1 <= Len(line)
        BY <3>2, <3>4, <3>5
      <4>2. /\ ts \in Seq(Token) /\ Len(ts) = (colon - 1) - start + 1
            /\ \A k \in 1 .. (colon - 1) - start + 1 : ts[k] = line[start + k - 1]
        BY <1>2, <4>1, SliceIs, Zenon
      <4>3. \A k \in 1 .. (colon - 1) - start + 1 : start + k - 1 \in start .. colon - 1
        BY <4>1
      <4> HIDE DEF ts
      <4> QED BY <4>2, <4>3, Zenon
    <3> HIDE DEF ts
    <3>7. dot \in 1 .. Len(ts) /\ ts[dot] = "."
      <4>1. ts \in Seq(Token) /\ "." \in Token /\ 1 \in Nat \ {0} /\ dot # 0
        BY <2>1, <2>2, <3>6, Zenon
      <4> QED BY <4>1, FindAt, Zenon
    <3> HIDE DEF dot
    <3> DEFINE i == start + dot - 1
    <3>8. i \in start .. colon - 1 /\ line[i] = "."
      BY <3>6, <3>7, Zenon
    <3> HIDE DEF i
    <3>9. i \in 1 .. Len(line) /\ i < colon
          /\ \A k \in i .. colon - 1 : k \in start .. colon - 1
      BY <3>2, <3>4, <3>5, <3>8
    <3>10. PICK k \in i .. colon - 1 : line[k] \notin Digital
      BY <1>4, <3>3, <3>4, <3>8, <3>9, Zenon
    <3> QED BY <3>5, <3>9, <3>10, Zenon
  <2>3. ExtractTimestamp(line) = 0
    BY <2>2, Zenon DEF ExtractTimestamp, Run
  <2> QED BY <2>3 DEF IsEvent, ParseFtraceLine
<1> QED BY <1>1, <1>3, <1>4, Zenon DEF IsRemark
-----------------------------------------------------------------------------
(* The k-th event is what ParseFtraceLine returns for the k-th line.       *)
Results == {ParseFtraceLine(Text(w)) : w \in Written}

ParserInv ==
  /\ written \in Seq(Written) /\ events \in Seq(Results)
  /\ Len(events) = Len(written)
  /\ \A k \in 1 .. Len(written) : events[k] = ParseFtraceLine(Text(written[k]))

(* The invariant is inductive.                                             *)
LEMMA ParserInvStep == ParserInv /\ [ParserNext]_parserVars => ParserInv'
<1> SUFFICES ASSUME ParserInv, [ParserNext]_parserVars PROVE ParserInv'
  OBVIOUS
<1>1. ASSUME NEW w \in Written, ParseWritten(w) PROVE ParserInv'
  <2> DEFINE e == ParseFtraceLine(Text(w))
             n == Len(written)
  <2>1. e \in Results /\ n \in Nat
    BY LenProperties DEF Results, ParserInv
  <2>2. IsEvent(Text(w))
    BY LineParsed, Zenon
  <2>3. written' = Append(written, w) /\ events' = Append(events, e)
    BY <1>1, <2>2, Zenon DEF ParseWritten, Take
  <2> HIDE DEF e
  <2>4. /\ written' \in Seq(Written) /\ Len(written') = n + 1
        /\ \A k \in 1 .. n : written'[k] = written[k]
        /\ written'[n + 1] = w
    <3>1. written \in Seq(Written)
      BY Zenon DEF ParserInv
    <3>2. /\ Append(written, w) \in Seq(Written)
          /\ Len(Append(written, w)) = n + 1
          /\ \A k \in 1 .. n : Append(written, w)[k] = written[k]
          /\ Append(written, w)[n + 1] = w
      BY <3>1, AppendFacts, Zenon
    <3> QED BY <2>3, <3>2, Zenon
  <2>5. /\ events' \in Seq(Results) /\ Len(events') = n + 1
        /\ \A k \in 1 .. n : events'[k] = events[k]
        /\ events'[n + 1] = e
    <3>1. /\ Append(events, e) \in Seq(Results)
          /\ Len(Append(events, e)) = Len(events) + 1
          /\ \A k \in 1 .. Len(events) : Append(events, e)[k] = events[k]
          /\ Append(events, e)[Len(events) + 1] = e
      BY <2>1, AppendFacts, Zenon DEF ParserInv
    <3>2. Len(events) = n
      BY Zenon DEF ParserInv
    <3> QED BY <2>3, <3>1, <3>2, Zenon
  <2>6. \A k \in 1 .. n : events[k] = ParseFtraceLine(Text(written[k]))
    BY Zenon DEF ParserInv
  <2> HIDE DEF n
  <2>7. \A k \in 1 .. n + 1 : k \in 1 .. n \/ k = n + 1
    BY <2>1
  <2>8. \A k \in 1 .. n + 1 : events'[k] = ParseFtraceLine(Text(written'[k]))
    BY <2>4, <2>5, <2>6, <2>7, Zenon DEF e
  <2> QED BY <2>4, <2>5, <2>8, Zenon DEF ParserInv
<1>2. ASSUME NEW line \in Others, ParseOther(line) PROVE ParserInv'
  <2>1. events' = events /\ written' = written
    BY <1>2, RemarkIgnored, Zenon DEF ParseOther, Take
  <2> QED BY <2>1, Zenon DEF ParserInv
<1>3. CASE UNCHANGED parserVars
  BY <1>3 DEF parserVars, ParserInv
<1> QED BY <1>1, <1>2, <1>3, Zenon DEF ParserNext

LEMMA ParserInvInit == ParserInit => ParserInv
<1> SUFFICES ASSUME ParserInit PROVE ParserInv
  OBVIOUS
<1>1. written = <<>> /\ events = <<>>
  BY DEF ParserInit
<1>2. written \in Seq(Written) /\ events \in Seq(Results) /\ Len(written) = 0
      /\ Len(events) = 0
  BY <1>1
<1>3. \A k \in 1 .. 0 : FALSE
  OBVIOUS
<1> QED BY <1>2, <1>3, Zenon DEF ParserInv

LEMMA ParserInvAlways == ParserSpec => []ParserInv
BY ParserInvInit, ParserInvStep, PTL DEF ParserSpec

(* The parser's state keeps its types, whatever lines it is given: every   *)
(* event has a time after 0.                                               *)
THEOREM ParserTypeCorrect == ParserSpec => []ParserTypeOK
<1>1. ParserInv => ParserTypeOK
  <2> SUFFICES ASSUME ParserInv, NEW k \in 1 .. Len(events)
               PROVE  events[k].ts \in Nat \ {0}
    BY DEF ParserInv, ParserTypeOK
  <2>1. k \in 1 .. Len(written)
    BY Zenon DEF ParserInv
  <2>2. written[k] \in Written /\ events[k] = ParseFtraceLine(Text(written[k]))
    BY <2>1, ElementOfSeq, Zenon DEF ParserInv
  <2>3. events[k].ts = Time(written[k])
    BY <2>2, LineParsed, Zenon DEF Parsed
  <2> QED BY <2>2, <2>3, ReportFacts, Zenon
<1> QED BY <1>1, ParserInvAlways, PTL

(* Whatever the kernel writes and whatever stands between, ParseFtraceLine *)
(* makes one event of each line, in order, with the time, cpu, task, type  *)
(* (softirqs apart) and details it was written with, names cut to 15       *)
(* characters and details to 127; ParseSchedSwitch finds both tasks, and   *)
(* no other line becomes an event.                                         *)
THEOREM EventsAsWrittenHolds == ParserSpec => []EventsAsWritten
<1>1. ParserInv => EventsAsWritten
  <2> SUFFICES ASSUME ParserInv PROVE EventsAsWritten
    OBVIOUS
  <2>1. Len(events) = Len(written)
    BY Zenon DEF ParserInv
  <2>2. ASSUME NEW k \in 1 .. Len(written)
        PROVE  Parsed(events[k], written[k])
    <3>1. written[k] \in Written /\ events[k] = ParseFtraceLine(Text(written[k]))
      BY ElementOfSeq, Zenon DEF ParserInv
    <3> QED BY <3>1, LineParsed, Zenon
  <2>3. ASSUME NEW e, NEW w, Parsed(e, w)
        PROVE  /\ e.ts = Time(w) /\ e.cpu = Numeral[w.cpu]
               /\ e.comm = Cut(w.prev.comm, CommChars) /\ e.pid = Numeral[w.prev.pid]
               /\ e.details = Cut(DetailText(w), DetailChars)
               /\ IsSoftirq(w) \/ e.type = TypeOf(w.name)
               /\ e.type = "kSchedSwitch" =>
                    ParseSchedSwitch(Text(w)) =
                      [ts |-> e.ts, cpu |-> e.cpu,
                       prev_comm |-> Cut(w.prev.comm, CommChars),
                       next_comm |-> Cut(w.next.comm, CommChars),
                       prev_pid |-> e.pid, next_pid |-> Numeral[w.next.pid],
                       prev_prio |-> Numeral[w.prev.prio],
                       next_prio |-> Numeral[w.next.prio]]
    BY <2>3, Zenon DEF Parsed, Switch
  <2> QED BY <2>1, <2>2, <2>3, Zenon DEF EventsAsWritten
<1> QED BY <1>1, ParserInvAlways, PTL

(* Of every trace, each softirq entry comes back as the entry of a plain   *)
(* interrupt and each softirq exit as an exit: ClassifyEvent never returns *)
(* a softirq's type for a line the kernel wrote.                           *)
THEOREM SoftirqsPassForIrqsHolds == ParserSpec => []SoftirqsPassForIrqs
<1>1. ASSUME ParserInv, NEW k \in 1 .. Len(written), IsSoftirq(written[k])
      PROVE  \/ TypeOf(written[k].name) = "kSoftirqEntry" /\ events[k].type = "kIrqEntry"
             \/ TypeOf(written[k].name) = "kSoftirqExit" /\ events[k].type = "kIrqExit"
  <2> DEFINE w == written[k]
             line == Text(w)
  <2>1. w \in Written /\ events[k] = ParseFtraceLine(line)
    BY <1>1, ElementOfSeq, Zenon DEF ParserInv
  <2>2. ParseFtraceLine(line).type = ClassifyEvent(line)
    BY DEF ParseFtraceLine
  <2>3. IsSoftirq(w)
    BY <1>1, Zenon
  <2> HIDE DEF w
  <2>4. PICK c, m, d : Line(line, w, c, m, d)
    BY <2>1, LineIs, Zenon
  <2> HIDE DEF line
  <2>5. \/ w.name = <<"soft", "irq_entry">> /\ ClassifyEvent(line) = "kIrqEntry"
        \/ w.name = <<"soft", "irq_exit">> /\ ClassifyEvent(line) = "kIrqExit"
    BY <2>3, <2>4, SoftirqFound, Zenon
  <2>6. /\ TypeOf(<<"soft", "irq_entry">>) = "kSoftirqEntry"
        /\ TypeOf(<<"soft", "irq_exit">>) = "kSoftirqExit"
    BY DEF TypeOf
  <2>7. events[k].type = ClassifyEvent(line)
    BY <2>1, <2>2, Zenon
  <2>8. \/ TypeOf(w.name) = "kSoftirqEntry" /\ events[k].type = "kIrqEntry"
        \/ TypeOf(w.name) = "kSoftirqExit" /\ events[k].type = "kIrqExit"
    BY <2>5, <2>6, <2>7, Zenon
  <2> QED BY <2>8, Zenon DEF w
<1>2. ParserInv => SoftirqsPassForIrqs
  BY <1>1, Zenon DEF SoftirqsPassForIrqs
<1> QED BY <1>2, ParserInvAlways, PTL

-----------------------------------------------------------------------------
(* LiveInversions                                                          *)

(* Every event the parser makes has priority 0, and the detector is given  *)
(* nothing else.                                                           *)
Passed == {AsTraceEvent(e) : e \in Results}

LiveInv ==
  /\ ParserInv
  /\ given \in Seq(Passed)
  /\ phase # "sched"
  /\ inversions = <<>>

LEMMA NoPriority ==
  ASSUME NEW e \in Passed
  PROVE  e.task.prio = 0
BY DEF Passed, Results, AsTraceEvent, ParseFtraceLine

(* An event that has no priority is no switch to report.                   *)
LEMMA NothingDetected ==
  ASSUME LiveInv, NEW e \in Passed, TraceStep(e)
  PROVE  inversions' = <<>>
<1>1. CASE given # <<>> /\ Last(given).switch
  <2>1. Last(given) \in Passed
    <3>1. given \in Seq(Passed)
      BY DEF LiveInv
    <3> QED BY <1>1, <3>1, EmptySeq DEF Last
  <2>2. ~Inverted(SwitchOf(Last(given), e))
    <3>1. SwitchOf(Last(given), e).prev.prio = 0
      BY <2>1, NoPriority DEF SwitchOf
    <3> QED BY <3>1 DEF Inverted
  <2>3. Detect(SwitchOf(Last(given), e))
    BY <1>1, Zenon DEF TraceStep
  <2> QED BY <2>2, <2>3, Zenon DEF Detect, LiveInv
<1>2. CASE ~(given # <<>> /\ Last(given).switch)
  BY <1>2 DEF TraceStep, LiveInv
<1> QED BY <1>1, <1>2

LEMMA LiveInvStep == LiveInv /\ [LiveNext]_liveVars => LiveInv'
<1> SUFFICES ASSUME LiveInv, [LiveNext]_liveVars PROVE LiveInv'
  OBVIOUS
<1>1. ASSUME [ParserNext]_parserVars PROVE ParserInv'
  BY <1>1, ParserInvStep DEF LiveInv
<1>2. CASE Capture
  BY <1>1, <1>2 DEF Capture, detectorVars, LiveInv
<1>3. CASE AnalyzeTraceBegin
  <2>1. given' = <<>> /\ inversions' = <<>> /\ phase' = "trace"
    BY <1>3 DEF AnalyzeTraceBegin, DetectBegin
  <2>2. given' \in Seq(Passed)
    BY <2>1, EmptySeq
  <2> QED BY <1>1, <1>3, <2>1, <2>2 DEF AnalyzeTraceBegin, LiveInv
<1>4. CASE AnalyzeTraceEvent
  <2> DEFINE e == AsTraceEvent(events[Len(given) + 1])
  <2>1. given \in Seq(Passed) /\ events \in Seq(Results) /\ Len(given) < Len(events)
    BY <1>4 DEF AnalyzeTraceEvent, LiveInv, ParserInv
  <2>2. Len(given) + 1 \in 1 .. Len(events)
    BY <2>1, LenProperties
  <2>3. e \in Passed
    BY <2>1, <2>2, ElementOfSeq, Zenon DEF Passed
  <2>4. TraceStep(e) /\ UNCHANGED parserVars
    BY <1>4, Zenon DEF AnalyzeTraceEvent
  <2> HIDE DEF e
  <2>5. given' = Append(given, e) /\ phase' = phase
    BY <2>4, Zenon DEF TraceStep
  <2>6. given' \in Seq(Passed)
    BY <2>1, <2>3, <2>5, AppendFacts, Zenon
  <2>7. inversions' = <<>>
    BY <2>3, <2>4, NothingDetected, Zenon
  <2> QED BY <1>1, <2>4, <2>5, <2>6, <2>7, Zenon DEF LiveInv
<1>5. CASE AnalyzeTraceReturn
  <2>1. given' = <<>> /\ inversions' = inversions /\ phase' = "idle"
    BY <1>5 DEF AnalyzeTraceReturn, Return
  <2>2. given' \in Seq(Passed)
    BY <2>1, EmptySeq
  <2> QED BY <1>1, <1>5, <2>1, <2>2 DEF AnalyzeTraceReturn, LiveInv
<1>6. CASE UNCHANGED liveVars
  BY <1>1, <1>6 DEF liveVars, detectorVars, LiveInv
<1> QED BY <1>2, <1>3, <1>4, <1>5, <1>6 DEF LiveNext

LEMMA LiveInvAlways == LiveSpec => []LiveInv
<1>1. LiveInit => LiveInv
  <2> SUFFICES ASSUME LiveInit PROVE LiveInv
    OBVIOUS
  <2>1. /\ ParserInit /\ given = <<>> /\ phase = "idle" /\ inversions = <<>>
    BY DEF LiveInit, DetectorInit
  <2>2. given \in Seq(Passed)
    BY <2>1, EmptySeq
  <2> QED BY <2>1, <2>2, ParserInvInit DEF LiveInv
<1> QED BY <1>1, LiveInvStep, PTL DEF LiveSpec

(* On the way of a live trace through the parser, AnalyzeTraceEvents       *)
(* reports no inversion, whatever the kernel wrote and however often the   *)
(* trace is analysed.                                                      *)
THEOREM LiveReportsNothing == LiveSpec => []NothingReported
<1>1. LiveInv => NothingReported
  BY DEF LiveInv, NothingReported
<1> QED BY <1>1, LiveInvAlways, PTL
=============================================================================
