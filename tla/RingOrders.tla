----------------------------- MODULE RingOrders -----------------------------
(***************************************************************************)
(* The memory orders of Push and Pop of src/include/rtdiag/ring_buffer.h,  *)
(* one producer and one consumer under kDrop.  RingBuffer interleaves the  *)
(* accesses as if every thread saw every store at once; here a thread      *)
(* sees a store of the other one when it happens to, and knows of the      *)
(* other's plain accesses to the slots only what the orders guarantee.     *)
(*                                                                         *)
(* Each counter is stored by one thread only, rising by one, so its        *)
(* modification order is 0, 1, 2, ... and the value tells the store.  A    *)
(* load returns any value not older than the one its thread saw before:    *)
(* coherence.  The head_ store of value v comes after v slot writes of the *)
(* producer, the tail_ store of v after v slot reads of the consumer; if   *)
(* the store is a release and the load that returns it an acquire, these   *)
(* happen before whatever the loading thread does next.                    *)
(***************************************************************************)
EXTENDS Integers, Sequences

CONSTANTS
  RingSize,   \* mask_ + 1
  MaxAccepted   \* bound on the events accepted

ASSUME OrdersAssumption == RingSize \in Nat \ {0} /\ MaxAccepted \in Nat

VARIABLES
  head, tail,     \* the last values stored
  headSeen,       \* the newest head_ the consumer has loaded
  tailSeen,       \* the newest tail_ the producer has loaded
  writesKnown,    \* slot writes that happen before the consumer's next step
  readsKnown,     \* slot reads that happen before the producer's next step
  pushing,        \* the producer: "idle", "write" or "publish"
  popping,        \* the consumer: "idle", "read" or "publish"
  slots,          \* what was last written to each slot: the event's number
  received        \* history: the events popped

ordersVars == <<head, tail, headSeen, tailSeen, writesKnown, readsKnown, pushing,
          popping, slots, received>>
producerVars == <<head, tailSeen, readsKnown, pushing, slots>>
consumerVars == <<tail, headSeen, writesKnown, popping, received>>

NoEvent == 0
Relaxed == "relaxed"
HeadStore == "release"
HeadLoad == "acquire"
TailStore == "release"
TailLoad == "acquire"

(* What the store of value v carries to a load that returns it, beside     *)
(* what the loading thread knew.                                           *)
Carried(store, load, v, known) ==
  IF store = "release" /\ load = "acquire" /\ v > known THEN v ELSE known

-----------------------------------------------------------------------------
OrdersInit ==
  /\ head = 0 /\ tail = 0 /\ headSeen = 0 /\ tailSeen = 0
  /\ writesKnown = 0 /\ readsKnown = 0
  /\ pushing = "idle" /\ popping = "idle"
  /\ slots = [s \in 0 .. RingSize - 1 |-> NoEvent]
  /\ received = <<>>

(* The loads of Push.  head_ is the producer's own; an old tail_ makes the *)
(* ring look fuller than it is, and the event may be refused needlessly.   *)
PushLoad(t) ==
  /\ pushing = "idle"
  /\ head < MaxAccepted
  /\ t \in tailSeen .. tail
  /\ tailSeen' = t
  /\ readsKnown' = Carried(TailStore, TailLoad, t, readsKnown)
  /\ pushing' = IF head - t > RingSize - 1 THEN "idle" ELSE "write"
  /\ UNCHANGED <<head, slots, consumerVars>>

PushWrite ==
  /\ pushing = "write"
  /\ slots' = [slots EXCEPT ![head % RingSize] = head + 1]
  /\ pushing' = "publish"
  /\ UNCHANGED <<head, tailSeen, readsKnown, consumerVars>>

PushPublish ==
  /\ pushing = "publish"
  /\ head' = head + 1
  /\ pushing' = "idle"
  /\ UNCHANGED <<tailSeen, readsKnown, slots, consumerVars>>

(* The loads of Pop; an old head_ makes the ring look emptier than it is.  *)
PopLoad(h) ==
  /\ popping = "idle"
  /\ h \in headSeen .. head
  /\ headSeen' = h
  /\ writesKnown' = Carried(HeadStore, HeadLoad, h, writesKnown)
  /\ popping' = IF tail >= h THEN "idle" ELSE "read"
  /\ UNCHANGED <<tail, received, producerVars>>

(* A slot whose write is not known may still show what was there before.   *)
PopRead ==
  /\ popping = "read"
  /\ \E seen \in {slots[tail % RingSize]}
                   \cup (IF tail < writesKnown THEN {} ELSE {NoEvent}) :
       received' = Append(received, seen)
  /\ popping' = "publish"
  /\ UNCHANGED <<tail, headSeen, writesKnown, producerVars>>

PopPublish ==
  /\ popping = "publish"
  /\ tail' = tail + 1
  /\ popping' = "idle"
  /\ UNCHANGED <<headSeen, writesKnown, received, producerVars>>

OrdersNext ==
  \/ \E t \in tailSeen .. tail : PushLoad(t)
  \/ PushWrite
  \/ PushPublish
  \/ \E h \in headSeen .. head : PopLoad(h)
  \/ PopRead
  \/ PopPublish

OrdersSpec == OrdersInit /\ [][OrdersNext]_ordersVars

-----------------------------------------------------------------------------
OrdersTypeOK ==
  /\ head \in Nat /\ tail \in Nat /\ headSeen \in Nat /\ tailSeen \in Nat
  /\ writesKnown \in Nat /\ readsKnown \in Nat
  /\ pushing \in {"idle", "write", "publish"}
  /\ popping \in {"idle", "read", "publish"}
  /\ slots \in [0 .. RingSize - 1 -> Nat]
  /\ received \in Seq(Nat)

(* No data race on buffer_: the copy out of a slot happens before the next *)
(* copy into it, and each copy into a slot happens before the copy out     *)
(* that hands the event on, on any machine the C++ memory model allows.    *)
OrdersSuffice ==
  /\ pushing = "write" => head < readsKnown + RingSize
  /\ popping = "read" => tail < writesKnown

(* However late the threads learn of each other's stores, the consumer     *)
(* gets the accepted events in order, each once, each complete.            *)
(* OrdersImplementQueue, below, implies it.                                *)
ReceivedInOrder == \A k \in 1 .. Len(received) : received[k] = k

(* The queue the ring implements as the threads see it: an event enters    *)
(* with the store to head_ and leaves with the copy out of its slot.  A    *)
(* refused push does not show: with an old tail_ it need not be full.      *)
FIFO == INSTANCE EventQueue WITH
  Capacity <- RingSize,
  Policy <- "kDrop",
  offers <- head,
  queue <- [k \in 1 .. head - Len(received) |-> Len(received) + k],
  delivered <- received,
  lost <- 0

(* With the orders of the source the ring behaves as one bounded queue,    *)
(* however late each thread learns of the other's stores: what was         *)
(* accepted is taken whole and in order, and never more than fit.          *)
OrdersImplementQueue == FIFO!Spec
=============================================================================
