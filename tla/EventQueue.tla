----------------------------- MODULE EventQueue -----------------------------
(***************************************************************************)
(* What RingBuffer<T> promises its users, with no head, tail or slots: a   *)
(* bounded FIFO queue of trace events that never loses an event without    *)
(* counting it.  The k-th event offered to the queue is the number k.      *)
(* When the queue is full the policy chooses the victim: kDrop rejects the *)
(* newest event, kOverwrite evicts the oldest one to make room.            *)
(***************************************************************************)
EXTENDS Naturals, Sequences

CONSTANTS
  Capacity,  \* how many events the queue holds
  Policy     \* "kDrop" or "kOverwrite"

VARIABLES
  offers,    \* how many events have been offered, over the whole life
  queue,     \* the events held, oldest first
  delivered, \* the events handed to the consumer since the last Clear
  lost       \* the events rejected or evicted since the last Clear

queueVars == <<offers, queue, delivered, lost>>

Init ==
  /\ offers = 0
  /\ queue = <<>>
  /\ delivered = <<>>
  /\ lost = 0

Full == Len(queue) = Capacity

(* The event offered next is taken in. *)
Accept ==
  /\ ~Full
  /\ offers' = offers + 1
  /\ queue' = Append(queue, offers')
  /\ UNCHANGED <<delivered, lost>>

(* kDrop: the event offered next is refused and counted. *)
RejectNewest ==
  /\ Full
  /\ Policy = "kDrop"
  /\ offers' = offers + 1
  /\ lost' = lost + 1
  /\ UNCHANGED <<queue, delivered>>

(* kOverwrite: the oldest event makes room and is counted. *)
EvictOldest ==
  /\ Full
  /\ Policy = "kOverwrite"
  /\ queue' = Tail(queue)
  /\ lost' = lost + 1
  /\ UNCHANGED <<offers, delivered>>

Take ==
  /\ queue # <<>>
  /\ queue' = Tail(queue)
  /\ delivered' = Append(delivered, Head(queue))
  /\ UNCHANGED <<offers, lost>>

Clear ==
  /\ queue' = <<>>
  /\ delivered' = <<>>
  /\ lost' = 0
  /\ UNCHANGED offers

Next == Accept \/ RejectNewest \/ EvictOldest \/ Take \/ Clear

Spec == Init /\ [][Next]_queueVars
=============================================================================
