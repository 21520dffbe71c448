----------------------------- MODULE TraceBuffer -----------------------------
(***************************************************************************)
(* TraceBuffer of src/tracing/trace_buffer.cc under kDrop: batches taken   *)
(* out of a ring while a producer keeps pushing.  The ring is the queue of *)
(* EventQueue, which RingBuffer is proved to implement.  Drain and         *)
(* DrainFiltered are loops over Pop, one action per turn.                  *)
(***************************************************************************)
EXTENDS Naturals, SequencesExt

CONSTANTS
  Capacity,
  Limits,     \* the values of max_count
  MaxOffers   \* bound on the events pushed

ASSUME BufferAssumption ==
  /\ Capacity \in Nat \ {0} /\ Limits \subseteq Nat /\ MaxOffers \in Nat

VARIABLES
  offers, queue, delivered, lost,   \* the ring
  matching,   \* the events the filter accepts, of those offered
  out,        \* what the caller has been given since the last BufferReset
  call,       \* "idle", "Drain" or "DrainFiltered"
  max_count,  \* the argument of that call
  drained     \* its local counter

ringVars == <<offers, queue, delivered, lost>>
bufferVars == <<ringVars, matching, out, call, max_count, drained>>

Ring == INSTANCE EventQueue WITH Policy <- "kDrop"

-----------------------------------------------------------------------------
BufferInit ==
  /\ Ring!Init
  /\ matching = {} /\ out = <<>>
  /\ call = "idle" /\ max_count = 0 /\ drained = 0

(* By the producer, whatever the consumer is doing.                        *)
Offer(matches) ==
  /\ offers < MaxOffers
  /\ Ring!Accept \/ Ring!RejectNewest
  /\ matching' = IF matches THEN matching \cup {offers'} ELSE matching
  /\ UNCHANGED <<out, call, max_count, drained>>

Pop ==
  /\ call = "idle"
  /\ Ring!Take
  /\ out' = Append(out, Head(queue))
  /\ UNCHANGED <<matching, call, max_count, drained>>

DrainBegin(name, limit) ==
  /\ call = "idle"
  /\ call' = name /\ max_count' = limit /\ drained' = 0
  /\ UNCHANGED <<ringVars, matching, out>>

(* A turn that hands an event on, and one that leaves it out.              *)
DrainTakeFirst ==
  /\ call # "idle"
  /\ Ring!Take
  /\ call = "Drain" \/ Head(queue) \in matching
  /\ IF drained < max_count
     THEN out' = Append(out, Head(queue)) /\ drained' = drained + 1
     ELSE UNCHANGED <<out, drained>>
  /\ UNCHANGED <<matching, call, max_count>>

DrainTake ==
  /\ call # "idle"
  /\ drained < max_count
  /\ Ring!Take
  /\ call = "Drain" \/ Head(queue) \in matching
  /\ out' = Append(out, Head(queue))
  /\ drained' = drained + 1
  /\ UNCHANGED <<matching, call, max_count>>

DrainSkip ==
  /\ call = "DrainFiltered"
  /\ drained < max_count
  /\ Ring!Take
  /\ Head(queue) \notin matching
  /\ UNCHANGED <<matching, out, call, max_count, drained>>

DrainReturn ==
  /\ call # "idle"
  /\ drained = max_count \/ queue = <<>>
  /\ call' = "idle"
  /\ UNCHANGED <<ringVars, matching, out, max_count, drained>>

BufferReset ==
  /\ call = "idle"
  /\ Ring!Clear
  /\ out' = <<>>
  /\ UNCHANGED <<matching, call, max_count, drained>>

DrainStep == DrainTake \/ DrainSkip \/ DrainReturn

BufferNext ==
  \/ \E matches \in BOOLEAN : Offer(matches)
  \/ Pop
  \/ \E name \in {"Drain", "DrainFiltered"}, n \in Limits : DrainBegin(name, n)
  \/ DrainStep
  \/ BufferReset

BufferSpec == BufferInit /\ [][BufferNext]_bufferVars

-----------------------------------------------------------------------------
BufferTypeOK ==
  /\ Len(queue) <= Capacity
  /\ matching \subseteq 1 .. MaxOffers
  /\ call \in {"idle", "Drain", "DrainFiltered"}
  /\ drained \in 0 .. max_count

(* However Pop, Drain and DrainFiltered alternate and stop at their limit, *)
(* and whatever is pushed meanwhile, an accepted event that matches the    *)
(* filter is handed out once and in order or still in the ring: a call     *)
(* that leaves events out never leaves out one of these.                   *)
NoMatchLost ==
  /\ Range(out) \cap matching = Range(delivered) \cap matching
  /\ \A i, j \in 1 .. Len(out) : i < j => out[i] < out[j]
=============================================================================
