--------------------------- MODULE SlotArithmetic ---------------------------
(***************************************************************************)
(* What the proofs about RingBuffer and RingOrders need of the positions   *)
(* in a ring, taken modulo its size, and of histories that grow.           *)
(***************************************************************************)
EXTENDS Integers, SequenceTheorems, TLAPS

(* A positive multiple of n is at least n. *)
LEMMA PositiveMultiple ==
  ASSUME NEW n \in Nat \ {0}, NEW k \in Int, 0 < n * k
  PROVE  n <= n * k
<1>1. k >= 1 BY SMT
<1> QED BY <1>1, SMT

(* Two positions less than n apart are in different slots. *)
LEMMA ModInjective ==
  ASSUME NEW n \in Nat \ {0}, NEW a \in Nat, NEW b \in Nat, a < b, b < a + n
  PROVE  a % n # b % n
<1> SUFFICES ASSUME a % n = b % n PROVE FALSE
  OBVIOUS
<1> DEFINE qa == a \div n
           qb == b \div n
<1>1. qa \in Int /\ qb \in Int
  BY SMT
<1>2. a = n * qa + (a % n) /\ b = n * qb + (b % n)
  BY SMT
<1>3. a % n \in Int /\ b % n \in Int
  BY SMT
<1> HIDE DEF qa, qb
<1>4. b - a = n * (qb - qa)
  BY <1>1, <1>2, <1>3, SMT
<1>5. n <= n * (qb - qa)
  BY <1>1, <1>4, PositiveMultiple, SMT
<1> QED BY <1>4, <1>5, SMT

(* Appending keeps what a sequence had. *)
LEMMA AppendFacts ==
  ASSUME NEW S, NEW s \in Seq(S), NEW e \in S
  PROVE  /\ Append(s, e) \in Seq(S)
         /\ Len(Append(s, e)) = Len(s) + 1
         /\ \A i \in 1 .. Len(s) : Append(s, e)[i] = s[i]
         /\ Append(s, e)[Len(s) + 1] = e
BY AppendProperties
=============================================================================
