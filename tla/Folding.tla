------------------------------ MODULE Folding ------------------------------
(***************************************************************************)
(* What a fold over a sequence is, for any operator.  FoldLeft of the      *)
(* community modules chooses a function on the sets of positions; here it  *)
(* is shown that there is one and only one, and hence that a fold takes    *)
(* the elements one after the other.                                       *)
(***************************************************************************)
EXTENDS Integers, WellFoundedInduction, TLAPS

CONSTANTS
  Op(_, _),   \* what is folded
  Top(_)      \* the greatest of a set of positions

Folded(g, base, s, t) ==
  IF t = {} THEN base ELSE Op(g[t \ {Top(t)}], s[Top(t)])
IsFold(g, base, s, n) ==
  g = [t \in SUBSET (1 .. n) |->
         IF t = {} THEN base ELSE Op(g[t \ {Top(t)}], s[Top(t)])]
(* The fold of the first n elements of s.                                  *)
Fold(base, s, n) == (CHOOSE g : IsFold(g, base, s, n))[1 .. n]

TopIsLast ==
  \A n \in Nat : \A t \in SUBSET (1 .. n) :
    (t # {} => Top(t) \in t) /\ (n \in t => Top(t) = n)

-----------------------------------------------------------------------------
(* Every set of numbers that is not empty has a least one.                 *)
LEMMA LeastExists ==
  ASSUME NEW S, S \subseteq Nat, S # {}
  PROVE  \E m \in S : \A j \in S : m <= j
<1> DEFINE R == OpToRel(<, Nat)
<1>1. \A x, y \in Nat : y < x => <<y, x>> \in R
  BY DEF OpToRel
<1>2. IsWellFoundedOn(R, Nat)
  BY NatLessThanWellFounded
<1> HIDE DEF R
<1>3. PICK m \in S : \A y \in S : ~(<<y, m>> \in R)
  BY <1>2, WFMin
<1>4. ASSUME NEW j \in S PROVE m <= j
  <2>1. m \in Nat /\ j \in Nat /\ ~(<<j, m>> \in R)
    BY <1>3
  <2> QED BY <1>1, <2>1
<1> QED BY <1>4

(* Induction: a set that has 0 and, with any number, the next one has all. *)
LEMMA Counting ==
  ASSUME NEW G, 0 \in G, \A m \in Nat : m \in G => m + 1 \in G
  PROVE  \A m \in Nat : m \in G
<1> DEFINE Bad == {m \in Nat : m \notin G}
<1> SUFFICES ASSUME Bad # {} PROVE FALSE
  OBVIOUS
<1>1. PICK m \in Bad : \A j \in Bad : m <= j
  <2>1. Bad \subseteq Nat
    OBVIOUS
  <2> HIDE DEF Bad
  <2> QED BY <2>1, LeastExists
<1>2. m - 1 \in Nat /\ (m - 1) + 1 = m /\ ~(m <= m - 1) /\ m \notin G
  OBVIOUS
<1>3. m - 1 \in G
  BY <1>1, <1>2
<1> QED BY <1>2, <1>3

-----------------------------------------------------------------------------
LEMMA FoldIs ==
  ASSUME NEW g, NEW base, NEW s, NEW n
  PROVE  IsFold(g, base, s, n) <=>
           /\ g = [t \in SUBSET (1 .. n) |-> g[t]]
           /\ \A t \in SUBSET (1 .. n) : g[t] = Folded(g, base, s, t)
<1>1. ASSUME IsFold(g, base, s, n)
      PROVE  /\ g = [t \in SUBSET (1 .. n) |-> g[t]]
             /\ \A t \in SUBSET (1 .. n) : g[t] = Folded(g, base, s, t)
  <2> DEFINE f == [t \in SUBSET (1 .. n) |-> Folded(g, base, s, t)]
  <2>1. g = f
    BY <1>1 DEF IsFold, Folded
  <2>2. \A t \in SUBSET (1 .. n) : f[t] = Folded(g, base, s, t)
    OBVIOUS
  <2>3. f = [t \in SUBSET (1 .. n) |-> f[t]]
    OBVIOUS
  <2> HIDE DEF f
  <2> QED BY <2>1, <2>2, <2>3, Zenon
<1>2. ASSUME g = [t \in SUBSET (1 .. n) |-> g[t]],
             \A t \in SUBSET (1 .. n) : g[t] = Folded(g, base, s, t)
      PROVE  IsFold(g, base, s, n)
  <2>1. [t \in SUBSET (1 .. n) |-> g[t]]
          = [t \in SUBSET (1 .. n) |-> Folded(g, base, s, t)]
    BY <1>2
  <2> QED BY <1>2, <2>1, Zenon DEF IsFold, Folded
<1> QED BY <1>1, <1>2

LEMMA FoldOfNone ==
  ASSUME NEW base, NEW s
  PROVE  /\ \E g : IsFold(g, base, s, 0)
         /\ \A g : IsFold(g, base, s, 0) => g = [t \in {{}} |-> base]
<1>1. SUBSET (1 .. 0) = {{}}
  BY SMT
<1> DEFINE e == [t \in {{}} |-> base]
<1>2. IsFold(e, base, s, 0)
  <2>1. \A t \in SUBSET (1 .. 0) : e[t] = Folded(e, base, s, t)
    BY <1>1 DEF Folded
  <2>2. e = [t \in SUBSET (1 .. 0) |-> e[t]]
    BY <1>1
  <2> QED BY <2>1, <2>2, FoldIs
<1>3. ASSUME NEW g, IsFold(g, base, s, 0) PROVE g = e
  <2>1. g = [t \in {{}} |-> g[t]] /\ g[{}] = base
    BY <1>1, <1>3, FoldIs DEF Folded
  <2> QED BY <2>1
<1> QED BY <1>2, <1>3

(* A fold of n + 1 elements, on the sets of the first n, is one of these.  *)
LEMMA FoldRestricts ==
  ASSUME NEW base, NEW s, NEW n \in Nat, NEW h, IsFold(h, base, s, n + 1)
  PROVE  IsFold([t \in SUBSET (1 .. n) |-> h[t]], base, s, n)
<1> DEFINE r == [t \in SUBSET (1 .. n) |-> h[t]]
<1>1. \A t \in SUBSET (1 .. n) : t \in SUBSET (1 .. n + 1)
  BY SMT
<1>2. \A t \in SUBSET (1 .. n) : h[t] = Folded(h, base, s, t)
  BY <1>1, FoldIs
<1>3. \A t \in SUBSET (1 .. n) : r[t] = h[t]
  OBVIOUS
<1>4. r = [t \in SUBSET (1 .. n) |-> r[t]]
  OBVIOUS
<1> HIDE DEF r
<1>5. ASSUME NEW t \in SUBSET (1 .. n) PROVE r[t] = Folded(r, base, s, t)
  <2>1. t \ {Top(t)} \in SUBSET (1 .. n)
    OBVIOUS
  <2>2. r[t \ {Top(t)}] = h[t \ {Top(t)}]
    BY <1>3, <2>1, Zenon
  <2>3. Folded(r, base, s, t) = Folded(h, base, s, t)
    BY <2>2, Zenon DEF Folded
  <2> QED BY <1>2, <1>3, <2>3, Zenon
<1> QED BY <1>4, <1>5, FoldIs, Zenon DEF r

(* ... and continues to one of n + 1.                                      *)
LEMMA FoldContinues ==
  ASSUME TopIsLast, NEW base, NEW s, NEW n \in Nat, NEW g, IsFold(g, base, s, n)
  PROVE  \E h : IsFold(h, base, s, n + 1)
<1> DEFINE All == SUBSET (1 .. n + 1)
           h == [t \in All |->
                   IF n + 1 \in t THEN Op(g[t \ {n + 1}], s[n + 1]) ELSE g[t]]
<1>1. \A t \in SUBSET (1 .. n) : g[t] = Folded(g, base, s, t)
  BY FoldIs
<1>2. /\ \A t \in All : n + 1 \notin t => t \in SUBSET (1 .. n) /\ h[t] = g[t]
      /\ \A t \in All : n + 1 \in t => h[t] = Op(g[t \ {n + 1}], s[n + 1])
      /\ \A t \in All : \A x : t \ {x} \in All
      /\ \A t \in All : t \ {n + 1} \in SUBSET (1 .. n) /\ n + 1 \notin t \ {n + 1}
      /\ \A t \in All : n + 1 \in t => t # {}
  <2>1. \A t \in All : n + 1 \notin t => t \in SUBSET (1 .. n)
    BY SMT
  <2>2. \A t \in All : t \ {n + 1} \in SUBSET (1 .. n)
    BY SMT
  <2> QED BY <2>1, <2>2
<1>3. h = [t \in All |-> h[t]]
  OBVIOUS
<1>4. \A t \in All : n + 1 \in t => Top(t) = n + 1
  BY n + 1 \in Nat DEF TopIsLast
<1> HIDE DEF h, All
<1>5. ASSUME NEW t \in All PROVE h[t] = Folded(h, base, s, t)
  <2>1. CASE n + 1 \in t
    <3>1. h[t] = Op(g[t \ {n + 1}], s[n + 1])
      BY <1>2, <2>1, Zenon
    <3>2. h[t \ {n + 1}] = g[t \ {n + 1}]
      BY <1>2, Zenon
    <3>3. Folded(h, base, s, t) = Op(h[t \ {n + 1}], s[n + 1])
      BY <1>2, <1>4, <2>1, Zenon DEF Folded
    <3> QED BY <3>1, <3>2, <3>3, Zenon
  <2>2. CASE n + 1 \notin t
    <3>1. h[t] = g[t] /\ g[t] = Folded(g, base, s, t)
      BY <1>1, <1>2, <2>2, Zenon
    <3>2. n + 1 \notin t \ {Top(t)} /\ t \ {Top(t)} \in All
      BY <1>2, <2>2, Zenon
    <3>3. h[t \ {Top(t)}] = g[t \ {Top(t)}]
      BY <1>2, <3>2, Zenon
    <3>4. Folded(h, base, s, t) = Folded(g, base, s, t)
      BY <3>3, Zenon DEF Folded
    <3> QED BY <3>1, <3>4, Zenon
  <2> QED BY <2>1, <2>2
<1>6. IsFold(h, base, s, n + 1)
  BY <1>3, <1>5, FoldIs, Zenon DEF All
<1> QED BY <1>6

(* If the first n elements determine a fold, so do the first n + 1.        *)
LEMMA FoldUniqueNext ==
  ASSUME TopIsLast, NEW base, NEW s, NEW n \in Nat,
         \A g, h : IsFold(g, base, s, n) /\ IsFold(h, base, s, n) => g = h,
         NEW g, IsFold(g, base, s, n + 1), NEW h, IsFold(h, base, s, n + 1)
  PROVE  g = h
<1> DEFINE All == SUBSET (1 .. n + 1)
           Small == SUBSET (1 .. n)
<1>1. [t \in Small |-> g[t]] = [t \in Small |-> h[t]]
  <2>1. IsFold([t \in Small |-> g[t]], base, s, n)
    BY FoldRestricts, Zenon
  <2>2. IsFold([t \in Small |-> h[t]], base, s, n)
    BY FoldRestricts, Zenon
  <2> HIDE DEF Small
  <2> QED BY <2>1, <2>2, Zenon
<1>2. \A t \in Small : g[t] = h[t]
  <2> DEFINE a == [t \in Small |-> g[t]]
             b == [t \in Small |-> h[t]]
  <2>1. \A t \in Small : a[t] = g[t] /\ b[t] = h[t]
    OBVIOUS
  <2> HIDE DEF a, b, Small
  <2>2. a = b
    BY <1>1 DEF a, b
  <2> QED BY <2>1, <2>2
<1>3. /\ \A t \in All : n + 1 \notin t => t \in Small
      /\ \A t \in All : n + 1 \in t => t \ {n + 1} \in Small /\ t # {}
  BY SMT
<1>4. \A t \in All : n + 1 \in t => Top(t) = n + 1
  BY n + 1 \in Nat DEF TopIsLast
<1>5. /\ g = [t \in All |-> g[t]] /\ \A t \in All : g[t] = Folded(g, base, s, t)
      /\ h = [t \in All |-> h[t]] /\ \A t \in All : h[t] = Folded(h, base, s, t)
  BY FoldIs
<1> HIDE DEF All, Small
<1>6. ASSUME NEW t \in All PROVE g[t] = h[t]
  <2>1. CASE n + 1 \notin t
    BY <1>2, <1>3, <2>1, Zenon
  <2>2. CASE n + 1 \in t
    <3>1. Top(t) = n + 1 /\ t # {}
      BY <1>3, <1>4, <2>2, Zenon
    <3>2. g[t \ {n + 1}] = h[t \ {n + 1}]
      BY <1>2, <1>3, <2>2, Zenon
    <3>3. Folded(g, base, s, t) = Folded(h, base, s, t)
      BY <3>1, <3>2, Zenon DEF Folded
    <3> QED BY <1>5, <3>3, Zenon
  <2> QED BY <2>1, <2>2
<1>7. [t \in All |-> g[t]] = [t \in All |-> h[t]]
  BY <1>6
<1> QED BY <1>5, <1>7, Zenon

(* By induction: each sequence has one fold.                               *)
LEMMA FoldExists ==
  ASSUME TopIsLast, NEW base, NEW s
  PROVE  \A n \in Nat :
           /\ \E g : IsFold(g, base, s, n)
           /\ \A g, h : IsFold(g, base, s, n) /\ IsFold(h, base, s, n) => g = h
<1> DEFINE One(n) ==
      /\ \E g : IsFold(g, base, s, n)
      /\ \A g, h : IsFold(g, base, s, n) /\ IsFold(h, base, s, n) => g = h
           Bad == {n \in Nat : ~One(n)}
<1>1. One(0)
  BY FoldOfNone, Zenon
<1>2. ASSUME NEW n \in Nat, One(n) PROVE One(n + 1)
  <2>1. \E h : IsFold(h, base, s, n + 1)
    BY <1>2, FoldContinues, Zenon
  <2>2. \A g, h : IsFold(g, base, s, n) /\ IsFold(h, base, s, n) => g = h
    BY <1>2, Zenon
  <2>3. \A g, h : IsFold(g, base, s, n + 1) /\ IsFold(h, base, s, n + 1) => g = h
    BY <2>2, FoldUniqueNext, Zenon
  <2> QED BY <2>1, <2>3, Zenon
<1> HIDE DEF One
<1>3. Bad = {}
  <2> SUFFICES ASSUME Bad # {} PROVE FALSE
    OBVIOUS
  <2>1. PICK m \in Bad : \A j \in Bad : m <= j
    BY LeastExists
  <2>2. m \in Nat /\ ~One(m) /\ m # 0
    BY <1>1
  <2>3. m - 1 \in Nat /\ (m - 1) + 1 = m /\ ~(m <= m - 1)
    BY <2>2
  <2>4. m - 1 \notin Bad
    BY <2>1, <2>3
  <2>5. One(m - 1)
    BY <2>3, <2>4
  <2> QED BY <1>2, <2>2, <2>3, <2>5
<1>4. \A n \in Nat : One(n)
  BY <1>3
<1> QED BY <1>4 DEF One

-----------------------------------------------------------------------------
(* The fold of no elements is the base.                                    *)
THEOREM FoldNone ==
  ASSUME TopIsLast, NEW base, NEW s PROVE Fold(base, s, 0) = base
<1> DEFINE g == CHOOSE g : IsFold(g, base, s, 0)
<1>1. IsFold(g, base, s, 0)
  BY FoldOfNone, Zenon
<1> HIDE DEF g
<1>2. g = [t \in {{}} |-> base]
  BY <1>1, FoldOfNone, Zenon
<1>3. 1 .. 0 = {}
  BY SMT
<1>4. g[{}] = base
  BY <1>2
<1> QED BY <1>3, <1>4 DEF Fold, g

(* A fold takes in the last element last.                                  *)
THEOREM FoldNext ==
  ASSUME TopIsLast, NEW base, NEW s, NEW n \in Nat
  PROVE  Fold(base, s, n + 1) = Op(Fold(base, s, n), s[n + 1])
<1> DEFINE h == CHOOSE h : IsFold(h, base, s, n + 1)
           g == CHOOSE g : IsFold(g, base, s, n)
           r == [t \in SUBSET (1 .. n) |-> h[t]]
<1>1. IsFold(h, base, s, n + 1)
  BY n + 1 \in Nat, FoldExists, Zenon
<1>2. IsFold(g, base, s, n)
  BY FoldExists, Zenon
<1> HIDE DEF g, h
<1>3. g = r
  <2>1. IsFold(r, base, s, n)
    BY <1>1, FoldRestricts, Zenon
  <2> HIDE DEF r
  <2> QED BY <1>2, <2>1, FoldExists, Zenon
<1>4. /\ 1 .. n + 1 \in SUBSET (1 .. n + 1) /\ 1 .. n \in SUBSET (1 .. n)
      /\ n + 1 \in 1 .. n + 1 /\ (1 .. n + 1) \ {n + 1} = 1 .. n
  BY SMT
<1>5. Top(1 .. n + 1) = n + 1 /\ 1 .. n + 1 # {}
  <2>1. \A m \in Nat : \A t \in SUBSET (1 .. m) : m \in t => Top(t) = m
    BY Zenon DEF TopIsLast
  <2>2. n + 1 \in Nat /\ 1 .. n + 1 # {}
    BY <1>4
  <2> QED BY <1>4, <2>1, <2>2, Zenon
<1>6. h[1 .. n + 1] = Folded(h, base, s, 1 .. n + 1)
  BY <1>1, <1>4, FoldIs, Zenon
<1>7. h[1 .. n + 1] = Op(h[1 .. n], s[n + 1])
  BY <1>4, <1>5, <1>6 DEF Folded
<1>8. r[1 .. n] = h[1 .. n]
  BY <1>4
<1> HIDE DEF r
<1>9. h[1 .. n + 1] = Op(g[1 .. n], s[n + 1])
  BY <1>3, <1>7, <1>8
<1> QED BY <1>9 DEF Fold, g, h

(* A fold depends on the elements it takes in, and on no other.            *)
THEOREM FoldAgrees ==
  ASSUME TopIsLast, NEW base, NEW s, NEW z, NEW n \in Nat,
         \A i \in 1 .. n : s[i] = z[i]
  PROVE  Fold(base, s, n) = Fold(base, z, n)
<1>1. ASSUME NEW g, NEW t \in SUBSET (1 .. n)
      PROVE  Folded(g, base, s, t) = Folded(g, base, z, t)
  <2>1. t # {} => Top(t) \in 1 .. n
    BY DEF TopIsLast
  <2> QED BY <2>1 DEF Folded
<1>2. ASSUME NEW g PROVE IsFold(g, base, s, n) <=> IsFold(g, base, z, n)
  BY <1>1, FoldIs, Zenon
<1> DEFINE a == CHOOSE g : IsFold(g, base, s, n)
           b == CHOOSE g : IsFold(g, base, z, n)
<1>3. IsFold(a, base, s, n)
  BY FoldExists, Zenon
<1>4. IsFold(b, base, z, n)
  BY FoldExists, Zenon
<1> HIDE DEF a, b
<1>5. a = b
  BY <1>2, <1>3, <1>4, FoldExists, Zenon
<1> QED BY <1>5 DEF Fold, a, b
=============================================================================
