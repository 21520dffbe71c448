--------------------------- MODULE AnalysisProofs ---------------------------
(***************************************************************************)
(* Theorems about the statistics and about the tools that use them, for    *)
(* all samples, traces and sizes: the running accumulators, merged or not, *)
(* the bucket search, the percentiles, the order of the lines of a report, *)
(* and the way of a trace through rt_trace and rt_analyze.                 *)
(***************************************************************************)
EXTENDS TraceDump, FiniteSetTheorems, SequenceTheorems, TLAPS

AddOne(h, value) == AddedTo(h, value, 1)
AddSquare(sum, x) == sum + x * x

(* The folds of the model, as Folding knows them.                          *)
Filling == INSTANCE Folding WITH Op <- AddOne, Top <- Max
Adding == INSTANCE Folding WITH Op <- Added, Top <- Max
Summing == INSTANCE Folding WITH Op <- +, Top <- Max
Squaring == INSTANCE Folding WITH Op <- AddSquare, Top <- Max
Sorting == INSTANCE Folding WITH Op <- Inserted, Top <- Max

-----------------------------------------------------------------------------
(* Histogram                                                               *)

(* A histogram of n buckets between boundaries that grow.                  *)
Buckets(h, n) ==
  /\ n \in Nat \ {0}
  /\ h \in [counts : [0 .. n - 1 -> Nat], total : Nat, scale : Nat \ {0},
            boundaries : [0 .. n -> Int]]
  /\ \A i, j \in 0 .. n : i < j => h.boundaries[i] < h.boundaries[j]

LEMMA BucketsCounted ==
  ASSUME NEW h, NEW n, Buckets(h, n) PROVE NumBuckets(h) = n
<1>1. n - 1 \in Int /\ 0 <= n - 1 /\ (n - 1) - 0 + 1 = n
  BY DEF Buckets
<1>2. Cardinality(0 .. n - 1) = n
  BY <1>1, FS_Interval
<1> QED BY <1>2 DEF NumBuckets, Buckets

(* The least of a set of boundaries' numbers.                              *)
LEMMA LeastIs ==
  ASSUME NEW S, NEW n \in Nat, S \subseteq 0 .. n, NEW m \in S,
         \A j \in S : m <= j
  PROVE  Min(S) = m
<1>1. \A x \in S : (\A y \in S : x <= y) => x = m
  BY SMT
<1>2. \E x \in S : \A y \in S : x <= y
  OBVIOUS
<1> QED BY <1>1, <1>2 DEF Min

(* FindBucket returns a bucket, the only one a value belongs to: the one   *)
(* between whose boundaries it lies, or the first or last if it lies       *)
(* beyond.                                                                 *)
THEOREM BucketFound ==
  ASSUME NEW h, NEW n, Buckets(h, n), NEW value \in Int
  PROVE  /\ FindBucket(h, value) \in DOMAIN h.counts
         /\ \A i \in DOMAIN h.counts : Belongs(h, i, value) <=> i = FindBucket(h, value)
<1> DEFINE b == h.boundaries
           v == value * h.scale
           f == FindBucket(h, value)
           Beyond == {i \in 0 .. n : b[i] > v}
<1>1. /\ NumBuckets(h) = n /\ n \in Nat \ {0} /\ v \in Int
      /\ DOMAIN h.counts = 0 .. n - 1
      /\ \A i \in 0 .. n : b[i] \in Int
      /\ \A i, j \in 0 .. n : i < j => b[i] < b[j]
  <2>1. h.scale \in Int
    BY DEF Buckets
  <2>2. v \in Int
    BY <2>1
  <2> QED BY <2>2, BucketsCounted DEF Buckets
<1>2. f = IF v <= b[0] THEN 0 ELSE IF v >= b[n] THEN n - 1 ELSE Min(Beyond) - 1
  BY <1>1 DEF FindBucket
<1>3. \A i \in 0 .. n - 1 : Belongs(h, i, value) <=>
         (i = 0 \/ b[i] <= v) /\ (i = n - 1 \/ v < b[i + 1])
  BY <1>1 DEF Belongs, BucketLower, BucketUpper
<1> HIDE DEF b, v, f
<1>4. f \in 0 .. n - 1 /\ (f = 0 \/ b[f] <= v) /\ (f = n - 1 \/ v < b[f + 1])
  <2>1. CASE v <= b[0]
    <3>1. f = 0
      BY <1>2, <2>1
    <3>2. n = 1 \/ b[0] < b[1]
      BY <1>1
    <3>3. n = 1 \/ v < b[1]
      <4>1. CASE n = 1
        BY <4>1
      <4>2. CASE n # 1
        <5>1. 0 \in 0 .. n /\ 1 \in 0 .. n
          BY <1>1
        <5>2. b[0] \in Int /\ b[1] \in Int
          BY <1>1, <5>1
        <5> QED BY <1>1, <2>1, <3>2, <4>2, <5>2
      <4> QED BY <4>1, <4>2
    <3> QED BY <1>1, <3>1, <3>3
  <2>2. CASE ~(v <= b[0]) /\ v >= b[n]
    <3>1. f = n - 1 /\ n - 1 \in 0 .. n /\ n \in 0 .. n
      BY <1>1, <1>2, <2>2
    <3>2. b[n - 1] < b[n] /\ b[n - 1] \in Int /\ b[n] \in Int
      BY <1>1, <3>1
    <3>3. b[n - 1] <= v
      BY <1>1, <2>2, <3>2
    <3> QED BY <1>1, <3>1, <3>3
  <2>3. CASE ~(v <= b[0]) /\ ~(v >= b[n])
    <3>1. n \in Beyond /\ Beyond \subseteq 0 .. n /\ 0 \notin Beyond
      <4>1. 0 \in 0 .. n /\ n \in 0 .. n
        BY <1>1
      <4>2. b[0] \in Int /\ b[n] \in Int
        BY <1>1, <4>1
      <4> QED BY <1>1, <2>3, <4>1, <4>2
    <3>2. \E m \in Beyond : \A j \in Beyond : m <= j
      <4>1. Beyond \subseteq Nat /\ Beyond # {}
        BY <1>1, <3>1
      <4> HIDE DEF Beyond
      <4> QED BY <4>1, Filling!LeastExists
    <3>3. PICK m \in Beyond : \A j \in Beyond : m <= j
      BY <3>2
    <3>4. Min(Beyond) = m
      BY <1>1, <3>1, <3>3, LeastIs
    <3>5. m \in 1 .. n /\ b[m] > v /\ m - 1 \notin Beyond /\ m - 1 \in 0 .. n
      BY <1>1, <3>1, <3>3
    <3>6. b[m - 1] <= v
      BY <1>1, <3>5
    <3> QED BY <1>1, <1>2, <2>3, <3>4, <3>5, <3>6
  <2> QED BY <2>1, <2>2, <2>3
<1>5. ASSUME NEW i \in 0 .. n - 1, i = 0 \/ b[i] <= v, i = n - 1 \/ v < b[i + 1]
      PROVE  i = f
  <2> USE <1>1, <1>4, <1>5
  <2>1. i \in 0 .. n /\ f \in 0 .. n /\ i + 1 \in 0 .. n /\ f + 1 \in 0 .. n
    OBVIOUS
  <2>2. b[i] \in Int /\ b[f] \in Int /\ b[i + 1] \in Int /\ b[f + 1] \in Int
    BY <2>1
  <2>3. ASSUME i < f PROVE FALSE
    <3>1. v < b[i + 1] /\ b[f] <= v
      BY <2>3
    <3>2. i + 1 = f \/ b[i + 1] < b[f]
      BY <2>1, <2>3
    <3> QED BY <2>2, <3>1, <3>2
  <2>4. ASSUME f < i PROVE FALSE
    <3>1. v < b[f + 1] /\ b[i] <= v
      BY <2>4
    <3>2. f + 1 = i \/ b[f + 1] < b[i]
      BY <2>1, <2>4
    <3> QED BY <2>2, <3>1, <3>2
  <2> QED BY <2>3, <2>4
<1>6. f \in DOMAIN h.counts
  BY <1>1, <1>4
<1>7. \A i \in DOMAIN h.counts : Belongs(h, i, value) <=> i = f
  BY <1>1, <1>3, <1>4, <1>5
<1> QED BY <1>6, <1>7 DEF f

(* The boundaries of a linear histogram over a range that is not empty     *)
(* grow.                                                                   *)
LEMMA LinearBuckets ==
  ASSUME NEW n \in Nat \ {0}, NEW min \in Int, NEW max \in Int, min < max
  PROVE  Buckets(Linear(n, min, max), n)
<1> DEFINE h == Linear(n, min, max)
           b == [i \in 0 .. n |-> min * n + (max - min) * i]
<1>1. h = [counts |-> [i \in 0 .. n - 1 |-> 0], total |-> 0, scale |-> n,
           boundaries |-> b]
  BY DEF Linear
<1>2. b \in [0 .. n -> Int]
  <2>1. ASSUME NEW i \in 0 .. n PROVE min * n + (max - min) * i \in Int
    <3>1. min * n \in Int /\ (max - min) * i \in Int
      BY SMT
    <3> QED BY <3>1
  <2> QED BY <2>1
<1>3. ASSUME NEW i \in 0 .. n, NEW j \in 0 .. n, i < j PROVE b[i] < b[j]
  <2>1. (max - min) * i < (max - min) * j
    <3>1. max - min \in Nat \ {0} /\ j - i \in Nat \ {0}
      BY <1>3
    <3>2. (max - min) * (j - i) > 0
      BY <3>1, SMT
    <3>3. (max - min) * j = (max - min) * i + (max - min) * (j - i)
      BY SMT
    <3>4. (max - min) * i \in Int /\ (max - min) * (j - i) \in Int
      BY SMT
    <3> QED BY <3>2, <3>3, <3>4, SMT
  <2>2. min * n \in Int /\ (max - min) * i \in Int /\ (max - min) * j \in Int
    BY SMT
  <2>3. b[i] = min * n + (max - min) * i /\ b[j] = min * n + (max - min) * j
    OBVIOUS
  <2> QED BY <2>1, <2>2, <2>3
<1> HIDE DEF b
<1> QED BY <1>1, <1>2, <1>3 DEF Buckets

LEMMA RecordKept ==
  ASSUME NEW A, NEW B, NEW C, NEW D, NEW c \in A, NEW count,
         NEW h \in [counts : A, total : B, scale : C, boundaries : D],
         h.total + count \in B
  PROVE  [[h EXCEPT !.counts = c] EXCEPT !.total = @ + count]
           \in [counts : A, total : B, scale : C, boundaries : D]
OBVIOUS

(* Adding keeps the boundaries and counts the value in the one bucket it   *)
(* belongs to.                                                             *)
THEOREM ValueCounted ==
  ASSUME NEW h, NEW n, Buckets(h, n), NEW value \in Int, NEW count \in Nat
  PROVE  LET g == AddedTo(h, value, count)
         IN /\ Buckets(g, n)
            /\ g.boundaries = h.boundaries /\ g.scale = h.scale
            /\ g.total = h.total + count
            /\ \A i \in 0 .. n - 1 :
                 g.counts[i] = h.counts[i] + (IF Belongs(h, i, value) THEN count ELSE 0)
<1> DEFINE f == FindBucket(h, value)
           c == [h.counts EXCEPT ![f] = @ + count]
           g == AddedTo(h, value, count)
<1>1. /\ f \in 0 .. n - 1 /\ \A i \in 0 .. n - 1 : Belongs(h, i, value) <=> i = f
      /\ n \in Nat \ {0} /\ h.counts \in [0 .. n - 1 -> Nat] /\ h.total \in Nat
  BY BucketFound DEF Buckets
<1>2. g = [[h EXCEPT !.counts = c] EXCEPT !.total = @ + count]
  BY DEF AddedTo
<1> HIDE DEF f, g
<1>3. /\ c \in [0 .. n - 1 -> Nat]
      /\ \A i \in 0 .. n - 1 : c[i] = h.counts[i] + (IF i = f THEN count ELSE 0)
  BY <1>1
<1> HIDE DEF c
<1>4. /\ g \in [counts : [0 .. n - 1 -> Nat], total : Nat, scale : Nat \ {0},
                boundaries : [0 .. n -> Int]]
      /\ g.boundaries = h.boundaries /\ g.scale = h.scale
      /\ g.total = h.total + count /\ g.counts = c
  <2>1. h \in [counts : [0 .. n - 1 -> Nat], total : Nat, scale : Nat \ {0},
               boundaries : [0 .. n -> Int]]
    BY DEF Buckets
  <2>2. g.boundaries = h.boundaries /\ g.scale = h.scale
    BY <1>2, <2>1
  <2>3. g.total = h.total + count
    BY <1>2, <2>1
  <2>4. g.counts = c
    BY <1>2, <2>1
  <2>5. g \in [counts : [0 .. n - 1 -> Nat], total : Nat, scale : Nat \ {0},
               boundaries : [0 .. n -> Int]]
    <3>1. h.total + count \in Nat
      BY <1>1
    <3> QED BY <1>2, <1>3, <2>1, <3>1, RecordKept, Zenon
  <2> QED BY <2>2, <2>3, <2>4, <2>5
<1>5. Buckets(g, n)
  BY <1>4 DEF Buckets
<1>6. \A i \in 0 .. n - 1 : g.counts[i] = h.counts[i] + (IF Belongs(h, i, value) THEN count ELSE 0)
  BY <1>1, <1>3, <1>4, Zenon
<1> QED BY <1>4, <1>5, <1>6 DEF g

-----------------------------------------------------------------------------
LEMMA MaxIsTop == Filling!TopIsLast
<1>1. ASSUME NEW n \in Nat, NEW t \in SUBSET (1 .. n), t # {} PROVE Max(t) \in t
  <2> DEFINE S == {n - x : x \in t}
  <2>1. S \subseteq Nat /\ S # {}
    <3>1. \A x \in t : x \in 1 .. n
      BY <1>1
    <3>2. \A x \in 1 .. n : n - x \in Nat
      BY SMT
    <3> QED BY <1>1, <3>1, <3>2, Zenon
  <2>2. PICK m \in S : \A j \in S : m <= j
    BY <2>1, Filling!LeastExists
  <2>3. PICK x \in t : m = n - x
    BY <2>2
  <2>4. \A y \in t : n - y \in S /\ x \in Int /\ y \in Int
    BY <1>1
  <2>5. ASSUME NEW y \in t PROVE x >= y
    <3>1. n - x <= n - y /\ x \in Int /\ y \in Int
      <4>1. n - y \in S
        OBVIOUS
      <4> HIDE DEF S
      <4> QED BY <2>2, <2>3, <2>4, <4>1, Zenon
    <3> QED BY <3>1
  <2> QED BY <2>5, <2>3 DEF Max
<1>2. ASSUME NEW n \in Nat, NEW t \in SUBSET (1 .. n), n \in t PROVE Max(t) = n
  <2>1. \A y \in t : y \in Int /\ n >= y
    BY <1>2
  <2>2. \A x \in t : (\A y \in t : x >= y) => x = n
    BY <1>2, <2>1
  <2>3. \E x \in t : \A y \in t : x >= y
    BY <1>2, <2>1
  <2> QED BY <2>2, <2>3 DEF Max
<1> QED BY <1>1, <1>2, Zenon DEF Filling!TopIsLast

(* One more position counts if it satisfies what is counted.               *)
LEMMA OneMoreCounted ==
  ASSUME NEW P, NEW m \in Nat
  PROVE  LET Those(k) == {j \in 1 .. k : j \in P}
         IN /\ Cardinality(Those(m)) \in Nat
            /\ Cardinality(Those(m + 1)) =
                 Cardinality(Those(m)) + (IF m + 1 \in P THEN 1 ELSE 0)
<1> DEFINE Those(k) == {j \in 1 .. k : j \in P}
<1>1. IsFiniteSet(1 .. m) /\ Those(m) \in SUBSET (1 .. m)
  BY FS_Interval
<1>2. IsFiniteSet(Those(m)) /\ Cardinality(Those(m)) \in Nat
  <2>1. IsFiniteSet(Those(m))
    BY <1>1, FS_Subset, Zenon
  <2> HIDE DEF Those
  <2> QED BY <2>1, FS_CardinalityType
<1>3. m + 1 \notin Those(m) /\ (m + 1 \in P => Those(m + 1) = Those(m) \cup {m + 1})
      /\ (m + 1 \notin P => Those(m + 1) = Those(m))
  <2>1. \A j : j \in 1 .. m + 1 <=> j \in 1 .. m \/ j = m + 1
    BY SMT
  <2>2. m + 1 \notin 1 .. m
    BY SMT
  <2> QED BY <2>1, <2>2
<1> HIDE DEF Those
<1>4. Cardinality(Those(m) \cup {m + 1}) = Cardinality(Those(m)) + 1
  BY <1>2, <1>3, FS_AddElement
<1>5. Cardinality(Those(m + 1)) = Cardinality(Those(m)) + (IF m + 1 \in P THEN 1 ELSE 0)
  <2>1. CASE m + 1 \in P
    BY <1>2, <1>3, <1>4, <2>1
  <2>2. CASE m + 1 \notin P
    BY <1>2, <1>3, <2>2
  <2> QED BY <2>1, <2>2
<1> QED BY <1>2, <1>5 DEF Those

LEMMA BelongsSame ==
  ASSUME NEW h, NEW g, NEW n, Buckets(h, n), Buckets(g, n),
         g.boundaries = h.boundaries, g.scale = h.scale, NEW v, NEW i
  PROVE  Belongs(g, i, v) <=> Belongs(h, i, v)
<1>1. NumBuckets(g) = NumBuckets(h) /\ DOMAIN g.counts = DOMAIN h.counts
  BY BucketsCounted DEF Buckets
<1> QED BY <1>1 DEF Belongs, BucketLower, BucketUpper

Empty(h, n) ==
  Buckets(h, n) /\ h.total = 0 /\ \A i \in 0 .. n - 1 : h.counts[i] = 0

(* The positions, among the first m, of the values in bucket i of h.       *)
InBucket(h, i, s, m) == {j \in 1 .. m : Belongs(h, i, s[j])}

(* g is h filled with the first m values of s.                             *)
Tallies(h, g, n, s, m) ==
  /\ Buckets(g, n) /\ g.boundaries = h.boundaries /\ g.scale = h.scale
  /\ g.total = m
  /\ \A i \in 0 .. n - 1 : g.counts[i] = Cardinality(InBucket(h, i, s, m))

LEMMA InBucketNext ==
  ASSUME NEW h, NEW i, NEW s, NEW m \in Nat
  PROVE  /\ Cardinality(InBucket(h, i, s, m)) \in Nat
         /\ Cardinality(InBucket(h, i, s, m + 1)) =
              Cardinality(InBucket(h, i, s, m))
                + (IF Belongs(h, i, s[m + 1]) THEN 1 ELSE 0)
<1> DEFINE P == {j \in 1 .. m + 1 : Belongs(h, i, s[j])}
<1>1. \A j \in 1 .. m : j \in 1 .. m + 1
  BY SMT
<1>2. m + 1 \in 1 .. m + 1
  BY SMT
<1>3. /\ {j \in 1 .. m : j \in P} = InBucket(h, i, s, m)
      /\ {j \in 1 .. m + 1 : j \in P} = InBucket(h, i, s, m + 1)
      /\ m + 1 \in P <=> Belongs(h, i, s[m + 1])
  BY <1>1, <1>2 DEF InBucket
<1> HIDE DEF P
<1> QED BY <1>3, OneMoreCounted

LEMMA NoneTallied ==
  ASSUME NEW h, NEW n, Empty(h, n), NEW s PROVE Tallies(h, h, n, s, 0)
<1>1. \A i : InBucket(h, i, s, 0) = {}
  BY SMT DEF InBucket
<1> QED BY <1>1, FS_EmptySet DEF Empty, Tallies

LEMMA NextTallied ==
  ASSUME NEW h, NEW n, Empty(h, n), NEW s, NEW m \in Nat, s[m + 1] \in Int,
         NEW g, Tallies(h, g, n, s, m)
  PROVE  Tallies(h, AddOne(g, s[m + 1]), n, s, m + 1)
<1> DEFINE v == s[m + 1]
           k == AddedTo(g, v, 1)
<1>1. Buckets(h, n) /\ Buckets(g, n)
  BY DEF Empty, Tallies
<1>2. /\ Buckets(k, n)
      /\ k.boundaries = g.boundaries /\ k.scale = g.scale
      /\ k.total = g.total + 1
      /\ \A i \in 0 .. n - 1 :
            k.counts[i] = g.counts[i] + (IF Belongs(g, i, v) THEN 1 ELSE 0)
  BY <1>1, ValueCounted
<1>3. \A i : Belongs(g, i, v) <=> Belongs(h, i, v)
  BY <1>1, BelongsSame DEF Tallies
<1> HIDE DEF k
<1>4. ASSUME NEW i \in 0 .. n - 1
      PROVE  k.counts[i] = Cardinality(InBucket(h, i, s, m + 1))
  <2>1. k.counts[i] = g.counts[i] + (IF Belongs(h, i, v) THEN 1 ELSE 0)
    BY <1>2, <1>3, Zenon
  <2>2. g.counts[i] = Cardinality(InBucket(h, i, s, m))
    BY DEF Tallies
  <2>3. Cardinality(InBucket(h, i, s, m + 1)) =
          Cardinality(InBucket(h, i, s, m)) + (IF Belongs(h, i, v) THEN 1 ELSE 0)
    BY InBucketNext
  <2> QED BY <2>1, <2>2, <2>3, Zenon
<1> QED BY <1>2, <1>4 DEF Tallies, AddOne, k

LEMMA FilledIsFold ==
  ASSUME NEW h, NEW s \in Seq(Int)
  PROVE  FilledWith(h, s) = Filling!Fold(h, s, Len(s))
<1>1. DOMAIN s = 1 .. Len(s)
  OBVIOUS
<1> QED BY <1>1 DEF FilledWith, FoldLeft, MapThenFoldSet, Filling!Fold, Filling!IsFold, AddOne

(* Filling an empty histogram counts each value in its bucket.             *)
THEOREM AllTallied ==
  ASSUME NEW h, NEW n, Empty(h, n), NEW s \in Seq(Int)
  PROVE  Tallies(h, FilledWith(h, s), n, s, Len(s))
<1> DEFINE G(m) == Filling!Fold(h, s, m)
           Good == {m \in Nat : m <= Len(s) => Tallies(h, G(m), n, s, m)}
<1>1. 0 \in Good
  BY MaxIsTop, Filling!FoldNone, NoneTallied
<1>2. ASSUME NEW m \in Nat, m \in Good PROVE m + 1 \in Good
  <2> SUFFICES ASSUME m + 1 <= Len(s) PROVE Tallies(h, G(m + 1), n, s, m + 1)
    OBVIOUS
  <2>1. Tallies(h, G(m), n, s, m) /\ s[m + 1] \in Int
    BY <1>2
  <2>2. G(m + 1) = AddOne(G(m), s[m + 1])
    BY MaxIsTop, Filling!FoldNext
  <2> QED BY <2>1, <2>2, NextTallied
<1> HIDE DEF Good
<1>3. Len(s) \in Good
  BY <1>1, <1>2, Filling!Counting
<1> QED BY <1>3, FilledIsFold DEF Good

(* What two parts count adds up to what the whole does.                    *)
LEMMA PartsAddUp ==
  ASSUME NEW h, NEW i, NEW s \in Seq(Int), NEW k \in 0 .. Len(s)
  PROVE  Cardinality(InBucket(h, i, SubSeq(s, 1, k), k))
           + Cardinality(InBucket(h, i, SubSeq(s, k + 1, Len(s)), Len(s) - k))
         = Cardinality(InBucket(h, i, s, Len(s)))
<1> DEFINE a == SubSeq(s, 1, k)
           z == SubSeq(s, k + 1, Len(s))
           C(y, m) == Cardinality(InBucket(h, i, y, m))
           Good == {m \in Nat : m <= Len(s) - k => C(s, k) + C(z, m) = C(s, k + m)}
<1>1. k \in Nat /\ Len(s) \in Nat /\ Len(s) - k \in Nat /\ k + (Len(s) - k) = Len(s)
  OBVIOUS
<1>2. \A j \in 1 .. k : a[j] = s[j]
  OBVIOUS
<1>3. \A j \in Nat : j + 1 <= Len(s) - k => z[j + 1] = s[(k + j) + 1]
  OBVIOUS
<1> HIDE DEF a, z
<1>4. C(a, k) = C(s, k)
  BY <1>2 DEF InBucket
<1>5. \A m \in Nat : /\ C(s, m) \in Nat /\ C(z, m) \in Nat
                     /\ C(s, m + 1) = C(s, m) + (IF Belongs(h, i, s[m + 1]) THEN 1 ELSE 0)
                     /\ C(z, m + 1) = C(z, m) + (IF Belongs(h, i, z[m + 1]) THEN 1 ELSE 0)
  BY InBucketNext
<1>6. C(z, 0) = 0
  <2>1. InBucket(h, i, z, 0) = {}
    BY SMT DEF InBucket
  <2> QED BY <2>1, FS_EmptySet
<1> HIDE DEF C
<1>7. 0 \in Good
  <2>1. k + 0 = k /\ C(s, k) + 0 = C(s, k)
    BY <1>1, <1>5
  <2> QED BY <1>6, <2>1
<1>8. ASSUME NEW m \in Nat, m \in Good PROVE m + 1 \in Good
  <2> SUFFICES ASSUME m + 1 <= Len(s) - k PROVE C(s, k) + C(z, m + 1) = C(s, k + (m + 1))
    OBVIOUS
  <2>1. C(s, k) + C(z, m) = C(s, k + m)
    BY <1>8
  <2>2. m <= Len(s) - k /\ z[m + 1] = s[(k + m) + 1] /\ k + m \in Nat
    BY <1>1, <1>3
  <2>3. k + (m + 1) = (k + m) + 1
    BY <1>1
  <2> DEFINE d == IF Belongs(h, i, z[m + 1]) THEN 1 ELSE 0
  <2>4. d \in Nat
    BY Zenon, 0 \in Nat, 1 \in Nat
  <2>5. C(z, m + 1) = C(z, m) + d /\ C(s, (k + m) + 1) = C(s, k + m) + d
    BY <1>5, <2>2, Zenon
  <2>6. C(s, k) \in Nat /\ C(z, m) \in Nat /\ C(s, k + m) \in Nat
    BY <1>1, <1>5, <2>2
  <2> HIDE DEF d
  <2> QED BY <2>1, <2>3, <2>4, <2>5, <2>6
<1> HIDE DEF Good
<1>9. Len(s) - k \in Good
  BY <1>1, <1>7, <1>8, Filling!Counting
<1>10. C(s, k) + C(z, Len(s) - k) = C(s, Len(s))
  BY <1>1, <1>9 DEF Good
<1> QED BY <1>4, <1>10 DEF C, a, z

(* Merging adds up the counts, clearing leaves the boundaries alone.       *)
LEMMA MergedIs ==
  ASSUME NEW f, NEW g, NEW n, Buckets(f, n), Buckets(g, n)
  PROVE  LET m == MergedWith(f, g)
         IN /\ m.total = f.total + g.total
            /\ \A i \in 0 .. n - 1 : m.counts[i] = f.counts[i] + g.counts[i]
            /\ Cleared(m) = [counts |-> [i \in 0 .. n - 1 |-> 0], total |-> 0,
                             scale |-> f.scale, boundaries |-> f.boundaries]
<1> DEFINE c == [i \in 0 .. n - 1 |-> f.counts[i] + g.counts[i]]
           m == MergedWith(f, g)
           z == [i \in 0 .. n - 1 |-> 0]
<1>1. NumBuckets(f) = NumBuckets(g) /\ DOMAIN f.counts = 0 .. n - 1
  BY BucketsCounted DEF Buckets
<1>2. m = [[f EXCEPT !.counts = c] EXCEPT !.total = @ + g.total]
  BY <1>1 DEF MergedWith
<1>3. f \in [counts : [0 .. n - 1 -> Nat], total : Nat, scale : Nat \ {0},
             boundaries : [0 .. n -> Int]]
  BY DEF Buckets
<1>4. DOMAIN c = 0 .. n - 1 /\ \A i \in 0 .. n - 1 : c[i] = f.counts[i] + g.counts[i]
  OBVIOUS
<1> HIDE DEF m, c
<1>5. m = [counts |-> c, total |-> f.total + g.total, scale |-> f.scale,
           boundaries |-> f.boundaries]
  BY <1>2, <1>3
<1>6. m.counts = c /\ m.total = f.total + g.total
  BY <1>5
<1>7. Cleared(m) = [[m EXCEPT !.counts = z] EXCEPT !.total = 0]
  BY <1>4, <1>6 DEF Cleared
<1> HIDE DEF z
<1>8. Cleared(m) = [counts |-> z, total |-> 0, scale |-> f.scale,
                    boundaries |-> f.boundaries]
  BY <1>5, <1>7
<1> QED BY <1>4, <1>6, <1>8 DEF m, z

LEMMA EmptyIs ==
  ASSUME NEW h, NEW n, Empty(h, n)
  PROVE  h = [counts |-> [i \in 0 .. n - 1 |-> 0], total |-> 0,
              scale |-> h.scale, boundaries |-> h.boundaries]
<1>1. h = [counts |-> h.counts, total |-> h.total, scale |-> h.scale,
           boundaries |-> h.boundaries]
  BY DEF Empty, Buckets
<1>2. h.counts = [i \in 0 .. n - 1 |-> 0]
  BY DEF Empty, Buckets
<1> QED BY <1>1, <1>2 DEF Empty

LEMMA LinearEmpty ==
  ASSUME NEW n \in Nat \ {0}, NEW min \in Int, NEW max \in Int, min < max
  PROVE  Empty(Linear(n, min, max), n)
<1>1. Buckets(Linear(n, min, max), n)
  BY LinearBuckets
<1>2. /\ Linear(n, min, max).total = 0
      /\ Linear(n, min, max).counts = [i \in 0 .. n - 1 |-> 0]
  BY DEF Linear
<1> QED BY <1>1, <1>2 DEF Empty

LEMMA ConfigurationsEmpty ==
  ASSUME NEW h \in Configurations PROVE \E n : Empty(h, n)
<1>1. Empty(Linear(1, 1, 3), 1) /\ Empty(Linear(3, 1, 3), 3)
  BY LinearEmpty
<1>2. Empty(Logarithmic(0, 2), 2)
  <2>1. 2 ^ 0 = 1 /\ 2 ^ 1 = 2 /\ 2 ^ 2 = 4
    BY SMT
  <2>2. /\ Logarithmic(0, 2).counts = [i \in 0 .. 1 |-> 0]
        /\ Logarithmic(0, 2) = [counts |-> [i \in 0 .. 1 |-> 0], total |-> 0, scale |-> 1,
            boundaries |-> [i \in 0 .. 2 |-> 2 ^ i]]
    BY DEF Logarithmic
  <2>3. [i \in 0 .. 2 |-> 2 ^ i] = [i \in 0 .. 2 |-> IF i = 0 THEN 1 ELSE 2 * i]
    BY <2>1
  <2> QED BY <2>2, <2>3 DEF Empty, Buckets
<1>3. Empty(Logarithmic(1, 1), 1)
  <2>1. 2 ^ (1 + 0) = 2 /\ 2 ^ (1 + 1) = 4
    <3>1. 2 ^ 1 = 2 /\ 2 ^ 2 = 4
      BY SMT
    <3> QED BY <3>1
  <2>2. Logarithmic(1, 1) = [counts |-> [i \in 0 .. 0 |-> 0], total |-> 0, scale |-> 1,
            boundaries |-> [i \in 0 .. 1 |-> 2 ^ (1 + i)]]
    BY DEF Logarithmic
  <2>3. [i \in 0 .. 1 |-> 2 ^ (1 + i)] = [i \in 0 .. 1 |-> 2 + 2 * i]
    BY <2>1
  <2> QED BY <2>2, <2>3 DEF Empty, Buckets
<1> QED BY <1>1, <1>2, <1>3 DEF Configurations

LEMMA BucketsOfAnySamples == samples \in Seq(Int) => BucketsAsDefined
<1> SUFFICES ASSUME samples \in Seq(Int), NEW h \in Configurations,
                    NEW k \in 0 .. Len(samples)
             PROVE  LET merged == MergedWith(FilledWith(h, SubSeq(samples, 1, k)),
                                    FilledWith(h, SubSeq(samples, k + 1, Len(samples))))
                    IN /\ merged.total = Len(samples)
                       /\ Cleared(merged) = h
                       /\ \A i \in DOMAIN h.counts :
                            merged.counts[i] = Cardinality(
                              {j \in 1 .. Len(samples) : Belongs(h, i, samples[j])})
  BY DEF BucketsAsDefined
<1>1. PICK n : Empty(h, n)
  BY ConfigurationsEmpty
<1> DEFINE a == SubSeq(samples, 1, k)
           z == SubSeq(samples, k + 1, Len(samples))
           f == FilledWith(h, a)
           g == FilledWith(h, z)
           merged == MergedWith(f, g)
<1>2. a \in Seq(Int) /\ z \in Seq(Int) /\ Len(a) = k /\ Len(z) = Len(samples) - k
      /\ k + (Len(samples) - k) = Len(samples)
  OBVIOUS
<1> HIDE DEF a, z
<1>3. Tallies(h, f, n, a, k) /\ Tallies(h, g, n, z, Len(samples) - k)
  BY <1>1, <1>2, AllTallied
<1> HIDE DEF f, g
<1>4. /\ Buckets(f, n) /\ Buckets(g, n) /\ DOMAIN h.counts = 0 .. n - 1
      /\ f.boundaries = h.boundaries /\ f.scale = h.scale
      /\ f.total = k /\ g.total = Len(samples) - k
  BY <1>1, <1>3 DEF Tallies, Empty, Buckets
<1>5. /\ merged.total = f.total + g.total
      /\ \A i \in 0 .. n - 1 : merged.counts[i] = f.counts[i] + g.counts[i]
      /\ Cleared(merged) = h
  <2>1. /\ merged.total = f.total + g.total
        /\ \A i \in 0 .. n - 1 : merged.counts[i] = f.counts[i] + g.counts[i]
        /\ Cleared(merged) = [counts |-> [i \in 0 .. n - 1 |-> 0], total |-> 0,
                              scale |-> f.scale, boundaries |-> f.boundaries]
    BY <1>4, MergedIs
  <2>2. h = [counts |-> [i \in 0 .. n - 1 |-> 0], total |-> 0,
             scale |-> h.scale, boundaries |-> h.boundaries]
    BY <1>1, EmptyIs
  <2> HIDE DEF merged
  <2>3. Cleared(merged) = h
    BY <1>4, <2>1, <2>2, Zenon
  <2> QED BY <2>1, <2>3
<1>6. ASSUME NEW i \in 0 .. n - 1
      PROVE  f.counts[i] + g.counts[i] = Cardinality(InBucket(h, i, samples, Len(samples)))
  <2>1. /\ f.counts[i] = Cardinality(InBucket(h, i, a, k))
        /\ g.counts[i] = Cardinality(InBucket(h, i, z, Len(samples) - k))
    BY <1>3 DEF Tallies
  <2> QED BY <2>1, PartsAddUp DEF a, z
<1> HIDE DEF merged
<1>7. \A i \in 0 .. n - 1 : merged.counts[i] =
        Cardinality({j \in 1 .. Len(samples) : Belongs(h, i, samples[j])})
  BY <1>5, <1>6, Zenon DEF InBucket
<1> QED BY <1>2, <1>4, <1>5, <1>7 DEF merged, f, g, a, z

-----------------------------------------------------------------------------
(* Fractions                                                               *)

(* e makes a whole multiple of n / d.                                      *)
Clears(n, d, e) == \E k \in Int : n * e = k * d

LEMMA Divides ==
  ASSUME NEW m \in Int, NEW d \in Nat \ {0}
  PROVE  m % d = 0 <=> m = (m \div d) * d
<1>1. m = d * (m \div d) + (m % d) /\ m \div d \in Int /\ m % d \in 0 .. d - 1
  BY SMT
<1> QED BY <1>1

LEMMA MultipleDivides ==
  ASSUME NEW k \in Int, NEW d \in Nat \ {0}
  PROVE  (k * d) % d = 0 /\ (k * d) \div d = k
BY SMT

LEMMA ClearsIs ==
  ASSUME NEW n \in Int, NEW d \in Nat \ {0}, NEW e \in Nat
  PROVE  Clears(n, d, e) <=> (n * e) % d = 0
<1>1. n * e \in Int
  BY SMT
<1>2. (n * e) \div d \in Int
  BY <1>1, SMT
<1>3. ASSUME NEW k \in Int, n * e = k * d PROVE (n * e) % d = 0
  BY <1>3, MultipleDivides
<1>4. (n * e) % d = 0 => n * e = ((n * e) \div d) * d
  BY <1>1, Divides
<1> QED BY <1>2, <1>3, <1>4 DEF Clears

LEMMA RationalIs ==
  ASSUME NEW n \in Int, NEW d \in Nat \ {0}
  PROVE  /\ Rational(n, d).num \in Int /\ Rational(n, d).den \in Nat \ {0}
         /\ Rational(n, d).num * d = n * Rational(n, d).den
         /\ Rational(n, d).den \in 1 .. d
         /\ Clears(n, d, Rational(n, d).den)
         /\ \A f \in 1 .. Rational(n, d).den - 1 : ~Clears(n, d, f)
<1> DEFINE Fit == {e \in 1 .. d : (n * e) % d = 0}
           Den == CHOOSE e \in 1 .. d : /\ (n * e) % d = 0
                                        /\ \A f \in 1 .. e - 1 : (n * f) % d # 0
<1>1. d \in Fit
  BY MultipleDivides
<1>2. PICK e \in Fit : \A f \in Fit : e <= f
  <2>1. Fit \subseteq 1 .. d /\ 1 .. d \subseteq Nat
    <3>1. Fit \subseteq 1 .. d
      OBVIOUS
    <3> HIDE DEF Fit
    <3> QED BY <3>1
  <2> HIDE DEF Fit
  <2> QED BY <1>1, <2>1, Filling!LeastExists
<1>3. e \in 1 .. d /\ (n * e) % d = 0 /\ \A f \in 1 .. e - 1 : (n * f) % d # 0
  <2>1. \A f \in 1 .. e - 1 : f \in 1 .. d /\ ~(e <= f)
    BY <1>2
  <2> QED BY <1>2, <2>1
<1>4. /\ Den \in 1 .. d /\ (n * Den) % d = 0
      /\ \A f \in 1 .. Den - 1 : (n * f) % d # 0
  BY <1>3, Zenon
<1> HIDE DEF Den, Fit
<1>5. Rational(n, d) = [num |-> (n * Den) \div d, den |-> Den]
  BY DEF Rational, Den
<1>6. n * Den \in Int /\ (n * Den) \div d \in Int
  <2>1. n * Den \in Int
    BY <1>4, SMT
  <2> QED BY <2>1, SMT
<1>7. ((n * Den) \div d) * d = n * Den
  BY <1>4, <1>6, Divides
<1>8. Clears(n, d, Den)
  BY <1>4, ClearsIs
<1>9. \A f \in 1 .. Den - 1 : ~Clears(n, d, f)
  <2>1. \A f \in 1 .. Den - 1 : f \in Nat
    BY <1>4
  <2> QED BY <1>4, <2>1, ClearsIs
<1> QED BY <1>4, <1>5, <1>6, <1>7, <1>8, <1>9

LEMMA Cancels ==
  ASSUME NEW a \in Int, NEW b \in Int, NEW c \in Nat \ {0}, a * c = b * c
  PROVE  a = b
<1>1. (a - b) * c = 0
  BY SMT
<1>2. a - b \in Int
  BY SMT
<1>3. \A x \in Int : x * c = 0 => x = 0
  BY SMT
<1>4. a - b = 0
  BY <1>1, <1>2, <1>3
<1> QED BY <1>4

LEMMA ClearsSame ==
  ASSUME NEW n \in Int, NEW d \in Nat \ {0}, NEW p \in Int, NEW q \in Nat \ {0},
         n * q = p * d, NEW e \in Nat, Clears(n, d, e)
  PROVE  Clears(p, q, e)
<1>1. PICK k \in Int : n * e = k * d
  BY DEF Clears
<1>2. (p * e) * d = (k * q) * d
  <2>1. (p * e) * d = (p * d) * e
    BY SMT
  <2>2. (n * q) * e = (n * e) * q
    BY SMT
  <2>3. (k * d) * q = (k * q) * d
    BY SMT
  <2> QED BY <1>1, <2>1, <2>2, <2>3, Zenon
<1>3. p * e \in Int /\ k * q \in Int
  BY SMT
<1>4. p * e = k * q
  BY <1>2, <1>3, Cancels
<1> QED BY <1>4 DEF Clears

(* Equal fractions have the same lowest terms.                             *)
LEMMA SameRational ==
  ASSUME NEW n \in Int, NEW d \in Nat \ {0}, NEW p \in Int, NEW q \in Nat \ {0},
         n * q = p * d
  PROVE  Rational(n, d) = Rational(p, q)
<1> DEFINE r == Rational(n, d)
           s == Rational(p, q)
<1>1. /\ r.num \in Int /\ r.den \in Nat \ {0} /\ r.num * d = n * r.den
      /\ Clears(n, d, r.den) /\ \A f \in 1 .. r.den - 1 : ~Clears(n, d, f)
  BY RationalIs
<1>2. /\ s.num \in Int /\ s.den \in Nat \ {0} /\ s.num * q = p * s.den
      /\ Clears(p, q, s.den) /\ \A f \in 1 .. s.den - 1 : ~Clears(p, q, f)
  BY RationalIs
<1>3. r = [num |-> r.num, den |-> r.den] /\ s = [num |-> s.num, den |-> s.den]
  BY DEF Rational
<1> HIDE DEF r, s
<1>4. Clears(p, q, r.den) /\ Clears(n, d, s.den)
  BY <1>1, <1>2, ClearsSame
<1>5. r.den = s.den
  BY <1>1, <1>2, <1>4
<1>6. (r.num * d) * q = (s.num * q) * d
  <2>1. (n * r.den) * q = (n * q) * r.den /\ (p * r.den) * d = (p * d) * r.den
    BY <1>1, SMT
  <2> QED BY <1>1, <1>2, <1>5, <2>1, Zenon
<1>7. r.num * (d * q) = s.num * (d * q) /\ d * q \in Nat \ {0}
  <2>1. r.num * (d * q) = (r.num * d) * q /\ s.num * (d * q) = (s.num * q) * d
    BY <1>1, <1>2, SMT
  <2>2. d * q \in Nat \ {0}
    BY SMT
  <2> QED BY <1>6, <2>1, <2>2, Zenon
<1>8. r.num = s.num
  BY <1>1, <1>2, <1>7, Cancels
<1> QED BY <1>3, <1>5, <1>8, Zenon DEF r, s

-----------------------------------------------------------------------------
LEMMA PlusIs ==
  ASSUME NEW a \in Int, NEW b \in Nat \ {0}, NEW c \in Int, NEW d \in Nat \ {0}
  PROVE  Plus(Rational(a, b), Rational(c, d)) = Rational(a * d + c * b, b * d)
<1> DEFINE r == Rational(a, b)
           s == Rational(c, d)
           w == r.num  x == r.den
           y == s.num  z == s.den
<1>1. /\ w \in Int /\ x \in Nat \ {0} /\ w * b = a * x
      /\ y \in Int /\ z \in Nat \ {0} /\ y * d = c * z
  BY RationalIs
<1> HIDE DEF r, s, w, x, y, z
<1>2. (w * z + y * x) * (b * d) = (a * d + c * b) * (x * z)
  <2>1. (w * z + y * x) * (b * d) = (w * b) * (z * d) + (y * d) * (x * b)
    BY <1>1
  <2>2. (a * d + c * b) * (x * z) = (a * x) * (z * d) + (c * z) * (x * b)
    BY <1>1
  <2> QED BY <1>1, <2>1, <2>2
<1>3. /\ w * z + y * x \in Int /\ x * z \in Nat \ {0}
      /\ a * d + c * b \in Int /\ b * d \in Nat \ {0}
  <2>1. \A i, j \in Nat \ {0} : i * j \in Nat \ {0}
    BY SMT
  <2>2. \A i, j \in Int : i * j \in Int
    BY SMT
  <2>3. \A i, j, k, l \in Int : i * j + k * l \in Int
    BY <2>2, SMT
  <2> QED BY <1>1, <2>1, <2>3
<1> QED BY <1>2, <1>3, SameRational DEF Plus, r, s, w, x, y, z

LEMMA MinusIs ==
  ASSUME NEW a \in Int, NEW b \in Nat \ {0}, NEW c \in Int, NEW d \in Nat \ {0}
  PROVE  Minus(Rational(a, b), Rational(c, d)) = Rational(a * d - c * b, b * d)
<1> DEFINE r == Rational(a, b)
           s == Rational(c, d)
           w == r.num  x == r.den
           y == s.num  z == s.den
<1>1. /\ w \in Int /\ x \in Nat \ {0} /\ w * b = a * x
      /\ y \in Int /\ z \in Nat \ {0} /\ y * d = c * z
  BY RationalIs
<1> HIDE DEF r, s, w, x, y, z
<1>2. (w * z - y * x) * (b * d) = (a * d - c * b) * (x * z)
  <2>1. (w * z - y * x) * (b * d) = (w * b) * (z * d) - (y * d) * (x * b)
    BY <1>1
  <2>2. (a * d - c * b) * (x * z) = (a * x) * (z * d) - (c * z) * (x * b)
    BY <1>1
  <2> QED BY <1>1, <2>1, <2>2
<1>3. /\ w * z - y * x \in Int /\ x * z \in Nat \ {0}
      /\ a * d - c * b \in Int /\ b * d \in Nat \ {0}
  <2>1. \A i, j \in Nat \ {0} : i * j \in Nat \ {0}
    BY SMT
  <2>2. \A i, j \in Int : i * j \in Int
    BY SMT
  <2>3. \A i, j, k, l \in Int : i * j - k * l \in Int
    BY <2>2, SMT
  <2> QED BY <1>1, <2>1, <2>3
<1> QED BY <1>2, <1>3, SameRational DEF Minus, r, s, w, x, y, z

LEMMA ProductIs ==
  ASSUME NEW a \in Int, NEW b \in Nat \ {0}, NEW c \in Int, NEW d \in Nat \ {0}
  PROVE  Product(Rational(a, b), Rational(c, d)) = Rational(a * c, b * d)
<1> DEFINE r == Rational(a, b)
           s == Rational(c, d)
           w == r.num  x == r.den
           y == s.num  z == s.den
<1>1. /\ w \in Int /\ x \in Nat \ {0} /\ w * b = a * x
      /\ y \in Int /\ z \in Nat \ {0} /\ y * d = c * z
  BY RationalIs
<1> HIDE DEF r, s, w, x, y, z
<1>2. (w * y) * (b * d) = (a * c) * (x * z)
  <2>1. (w * y) * (b * d) = (w * b) * (y * d)
    BY <1>1
  <2>2. (a * c) * (x * z) = (a * x) * (c * z)
    BY <1>1
  <2> QED BY <1>1, <2>1, <2>2
<1>3. /\ w * y \in Int /\ x * z \in Nat \ {0}
      /\ a * c \in Int /\ b * d \in Nat \ {0}
  <2>1. \A i, j \in Nat \ {0} : i * j \in Nat \ {0}
    BY SMT
  <2>2. \A i, j \in Int : i * j \in Int
    BY SMT
  <2> QED BY <1>1, <2>1, <2>2
<1> QED BY <1>2, <1>3, SameRational DEF Product, r, s, w, x, y, z

LEMMA ProductByWhole ==
  ASSUME NEW a \in Int, NEW b \in Nat \ {0}, NEW c \in Int
  PROVE  Product(Rational(a, b), Rational(c, 1)) = Rational(a * c, b * 1)
BY ProductIs, 1 \in Nat \ {0}

LEMMA QuotientIs ==
  ASSUME NEW a \in Int, NEW b \in Nat \ {0}, NEW n \in Nat \ {0}
  PROVE  Quotient(Rational(a, b), n) = Rational(a, b * n)
<1> DEFINE r == Rational(a, b)
<1>1. r.num \in Int /\ r.den \in Nat \ {0} /\ r.num * b = a * r.den
  BY RationalIs
<1> HIDE DEF r
<1>2. \A w, x \in Int : w * b = a * x => w * (b * n) = a * (x * n)
  <2> TAKE w \in Int, x \in Int
  <2> HAVE w * b = a * x
  <2>1. w * (b * n) = (w * b) * n /\ a * (x * n) = (a * x) * n
    BY SMT
  <2> QED BY <2>1
<1>3. r.num * (b * n) = a * (r.den * n)
  <2>1. r.num \in Int /\ r.den \in Int
    BY <1>1
  <2> QED BY <1>1, <1>2, <2>1, Zenon
<1>4. r.den * n \in Nat \ {0} /\ b * n \in Nat \ {0}
  <2>1. \A x, y \in Nat \ {0} : x * y \in Nat \ {0}
    BY SMT
  <2> QED BY <1>1, <2>1
<1> QED BY <1>1, <1>3, <1>4, SameRational DEF Quotient, r

-----------------------------------------------------------------------------
(* What an accumulator of n samples, whose sum is S and the sum of whose   *)
(* squares is Q, holds.                                                    *)
Means(g, n, S, Q) ==
  /\ n \in Nat /\ S \in Int /\ Q \in Int
  /\ g.count = n
  /\ n = 0 => S = 0 /\ Q = 0
  /\ n = 1 => Q = S * S
  /\ LET N == IF n = 0 THEN 1 ELSE n
     IN g.mean = Rational(S, N) /\ g.m2 = Rational(N * Q - S * S, N)

LEMMA AddMeans ==
  ASSUME NEW g, NEW n, NEW S, NEW Q, Means(g, n, S, Q), NEW x \in Int
  PROVE  Means(Added(g, x), n + 1, S + x, Q + x * x)
<1> DEFINE N == IF n = 0 THEN 1 ELSE n
           M == n + 1
           d == x * N - S
           delta == Minus(Whole(x), g.mean)
           mean == Plus(g.mean, Quotient(delta, g.count + 1))
           after == Minus(Whole(x), mean)
           m2 == Plus(g.m2, Product(delta, after))
<1>1. /\ n \in Nat /\ S \in Int /\ Q \in Int /\ g.count = n
      /\ g.mean = Rational(S, N) /\ g.m2 = Rational(N * Q - S * S, N)
      /\ N \in Nat \ {0} /\ M \in Nat \ {0}
      /\ (n = 0 /\ N = 1 /\ S = 0 /\ Q = 0) \/ n = N
  BY DEF Means
<1> HIDE DEF N, M
<1>2. d \in Int /\ N * M \in Nat \ {0} /\ N * (N * M) \in Nat \ {0}
      /\ S * (N * M) + d * N \in Int /\ S + x \in Int /\ x * M - (S + x) \in Int
      /\ N * Q - S * S \in Int
      /\ d * (x * M - (S + x)) \in Int
  <2>1. \A a, b \in Int : a * b \in Int
    BY SMT
  <2>2. \A a, b \in Nat \ {0} : a * b \in Nat \ {0}
    BY SMT
  <2>3. x * N \in Int /\ N * Q \in Int /\ S * S \in Int /\ x * M \in Int
    BY <1>1, <2>1
  <2>4. d \in Int
    BY <1>1, <2>3
  <2>5. N * M \in Nat \ {0}
    BY <1>1, <2>2
  <2> HIDE DEF d
  <2>6. S * (N * M) \in Int /\ d * N \in Int /\ N * (N * M) \in Nat \ {0}
    BY <1>1, <2>1, <2>2, <2>4, <2>5
  <2>7. x * M - (S + x) \in Int
    BY <1>1, <2>3
  <2>8. d * (x * M - (S + x)) \in Int
    BY <2>1, <2>4, <2>7
  <2> QED BY <1>1, <2>3, <2>4, <2>5, <2>6, <2>7, <2>8
<1>3. delta = Rational(d, N)
  <2>1. x * N - S * 1 = d /\ 1 * N = N
    BY <1>1
  <2> HIDE DEF d
  <2> QED BY <1>1, <2>1, MinusIs DEF Whole
<1>4. mean = Rational(S + x, M)
  <2>1. Quotient(delta, g.count + 1) = Rational(d, N * M)
    <3>1. g.count + 1 = M
      BY <1>1 DEF M
    <3> HIDE DEF d, delta
    <3>2. Quotient(Rational(d, N), M) = Rational(d, N * M)
      BY <1>1, <1>2, QuotientIs
    <3> QED BY <1>3, <3>1, <3>2, Zenon
  <2>2. mean = Rational(S * (N * M) + d * N, N * (N * M))
    <3> HIDE DEF d, delta
    <3> QED BY <1>1, <1>2, <2>1, PlusIs
  <2>3. (S * (N * M) + d * N) * M = (S + x) * (N * (N * M))
    <3>1. CASE n = N
      BY <1>1, <3>1 DEF M
    <3>2. CASE n = 0 /\ N = 1 /\ S = 0
      BY <1>1, <3>2 DEF M
    <3> QED BY <1>1, <3>1, <3>2
  <2> HIDE DEF d, mean
  <2> QED BY <1>1, <1>2, <2>2, <2>3, SameRational
<1>5. after = Rational(x * M - (S + x), M)
  <2>1. (x * M - (S + x) * 1) = x * M - (S + x) /\ 1 * M = M
    BY <1>1
  <2> HIDE DEF mean
  <2> QED BY <1>1, <1>2, <1>4, <2>1, MinusIs DEF Whole
<1>6. m2 = Rational(M * (Q + x * x) - (S + x) * (S + x), M)
  <2> DEFINE e == x * M - (S + x)
             P == (N * Q - S * S) * (N * M) + (d * e) * N
  <2>1. Product(delta, after) = Rational(d * e, N * M)
    <3> HIDE DEF d, delta, after
    <3> HIDE DEF e
    <3>1. e \in Int
      BY <1>2 DEF e
    <3>2. Product(Rational(d, N), Rational(e, M)) = Rational(d * e, N * M)
      <4>1. d \in Int /\ N \in Nat \ {0} /\ M \in Nat \ {0}
        BY <1>1, <1>2
      <4> QED BY <3>1, <4>1, ProductIs
    <3> QED BY <1>3, <1>5, <3>2, Zenon DEF e
  <2>2. m2 = Rational(P, N * (N * M))
    <3> HIDE DEF d, delta, after
    <3> QED BY <1>1, <1>2, <2>1, PlusIs
  <2>3. P * M = (M * (Q + x * x) - (S + x) * (S + x)) * (N * (N * M))
    <3>1. CASE n = N
      BY <1>1, <3>1 DEF M
    <3>2. CASE n = 0 /\ N = 1 /\ S = 0 /\ Q = 0
      BY <1>1, <3>2 DEF M
    <3> QED BY <1>1, <3>1, <3>2
  <2>4. P \in Int /\ M * (Q + x * x) - (S + x) * (S + x) \in Int
    <3>1. \A a, b \in Int : a * b \in Int /\ a + b \in Int /\ a - b \in Int
      BY SMT
    <3> HIDE DEF d
    <3> QED BY <1>1, <1>2, <3>1
  <2> HIDE DEF P, m2
  <2> QED BY <1>1, <1>2, <2>2, <2>3, <2>4, SameRational
<1>7. Added(g, x).count = M /\ Added(g, x).mean = mean /\ Added(g, x).m2 = m2
  BY <1>1 DEF Added, M
<1>8. Q + x * x \in Int
  <2>1. x * x \in Int
    BY SMT
  <2> QED BY <1>1, <2>1
<1> HIDE DEF mean, m2, d, delta, after
<1>9. M # 0 /\ M = n + 1 /\ (M = 1 => Q + x * x = (S + x) * (S + x))
  BY <1>1 DEF M
<1> QED BY <1>1, <1>2, <1>4, <1>6, <1>7, <1>8, <1>9 DEF Means

LEMMA MergeMeans ==
  ASSUME NEW f, NEW a, NEW S, NEW Q, Means(f, a, S, Q),
         NEW g, NEW b, NEW T, NEW U, Means(g, b, T, U)
  PROVE  Means(Merged(f, g), a + b, S + T, Q + U)
<1>1. CASE b = 0
  <2>1. T = 0 /\ U = 0 /\ g.count = 0 /\ a + b = a /\ S + T = S /\ Q + U = Q
    BY <1>1 DEF Means
  <2>2. Merged(f, g) = f
    BY <2>1 DEF Merged
  <2> QED BY <2>1, <2>2, Zenon
<1>2. CASE b # 0 /\ a = 0
  <2>1. S = 0 /\ Q = 0 /\ f.count = 0 /\ g.count # 0 /\ a + b = b /\ S + T = T /\ Q + U = U
    BY <1>2 DEF Means
  <2>2. Merged(f, g) = g
    BY <2>1 DEF Merged
  <2> QED BY <2>1, <2>2, Zenon
<1>3. CASE b # 0 /\ a # 0
  <2> DEFINE M == a + b
             D == T * a - S * b
             delta == Minus(g.mean, f.mean)
             between == Product(Product(delta, delta), Whole(f.count * g.count))
             mean == Plus(f.mean, Quotient(Product(delta, Whole(g.count)), M))
             sum == Plus(f.m2, g.m2)
             m2 == Plus(sum, Quotient(between, M))
             P == a * Q - S * S
             R == b * U - T * T
             X == P * b + R * a
  <2>1. /\ a \in Nat \ {0} /\ b \in Nat \ {0} /\ M \in Nat \ {0}
        /\ f.count = a /\ g.count = b
        /\ S \in Int /\ Q \in Int /\ T \in Int /\ U \in Int
        /\ f.mean = Rational(S, a) /\ f.m2 = Rational(P, a)
        /\ g.mean = Rational(T, b) /\ g.m2 = Rational(R, b)
    BY <1>3 DEF Means
  <2>2. /\ \A i, j \in Int : i * j \in Int /\ i + j \in Int /\ i - j \in Int
        /\ \A i, j \in Nat \ {0} : i * j \in Nat \ {0}
    BY SMT
  <2>3. /\ D \in Int /\ P \in Int /\ R \in Int /\ X \in Int /\ a * b \in Nat \ {0}
        /\ b * a \in Nat \ {0} /\ (b * a) * M \in Nat \ {0} /\ (a * b) * M \in Nat \ {0}
        /\ a * ((b * a) * M) \in Nat \ {0}
        /\ D * b \in Int /\ D * D \in Int /\ S + T \in Int
        /\ (b * a) * (b * a) \in Nat \ {0} /\ (D * D) * (a * b) \in Int
        /\ ((b * a) * (b * a)) * M \in Nat \ {0}
        /\ S * ((b * a) * M) + (D * b) * a \in Int
        /\ X * ((a * b) * M) + (D * D) * (a * b) \in Int
        /\ (a * b) * ((a * b) * M) \in Nat \ {0}
        /\ M * (Q + U) - (S + T) * (S + T) \in Int
        /\ a \in Int /\ b \in Int
    <3> HIDE DEF M
    <3>1. D \in Int /\ P \in Int /\ R \in Int /\ a \in Int /\ b \in Int /\ M \in Int
      BY <2>1, <2>2
    <3> HIDE DEF D, P, R
    <3>2. X \in Int /\ a * b \in Nat \ {0} /\ b * a \in Nat \ {0} /\ D * b \in Int
          /\ D * D \in Int /\ S + T \in Int /\ M * (Q + U) - (S + T) * (S + T) \in Int
      BY <2>1, <2>2, <3>1
    <3> HIDE DEF X
    <3>3. /\ (b * a) * M \in Nat \ {0} /\ (a * b) * M \in Nat \ {0}
          /\ (b * a) * (b * a) \in Nat \ {0}
      BY <2>1, <2>2, <3>2
    <3>4. /\ a * ((b * a) * M) \in Nat \ {0} /\ ((b * a) * (b * a)) * M \in Nat \ {0}
          /\ (a * b) * ((a * b) * M) \in Nat \ {0}
      BY <2>1, <2>2, <3>2, <3>3
    <3>5. \A i \in Nat \ {0} : i \in Int
      OBVIOUS
    <3>6. (D * D) * (a * b) \in Int
      BY <2>2, <3>2, <3>5
    <3>7. S * ((b * a) * M) + (D * b) * a \in Int
      BY <2>1, <2>2, <3>1, <3>2, <3>3, <3>5
    <3>8. X * ((a * b) * M) + (D * D) * (a * b) \in Int
      BY <2>2, <3>2, <3>3, <3>5, <3>6
    <3> QED BY <3>1, <3>2, <3>3, <3>4, <3>6, <3>7, <3>8
  <2> HIDE DEF M, D, P, R, X
  <2>4. delta = Rational(D, b * a)
    <3>1. T \in Int /\ b \in Nat \ {0} /\ S \in Int /\ a \in Nat \ {0}
      BY <2>1
    <3>2. Minus(Rational(T, b), Rational(S, a)) = Rational(T * a - S * b, b * a)
      BY <3>1, MinusIs
    <3> QED BY <2>1, <3>2, Zenon DEF D
  <2>5. mean = Rational(S + T, M)
    <3>1. Product(delta, Whole(g.count)) = Rational(D * b, b * a)
      <4>1. Product(Rational(D, b * a), Rational(b, 1)) = Rational(D * b, (b * a) * 1)
        BY <2>3, ProductByWhole, Zenon
      <4>2. (b * a) * 1 = b * a
        BY <2>3
      <4> QED BY <2>1, <2>4, <4>1, <4>2, Zenon DEF Whole
    <3>2. Quotient(Rational(D * b, b * a), M) = Rational(D * b, (b * a) * M)
      BY <2>1, <2>3, QuotientIs
    <3>3. Plus(Rational(S, a), Rational(D * b, (b * a) * M))
            = Rational(S * ((b * a) * M) + (D * b) * a, a * ((b * a) * M))
      BY <2>1, <2>3, PlusIs
    <3>4. (S * ((b * a) * M) + (D * b) * a) * M = (S + T) * (a * ((b * a) * M))
      BY <2>1 DEF M, D
    <3>5. mean = Rational(S * ((b * a) * M) + (D * b) * a, a * ((b * a) * M))
      BY <2>1, <3>1, <3>2, <3>3, Zenon
    <3> HIDE DEF mean
    <3> QED BY <2>1, <2>3, <3>4, <3>5, SameRational
  <2>6. Quotient(between, M) = Rational(D * D, (a * b) * M)
    <3>1. Product(Rational(D, b * a), Rational(D, b * a)) = Rational(D * D, (b * a) * (b * a))
      BY <2>3, ProductIs
    <3>2. Product(Rational(D * D, (b * a) * (b * a)), Rational(a * b, 1))
            = Rational((D * D) * (a * b), ((b * a) * (b * a)) * 1)
      <4> DEFINE i == D * D
                 j == (b * a) * (b * a)
                 k == a * b
      <4>1. i \in Int /\ j \in Nat \ {0} /\ k \in Int
        BY <2>3
      <4> HIDE DEF i, j, k
      <4>2. Product(Rational(i, j), Rational(k, 1)) = Rational(i * k, j * 1)
        BY <4>1, ProductByWhole
      <4> QED BY <4>2 DEF i, j, k
    <3>3. ((b * a) * (b * a)) * 1 = (b * a) * (b * a)
      BY <2>3
    <3>4. between = Rational((D * D) * (a * b), (b * a) * (b * a))
      BY <2>1, <2>4, <3>1, <3>2, <3>3, Zenon DEF Whole
    <3>5. Quotient(Rational((D * D) * (a * b), (b * a) * (b * a)), M)
            = Rational((D * D) * (a * b), ((b * a) * (b * a)) * M)
      <4> DEFINE i == (D * D) * (a * b)
                 j == (b * a) * (b * a)
      <4>1. i \in Int /\ j \in Nat \ {0}
        BY <2>3
      <4> HIDE DEF i, j
      <4>2. Quotient(Rational(i, j), M) = Rational(i, j * M)
        BY <2>1, <4>1, QuotientIs
      <4> QED BY <4>2 DEF i, j
    <3>6. ((D * D) * (a * b)) * ((a * b) * M) = (D * D) * (((b * a) * (b * a)) * M)
      BY <2>1, <2>3
    <3> HIDE DEF between
    <3> QED BY <2>1, <2>3, <3>4, <3>5, <3>6, SameRational
  <2>7. sum = Rational(X, a * b)
    BY <2>1, <2>3, PlusIs DEF X
  <2>8. m2 = Rational(M * (Q + U) - (S + T) * (S + T), M)
    <3>1. Plus(Rational(X, a * b), Rational(D * D, (a * b) * M))
            = Rational(X * ((a * b) * M) + (D * D) * (a * b), (a * b) * ((a * b) * M))
      <4> DEFINE i == D * D
                 j == a * b
                 k == (a * b) * M
      <4>1. i \in Int /\ j \in Nat \ {0} /\ k \in Nat \ {0} /\ X \in Int
        BY <2>3
      <4> HIDE DEF i, j, k
      <4>2. Plus(Rational(X, j), Rational(i, k)) = Rational(X * k + i * j, j * k)
        BY <4>1, PlusIs
      <4> QED BY <4>2 DEF i, j, k
    <3>2. m2 = Rational(X * ((a * b) * M) + (D * D) * (a * b), (a * b) * ((a * b) * M))
      BY <2>6, <2>7, <3>1, Zenon
    <3>3. (X * ((a * b) * M) + (D * D) * (a * b)) * M
            = (M * (Q + U) - (S + T) * (S + T)) * ((a * b) * ((a * b) * M))
      <4>1. X * M + D * D = (a * b) * (M * (Q + U) - (S + T) * (S + T))
        BY <2>1 DEF X, D, M, P, R
      <4>2. (X * ((a * b) * M) + (D * D) * (a * b)) * M = (X * M + D * D) * ((a * b) * M)
        BY <2>1, <2>3
      <4> DEFINE Y == M * (Q + U) - (S + T) * (S + T)
      <4>3. Y \in Int
        BY <2>3
      <4> HIDE DEF Y
      <4>4. ((a * b) * Y) * ((a * b) * M) = Y * ((a * b) * ((a * b) * M))
        BY <2>1, <2>3, <4>3
      <4> QED BY <4>1, <4>2, <4>4, Zenon DEF Y
    <3> HIDE DEF m2
    <3> QED BY <2>1, <2>3, <3>2, <3>3, SameRational
  <2>9. Merged(f, g).count = M /\ Merged(f, g).mean = mean /\ Merged(f, g).m2 = m2
    <3>1. f.count # 0 /\ g.count # 0 /\ f.count + g.count = M
      BY <2>1 DEF M
    <3> QED BY <3>1 DEF Merged
  <2> HIDE DEF mean, m2, delta, between, sum
  <2>10. M # 0 /\ M = a + b /\ M \in Nat /\ S + T \in Int /\ Q + U \in Int /\ M # 1
    BY <2>1 DEF M
  <2> QED BY <2>5, <2>8, <2>9, <2>10 DEF Means
<1> QED BY <1>1, <1>2, <1>3

(* The values of samples, all below numeric_limits<double>::max().         *)
Sample == {x \in Nat : x < Highest}

(* The accumulator has the least and the greatest of the values R.         *)
Spans(g, R) ==
  /\ R \subseteq Sample
  /\ R = {} => g.min = Highest /\ g.max = Lowest
  /\ R # {} => /\ g.min \in R /\ \A x \in R : g.min <= x
              /\ g.max \in R /\ \A x \in R : x <= g.max

LEMMA HighestIs == Highest \in Nat /\ Lowest \in Int
BY LatencyAssumption DEF Lowest

LEMMA LesserIs ==
  ASSUME NEW a \in Int, NEW b \in Int
  PROVE  /\ Lesser(a, b) \in {a, b} /\ Lesser(a, b) <= a /\ Lesser(a, b) <= b
         /\ Greater(a, b) \in {a, b} /\ a <= Greater(a, b) /\ b <= Greater(a, b)
         /\ a < b => Lesser(b, a) = a /\ Greater(a, b) = b
BY DEF Lesser, Greater

LEMMA AddSpans ==
  ASSUME NEW g, NEW R, Spans(g, R), NEW x \in Sample
  PROVE  Spans(Added(g, x), R \cup {x})
<1>1. Added(g, x).min = Lesser(g.min, x) /\ Added(g, x).max = Greater(g.max, x)
  BY DEF Added
<1>2. x \in Int /\ Lowest < x /\ x < Highest /\ R \subseteq Int
  BY HighestIs DEF Spans, Sample, Lowest
<1>3. CASE R = {}
  <2>1. Lesser(g.min, x) = x /\ Greater(g.max, x) = x
    BY <1>2, <1>3, HighestIs, LesserIs DEF Spans
  <2> QED BY <1>1, <1>2, <1>3, <2>1 DEF Spans
<1>4. CASE R # {}
  <2> DEFINE a == Lesser(g.min, x)
             b == Greater(g.max, x)
  <2>1. g.min \in Int /\ g.max \in Int
    BY <1>2, <1>4 DEF Spans
  <2>2. a \in R \cup {x} /\ a <= g.min /\ a <= x /\ a \in Int
    BY <1>2, <1>4, <2>1, LesserIs DEF Spans
  <2>3. b \in R \cup {x} /\ g.max <= b /\ x <= b /\ b \in Int
    BY <1>2, <1>4, <2>1, LesserIs DEF Spans
  <2> HIDE DEF a, b
  <2>4. \A y \in R \cup {x} : a <= y /\ y <= b
    <3>1. \A y \in R : y \in Int /\ g.min <= y /\ y <= g.max
      BY <1>2, <1>4 DEF Spans
    <3> QED BY <2>1, <2>2, <2>3, <3>1
  <2> QED BY <1>1, <2>2, <2>3, <2>4 DEF Spans, a, b
<1> QED BY <1>3, <1>4

LEMMA MergeSpans ==
  ASSUME NEW f, NEW R, Spans(f, R), NEW g, NEW T, Spans(g, T),
         f.count = 0 <=> R = {}, g.count = 0 <=> T = {}
  PROVE  Spans(Merged(f, g), R \cup T)
<1>1. CASE T = {}
  <2>1. Merged(f, g) = f /\ R \cup T = R
    BY <1>1 DEF Merged
  <2> QED BY <2>1
<1>2. CASE T # {} /\ R = {}
  <2>1. Merged(f, g) = g /\ R \cup T = T
    BY <1>2 DEF Merged
  <2> QED BY <2>1
<1>3. CASE T # {} /\ R # {}
  <2> DEFINE a == Lesser(f.min, g.min)
             b == Greater(f.max, g.max)
  <2>1. Merged(f, g).min = a /\ Merged(f, g).max = b
    BY <1>3 DEF Merged
  <2>2. /\ f.min \in R /\ f.max \in R /\ \A y \in R : y \in Int /\ f.min <= y /\ y <= f.max
        /\ g.min \in T /\ g.max \in T /\ \A y \in T : y \in Int /\ g.min <= y /\ y <= g.max
    BY <1>3 DEF Spans, Sample
  <2>3. a \in R \cup T /\ a <= f.min /\ a <= g.min /\ a \in Int
    BY <2>2, LesserIs
  <2>4. b \in R \cup T /\ f.max <= b /\ g.max <= b /\ b \in Int
    BY <2>2, LesserIs
  <2> HIDE DEF a, b
  <2>5. \A y \in R \cup T : a <= y /\ y <= b
    <3>0. f.min \in Int /\ f.max \in Int /\ g.min \in Int /\ g.max \in Int
      BY <2>2
    <3>1. ASSUME NEW y \in R PROVE a <= y /\ y <= b
      <4>1. y \in Int /\ f.min <= y /\ y <= f.max
        BY <2>2
      <4> QED BY <2>3, <2>4, <3>0, <4>1
    <3>2. ASSUME NEW y \in T PROVE a <= y /\ y <= b
      <4>1. y \in Int /\ g.min <= y /\ y <= g.max
        BY <2>2
      <4> QED BY <2>3, <2>4, <3>0, <4>1
    <3> QED BY <3>1, <3>2
  <2> QED BY <1>3, <2>1, <2>3, <2>4, <2>5 DEF Spans
<1> QED BY <1>1, <1>2, <1>3

(* The accumulator of n samples with the values R.                         *)
Accumulates(g, n, S, Q, R) ==
  Means(g, n, S, Q) /\ Spans(g, R) /\ (n = 0 <=> R = {})

LEMMA MergeAccumulates ==
  ASSUME NEW f, NEW a, NEW S, NEW Q, NEW R, Accumulates(f, a, S, Q, R),
         NEW g, NEW b, NEW T, NEW U, NEW V, Accumulates(g, b, T, U, V)
  PROVE  Accumulates(Merged(f, g), a + b, S + T, Q + U, R \cup V)
<1>1. Means(f, a, S, Q) /\ Spans(f, R) /\ (a = 0 <=> R = {})
  BY DEF Accumulates
<1>2. Means(g, b, T, U) /\ Spans(g, V) /\ (b = 0 <=> V = {})
  BY DEF Accumulates
<1>3. f.count = a /\ g.count = b /\ a \in Nat /\ b \in Nat
  BY <1>1, <1>2 DEF Means
<1>4. Means(Merged(f, g), a + b, S + T, Q + U)
  BY <1>1, <1>2, MergeMeans
<1>5. Spans(Merged(f, g), R \cup V)
  <2>1. (f.count = 0 <=> R = {}) /\ (g.count = 0 <=> V = {})
    BY <1>1, <1>2, <1>3, Zenon
  <2> QED BY <1>1, <1>2, <2>1, MergeSpans, Zenon
<1>6. a + b = 0 <=> R \cup V = {}
  <2>1. a + b = 0 <=> a = 0 /\ b = 0
    BY <1>3
  <2>2. R \cup V = {} <=> R = {} /\ V = {}
    BY Zenon
  <2> QED BY <1>1, <1>2, <2>1, <2>2, Zenon
<1> QED BY <1>4, <1>5, <1>6, Zenon DEF Accumulates

LEMMA FreshAccumulates == Accumulates(Fresh, 0, 0, 0, {})
<1>1. 1 * 0 - 0 * 0 = 0
  OBVIOUS
<1>2. Means(Fresh, 0, 0, 0)
  BY <1>1 DEF Means, Fresh, Whole
<1>3. Spans(Fresh, {})
  BY DEF Spans, Fresh
<1> QED BY <1>2, <1>3 DEF Accumulates

(* So described, it has every statistic of the samples.                    *)
LEMMA AccumulatedDescribes ==
  ASSUME NEW g, NEW seq \in Seq(Int),
         Accumulates(g, Len(seq), SumOf(seq), SquaresOf(seq), Range(seq))
  PROVE  Describes(g, seq)
<1> DEFINE n == Len(seq)
           S == SumOf(seq)
           spread == n * SquaresOf(seq) - S * S
<1>1. Means(g, n, S, SquaresOf(seq)) /\ Spans(g, Range(seq)) /\ g.count = n
  BY DEF Accumulates, Means
<1> SUFFICES ASSUME seq # <<>>
             PROVE  /\ MeanOf(g) = Rational(S, n)
                    /\ g.m2 = Rational(spread, n)
                    /\ VarianceOf(g) = Rational(spread, n * n)
                    /\ n > 1 => SampleVarianceOf(g) = Rational(spread, n * (n - 1))
                    /\ MinOf(g) = Min(Range(seq)) /\ MaxOf(g) = Max(Range(seq))
  BY <1>1 DEF Describes
<1>2. n \in Nat \ {0} /\ n > 0
  <2>1. n \in Nat /\ n # 0
    BY EmptySeq, LenProperties
  <2> QED BY <2>1
<1>3. Range(seq) # {}
  BY <1>2 DEF Accumulates
<1> HIDE DEF n
<1>4. /\ g.mean = Rational(S, n) /\ g.m2 = Rational(spread, n)
      /\ S \in Int /\ SquaresOf(seq) \in Int
      /\ n = 1 => SquaresOf(seq) = S * S
  BY <1>1, <1>2 DEF Means
<1> HIDE DEF S
<1>5. spread \in Int
  <2>1. \A i, j \in Int : i * j \in Int /\ i - j \in Int
    BY SMT
  <2>2. n * SquaresOf(seq) \in Int /\ S * S \in Int
    BY <1>2, <1>4, <2>1
  <2> QED BY <2>1, <2>2
<1>6. n = 1 => spread = 0
  BY <1>4
<1> HIDE DEF spread
<1>7. VarianceOf(g) = Rational(spread, n * n)
  <2>1. CASE n > 1
    BY <1>1, <1>2, <1>4, <1>5, <2>1, QuotientIs DEF VarianceOf
  <2>2. CASE n = 1
    <3>1. n * n = 1 /\ ~(n > 1)
      BY <2>2
    <3> QED BY <1>1, <1>6, <2>2, <3>1 DEF VarianceOf, Whole
  <2> QED BY <1>2, <2>1, <2>2
<1>8. n > 1 => SampleVarianceOf(g) = Rational(spread, n * (n - 1))
  <2> HAVE n > 1
  <2>1. n - 1 \in Nat \ {0}
    BY <1>2
  <2>2. Quotient(Rational(spread, n), n - 1) = Rational(spread, n * (n - 1))
    BY <1>2, <1>5, <2>1, QuotientIs
  <2> QED BY <1>1, <1>4, <2>2 DEF SampleVarianceOf
<1>9. MinOf(g) = Min(Range(seq))
  <2>1. MinOf(g) = g.min
    BY <1>1, <1>2 DEF MinOf
  <2>2. g.min \in Range(seq) /\ \A x \in Range(seq) : g.min <= x /\ x \in Int
    BY <1>1, <1>3 DEF Spans, Sample
  <2>3. \A x \in Range(seq) : (\A y \in Range(seq) : x =< y) => x = g.min
    BY <2>2
  <2> QED BY <2>1, <2>2, <2>3 DEF Min
<1>10. MaxOf(g) = Max(Range(seq))
  <2>1. MaxOf(g) = g.max
    BY <1>1, <1>2 DEF MaxOf
  <2>2. g.max \in Range(seq) /\ \A x \in Range(seq) : x <= g.max /\ x \in Int
    BY <1>1, <1>3 DEF Spans, Sample
  <2>3. \A x \in Range(seq) : (\A y \in Range(seq) : x >= y) => x = g.max
    BY <2>2
  <2> QED BY <2>1, <2>2, <2>3 DEF Max
<1> QED BY <1>1, <1>2, <1>4, <1>7, <1>8, <1>9, <1>10 DEF MeanOf

LEMMA TopsAreLast ==
  Adding!TopIsLast /\ Summing!TopIsLast /\ Squaring!TopIsLast /\ Sorting!TopIsLast
BY MaxIsTop DEF Filling!TopIsLast, Adding!TopIsLast, Summing!TopIsLast,
                Squaring!TopIsLast, Sorting!TopIsLast

LEMMA FoldsAre ==
  ASSUME NEW seq, NEW n, DOMAIN seq = 1 .. n
  PROVE  /\ StatsOf(seq) = Adding!Fold(Fresh, seq, n)
         /\ SumOf(seq) = Summing!Fold(0, seq, n)
         /\ SquaresOf(seq) = Squaring!Fold(0, seq, n)
<1>1. StatsOf(seq) = Adding!Fold(Fresh, seq, n)
  BY DEF StatsOf, FoldLeft, MapThenFoldSet, Adding!Fold, Adding!IsFold
<1>2. SumOf(seq) = Summing!Fold(0, seq, n)
  BY DEF SumOf, FoldLeft, MapThenFoldSet, Summing!Fold, Summing!IsFold
<1>3. SquaresOf(seq) = Squaring!Fold(0, seq, n)
  BY DEF SquaresOf, FoldLeft, MapThenFoldSet, Squaring!Fold, Squaring!IsFold, AddSquare
<1> QED BY <1>1, <1>2, <1>3

LEMMA NextAccumulated ==
  ASSUME NEW g, NEW n, NEW S, NEW Q, NEW R, Accumulates(g, n, S, Q, R),
         NEW x \in Sample
  PROVE  Accumulates(Added(g, x), n + 1, S + x, AddSquare(Q, x), R \cup {x})
<1>1. Means(g, n, S, Q) /\ Spans(g, R) /\ x \in Int
  BY DEF Accumulates, Sample
<1>2. Means(Added(g, x), n + 1, S + x, Q + x * x)
  BY <1>1, AddMeans
<1>3. Spans(Added(g, x), R \cup {x})
  BY <1>1, AddSpans
<1>4. n + 1 # 0
  BY <1>1 DEF Means
<1> QED BY <1>2, <1>3, <1>4 DEF Accumulates, AddSquare

(* By induction over the samples.                                          *)
LEMMA PrefixAccumulated ==
  ASSUME NEW seq \in Seq(Sample), NEW n \in Nat, n <= Len(seq)
  PROVE  Accumulates(Adding!Fold(Fresh, seq, n), n, Summing!Fold(0, seq, n),
                     Squaring!Fold(0, seq, n), {seq[j] : j \in 1 .. n})
<1> DEFINE G(m) == Adding!Fold(Fresh, seq, m)
           S(m) == Summing!Fold(0, seq, m)
           Q(m) == Squaring!Fold(0, seq, m)
           R(m) == {seq[j] : j \in 1 .. m}
           Holds(m) == Accumulates(G(m), m, S(m), Q(m), R(m))
           Good == {m \in Nat : m <= Len(seq) => Holds(m)}
<1>1. Holds(0)
  <2>1. G(0) = Fresh /\ S(0) = 0 /\ Q(0) = 0
    BY TopsAreLast, Adding!FoldNone, Summing!FoldNone, Squaring!FoldNone
  <2>2. R(0) = {}
    BY SMT
  <2> HIDE DEF G, S, Q, R
  <2> QED BY <2>1, <2>2, FreshAccumulates
<1>2. ASSUME NEW m \in Nat, m + 1 <= Len(seq), Holds(m) PROVE Holds(m + 1)
  <2>1. seq[m + 1] \in Sample
    BY <1>2
  <2>2. G(m + 1) = Added(G(m), seq[m + 1])
    BY TopsAreLast, Adding!FoldNext
  <2>3. S(m + 1) = S(m) + seq[m + 1]
    BY TopsAreLast, Summing!FoldNext
  <2>4. Q(m + 1) = AddSquare(Q(m), seq[m + 1])
    BY TopsAreLast, Squaring!FoldNext
  <2>5. R(m + 1) = R(m) \cup {seq[m + 1]}
    <3>1. \A j : j \in 1 .. m + 1 <=> j \in 1 .. m \/ j = m + 1
      BY SMT
    <3> QED BY <3>1
  <2> HIDE DEF G, S, Q, R
  <2>6. Accumulates(Added(G(m), seq[m + 1]), m + 1, S(m) + seq[m + 1],
                    AddSquare(Q(m), seq[m + 1]), R(m) \cup {seq[m + 1]})
    BY <1>2, <2>1, NextAccumulated
  <2> QED BY <2>2, <2>3, <2>4, <2>5, <2>6, Zenon
<1> HIDE DEF Holds
<1>3. 0 \in Good /\ \A m \in Nat : m \in Good => m + 1 \in Good
  BY <1>1, <1>2
<1> HIDE DEF Good
<1>4. n \in Good
  BY <1>3, Filling!Counting
<1> QED BY <1>4 DEF Holds, Good

LEMMA AllAccumulated ==
  ASSUME NEW seq \in Seq(Sample)
  PROVE  Accumulates(StatsOf(seq), Len(seq), SumOf(seq), SquaresOf(seq), Range(seq))
<1>1. DOMAIN seq = 1 .. Len(seq) /\ Len(seq) \in Nat /\ Len(seq) <= Len(seq)
  OBVIOUS
<1>2. {seq[j] : j \in 1 .. Len(seq)} = Range(seq)
  BY <1>1 DEF Range
<1>3. /\ StatsOf(seq) = Adding!Fold(Fresh, seq, Len(seq))
      /\ SumOf(seq) = Summing!Fold(0, seq, Len(seq))
      /\ SquaresOf(seq) = Squaring!Fold(0, seq, Len(seq))
  BY <1>1, FoldsAre
<1> QED BY <1>1, <1>2, <1>3, PrefixAccumulated, Zenon

(* The sums of two sequences, one after the other.                         *)
LEMMA SumsOfBoth ==
  ASSUME NEW a \in Seq(Sample), NEW b \in Seq(Sample)
  PROVE  /\ a \o b \in Seq(Sample) /\ Len(a \o b) = Len(a) + Len(b)
         /\ SumOf(a \o b) = SumOf(a) + SumOf(b)
         /\ SquaresOf(a \o b) = SquaresOf(a) + SquaresOf(b)
         /\ Range(a \o b) = Range(a) \cup Range(b)
<1> DEFINE c == a \o b
           k == Len(a)
           n == Len(b)
           S(s, m) == Summing!Fold(0, s, m)
           Q(s, m) == Squaring!Fold(0, s, m)
           Holds(m) == /\ S(c, k + m) = S(a, k) + S(b, m)
                       /\ Q(c, k + m) = Q(a, k) + Q(b, m)
           Good == {m \in Nat : m <= n => Holds(m)}
<1>1. /\ c \in Seq(Sample) /\ Len(c) = k + n /\ k \in Nat /\ n \in Nat
      /\ DOMAIN a = 1 .. k /\ DOMAIN b = 1 .. n /\ DOMAIN c = 1 .. k + n
  OBVIOUS
<1>2. \A i \in 1 .. k : c[i] = a[i]
  OBVIOUS
<1>3. \A i \in 1 .. n : c[k + i] = b[i] /\ b[i] \in Nat
  BY DEF Sample
<1> HIDE DEF c, k, n
<1>4. Range(c) = Range(a) \cup Range(b)
  <2>1. ASSUME NEW j \in 1 .. k + n PROVE c[j] \in Range(a) \cup Range(b)
    <3>1. j \in 1 .. k \/ (j - k \in 1 .. n /\ k + (j - k) = j)
      BY <1>1
    <3> QED BY <1>1, <1>2, <1>3, <3>1 DEF Range
  <2>2. ASSUME NEW j \in 1 .. k PROVE a[j] \in Range(c)
    <3>1. j \in 1 .. k + n
      BY <1>1
    <3> QED BY <1>1, <1>2, <3>1 DEF Range
  <2>3. ASSUME NEW j \in 1 .. n PROVE b[j] \in Range(c)
    <3>1. k + j \in 1 .. k + n
      BY <1>1
    <3> QED BY <1>1, <1>3, <3>1 DEF Range
  <2> QED BY <1>1, <2>1, <2>2, <2>3 DEF Range
<1>5. /\ \A s : S(s, 0) = 0 /\ Q(s, 0) = 0
      /\ \A s : \A m \in Nat : /\ S(s, m + 1) = S(s, m) + s[m + 1]
                              /\ Q(s, m + 1) = Q(s, m) + s[m + 1] * s[m + 1]
  BY TopsAreLast, Summing!FoldNone, Squaring!FoldNone, Summing!FoldNext,
     Squaring!FoldNext DEF AddSquare
<1>6. S(c, k) = S(a, k) /\ Q(c, k) = Q(a, k)
  BY <1>1, <1>2, TopsAreLast, Summing!FoldAgrees, Squaring!FoldAgrees
<1>7. \A m \in Nat : m <= n => S(b, m) \in Int /\ Q(b, m) \in Int
  BY PrefixAccumulated DEF Accumulates, Means, n
<1>8. S(a, k) \in Int /\ Q(a, k) \in Int
  <2>1. \A m \in Nat : m <= Len(a) => S(a, m) \in Int /\ Q(a, m) \in Int
    BY PrefixAccumulated DEF Accumulates, Means
  <2> QED BY <1>1, <2>1 DEF k
<1>9. /\ SumOf(a) = S(a, k) /\ SumOf(b) = S(b, n) /\ SumOf(c) = S(c, k + n)
      /\ SquaresOf(a) = Q(a, k) /\ SquaresOf(b) = Q(b, n) /\ SquaresOf(c) = Q(c, k + n)
  BY <1>1, FoldsAre
<1> HIDE DEF S, Q
<1>10. Holds(0)
  <2>1. k + 0 = k /\ S(a, k) + 0 = S(a, k) /\ Q(a, k) + 0 = Q(a, k)
    BY <1>1, <1>8
  <2> QED BY <1>5, <1>6, <2>1
<1>11. ASSUME NEW m \in Nat, m + 1 <= n, Holds(m) PROVE Holds(m + 1)
  <2> DEFINE x == b[m + 1]
  <2>1. m + 1 \in 1 .. n /\ k + m \in Nat /\ k + (m + 1) = (k + m) + 1 /\ m <= n
    BY <1>1, <1>11
  <2>2. c[(k + m) + 1] = x /\ x \in Nat
    BY <1>3, <2>1
  <2> HIDE DEF x
  <2>3. x * x \in Int
    BY <2>2, SMT
  <2>4. /\ S(c, k + (m + 1)) = S(c, k + m) + x /\ S(b, m + 1) = S(b, m) + x
        /\ Q(c, k + (m + 1)) = Q(c, k + m) + x * x /\ Q(b, m + 1) = Q(b, m) + x * x
    BY <1>5, <2>1, <2>2, Zenon DEF x
  <2>5. S(b, m) \in Int /\ Q(b, m) \in Int
    BY <1>7, <2>1
  <2> DEFINE y == x * x
  <2>6. y \in Int
    BY <2>3
  <2> HIDE DEF y
  <2>7. S(c, k + (m + 1)) = S(a, k) + S(b, m + 1)
    BY <1>8, <1>11, <2>2, <2>4, <2>5
  <2>8. Q(c, k + (m + 1)) = Q(a, k) + Q(b, m + 1)
    BY <1>8, <1>11, <2>4, <2>5, <2>6 DEF y
  <2> QED BY <2>7, <2>8
<1> HIDE DEF Holds
<1>12. 0 \in Good /\ \A m \in Nat : m \in Good => m + 1 \in Good
  BY <1>1, <1>10, <1>11
<1> HIDE DEF Good
<1>13. n \in Good
  BY <1>1, <1>12, Filling!Counting
<1> QED BY <1>1, <1>4, <1>9, <1>13 DEF Good, Holds, c, k, n

-----------------------------------------------------------------------------
(* LatencyAnalyzer                                                         *)

LEMMA SamplesCount ==
  ASSUME NEW s \in Seq(Sample) PROVE s \in Seq(Nat) /\ s \in Seq(Int)
<1>1. Sample \subseteq Nat /\ Sample \subseteq Int
  BY DEF Sample
<1> QED BY <1>1, SeqMonotonic

LEMMA NextStatistics ==
  ASSUME NEW seq \in Seq(Sample), NEW x \in Sample
  PROVE  /\ Append(seq, x) \in Seq(Sample)
         /\ StatsOf(Append(seq, x)) = Added(StatsOf(seq), x)
<1> DEFINE n == Len(seq)
           z == Append(seq, x)
<1>1. /\ z \in Seq(Sample) /\ DOMAIN z = 1 .. n + 1 /\ DOMAIN seq = 1 .. n
      /\ n \in Nat /\ z[n + 1] = x /\ \A i \in 1 .. n : seq[i] = z[i]
  OBVIOUS
<1> HIDE DEF z, n
<1>2. /\ StatsOf(z) = Adding!Fold(Fresh, z, n + 1)
      /\ StatsOf(seq) = Adding!Fold(Fresh, seq, n)
  BY <1>1, FoldsAre
<1>3. Adding!Fold(Fresh, z, n + 1) = Added(Adding!Fold(Fresh, z, n), x)
  BY <1>1, TopsAreLast, Adding!FoldNext
<1>4. Adding!Fold(Fresh, seq, n) = Adding!Fold(Fresh, z, n)
  BY <1>1, TopsAreLast, Adding!FoldAgrees
<1> QED BY <1>1, <1>2, <1>3, <1>4 DEF z

LEMMA NoStatistics == StatsOf(<<>>) = Fresh
<1>1. DOMAIN << >> = 1 .. 0
  BY SMT
<1>2. StatsOf(<<>>) = Adding!Fold(Fresh, <<>>, 0)
  BY <1>1, FoldsAre
<1> QED BY <1>2, TopsAreLast, Adding!FoldNone

(* The accumulator is that of the samples since the last AnalyzerReset.    *)
AnalyzerInv == samples \in Seq(Sample) /\ stats = StatsOf(samples)

LEMMA AnalyzerInvInit == AnalyzerInit => AnalyzerInv
BY NoStatistics DEF AnalyzerInit, AnalyzerInv

LEMMA AddSampleKeeps ==
  ASSUME AnalyzerInv, NEW l \in Sample, AddSample(l) PROVE AnalyzerInv'
<1>1. samples' = Append(samples, l) /\ stats' = Added(stats, l)
  BY DEF AddSample
<1> QED BY <1>1, NextStatistics DEF AnalyzerInv

LEMMA LatenciesSampled == Latencies \subseteq Sample
BY LatencyAssumption DEF Sample

LEMMA AnalyzerInvStep == AnalyzerInv /\ [AnalyzerNext]_analyzerVars => AnalyzerInv'
<1> SUFFICES ASSUME AnalyzerInv, [AnalyzerNext]_analyzerVars PROVE AnalyzerInv'
  OBVIOUS
<1>1. CASE \E l \in Latencies : AddSample(l)
  BY <1>1, AddSampleKeeps, LatenciesSampled
<1>2. CASE AnalyzerReset
  BY <1>2, NoStatistics DEF AnalyzerReset, AnalyzerInv
<1>3. CASE UNCHANGED analyzerVars
  BY <1>3 DEF analyzerVars, AnalyzerInv
<1> QED BY <1>1, <1>2, <1>3 DEF AnalyzerNext

LEMMA AnalyzerInvAlways == AnalyzerSpec => []AnalyzerInv
BY AnalyzerInvInit, AnalyzerInvStep, PTL DEF AnalyzerSpec

LEMMA SamplesAre ==
  ASSUME AnalyzerInv
  PROVE  /\ samples \in Seq(Nat) /\ samples \in Seq(Int)
         /\ Accumulates(stats, Len(samples), SumOf(samples), SquaresOf(samples),
                        Range(samples))
BY SamplesCount, AllAccumulated DEF AnalyzerInv

LEMMA StatsHold == AnalyzerInv => StatsAsDefined
BY SamplesAre, AccumulatedDescribes DEF StatsAsDefined

LEMMA BucketsHold == AnalyzerInv => BucketsAsDefined
BY SamplesAre, BucketsOfAnySamples

LEMMA AnalyzerTyped == AnalyzerInv => AnalyzerTypeOK
<1> SUFFICES ASSUME AnalyzerInv PROVE AnalyzerTypeOK
  OBVIOUS
<1>1. Means(stats, Len(samples), SumOf(samples), SquaresOf(samples))
  BY SamplesAre DEF Accumulates
<1> DEFINE n == Len(samples)
           N == IF n = 0 THEN 1 ELSE n
           S == SumOf(samples)
           Q == SquaresOf(samples)
<1>2. /\ n \in Nat /\ stats.count \in Nat /\ S \in Int /\ Q \in Int
      /\ stats.mean = Rational(S, N) /\ stats.m2 = Rational(N * Q - S * S, N)
  BY <1>1 DEF Means
<1> HIDE DEF n, S, Q
<1>3. N \in Nat \ {0}
  BY <1>2
<1>4. N * Q - S * S \in Int
  BY <1>2, <1>3, SMT
<1> HIDE DEF N
<1>5. \A m \in Int, d \in Nat \ {0} : Rational(m, d).den > 0
  <2> TAKE m \in Int, d \in Nat \ {0}
  <2>1. Rational(m, d).den \in Nat \ {0}
    BY RationalIs
  <2> QED BY <2>1
<1> QED BY <1>2, <1>3, <1>4, <1>5, SamplesAre DEF AnalyzerTypeOK

(* Of any two parts, in either order.                                      *)
LEMMA PartsMerge ==
  ASSUME NEW a \in Seq(Sample), NEW b \in Seq(Sample)
  PROVE  /\ Describes(Merged(StatsOf(a), StatsOf(b)), a \o b)
         /\ Describes(Merged(StatsOf(b), StatsOf(a)), a \o b)
<1> DEFINE c == a \o b
<1>1. /\ Accumulates(StatsOf(a), Len(a), SumOf(a), SquaresOf(a), Range(a))
      /\ Accumulates(StatsOf(b), Len(b), SumOf(b), SquaresOf(b), Range(b))
  BY AllAccumulated
<1>2. /\ c \in Seq(Sample) /\ Len(c) = Len(a) + Len(b)
      /\ SumOf(c) = SumOf(a) + SumOf(b) /\ SquaresOf(c) = SquaresOf(a) + SquaresOf(b)
      /\ Range(c) = Range(a) \cup Range(b)
  BY SumsOfBoth
<1>4. c \in Seq(Int)
  BY <1>2, SamplesCount
<1> HIDE DEF c
<1>5. Len(b) + Len(a) = Len(c) /\ SumOf(b) + SumOf(a) = SumOf(c)
      /\ SquaresOf(b) + SquaresOf(a) = SquaresOf(c) /\ Range(b) \cup Range(a) = Range(c)
  <2>1. /\ Len(a) \in Int /\ SumOf(a) \in Int /\ SquaresOf(a) \in Int
        /\ Len(b) \in Int /\ SumOf(b) \in Int /\ SquaresOf(b) \in Int
    BY <1>1 DEF Accumulates, Means
  <2> QED BY <1>2, <2>1
<1>6. Accumulates(Merged(StatsOf(a), StatsOf(b)), Len(c), SumOf(c), SquaresOf(c), Range(c))
  <2>1. Accumulates(Merged(StatsOf(a), StatsOf(b)), Len(a) + Len(b), SumOf(a) + SumOf(b),
                    SquaresOf(a) + SquaresOf(b), Range(a) \cup Range(b))
    BY <1>1, MergeAccumulates
  <2> QED BY <1>2, <2>1
<1>7. Accumulates(Merged(StatsOf(b), StatsOf(a)), Len(c), SumOf(c), SquaresOf(c), Range(c))
  <2>1. Accumulates(Merged(StatsOf(b), StatsOf(a)), Len(b) + Len(a), SumOf(b) + SumOf(a),
                    SquaresOf(b) + SquaresOf(a), Range(b) \cup Range(a))
    BY <1>1, MergeAccumulates
  <2> QED BY <1>5, <2>1
<1> QED BY <1>4, <1>6, <1>7, AccumulatedDescribes DEF c

LEMMA TwoParts ==
  ASSUME NEW T, NEW s \in Seq(T), NEW k \in 0 .. Len(s)
  PROVE  /\ SubSeq(s, 1, k) \in Seq(T) /\ SubSeq(s, k + 1, Len(s)) \in Seq(T)
         /\ SubSeq(s, 1, k) \o SubSeq(s, k + 1, Len(s)) = s
<1> DEFINE a == SubSeq(s, 1, k)
           b == SubSeq(s, k + 1, Len(s))
<1>1. /\ a \in Seq(T) /\ Len(a) = k /\ \A i \in 1 .. k : a[i] = s[i]
      /\ k \in Nat /\ Len(s) \in Nat
  OBVIOUS
<1>2. /\ b \in Seq(T) /\ Len(b) = Len(s) - k
      /\ \A i \in 1 .. Len(s) - k : b[i] = s[k + i]
  OBVIOUS
<1> HIDE DEF a, b
<1> DEFINE c == a \o b
<1>3. /\ c \in Seq(T) /\ Len(c) = k + (Len(s) - k)
      /\ \A i \in 1 .. k + (Len(s) - k) : c[i] = IF i <= k THEN a[i] ELSE b[i - k]
  BY <1>1, <1>2, ConcatProperties
<1>4. k + (Len(s) - k) = Len(s)
  BY <1>1
<1> HIDE DEF c
<1>5. ASSUME NEW i \in 1 .. Len(s) PROVE c[i] = s[i]
  <2>1. CASE i <= k
    BY <1>1, <1>3, <1>4, <2>1
  <2>2. CASE ~(i <= k)
    <3>1. i - k \in 1 .. Len(s) - k /\ k + (i - k) = i
      BY <1>1, <2>2
    <3> QED BY <1>1, <1>2, <1>3, <1>4, <2>2, <3>1
  <2> QED BY <2>1, <2>2
<1>6. c = s
  BY <1>3, <1>4, <1>5, SeqEqual
<1> QED BY <1>1, <1>2, <1>6 DEF a, b, c

LEMMA MergeHolds == AnalyzerInv => MergeAsDefined
<1> SUFFICES ASSUME AnalyzerInv PROVE MergeAsDefined
  OBVIOUS
<1>1. samples \in Seq(Sample) /\ stats = StatsOf(samples)
  BY DEF AnalyzerInv
<1>2. ASSUME NEW k \in 0 .. Len(samples)
      PROVE  LET early == SubSeq(samples, 1, k)
                 late == SubSeq(samples, k + 1, Len(samples))
             IN /\ Describes(Merged(StatsOf(early), StatsOf(late)), samples)
                /\ Describes(Merged(StatsOf(late), StatsOf(early)), samples)
  <2> DEFINE early == SubSeq(samples, 1, k)
             late == SubSeq(samples, k + 1, Len(samples))
  <2>1. early \in Seq(Sample) /\ late \in Seq(Sample) /\ early \o late = samples
    BY <1>1, TwoParts
  <2> HIDE DEF early, late
  <2>2. /\ Describes(Merged(StatsOf(early), StatsOf(late)), samples)
        /\ Describes(Merged(StatsOf(late), StatsOf(early)), samples)
    BY <2>1, PartsMerge
  <2> QED BY <2>2 DEF early, late
<1>3. Describes(Merged(stats, stats), samples \o samples)
  BY <1>1, PartsMerge
<1> QED BY <1>2, <1>3 DEF MergeAsDefined

-----------------------------------------------------------------------------
(* The drawn histogram                                                     *)

(* A sum in which one term is one more is one more.                        *)
LEMMA OneMoreSummed ==
  ASSUME NEW c, NEW d, NEW n \in Nat, NEW f \in 1 .. n,
         \A i \in 1 .. n : c[i] \in Nat /\ d[i] = c[i] + (IF i = f THEN 1 ELSE 0)
  PROVE  /\ Summing!Fold(0, c, n) \in Nat
         /\ Summing!Fold(0, d, n) = Summing!Fold(0, c, n) + 1
<1> DEFINE S(s, m) == Summing!Fold(0, s, m)
           One(m) == IF f <= m THEN 1 ELSE 0
           Good == {m \in Nat : m <= n => S(c, m) \in Nat /\ S(d, m) = S(c, m) + One(m)}
<1>1. /\ \A s : S(s, 0) = 0
      /\ \A s : \A m \in Nat : S(s, m + 1) = S(s, m) + s[m + 1]
  BY TopsAreLast, Summing!FoldNone, Summing!FoldNext
<1> HIDE DEF S
<1>2. 0 \in Good
  BY <1>1
<1>3. ASSUME NEW m \in Nat, m \in Good PROVE m + 1 \in Good
  <2> SUFFICES ASSUME m + 1 <= n
               PROVE  S(c, m + 1) \in Nat /\ S(d, m + 1) = S(c, m + 1) + One(m + 1)
    OBVIOUS
  <2>1. m + 1 \in 1 .. n /\ S(c, m) \in Nat /\ S(d, m) = S(c, m) + One(m)
    BY <1>3
  <2>2. c[m + 1] \in Nat /\ d[m + 1] = c[m + 1] + (IF m + 1 = f THEN 1 ELSE 0)
    BY <2>1
  <2>3. S(c, m + 1) = S(c, m) + c[m + 1] /\ S(d, m + 1) = S(d, m) + d[m + 1]
    BY <1>1
  <2>4. CASE m + 1 = f
    BY <2>1, <2>2, <2>3, <2>4
  <2>5. CASE m + 1 # f
    <3>1. f <= m + 1 <=> f <= m
      BY <2>5
    <3> QED BY <2>1, <2>2, <2>3, <2>5, <3>1
  <2> QED BY <2>4, <2>5
<1> HIDE DEF Good
<1>4. n \in Good
  BY <1>2, <1>3, Filling!Counting
<1> QED BY <1>4 DEF Good, S

LEMMA NothingSummed ==
  ASSUME NEW c, NEW n \in Nat, \A i \in 1 .. n : c[i] = 0
  PROVE  Summing!Fold(0, c, n) = 0
<1> DEFINE Good == {m \in Nat : m <= n => Summing!Fold(0, c, m) = 0}
<1>1. 0 \in Good
  BY TopsAreLast, Summing!FoldNone
<1>2. ASSUME NEW m \in Nat, m \in Good PROVE m + 1 \in Good
  <2>1. Summing!Fold(0, c, m + 1) = Summing!Fold(0, c, m) + c[m + 1]
    BY TopsAreLast, Summing!FoldNext
  <2>2. ASSUME m + 1 <= n PROVE Summing!Fold(0, c, m) = 0 /\ c[m + 1] = 0
    BY <1>2, <2>2
  <2> QED BY <2>1, <2>2
<1> HIDE DEF Good
<1>3. n \in Good
  BY <1>1, <1>2, Filling!Counting
<1> QED BY <1>3 DEF Good

(* What the buckets count adds up to how many values were counted: each    *)
(* value is in one bucket.                                                 *)
CountsIn(h, n, s, m) == [i \in 1 .. n |-> Cardinality(InBucket(h, i - 1, s, m))]

LEMMA CountsSummed ==
  ASSUME NEW h, NEW n, Buckets(h, n), NEW s \in Seq(Int), NEW m \in Nat, m <= Len(s)
  PROVE  Summing!Fold(0, CountsIn(h, n, s, m), n) = m
<1> DEFINE C(k) == CountsIn(h, n, s, k)
           Good == {k \in Nat : k <= Len(s) => Summing!Fold(0, C(k), n) = k}
<1>0. n \in Nat \ {0}
  BY DEF Buckets
<1>1. 0 \in Good
  <2>1. ASSUME NEW i \in 1 .. n PROVE C(0)[i] = 0
    <3>1. InBucket(h, i - 1, s, 0) = {}
      BY SMT DEF InBucket
    <3> QED BY <3>1, FS_EmptySet DEF CountsIn
  <2> HIDE DEF C
  <2> QED BY <1>0, <2>1, NothingSummed
<1>2. ASSUME NEW k \in Nat, k \in Good PROVE k + 1 \in Good
  <2> SUFFICES ASSUME k + 1 <= Len(s) PROVE Summing!Fold(0, C(k + 1), n) = k + 1
    OBVIOUS
  <2> DEFINE f == FindBucket(h, s[k + 1])
  <2>1. /\ f \in 0 .. n - 1
        /\ \A i \in 0 .. n - 1 : Belongs(h, i, s[k + 1]) <=> i = f
    <3>1. s[k + 1] \in Int /\ DOMAIN h.counts = 0 .. n - 1
      BY DEF Buckets
    <3> QED BY <3>1, BucketFound
  <2> HIDE DEF f
  <2>2. ASSUME NEW i \in 1 .. n
        PROVE  C(k)[i] \in Nat /\ C(k + 1)[i] = C(k)[i] + (IF i = f + 1 THEN 1 ELSE 0)
    <3>1. i - 1 \in 0 .. n - 1 /\ (i - 1 = f <=> i = f + 1)
      BY <1>0, <2>1
    <3>2. Belongs(h, i - 1, s[k + 1]) <=> i = f + 1
      BY <2>1, <3>1
    <3>3. /\ C(k)[i] = Cardinality(InBucket(h, i - 1, s, k))
          /\ C(k + 1)[i] = Cardinality(InBucket(h, i - 1, s, k + 1))
      BY DEF CountsIn
    <3>4. /\ Cardinality(InBucket(h, i - 1, s, k)) \in Nat
          /\ Cardinality(InBucket(h, i - 1, s, k + 1)) =
               Cardinality(InBucket(h, i - 1, s, k))
                 + (IF Belongs(h, i - 1, s[k + 1]) THEN 1 ELSE 0)
      BY InBucketNext
    <3> QED BY <3>2, <3>3, <3>4, Zenon
  <2>3. f + 1 \in 1 .. n
    BY <1>0, <2>1
  <2> HIDE DEF C
  <2>4. Summing!Fold(0, C(k + 1), n) = Summing!Fold(0, C(k), n) + 1
    <3> DEFINE g == f + 1
    <3>1. /\ g \in 1 .. n
          /\ \A i \in 1 .. n :
               C(k)[i] \in Nat /\ C(k + 1)[i] = C(k)[i] + (IF i = g THEN 1 ELSE 0)
      BY <2>2, <2>3, Zenon
    <3> HIDE DEF g
    <3> QED BY <1>0, <3>1, OneMoreSummed
  <2>5. Summing!Fold(0, C(k), n) = k
    BY <1>2
  <2> QED BY <2>4, <2>5
<1> HIDE DEF Good, C
<1>3. m \in Good
  BY <1>1, <1>2, Filling!Counting
<1> QED BY <1>3 DEF Good, C

(* A linear histogram that reaches from the least value to beyond the      *)
(* greatest has each value between the boundaries of its bucket.           *)
LEMMA WithinBucket ==
  ASSUME NEW n \in Nat \ {0}, NEW min \in Int, NEW max \in Int, NEW v \in Int,
         min <= v, v < max, NEW h, Buckets(h, n),
         h.boundaries = Linear(n, min, max).boundaries, h.scale = n
  PROVE  LET i == FindBucket(h, v)
         IN BucketLower(h, i) <= v * h.scale /\ v * h.scale < BucketUpper(h, i)
<1> DEFINE i == FindBucket(h, v)
           b == h.boundaries
<1>1. /\ DOMAIN h.counts = 0 .. n - 1 /\ NumBuckets(h) = n
      /\ i \in 0 .. n - 1 /\ Belongs(h, i, v)
  BY BucketFound, BucketsCounted DEF Buckets
<1>2. b[0] = min * n /\ b[n] = min * n + (max - min) * n
  <2>1. b = [j \in 0 .. n |-> min * n + (max - min) * j]
    BY DEF Linear
  <2>2. 0 \in 0 .. n /\ n \in 0 .. n
    OBVIOUS
  <2>3. b[0] = min * n + (max - min) * 0
    BY <2>1, <2>2
  <2>4. min * n + (max - min) * 0 = min * n
    BY SMT
  <2> QED BY <2>1, <2>2, <2>3, <2>4
<1> HIDE DEF i, b
<1>3. b[0] <= v * n
  <2>1. \A x \in Nat : x * n >= 0
    BY SMT
  <2>2. v - min \in Nat
    OBVIOUS
  <2>3. (v - min) * n >= 0
    BY <2>1, <2>2
  <2>4. v * n = min * n + (v - min) * n
    BY SMT
  <2>5. min * n \in Int /\ (v - min) * n \in Int
    BY SMT
  <2> QED BY <1>2, <2>3, <2>4, <2>5
<1>4. v * n < b[n]
  <2>1. \A x \in Nat \ {0} : x * n > 0
    BY SMT
  <2>2. max - v \in Nat \ {0}
    OBVIOUS
  <2>3. (max - v) * n > 0
    BY <2>1, <2>2
  <2>4. min * n + (max - min) * n = v * n + (max - v) * n
    BY SMT
  <2>5. v * n \in Int /\ (max - v) * n \in Int
    BY SMT
  <2> QED BY <1>2, <2>3, <2>4, <2>5
<1>5. /\ BucketLower(h, i) = b[i] /\ BucketUpper(h, i) = b[i + 1]
      /\ i = 0 \/ BucketLower(h, i) <= v * n
      /\ i = n - 1 \/ v * n < BucketUpper(h, i)
  <2>1. BucketLower(h, i) = b[i] /\ BucketUpper(h, i) = b[i + 1]
    BY <1>1 DEF BucketLower, BucketUpper, b
  <2>2. /\ i = 0 \/ BucketLower(h, i) <= v * n
        /\ i = n - 1 \/ v * n < BucketUpper(h, i)
    BY <1>1 DEF Belongs
  <2> QED BY <2>1, <2>2
<1>6. i = n - 1 => i + 1 = n
  BY <1>1
<1>7. BucketLower(h, i) <= v * n /\ v * n < BucketUpper(h, i)
  BY <1>3, <1>4, <1>5, <1>6
<1> QED BY <1>7 DEF i

(* For any number of buckets the tool may ask for.                         *)
LEMMA DrawnWith ==
  ASSUME AnalyzerInv, samples # <<>>, NEW n \in Nat \ {0}
  PROVE  LET h == RenderedHistogram(n)
         IN /\ h.total = Len(samples)
            /\ SumOf([i \in 1 .. n |-> h.counts[i - 1]]) = Len(samples)
            /\ \A j \in 1 .. Len(samples) :
                 LET i == FindBucket(h, samples[j])
                 IN /\ BucketLower(h, i) <= samples[j] * h.scale
                    /\ samples[j] * h.scale < BucketUpper(h, i)
<1> DEFINE min == MinOf(stats)
           top == IF MinOf(stats) = MaxOf(stats) THEN MinOf(stats) + 1 ELSE MaxOf(stats)
           max == top + 1
           e == Linear(n, min, max)
           h == FilledWith(e, samples)
           N == Len(samples)
<1>1. samples \in Seq(Int) /\ N \in Nat \ {0}
  BY SamplesAre DEF AnalyzerInv
<1>2. RenderedHistogram(n) = h
  BY DEF RenderedHistogram, HistogramUpTo, FilledWith
<1>3. /\ min \in Int /\ max \in Int /\ min < max
      /\ \A j \in 1 .. N : samples[j] \in Int /\ min <= samples[j] /\ samples[j] < max
  <2>1. stats.count = N /\ Spans(stats, Range(samples))
    BY SamplesAre DEF Accumulates, Means
  <2>2. \A j \in 1 .. N : samples[j] \in Range(samples) /\ samples[j] \in Int
    BY <1>1 DEF Range
  <2>3. 1 \in 1 .. N
    BY <1>1
  <2>4. /\ stats.min \in Int /\ stats.max \in Int
        /\ \A x \in Range(samples) : stats.min <= x /\ x <= stats.max
    BY <2>2, <2>3, <2>1 DEF Spans, Sample
  <2>5. MinOf(stats) = stats.min /\ MaxOf(stats) = stats.max
    BY <1>1, <2>1 DEF MinOf, MaxOf
  <2>6. top \in Int /\ stats.max <= top /\ min \in Int
    BY <2>4, <2>5
  <2> HIDE DEF top
  <2>7. max \in Int /\ stats.max < max
    BY <2>4, <2>6
  <2>8. \A j \in 1 .. N : samples[j] \in Int /\ min <= samples[j] /\ samples[j] < max
    BY <2>2, <2>4, <2>5, <2>7
  <2> HIDE DEF min, max
  <2>9. min < max
    BY <2>3, <2>6, <2>7, <2>8
  <2> QED BY <2>6, <2>7, <2>8, <2>9
<1> HIDE DEF min, max, top, h
<1>4. Empty(e, n) /\ e.scale = n
  BY <1>3, LinearEmpty DEF Linear
<1> HIDE DEF e
<1>5. Tallies(e, h, n, samples, N)
  BY <1>1, <1>4, AllTallied DEF h
<1>6. /\ Buckets(h, n) /\ Buckets(e, n) /\ h.boundaries = e.boundaries /\ h.scale = n
      /\ h.total = N
      /\ \A i \in 0 .. n - 1 : h.counts[i] = Cardinality(InBucket(e, i, samples, N))
  BY <1>4, <1>5 DEF Tallies, Empty
<1>7. SumOf([i \in 1 .. n |-> h.counts[i - 1]]) = N
  <2> DEFINE c == [i \in 1 .. n |-> h.counts[i - 1]]
  <2>1. c = CountsIn(e, n, samples, N)
    BY <1>6 DEF CountsIn
  <2>2. DOMAIN c = 1 .. n
    OBVIOUS
  <2> HIDE DEF c
  <2>3. SumOf(c) = Summing!Fold(0, c, n)
    BY <2>2, FoldsAre
  <2>4. Summing!Fold(0, CountsIn(e, n, samples, N), n) = N
    BY <1>1, <1>6, CountsSummed
  <2> QED BY <2>1, <2>3, <2>4 DEF c
<1>8. ASSUME NEW j \in 1 .. N
      PROVE  LET i == FindBucket(h, samples[j])
             IN /\ BucketLower(h, i) <= samples[j] * h.scale
                /\ samples[j] * h.scale < BucketUpper(h, i)
  BY <1>3, <1>6, WithinBucket DEF e
<1> QED BY <1>2, <1>6, <1>7, <1>8

LEMMA DrawnHolds == AnalyzerInv => EverySampleDrawn
<1> SUFFICES ASSUME AnalyzerInv, samples # <<>>, NEW n \in 1 .. 3
             PROVE  LET h == RenderedHistogram(n)
                    IN /\ h.total = Len(samples)
                       /\ SumOf([i \in 1 .. n |-> h.counts[i - 1]]) = Len(samples)
                       /\ \A j \in 1 .. Len(samples) :
                            LET i == FindBucket(h, samples[j])
                            IN /\ BucketLower(h, i) <= samples[j] * h.scale
                               /\ samples[j] * h.scale < BucketUpper(h, i)
  BY DEF EverySampleDrawn
<1>1. n \in Nat \ {0}
  OBVIOUS
<1> QED BY <1>1, DrawnWith

-----------------------------------------------------------------------------
(* Percentiles                                                             *)

Rises(s) == \A i, j \in 1 .. Len(s) : i < j => s[i] <= s[j]

(* How many of the first m elements of s are in P.                         *)
Amount(P, s, m) == Cardinality({j \in 1 .. m : s[j] \in P})

LEMMA AmountNext ==
  ASSUME NEW P, NEW s
  PROVE  /\ Amount(P, s, 0) = 0
         /\ \A m \in Nat :
              /\ Amount(P, s, m) \in Nat
              /\ Amount(P, s, m + 1) = Amount(P, s, m) + (IF s[m + 1] \in P THEN 1 ELSE 0)
<1>1. {j \in 1 .. 0 : s[j] \in P} = {}
  BY SMT
<1>2. Amount(P, s, 0) = 0
  BY <1>1, FS_EmptySet DEF Amount
<1>3. ASSUME NEW m \in Nat
      PROVE  /\ Amount(P, s, m) \in Nat
             /\ Amount(P, s, m + 1) = Amount(P, s, m) + (IF s[m + 1] \in P THEN 1 ELSE 0)
  <2> DEFINE Q == {j \in Nat : s[j] \in P}
  <2>1. /\ {j \in 1 .. m : s[j] \in P} = {j \in 1 .. m : j \in Q}
        /\ {j \in 1 .. m + 1 : s[j] \in P} = {j \in 1 .. m + 1 : j \in Q}
        /\ m + 1 \in Q <=> s[m + 1] \in P
    OBVIOUS
  <2> HIDE DEF Q
  <2> QED BY <2>1, OneMoreCounted DEF Amount
<1> QED BY <1>2, <1>3

LEMMA SameAmount ==
  ASSUME NEW P, NEW s, NEW z, NEW m \in Nat, \A j \in 1 .. m : s[j] = z[j]
  PROVE  Amount(P, s, m) = Amount(P, z, m)
<1>1. {j \in 1 .. m : s[j] \in P} = {j \in 1 .. m : z[j] \in P}
  OBVIOUS
<1> QED BY <1>1 DEF Amount

(* There is a place for one more in a sequence that rises.                 *)
LEMMA PlaceFound ==
  ASSUME NEW s \in Seq(Int), Rises(s), NEW x \in Int
  PROVE  \E k \in 0 .. Len(s) : /\ \A i \in 1 .. k : s[i] <= x
                               /\ \A i \in k + 1 .. Len(s) : x < s[i]
<1> DEFINE n == Len(s)
           Beyond == {j \in 1 .. n : x < s[j]}
<1>1. n \in Nat /\ \A i \in 1 .. n : s[i] \in Int
  OBVIOUS
<1>2. CASE Beyond = {}
  <2>1. \A i \in 1 .. n : s[i] <= x
    BY <1>1, <1>2
  <2>2. \A i \in n + 1 .. n : FALSE
    BY <1>1
  <2> QED BY <1>1, <2>1, <2>2
<1>3. CASE Beyond # {}
  <2>1. PICK m \in Beyond : \A j \in Beyond : m <= j
    <3>1. Beyond \subseteq Nat
      BY <1>1
    <3> HIDE DEF Beyond
    <3> QED BY <1>3, <3>1, Filling!LeastExists
  <2>2. m \in 1 .. n /\ x < s[m] /\ m - 1 \in 0 .. n
    BY <1>1
  <2>3. ASSUME NEW i \in 1 .. m - 1 PROVE s[i] <= x
    <3>1. i \in 1 .. n /\ ~(m <= i)
      BY <1>1, <2>2
    <3>2. i \notin Beyond
      BY <2>1, <3>1
    <3> QED BY <1>1, <3>1, <3>2
  <2>4. ASSUME NEW i \in (m - 1) + 1 .. n PROVE x < s[i]
    <3>1. i \in 1 .. n /\ (i = m \/ m < i)
      BY <1>1, <2>2
    <3>2. s[m] <= s[i]
      BY <1>1, <2>2, <3>1 DEF Rises
    <3> QED BY <1>1, <2>2, <3>1, <3>2
  <2> QED BY <2>2, <2>3, <2>4
<1> QED BY <1>2, <1>3

(* Inserted puts x at a place: before it what is not greater, after it     *)
(* what is.                                                                *)
LEMMA InsertedIs ==
  ASSUME NEW s \in Seq(Int), Rises(s), NEW x \in Int
  PROVE  \E k \in 0 .. Len(s) :
           LET h == Inserted(s, x)
           IN /\ h \in Seq(Int) /\ Len(h) = Len(s) + 1
              /\ \A i \in 1 .. k : h[i] = s[i] /\ s[i] <= x
              /\ h[k + 1] = x
              /\ \A i \in k + 1 .. Len(s) : h[i + 1] = s[i] /\ x < s[i]
<1> DEFINE n == Len(s)
           k == CHOOSE k \in 0 .. Len(s) : /\ \A i \in 1 .. k : s[i] <= x
                                          /\ \A i \in k + 1 .. Len(s) : x < s[i]
           a == SubSeq(s, 1, k)
           b == <<x>>
           c == SubSeq(s, k + 1, n)
           h == Inserted(s, x)
<1>1. k \in 0 .. n /\ (\A i \in 1 .. k : s[i] <= x) /\ \A i \in k + 1 .. n : x < s[i]
  BY PlaceFound
<1>2. h = (a \o b) \o c
  BY DEF Inserted
<1> HIDE DEF k, h
<1>3. n \in Nat /\ k \in Nat /\ k <= n
  BY <1>1
<1>4. /\ a \in Seq(Int) /\ Len(a) = k /\ \A i \in 1 .. k : a[i] = s[i]
  BY <1>3
<1>5. /\ c \in Seq(Int) /\ Len(c) = n - k /\ \A i \in 1 .. n - k : c[i] = s[k + i]
  BY <1>3
<1>6. b \in Seq(Int) /\ Len(b) = 1 /\ b[1] = x
  OBVIOUS
<1> HIDE DEF a, b, c, n
<1> DEFINE d == a \o b
<1>7. /\ d \in Seq(Int) /\ Len(d) = k + 1
      /\ \A i \in 1 .. k + 1 : d[i] = IF i <= k THEN a[i] ELSE b[i - k]
  <2>1. /\ d \in Seq(Int) /\ Len(d) = Len(a) + Len(b)
        /\ \A i \in 1 .. Len(a) + Len(b) : d[i] = IF i <= Len(a) THEN a[i] ELSE b[i - Len(a)]
    BY <1>4, <1>6, ConcatProperties, Zenon
  <2> QED BY <1>4, <1>6, <2>1, Zenon
<1>8. \A i \in 1 .. k : d[i] = s[i]
  BY <1>3, <1>4, <1>7
<1>9. d[k + 1] = x
  <2>1. k + 1 \in 1 .. k + 1 /\ ~(k + 1 <= k) /\ (k + 1) - k = 1
    BY <1>3
  <2> QED BY <1>6, <1>7, <2>1
<1> HIDE DEF d
<1>10. /\ h \in Seq(Int) /\ Len(h) = (k + 1) + (n - k)
       /\ \A i \in 1 .. (k + 1) + (n - k) :
            h[i] = IF i <= k + 1 THEN d[i] ELSE c[i - (k + 1)]
  <2>1. /\ d \o c \in Seq(Int) /\ Len(d \o c) = Len(d) + Len(c)
        /\ \A i \in 1 .. Len(d) + Len(c) :
             (d \o c)[i] = IF i <= Len(d) THEN d[i] ELSE c[i - Len(d)]
    BY <1>5, <1>7, ConcatProperties, Zenon
  <2>2. h = d \o c
    BY <1>2 DEF d
  <2> QED BY <1>5, <1>7, <2>1, <2>2, Zenon
<1>11. (k + 1) + (n - k) = n + 1
  BY <1>3
<1>12. \A i \in 1 .. k : h[i] = s[i]
  BY <1>3, <1>8, <1>10, <1>11
<1>13. h[k + 1] = x
  <2>1. k + 1 \in 1 .. n + 1 /\ k + 1 <= k + 1
    BY <1>3
  <2> QED BY <1>9, <1>10, <1>11, <2>1
<1>14. ASSUME NEW i \in k + 1 .. n PROVE h[i + 1] = s[i]
  <2> DEFINE j == i - k
  <2>1. j \in 1 .. n - k /\ k + j = i /\ (i + 1) - (k + 1) = j
        /\ i + 1 \in 1 .. n + 1 /\ ~(i + 1 <= k + 1)
    BY <1>3
  <2> HIDE DEF j
  <2> QED BY <1>5, <1>10, <1>11, <2>1
<1> QED BY <1>1, <1>10, <1>11, <1>12, <1>13, <1>14 DEF h, n

LEMMA InsertedRises ==
  ASSUME NEW s \in Seq(Int), Rises(s), NEW x \in Int
  PROVE  Rises(Inserted(s, x))
<1> DEFINE h == Inserted(s, x)
           n == Len(s)
<1>1. PICK k \in 0 .. n :
        /\ h \in Seq(Int) /\ Len(h) = n + 1
        /\ \A i \in 1 .. k : h[i] = s[i] /\ s[i] <= x
        /\ h[k + 1] = x
        /\ \A i \in k + 1 .. n : h[i + 1] = s[i] /\ x < s[i]
  BY InsertedIs
<1>2. n \in Nat /\ k \in Nat /\ k <= n /\ \A i \in 1 .. n : s[i] \in Int
  BY <1>1
<1>3. \A i, j \in 1 .. n : i < j => s[i] <= s[j]
  BY DEF Rises
<1> HIDE DEF h, n
<1>4. ASSUME NEW i \in 1 .. n + 1, NEW j \in 1 .. n + 1, i < j PROVE h[i] <= h[j]
  <2>1. CASE j <= k
    <3>1. i \in 1 .. k /\ j \in 1 .. k /\ i \in 1 .. n /\ j \in 1 .. n
      BY <1>2, <1>4, <2>1
    <3> QED BY <1>1, <1>3, <1>4, <3>1
  <2>2. CASE j = k + 1
    <3>1. i \in 1 .. k
      BY <1>2, <1>4, <2>2
    <3> QED BY <1>1, <2>2, <3>1
  <2>3. CASE k + 1 < j
    <3> DEFINE l == j - 1
    <3>1. l \in k + 1 .. n /\ l + 1 = j /\ l \in 1 .. n
      BY <1>2, <1>4, <2>3
    <3> HIDE DEF l
    <3>2. h[j] = s[l] /\ x < s[l] /\ s[l] \in Int
      BY <1>1, <1>2, <3>1
    <3>3. CASE i <= k
      <4>1. i \in 1 .. k /\ i \in 1 .. n
        BY <1>2, <3>3
      <4>2. h[i] = s[i] /\ s[i] <= x /\ s[i] \in Int
        BY <1>1, <1>2, <4>1
      <4> QED BY <3>2, <4>2
    <3>4. CASE i = k + 1
      BY <1>1, <3>2, <3>4
    <3>5. CASE k + 1 < i
      <4> DEFINE m == i - 1
      <4>1. m \in k + 1 .. n /\ m + 1 = i /\ m \in 1 .. n /\ m < l
        BY <1>2, <1>4, <3>1, <3>5
      <4> HIDE DEF m
      <4>2. h[i] = s[m]
        BY <1>1, <4>1
      <4> QED BY <1>3, <3>1, <3>2, <4>1, <4>2
    <3> QED BY <1>2, <3>3, <3>4, <3>5
  <2> QED BY <1>2, <2>1, <2>2, <2>3
<1> QED BY <1>1, <1>4 DEF Rises, h

(* Inserting adds x and nothing else.                                      *)
LEMMA InsertedCounts ==
  ASSUME NEW s \in Seq(Int), Rises(s), NEW x \in Int, NEW P
  PROVE  Amount(P, Inserted(s, x), Len(s) + 1)
           = Amount(P, s, Len(s)) + (IF x \in P THEN 1 ELSE 0)
<1> DEFINE h == Inserted(s, x)
           n == Len(s)
           one == IF x \in P THEN 1 ELSE 0
<1>1. PICK k \in 0 .. n :
        /\ h \in Seq(Int) /\ Len(h) = n + 1
        /\ \A i \in 1 .. k : h[i] = s[i] /\ s[i] <= x
        /\ h[k + 1] = x
        /\ \A i \in k + 1 .. n : h[i + 1] = s[i] /\ x < s[i]
  BY InsertedIs
<1>2. n \in Nat /\ k \in Nat /\ k <= n
  BY <1>1
<1> HIDE DEF h, n
<1> DEFINE A(t, m) == Amount(P, t, m)
           Good == {m \in Nat : k + m <= n => A(h, (k + m) + 1) = A(s, k + m) + one}
<1>3. \A t : \A m \in Nat : /\ A(t, m) \in Nat
                           /\ A(t, m + 1) = A(t, m) + (IF t[m + 1] \in P THEN 1 ELSE 0)
  BY AmountNext
<1>4. A(h, k) = A(s, k)
  BY <1>1, <1>2, SameAmount
<1> HIDE DEF A
<1>5. A(h, k + 1) = A(s, k) + one
  BY <1>1, <1>2, <1>3, <1>4, Zenon
<1>6. 0 \in Good
  <2>1. k + 0 = k
    BY <1>2
  <2> QED BY <1>5, <2>1
<1>7. ASSUME NEW m \in Nat, m \in Good PROVE m + 1 \in Good
  <2> SUFFICES ASSUME k + (m + 1) <= n
               PROVE  A(h, (k + (m + 1)) + 1) = A(s, k + (m + 1)) + one
    OBVIOUS
  <2> DEFINE l == k + m
             d == IF s[l + 1] \in P THEN 1 ELSE 0
  <2>1. l \in Nat /\ k + (m + 1) = l + 1 /\ l + 1 \in k + 1 .. n /\ k + m <= n
    BY <1>2
  <2>2. A(h, l + 1) = A(s, l) + one
    BY <1>7, <2>1
  <2> HIDE DEF l
  <2>3. h[(l + 1) + 1] = s[l + 1] /\ l + 1 \in Nat
    BY <1>1, <2>1
  <2>4. A(h, (l + 1) + 1) = A(h, l + 1) + d
    BY <1>3, <2>3, Zenon
  <2>5. A(s, l + 1) = A(s, l) + d /\ A(s, l) \in Nat
    BY <1>3, <2>1, Zenon
  <2>6. d \in Nat /\ one \in Nat
    BY Zenon, 0 \in Nat, 1 \in Nat
  <2> HIDE DEF d, one
  <2>7. A(h, (l + 1) + 1) = A(s, l + 1) + one
    BY <2>2, <2>4, <2>5, <2>6
  <2> QED BY <2>1, <2>7
<1> HIDE DEF Good
<1>8. n - k \in Nat /\ n - k \in Good /\ k + (n - k) = n
  <2>1. n - k \in Nat /\ k + (n - k) = n
    BY <1>2
  <2> QED BY <1>6, <1>7, <2>1, Filling!Counting
<1>9. A(h, n + 1) = A(s, n) + one
  BY <1>2, <1>8 DEF Good
<1> QED BY <1>9 DEF A, h, n

(* What sorting the first m samples gives.                                 *)
SortedAs(g, s, m) ==
  /\ g \in Seq(Int) /\ Len(g) = m /\ Rises(g)
  /\ \A P : Amount(P, g, m) = Amount(P, s, m)

LEMMA AllSorted ==
  ASSUME NEW s \in Seq(Int) PROVE SortedAs(FoldLeft(Inserted, <<>>, s), s, Len(s))
<1> DEFINE F(m) == Sorting!Fold(<<>>, s, m)
           Good == {m \in Nat : m <= Len(s) => SortedAs(F(m), s, m)}
<1>1. DOMAIN s = 1 .. Len(s) /\ Len(s) \in Nat
  OBVIOUS
<1>2. FoldLeft(Inserted, <<>>, s) = F(Len(s))
  BY <1>1 DEF FoldLeft, MapThenFoldSet, Sorting!Fold, Sorting!IsFold
<1>3. F(0) = <<>> /\ \A m \in Nat : F(m + 1) = Inserted(F(m), s[m + 1])
  BY TopsAreLast, Sorting!FoldNone, Sorting!FoldNext
<1> HIDE DEF F
<1>4. \A P : \A l \in Nat :
        /\ Amount(P, s, l) \in Nat
        /\ Amount(P, s, l + 1) = Amount(P, s, l) + (IF s[l + 1] \in P THEN 1 ELSE 0)
  BY AmountNext, Zenon
<1>5. 0 \in Good
  <2>1. <<>> \in Seq(Int) /\ Len(<<>>) = 0 /\ Rises(<<>>)
    BY DEF Rises
  <2> QED BY <1>3, <2>1, AmountNext DEF SortedAs
<1>6. ASSUME NEW m \in Nat, m \in Good PROVE m + 1 \in Good
  <2> SUFFICES ASSUME m + 1 <= Len(s) PROVE SortedAs(F(m + 1), s, m + 1)
    OBVIOUS
  <2> DEFINE g == F(m)
             x == s[m + 1]
  <2>1. SortedAs(g, s, m) /\ x \in Int
    BY <1>1, <1>6
  <2>2. F(m + 1) = Inserted(g, x)
    BY <1>3
  <2>3. g \in Seq(Int) /\ Len(g) = m /\ Rises(g)
    BY <2>1 DEF SortedAs
  <2> HIDE DEF g
  <2>4. Inserted(g, x) \in Seq(Int) /\ Len(Inserted(g, x)) = m + 1
    BY <2>1, <2>3, InsertedIs
  <2>5. Rises(Inserted(g, x))
    BY <2>1, <2>3, InsertedRises
  <2>6. ASSUME NEW P PROVE Amount(P, Inserted(g, x), m + 1) = Amount(P, s, m + 1)
    <3>1. Amount(P, Inserted(g, x), m + 1) = Amount(P, g, m) + (IF x \in P THEN 1 ELSE 0)
      BY <2>1, <2>3, InsertedCounts
    <3>2. Amount(P, s, m + 1) = Amount(P, s, m) + (IF x \in P THEN 1 ELSE 0)
      BY <1>4, Zenon
    <3>3. Amount(P, g, m) = Amount(P, s, m)
      BY <2>1 DEF SortedAs
    <3> QED BY <3>1, <3>2, <3>3, Zenon
  <2> QED BY <2>2, <2>4, <2>5, <2>6 DEF SortedAs
<1> HIDE DEF Good
<1>7. Len(s) \in Good
  BY <1>1, <1>5, <1>6, Filling!Counting
<1> QED BY <1>1, <1>2, <1>7 DEF Good

LEMMA RankWithin ==
  ASSUME NEW p \in Percentiles, NEW n \in Nat \ {0}
  PROVE  (p * (n - 1)) \div 1000 \in 0 .. n - 1
<1> DEFINE m == n - 1
<1>1. m \in Nat
  OBVIOUS
<1> HIDE DEF m
<1>2. \A q \in {500, 900, 950, 990, 999} : (q * m) \div 1000 \in 0 .. m
  BY <1>1, SMT
<1> QED BY <1>2 DEF m, Percentiles

(* At least r of the first n are in P if these r are different positions.  *)
LEMMA AtLeast ==
  ASSUME NEW P, NEW s, NEW n \in Nat, NEW a \in 1 .. n, NEW b \in 1 .. n, a <= b,
         \A j \in a .. b : s[j] \in P
  PROVE  Amount(P, s, n) \in Nat /\ Amount(P, s, n) >= (b - a) + 1
<1> DEFINE T == {j \in 1 .. n : s[j] \in P}
<1>1. IsFiniteSet(1 .. n) /\ T \in SUBSET (1 .. n)
  BY FS_Interval
<1>2. IsFiniteSet(T)
  BY <1>1, FS_Subset, Zenon
<1>3. a .. b \in SUBSET T
  OBVIOUS
<1>4. Cardinality(a .. b) = (b - a) + 1
  BY FS_Interval
<1> HIDE DEF T
<1>5. Cardinality(a .. b) <= Cardinality(T) /\ Cardinality(T) \in Nat
  BY <1>2, <1>3, FS_Subset, FS_CardinalityType
<1> QED BY <1>4, <1>5 DEF Amount, T

(* What is sorted is some of the samples.                                  *)
LEMMA SampleSorted ==
  ASSUME NEW s \in Seq(Int), NEW g, SortedAs(g, s, Len(s)), NEW at \in 1 .. Len(s)
  PROVE  g[at] \in Range(s)
<1> DEFINE n == Len(s)
           z == g[at]
<1>1. n \in Nat /\ DOMAIN s = 1 .. n
  OBVIOUS
<1>2. Amount({z}, g, n) = Amount({z}, s, n)
  BY DEF SortedAs
<1> HIDE DEF n, z
<1>3. /\ at \in 1 .. n /\ at <= at /\ (at - at) + 1 = 1
      /\ \A j \in at .. at : g[j] \in {z}
  BY <1>1 DEF n, z
<1>4. Amount({z}, g, n) \in Nat /\ Amount({z}, g, n) >= (at - at) + 1
  BY <1>1, <1>3, AtLeast
<1>5. Amount({z}, s, n) # 0
  BY <1>2, <1>3, <1>4
<1>6. {j \in 1 .. n : s[j] \in {z}} # {}
  BY <1>5, FS_EmptySet, Zenon DEF Amount
<1>7. PICK j \in 1 .. n : s[j] = z
  BY <1>6
<1> QED BY <1>1, <1>7 DEF Range, z

LEMMA PercentilesHold == AnalyzerInv => PercentilesAsDefined
<1> SUFFICES ASSUME AnalyzerInv, samples # <<>>, NEW p \in Percentiles
             PROVE  LET n == Len(samples)
                        rank == (p * (n - 1)) \div 1000
                    IN /\ Percentile(p) \in Range(samples)
                       /\ Cardinality({j \in 1 .. n : samples[j] <= Percentile(p)}) > rank
                       /\ Cardinality({j \in 1 .. n : samples[j] >= Percentile(p)})
                            >= n - rank
  BY DEF PercentilesAsDefined
<1> DEFINE n == Len(samples)
           rank == (p * (n - 1)) \div 1000
           at == rank + 1
           z == Percentile(p)
           Low == {x \in Int : x <= z}
           High == {x \in Int : x >= z}
<1>1. samples \in Seq(Int) /\ n \in Nat \ {0} /\ \A j \in 1 .. n : samples[j] \in Int
  BY SamplesAre DEF AnalyzerInv
<1>2. SortedAs(Sorted, samples, n)
  BY <1>1, AllSorted DEF Sorted
<1>3. /\ Sorted \in Seq(Int) /\ Len(Sorted) = n
      /\ \A i, j \in 1 .. n : i < j => Sorted[i] <= Sorted[j]
      /\ \A P : Amount(P, Sorted, n) = Amount(P, samples, n)
  BY <1>2 DEF SortedAs, Rises
<1>4. rank \in 0 .. n - 1
  BY <1>1, RankWithin
<1>5. z = Sorted[at]
  BY DEF Percentile
<1> HIDE DEF n, rank, z
<1>6. /\ at \in 1 .. n /\ (at - 1) + 1 = rank + 1 /\ (n - at) + 1 = n - rank
      /\ 1 <= at /\ at <= n /\ 1 \in 1 .. n /\ n \in 1 .. n
  BY <1>1, <1>4
<1> HIDE DEF at
<1>7. \A j \in 1 .. n : Sorted[j] \in Int
  BY <1>3
<1>8. z \in Int
  BY <1>5, <1>6, <1>7
<1>9. z \in Range(samples)
  BY <1>1, <1>2, <1>5, <1>6, SampleSorted DEF n
<1>10. Cardinality({j \in 1 .. n : samples[j] <= z}) > rank
  <2>1. ASSUME NEW j \in 1 .. at PROVE Sorted[j] \in Low
    <3>1. j \in 1 .. n /\ (j < at \/ j = at)
      BY <1>6
    <3> QED BY <1>3, <1>5, <1>6, <1>7, <1>8, <3>1
  <2> HIDE DEF Low
  <2>2. Amount(Low, Sorted, n) \in Nat /\ Amount(Low, Sorted, n) >= (at - 1) + 1
    BY <1>1, <1>6, <2>1, AtLeast
  <2>3. {j \in 1 .. n : samples[j] \in Low} = {j \in 1 .. n : samples[j] <= z}
    BY <1>1 DEF Low, n
  <2>4. Amount(Low, samples, n) = Cardinality({j \in 1 .. n : samples[j] <= z})
    BY <2>3 DEF Amount
  <2>5. Amount(Low, samples, n) \in Nat /\ Amount(Low, samples, n) >= rank + 1
    BY <1>3, <1>6, <2>2
  <2> QED BY <1>4, <2>4, <2>5
<1>11. Cardinality({j \in 1 .. n : samples[j] >= z}) >= n - rank
  <2>1. ASSUME NEW j \in at .. n PROVE Sorted[j] \in High
    <3>1. j \in 1 .. n /\ (at < j \/ j = at)
      BY <1>6
    <3> QED BY <1>3, <1>5, <1>6, <1>7, <1>8, <3>1
  <2> HIDE DEF High
  <2>2. Amount(High, Sorted, n) >= (n - at) + 1
    BY <1>1, <1>6, <2>1, AtLeast
  <2>3. {j \in 1 .. n : samples[j] \in High} = {j \in 1 .. n : samples[j] >= z}
    BY <1>1 DEF High, n
  <2>4. Amount(High, samples, n) = Cardinality({j \in 1 .. n : samples[j] >= z})
    BY <2>3 DEF Amount
  <2> QED BY <1>3, <1>6, <2>2, <2>4
<1> QED BY <1>9, <1>10, <1>11 DEF n, rank, z

LEMMA RanksRise ==
  ASSUME NEW p \in Percentiles, NEW q \in Percentiles, p < q, NEW m \in Nat
  PROVE  (p * m) \div 1000 <= (q * m) \div 1000
<1>1. \A a, b \in {500, 900, 950, 990, 999} :
        a < b => (a * m) \div 1000 <= (b * m) \div 1000
  BY SMT
<1> QED BY <1>1 DEF Percentiles

LEMMA SummaryHolds == AnalyzerInv => SummaryRises
<1> SUFFICES ASSUME AnalyzerInv, samples # <<>> PROVE SummaryRises
  BY DEF SummaryRises
<1> DEFINE n == Len(samples)
           at(p) == (p * (n - 1)) \div 1000 + 1
<1>1. samples \in Seq(Int) /\ n \in Nat \ {0}
  BY SamplesAre DEF AnalyzerInv
<1>2. \A p \in Percentiles : Percentile(p) = Sorted[at(p)]
  BY DEF Percentile
<1>3. SortedAs(Sorted, samples, n)
  BY <1>1, AllSorted DEF Sorted
<1>4. stats.count = n /\ Spans(stats, Range(samples)) /\ (n = 0 <=> Range(samples) = {})
  BY SamplesAre DEF Accumulates, Means
<1> HIDE DEF n
<1>5. MinOf(stats) = stats.min /\ MaxOf(stats) = stats.max
  BY <1>1, <1>4 DEF MinOf, MaxOf
<1>6. ASSUME NEW p \in Percentiles PROVE at(p) \in 1 .. n
  <2> DEFINE a == (p * (n - 1)) \div 1000
  <2>1. a \in 0 .. n - 1
    BY <1>1, RankWithin
  <2> HIDE DEF a
  <2>2. a + 1 \in 1 .. n
    BY <1>1, <2>1
  <2> QED BY <2>2 DEF a
<1>7. ASSUME NEW p \in Percentiles PROVE Percentile(p) \in Range(samples)
  BY <1>1, <1>2, <1>3, <1>6, SampleSorted DEF n
<1>8. \A x \in Range(samples) : stats.min <= x /\ x <= stats.max
  BY <1>1, <1>4 DEF Spans
<1>9. ASSUME NEW p \in Percentiles
      PROVE  MinOf(stats) <= Percentile(p) /\ Percentile(p) <= MaxOf(stats)
  BY <1>5, <1>7, <1>8, Zenon
<1>10. ASSUME NEW p \in Percentiles, NEW q \in Percentiles, p < q
      PROVE  Percentile(p) <= Percentile(q)
  <2> DEFINE i == at(p)
             j == at(q)
  <2>1. i \in 1 .. n /\ j \in 1 .. n
    BY <1>6
  <2>2. i <= j
    <3> DEFINE m == n - 1
    <3>1. m \in Nat
      BY <1>1
    <3> HIDE DEF m
    <3>2. (p * m) \div 1000 <= (q * m) \div 1000
      BY <1>10, <3>1, RanksRise
    <3> DEFINE a == (p * m) \div 1000
               b == (q * m) \div 1000
    <3>3. a \in Int /\ b \in Int
      BY <1>1, RankWithin DEF m
    <3> HIDE DEF a, b
    <3>4. a + 1 <= b + 1
      BY <3>2, <3>3 DEF a, b
    <3> QED BY <3>4 DEF a, b, m
  <2>3. Percentile(p) = Sorted[i] /\ Percentile(q) = Sorted[j]
    BY <1>2
  <2> HIDE DEF i, j
  <2>4. /\ Sorted \in Seq(Int) /\ Len(Sorted) = n
        /\ i < j => Sorted[i] <= Sorted[j]
    BY <1>3, <2>1 DEF SortedAs, Rises
  <2>5. Sorted[i] \in Int
    BY <2>1, <2>4
  <2>6. i = j \/ i < j
    BY <2>1, <2>2
  <2> QED BY <2>3, <2>4, <2>5, <2>6
<1> QED BY <1>9, <1>10 DEF SummaryRises

-----------------------------------------------------------------------------
(* What holds of the analyser in every state it may be in.                 *)
LEMMA AnalyzerSound ==
  AnalyzerInv => /\ AnalyzerTypeOK /\ StatsAsDefined /\ MergeAsDefined
                 /\ BucketsAsDefined /\ PercentilesAsDefined /\ EverySampleDrawn
                 /\ SummaryRises
BY AnalyzerTyped, StatsHold, MergeHolds, BucketsHold, PercentilesHold, DrawnHolds,
   SummaryHolds

THEOREM AnalyzerTyping == AnalyzerSpec => []AnalyzerTypeOK
BY AnalyzerInvAlways, AnalyzerSound, PTL

(* The running mean, variance, minimum and maximum are those of all the    *)
(* samples: Welford's updates lose nothing.                                *)
THEOREM StatsAsDefinedHolds == AnalyzerSpec => []StatsAsDefined
BY AnalyzerInvAlways, AnalyzerSound, PTL

(* Accumulators merge to that of all their samples, however these were     *)
(* divided between them, and in either order.                              *)
THEOREM MergeAsDefinedHolds == AnalyzerSpec => []MergeAsDefined
BY AnalyzerInvAlways, AnalyzerSound, PTL

(* Every sample is in one bucket, also of histograms merged.               *)
THEOREM BucketsAsDefinedHolds == AnalyzerSpec => []BucketsAsDefined
BY AnalyzerInvAlways, AnalyzerSound, PTL

(* A percentile has its share of the samples on either side.               *)
THEOREM PercentilesAsDefinedHolds == AnalyzerSpec => []PercentilesAsDefined
BY AnalyzerInvAlways, AnalyzerSound, PTL

(* The report rises from the minimum over P50 to P99.9 to the maximum.     *)
THEOREM SummaryRisesHolds == AnalyzerSpec => []SummaryRises
BY AnalyzerInvAlways, AnalyzerSound, PTL

(* RenderHistogram leaves no sample out, and none beyond its boundaries.   *)
THEOREM EverySampleDrawnHolds == AnalyzerSpec => []EverySampleDrawn
BY AnalyzerInvAlways, AnalyzerSound, PTL

-----------------------------------------------------------------------------
(* The dump                                                                *)

DumpEvent == [ts : TimeStamps, cpu : Nat, pid : {1}]

(* What rt_trace knows of: each event was read, is in the ring, or dropped.*)
CapturePart ==
  /\ max_events \in 0 .. Word - 1
  /\ generated \in Seq(DumpEvent) /\ ring \in Seq(DumpEvent)
  /\ captured \in Seq(DumpEvent) /\ dropped \in Nat
  /\ Len(captured) + Len(ring) + dropped = Len(generated)
  /\ step \in {"start", "simulated", "live"} => captured = <<>>

(* What rt_analyze has read: nothing before the dump is written, and then  *)
(* the time stamps of the lines after the header, and the times between    *)
(* them once all are read.                                                 *)
Printed == <<Header, Header, Header, Header>>
             \o [k \in 1 .. Len(captured) |-> Line(captured[k])]
EventsLoaded == IF loaded <= 4 THEN 0 ELSE loaded - 4
AnalyzePart ==
  /\ step \in {"start", "simulated", "live", "write"} =>
       loaded = 0 /\ timestamps = <<>> /\ samples = <<>>
  /\ step \in {"load", "done"} =>
       /\ dump = Printed
       /\ loaded \in 0 .. Len(captured) + 4
       /\ timestamps = [k \in 1 .. EventsLoaded |-> captured[k].ts]
       /\ samples \in Seq(TimeStamps)
       /\ samples # <<>> => /\ loaded = Len(captured) + 4
                            /\ Len(samples) < Len(timestamps)
       /\ \A k \in 1 .. Len(samples) :
            samples[k] = (timestamps[k + 1] - timestamps[k]) % Word
  /\ step = "done" =>
       loaded = Len(captured) + 4 /\ Len(samples) + 1 >= Len(timestamps)

DumpInv == CapturePart /\ AnalyzePart

-----------------------------------------------------------------------------
(* Adding an unsigned difference gives back what it was taken from.        *)
LEMMA DifferenceAdds ==
  ASSUME NEW a \in TimeStamps, NEW b \in TimeStamps
  PROVE  (a + ((b - a) % Word)) % Word = b /\ (b - a) % Word \in TimeStamps
<1>1. Word \in Nat \ {0} /\ a \in 0 .. Word - 1 /\ b \in 0 .. Word - 1
  BY TypesAssumption DEF TimeStamps
<1>2. CASE a <= b
  <2>1. b - a \in 0 .. Word - 1
    BY <1>1, <1>2
  <2>2. (b - a) % Word = b - a
    BY <1>1, <2>1
  <2>3. a + (b - a) = b /\ b % Word = b
    BY <1>1
  <2> QED BY <2>1, <2>2, <2>3 DEF TimeStamps
<1>3. CASE b < a
  <2> DEFINE d == (b - a) + Word
  <2>1. d \in 0 .. Word - 1 /\ b - a = Word * (-1) + d /\ b - a \in Int
    BY <1>1, <1>3
  <2>2. (b - a) % Word = d
    BY <1>1, <2>1
  <2>3. a + d = Word * 1 + b
    BY <1>1
  <2>4. (Word * 1 + b) % Word = b
    BY <1>1
  <2> QED BY <2>1, <2>2, <2>3, <2>4 DEF TimeStamps
<1> QED BY <1>1, <1>2, <1>3

(* A line begins with the time of its event whether or not the cpu is      *)
(* padded, and a line of the header has none.                              *)
LEMMA LineRead ==
  /\ Header \in Seq(Int) /\ ~ParseTraceLine(Header).ok
  /\ \A e \in DumpEvent :
       /\ Line(e) \in Seq(Int)
       /\ ParseTraceLine(Line(e)).ok /\ ParseTraceLine(Line(e)).ts = e.ts
<1>0. None \in Int /\ None < 0
  BY DEF None
<1>1. Header \in Seq(Int) /\ ~ParseTraceLine(Header).ok
  <2>1. Header \in Seq(Int) /\ Header[1] = None
    BY <1>0 DEF Header
  <2> QED BY <2>1 DEF ParseTraceLine
<1>2. ASSUME NEW e \in DumpEvent
      PROVE  /\ Line(e) \in Seq(Int)
             /\ ParseTraceLine(Line(e)).ok /\ ParseTraceLine(Line(e)).ts = e.ts
  <2> DEFINE p == <<e.ts>>
             q == CpuWords(e.cpu)
             r == <<e.pid, None>>
  <2>1. e.ts \in Nat /\ e.cpu \in Nat /\ e.pid = 1
    BY TypesAssumption DEF DumpEvent, TimeStamps
  <2>2. /\ p \in Seq(Int) /\ Len(p) = 1 /\ p[1] = e.ts
        /\ r \in Seq(Int) /\ Len(r) = 2 /\ r[1] \in Nat
    BY <1>0, <2>1
  <2>3. /\ q \in Seq(Int) /\ Len(q) \in {1, 2}
        /\ Len(q) = 2 => q[2] \in Nat
    <3>1. CASE e.cpu < 100
      <4>1. q = <<None, e.cpu>>
        BY <3>1 DEF CpuWords
      <4> QED BY <1>0, <2>1, <4>1
    <3>2. CASE ~(e.cpu < 100)
      <4>1. q = <<None>>
        BY <3>2 DEF CpuWords
      <4> QED BY <1>0, <4>1
    <3> QED BY <3>1, <3>2
  <2>4. Line(e) = (p \o q) \o r
    BY DEF Line
  <2> HIDE DEF p, q, r
  <2> DEFINE t == p \o q
  <2>5. /\ t \in Seq(Int) /\ Len(t) = 1 + Len(q)
        /\ t[1] = e.ts
        /\ Len(q) = 2 => t[3] \in Nat
    <3>1. /\ t \in Seq(Int) /\ Len(t) = 1 + Len(q)
          /\ \A i \in 1 .. 1 + Len(q) : t[i] = IF i <= 1 THEN p[i] ELSE q[i - 1]
      <4>1. /\ t \in Seq(Int) /\ Len(t) = Len(p) + Len(q)
            /\ \A i \in 1 .. Len(p) + Len(q) :
                 t[i] = IF i <= Len(p) THEN p[i] ELSE q[i - Len(p)]
        BY <2>2, <2>3, ConcatProperties, Zenon
      <4> QED BY <2>2, <4>1, Zenon
    <3> HIDE DEF t
    <3>2. t[1] = e.ts
      BY <2>2, <2>3, <3>1
    <3>3. Len(q) = 2 => t[3] = q[2]
      BY <3>1
    <3> QED BY <2>3, <3>1, <3>2, <3>3
  <2> HIDE DEF t
  <2> DEFINE x == t \o r
  <2>6. /\ x \in Seq(Int)
        /\ \A i \in 1 .. Len(t) + 2 :
             x[i] = IF i <= Len(t) THEN t[i] ELSE r[i - Len(t)]
    <3>1. /\ x \in Seq(Int)
          /\ \A i \in 1 .. Len(t) + Len(r) :
               x[i] = IF i <= Len(t) THEN t[i] ELSE r[i - Len(t)]
      BY <2>2, <2>5, ConcatProperties, Zenon
    <3> QED BY <2>2, <3>1, Zenon
  <2>7. Line(e) = x
    BY <2>4 DEF t
  <2> HIDE DEF x
  <2>8. x[1] = e.ts
    BY <2>3, <2>5, <2>6
  <2>9. x[3] \in Nat
    <3>1. CASE Len(q) = 1
      <4>1. Len(t) = 2 /\ 3 \in 1 .. Len(t) + 2
        BY <2>5, <3>1
      <4>2. x[3] = r[1]
        BY <2>6, <4>1
      <4> QED BY <2>2, <4>2
    <3>2. CASE Len(q) = 2
      <4>1. Len(t) = 3 /\ 3 \in 1 .. Len(t) + 2
        BY <2>5, <3>2
      <4>2. x[3] = t[3]
        BY <2>6, <4>1
      <4> QED BY <2>5, <3>2, <4>2
    <3> QED BY <2>3, <3>1, <3>2
  <2>10. /\ Line(e) \in Seq(Int)
         /\ Line(e)[1] = e.ts /\ Line(e)[1] # None /\ Line(e)[3] # None
    BY <1>0, <2>1, <2>6, <2>7, <2>8, <2>9
  <2> QED BY <2>10 DEF ParseTraceLine
<1> QED BY <1>1, <1>2

LEMMA CapturedTimes ==
  ASSUME CapturePart
  PROVE  \A k \in 1 .. Len(captured) : captured[k].ts \in TimeStamps
<1>1. \A k \in 1 .. Len(captured) : captured[k] \in DumpEvent
  BY ElementOfSeq DEF CapturePart
<1>2. \A e \in DumpEvent : e.ts \in TimeStamps
  BY DEF DumpEvent
<1> QED BY <1>1, <1>2

LEMMA DumpRead ==
  ASSUME captured \in Seq(DumpEvent)
  PROVE  /\ Printed \in Seq(Seq(Int)) /\ Len(Printed) = Len(captured) + 4
         /\ \A k \in 1 .. Len(Printed) :
              IF k <= 4 THEN ~ParseTraceLine(Printed[k]).ok
              ELSE /\ ParseTraceLine(Printed[k]).ok
                   /\ ParseTraceLine(Printed[k]).ts = captured[k - 4].ts
<1> DEFINE top == <<Header, Header, Header, Header>>
           body == [k \in 1 .. Len(captured) |-> Line(captured[k])]
<1>1. top \in Seq(Seq(Int)) /\ Len(top) = 4 /\ \A k \in 1 .. 4 : top[k] = Header
  BY LineRead
<1>2. Len(captured) \in Nat /\ \A k \in 1 .. Len(captured) : captured[k] \in DumpEvent
  BY LenProperties, ElementOfSeq
<1>3. body \in Seq(Seq(Int)) /\ Len(body) = Len(captured)
  BY <1>2, LineRead, IsASeq
<1>4. Printed = top \o body
  BY DEF Printed
<1>5. \A k \in 1 .. Len(captured) : body[k] = Line(captured[k])
  OBVIOUS
<1> HIDE DEF top, body
<1>6. /\ Printed \in Seq(Seq(Int)) /\ Len(Printed) = 4 + Len(captured)
      /\ \A k \in 1 .. 4 + Len(captured) :
           Printed[k] = IF k <= 4 THEN top[k] ELSE body[k - 4]
  <2>1. /\ top \o body \in Seq(Seq(Int))
        /\ Len(top \o body) = Len(top) + Len(body)
        /\ \A k \in 1 .. Len(top) + Len(body) :
             (top \o body)[k] = IF k <= Len(top) THEN top[k] ELSE body[k - Len(top)]
    <3> DEFINE S == Seq(Int)
    <3>1. top \in Seq(S) /\ body \in Seq(S)
      BY <1>1, <1>3
    <3> HIDE DEF S
    <3>2. /\ top \o body \in Seq(S)
          /\ Len(top \o body) = Len(top) + Len(body)
          /\ \A k \in 1 .. Len(top) + Len(body) :
               (top \o body)[k] = IF k <= Len(top) THEN top[k] ELSE body[k - Len(top)]
      BY <3>1, ConcatProperties, Zenon
    <3> QED BY <3>2, Zenon DEF S
  <2> QED BY <1>1, <1>3, <1>4, <2>1, Zenon
<1>7. ASSUME NEW k \in 1 .. Len(Printed)
      PROVE  IF k <= 4 THEN ~ParseTraceLine(Printed[k]).ok
             ELSE /\ ParseTraceLine(Printed[k]).ok
                  /\ ParseTraceLine(Printed[k]).ts = captured[k - 4].ts
  <2>1. CASE k <= 4
    <3>1. k \in 1 .. 4 /\ k \in 1 .. 4 + Len(captured)
      BY <1>2, <1>6, <2>1
    <3>2. Printed[k] = Header
      BY <1>1, <1>6, <2>1, <3>1, SMT
    <3> QED BY <2>1, <3>2, LineRead, Zenon
  <2>2. CASE ~(k <= 4)
    <3>1. k - 4 \in 1 .. Len(captured)
      BY <1>2, <1>6, <2>2
    <3>2. k \in 1 .. 4 + Len(captured)
      BY <1>2, <1>6
    <3>3. Printed[k] = Line(captured[k - 4]) /\ captured[k - 4] \in DumpEvent
      BY <1>2, <1>5, <1>6, <2>2, <3>1, <3>2, Zenon
    <3> QED BY <2>2, <3>3, LineRead, Zenon
  <2> QED BY <2>1, <2>2
<1> QED BY <1>2, <1>6, <1>7

-----------------------------------------------------------------------------
LEMMA DumpInvInit == DumpInit => DumpInv
<1> SUFFICES ASSUME DumpInit PROVE DumpInv
  OBVIOUS
<1>1. CapturePart
  BY TypesAssumption DEF DumpInit, CapturePart
<1>2. AnalyzePart
  BY DEF DumpInit, AnalyzerInit, AnalyzePart
<1> QED BY <1>1, <1>2 DEF DumpInv

(* What the ring takes in it holds, and what it does not take in is        *)
(* counted.                                                                *)
LEMMA PushKeeps ==
  ASSUME CapturePart, NEW e \in DumpEvent, Push(e)
  PROVE  CapturePart'
<1>1. /\ generated' = Append(generated, e)
      /\ \/ ring' = ring /\ dropped' = dropped + 1
         \/ ring' = Append(ring, e) /\ dropped' = dropped
      /\ UNCHANGED <<step, max_events, captured>>
  BY DEF Push
<1>2. /\ Append(generated, e) \in Seq(DumpEvent)
      /\ Len(Append(generated, e)) = Len(generated) + 1
      /\ Append(ring, e) \in Seq(DumpEvent)
      /\ Len(Append(ring, e)) = Len(ring) + 1
  BY AppendProperties DEF CapturePart
<1>3. Len(ring) \in Nat /\ Len(generated) \in Nat /\ Len(captured) \in Nat
  BY LenProperties DEF CapturePart
<1>4. /\ generated' \in Seq(DumpEvent) /\ ring' \in Seq(DumpEvent)
      /\ dropped' \in Nat
      /\ Len(captured) + Len(ring') + dropped' = Len(generated')
  <2>1. /\ Len(captured) + Len(ring) + dropped = Len(generated)
        /\ dropped \in Nat /\ ring \in Seq(DumpEvent)
    BY DEF CapturePart
  <2>2. Len(generated') = Len(generated) + 1
    BY <1>1, <1>2
  <2>3. CASE ring' = ring /\ dropped' = dropped + 1
    <3>1. Len(ring') = Len(ring)
      BY <2>3
    <3> QED BY <1>1, <1>2, <1>3, <2>1, <2>2, <2>3, <3>1
  <2>4. CASE ring' = Append(ring, e) /\ dropped' = dropped
    <3>1. Len(ring') = Len(ring) + 1
      BY <1>2, <2>4
    <3>2. Len(captured) + Len(ring') + dropped' = Len(generated')
      BY <1>3, <2>1, <2>2, <2>4, <3>1
    <3>3. generated' \in Seq(DumpEvent) /\ ring' \in Seq(DumpEvent) /\ dropped' \in Nat
      BY <1>1, <1>2, <2>1, <2>4
    <3> QED BY <3>2, <3>3
  <2> QED BY <1>1, <2>3, <2>4
<1> QED BY <1>1, <1>4 DEF CapturePart

(* ReadEvents takes the first max_events events out of the ring.           *)
LEMMA ReadKeeps ==
  ASSUME CapturePart, AnalyzePart, ReadEvents
  PROVE  CapturePart' /\ AnalyzePart'
<1> DEFINE n == Min({max_events, Len(ring)})
<1>1. Len(ring) \in Nat /\ max_events \in Nat
  BY TypesAssumption, LenProperties DEF CapturePart
<1>2. n \in 0 .. Len(ring)
  <2>1. n = IF max_events <= Len(ring) THEN max_events ELSE Len(ring)
    BY <1>1 DEF Min
  <2> QED BY <1>1, <2>1
<1>3. /\ captured' = SubSeq(ring, 1, n)
      /\ ring' = SubSeq(ring, Len(captured') + 1, Len(ring))
      /\ step \in {"live", "simulated"} /\ step' = "write"
      /\ UNCHANGED <<max_events, generated, dropped, dump, analyzeVars>>
  BY DEF ReadEvents
<1> HIDE DEF n
<1>4. /\ SubSeq(ring, 1, n) \in Seq(DumpEvent) /\ Len(SubSeq(ring, 1, n)) = n
      /\ SubSeq(ring, n + 1, Len(ring)) \in Seq(DumpEvent)
      /\ Len(SubSeq(ring, n + 1, Len(ring))) = Len(ring) - n
  BY <1>1, <1>2, ElementOfSeq, SubSeqProperties DEF CapturePart
<1>5. captured = <<>> /\ Len(ring) + dropped = Len(generated) /\ dropped \in Nat
  BY <1>1, <1>3 DEF CapturePart
<1>6. CapturePart'
  <2>1. /\ captured' \in Seq(DumpEvent) /\ ring' \in Seq(DumpEvent)
        /\ Len(captured') + Len(ring') + dropped' = Len(generated')
    <3>1. Len(captured') = n
      BY <1>3, <1>4
    <3>2. ring' = SubSeq(ring, n + 1, Len(ring))
      BY <1>3, <3>1
    <3>3. Len(ring') = Len(ring) - n
      BY <1>4, <3>2
    <3>4. generated' = generated /\ dropped' = dropped /\ n \in Int
      BY <1>2, <1>3
    <3>5. Len(captured') + Len(ring') + dropped' = Len(generated')
      BY <1>1, <1>5, <3>1, <3>3, <3>4
    <3> QED BY <1>3, <1>4, <3>2, <3>5
  <2> QED BY <1>3, <2>1 DEF CapturePart
<1>7. AnalyzePart'
  BY <1>3 DEF AnalyzePart, analyzeVars, analyzerVars
<1> QED BY <1>6, <1>7

-----------------------------------------------------------------------------
(* rt_analyze reads one more line: a time stamp unless it is of the header.*)
LEMMA LoadKeeps ==
  ASSUME CapturePart, AnalyzePart, NEW line, Load(line)
  PROVE  AnalyzePart'
<1> USE DEF EventsLoaded
<1>1. /\ step = "load" /\ loaded < Len(dump) /\ line = dump[loaded + 1]
      /\ loaded' = loaded + 1
      /\ timestamps' = IF ParseTraceLine(line).ok
                       THEN Append(timestamps, ParseTraceLine(line).ts)
                       ELSE timestamps
      /\ UNCHANGED <<step, captured, dump, samples>>
  BY DEF Load, captureVars
<1>2. /\ dump = Printed /\ loaded \in 0 .. Len(captured) + 4
      /\ timestamps = [k \in 1 .. EventsLoaded |-> captured[k].ts]
      /\ samples \in Seq(TimeStamps)
      /\ samples # <<>> => loaded = Len(captured) + 4
  BY <1>1 DEF AnalyzePart
<1>3. Len(dump) = Len(captured) + 4 /\ Len(captured) \in Nat
  BY <1>2, DumpRead, LenProperties DEF CapturePart
<1>4. loaded \in 0 .. Len(captured) + 3 /\ samples = <<>>
  BY <1>1, <1>2, <1>3
<1>5. loaded + 1 \in 1 .. Len(Printed) /\ line = Printed[loaded + 1]
  BY <1>1, <1>2, <1>3, <1>4
<1>6. timestamps' = [k \in 1 .. EventsLoaded' |-> captured[k].ts]
  <2>1. CASE loaded + 1 <= 4
    <3>1. ~ParseTraceLine(line).ok
      BY <1>5, <2>1, DumpRead DEF CapturePart
    <3>2. EventsLoaded' = 0 /\ EventsLoaded = 0
      BY <1>1, <1>4, <2>1
    <3> HIDE DEF EventsLoaded
    <3> QED BY <1>1, <1>2, <3>1, <3>2
  <2>2. CASE ~(loaded + 1 <= 4)
    <3> DEFINE n == EventsLoaded
    <3>1. ParseTraceLine(line).ok /\ ParseTraceLine(line).ts = captured[(loaded + 1) - 4].ts
      BY <1>5, <2>2, DumpRead DEF CapturePart
    <3>2. n \in Nat /\ EventsLoaded' = n + 1 /\ (loaded + 1) - 4 = n + 1
      BY <1>1, <1>4, <2>2
    <3>3. n + 1 <= Len(captured)
      BY <1>4, <2>2
    <3> HIDE DEF n, EventsLoaded
    <3>4. timestamps' = Append(timestamps, captured[n + 1].ts)
      BY <1>1, <3>1, <3>2
    <3>5. timestamps = [k \in 1 .. n |-> captured[k].ts]
      BY <1>2 DEF n
    <3>6. \A k \in 1 .. Len(captured) : captured[k].ts \in TimeStamps
      BY CapturedTimes
    <3>7. timestamps \in Seq(TimeStamps) /\ Len(timestamps) = n
      <4>1. \A k \in 1 .. n : captured[k].ts \in TimeStamps
        BY <1>3, <3>2, <3>3, <3>6
      <4> QED BY <3>2, <3>5, <4>1, IsASeq
    <3>8. captured[n + 1].ts \in TimeStamps
      BY <1>3, <3>2, <3>3, <3>6
    <3> DEFINE s == Append(timestamps, captured[n + 1].ts)
               f == [k \in 1 .. n + 1 |-> captured[k].ts]
    <3>9. /\ s \in Seq(TimeStamps) /\ Len(s) = n + 1 /\ s[n + 1] = captured[n + 1].ts
          /\ \A k \in 1 .. n : s[k] = timestamps[k]
      BY <3>7, <3>8, AppendProperties
    <3>10. s = [k \in 1 .. n + 1 |-> s[k]]
      BY <3>9, LenProperties
    <3> HIDE DEF s
    <3>11. \A k \in 1 .. n + 1 : s[k] = captured[k].ts
      <4> TAKE k \in 1 .. n + 1
      <4>1. CASE k = n + 1
        BY <3>9, <4>1
      <4>2. CASE k # n + 1
        <5>1. k \in 1 .. n
          BY <3>2, <4>2
        <5> QED BY <3>5, <3>9, <5>1
      <4> QED BY <4>1, <4>2
    <3>12. s = f
      BY <3>10, <3>11
    <3> QED BY <3>2, <3>4, <3>12 DEF s
  <2> QED BY <2>1, <2>2
<1>7. loaded' \in 0 .. Len(captured') + 4 /\ samples' = <<>> /\ dump' = Printed'
  BY <1>1, <1>2, <1>3, <1>4 DEF Printed
<1>8. samples' \in Seq(TimeStamps) /\ Len(samples') = 0
  BY <1>7
<1> HIDE DEF EventsLoaded
<1>9. timestamps' = [k \in 1 .. EventsLoaded' |-> captured'[k].ts]
  BY <1>1, <1>6
<1>10. step' = "load" /\ \A k \in 1 .. Len(samples') : FALSE
  BY <1>1, <1>8
<1> QED BY <1>7, <1>8, <1>9, <1>10 DEF AnalyzePart

(* The time from each event to the next.                                   *)
LEMMA LatencyKeeps ==
  ASSUME CapturePart, AnalyzePart, AddLatency
  PROVE  AnalyzePart'
<1> DEFINE i == Len(samples) + 1
           d == (timestamps[i + 1] - timestamps[i]) % Word
<1>1. /\ step = "load" /\ loaded = Len(dump) /\ i < Len(timestamps)
      /\ samples' = Append(samples, d)
      /\ UNCHANGED <<step, captured, dump, timestamps, loaded>>
  BY DEF AddLatency, AddSample, captureVars
<1>2. /\ dump = Printed /\ loaded \in 0 .. Len(captured) + 4
      /\ timestamps = [k \in 1 .. EventsLoaded |-> captured[k].ts]
      /\ samples \in Seq(TimeStamps)
      /\ \A k \in 1 .. Len(samples) :
           samples[k] = (timestamps[k + 1] - timestamps[k]) % Word
  BY <1>1 DEF AnalyzePart
<1>3. Len(dump) = Len(captured) + 4 /\ Len(captured) \in Nat
  BY <1>2, DumpRead, LenProperties DEF CapturePart
<1>4. EventsLoaded = Len(captured)
  BY <1>1, <1>3 DEF EventsLoaded
<1>5. Len(samples) \in Nat /\ Len(timestamps) = Len(captured)
  BY <1>2, <1>3, <1>4, LenProperties
<1>6. timestamps[i] \in TimeStamps /\ timestamps[i + 1] \in TimeStamps
  <2>1. i \in 1 .. Len(captured) /\ i + 1 \in 1 .. Len(captured)
    BY <1>1, <1>3, <1>5
  <2>2. \A k \in 1 .. Len(captured) : timestamps[k] = captured[k].ts
    BY <1>2, <1>4
  <2>3. \A k \in 1 .. Len(captured) : captured[k].ts \in TimeStamps
    BY CapturedTimes
  <2> QED BY <2>1, <2>2, <2>3
<1>7. d \in TimeStamps
  BY <1>6, DifferenceAdds
<1> DEFINE s == Append(samples, d)
<1>8. /\ s \in Seq(TimeStamps) /\ Len(s) = Len(samples) + 1 /\ s[Len(samples) + 1] = d
      /\ \A k \in 1 .. Len(samples) : s[k] = samples[k]
  <2> HIDE DEF d
  <2> QED BY <1>2, <1>7, AppendProperties
<1> HIDE DEF s
<1>9. \A k \in 1 .. Len(s) : s[k] = (timestamps[k + 1] - timestamps[k]) % Word
  <2> TAKE k \in 1 .. Len(s)
  <2>1. CASE k = Len(samples) + 1
    BY <1>8, <2>1
  <2>2. CASE k # Len(samples) + 1
    <3>1. k \in 1 .. Len(samples)
      BY <1>5, <1>8, <2>2
    <3> QED BY <1>2, <1>8, <3>1
  <2> QED BY <2>1, <2>2
<1>10. samples' = s
  BY <1>1 DEF s
<1>11. /\ loaded' = Len(captured') + 4 /\ Len(samples') < Len(timestamps')
       /\ samples' \in Seq(TimeStamps) /\ step' = "load"
       /\ dump' = Printed' /\ loaded' \in 0 .. Len(captured') + 4
  BY <1>1, <1>2, <1>3, <1>5, <1>8, <1>10 DEF Printed
<1>12. timestamps' = [k \in 1 .. EventsLoaded' |-> captured'[k].ts]
  BY <1>1, <1>2 DEF EventsLoaded
<1>13. \A k \in 1 .. Len(samples') :
         samples'[k] = (timestamps'[k + 1] - timestamps'[k]) % Word
  BY <1>1, <1>9, <1>10
<1> HIDE DEF i, d
<1> QED BY <1>11, <1>12, <1>13 DEF AnalyzePart

-----------------------------------------------------------------------------
LEMMA DumpInvStep == DumpInv /\ [DumpNext]_dumpVars => DumpInv'
<1> SUFFICES ASSUME CapturePart, AnalyzePart, [DumpNext]_dumpVars
             PROVE  CapturePart' /\ AnalyzePart'
  BY DEF DumpInv
<1> USE DEF EventsLoaded
<1>1. ASSUME NEW n \in EventLimits, NEW size, NEW mode \in {"simulated", "live"},
             DumpBegin(n, size, mode)
      PROVE  CapturePart' /\ AnalyzePart'
  <2>1. /\ step = "start" /\ step' = mode /\ max_events' = n
        /\ UNCHANGED <<generated, ring, dropped, captured, dump, timestamps,
                       loaded, samples>>
    BY <1>1 DEF DumpBegin, analyzeVars, analyzerVars
  <2>2. n \in 0 .. Word - 1
    BY DumpAssumption
  <2>3. CapturePart'
    BY <2>1, <2>2 DEF CapturePart
  <2>4. AnalyzePart'
    BY <2>1 DEF AnalyzePart
  <2> QED BY <2>3, <2>4
<1>2. ASSUME NEW e \in DumpEvent, Push(e), step \in {"simulated", "live"}
      PROVE  CapturePart' /\ AnalyzePart'
  <2>1. AnalyzePart'
    BY <1>2 DEF AnalyzePart, Push, analyzeVars, analyzerVars
  <2> QED BY <1>2, <2>1, PushKeeps
<1>3. ASSUME NEW cpu \in Cpus, Generate(cpu) PROVE CapturePart' /\ AnalyzePart'
  <2> DEFINE e == [ts |-> Len(generated), cpu |-> cpu, pid |-> 1]
  <2>1. Len(generated) \in Nat /\ Len(generated) < max_events /\ max_events \in 0 .. Word - 1
    BY <1>3, LenProperties DEF Generate, CapturePart
  <2>2. Len(generated) \in TimeStamps
    BY <2>1, TypesAssumption DEF TimeStamps
  <2>3. e \in DumpEvent
    BY <2>2, TypesAssumption DEF DumpEvent
  <2> QED BY <1>2, <1>3, <2>3 DEF Generate
<1>4. ASSUME NEW ts \in Times, NEW cpu \in Cpus, Capture(ts, cpu)
      PROVE  CapturePart' /\ AnalyzePart'
  <2>1. [ts |-> ts, cpu |-> cpu, pid |-> 1] \in DumpEvent
    BY TypesAssumption DEF DumpEvent, TimeStamps
  <2> QED BY <1>2, <1>4, <2>1 DEF Capture
<1>5. ASSUME ReadEvents PROVE CapturePart' /\ AnalyzePart'
  BY <1>5, ReadKeeps
<1>6. ASSUME StartFails \/ OpenFails \/ InputFails PROVE CapturePart' /\ AnalyzePart'
  <2>1. step' = "failed" /\ UNCHANGED <<captureVars, captured>>
    BY <1>6 DEF StartFails, OpenFails, InputFails
  <2>2. CapturePart'
    BY <2>1 DEF CapturePart, captureVars
  <2>3. AnalyzePart'
    BY <2>1 DEF AnalyzePart
  <2> QED BY <2>2, <2>3
<1>7. ASSUME WriteDump PROVE CapturePart' /\ AnalyzePart'
  <2>1. /\ step = "write" /\ step' = "load" /\ dump' = Printed
        /\ UNCHANGED <<captureVars, captured, timestamps, loaded, samples>>
    BY <1>7 DEF WriteDump, Printed, analyzeVars, analyzerVars
  <2>2. CapturePart'
    BY <2>1 DEF CapturePart, captureVars
  <2>3. loaded' = 0 /\ timestamps' = <<>> /\ samples' = <<>>
    BY <2>1 DEF AnalyzePart
  <2>4. Len(captured) \in Nat /\ dump' = Printed'
    BY <2>1, LenProperties DEF CapturePart, Printed
  <2>5. /\ timestamps' = [k \in 1 .. EventsLoaded' |-> captured'[k].ts]
        /\ samples' \in Seq(TimeStamps)
        /\ \A k \in 1 .. Len(samples') : FALSE
    BY <2>3
  <2>6. loaded' \in 0 .. Len(captured') + 4
    BY <2>1, <2>3, <2>4
  <2> HIDE DEF EventsLoaded
  <2>7. AnalyzePart'
    BY <2>1, <2>3, <2>4, <2>5, <2>6 DEF AnalyzePart
  <2> QED BY <2>2, <2>7
<1>8. ASSUME NEW line, Load(line) PROVE CapturePart' /\ AnalyzePart'
  <2>1. CapturePart'
    BY <1>8 DEF Load, CapturePart, captureVars
  <2> QED BY <1>8, <2>1, LoadKeeps
<1>9. ASSUME AddLatency PROVE CapturePart' /\ AnalyzePart'
  <2>1. CapturePart'
    BY <1>9 DEF AddLatency, CapturePart, captureVars
  <2> QED BY <1>9, <2>1, LatencyKeeps
<1>10. ASSUME PrintReport PROVE CapturePart' /\ AnalyzePart'
  <2>1. /\ step = "load" /\ step' = "done" /\ loaded = Len(dump)
        /\ Len(samples) + 1 >= Len(timestamps)
        /\ UNCHANGED <<captureVars, captured, dump, timestamps, loaded, samples>>
    BY <1>10 DEF PrintReport, analyzeVars, analyzerVars
  <2>2. CapturePart'
    BY <2>1 DEF CapturePart, captureVars
  <2>3. loaded = Len(captured) + 4
    BY <2>1, DumpRead DEF AnalyzePart, CapturePart
  <2> HIDE DEF EventsLoaded
  <2>4. EventsLoaded' = EventsLoaded /\ Printed' = Printed
    BY <2>1 DEF EventsLoaded, Printed
  <2>5. AnalyzePart'
    BY <2>1, <2>3, <2>4 DEF AnalyzePart
  <2> QED BY <2>2, <2>5
<1>11. ASSUME NEW n \in EventLimits, AnalyzeSynthetic(n)
       PROVE  CapturePart' /\ AnalyzePart'
  <2>1. n \in 0 .. Word - 1
    BY DumpAssumption
  <2>2. CapturePart'
    BY <1>11, <2>1 DEF AnalyzeSynthetic, CapturePart
  <2>3. AnalyzePart'
    BY <1>11 DEF AnalyzeSynthetic, AnalyzePart
  <2> QED BY <2>2, <2>3
<1>12. ASSUME NEW l, AddSynthetic(l) PROVE CapturePart' /\ AnalyzePart'
  <2>1. CapturePart'
    BY <1>12 DEF AddSynthetic, CapturePart, captureVars
  <2>2. AnalyzePart'
    BY <1>12 DEF AddSynthetic, AnalyzePart
  <2> QED BY <2>1, <2>2
<1>13. ASSUME PrintSynthetic PROVE CapturePart' /\ AnalyzePart'
  <2>1. CapturePart'
    BY <1>13 DEF PrintSynthetic, CapturePart, captureVars
  <2>2. AnalyzePart'
    BY <1>13 DEF PrintSynthetic, AnalyzePart
  <2> QED BY <2>1, <2>2
<1>14. ASSUME UNCHANGED dumpVars PROVE CapturePart' /\ AnalyzePart'
  <2>1. /\ UNCHANGED <<step, captured, dump, timestamps, loaded, samples>>
        /\ UNCHANGED captureVars
    BY <1>14 DEF dumpVars, analyzeVars, analyzerVars
  <2>2. CapturePart'
    BY <2>1 DEF CapturePart, captureVars
  <2> HIDE DEF EventsLoaded
  <2>3. EventsLoaded' = EventsLoaded /\ Printed' = Printed
    BY <2>1 DEF EventsLoaded, Printed
  <2>4. AnalyzePart'
    BY <2>1, <2>3 DEF AnalyzePart
  <2> QED BY <2>2, <2>4
<1> QED BY <1>1, <1>3, <1>4, <1>5, <1>6, <1>7, <1>8, <1>9, <1>10, <1>11, <1>12,
           <1>13, <1>14
        DEF DumpNext, DumpOver

LEMMA DumpInvAlways == DumpSpec => []DumpInv
BY DumpInvInit, DumpInvStep, PTL DEF DumpSpec

(* What rt_analyze reports of a dump are the times between the events      *)
(* rt_trace read, however the cpus were padded, and the numbers the two    *)
(* tools print account for every event, whatever the size of the ring.     *)
THEOREM LatenciesAsCapturedHolds == DumpSpec => []LatenciesAsCaptured
<1>1. DumpInv => LatenciesAsCaptured
  <2> SUFFICES ASSUME DumpInv, step = "done"
               PROVE  /\ timestamps = [k \in 1 .. Len(captured) |-> captured[k].ts]
                      /\ Len(samples) = IF captured = <<>> THEN 0
                                        ELSE Len(captured) - 1
                      /\ \A k \in 1 .. Len(samples) :
                           (captured[k].ts + samples[k]) % Word = captured[k + 1].ts
                      /\ Len(timestamps) + dropped + Len(ring) = Len(generated)
    BY DEF LatenciesAsCaptured
  <2>0. CapturePart /\ captured \in Seq(DumpEvent)
    BY DEF DumpInv, CapturePart
  <2>1. /\ loaded = Len(captured) + 4 /\ Len(samples) + 1 >= Len(timestamps)
        /\ timestamps = [k \in 1 .. EventsLoaded |-> captured[k].ts]
        /\ samples \in Seq(TimeStamps)
        /\ samples # <<>> => Len(samples) < Len(timestamps)
        /\ \A k \in 1 .. Len(samples) :
             samples[k] = (timestamps[k + 1] - timestamps[k]) % Word
    BY DEF DumpInv, AnalyzePart
  <2>2. Len(captured) \in Nat /\ (captured = <<>> <=> Len(captured) = 0)
    BY <2>0, LenProperties, EmptySeq
  <2>3. EventsLoaded = Len(captured)
    BY <2>1, <2>2 DEF EventsLoaded
  <2>4. /\ timestamps = [k \in 1 .. Len(captured) |-> captured[k].ts]
        /\ Len(timestamps) = Len(captured)
    BY <2>1, <2>2, <2>3
  <2>5. Len(samples) \in Nat /\ (samples = <<>> => Len(samples) = 0)
    BY <2>1, LenProperties
  <2>6. Len(samples) = IF captured = <<>> THEN 0 ELSE Len(captured) - 1
    <3>1. /\ Len(samples) + 1 >= Len(captured)
          /\ samples # <<>> => Len(samples) < Len(captured)
      BY <2>1, <2>4, Zenon
    <3>2. CASE samples = <<>>
      <4>1. Len(samples) = 0
        BY <2>5, <3>2, Zenon
      <4>2. Len(captured) \in {0, 1}
        <5>1. \A c \in Nat : 0 + 1 >= c => c \in {0, 1}
          BY SMT
        <5>2. 0 + 1 >= Len(captured)
          BY <3>1, <4>1, Zenon
        <5> QED BY <2>2, <5>1, <5>2, Zenon
      <4>3. CASE Len(captured) = 0
        BY <2>2, <4>1, <4>3
      <4>4. CASE Len(captured) = 1
        <5>1. captured # <<>> /\ Len(captured) - 1 = 0
          BY <2>2, <4>4
        <5> QED BY <4>1, <5>1, Zenon
      <4> QED BY <4>2, <4>3, <4>4
    <3>3. CASE samples # <<>>
      <4>1. Len(samples) = Len(captured) - 1 /\ Len(captured) # 0
        BY <2>2, <2>5, <3>1, <3>3
      <4> QED BY <2>2, <4>1
    <3> QED BY <3>2, <3>3
  <2>7. ASSUME NEW k \in 1 .. Len(samples)
        PROVE  (captured[k].ts + samples[k]) % Word = captured[k + 1].ts
    <3>1. k \in 1 .. Len(captured) /\ k + 1 \in 1 .. Len(captured)
      BY <2>2, <2>5, <2>6
    <3>2. /\ captured[k].ts \in TimeStamps /\ captured[k + 1].ts \in TimeStamps
          /\ timestamps[k] = captured[k].ts /\ timestamps[k + 1] = captured[k + 1].ts
      BY <2>0, <2>4, <3>1, CapturedTimes
    <3>3. samples[k] = (captured[k + 1].ts - captured[k].ts) % Word
      BY <2>1, <3>2
    <3> QED BY <3>2, <3>3, DifferenceAdds
  <2>8. Len(timestamps) + dropped + Len(ring) = Len(generated)
    <3>1. /\ Len(captured) + Len(ring) + dropped = Len(generated)
          /\ Len(ring) \in Nat /\ dropped \in Nat
      BY <2>0, LenProperties DEF CapturePart
    <3> QED BY <2>2, <2>4, <3>1
  <2> QED BY <2>4, <2>6, <2>7, <2>8
<1> QED BY <1>1, DumpInvAlways, PTL

LEMMA TimesSampled == TimeStamps \subseteq Sample
BY TypesAssumption, DumpAssumption, LatencyAssumption DEF TimeStamps, Sample

LEMMA LatencySampled ==
  ASSUME DumpInv, AddLatency PROVE \E l \in Sample : AddSample(l)
<1> DEFINE n == Len(samples)
           d == (timestamps[(n + 1) + 1] - timestamps[n + 1]) % Word
<1>1. AddSample(d) /\ step' = step /\ step = "load"
  BY DEF AddLatency
<1>2. samples' = Append(samples, d) /\ samples \in Seq(TimeStamps)
  BY <1>1 DEF AddSample, DumpInv, AnalyzePart
<1>3. samples' \in Seq(TimeStamps)
  <2>1. CapturePart /\ AnalyzePart
    BY DEF DumpInv
  <2>2. AnalyzePart'
    BY <2>1, LatencyKeeps
  <2> QED BY <1>1, <2>2 DEF AnalyzePart
<1> HIDE DEF d
<1>4. Len(samples') = n + 1 /\ samples'[n + 1] = d /\ n \in Nat
  BY <1>2
<1>5. d \in TimeStamps
  BY <1>3, <1>4
<1> QED BY <1>1, <1>5, TimesSampled

LEMMA DumpAnalyzes ==
  DumpInv /\ AnalyzerInv /\ [DumpNext]_dumpVars => AnalyzerInv'
<1> SUFFICES ASSUME DumpInv, AnalyzerInv, [DumpNext]_dumpVars PROVE AnalyzerInv'
  OBVIOUS
<1>1. CASE AddLatency
  BY <1>1, LatencySampled, AddSampleKeeps
<1>2. CASE \E l \in Latencies : AddSynthetic(l)
  BY <1>2, LatenciesSampled, AddSampleKeeps DEF AddSynthetic
<1>3. CASE UNCHANGED <<samples, stats>>
  BY <1>3 DEF AnalyzerInv
<1>4. ASSUME ~AddLatency, ~\E l \in Latencies : AddSynthetic(l)
      PROVE  UNCHANGED <<samples, stats>>
  BY <1>4, Zenon
     DEF DumpNext, dumpVars, analyzeVars, analyzerVars, DumpBegin, Generate, Capture,
         Push, StartFails, ReadEvents, OpenFails, WriteDump, Load, PrintReport,
         InputFails, AnalyzeSynthetic, PrintSynthetic, DumpOver
<1> QED BY <1>1, <1>2, <1>3, <1>4

(* All of it holds of the report rt_analyze prints: its samples are the    *)
(* times of the trace, and its statistics, percentiles and histogram are   *)
(* those of its samples.                                                   *)
THEOREM ReportAsDefined ==
  DumpSpec => [](/\ StatsAsDefined /\ MergeAsDefined /\ BucketsAsDefined
                 /\ PercentilesAsDefined /\ EverySampleDrawn /\ SummaryRises
                 /\ LatenciesAsCaptured)
<1>1. DumpInit => AnalyzerInv
  BY AnalyzerInvInit DEF DumpInit
<1> QED BY <1>1, DumpAnalyzes, DumpInvAlways, AnalyzerSound, LatenciesAsCapturedHolds,
           PTL DEF DumpSpec
=============================================================================
