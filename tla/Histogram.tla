------------------------------ MODULE Histogram ------------------------------
(***************************************************************************)
(* Histogram of src/analysis/histogram.cc: a histogram is a record and a   *)
(* method an operator on records.  counts and boundaries are numbered from *)
(* 0 as in the code.  A linear boundary is the fraction                    *)
(* (min * n + (max - min) * i) / n; the boundaries are kept times n, n     *)
(* being the field scale, so that they are integers.                       *)
(***************************************************************************)
EXTENDS Integers, FiniteSetsExt, Functions

Linear(n, min, max) ==
  [counts |-> [i \in 0 .. n - 1 |-> 0], total |-> 0, scale |-> n,
   boundaries |-> [i \in 0 .. n |-> min * n + (max - min) * i]]

Logarithmic(min_exp, max_exp) ==
  LET n == IF max_exp <= min_exp THEN 1 ELSE max_exp - min_exp
  IN [counts |-> [i \in 0 .. n - 1 |-> 0], total |-> 0, scale |-> 1,
      boundaries |-> [i \in 0 .. n |-> 2 ^ (min_exp + i)]]

NumBuckets(h) == Cardinality(DOMAIN h.counts)

BucketLower(h, i) == IF i \in DOMAIN h.counts THEN h.boundaries[i] ELSE 0
BucketUpper(h, i) == IF i \in DOMAIN h.counts THEN h.boundaries[i + 1] ELSE 0

FindBucketLowerBound(h, value) ==
  LET n == NumBuckets(h)
      v == value * h.scale
  IN IF v <= h.boundaries[0] THEN 0
     ELSE IF v >= h.boundaries[n] THEN n - 1
     ELSE Min({i \in 0 .. n : h.boundaries[i] >= v}) - 1

(* upper_bound returns the first boundary beyond the value.                *)
FindBucket(h, value) ==
  LET n == NumBuckets(h)
      v == value * h.scale
  IN IF v <= h.boundaries[0] THEN 0
     ELSE IF v >= h.boundaries[n] THEN n - 1
     ELSE Min({i \in 0 .. n : h.boundaries[i] > v}) - 1

AddedTo(h, value, count) ==
  [h EXCEPT !.counts[FindBucket(h, value)] = @ + count, !.total = @ + count]

MergedOverwriting(h, other) ==
  IF NumBuckets(h) # NumBuckets(other) THEN h
  ELSE [h EXCEPT !.counts = other.counts, !.total = @ + other.total]

(* A histogram with another number of buckets is ignored.                  *)
MergedWith(h, other) ==
  IF NumBuckets(h) # NumBuckets(other) THEN h
  ELSE [h EXCEPT !.counts = [i \in DOMAIN @ |-> @[i] + other.counts[i]],
                 !.total = @ + other.total]

Cleared(h) == [h EXCEPT !.counts = [i \in DOMAIN @ |-> 0], !.total = 0]
=============================================================================
