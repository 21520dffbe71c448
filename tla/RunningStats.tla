---------------------------- MODULE RunningStats ----------------------------
(***************************************************************************)
(* RunningStats of src/analysis/statistics.h: an accumulator is a record   *)
(* and a method an operator on records.  The doubles are exact rationals   *)
(* in lowest terms; rounding is left out.                                  *)
(***************************************************************************)
EXTENDS Integers

CONSTANT Highest   \* numeric_limits<double>::max()
Lowest == -Highest

(* n / d in lowest terms, d > 0: no smaller denominator will do.           *)
Rational(n, d) ==
  LET den == CHOOSE e \in 1 .. d : /\ (n * e) % d = 0
                                  /\ \A f \in 1 .. e - 1 : (n * f) % d # 0
  IN [num |-> (n * den) \div d, den |-> den]
Whole(n) == Rational(n, 1)
Plus(p, q) == Rational(p.num * q.den + q.num * p.den, p.den * q.den)
Minus(p, q) == Rational(p.num * q.den - q.num * p.den, p.den * q.den)
Product(p, q) == Rational(p.num * q.num, p.den * q.den)
Quotient(p, n) == Rational(p.num, p.den * n)

Lesser(m, n) == IF n < m THEN n ELSE m
Greater(m, n) == IF n > m THEN n ELSE m

Fresh == [count |-> 0, mean |-> Whole(0), m2 |-> Whole(0),
          min |-> Highest, max |-> Lowest]

AddedTwice(s, value) ==
  LET delta == Minus(Whole(value), s.mean)
      mean == Plus(s.mean, Quotient(delta, s.count + 1))
  IN [count |-> s.count + 1, mean |-> mean,
      m2 |-> Plus(s.m2, Product(delta, delta)),
      min |-> Lesser(s.min, value), max |-> Greater(s.max, value)]

Added(s, value) ==
  LET delta == Minus(Whole(value), s.mean)
      mean == Plus(s.mean, Quotient(delta, s.count + 1))
  IN [count |-> s.count + 1, mean |-> mean,
      m2 |-> Plus(s.m2, Product(delta, Minus(Whole(value), mean))),
      min |-> Lesser(s.min, value), max |-> Greater(s.max, value)]

MergedAtOldCount(s, other) ==
  LET count == s.count + other.count
      delta == Minus(other.mean, s.mean)
  IN IF other.count = 0 THEN s
     ELSE IF s.count = 0 THEN other
     ELSE [count |-> count,
           mean |-> Plus(s.mean, Quotient(Product(delta, Whole(other.count)), s.count)),
           m2 |-> Plus(Plus(s.m2, other.m2), Product(delta, delta)),
           min |-> Lesser(s.min, other.min), max |-> Greater(s.max, other.max)]

Merged(s, other) ==
  LET count == s.count + other.count
      delta == Minus(other.mean, s.mean)
      between == Product(Product(delta, delta), Whole(s.count * other.count))
  IN IF other.count = 0 THEN s
     ELSE IF s.count = 0 THEN other
     ELSE [count |-> count,
           mean |-> Plus(s.mean, Quotient(Product(delta, Whole(other.count)), count)),
           m2 |-> Plus(Plus(s.m2, other.m2), Quotient(between, count)),
           min |-> Lesser(s.min, other.min), max |-> Greater(s.max, other.max)]

MinOf(s) == IF s.count > 0 THEN s.min ELSE 0
MaxOf(s) == IF s.count > 0 THEN s.max ELSE 0
MeanOf(s) == IF s.count > 0 THEN s.mean ELSE Whole(0)
VarianceOf(s) == IF s.count > 1 THEN Quotient(s.m2, s.count) ELSE Whole(0)
SampleVarianceOf(s) ==
  IF s.count > 1 THEN Quotient(s.m2, s.count - 1) ELSE Whole(0)
=============================================================================
