----------------------------- MODULE TraceTypes -----------------------------
(***************************************************************************)
(* What the modules of the analysers share of include/rtdiag/types.h.      *)
(***************************************************************************)
EXTENDS Integers

CONSTANTS
  Word,    \* 2^64 in the code: the time stamps are uint64_t
  Times,   \* the time stamps of the events that are given
  Cpus     \* the values of cpu

ASSUME TypesAssumption ==
  /\ Word \in Nat \ {0}
  /\ Times \subseteq 0 .. Word - 1
  /\ Cpus \subseteq Nat

TimeStamps == 0 .. Word - 1
EventTypes == {"kSchedSwitch", "kSchedWakeup", "kIrqEntry", "kIrqExit",
               "kSoftirqEntry", "kSoftirqExit", "kFunctionEntry",
               "kFunctionExit", "kUserDefined", "kUnknown"}

(* at gives the members of S, each once, from the least to the greatest.   *)
Lists(at, S) ==
  /\ \A i \in S : \E k \in DOMAIN at : at[k] = i
  /\ \A k, l \in DOMAIN at : k < l => at[k] < at[l]
=============================================================================
