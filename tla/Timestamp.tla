----------------------------- MODULE Timestamp -----------------------------
(***************************************************************************)
(* The conversion of ticks of the time stamp counter to nanoseconds, and   *)
(* its calibration: src/utils/timestamp.{h,cc}.  Numbers are unsigned, so  *)
(* sums and products are taken modulo Word, except where the code has 128  *)
(* bits for them.                                                          *)
(***************************************************************************)
EXTENDS TraceTypes

CONSTANTS
  Billion,   \* 1000000000 in the code
  Ticks      \* the numbers of ticks and of nanoseconds

ASSUME TimestampAssumption == Billion \in Nat \ {0} /\ Ticks \subseteq Nat

VARIABLES
  calibrated,      \* the static of GetTSCFrequency has been initialised
  delta_tsc,       \* the ticks and the nanoseconds the calibration measured
  delta_ns,
  tsc_frequency    \* the static

timestampVars == <<calibrated, delta_tsc, delta_ns, tsc_frequency>>

(* With 128 bits for the product. *)
TSCToNanos(tsc_delta, freq) ==
  IF freq = 0 THEN 0 ELSE ((tsc_delta * Billion) \div freq) % Word

TSCToNanosTruncating(tsc_delta, freq) ==
  IF freq = 0 THEN 0 ELSE (((tsc_delta \div freq) * Billion) % Word)

(* The portable fallback. *)
TSCToNanosSplit(tsc_delta, freq) ==
  LET seconds == tsc_delta \div freq
      remainder == tsc_delta % freq
  IN IF freq = 0 THEN 0
     ELSE (((seconds * Billion) % Word)
             + ((remainder * Billion) % Word) \div freq) % Word

(* The frequency that tsc ticks in ns nanoseconds amount to.               *)
CalibrateTSCFrequency(tsc, ns) ==
  IF ns = 0 THEN Billion ELSE ((tsc * Billion) % Word) \div ns

-----------------------------------------------------------------------------
TimestampInit ==
  calibrated = FALSE /\ delta_tsc = 0 /\ delta_ns = 0 /\ tsc_frequency = 0

(* The first call calibrates, sleeping as long as it takes; one that comes *)
(* later, in any thread, gets the same frequency.                          *)
GetTSCFrequency(tsc, ns) ==
  IF calibrated THEN UNCHANGED timestampVars
  ELSE /\ calibrated' = TRUE
       /\ delta_tsc' = tsc /\ delta_ns' = ns
       /\ tsc_frequency' = CalibrateTSCFrequency(tsc, ns)

TimestampNext == \E tsc, ns \in Ticks : GetTSCFrequency(tsc, ns)

TimestampSpec == TimestampInit /\ [][TimestampNext]_timestampVars

-----------------------------------------------------------------------------
TimestampTypeOK ==
  /\ calibrated \in BOOLEAN
  /\ delta_tsc \in Nat /\ delta_ns \in Nat /\ tsc_frequency \in Nat

(* The fallback gives what the conversion with 128 bits gives: neither the *)
(* split nor the wrapping of its parts loses anything, for frequencies up  *)
(* to Word / Billion: 18 GHz in the code.                                  *)
SplitAgrees ==
  \A delta \in Ticks :
    tsc_frequency * Billion <= Word =>
      TSCToNanosSplit(delta, tsc_frequency) = TSCToNanos(delta, tsc_frequency)

(* A calibration whose product does not wrap, because the sleep was not    *)
(* drawn out to seconds, never makes ticks shorter: those it counted       *)
(* convert to no less than the time it took.                               *)
CalibrationAgrees ==
  calibrated /\ delta_tsc * Billion < Word /\ tsc_frequency # 0 =>
    TSCToNanos(delta_tsc, tsc_frequency) >= delta_ns

(* The conversions agree with each other and with the clock, whatever was  *)
(* measured and is converted.                                              *)
ConversionsAgree == SplitAgrees /\ CalibrationAgrees
=============================================================================
