--------------------------- MODULE LiveInversions ---------------------------
(***************************************************************************)
(* The way of a live trace from trace_pipe to the report on priority       *)
(* inversions: the parser makes events of the lines, and a                 *)
(* PriorityInversionDetector is given the events by AnalyzeTraceEvents.    *)
(* The ring between the two, which passes on in order what it accepts, is  *)
(* left out.                                                               *)
(***************************************************************************)
EXTENDS EventParser, PriorityInversionDetector

liveVars == <<parserVars, detectorVars>>

(* What the detector reads of an event of the parser.                      *)
AsTraceEvent(e) ==
  [ts |-> e.ts, cpu |-> e.cpu, task |-> [pid |-> e.pid, prio |-> e.priority],
   switch |-> e.type = "kSchedSwitch"]

-----------------------------------------------------------------------------
LiveInit == ParserInit /\ DetectorInit

Capture == phase = "idle" /\ ParserNext /\ UNCHANGED detectorVars

AnalyzeTraceBegin ==
  DetectBegin /\ phase' = "trace" /\ UNCHANGED parserVars

AnalyzeTraceEvent ==
  /\ Len(given) < Len(events)
  /\ TraceStep(AsTraceEvent(events[Len(given) + 1]))
  /\ UNCHANGED parserVars

AnalyzeTraceReturn == Len(given) = Len(events) /\ Return /\ UNCHANGED parserVars

LiveNext == Capture \/ AnalyzeTraceBegin \/ AnalyzeTraceEvent \/ AnalyzeTraceReturn

LiveSpec == LiveInit /\ [][LiveNext]_liveVars

-----------------------------------------------------------------------------
(* "Detect priority inversions": a switch the kernel reported from a task  *)
(* to one of lower priority, and that another event follows, is in the     *)
(* list AnalyzeTraceEvents has built when it has seen all events.          *)
InversionsFound ==
  phase = "trace" /\ Len(given) = Len(events) =>
    \A k \in 1 .. Len(written) - 1 :
      /\ written[k].name = <<"sched_switch">>
      /\ Numeral[written[k].prev.prio] < Numeral[written[k].next.prio]
      => \E i \in 1 .. Len(inversions) : inversions[i].ts = events[k].ts

(* What becomes of them: as the parser leaves every priority 0, which the  *)
(* detector takes for unknown, the list is empty whatever the trace holds. *)
NothingReported == inversions = <<>>
=============================================================================
