-------------------------- MODULE DeadlineMonitor --------------------------
(***************************************************************************)
(* DeadlineMonitor of src/sched/sched_analyzer.cc.  AnalyzeEvents pairs    *)
(* the events of each pid, charges the time between the two events of a    *)
(* pair to the pid, and reports the pairs that take longer than the pid's  *)
(* deadline.  Its loop is one action per event; the argument is chosen one *)
(* event at a time, and may be in any order: events of several CPUs reach  *)
(* the ring in the order they were read, and a full ring drops some.       *)
(*                                                                         *)
(* The object is used by one thread.  As in RingBuffer, mistakes that an   *)
(* edit could introduce are kept, under a name of their own, beside the    *)
(* definitions they would spoil.                                           *)
(***************************************************************************)
EXTENDS TraceTypes, SequencesExt

CONSTANTS
  Pids,         \* the pids of the events
  Kinds,        \* their values of type
  Deadlines,    \* the arguments of SetDeadline and SetDefaultDeadline
  MaxEvents,    \* bound on the events passed to AnalyzeEvents
  MaxChecks     \* bound on the violations there may be when CheckDeadline
                \* is called directly

ASSUME MonitorAssumption ==
  /\ Kinds \subseteq EventTypes
  /\ Deadlines \subseteq TimeStamps
  /\ MaxEvents \in Nat /\ MaxChecks \in Nat

VARIABLES
  deadlines,            \* deadlines: a function on the pids that have one
  default_deadline_ns,
  violations,
  last_event,           \* last_event: a function on the pids that have one
  analyzing,            \* AnalyzeEvents is running
  seen                  \* history: the events it has processed

monitorVars == <<deadlines, default_deadline_ns, violations, last_event, analyzing,
          seen>>
configuration == <<deadlines, default_deadline_ns>>

Event == [ts : Times, pid : Pids, kind : Kinds]
IsMap(f, S, T) ==   \* a std::map<S, T>
  DOMAIN f \subseteq S /\ f \in [DOMAIN f -> T]
Nothing == [p \in {} |-> 0]
Put(f, k, v) == [q \in DOMAIN f \cup {k} |-> IF q = k THEN v ELSE f[q]]
Erase(f, k) == [q \in DOMAIN f \ {k} |-> f[q]]

-----------------------------------------------------------------------------
(* What one pair of events amounts to. *)

DeadlineOf(p) == IF p \in DOMAIN deadlines THEN deadlines[p]
                 ELSE default_deadline_ns

Elapsed(start, end) == (end.ts - start.ts) % Word

Late(start, end) ==   \* a deadline of 0 means there is none
  DeadlineOf(start.pid) # 0 /\ Elapsed(start, end) > DeadlineOf(start.pid)

ReportSwapped(start, end) ==
  [ts |-> start.ts, pid |-> start.pid,
   deadline |-> DeadlineOf(start.pid),
   actual |-> Elapsed(start, end),
   overrun |-> DeadlineOf(start.pid) - Elapsed(start, end)]

Report(start, end) ==
  [ts |-> start.ts, pid |-> start.pid,
   deadline |-> DeadlineOf(start.pid),
   actual |-> Elapsed(start, end),
   overrun |-> Elapsed(start, end) - DeadlineOf(start.pid)]

Check(start, end) ==
  violations' = IF Late(start, end) THEN Append(violations, Report(start, end))
                ELSE violations

-----------------------------------------------------------------------------
MonitorInit ==
  /\ deadlines = Nothing
  /\ default_deadline_ns = 0
  /\ violations = <<>>
  /\ last_event = Nothing
  /\ analyzing = FALSE
  /\ seen = <<>>

SetDeadline(p, d) ==
  /\ ~analyzing
  /\ deadlines' = Put(deadlines, p, d)
  /\ UNCHANGED <<default_deadline_ns, violations, last_event, analyzing, seen>>

SetDefaultDeadline(d) ==
  /\ ~analyzing
  /\ default_deadline_ns' = d
  /\ UNCHANGED <<deadlines, violations, last_event, analyzing, seen>>

(* Called directly, with any two events. *)
CheckDeadline(start, end) ==
  /\ ~analyzing
  /\ Len(violations) < MaxChecks
  /\ Check(start, end)
  /\ UNCHANGED <<configuration, last_event, analyzing, seen>>

AnalyzeBeginKeeping ==
  /\ ~analyzing
  /\ analyzing' = TRUE
  /\ violations' = <<>>
  /\ seen' = <<>>
  /\ UNCHANGED <<configuration, last_event>>

AnalyzeBegin ==
  /\ ~analyzing
  /\ analyzing' = TRUE
  /\ violations' = <<>>
  /\ last_event' = Nothing
  /\ seen' = <<>>
  /\ UNCHANGED configuration

(* The first event of a pair is only remembered ... *)
AnalyzeFirst(e) ==
  /\ analyzing
  /\ Len(seen) < MaxEvents
  /\ e.pid \notin DOMAIN last_event
  /\ last_event' = Put(last_event, e.pid, e)
  /\ seen' = Append(seen, e)
  /\ UNCHANGED <<configuration, violations, analyzing>>

AnalyzeSecondKeeping(e) ==
  /\ analyzing
  /\ Len(seen) < MaxEvents
  /\ e.pid \in DOMAIN last_event
  /\ IF e.ts > last_event[e.pid].ts
     THEN Check(last_event[e.pid], e) /\ UNCHANGED last_event
     ELSE UNCHANGED <<violations, last_event>>
  /\ seen' = Append(seen, e)
  /\ UNCHANGED <<configuration, analyzing>>

(* ... and the second one is checked against it if it is later. *)
AnalyzeSecond(e) ==
  /\ analyzing
  /\ Len(seen) < MaxEvents
  /\ e.pid \in DOMAIN last_event
  /\ IF e.ts > last_event[e.pid].ts THEN Check(last_event[e.pid], e)
     ELSE UNCHANGED violations
  /\ last_event' = Erase(last_event, e.pid)
  /\ seen' = Append(seen, e)
  /\ UNCHANGED <<configuration, analyzing>>

AnalyzeReturn ==
  /\ analyzing
  /\ analyzing' = FALSE
  /\ seen' = <<>>
  /\ UNCHANGED <<configuration, violations, last_event>>

MonitorReset ==
  /\ ~analyzing
  /\ deadlines' = Nothing
  /\ default_deadline_ns' = 0
  /\ violations' = <<>>
  /\ last_event' = Nothing
  /\ UNCHANGED <<analyzing, seen>>

Configure == \E d \in Deadlines :
               SetDefaultDeadline(d) \/ \E p \in Pids : SetDeadline(p, d)
Analyze == \E e \in Event : AnalyzeFirst(e) \/ AnalyzeSecond(e)

MonitorNext ==
  \/ Configure
  \/ \E start, end \in Event : CheckDeadline(start, end)
  \/ AnalyzeBegin
  \/ Analyze
  \/ AnalyzeReturn
  \/ MonitorReset

MonitorSpec == MonitorInit /\ [][MonitorNext]_monitorVars

-----------------------------------------------------------------------------
(* Type invariant of the members of DeadlineMonitor::Impl.                 *)
MonitorEvents == [ts : TimeStamps, pid : Pids, kind : EventTypes]
MonitorTypeOK ==
  /\ IsMap(deadlines, Pids, Deadlines)
  /\ default_deadline_ns \in Deadlines \cup {0}
  /\ violations \in Seq([ts : TimeStamps, pid : Pids, deadline : 1 .. Word - 1,
                         actual : 1 .. Word - 1, overrun : 1 .. Word - 1])
  /\ IsMap(last_event, Pids, MonitorEvents)
  /\ analyzing \in BOOLEAN
  /\ seen \in Seq(MonitorEvents)

(* The i-th event closes a pair iff it is the 2nd, 4th, ... of its pid;    *)
(* its partner is then the event of that pid just before it.               *)
Rank(i) == Cardinality({j \in 1 .. i : seen[j].pid = seen[i].pid})
Closing == {i \in 1 .. Len(seen) : Rank(i) % 2 = 0}
Partner(i) == Max({j \in 1 .. i - 1 : seen[j].pid = seen[i].pid})

(* The positions of the pairs that took, in exact arithmetic, longer than  *)
(* the deadline.                                                           *)
LatePairs ==
  {i \in Closing :
     /\ DeadlineOf(seen[i].pid) # 0
     /\ seen[i].ts > seen[Partner(i)].ts + DeadlineOf(seen[i].pid)}

Definition(i) ==
  LET start == seen[Partner(i)]
      took == seen[i].ts - start.ts
      limit == DeadlineOf(start.pid)
  IN [ts |-> start.ts, pid |-> start.pid, deadline |-> limit,
      actual |-> took, overrun |-> took - limit]

(* AnalyzeEvents reports exactly the late pairs, in the order in which     *)
(* they end, whatever other pids do in between and whatever earlier calls  *)
(* left behind.                                                            *)
ViolationsAsDefined ==
  analyzing =>
    \E ends \in [1 .. Len(violations) -> LatePairs] :
      /\ Lists(ends, LatePairs)
      /\ \A k \in 1 .. Len(violations) : violations[k] = Definition(ends[k])

(* If the time stamps of a pid never go back, no part of its time is       *)
(* charged twice: of two reports the earlier one ends before the later one *)
(* begins.                                                                 *)
Of(p) == {i \in 1 .. Len(seen) : seen[i].pid = p}
Ordered(p) == \A i, j \in Of(p) : i < j => seen[i].ts <= seen[j].ts
ChargedOnce ==
  analyzing =>
    \A k, l \in 1 .. Len(violations) :
      k < l /\ violations[k].pid = violations[l].pid /\ Ordered(violations[k].pid)
        => violations[k].ts + violations[k].actual <= violations[l].ts

(* "Pair events: function entry/exit or sched_switch pairs": what is       *)
(* reported as a pair late is a function entry and the exit after it.      *)
ReportsAreSections ==
  [][\A e \in Event :
       AnalyzeSecond(e) /\ violations' # violations
         => /\ last_event[e.pid].kind = "kFunctionEntry"
            /\ e.kind = "kFunctionExit"]_monitorVars
=============================================================================
