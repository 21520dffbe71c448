--------------------- MODULE PriorityInversionDetector ---------------------
(***************************************************************************)
(* PriorityInversionDetector of src/sched/sched_analyzer.cc.  Analyze goes *)
(* through context switches, keeps for each CPU the task switched to and   *)
(* since when, and reports each switch from a task to one of lower         *)
(* priority (a larger number).  AnalyzeTraceEvents makes a switch of each  *)
(* sched_switch event and whatever event follows it.                       *)
(*                                                                         *)
(* The argument is chosen one element at a time, in any order.  The first  *)
(* loop of AnalyzeTraceEvents only builds the argument of Analyze, so the  *)
(* two loops run here as one.  The object is used by one thread.           *)
(*                                                                         *)
(* waiting_pids, running_prio and running_comm, which nothing reads, and   *)
(* the names of the tasks are left out.  Mistakes an edit could introduce  *)
(* are kept, under a name of their own, beside what they would spoil.      *)
(***************************************************************************)
EXTENDS TraceTypes, SequencesExt

CONSTANTS
  Tasks,        \* the pid and priority pairs in the events
  MaxGiven      \* bound on the elements passed to one call

ASSUME DetectorAssumption ==
  /\ \A task \in Tasks : task.pid \in Int /\ task.prio \in Int
  /\ MaxGiven \in Nat

VARIABLES
  inversions,
  cpu_states,   \* cpu_states: a new element is all zeros, like FreshCPU
  phase,        \* "idle", or the call running: "sched" is Analyze,
                \* "trace" AnalyzeTraceEvents
  given         \* history: the argument so far

detectorVars == <<inversions, cpu_states, phase, given>>

SchedEvent == [ts : Times, cpu : Cpus, prev : Tasks, next : Tasks]
TraceEvent == [ts : Times, cpu : Cpus, task : Tasks, switch : BOOLEAN]
FreshCPU == [pid |-> 0, start |-> 0]

-----------------------------------------------------------------------------
InvertedOrEqual(e) == 0 < e.prev.prio /\ e.prev.prio <= e.next.prio

(* A lower number is a higher priority; 0 counts as unknown. *)
Inverted(e) == 0 < e.prev.prio /\ e.prev.prio < e.next.prio

InversionSigned(e, state) ==
  [ts |-> e.ts, high |-> e.prev, low |-> e.next,
   duration |-> IF state.pid = e.prev.pid /\ state.start > 0
                THEN e.ts - state.start ELSE 0]

Inversion(e, state) ==
  [ts |-> e.ts, high |-> e.prev, low |-> e.next,
   duration |-> IF state.pid = e.prev.pid /\ state.start > 0
                THEN (e.ts - state.start) % Word ELSE 0]

DetectSharedState(e) ==
  /\ inversions' = IF Inverted(e)
                   THEN Append(inversions, Inversion(e, cpu_states[e.cpu]))
                   ELSE inversions
  /\ cpu_states' = [c \in Cpus |-> [pid |-> e.next.pid, start |-> e.ts]]

(* The body of the loop of Analyze. *)
Detect(e) ==
  /\ inversions' = IF Inverted(e)
                   THEN Append(inversions, Inversion(e, cpu_states[e.cpu]))
                   ELSE inversions
  /\ cpu_states' = [cpu_states EXCEPT ![e.cpu] =
                      [pid |-> e.next.pid, start |-> e.ts]]

(* The switch AnalyzeTraceEvents sees in an event and the one after it. *)
SwitchOf(e, following) ==
  [ts |-> e.ts, cpu |-> e.cpu, prev |-> e.task, next |-> following.task]

-----------------------------------------------------------------------------
DetectorInit ==
  /\ inversions = <<>>
  /\ cpu_states = [c \in Cpus |-> FreshCPU]
  /\ phase = "idle"
  /\ given = <<>>

DetectBegin ==
  /\ phase = "idle"
  /\ phase' \in {"sched", "trace"}
  /\ inversions' = <<>>
  /\ cpu_states' = [c \in Cpus |-> FreshCPU]
  /\ given' = <<>>

AnalyzeStep(e) ==
  /\ phase = "sched"
  /\ Len(given) < MaxGiven
  /\ Detect(e)
  /\ given' = Append(given, e)
  /\ UNCHANGED phase

TraceStep(e) ==
  /\ phase = "trace"
  /\ Len(given) < MaxGiven
  /\ IF given # <<>> /\ Last(given).switch
     THEN Detect(SwitchOf(Last(given), e))
     ELSE UNCHANGED <<inversions, cpu_states>>
  /\ given' = Append(given, e)
  /\ UNCHANGED phase

Return ==
  /\ phase # "idle"
  /\ phase' = "idle"
  /\ given' = <<>>
  /\ UNCHANGED <<inversions, cpu_states>>

DetectorReset ==
  /\ phase = "idle"
  /\ inversions' = <<>>
  /\ cpu_states' = [c \in Cpus |-> FreshCPU]
  /\ UNCHANGED <<phase, given>>

DetectorNext ==
  \/ DetectBegin
  \/ \E e \in SchedEvent : AnalyzeStep(e)
  \/ \E e \in TraceEvent : TraceStep(e)
  \/ Return
  \/ DetectorReset

DetectorSpec == DetectorInit /\ [][DetectorNext]_detectorVars

-----------------------------------------------------------------------------
(* Type invariant of the members of PriorityInversionDetector::Impl.       *)
DetectorTypeOK ==
  /\ inversions \in Seq([ts : TimeStamps, high : Tasks, low : Tasks,
                         duration : TimeStamps])
  /\ cpu_states \in [Cpus -> [pid : {0} \cup {task.pid : task \in Tasks},
                              start : TimeStamps]]
  /\ phase \in {"idle", "sched", "trace"}
  /\ \A i \in 1 .. Len(given) : given[i].ts \in TimeStamps /\ given[i].cpu \in Cpus

(* The context switches the call has been given so far, by position: in a  *)
(* trace, every sched_switch event that has a successor.                   *)
SwitchAt(i) == IF phase = "sched" THEN given[i] ELSE SwitchOf(given[i], given[i + 1])
Switches == IF phase = "sched" THEN 1 .. Len(given)
            ELSE {i \in 1 .. Len(given) - 1 : given[i].switch}
Earlier(i) ==
  {j \in Switches : j < i /\ SwitchAt(j).cpu = SwitchAt(i).cpu}
(* The switch that gave its CPU to the task the i-th one takes it from.    *)
Resumed(i) ==
  {j \in Earlier(i) : /\ \A l \in Earlier(i) : l <= j
                      /\ SwitchAt(j).next.pid = SwitchAt(i).prev.pid}
Reported ==
  {i \in Switches : SwitchAt(i).prev.prio \in 1 .. SwitchAt(i).next.prio - 1}
Inverting(i) ==
  LET began == {SwitchAt(j).ts : j \in Resumed(i)} \ {0}
  IN [ts |-> SwitchAt(i).ts, high |-> SwitchAt(i).prev, low |-> SwitchAt(i).next,
      duration |-> IF began = {} THEN 0 ELSE (SwitchAt(i).ts - Max(began)) % Word]

(* Exactly the switches from a task of known priority to one of lower      *)
(* priority are reported, in their order.  The duration counts from the    *)
(* last switch on the same CPU, if that was to the task switched out (a    *)
(* time stamp of 0 passes for unknown), whatever the other CPUs and        *)
(* earlier calls did.                                                      *)
InversionsAsDefined ==
  phase # "idle" =>
    \E at \in [1 .. Len(inversions) -> Reported] :
      /\ Lists(at, Reported)
      /\ \A k \in 1 .. Len(inversions) : inversions[k] = Inverting(at[k])

(* If time does not go back on any CPU, the durations reported are         *)
(* disjoint on each CPU and lie within the time its switches span: each    *)
(* counts back at most to the switch before it on that CPU.                *)
Monotone ==
  \A i, j \in Switches :
    i < j /\ SwitchAt(i).cpu = SwitchAt(j).cpu => SwitchAt(i).ts <= SwitchAt(j).ts
DurationsDisjoint ==
  phase # "idle" /\ Monotone =>
    \E at \in [1 .. Len(inversions) -> Reported] :
      /\ Lists(at, Reported)
      /\ \A k \in 1 .. Len(inversions) :
           /\ Earlier(at[k]) = {} => inversions[k].duration = 0
           /\ \A j \in Earlier(at[k]) :
                SwitchAt(j).ts + inversions[k].duration <= SwitchAt(at[k]).ts

(* "Duration of inversion": no part of it is time during which the task of *)
(* high priority was itself running.                                       *)
DurationIsInversion ==
  phase = "sched" /\ Monotone =>
    \A k \in 1 .. Len(inversions) : \A i \in 1 .. Len(given) :
      \A j \in Resumed(i) :
        given[i].ts = inversions[k].ts /\ given[i].prev = inversions[k].high
          => inversions[k].duration = 0
=============================================================================
