------------------------------ MODULE SchedTool ------------------------------
(***************************************************************************)
(* main of tools/rt_sched.cc: it makes up runs of a few tasks, hands them  *)
(* to a DeadlineMonitor, makes up context switches, hands them to a        *)
(* PriorityInversionDetector, and prints what the two found.  The random   *)
(* numbers are any of small sets; names and printing are left out.         *)
(***************************************************************************)
EXTENDS DeadlineMonitor, PriorityInversionDetector

CONSTANTS
  NumTasks,      \* tasks that take turns running
  RunTimes,      \* the values of exec
  Gap,           \* the pause between two runs: 1000 ns in the code
  Intervals,     \* the times between two switches
  Base,          \* base_ns
  NumSamples     \* the values of --samples

ASSUME ToolAssumption ==
  /\ NumTasks \in Nat \ {0} /\ NumSamples \subseteq Nat
  /\ RunTimes \subseteq 1 .. Word - 1 /\ Intervals \subseteq Nat \ {0}
  /\ Gap \in Nat /\ Base \in Nat

VARIABLES
  tool_step,   \* where main is
  samples_left,
  clock,       \* ts of the generator
  trace,       \* trace_events
  runs,        \* history: when each run starts and how long it takes
  fed          \* how many events the monitor has been given

generatorVars == <<samples_left, clock, trace, runs>>
toolVars == <<tool_step, generatorVars, fed, monitorVars, detectorVars>>

-----------------------------------------------------------------------------
ToolInit ==
  /\ tool_step = "start"
  /\ samples_left = 0 /\ clock = Base /\ trace = <<>> /\ runs = <<>> /\ fed = 0
  /\ MonitorInit /\ DetectorInit

ToolBegin(deadline, n) ==
  /\ tool_step = "start"
  /\ SetDefaultDeadline(deadline)
  /\ samples_left' = n
  /\ tool_step' = "runs"
  /\ UNCHANGED <<clock, trace, runs, fed, detectorVars>>

PidOf(i) == 1 + (i % NumTasks)   \* pids[i % num_tasks]
EntryAt(i, ts) == [ts |-> ts, pid |-> PidOf(i), kind |-> "kFunctionEntry"]
ExitAt(i, ts) == [ts |-> ts, pid |-> PidOf(i), kind |-> "kFunctionExit"]

GenerateRunOverlapping(exec) ==
  LET i == Len(runs)
  IN /\ tool_step = "runs" /\ samples_left > 0
     /\ trace' = trace \o <<EntryAt(i, clock), ExitAt(i + 1, clock + exec)>>
     /\ runs' = Append(runs, [start |-> clock, took |-> exec])
     /\ clock' = clock + exec + Gap
     /\ samples_left' = samples_left - 1
     /\ UNCHANGED <<tool_step, fed, monitorVars, detectorVars>>

GenerateRun(exec) ==
  LET i == Len(runs)
  IN /\ tool_step = "runs" /\ samples_left > 0
     /\ trace' = trace \o <<EntryAt(i, clock), ExitAt(i, clock + exec)>>
     /\ runs' = Append(runs, [start |-> clock, took |-> exec])
     /\ clock' = clock + exec + Gap
     /\ samples_left' = samples_left - 1
     /\ UNCHANGED <<tool_step, fed, monitorVars, detectorVars>>

MonitorBegin ==
  /\ tool_step = "runs" /\ samples_left = 0
  /\ AnalyzeBegin
  /\ tool_step' = "monitor"
  /\ UNCHANGED <<generatorVars, fed, detectorVars>>

MonitorEvent(e) ==
  /\ tool_step = "monitor" /\ fed < Len(trace) /\ e = trace[fed + 1]
  /\ fed' = fed + 1
  /\ AnalyzeFirst(e) \/ AnalyzeSecond(e)
  /\ UNCHANGED <<tool_step, generatorVars, detectorVars>>

(* AnalyzeEvents has returned; the switches begin at base_ns again.        *)
MonitorReturn ==
  /\ tool_step = "monitor" /\ fed = Len(trace)
  /\ AnalyzeReturn
  /\ tool_step' = "switches"
  /\ clock' = Base /\ samples_left' = Len(runs)
  /\ UNCHANGED <<trace, runs, fed, detectorVars>>

SwitchesBegin ==
  /\ tool_step = "switches" /\ phase = "idle"
  /\ DetectBegin /\ phase' = "sched"
  /\ UNCHANGED <<tool_step, generatorVars, fed, monitorVars>>

(* Tasks drawn at random: the task switched out need not be the one that   *)
(* was switched to.                                                        *)
DetectSwitch(cpu, prev, next, interval) ==
  /\ tool_step = "switches" /\ samples_left > 0
  /\ AnalyzeStep([ts |-> clock, cpu |-> cpu, prev |-> prev, next |-> next])
  /\ clock' = clock + interval
  /\ samples_left' = samples_left - 1
  /\ UNCHANGED <<tool_step, trace, runs, fed, monitorVars>>

Summary ==
  /\ tool_step = "switches" /\ samples_left = 0
  /\ Return
  /\ tool_step' = "done"
  /\ UNCHANGED <<generatorVars, fed, monitorVars>>

ToolOver == tool_step = "done" /\ UNCHANGED toolVars

ToolNext ==
  \/ \E d \in Deadlines, n \in NumSamples : ToolBegin(d, n)
  \/ \E exec \in RunTimes : GenerateRun(exec)
  \/ MonitorBegin
  \/ \E e \in Range(trace) : MonitorEvent(e)
  \/ MonitorReturn
  \/ SwitchesBegin
  \/ \E cpu \in Cpus, prev, next \in Tasks, t \in Intervals :
       DetectSwitch(cpu, prev, next, t)
  \/ Summary
  \/ ToolOver

ToolSpec == ToolInit /\ [][ToolNext]_toolVars

-----------------------------------------------------------------------------
(* What the tool prints is what it made up: the runs longer than the       *)
(* deadline, each with its task, its start and the time it took, although  *)
(* all tasks share one monitor; and no inversion lasts longer than the     *)
(* time since the switches began.                                          *)
LateRuns ==
  {i \in 1 .. Len(runs) :
     default_deadline_ns # 0 /\ runs[i].took > default_deadline_ns}
SummaryTrue ==
  tool_step \in {"switches", "done"} =>
    /\ \E late \in [1 .. Len(violations) -> LateRuns] :
         /\ Lists(late, LateRuns)
         /\ \A k \in 1 .. Len(violations) :
              LET v == violations[k]
                  run == runs[late[k]]
              IN <<v.pid, v.ts, v.actual>> = <<PidOf(late[k] - 1), run.start, run.took>>
    /\ \A k \in 1 .. Len(inversions) :
         Base + inversions[k].duration <= inversions[k].ts
=============================================================================
