------------------------------ MODULE TraceDump ------------------------------
(***************************************************************************)
(* The way of a trace through the command-line tools: main of              *)
(* tools/rt_trace.cc captures events and writes them to a dump, main of    *)
(* tools/rt_analyze.cc reads the dump and adds the times between events to *)
(* a LatencyAnalyzer.  The tools run one after the other; the capture is   *)
(* seen from outside, as FtraceReader shows it is: events that come while  *)
(* the ring is full are dropped and counted, the others read in order.     *)
(* Of an event only its time, cpu and pid are kept.                        *)
(***************************************************************************)
EXTENDS TraceTypes, LatencyAnalyzer

CONSTANTS
  EventLimits,  \* the values of --events, and of --samples
  BufferSizes,  \* the values of --buffer-size
  MaxLive       \* bound on the events of a live capture

ASSUME DumpAssumption ==
  /\ MaxLive \in Nat /\ EventLimits \subseteq 0 .. Word - 1 /\ BufferSizes \subseteq Nat
  /\ Word <= Highest

VARIABLES
  step,        \* where the tools are
  max_events,  \* --events, or num_samples of rt_analyze run by itself
  mask,        \* mask_ of the ring
  generated,   \* history: the events generated or parsed from trace_pipe
  ring,        \* the events in the ring
  dropped,     \* DroppedEvents()
  captured,    \* events, what ReadEvents returned
  dump,        \* the dump: the lines rt_trace has written
  timestamps,  \* what rt_analyze has loaded, line by line
  loaded       \* how many lines it has read

captureVars == <<max_events, mask, generated, ring, dropped>>
analyzeVars == <<timestamps, loaded, analyzerVars>>
dumpVars == <<step, captureVars, captured, dump, analyzeVars>>

(* The smallest power of two not below v.                                  *)
NextPowerOfTwo(v) == Min({p \in {2 ^ i : i \in 0 .. v} : p >= v})

-----------------------------------------------------------------------------
(* A line, as operator>> reads it: white space separates the words, and a  *)
(* word has the number it begins with, or None.  A cpu below 100 is padded *)
(* inside its bracket, which makes two words of it.                        *)
None == -1
Header == <<None, None, None>>   \* a line that begins with #
CpuWords(cpu) == IF cpu < 100 THEN <<None, cpu>> ELSE <<None>>
Line(e) == <<e.ts>> \o CpuWords(e.cpu) \o <<e.pid, None>>

ParseTraceLine(line) ==
  [ok |-> line[1] # None /\ line[3] # None, ts |-> line[1], pid |-> line[3]]

-----------------------------------------------------------------------------
DumpInit ==
  /\ step = "start" /\ max_events = 0 /\ mask = 0
  /\ generated = <<>> /\ ring = <<>> /\ dropped = 0
  /\ captured = <<>> /\ dump = <<>>
  /\ timestamps = <<>> /\ loaded = 0
  /\ AnalyzerInit

(* The arguments, the tracer, and which mode it is in.                     *)
DumpBegin(n, size, mode) ==
  /\ step = "start"
  /\ max_events' = n
  /\ mask' = NextPowerOfTwo(size) - 1
  /\ step' = mode
  /\ UNCHANGED <<generated, ring, dropped, captured, dump, analyzeVars>>

PushUncounted(e) ==
  /\ generated' = Append(generated, e)
  /\ ring' = IF Len(ring) > mask THEN ring ELSE Append(ring, e)
  /\ UNCHANGED dropped
  /\ UNCHANGED <<step, max_events, mask, captured, dump, analyzeVars>>

Push(e) ==
  /\ generated' = Append(generated, e)
  /\ ring' = IF Len(ring) > mask THEN ring ELSE Append(ring, e)
  /\ dropped' = IF Len(ring) > mask THEN dropped + 1 ELSE dropped
  /\ UNCHANGED <<step, max_events, mask, captured, dump, analyzeVars>>

(* Synthetic events are a fixed time apart.                                *)
Generate(cpu) ==
  /\ step = "simulated" /\ Len(generated) < max_events
  /\ Push([ts |-> Len(generated), cpu |-> cpu, pid |-> 1])

(* Live events of several cpus, in the order trace_pipe has them.          *)
Capture(ts, cpu) ==
  /\ step = "live" /\ Len(generated) < MaxLive
  /\ Push([ts |-> ts, cpu |-> cpu, pid |-> 1])

StartFails ==
  /\ step = "live" /\ generated = <<>>
  /\ step' = "failed"
  /\ UNCHANGED <<captureVars, captured, dump, analyzeVars>>

(* GenerateSyntheticEvents has returned, or the time is over and Stop has: *)
(* ReadEvents.                                                             *)
ReadEvents ==
  /\ step \in {"live", "simulated"}
  /\ step = "simulated" => Len(generated) = max_events
  /\ captured' = SubSeq(ring, 1, Min({max_events, Len(ring)}))
  /\ ring' = SubSeq(ring, Len(captured') + 1, Len(ring))
  /\ step' = "write"
  /\ UNCHANGED <<max_events, mask, generated, dropped, dump, analyzeVars>>

OpenFails ==
  /\ step = "write" /\ step' = "failed"
  /\ UNCHANGED <<captureVars, captured, dump, analyzeVars>>

WriteDump ==
  /\ step = "write" /\ step' = "load"
  /\ dump' = <<Header, Header, Header, Header>>
               \o [k \in 1 .. Len(captured) |-> Line(captured[k])]
  /\ UNCHANGED <<captureVars, captured, analyzeVars>>

InputFails ==
  /\ step = "load" /\ loaded = 0 /\ step' = "failed"
  /\ UNCHANGED <<captureVars, captured, dump, analyzeVars>>

LoadAll(line) ==
  /\ step = "load" /\ loaded < Len(dump) /\ line = dump[loaded + 1]
  /\ loaded' = loaded + 1
  /\ timestamps' = Append(timestamps, IF line[1] = None THEN 0 ELSE line[1])
  /\ UNCHANGED <<step, captureVars, captured, dump, samples, stats>>

(* rt_analyze: a turn of the loop over the lines, a turn of the loop over  *)
(* the time stamps.                                                        *)
Load(line) ==
  /\ step = "load" /\ loaded < Len(dump) /\ line = dump[loaded + 1]
  /\ loaded' = loaded + 1
  /\ timestamps' = IF ParseTraceLine(line).ok
                   THEN Append(timestamps, ParseTraceLine(line).ts)
                   ELSE timestamps
  /\ UNCHANGED <<step, captureVars, captured, dump, samples, stats>>

AddLatency ==
  LET i == Len(samples) + 1
  IN /\ step = "load" /\ loaded = Len(dump) /\ i < Len(timestamps)
     /\ AddSample((timestamps[i + 1] - timestamps[i]) % Word)
     /\ UNCHANGED <<step, captureVars, captured, dump, timestamps, loaded>>

(* rt_analyze without --input makes up its samples.                        *)
AnalyzeSynthetic(n) ==
  /\ step = "start" /\ step' = "synthetic"
  /\ max_events' = n
  /\ UNCHANGED <<mask, generated, ring, dropped, captured, dump, analyzeVars>>

AddSynthetic(latency) ==
  /\ step = "synthetic" /\ Len(samples) < max_events
  /\ AddSample(latency)
  /\ UNCHANGED <<step, captureVars, captured, dump, timestamps, loaded>>

PrintSynthetic ==
  /\ step = "synthetic" /\ Len(samples) = max_events
  /\ step' = "printed"
  /\ UNCHANGED <<captureVars, captured, dump, analyzeVars>>

PrintReport ==
  /\ step = "load" /\ loaded = Len(dump) /\ Len(samples) + 1 >= Len(timestamps)
  /\ step' = "done"
  /\ UNCHANGED <<captureVars, captured, dump, analyzeVars>>

DumpOver == step \in {"done", "printed", "failed"} /\ UNCHANGED dumpVars

DumpNext ==
  \/ \E n \in EventLimits, size \in BufferSizes, mode \in {"simulated", "live"} :
       DumpBegin(n, size, mode)
  \/ \E cpu \in Cpus : Generate(cpu)
  \/ \E ts \in Times, cpu \in Cpus : Capture(ts, cpu)
  \/ StartFails
  \/ ReadEvents
  \/ OpenFails
  \/ WriteDump
  \/ \E line \in Range(dump) : Load(line)
  \/ AddLatency
  \/ PrintReport
  \/ InputFails
  \/ \E n \in EventLimits : AnalyzeSynthetic(n)
  \/ \E l \in Latencies : AddSynthetic(l)
  \/ PrintSynthetic
  \/ DumpOver

DumpSpec == DumpInit /\ [][DumpNext]_dumpVars

-----------------------------------------------------------------------------
DumpTypeOK ==
  /\ step \in {"start", "simulated", "live", "write", "load", "done",
              "synthetic", "printed", "failed"}
  /\ mask \in Nat /\ Len(ring) <= mask + 1
  /\ timestamps \in Seq(0 .. Word - 1)

(* When the report is printed, its samples are the times between the       *)
(* events rt_trace read, one fewer than these, and what the two tools said *)
(* accounts for each event: it was analysed, dropped, or beyond --events.  *)
LatenciesAsCaptured ==
  step = "done" =>
    /\ timestamps = [k \in 1 .. Len(captured) |-> captured[k].ts]
    /\ Len(samples) = IF captured = <<>> THEN 0 ELSE Len(captured) - 1
    /\ \A k \in 1 .. Len(samples) :
         (captured[k].ts + samples[k]) % Word = captured[k + 1].ts
    /\ Len(timestamps) + dropped + Len(ring) = Len(generated)
=============================================================================
