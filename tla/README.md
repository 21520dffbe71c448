# A TLA+ model of the RT Diagnostic Toolchain

The toolchain captures kernel trace events, moves them through a lock-free ring
buffer, and analyses them for latency, missed deadlines and priority
inversions. This directory holds TLA+ specifications of the parts whose
correctness is hard to test, the TLC configurations that check them on small
instances, and proofs, checked by TLAPS, that the same properties hold for every
value of the constants: of the ring buffer under both policies, its memory
orders, the reader and the trace buffer on top of it, the parser and the way from
it to the detector, the deadline monitor, the inversion detector and the tool that drives them, the statistics, the dump that
passes between two tools, the logger and the tick conversions.

## 1. Inventory

Paths are relative to the repository.

| Component | Code | State | Operations | Used by / calls |
|---|---|---|---|---|
| Ring buffer | `include/rtdiag/ring_buffer.h` | atomics `head_`, `tail_`, `overflow_count_`; slots `buffer_`; constant `mask_`, `policy_` | `Push`, `Pop`, `Size`/`Empty`/`Full`, `OverflowCount`, `Reset`, `Drain` | one producer thread and one consumer thread share it without locks |
| Ftrace reader | `src/tracing/ftrace_reader.{h,cc}` | atomics `running_`, `event_count_`; `reader_thread_`, `callback_`, `simulated_`; owns a ring (always `kDrop`) | `Start`, `Stop`, destructor, `ReadEvents`, `GenerateSyntheticEvents`, `SetCallback`, counters; the thread bodies `ReaderLoop`, `SimulatedLoop` | owner thread and reader thread meet in `running_`, the ring, the counters and the callback |
| Tracer facade | `include/rtdiag/tracer.h`, `src/tracing/tracer.cc` | a reader, a configuration, an event count nobody reads | forwards every call to the reader | `rt_trace`, tests |
| Trace buffer | `src/tracing/trace_buffer.{h,cc}` | a ring | forwards; `DrainFiltered` | integration test, benchmarks |
| Event parser | `src/tracing/event_parser.{h,cc}` | none | `ClassifyEvent`, `ExtractCPU`, `ExtractTimestamp`, `ExtractCommPid`, `ParseFtraceLine`, `ParseSchedSwitch`, `ParseFtraceOutput` | `ReaderLoop` |
| Deadline monitor | `src/sched/sched_analyzer.cc` | deadlines per pid, default deadline, last unpaired event per pid, violations | `SetDeadline`, `SetDefaultDeadline`, `CheckDeadline`, `AnalyzeEvents`, `Reset` | `rt_sched` |
| Priority-inversion detector | `src/sched/sched_analyzer.cc` | running task per CPU, inversions | `Analyze`, `AnalyzeTraceEvents`, `Reset` | `rt_sched` |
| Statistics | `src/analysis/statistics.h`, `histogram.{h,cc}`, `latency_analyzer.{h,cc}` | running mean and squares; bucket boundaries and counts; the samples | `RunningStats` (`Add`, `Merge`, moments), `Histogram` (`FindBucket`, `Add`, `Merge`, `Reset`), `LatencyAnalyzer` (`AddSample`, `ComputeStats`, `RenderHistogram`, `Reset`) | `rt_analyze`, benchmarks |
| Logger | `src/utils/logger.{h,cc}` | level, file handle, mutex | `Log`, `SetLevel`, `SetOutput`, `Close`, destructor | every component, every thread |
| Timestamps | `src/utils/timestamp.{h,cc}` | calibrated TSC frequency | `GetTSCFrequency`, `TSCToNanos`, scope timer | reader, benchmarks |
| Command-line tools | `tools/` | the trace captured, the dump, the samples loaded | `rt_trace` (capture, dump), `rt_analyze` (load, report), `rt_sched` (synthetic traces, both analyses) | the library; `rt_analyze` reads what `rt_trace` wrote |
| Benchmarks, tests, scripts | `benchmarks/`, `tests/`, `scripts/` | none | clients of the library | the library |

What is hard: two threads share the ring with nothing but the order of their
atomic accesses; the overflow policy `kOverwrite` lets the producer move the
consumer's counter; the life of the reader thread is decided by two threads
(`Stop` and a failing `ReaderLoop`); a blocked `getline` has to be stopped; the
owner is a second producer when it generates events; the analyzers read long
event sequences whose mistakes show only in particular orders.
`PROJECT.json` lists each hazard at its line with the properties that guard it.

What makes each component correct:

* ring: no two threads touch a slot at once; what comes out is what went in, in
  order, once; every lost event is counted; `Size` is a size; a polling
  consumer gets everything;
* reader: one producer at a time; counters agree with the ring; `IsRunning()`
  tells whether the ring and the callback are free; `Stop` returns and joins;
  capture, stop, read misses nothing;
* trace buffer: a filtered drain leaves out nothing that matches;
* parser: an event has the type, time, cpu, task and priority the kernel wrote;
* analyzers: violations and inversions reported are exactly those of a
  declarative definition over the event sequence;
* statistics: the streaming result equals the definition over all samples;
* tools: the report is about the events that were captured, and accounts for
  the rest;
* logger: the files follow stderr, and none is leaked, closed twice or used
  after it is closed, although `Close`, alone of its operations, takes no mutex;
* timestamps: the two conversions agree with each other and with the clock.

## 2. Modules

| Module | What it is |
|---|---|
| `EventQueue` | abstract promise: a bounded FIFO queue that rejects the newest or evicts the oldest event, and counts it |
| `RingBuffer` | `RingBuffer<T>`, one action per access to an atomic or a slot, with its properties and the refinement mapping to `EventQueue` |
| `RingOrders` | the same ring's memory orders: loads that return older stores, and what acquire and release make known; it too is mapped to `EventQueue` |
| `FtraceReader` | the reader's two threads on top of `RingBuffer` (by `EXTENDS`: each ring access of the reader is an action of the ring) |
| `TraceBuffer` | `TraceBuffer` as a client of `EventQueue` |
| `TraceTypes` | the constants the analysers and tools share: width of a time stamp, its values, the cpus |
| `EventParser` | `event_parser.cc` over lines of tokens |
| `LiveInversions` | the way from `trace_pipe` through the parser to `AnalyzeTraceEvents`: `EventParser` and `PriorityInversionDetector` composed |
| `DeadlineMonitor` | the deadline monitor, its loop one event at a time, against a declarative definition of the violations |
| `PriorityInversionDetector` | the inversion detector, likewise |
| `SchedTool` | `main` of `rt_sched` driving the two |
| `RunningStats`, `Histogram` | the accumulator over exact rationals; the bucket search, merging and clearing |
| `LatencyAnalyzer` | the analyser built on them, and its properties |
| `TraceDump` | `rt_trace` writing a dump and `rt_analyze` reading it into a `LatencyAnalyzer` |
| `Logger` | the logger under several threads |
| `Timestamp` | tick conversion and the calibration kept in a static |
| `MCRingBuffer`, `MCFtraceReader`, `MCPriorityInversionDetector`, `MCEventParser`, `MCLiveInversions` | sets of threads, tasks and lines for TLC |
| `MCParts` | the parts that share no state, run in one model: each behaviour picks one |
| `SlotArithmetic` | lemmas on remainders and `Append` that several proofs cite |
| `Folding` | induction over the numbers, and what a fold over a sequence is, for any operator |
| `RingBufferProofs` | theorems about `RingBuffer`: kDrop between two threads, kOverwrite in one, and the refinement of `EventQueue` by both |
| `TracingProofs` | theorems about `RingOrders`, `TraceBuffer`, `EventParser` and `LiveInversions` |
| `FtraceReaderProofs` | theorems about `FtraceReader`, from those of the ring |
| `SchedProofs` | theorems about `DeadlineMonitor`, `PriorityInversionDetector` and `SchedTool` |
| `AnalysisProofs` | theorems about `RunningStats`, `Histogram`, `LatencyAnalyzer` and `TraceDump` |
| `UtilsProofs` | theorems about `Logger` and `Timestamp` |

Definitions that stand beside the real ones with a longer name
(`PushUncounted`, `SetOutputLockKeeping`, `MergedAtOldCount`, ...) are plausible
mistakes, listed in `PROJECT.json`, that a property is shown to catch; no
specification uses them.

### RingBuffer and RingOrders

Each thread `t` has a program counter `pc[t]` and the locals of the call it is
in (`lhead`, `ltail`, `item`); `size[t]` is what its last `Size` returned.

| Code | Actions |
|---|---|
| `Push` | `PushLoadHead` (call; `head_` load), `PushLoadTail` (`tail_` load and the full test), then `PushDrop` (count, return false) or `PushEvict`, `PushCount` (kOverwrite), then `PushWrite`, `PushCopy` (the slot), `PushPublish` (`head_` store) |
| `Pop` | `PopLoadTail`, `PopLoadHead` (and the empty test), `PopRead`, `PopPublish` |
| `Size`, `Empty`, `Full` | `SizeLoadHead`, `SizeLoadTail` |
| `Reset` | `Reset`, only when every thread is idle, as its comment demands |

A slot holds `Torn` while it is being copied in: what an overlapping reader
would obtain is undefined in C++, and `Torn` stands for any value. `x & mask_`
is `x % Capacity`; differences are taken modulo `Word`. The counters do not
wrap because `MaxPush`, the bound on pushes, is below `Word` (2^64 in the code).
`offered`, `base`, `accepted` and `delivered` are history variables: the k-th
event ever pushed is the number k.

`RingBuffer` interleaves the accesses as if each store were seen at once.
`RingOrders` justifies that for one producer and one consumer under kDrop: a
load may return any store not older than the one its thread saw before
(coherence), and only a release store returned by an acquire load tells the
loading thread of the slot accesses before it. `PushLoad`, `PushWrite`,
`PushPublish`, `PopLoad`, `PopRead`, `PopPublish` are the accesses; `HeadStore`,
`HeadLoad`, `TailStore`, `TailLoad` the orders of lines 55, 69, 76 and 83. With
these orders each copy of a slot happens before the next; with the tail store
relaxed the run finds a data race, with the head load relaxed an event received
out of order or incomplete. `FIFO` maps this ring to `EventQueue`: an event enters
the queue with the store to `head_` and leaves it with the copy out of its slot. A
refused push is no step of the queue there: with an old `tail_` it happens while
there is room.

### FtraceReader

`Api` is the thread that owns the object and `Reader` the one `reader_thread_`
runs. `rpc` and `apc` say where they are in `ReaderLoop`/`SimulatedLoop` and in
the public functions; inside a `Push` or `Pop` the ring's `pc` says the rest.
`thread` is the state of the `std::thread` object: not joinable, live, or
finished and still joinable; overwriting or destroying it while joinable is
`std::terminate`. Opening `trace_pipe` in the loop may fail although the test in
the constructor succeeded. `ReaderGetline` is the environment: a line that
parses, a line that does not, or end of file. `ReadStep` is `Drain`.

Assumed of the owner, and nowhere checked by the code: it calls
`GenerateSyntheticEvents` and `SetCallback` only while `IsRunning()` is false.
The models show that this is enough, and that without the join of `Stop` it
would not be. The callback is external and does not call back. One thread owns
the object. `Counts` are the `count` and `max_count` arguments, `MaxStarts`
bounds the threads started.

### TraceBuffer

`Offer` is the producer, at any moment; `Pop`, `DrainBegin`, `DrainTake`,
`DrainSkip` (the event a filter leaves out), `DrainReturn` and `BufferReset` the
consumer, one turn of the loop per action. The ring is `EventQueue`, which
`RingBuffer` is proved to implement under kDrop.

### EventParser and LiveInversions

A line is a sequence of tokens as fine as the parser can tell apart, so that
`irq_entry` can be found inside `softirq_entry`, a dash inside a task name and a
colon before the event's name. `Text` is what the kernel prints of a record
`Written`; the operators named after the functions of the source find their way
back. `ParseWritten` and `ParseOther` are a turn of `ParseFtraceOutput` (and of
the reader's loop) on such a line and on a line that is no event: a comment, the
empty line, a line cut short, the kernel's note of lost events. In
`LiveInversions` the events go to `AnalyzeTraceEvents` as they are.

`Chars` is the length of each token. `Cut` is `strncpy` into an array of a task's
name (16 bytes) or of the details (128): what is left of a name or a text is its
tokens up to the one that no longer fits, and how many characters that one has
lost. The kernel's names have at most 15 characters and so survive; the details do
not when a switch is between tasks with long names and pids. A time is what the code
takes for one: the digits and dots before the colon, of which the first dot is
the point, and either side of it may be empty.

### DeadlineMonitor, PriorityInversionDetector, SchedTool

The monitor and the detector are objects used by one thread, so a call runs to
its end. The calls that loop over a vector (`AnalyzeEvents`, `Analyze`,
`AnalyzeTraceEvents`) are a begin action, one action per element and a return
action, and the vector is chosen element by element: every trace up to the
bound, in any order, occurs. `seen` and `given` remember it for the properties.

| Code | Actions |
|---|---|
| `AnalyzeEvents` | `AnalyzeBegin` (the clears), `AnalyzeFirst` / `AnalyzeSecond` (the two branches on `last_event`), `AnalyzeReturn` |
| `SetDeadline`, `SetDefaultDeadline`, `CheckDeadline`, `Reset` | `SetDeadline`, `SetDefaultDeadline`, `CheckDeadline`, `MonitorReset` |
| `Analyze` | `DetectBegin`, `AnalyzeStep`, `Return` |
| `AnalyzeTraceEvents` | `DetectBegin`, `TraceStep`, `Return`: its first loop only builds the argument of `Analyze` and runs here together with it |
| `Reset` of the detector | `DetectorReset` |
| `main` of `rt_sched` | `ToolBegin`, `GenerateRun`, `MonitorBegin`, `MonitorEvent`, `MonitorReturn`, `SwitchesBegin`, `DetectSwitch`, `Summary` |

Time stamps are unsigned, so differences are taken modulo `Word`; the
definitions the results are compared with use exact arithmetic where the code
excludes wrapping. Three limits of the detector are in the code and in the
model: a priority of 0 counts as unknown, a time stamp of 0 too, and
`AnalyzeTraceEvents` takes the next event of the whole trace, of whatever CPU and
type, for the task switched to, as its comment announces. The first of them has
a consequence no comment mentions, which `live_inversions` shows: the parser
leaves every priority 0, so a live trace never has an inversion.

In `rt_sched` all tasks share one monitor and the random numbers are any of
small sets: the task switched out need not be the one that was switched to.

### RunningStats, Histogram, LatencyAnalyzer, TraceDump

`Added` and `Merged` are `RunningStats::Add` and `Merge` over exact rationals: the
formulas are checked, the rounding of doubles is not modelled. A fraction is kept
by its least denominator, so that equal fractions are equal records. A histogram is a
record of its boundaries (multiplied by `scale`, so that logarithmic ones are
whole), counts and total. `AddSample` and `AnalyzerReset` are the operations of
`LatencyAnalyzer` that change state; `Percentile` and `RenderedHistogram` what it
returns; `Sorted` stands for `std::sort` by what it does, the samples inserted
one after the other. The properties compare the streaming results with definitions over all
samples, in every order and for every way of splitting them in two.

`TraceDump` follows a trace through both tools: `DumpBegin`, `Generate` or
`Capture`, `ReadEvents`, `WriteDump` in `rt_trace`; `Load` (a line),
`AddLatency`, `PrintReport` in `rt_analyze`, and `AnalyzeSynthetic`,
`AddSynthetic`, `PrintSynthetic` for `rt_analyze` without a file; `StartFails`,
`OpenFails`, `InputFails` the early exits. The ring keeps `NextPowerOfTwo` of the
requested size. A line of the dump is the words `operator>>` sees: a cpu below
100 is padded inside its bracket, which makes two words of it, and four header
lines come first.

### Logger and Timestamp

`LogTest` reads the level without the mutex, `LogLock` to `Unlock` are the
critical section. `SetLevel` holds the mutex for its one store and is one action.
`SetOutput` takes it (`SetOutputLock`), runs `Close` and then `SetOutputOpen`;
`Close` is `CloseTest`, `CloseFile` and `CloseClear`. Called from outside
(`CloseCall`) it takes the same steps without the mutex, between any steps of
the other threads. `Log` and `Close` read `file_` when they test it and again
when they use it: `held` is the first value, and after a store in between either
may be used (`Handles`), the race being undefined in C++. `CloseAlone` is the
restriction under which the logger keeps its promises: `Close` runs while no
other thread is in the logger. The code neither checks it nor says so; its own
two calls are safe, `SetOutput` holding the mutex and the destructor (`Exit`) being
the last to run. The k-th line on stderr and the k-th file opened are the number
k. A `Log` that overlaps a `SetLevel` is a data race as well; it is taken to read
the old or the new level.

`GetTSCFrequency` is the initialisation of the function's static by the first
caller, with any number of ticks in any number of nanoseconds. `TSCToNanos` has
128 bits for the product, `TSCToNanosSplit` is the fallback without.

## 3. What TLC checks

| Run | Shows | Bounds |
|---|---|---|
| `ring_drop` | kDrop, one producer, one consumer, both calling `Size`, the consumer also `Reset`: types, no data race, exactly-once delivery in order, loss accounting, `Size` in range, held slots stable, refinement of `EventQueue`, and every accepted event delivered | 2 slots, 5 pushes: the slots are reused twice and the ring is full, empty and half full at each position |
| `ring_overwrite_one_thread` | kOverwrite in one thread, the use the tests have: the newest events are held without a gap, losses are counted, the evicting `EventQueue` is implemented | 4 slots, 9 pushes: every slot evicted at least once |
| `ring_overwrite_race` | **violation**: kOverwrite between two threads delivers out of order | 2 slots, 4 pushes |
| `reader` | the owner calls anything in any order: one producer at a time, exactly-once, `IsRunning() == false` means quiet, no callback race, counters agree, simulated mode never terminates the process, a short read after `Stop` is complete, `Stop` returns in simulated mode | 2 slots, 4 pushes, 2 threads started, requests of 1 and 3 events (below and above the capacity) |
| `reader_unjoined` | **violation**: a reader that failed to open `trace_pipe` is not joined; the destructor terminates the process | as `reader` |
| `reader_stop_hangs` | **violation**: `Stop` waits for a thread blocked in `getline` | as `reader`, opening succeeds |
| `reader_end_of_file` | **violation**: `IsRunning()` stays true after the thread has finished | as `reader`, opening succeeds |
| `parts` | the ten parts below, each with any input | below |
| `deadline_lost_entry` | **violation**: a late pair need not be an entry and its exit | 1 pid, 4 events |
| `inversion_duration` | **violation**: the duration reported is time the high-priority task was running | 2 CPUs, 3 tasks, 3 switches |
| `parser_softirq` | **violation**: a `softirq_entry` line is classified as an irq entry | 1 line |
| `live_inversions` | **violation**: an inversion the kernel reported is not found in a live trace | 2 lines |

The parts of `parts` share no variable, so a behaviour that runs one and leaves
the others as they began shows what a run of that part alone would:

| Part | Properties | Bounds |
|---|---|---|
| monitor | `ViolationsAsDefined`: `AnalyzeEvents` reports exactly the pairs (2nd, 4th, ... event of a pid with the one before) that take longer than the deadline, in the order they end, after any earlier calls; `ChargedOnce`: when a pid's time stamps do not go back, an earlier report of it ends before a later one begins | 2 pids, 5 events, time stamps 0, 1, 3 in any order, deadlines none and 1, at most one direct `CheckDeadline` report before: two pairs of one pid around an event of the other, on time, late, simultaneous and going back |
| detector | `InversionsAsDefined`: exactly the switches to a lower known priority, with the time since the last switch on the same CPU; `DurationsDisjoint`: when time does not go back, no stretch of a CPU counts in two reports | 2 CPUs, 3 tasks (one of them idle), 3 switches or trace events: a switch on the other CPU comes between two of one |
| sched | `SummaryTrue`: `rt_sched` prints the runs it made up that were late, and the two above hold of how it drives the monitor and the detector | 2 tasks sharing one monitor, 0 to 2 samples, runs below and above the deadline |
| analyzer | `StatsAsDefined`, `MergeAsDefined`, `BucketsAsDefined`, `PercentilesAsDefined`, `EverySampleDrawn` | 5 samples of 0, 1, 2, 5; 4 layouts of buckets, linear and logarithmic, some not covering the samples; every split in two, an empty half among them |
| dump | `LatenciesAsCaptured`: the report is about the times between the events read, and drops and limits account for the rest | limits 0, 1, 3, ring sizes 0 to 3 (0 and 3 are not powers of two), 4 live events with time stamps in any order, cpus with and without padding |
| orders | `OrdersSuffice`: no data race under the C++ memory model; `OrdersImplementQueue`: what one thread pushes and the other receives is one bounded queue, whole and in order | 2 slots, 8 events: each slot reused three times |
| logger | `FilesFollowStderr`: files hold the lines of stderr in their order, and between two lines of a file none is missing; `FilesClosedOnce`: the file written or closed is open, no other is, none is closed twice or leaked. Both with `CloseAlone` | 2 threads, 4 lines, 2 files, 2 levels: each file is replaced under a thread that waits for the mutex, and closed from outside |
| buffer | `NoMatchLost` | 2 slots, limits 0, 1, 2, 5 events, any of them matching |
| parser | `EventsAsWritten`: type, time, cpu, task, pid and details are what the kernel wrote, the last cut where their array ends, and other lines are no events | 2 lines, every event name, task names with dashes and colons and of 6 and 15 characters, pids of 1 and 7 digits (texts of a switch on both sides of the limit of 127), fractions of 6 and 9 digits, 6 kinds of other lines |
| timestamp | `ConversionsAgree`: the fallback equals the wide conversion while frequency times a billion fits; calibrated ticks are never shortened | 0 to 7 ticks, a "billion" of 2 in words of 8: products wrap, frequencies lie above and below the limit |

`TypeOK` is the conjunction of the parts' type invariants. `EventsAsWritten`
leaves the softirq names to `parser_softirq`. `ConversionsAgree` speaks of the
calibrated frequency only where the calibration's product fits in a word; with
several seconds between its two readings it does not (`timestamp.cc:53`), and
then nothing is claimed.

The differences of time stamps are unsigned in the code. Where time goes back
between two switches of a CPU, or between two lines of a dump, the result is near
2^64 and the code keeps it; `InversionsAsDefined` and `LatenciesAsCaptured` take
it as it is computed, so they do not object to it.

The eight violations are disagreements between the code and its own comments,
documentation or tests; `PROJECT.json` quotes the lines. The open failure and
the end of file were also reproduced with the compiled library. Concurrent
`kOverwrite` is used nowhere in the repository: the reader always builds a
`kDrop` ring.

A ninth disagreement stands behind `CloseAlone`. `logger.h:21` calls the logger
thread-safe, but its public `Close` is not. With `CloseAlone = FALSE` TLC refutes
`FilesClosedOnce`: a thread in `SetOutput` has closed the file and not yet cleared
`file_`, another one calls `Close`, finds the same FILE there and closes it a second
time; or a `Log` has tested `file_` and writes to it after the `fclose`. Nothing in the
repository calls `Close` from outside the class, so no run is kept for it.

The sample report in `src/README.md` has 50000 samples (line 247) and a histogram of
49999 (line 261). By `EverySampleDrawn` the code cannot print that: the range drawn
is widened to take in the largest sample, and every sample is counted.

Deadlock is checked in every run; `Over`, `ToolOver`, `DumpOver` and `LoggerOver`
are the ends of a life or of a program.

Fairness. `Push`, `Pop` and `Size` never wait, so a thread inside a call
finishes it (weak fairness of its steps). That the consumer calls `Pop` again
and again, although it may look at `Empty()` in between, is strong fairness of
`PopLoadTail`; the loops of `tests/ring_buffer_test.cc:144` and
`benchmarks/throughput_bench.cc:72` do so. In the reader both threads are
scheduled; nothing is assumed about lines arriving or about the owner making
another call. Without fairness of the environment `Stop` can be shown to return
in simulated mode only. The other modules state no liveness: their loops run
over finite vectors, and the specifications have no fairness.

Each listed property is also shown to be able to fail: `PROJECT.json` names for
each a plausible mistake in the code (an off-by-one in the full test, a join
left out, a count forgotten) which violates it.

## 4. What is proved

Every proof holds for all values of the constants that the module's named
assumptions allow; each assumption is evaluated by TLC in the runs.

**The ring** (`RingBufferProofs`):

* `TypeCorrect`: types, for any sets of threads and either policy;
* for one producer `w`, one consumer `r` (possibly the same thread) and kDrop:
  `NoDataRaceHolds`, `ExactlyOnceHolds`, `LossAccountedHolds`,
  `DeliveredInOrderHolds`, `HeldIsStableHolds`, and `SizeInRangeHolds` when only
  `w` and `r` call `Size`; `Refinement`: the ring implements `EventQueue`;
* for kOverwrite in a single thread: `LatestWinsHolds`, `LatestInOrderHolds`,
  `LatestAccountedHolds`, and `OverwriteRefinement`: it implements the
  `EventQueue` that evicts.

None of the properties is inductive: whether the producer may write its slot
depends on a test made on an older `tail_`. `IInv(w, r)` adds what each program
counter still knows: inside `Push`, `lhead[w] = head`, and once past the full
test `head < tail + Capacity`, which stays true because only `w` raises `head`
and `tail` never falls; inside `Pop`, `ltail[r] = tail`, and once past the empty
test `tail < head`. `Window` ties the counters to the histories (`head` events
accepted, `tail` delivered), `Contents` says that slot `k % Capacity` holds the
event accepted at position `k` for every `k` of the window, `Accounts` that each
event offered is accepted, counted or in the running push. The one arithmetic
fact is that two positions less than `Capacity` apart never share a slot: the
producer writes at `head`, outside the window, and the consumer reads at `tail`,
inside it. The refinement proof describes the held elements as the part of
`accepted` after position `tail`; the load of `tail_` that finds the ring full is
a rejection, the store of `head_` an acceptance, the store of `tail_` a
delivery, and everything else a stutter.

Under kOverwrite `tail` skips events that were never delivered, so the histories
no longer say where it is. `AloneInv(w)` needs less of the other thread, there
being none, and more of the events: `Current` (the running call's copies of the
counters are the counters), `Newest` (the held events are the last numbers
offered before the push in hand, without a gap) and `Counted` (the tail is what
was delivered plus what was evicted).

**The memory orders** (`TracingProofs`): `OrdersSufficeAlways`,
`OrdersImplementQueueHolds` and `ReceivedInOrderAlways` (the k-th event received is
the k-th accepted, which the queue implies). The invariant says what each thread
has seen (`Seen`: perhaps an older value than the last store, and with the code's
orders it knows of all slot accesses before the store it saw), what its test on
that older value still guarantees (`Tested`), and what the slots between `tail` and
`head` hold (`Held`). Being late is safe because an old `tail_` only makes the ring
look fuller and an old `head_` emptier. For the refinement the queue is the
run of numbers from the last one received to `head` (`Queued`). A store to `head_`
appends one (`QueuedGrows`) and keeps the bound, because the `tail_` the producer
tested is at most the number received; the copy out of a slot takes the first
(`QueuedShrinks`), whole and in its place by the invariant. `Refinement` says the
same of the interleaved ring, with its losses; here they are stutters.

**The trace buffer** (`TracingProofs`): `BufferTypeCorrect` and
`NoMatchLostHolds`, for any filter and limit, with a producer pushing at any
moment. `RingPart` says that the ring holds a rising run of event numbers,
`CallerPart` that what the caller has got so far comes before them and has every
match that left the ring, `CallPart` how far the drain in progress may be.

**The parser** (`TracingProofs`): `ParserTypeCorrect` and `EventsAsWrittenHolds`,
for any set of reports, any numerals and any other lines. `ParserAssumption` says
what a report is: a task's name has at least one token and no blank, bracket,
label of a switch (`prev_comm` ...) or event name among its tokens, though dashes,
colons and numbers may stand there; the event has a name the parser knows or one
that reads as nothing else; a fraction has at most nine digits and the time is
not 0. Another line is empty, a comment, or has no dot that only digits and dots
separate from a later colon, so that it has no time, not even half of one. Names
and details may have any length (`Cut`). The proof computes where each token of
a line is, from the lengths of the two names and of the details (`LineAt`,
`SwitchTokens`), then that a token looked for is not there earlier: the first bracket is the cpu's and the last dash before it
ends the task's name whatever the name has (`Nothing`, `Brackets`), an event name
followed by a colon is nowhere but in its place (`KeyPlaces`), and the labels are
where the kernel puts them (`SwitchQuiet`). With that each of the parser's
functions returns the part of the record it should (`CPUFound`, `TimeFound`,
`TaskFound`, `DetailsFound`, `TypeFound`, `SwitchFound`); the invariant
`ParserInv`, that the k-th event is `ParseFtraceLine` of the k-th line, is then
simple. `EventsAsWritten` leaves the type of a softirq out, and
`SoftirqsPassForIrqsHolds` says what becomes of it: as `irq_entry` is inside
`softirq_entry` and is looked for earlier (`SoftirqFound`), each softirq of every
trace comes back as a plain interrupt. `parser_softirq` is one case of it.

**From the parser to the detector** (`TracingProofs`): `LiveReportsNothing`, for
any reports, lines, tasks and CPUs: nothing is ever reported of a live trace.
`LiveInv` says that the detector was given only events as the parser makes them
(`Passed`), which all have priority 0 (`NoPriority`), and that nothing was reported;
a switch between tasks without a priority adds nothing (`NothingDetected`). `live_inversions` shows an inversion in
the kernel's trace that is missed; the theorem, that every one of them is.

**The reader** (`FtraceReaderProofs`): `ReaderUsesRing`, the reader and its owner
use the ring only as `RingBuffer` allows, so that the ring's type correctness
carries over; then `FRTypeCorrect`, `OneProducerHolds`, `NotRunningIsQuietHolds`,
`NoCallbackRaceHolds`, `CountsAgreeHolds` and `SimulatedNeverTerminatesHolds`,
for any capacity, any bounds, simulated or live. The invariant follows the
thread through its life: `ThreadLife` (when `running_` is false and the owner is
not joining, the reader thread is off or about to return, and what the owner does
while `IsRunning()` is false finds it so), `Joined` (in simulated mode only `Stop`
clears `running_`, and it joins) and `InTheRing` (a thread is inside `Push` or
`Pop` only where its own program counter says). `Bounded` counts what is
offered, accepted, lost and still being pushed by either thread.

The ring's theorems are about one producer, and the reader has two that take
turns: its thread, and the owner in `GenerateSyntheticEvents`. `RingInvAlways`
says that at any moment one of the two is the producer of the ring's `IInv`.
`HandOver` is the reason: while neither is inside `Push`, what `IInv` says of the
producer holds of either, and `OneProducer` lets the other one start a push only
then. So the ring's properties hold of the reader: `ReaderNoDataRace`,
`ReaderExactlyOnce`, `ReaderDeliveredInOrder`, `ReaderImplementsQueue`, and
`ShortReadIsCompleteHolds`.

**The monitor, the detector, `rt_sched`** (`SchedProofs`):
`ViolationsAsDefinedHolds`, `ChargedOnceHolds`, `InversionsAsDefinedHolds`,
`DurationsDisjointHolds`, `SummaryTrueHolds` and the types, for any number of
events, pids, CPUs and tasks. `MonitorInv` ties the map `last_event` to the
events seen: a pid is in it exactly when it has had an odd number of events, and
then with its last one (`WaitingPart`), which is what makes the loop's pairs the
pairs of the definition (`PartnerPart`). `DetectorInv` says that the entry of a
CPU is what the last switch on it left (`CPUPart`). `ToolInv` follows `rt_sched`:
the trace is an entry and an exit for each run made up (`GeneratorPart`), one
event of a pid in the monitor is always the entry of the run whose exit comes
next (`ToldPart`), although all tasks share the monitor, and the switches' clock
never goes back (`SwitchPart`). A run takes less than `Word` nanoseconds
(`ToolAssumption`), as the distribution of the code does.

**The statistics** (`Folding`, `AnalysisProofs`): `StatsAsDefinedHolds`,
`MergeAsDefinedHolds`, `BucketsAsDefinedHolds`, `PercentilesAsDefinedHolds`,
`EverySampleDrawnHolds`, `SummaryRisesHolds` and `AnalyzerTyping`, for any number
of samples below `Highest`. The model folds over sequences, and the fold of the community modules
is a function chosen on sets of positions. `Folding` proves once, for any
operator, that such a function exists, is unique and takes the elements one by
one (`FoldNext`); induction over the number of elements is `Counting`, which
speaks of a set of numbers, because the library's induction theorems take an
operator and cannot be instantiated by the provers here. The inductive facts are
then: `Accumulates` (after n samples the mean, the sum of squares and the
extremes are those of the definition; `AddMeans` is Welford's step and
`MergeMeans` the combination of two parts, both as identities of cross-multiplied
integers), `Tallies` (every bucket counts the samples that belong to it; `BucketFound` is the
search, for any growing boundaries) and `SortedAs` (the sorted samples rise and
have, of every set of values, as many members as the samples). `AnalyzerInv` is
that the kept statistics are the fold of the kept samples. `DrawnWith` proves the
redrawn histogram complete for any number of buckets, not only for the code's.
`SummaryRises` joins the two computations of a report: a percentile is one of the
samples (`SampleSorted`), which the running extremes enclose, and higher
percentiles have no lower ranks (`RanksRise`).

**The dump** (`AnalysisProofs`): `LatenciesAsCapturedHolds`, for any limits, ring
sizes, cpus and time stamps, and `ReportAsDefined`, which adds that all of the
statistics' properties hold of the report `rt_analyze` prints. `CapturePart`
follows `rt_trace` (an event generated is captured, in the ring or dropped),
`AnalyzePart` `rt_analyze` (each line of an event has given one difference, the
first one none; padded cpus do not matter, `LineRead`). Assumed: limits are
unsigned numbers of the code's width, and the differences lie below the initial
minimum of the statistics (`DumpAssumption`).

**The logger** (`UtilsProofs`): `LoggerTypeCorrect` always, and
`FilesClosedOnceAlways` and `FilesFollowStderrAlways` when `CloseAlone`, for any
number of threads, lines and files; without it both are false.
`MutexHeld` says that only the holder of the mutex is between lock and unlock,
and that while a `Close` from outside is under way every other thread is idle; so
at most one thread is anywhere but before or at the lock (`OneInside`). `FilePart`
is how `file_`, what the threads tested, `opened` and `closed` belong together: the
files closed are the first ones opened, all but the one in `file_`. `LinePart`
says that a thread about to write in the file has the last line of stderr, later
than all in the files, and otherwise the current file, if it has a line, has the
last one.

**The conversions** (`UtilsProofs`): `ConversionsAgreeAlways`, for any word
width and frequency: from lemmas on division (adding a multiple of the divisor,
remainders of sums) and the invariant `Calibrated`, that the static holds the
frequency of what was measured.

Only model-checked:

* liveness, `AcceptedIsDelivered` and `SimulatedStopReturns`: no prover here
  handles fairness or ENABLED;
* `TypeOK` of `MCParts`. Its parts' types are theorems of their own
  (`MonitorTypeCorrect`, `DetectorTypeCorrect`, `AnalyzerTyping`,
  `OrdersTypeCorrect`, `LoggerTypeCorrect`, `BufferTypeCorrect`,
  `ParserTypeCorrect`, `TimestampTypeCorrect`), with two exceptions. When `rt_sched`
  drives the monitor and the detector, time stamps below `Word` hold for the
  bounds of the run and not for every number of samples, as `rt_sched` adds them
  up; `ToolInv` has them natural numbers, which is all its properties need. And
  that the size of the dump's ring is a power of two not below the one asked for
  (`NextPowerOfTwo`) rests on what `2 ^ i` is, of which the provers know nothing;
* the violations, which are counterexamples and need no proof. Two of them have a
  theorem beside them that says what the code does in every case
  (`SoftirqsPassForIrqsHolds`, `LiveReportsNothing`).

## 5. Not modelled, and why

* Formatting, reports, CSV, the bars of a histogram, help texts and the parsing
  of arguments: no property depends on them. `rt_sched --input` and `rt_analyze
  --buckets` are accepted by the code and used for nothing.
* The contents of generated events, reading the counter and the clocks, the
  scope timer: hardware and data no property tells apart.
* Wrap-around of the ring's counters after 2^64 events; rounding of doubles.
* `FtraceTracer`'s own event count, which nothing reads, and its move
  operations; `TraceConfig`'s filters, which no code applies.
* A histogram of zero buckets: nothing in the repository makes one.
* Task names with blanks or brackets (the parser cuts `prev_comm` at a blank)
  and numbers with a sign or letters in them.
* That `DrainFiltered` returns while a producer pushes without pause: it need
  not, and nothing says it does.
* The benchmark's relaxed `done` flag (`throughput_bench.cc:72`) and the other
  clients: benchmarks, tests, scripts. They justify the fairness and the usage
  assumed above.

## 6. What is left

* The benchmark's `done` flag in `RingOrders`: an event pushed before the flag
  may still be missed by the relaxed load and the empty test.
