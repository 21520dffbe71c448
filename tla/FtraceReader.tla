---------------------------- MODULE FtraceReader ----------------------------
(***************************************************************************)
(* FtraceReader of src/tracing/ftrace_reader.cc: the thread that owns the  *)
(* object (Api) starts and stops a reader thread (Reader), and the two     *)
(* share the ring.  Api drains it and, through GenerateSyntheticEvents,    *)
(* also pushes into it, so that the ring has two producers that must not   *)
(* overlap.  Every ring access is an action of RingBuffer, taken by the    *)
(* thread whose own control (rpc, apc) is at the call.                     *)
(*                                                                         *)
(* Api is a client that respects what the class leaves unsaid: it pushes   *)
(* synthetic events and replaces the callback only while IsRunning() says  *)
(* that the reader is not active.  The callback is external and returns    *)
(* without calling back.                                                   *)
(***************************************************************************)
EXTENDS RingBuffer

CONSTANTS
  Reader,       \* the thread reader_thread_ runs
  Api,          \* the thread that owns the FtraceReader
  OpenResults,  \* what opening trace_pipe in ReaderLoop can give: "ok", "fail"
  Counts,       \* the max_count and count arguments Api uses
  MaxStarts     \* bound on the threads started

ASSUME ReaderAssumption ==
  /\ Reader # Api
  /\ Writers = {Reader, Api}
  /\ Readers = {Api}
  /\ Observers = {} /\ Resetters = {}
  /\ Policy = "kDrop"
  /\ OpenResults \subseteq {"ok", "fail"}
  /\ Counts \subseteq Nat \ {0}
  /\ MaxStarts \in Nat

VARIABLES
  simulated,   \* simulated_
  running,     \* running_
  thread,      \* reader_thread_: "none" (not joinable), "live", "done"
  rpc,         \* where the reader thread is
  apc,         \* where Api is
  todo,        \* what is left of the count Api passed
  callback,    \* callback_: "none", "set", or "moving" while it is assigned
  event_count, \* event_count_
  starts,      \* history: threads started
  terminated   \* std::terminate was called

own == <<simulated, running, thread, rpc, apc, todo, callback, event_count,
         starts, terminated>>
allVars == <<vars, own>>

FRInit ==
  /\ Init
  /\ simulated \in BOOLEAN     \* configured, or trace_pipe not readable
  /\ running = FALSE
  /\ thread = "none"
  /\ rpc = "off"
  /\ apc = "idle"
  /\ todo = 0
  /\ callback = "none"
  /\ event_count = 0
  /\ starts = 0
  /\ terminated = FALSE

AGoto(from, to) == apc = from /\ apc' = to
RGoto(from, to) == ~terminated /\ rpc = from /\ rpc' = to

-----------------------------------------------------------------------------
(* bool Start() *)

StartLoad ==   \* returns false if running_
  /\ starts < MaxStarts
  /\ AGoto("idle", IF running THEN "idle" ELSE "start")
  /\ UNCHANGED <<vars, simulated, running, thread, rpc, todo, callback,
                 event_count, starts, terminated>>

StartStore ==
  /\ AGoto("start", "spawn")
  /\ running' = TRUE
  /\ UNCHANGED <<vars, simulated, thread, rpc, todo, callback, event_count,
                 starts, terminated>>

(* Assigning a std::thread to one that is still joinable terminates. *)
StartSpawn ==
  /\ apc = "spawn"
  /\ IF thread = "none"
     THEN /\ thread' = "live"
          /\ rpc' = (IF simulated THEN "check" ELSE "open")
          /\ starts' = starts + 1
          /\ apc' = "idle"
          /\ UNCHANGED terminated
     ELSE /\ terminated' = TRUE
          /\ apc' = "dead"
          /\ UNCHANGED <<thread, rpc, starts>>
  /\ UNCHANGED <<vars, simulated, running, todo, callback, event_count>>

-----------------------------------------------------------------------------
(* void Stop(), also called first by the destructor, where the "destroy"   *)
(* forms of its steps lead to the destruction of the members.              *)

AfterStop(d) == IF d = "destroy" THEN "members" ELSE "idle"

StopLoad(d) ==
  /\ AGoto("idle", IF running THEN d ELSE AfterStop(d))
  /\ UNCHANGED <<vars, simulated, running, thread, rpc, todo, callback,
                 event_count, starts, terminated>>

JoinOf(d) == IF d = "destroy" THEN "join_destroy" ELSE "join_stop"

StopStore(d) ==
  /\ AGoto(d, JoinOf(d))
  /\ running' = FALSE
  /\ UNCHANGED <<vars, simulated, thread, rpc, todo, callback, event_count,
                 starts, terminated>>

(* Bugs a careless edit could introduce stand before the definition they   *)
(* would spoil, named for the mistake; no specification uses them.         *)
StopForgetsJoin(d) ==
  /\ AGoto(JoinOf(d), AfterStop(d))
  /\ UNCHANGED <<vars, simulated, running, thread, rpc, todo, callback,
                 event_count, starts, terminated>>

StopDetach(d) ==
  /\ AGoto(JoinOf(d), AfterStop(d))
  /\ thread' = "none"
  /\ UNCHANGED <<vars, simulated, running, rpc, todo, callback, event_count,
                 starts, terminated>>

StopJoin(d) ==
  /\ AGoto(JoinOf(d), AfterStop(d))
  /\ thread # "live"
  /\ thread' = "none"
  /\ UNCHANGED <<vars, simulated, running, rpc, todo, callback, event_count,
                 starts, terminated>>

(* Destroying a std::thread that is still joinable terminates. *)
DestroyMembers ==
  /\ AGoto("members", "dead")
  /\ terminated' = (thread # "none")
  /\ UNCHANGED <<vars, simulated, running, thread, rpc, todo, callback,
                 event_count, starts>>

-----------------------------------------------------------------------------
(* size_t ReadEvents(events, max_count): RingBuffer::Drain, a Pop until    *)
(* max_count events are out or the ring is empty.                          *)

ReadBegin(n) ==
  /\ AGoto("idle", "drain")
  /\ todo' = n
  /\ UNCHANGED <<vars, simulated, running, thread, rpc, callback, event_count,
                 starts, terminated>>

ReadStepOneMore ==
  /\ apc = "drain"
  /\ \/ /\ PopLoadTail(Api) \/ PopRead(Api)
        /\ UNCHANGED <<apc, todo>>
     \/ /\ PopLoadHead(Api)
        /\ apc' = (IF pc'[Api] = "idle" THEN "idle" ELSE "drain")
        /\ UNCHANGED todo
     \/ /\ PopPublish(Api)
        /\ todo' = todo - 1
        /\ apc' = (IF todo' < 0 THEN "idle" ELSE "drain")
  /\ UNCHANGED <<simulated, running, thread, rpc, callback, event_count,
                 starts, terminated>>

ReadStep ==
  /\ apc = "drain"
  /\ \/ /\ PopLoadTail(Api) \/ PopRead(Api)
        /\ UNCHANGED <<apc, todo>>
     \/ /\ PopLoadHead(Api)
        /\ apc' = (IF pc'[Api] = "idle" THEN "idle" ELSE "drain")
        /\ UNCHANGED todo
     \/ /\ PopPublish(Api)
        /\ todo' = todo - 1
        /\ apc' = (IF todo' = 0 THEN "idle" ELSE "drain")
  /\ UNCHANGED <<simulated, running, thread, rpc, callback, event_count,
                 starts, terminated>>

-----------------------------------------------------------------------------
(* void GenerateSyntheticEvents(count): each event is pushed, counted      *)
(* whether or not the ring took it, and handed to the callback.            *)

GenerateBegin(n) ==
  /\ ~running
  /\ offered + n <= MaxPush
  /\ AGoto("idle", "generate")
  /\ todo' = n
  /\ UNCHANGED <<vars, simulated, running, thread, rpc, callback, event_count,
                 starts, terminated>>

GeneratePush ==
  /\ apc = "generate"
  /\ PushLoadHead(Api) \/ PushStep(Api)
  /\ apc' = (IF pc'[Api] = "idle" THEN "generate_count" ELSE "generate")
  /\ UNCHANGED <<simulated, running, thread, rpc, todo, callback, event_count,
                 starts, terminated>>

GenerateCount ==
  /\ AGoto("generate_count", "generate_notify")
  /\ event_count' = event_count + 1
  /\ UNCHANGED <<vars, simulated, running, thread, rpc, todo, callback, starts,
                 terminated>>

GenerateNotify ==
  /\ AGoto("generate_notify", IF todo = 1 THEN "idle" ELSE "generate")
  /\ todo' = todo - 1
  /\ UNCHANGED <<vars, simulated, running, thread, rpc, callback, event_count,
                 starts, terminated>>

(* void SetCallback(callback): an unsynchronised move of a std::function.  *)
SetCallbackBegin ==
  /\ ~running
  /\ AGoto("idle", "set_callback")
  /\ callback' = "moving"
  /\ UNCHANGED <<vars, simulated, running, thread, rpc, todo, event_count,
                 starts, terminated>>

SetCallbackEnd ==
  /\ AGoto("set_callback", "idle")
  /\ callback' = "set"
  /\ UNCHANGED <<vars, simulated, running, thread, rpc, todo, event_count,
                 starts, terminated>>

-----------------------------------------------------------------------------
(* void ReaderLoop() and void SimulatedLoop() *)

ReaderOpen(result) ==
  /\ result \in OpenResults
  /\ RGoto("open", IF result = "ok" THEN "check" ELSE "exit")
  /\ running' = (running /\ result = "ok")
  /\ UNCHANGED <<vars, simulated, thread, apc, todo, callback, event_count,
                 starts, terminated>>

ReaderCheckForever ==
  /\ offered < MaxPush
  /\ RGoto("check", IF simulated THEN "push" ELSE "getline")
  /\ UNCHANGED <<vars, simulated, running, thread, apc, todo, callback,
                 event_count, starts, terminated>>

(* The loop condition: running_.load(), in live mode && getline(...).  An  *)
(* event is due only while the bound allows another Push.                  *)
ReaderCheck ==
  /\ \/ /\ running /\ offered < MaxPush
        /\ RGoto("check", IF simulated THEN "push" ELSE "getline")
     \/ /\ ~running
        /\ RGoto("check", "exit")
  /\ UNCHANGED <<vars, simulated, running, thread, apc, todo, callback,
                 event_count, starts, terminated>>

(* A line arrives that ParseFtraceLine accepts or rejects, or trace_pipe   *)
(* ends.  Until then the thread is blocked.                                *)
ReaderGetline ==
  /\ \E next \in {"push", "check", "exit"} : RGoto("getline", next)
  /\ UNCHANGED <<vars, simulated, running, thread, apc, todo, callback,
                 event_count, starts, terminated>>

ReaderPush ==
  /\ PushLoadHead(Reader) \/ PushStep(Reader)
  /\ RGoto("push", IF pc'[Reader] = "idle" THEN "count" ELSE "push")
  /\ UNCHANGED <<simulated, running, thread, apc, todo, callback, event_count,
                 starts, terminated>>

ReaderCountAccepted ==
  /\ RGoto("count", "notify")
  /\ event_count' = Len(accepted)
  /\ UNCHANGED <<vars, simulated, running, thread, apc, todo, callback, starts,
                 terminated>>

ReaderCount ==
  /\ RGoto("count", "notify")
  /\ event_count' = event_count + 1
  /\ UNCHANGED <<vars, simulated, running, thread, apc, todo, callback, starts,
                 terminated>>

ReaderNotify ==
  /\ RGoto("notify", "check")
  /\ UNCHANGED <<vars, simulated, running, thread, apc, todo, callback,
                 event_count, starts, terminated>>

ReaderExit ==
  /\ RGoto("exit", "off")
  /\ thread' = "done"
  /\ UNCHANGED <<vars, simulated, running, apc, todo, callback, event_count,
                 starts, terminated>>

-----------------------------------------------------------------------------
(* What a thread does on its own once it is inside a call. *)
ReaderStep ==
  \/ \E result \in {"ok", "fail"} : ReaderOpen(result)
  \/ ReaderCheck \/ ReaderPush \/ ReaderCount \/ ReaderNotify \/ ReaderExit

ApiStep ==
  \/ StartStore \/ StartSpawn
  \/ \E d \in {"stop", "destroy"} : StopStore(d) \/ StopJoin(d)
  \/ DestroyMembers
  \/ ReadStep
  \/ GeneratePush \/ GenerateCount \/ GenerateNotify
  \/ SetCallbackEnd

(* The calls Api may begin. *)
ApiCall ==
  \/ StartLoad
  \/ \E d \in {"stop", "destroy"} : StopLoad(d)
  \/ \E n \in Counts : ReadBegin(n) \/ GenerateBegin(n)
  \/ SetCallbackBegin

(* The object is gone, or the process has been terminated. *)
Over == apc = "dead" /\ UNCHANGED allVars

FRNext == ReaderStep \/ ReaderGetline \/ ApiStep \/ ApiCall \/ Over

FRSpec == FRInit /\ [][FRNext]_allVars

(* Both threads are scheduled; nothing makes a line arrive on trace_pipe   *)
(* or Api begin another call.                                              *)
FRFairSpec ==
  FRSpec /\ WF_allVars(ReaderStep) /\ WF_allVars(ApiStep)

-----------------------------------------------------------------------------
(* Every variable keeps its type, in the ring and in the reader. *)
FRTypeOK ==
  /\ TypeOK
  /\ simulated \in BOOLEAN
  /\ running \in BOOLEAN
  /\ thread \in {"none", "live", "done"}
  /\ rpc \in {"off", "open", "check", "getline", "push", "count", "notify", "exit"}
  /\ apc \in {"idle", "start", "spawn", "stop", "join_stop", "destroy",
              "join_destroy", "members", "drain", "generate",
              "generate_count", "generate_notify", "set_callback", "dead"}
  /\ todo \in Nat
  /\ callback \in {"none", "set", "moving"}
  /\ event_count \in 0 .. MaxPush
  /\ starts \in 0 .. MaxStarts
  /\ terminated \in BOOLEAN

(* At most one of the two producers of the single-producer ring is inside  *)
(* Push: thread creation and join hand the producer's side over.           *)
OneProducer == pc[Reader] \in PushSteps => pc[Api] \notin PushSteps

(* IsRunning() == false means that the reader thread no longer touches the *)
(* ring or the callback, so that Api may; only Stop itself, while it       *)
(* waits, sees running_ false and the thread still at work.                *)
NotRunningIsQuiet ==
  ~running /\ apc \notin {"join_stop", "join_destroy"} => rpc \in {"off", "exit"}

(* The callback is never assigned while the reader thread may invoke it.   *)
NoCallbackRace == callback = "moving" => rpc # "notify"

(* EventCount() is exactly the events accepted plus those DroppedEvents()  *)
(* counts, up to the one event a producer has pushed but not yet counted.  *)
CountsAgree ==
  event_count + (IF rpc = "count" THEN 1 ELSE 0)
              + (IF apc = "generate_count" THEN 1 ELSE 0)
    = Len(accepted) + overflow_count

(* A ReadEvents that returns fewer events than asked for while the reader  *)
(* is stopped has emptied the ring: capture, Stop, ReadEvents misses       *)
(* nothing that was accepted.                                              *)
ShortReadIsComplete ==
  [][apc = "drain" /\ apc' = "idle" /\ todo' > 0 /\ ~running
       => delivered' = accepted']_allVars

(* In simulated mode no sequence of calls destroys or overwrites a         *)
(* std::thread that is still joinable, which would end the process.        *)
SimulatedNeverTerminates == terminated => ~simulated

(* In simulated mode Stop, and the destructor, return.                     *)
SimulatedStopReturns ==
  \A d \in {"stop", "destroy"} :
    (simulated /\ apc = JoinOf(d)) ~> (apc = AfterStop(d))

(* "Stop the reader thread": Stop returns, in live mode too.               *)
StopReturns ==
  \A d \in {"stop", "destroy"} : (apc = JoinOf(d)) ~> (apc = AfterStop(d))

(* "Stop the reader thread": when the Stop() of the destructor has         *)
(* returned, no thread is left to join, and the members can be destroyed.  *)
StopJoins == apc = "members" => thread = "none"

(* "Whether the reader is currently active": while running_ is set there   *)
(* is a reader thread that has not finished.                               *)
RunningIsActive == running /\ apc # "spawn" => thread = "live"
=============================================================================
