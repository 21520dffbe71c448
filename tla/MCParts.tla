------------------------------ MODULE MCParts ------------------------------
(***************************************************************************)
(* The parts that share no state, checked together.  Each behaviour runs   *)
(* one of them and leaves the others as they began.  The part "sched" is   *)
(* the rt_sched tool driving the deadline monitor and the inversion        *)
(* detector, "dump" the rt_trace and rt_analyze tools with the latency     *)
(* analyser; the analysers also run alone, with every input.               *)
(***************************************************************************)
EXTENDS SchedTool, MCPriorityInversionDetector, TraceDump, RingOrders,
        Logger, TraceBuffer, MCEventParser, Timestamp

VARIABLE part

Parts == {"monitor", "detector", "sched", "analyzer", "dump", "orders",
          "logger", "buffer", "parser", "timestamp"}

sched == <<tool_step, generatorVars, fed>>
others == <<ordersVars, loggerVars, bufferVars, parserVars, timestampVars>>
capture == <<step, captureVars, captured, dump, timestamps, loaded>>

Init ==
  /\ part \in Parts
  /\ ToolInit /\ DumpInit /\ OrdersInit /\ LoggerInit /\ BufferInit /\ ParserInit
  /\ TimestampInit

SchedParts ==
  /\ \/ part = "monitor" /\ MonitorNext /\ UNCHANGED <<sched, detectorVars>>
     \/ part = "detector" /\ DetectorNext /\ UNCHANGED <<sched, monitorVars>>
     \/ part = "sched" /\ ToolNext
  /\ UNCHANGED <<dumpVars, others>>

DumpParts ==
  /\ \/ part = "analyzer" /\ AnalyzerNext /\ UNCHANGED capture
     \/ part = "dump" /\ DumpNext
  /\ UNCHANGED <<toolVars, others>>

OtherParts ==
  /\ \/ /\ part = "orders" /\ OrdersNext
        /\ UNCHANGED <<loggerVars, bufferVars, parserVars, timestampVars>>
     \/ /\ part = "logger" /\ LoggerNext
        /\ UNCHANGED <<ordersVars, bufferVars, parserVars, timestampVars>>
     \/ /\ part = "buffer" /\ BufferNext
        /\ UNCHANGED <<ordersVars, loggerVars, parserVars, timestampVars>>
     \/ /\ part = "parser" /\ ParserNext
        /\ UNCHANGED <<ordersVars, loggerVars, bufferVars, timestampVars>>
     \/ /\ part = "timestamp" /\ TimestampNext
        /\ UNCHANGED <<ordersVars, loggerVars, bufferVars, parserVars>>
  /\ UNCHANGED <<toolVars, dumpVars>>

Next == (SchedParts \/ DumpParts \/ OtherParts) /\ UNCHANGED part

Spec == Init /\ [][Next]_<<part, toolVars, dumpVars, others>>

-----------------------------------------------------------------------------
(* Every part keeps its type invariant.                                    *)
TypeOK ==
  /\ part \in Parts
  /\ MonitorTypeOK /\ DetectorTypeOK /\ AnalyzerTypeOK /\ DumpTypeOK
  /\ OrdersTypeOK /\ LoggerTypeOK /\ BufferTypeOK /\ ParserTypeOK
  /\ TimestampTypeOK
=============================================================================
