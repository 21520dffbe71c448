--------------------------- MODULE MCFtraceReader ---------------------------
(* FtraceReader with a ring of two slots. *)
EXTENDS FtraceReader

CONSTANTS reader, api

BothThreads == {reader, api}
ApiOnly     == {api}
Nobody      == {}
=============================================================================
