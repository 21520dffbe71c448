\* Start, Stop, ReadEvents, GenerateSyntheticEvents and SetCallback in any
\* order, simulated or live, and
\* opening the trace pipe a second time may fail.
SPECIFICATION FRFairSpec
CONSTANTS
  reader = reader
  api = api
  Reader = reader
  Api = api
  Writers <- BothThreads
  Readers <- ApiOnly
  Observers <- Nobody
  Resetters <- Nobody
  Capacity = 2
  Policy = "kDrop"
  MaxPush = 4
  Word = 8
  OpenResults = {"ok", "fail"}
  Counts = {1, 3}
  MaxStarts = 2
INVARIANTS
  FRTypeOK
  OneProducer
  ExactlyOnce
  NotRunningIsQuiet
  NoCallbackRace
  CountsAgree
  SimulatedNeverTerminates
PROPERTIES
  ShortReadIsComplete
  SimulatedStopReturns
