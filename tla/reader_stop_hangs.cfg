\* Stop while the reader thread waits for a line of the trace pipe.
SPECIFICATION FRFairSpec
CONSTANTS
  reader = reader
  api = api
  Reader = reader
  Api = api
  Writers <- BothThreads
  Readers <- ApiOnly
  Observers <- Nobody
  Resetters <- Nobody
  Capacity = 2
  Policy = "kDrop"
  MaxPush = 4
  Word = 8
  OpenResults = {"ok"}
  Counts = {1, 3}
  MaxStarts = 2
PROPERTIES
  StopReturns
