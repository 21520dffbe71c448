\* The trace pipe ends while the reader is running.
SPECIFICATION FRSpec
CONSTANTS
  reader = reader
  api = api
  Reader = reader
  Api = api
  Writers <- BothThreads
  Readers <- ApiOnly
  Observers <- Nobody
  Resetters <- Nobody
  Capacity = 2
  Policy = "kDrop"
  MaxPush = 4
  Word = 8
  OpenResults = {"ok"}
  Counts = {1, 3}
  MaxStarts = 2
INVARIANTS
  RunningIsActive
