\* A reader whose trace pipe cannot be opened when the thread starts.
SPECIFICATION FRSpec
CONSTANTS
  reader = reader
  api = api
  Reader = reader
  Api = api
  Writers <- BothThreads
  Readers <- ApiOnly
  Observers <- Nobody
  Resetters <- Nobody
  Capacity = 2
  Policy = "kDrop"
  MaxPush = 4
  Word = 8
  OpenResults = {"ok", "fail"}
  Counts = {1, 3}
  MaxStarts = 2
INVARIANTS
  StopJoins
