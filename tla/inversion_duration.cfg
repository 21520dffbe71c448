\* The duration of the inversions Analyze reports.
SPECIFICATION DetectorSpec
CONSTANTS
  Cpus = {0, 1}
  Tasks <- TaskSet
  Times = {0, 1, 3}
  Word = 8
  MaxGiven = 3
INVARIANTS
  DurationIsInversion
