\* Two lines of trace_pipe.
SPECIFICATION LiveSpec
CONSTANTS
  Written <- Reports
  Others <- OtherLines
  Numeral <- Number
  Chars <- Width
  MaxWritten = 2
  Word = 2000000000
  Times = {}
  Cpus = {2}
  Tasks = {}
  MaxGiven = 2
INVARIANTS
  InversionsFound
