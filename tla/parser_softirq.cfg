\* One line of trace_pipe.
SPECIFICATION ParserSpec
CONSTANTS
  Written <- Reports
  Others <- OtherLines
  Numeral <- Number
  Chars <- Width
  MaxWritten = 1
INVARIANTS
  SoftirqsClassified
