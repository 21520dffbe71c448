\* Function entries and exits of one pid, some of them lost.
SPECIFICATION MonitorSpec
CONSTANTS
  Word = 8
  Times = {0, 1, 3}
  Cpus = {0}
  Pids = {1}
  Kinds = {"kFunctionEntry", "kFunctionExit"}
  Deadlines = {0, 1}
  MaxEvents = 4
  MaxChecks = 0
PROPERTIES
  ReportsAreSections
