\* Each part with the smallest instance in which its cases meet.
SPECIFICATION Spec
CONSTANTS
  Word = 8
  Times = {0, 1, 3}
  Cpus = {0, 100}
  \* DeadlineMonitor: any configuration, any five events, any calls before.
  \* The type of an event is never looked at: one stands for all.
  Pids = {1, 2}
  Kinds = {"kFunctionEntry"}
  Deadlines = {0, 1}
  MaxEvents = 5
  MaxChecks = 1
  \* PriorityInversionDetector: three switches; the task 0 is the idle task.
  Tasks <- TaskSet
  MaxGiven = 3
  \* SchedTool
  NumTasks = 2
  RunTimes = {1, 2}
  Gap = 1
  Intervals = {1, 2}
  Base = 1
  NumSamples = {0, 1, 2}
  \* LatencyAnalyzer
  Highest = 100
  Latencies = {0, 1, 2, 5}
  MaxSamples = 5
  \* TraceDump
  EventLimits = {0, 1, 3}
  BufferSizes = {0, 1, 2, 3}
  MaxLive = 4
  \* RingOrders
  RingSize = 2
  MaxAccepted = 8
  \* Logger
  Callers = {a, b}
  Nobody = nobody
  Levels = {0, 1}
  CloseAlone = TRUE
  MaxLines = 4
  MaxFiles = 2
  \* TraceBuffer
  Capacity = 2
  Limits = {0, 1, 2}
  MaxOffers = 5
  \* EventParser
  Written <- Reports
  Others <- OtherLines
  Numeral <- Number
  Chars <- Width
  MaxWritten = 2
  \* Timestamp: products wrap, and frequencies lie above and below 18 GHz.
  Billion = 2
  Ticks = {0, 1, 2, 3, 4, 5, 6, 7}
INVARIANTS
  TypeOK
  ViolationsAsDefined
  ChargedOnce
  InversionsAsDefined
  DurationsDisjoint
  SummaryTrue
  StatsAsDefined
  MergeAsDefined
  BucketsAsDefined
  PercentilesAsDefined
  EverySampleDrawn
  LatenciesAsCaptured
  OrdersSuffice
  FilesFollowStderr
  FilesClosedOnce
  NoMatchLost
  EventsAsWritten
  ConversionsAgree
PROPERTIES
  OrdersImplementQueue
