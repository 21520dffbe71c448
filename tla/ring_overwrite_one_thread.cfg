\* One thread pushes, pops, looks and resets, kOverwrite.
SPECIFICATION Spec
CONSTANTS
  producer = producer
  consumer = consumer
  monitor = monitor
  Writers <- TheProducer
  Readers <- TheProducer
  Observers <- TheProducer
  Resetters <- TheProducer
  Capacity = 4
  Policy = "kOverwrite"
  MaxPush = 9
  Word = 16
INVARIANTS
  LatestWins
  LossAccounted
PROPERTIES
  ImplementsQueue
