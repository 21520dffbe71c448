\* One producer, one consumer, kDrop, either of them looking at Size().
SPECIFICATION FairSpec
CONSTANTS
  producer = producer
  consumer = consumer
  monitor = monitor
  Writers <- TheProducer
  Readers <- TheConsumer
  Observers <- Both
  Resetters <- TheConsumer
  Capacity = 2
  Policy = "kDrop"
  MaxPush = 5
  Word = 8
INVARIANTS
  TypeOK
  NoDataRace
  ExactlyOnce
  DeliveredInOrder
  LossAccounted
  SizeInRange
PROPERTIES
  HeldIsStable
  ImplementsQueue
  AcceptedIsDelivered
