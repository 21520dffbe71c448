\* One producer and one consumer, kOverwrite: the policy the class comment
\* lists beside "single producer, single consumer (no locks needed)".
SPECIFICATION Spec
CONSTANTS
  producer = producer
  consumer = consumer
  monitor = monitor
  Writers <- TheProducer
  Readers <- TheConsumer
  Observers <- Nobody
  Resetters <- Nobody
  Capacity = 2
  Policy = "kOverwrite"
  MaxPush = 4
  Word = 8
INVARIANTS
  DeliveredInOrder
