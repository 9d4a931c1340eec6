SPECIFICATION FairSpec
CONSTANTS
  Setups <- EveryQueue
  Handlers = {h1, h2}
  MemWorkers = {m1}
  QueueSize = 1
  MaxRetries = 1
  MaxNames = 2
  MaxRestarts = 1
  MaxFaults = 1
INVARIANTS
  TypeOK
  QueueBounded
  NoLostWakeup
  EarlierFirst
  DrainedOnClose
  NoSendOnClosed
PROPERTIES
  ImplementsDurableQueue
  QueueDrains
