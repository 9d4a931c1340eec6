SPECIFICATION Spec
SYMMETRY Symmetry
CONSTANTS
  Setups <- Unlimited
  Handlers = {h1, h2}
  MemWorkers = {m1}
  QueueSize = 1
  MaxRetries = 0
  MaxNames = 2
  MaxRestarts = 0
  MaxFaults = 0
PROPERTY DeliveredInOrder
