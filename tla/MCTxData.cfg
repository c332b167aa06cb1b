SPECIFICATION FairSpec
CONSTANTS
  Frames = {f1, f2}
  Queues = {"vo", "be"}
  NBuf = 1
  StopLevel = 0
  SMP = FALSE
  f1 = f1
  f2 = f2
INVARIANT TypeOK
INVARIANT BuffersConserved
INVARIANT TxInOrder
PROPERTY QueuedFramesLeave
PROPERTY StoppedQueueWakes
