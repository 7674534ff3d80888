\* Three calls on a queue of two: full queue, refusals, timeouts, shutdown, and
\* a worker that may hang.
CONSTANTS
  Requests = {1, 2, 3}
  MaxQueueDepth = 2
  NoRequest = 0
ACTION_CONSTRAINT ArrivalOrder
SPECIFICATION HungWorkerSpec
INVARIANTS
  TypeOK
  QueueIsBacklog
  AppliedInOrder
  RepliesAreTruthful
  ViewLagsByOne
  CountersBalance
  NoLostWakeup
  ShutdownDrains
PROPERTIES
  EveryCallReturns
  ImplementsService
  AcceptedIsServed
  StopCompletes
\* The calls are finite in number: the system stops when they are answered.
CHECK_DEADLOCK FALSE
