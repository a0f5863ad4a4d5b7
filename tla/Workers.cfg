SPECIFICATION WorkFairSpec
CONSTANTS
  d1 = d1
  d2 = d2
  t1 = t1
  s1 = s1
  s2 = s2
  s3 = s3
  e1 = e1
  w1 = w1
  w2 = w2
  Jobs = {d1, t1}
  Slots = {s1, s2, s3}
  KeepCompleted <- MCKeep
  KeepFailed <- MCKeep
  MaxStalled = 1
  NoJob = NoJob
  NoSlot = NoSlot
  Order <- MCOrder
  WorkerOf <- MCWorkerOf
  QueueOf <- MCQueueOf
  Endpoints = {e1}
  EndpointOf <- MCEndpointOf
  Members = {w1}
  MaxBoots = 3
INVARIANTS
  WorkTypeOK
  FailuresWitnessed
  MailsBounded
PROPERTIES
  ExitCleanly
  DeliveriesSettle
CHECK_DEADLOCK FALSE
