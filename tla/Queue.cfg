\* Two queues that share signInLocks, each with a consumer.
CONSTANTS
  Item = {i1, i2}
  Retried = {i2}
  Queue = {q1, q2}
  Producer = {p1}
  Consumer = {c1, c2}
  Serves <- MCServes
  BatchSize = 1
  MaxSlots = 2
  MaxBatch = 2
  Idle = Idle
  Free = Free
  q1 = q1
  q2 = q2
  c1 = c1
  c2 = c2
SPECIFICATION FairSpec
INVARIANTS NoLostWakeup SignedInOnce
PROPERTIES AllHandled
CHECK_DEADLOCK FALSE
