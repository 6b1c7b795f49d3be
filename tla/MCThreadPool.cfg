SPECIFICATION FairSpec
CONSTANTS
  Workers = {w1, w2}
  Clients = {c1, c2}
  Owner = Owner
  Tasks = {t1, t2, t3}
  NoTask = NoTask
  Free = Free
  MaxSpurious = 1
INVARIANTS TypeOK TaskConserved NoLostWakeup DrainedWhenJoined
PROPERTIES PoolSpec AcceptedRuns DestructorEnds
CHECK_DEADLOCK FALSE
