CONSTANTS
  j1 = j1
  j2 = j2
  j3 = j3
  w1 = w1
  w2 = w2
  c1 = c1
  c2 = c2
  Jobs <- MCJobs
  Workers <- MCWorkers
  Cancelers <- MCCancelers
  QueueCap = 1
  Stubborn = {}
  None = None
  MaxFaults = 1
SYMMETRY MCSymmetry
SPECIFICATION Spec
INVARIANTS TypeOK NeverBoth NoneStranded
PROPERTY FollowsLifecycle
CHECK_DEADLOCK FALSE
