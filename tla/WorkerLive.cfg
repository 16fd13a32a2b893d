CONSTANTS
  j1 = j1
  j2 = j2
  j3 = j3
  w1 = w1
  w2 = w2
  c1 = c1
  c2 = c2
  Jobs <- MCJobs
  Workers = {w1}
  Cancelers = {c1}
  QueueCap = 1
  Stubborn = {j3}
  None = None
  MaxFaults = 0
SPECIFICATION FairSpec
PROPERTIES EveryJobEnds ShutdownReturnsOrWedged
CHECK_DEADLOCK FALSE
