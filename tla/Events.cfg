\* Two publishes at a time, one client, one restart.
CONSTANTS
  Publishers = {p1, p2}
  Clients = {c1}
  eventRing = 2
  subInbox = 2
  outCap = 1
  None = None
  MaxSeq = 4
  MaxEpoch = 1
SPECIFICATION FairSpec
INVARIANTS TypeOK StaysInformed ResumesInformed ReplayThenLive
PROPERTY PublishReturns
CHECK_DEADLOCK FALSE
