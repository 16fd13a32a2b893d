CONSTANTS
  MaxVersion = 2
  Handlers = {h1, h2}
  Workers = {w1, w2}
  MaxJobs = 2
  MaxFaults = 1
  None = None
  Broken = Broken
SPECIFICATION FairSpec
INVARIANTS TypeOK InstalledIsWhole 
PROPERTIES NoDowngrade RunsWhatItInstalled
CHECK_DEADLOCK FALSE
