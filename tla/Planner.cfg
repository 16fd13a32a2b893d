SPECIFICATION Spec
CONSTANTS
  None = None
  Sorted <- MCSorted
  Num <- MCNum
  NonIndexRun = 99999
  DiscWords = {"CD", "Vol"}
  Tokens <- MCTokens
  Sane <- MCSane
  Reserved = {"CON"}
  Dotted = {".mp3", ".ogg", ".m4b", ".flac"}
  Lower <- MCLower
  MaxSegment = 5
  MinSegment = 2
  MaxOffset = 24
  TagLen <- MCTagLen
  Worlds <- MCWorlds
  Year <- MCYear
  Track2 <- MCTrack2
  MaxPathLen = 15
  MaxRuns = 2
INVARIANTS TypeOK RowsAgreeWithDisk PlanRuns  StaysSettled ScanKeepsBooks PathsFit TemplatesRender NumberingKept DiscsInOrder
 
