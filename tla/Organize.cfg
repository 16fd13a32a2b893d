CONSTANTS
  Files <- MCFiles
  Foreign <- MCForeign
  Paths <- MCPaths
  Temps <- MCTemps
  Dirs <- MCDirs
  Within <- MCWithin
  NBooks = 2
  BookOf <- MCBookOf
  Loose <- MCLoose
  Prior <- MCPrior
  Old <- MCOld
  New <- MCNew
  Steps <- MCSteps
  None = "none"
  MaxMishaps = 3
  MaxUndos = 4
SPECIFICATION FairSpec
INVARIANTS TypeOK WriteAhead CleanRollback UndoneMeansOriginal
PROPERTIES NothingLost Relocated UndoConverges
CHECK_DEADLOCK FALSE
