CONSTANTS
  Files <- MCFiles
  Foreign <- MCForeign
  Paths <- MCPaths
  Temps <- MCTemps
  Dirs <- MCDirs
  Within <- MCWithin
  NBooks = 2
  BookOf <- MCBookOf
  Loose <- MCLoose
  Prior <- MCPrior
  Old <- MCOld
  New <- MCNew
  Steps <- MCSteps
  None = "none"
  MaxMishaps = 3
  MaxUndos = 2
SPECIFICATION FairSpec
PROPERTY NeverDeletesUserData
CHECK_DEADLOCK FALSE
