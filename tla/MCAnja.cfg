SPECIFICATION Spec
CONSTANTS
  Host <- MCHost
  Commands <- MCCommands
  MaxRuns = 2
INVARIANTS
  TypeOK
  OwnSources
  OnlyAfterInterruption
  WholeOutput
  NothingLeft
