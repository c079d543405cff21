CONSTANTS
  a = a
  NoShape = NoShape
  Half = Half
  NumServers = 2
  Cells <- MCCells
  Shapes <- MCShapes
  Disturbances <- AllDisturbance
  MaxLabs = 2
  MaxRuns = 2
SPECIFICATION FairSpec
\* The script ends.
CHECK_DEADLOCK FALSE
INVARIANTS MeasuredAsAsked MeasuredByItsOwn ServersAccountedFor
PROPERTY RunEnds
