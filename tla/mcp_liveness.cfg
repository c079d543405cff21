CONSTANTS
  h1 = h1
  h2 = h2
  h3 = h3
  q1 = q1
  q2 = q2
  NoProc = NoProc
  Handlers <- MCOneHandler
  Procs <- MCTwoProcs
  Statuses <- MCOneStatus
  MaxCount = 2
  Drains = TRUE
SPECIFICATION FairSpec
\* The server exits, and then nothing more happens.
CHECK_DEADLOCK FALSE
INVARIANT CleanExitLeavesNoChild
PROPERTIES CallsReturn EndedIsReaped ServerStops
