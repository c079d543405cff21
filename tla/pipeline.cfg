CONSTANTS
  NumStages = 3
  Hasty <- MCSecond
  MaxUnits = 2
  PipeSize = 1
SPECIFICATION FairSpec
\* The pipeline returns.
CHECK_DEADLOCK FALSE
INVARIANTS TypeOK EofIsTheEnd
PROPERTIES ReturnsClean AbstractPiping
