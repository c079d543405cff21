CONSTANTS
  p1 = p1
  p2 = p2
  p3 = p3
  n1 = n1
  NoProc = NoProc
  NoName = NoName
  Procs <- MCTwoProcs
  Names <- MCOneName
  Settings = 5
  Disturbances <- OutOfBand
SPECIFICATION Spec
CHECK_DEADLOCK TRUE
INVARIANT RunNeverRedirected
