CONSTANTS
  p1 = p1
  p2 = p2
  a = a
  b = b
  Profiles <- MCProfiles
  Directions <- MCDownload
  NoKnobs = NoKnobs
  BadChild = BadChild
  NoShaper = NoShaper
  NoShape = NoShape
  Shapers <- MCTwoShapers
  PlainShapes <- MCPlainShapes
  ChildShapes <- MCChildShapes
  Tools <- MCAgents
  Disturbances <- NoDisturbance
  MaxLate = 1
SPECIFICATION Spec
CHECK_DEADLOCK TRUE
INVARIANT AlwaysSafeToCall
