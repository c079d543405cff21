CONSTANTS
  p1 = p1
  p2 = p2
  a = a
  b = b
  Profiles <- MCProfiles
  Directions <- MCDownload
  NoKnobs = NoKnobs
  BadChild = BadChild
  NoShaper = NoShaper
  NoShape = NoShape
  Shapers <- MCTwoShapers
  PlainShapes <- MCPlainShapes
  ChildShapes <- MCChildShapes
  Tools <- MCComposers
  Disturbances <- AllDisturbance
  MaxLate = 1
SPECIFICATION Spec
SYMMETRY Symmetric
CHECK_DEADLOCK TRUE
INVARIANTS TypeOK TreesAreWhole ExitZeroIsWhole RejectedChangesNothing SoleShaperSucceeds
PROPERTY AbstractShaping
