CONSTANTS
  Values <- MCValues
  Names <- MCNames
  ExtIfaces <- MCExtIfaces
  Width = 2
  MaxFlags = 2
SPECIFICATION Spec
CHECK_DEADLOCK FALSE
INVARIANT InputLeavesNothingPartial
