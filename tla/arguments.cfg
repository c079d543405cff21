CONSTANTS
  Values <- MCValues
  Names <- MCNames
  ExtIfaces <- MCExtIfaces
  Width = 4
  MaxFlags = 3
SPECIFICATION Spec
\* An invocation ends.
CHECK_DEADLOCK FALSE
INVARIANTS KnobsReadBack GatewayArgumentsFit
