CONSTANTS
  p1 = p1
  p2 = p2
  p3 = p3
  n1 = n1
  NoProc = NoProc
  NoName = NoName
  Procs <- MCThreeProcs
  Names <- MCOneName
  Settings = 2
  Disturbances <- AllDisturbance
SPECIFICATION Spec
SYMMETRY Symmetric
CHECK_DEADLOCK TRUE
INVARIANTS RegistryAgreement HolderSeesReady
PROPERTIES ForeignSpared AbstractSpec
