CONSTANTS
  p1 = p1
  p2 = p2
  Host = Host
  NoProc = NoProc
  Procs <- MCTwoProcs
  Gateways <- MCTwoGateways
  Tools <- MCAllTools
  MaxJobs = 4
  MaxFaults = 1
SPECIFICATION Spec
SYMMETRY Symmetric
\* No job is begun beyond the bound.
CHECK_DEADLOCK FALSE
INVARIANTS TypeOK LabUp GatewayUp CleanedUp
PROPERTY StaysUp
