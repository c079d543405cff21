CONSTANTS
  h1 = h1
  h2 = h2
  h3 = h3
  q1 = q1
  q2 = q2
  NoProc = NoProc
  Handlers <- MCAllHandlers
  Procs <- MCOneProc
  Statuses <- MCStatuses
  MaxCount = 2
  Drains = FALSE
SPECIFICATION Spec
\* The server exits, and then nothing more happens.
CHECK_DEADLOCK FALSE
SYMMETRY Symmetric
INVARIANTS TypeOK BarrierPublishes ReportIsTrue ReapIsOneShot SurvivorStaysValid GivesUpAfterSignals SweepMissesOnlyLate
