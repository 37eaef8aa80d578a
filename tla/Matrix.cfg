\* A product on a pool of two workers that another client uses and stops.
CONSTANTS
  Workers = {w1, w2}
  Clients = {c1, c2}
  Caller = c1
  MaxTasks = 3
  MinWork = 3
  LawData <- MCLawData
  Operands <- MCOperands
  None = None
SPECIFICATION DotSpec
INVARIANTS WaitCompleteMeansDone PoolSafe StopJoinsWorkers DotIsProduct MatrixLaws
SYMMETRY Symmetry
CHECK_DEADLOCK FALSE
