\* Two workers and a client: every interleaving of schedule (also from a
\* running task), wait_complete and stop, and what must eventually happen.
CONSTANTS
  Workers = {w1, w2}
  Clients = {c1}
  MaxTasks = 2
  None = None
SPECIFICATION FairSpec
PROPERTIES NobodyWaitsForEver
CHECK_DEADLOCK FALSE
