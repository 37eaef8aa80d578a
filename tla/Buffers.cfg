\* A buffer of base size 2 whose size_t ends at 15, and three threads that
\* exchange three buffers over a pool of two.
CONSTANTS
  BaseSize = 2
  SizeMax = 15
  Requests = {0, 1, 2, 3, 9}
  MaxBytes = 6
  Threads = {t1, t2, t3}
  Buffers = {b1, b2, b3}
  MaxSize = 2
SPECIFICATION Spec
INVARIANTS PointersInOrder OneOwner NoLostWakeup
PROPERTIES IsByteQueue PooledIsBlank
