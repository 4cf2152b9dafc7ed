SPECIFICATION Spec
CONSTANTS
  Thread = {t1, t2}
  Sector = {s1, s2, s3}
  Buffer = {0, 1}
  CACHE_SIZE = 2
  None = NULL
  MaxOps = 3
  MaxReads = 0
  FlushAfter = 0
  MaxWrites = 3
  MaxSpurious = 0
CHECK_DEADLOCK FALSE
INVARIANT ShutdownKeepsWrites
