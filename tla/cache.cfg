SPECIFICATION FairSpec
CONSTANTS
  Thread = {t1, t2}
  Sector = {s1, s2, s3}
  Buffer = {0, 1}
  CACHE_SIZE = 2
  None = NULL
  MaxOps = 4
  MaxReads = 1
  FlushAfter = 4
  MaxWrites = 4
  MaxSpurious = 1
CHECK_DEADLOCK FALSE
INVARIANTS TypeOK TransferIsOwn OneBlockPerSector SectorsDoNotMix CleanIsOnDisk
PROPERTY AccessCompletes
