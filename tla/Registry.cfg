\* One ingest, one sweep, one pass at a time; processed_at is stamped close to
\* the save.
SPECIFICATION FairSpec
CONSTANTS
  sweep = sweep
  Ingest = ingest
  Cron = cron
  None = None
  Sweeps <- OneSweep
  SlowTables = FALSE
  MaxRank = 1
  MaxFaults = 1
INVARIANTS
  StoredEtagIsCovered
PROPERTIES
  LiveRowKept
  RowCatchesUp
