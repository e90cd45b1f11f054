\* The cached walk, given walks in two rounds, and every fault.
SPECIFICATION FairSpec
CONSTANTS
  Round = {1, 2}
  Default <- MCDefault
  Time = {1, 2}
  MaxPass <- MCMaxPass
  MaxHops = 1
  MinCache = 2
  MaxHolders = 2
  Faults = {"lookup", "missing"}
INVARIANTS TypeOK CacheIsLineage ReportIsReading
PROPERTIES CacheCatchesUp
