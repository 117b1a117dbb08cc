\* One insert fails while items of the queue are still to come.
CONSTANTS
  s1 = s1
  MaxQueries = 3
  ChanCap = 2
  MaxFailures = 1
  MaxCrashes = 0
  Sub = {}
  Wants <- MostWanted
  BufferCap = 1
  Nil = Nil
SPECIFICATION FairSpec
PROPERTY EveryQueryStored
CHECK_DEADLOCK FALSE
