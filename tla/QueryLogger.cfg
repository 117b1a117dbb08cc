\* Two queries, a watcher, a database that fails twice, a process that dies once.
CONSTANTS
  s1 = s1
  MaxQueries = 2
  ChanCap = 1
  MaxFailures = 2
  MaxCrashes = 1
  Sub = {s1}
  Wants <- MostWanted
  BufferCap = 1
  Nil = Nil
SPECIFICATION FairSpec
INVARIANTS TypeOK LogConserved ShownIsLogged ShownInOrder NoSendOnClosed
PROPERTIES ImplementsQueryStore StoredUnlessLeaked UnsubscribeCompletes
CHECK_DEADLOCK FALSE
