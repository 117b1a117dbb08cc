\* Two overlapping runs, two flushes of the query log, a failure, a restart.
CONSTANTS
  Run = {r1, r2}
  NoRun = NoRun
  Sessions <- MCSessions
  FlushInterval = 7
  LookBack = 10
  MaxFlushes = 2
  MaxFailures = 1
  MaxRestarts = 1
SPECIFICATION Spec
SYMMETRY Symmetry
INVARIANTS TypeOK BatchesAreWhole InStepWhenQuiet LockIsReturned
PROPERTIES LearnsWhatFollows
\* Every bound is used up in the end.
CHECK_DEADLOCK FALSE
