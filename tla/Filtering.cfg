\* Two configurations, three lists, two concurrent runs, two days.
CONSTANTS
  Begins <- MCBegins
  Ends <- MCEnds
  Nil = Nil
  Domain <- MCDomain
  Client = {"tv", "laptop"}
  At <- MCAt
  Files <- MCFiles
  ListName = {"ads", "social", "gaming", "allow"}
  Category = {"ads", "social", "gaming"}
  Published <- MCPublished
  Run = {r1, r2}
  Day = 1
  DaysPerMonth = 31
  Zone = {}
  MaxHours = 1000
  DefaultLists <- MCDefaultLists
  MaxTime = 2
  Torn = Torn
SPECIFICATION Spec
SYMMETRY Symmetry
INVARIANTS TypeOK AllowlistWins ListedIsBlocked PeriodsShareTheDay TraceExplains
PROPERTIES SyncLoadsCopies NothingUnblocks
