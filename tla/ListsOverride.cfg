\* A list changes its category while its file stays.
CONSTANTS
  Begins <- MCBegins
  Ends <- MCEnds
  Nil = Nil
  Domain <- MCDomain
  Client = {"tv", "laptop"}
  At <- MCAt
  Files <- OverrideFiles
  ListName = {"ads", "social", "gaming", "allow"}
  Category = {"ads", "social", "gaming"}
  Published <- MCPublished
  Run = {r1}
  Day = 1
  DaysPerMonth = 31
  Zone = {}
  MaxHours = 1000
  DefaultLists <- MCDefaultLists
  MaxTime = 2
  Torn = Torn
SPECIFICATION Spec
SYMMETRY Symmetry
INVARIANT LoadedAsConfigured
