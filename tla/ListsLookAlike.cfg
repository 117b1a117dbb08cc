\* A listed name is the start and the end of another one.
CONSTANTS
  Begins <- MCBegins
  Ends <- MCEnds
  Nil = Nil
  Domain <- MCDomain
  Client = {"tv", "laptop"}
  At <- MCAt
  Files <- LookAlikeFiles
  ListName = {"ads", "social", "gaming", "allow"}
  Category = {"ads", "social", "gaming"}
  Published <- MCPublished
  Run = {r1}
  Day = 1
  DaysPerMonth = 31
  Zone = {}
  MaxHours = 1000
  DefaultLists <- MCDefaultLists
  MaxTime = 1
  Torn = Torn
SPECIFICATION Spec
SYMMETRY Symmetry
INVARIANT BlocksOnlySubdomains
