\* Two clients, the filter and the prefetching of related names, at one instant.
CONSTANTS
  c1 = c1  c2 = c2  c3 = c3  a = a  b = b
  phone = phone  tv = tv  u1 = u1  ptr = ptr
  Conn = {c1, c2}
  MaxGoroutines = 2
  Name = {a, b, ptr}
  Client = {phone, tv}
  PrivatePtr = {ptr}
  Policies <- Filtered
  Patterns <- Chain
  Follow = TRUE
  Upstream = {u1}
  Replies <- ZeroAndOne
  ServeStaleFor = 3
  ServeStaleWithTTL = 1
  MaxUint32 = 1000
  TicksPerSecond = 1
  MaxTime = 0
  Nil = Nil
  Limit = 10
SPECIFICATION FairSpec
INVARIANTS OwnReply PrefetchExclusive NoPrefetchCascade BlockedNeverResolved StatsAddUp
PROPERTIES ImplementsQueryService EveryQueryAnswered PrefetchKeyReleased
CHECK_DEADLOCK FALSE
