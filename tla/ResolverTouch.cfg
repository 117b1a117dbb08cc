\* Three clients ask for one name while its entry ages: the races of touch().
CONSTANTS
  c1 = c1  c2 = c2  c3 = c3  a = a  b = b
  phone = phone  tv = tv  u1 = u1  ptr = ptr
  Conn = {c1, c2, c3}
  MaxGoroutines = 3
  Name = {a}
  Client = {phone}
  PrivatePtr = {}
  Policies <- Unfiltered
  Patterns <- NoPattern
  Follow = FALSE
  Upstream = {u1}
  Replies <- NoneOrTwo
  ServeStaleFor = 3
  ServeStaleWithTTL = 1
  MaxUint32 = 1000
  TicksPerSecond = 1
  MaxTime = 1
  Nil = Nil
  Limit = 10
SPECIFICATION Spec
SYMMETRY Symmetry
INVARIANTS TypeOK StaleHasRefresher OwnReply NoPrefetchCascade
CHECK_DEADLOCK FALSE
