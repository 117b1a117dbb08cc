\* Two clients touch one entry at once, and its TTL wraps around.
CONSTANTS
  c1 = c1  c2 = c2  c3 = c3  a = a  b = b
  phone = phone  tv = tv  u1 = u1  ptr = ptr
  Conn = {c1, c2, c3}
  MaxGoroutines = 3
  Name = {a}
  Client = {phone}
  PrivatePtr = {}
  Policies <- Unfiltered
  Patterns <- NoPattern
  Follow = FALSE
  Upstream = {u1}
  Replies <- ThreeSeconds
  ServeStaleFor = 3
  ServeStaleWithTTL = 1
  MaxUint32 = 1000
  TicksPerSecond = 1
  MaxTime = 2
  Nil = Nil
  Limit = 10
SPECIFICATION Spec
SYMMETRY Symmetry
INVARIANT TtlBounded
CHECK_DEADLOCK FALSE
