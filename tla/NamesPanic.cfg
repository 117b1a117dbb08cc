\* A reverse lookup fails.
CONSTANTS
  Zone = {"Local"}
  MaxHours = 1000
  DefaultLists = {}
  Nil = Nil
  Handler = {h1, h2}
  Ip = {"lan", "vpn", "self"}
  Loopback = {"self"}
  Private = {"lan"}
  OwnName = "beacon"
  Ptr = {"phone"}
  Files <- MCFiles
  At <- MCAt
  MaxTime = 3
SPECIFICATION Spec
INVARIANT FailedLookupIsSurvived
