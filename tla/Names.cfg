\* Two handlers, three kinds of clients, three hours, names that are good for one.
CONSTANTS
  Zone = {"Local"}
  MaxHours = 1000
  DefaultLists = {}
  Nil = Nil
  Handler = {h1, h2}
  Ip = {"lan", "vpn", "self"}
  Loopback = {"self"}
  Private = {"lan"}
  OwnName = "beacon"
  Ptr = {"phone"}
  Files <- MCFiles
  At <- MCAt
  MaxTime = 3
SPECIFICATION Spec
SYMMETRY Symmetry
INVARIANTS TypeOK DroppedIsSought StaticDeviceIsFiltered AcceptedIsUsable
PROPERTY NameIsRecent
