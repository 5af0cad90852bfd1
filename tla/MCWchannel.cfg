SPECIFICATION Spec
CONSTANTS
  Threads = {main, user}
  Owners = {main, user}
  Fds = {3, 4}
  Channels = {c1, c2}
  Addresses = {a1, a2}
  MaxResolved = 2
  NoAddress = none
INVARIANTS
  TypeOK
  SocketsOwned
  LiveSocketOpen
PROPERTIES
  StatusTellsTruth
SYMMETRY Symmetry
CHECK_DEADLOCK FALSE
