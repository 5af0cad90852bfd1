SPECIFICATION FairSpec
CONSTANTS
  NumRequests = 1
  Types = {"text"}
  Stypes = {}
  TextSizes = {4}
  StypeSize = 2
  HeaderSize = 3
  BinSize = 4
  InitSize = 3
  Transports = {"stream"}
  Junk = junk
PROPERTIES
  LongRequestsArrive
CHECK_DEADLOCK FALSE
