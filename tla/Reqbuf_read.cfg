SPECIFICATION FairSpec
CONSTANTS
  NumRequests = 3
  Types = {"text", "binary"}
  Stypes = {"BIN"}
  TextSizes = {1, 3, 8}
  StypeSize = 2
  HeaderSize = 3
  BinSize = 4
  InitSize = 7
  Transports = {"stream", "datagram"}
  Junk = junk
INVARIANTS
  TypeOK
  InOrder
PROPERTIES
  StreamOfRequests
  
CHECK_DEADLOCK FALSE
