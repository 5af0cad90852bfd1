SPECIFICATION Spec
CONSTANTS
  MaxReqId = 15
  ReqIdSize = 2
  ReqModSize = 3
  ReqCodeSize = 3
  Ids = {15}
  Modules <- OneModule
  Codes <- ShortCodes
  Names <- TwoNames
  Values <- EachFormat
  MaxPairs = 2
  MaxChanges = 1
  NewChars <- OfEachClass
  Slack = 1
INVARIANTS
  TypeOK
  RoundTrip
  OverrunIsEncoded
  ValidatedConverts
  ConvertedValidates
  LookupAgrees
  InfoReturns
  InfoIsTrue
CHECK_DEADLOCK FALSE
