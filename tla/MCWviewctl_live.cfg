SPECIFICATION FairSpec
CONSTANTS
  Main = main
  Others = {}
  Worker = worker
  Callbacks = {cb1}
  NoCallback = nocb
  LookupWord <- OwnAddress
  UsedKinds = {"draw"}
  CloseOnDestroy = TRUE
  MaxEntries <- OneEach
INVARIANTS
  NoLostRedraw
  LoopEndsOnClose
PROPERTIES
  LoadReturns
  CloseEndsWorker
  UnloadEndsWorker
  RedrawServed
