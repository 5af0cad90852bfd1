SPECIFICATION Spec
CONSTANTS
  Main = main
  Others = {}
  Worker = worker
  Callbacks = {cb1}
  NoCallback = nocb
  LookupWord <- CodeWord
  UsedKinds = {"mouse"}
  CloseOnDestroy = TRUE
  MaxEntries <- TwoEach
INVARIANTS
  InsertedOnce
