SPECIFICATION Spec
CONSTANTS
  Main = main
  Others = {}
  Worker = worker
  Callbacks = {cb1}
  NoCallback = nocb
  LookupWord <- CodeWord
  UsedKinds = {"draw"}
  CloseOnDestroy = TRUE
  MaxEntries <- OneEach
INVARIANTS
  FreesInExclusion
