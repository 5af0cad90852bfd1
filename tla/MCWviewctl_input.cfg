SPECIFICATION Spec
CONSTANTS
  Main = main
  Others = {c1}
  Worker = worker
  Callbacks = {cb1}
  NoCallback = nocb
  LookupWord <- OwnAddress
  UsedKinds = {"keyboard", "mouse"}
  CloseOnDestroy = FALSE
  MaxEntries <- TwoMouse
INVARIANTS
  TypeOK
  ExclusiveAccess
  LoadedMeansUsable
  LocksComeBack
  CountStaysCurrent
