SPECIFICATION Spec
CONSTANTS
  l1 = l1
  l2 = l2
  f1 = f1
  f2 = f2
  Libraries <- OneLibrary
  Files <- TwoFiles
  Packages <- Patches
  Requests = {r1, r2, r3}
  NoPackage = NoPackage
  Nobody = Nobody
  Environments <- Patience
  MaxInstalls = 4
SYMMETRY Symmetry
INVARIANT InstalledIsComplete
INVARIANT NoTraces
INVARIANT Exclusive
PROPERTY SkippedIsComplete
PROPERTY ImplementsRegistry
CHECK_DEADLOCK FALSE
