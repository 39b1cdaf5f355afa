SPECIFICATION Spec
CONSTANTS
  l1 = l1
  l2 = l2
  f1 = f1
  f2 = f2
  Libraries <- OneLibrary
  Files <- TwoFiles
  Packages <- Patches
  Requests = {r1, r2}
  NoPackage = NoPackage
  Nobody = Nobody
  Environments <- Errors
  MaxInstalls = 3
SYMMETRY Symmetry
INVARIANT NoTraces
CHECK_DEADLOCK FALSE
