SPECIFICATION Spec
CONSTANTS
  l1 = l1
  l2 = l2
  f1 = f1
  f2 = f2
  Libraries <- TwoLibraries
  Files <- OneFile
  Packages <- Versions
  Requests = {r1, r2}
  NoPackage = NoPackage
  Nobody = Nobody
  Environments <- NoFaults
  MaxInstalls = 3
SYMMETRY Symmetry
PROPERTY PatchCheckAnswers
CHECK_DEADLOCK FALSE
