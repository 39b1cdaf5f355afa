SPECIFICATION FairSpec
CONSTANTS
  l1 = l1
  l2 = l2
  f1 = f1
  f2 = f2
  Libraries <- OneLibrary
  Files <- OneFile
  Packages <- SmallPatches
  Requests = {r1, r2}
  NoPackage = NoPackage
  Nobody = Nobody
  Environments <- Anything
  MaxInstalls = 3
INVARIANT TypeOK
PROPERTY NoDowngrade
PROPERTY InstallTerminates
CHECK_DEADLOCK FALSE
