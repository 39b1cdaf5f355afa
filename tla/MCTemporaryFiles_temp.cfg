CONSTANTS
  Users = {u1}
  Files = {f1, f2}
  Requests = {r1, r2}
  Cleaner = Cleaner
  Nobody = Nobody
  NoFile = NoFile
  Environments <- MCEnvironments
SPECIFICATION FairSpec
INVARIANT TypeOK
INVARIANT Paired
PROPERTY ImplementsTemporaryStorage
PROPERTY ExpiredFilesGo
CHECK_DEADLOCK FALSE
