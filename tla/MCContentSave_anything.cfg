SPECIFICATION FairSpec
CONSTANTS
  Contents = {c1}
  Requests = {r1, r2}
  Files = {f1, f2}
  SlotCount = 1
  NoContent = NoContent
  NoFile = NoFile
  Environments <- Anything
  MaxSaves = 2
INVARIANT TypeOK
INVARIANT UploadLostOnlyIfCopied
PROPERTY SaveTerminates
CHECK_DEADLOCK FALSE
