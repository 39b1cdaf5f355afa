SPECIFICATION Spec
CONSTANTS
  Libraries = {l1}
  Addons = {l1}
  Files = {f1}
  Languages = {f1}
  MaxPatch = 2
  Readers = {r1}
  Writers = {w1, w2}
  NoLibrary = NoLibrary
  NoFile = NoFile
  NoEntry = NoEntry
  Rejected = Rejected
  Environments <- MCEnvironments
  MaxWrites = 3
  MaxMisses = 1
INVARIANT Fresh
INVARIANT FilesMatchMetadata
INVARIANT CheckSucceeds
CHECK_DEADLOCK FALSE
