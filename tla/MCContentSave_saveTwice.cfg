SPECIFICATION Spec
CONSTANTS
  Contents = {c1}
  Requests = {r1, r2}
  Files = {f1}
  SlotCount = 1
  NoContent = NoContent
  NoFile = NoFile
  Environments <- Overlapping
  MaxSaves = 3
SYMMETRY Symmetry
PROPERTY UploadsKeptBySavingTwice
CHECK_DEADLOCK FALSE
