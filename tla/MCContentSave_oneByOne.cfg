SPECIFICATION Spec
CONSTANTS
  Contents = {c1, c2}
  Requests = {r1, r2}
  Files = {f1, f2}
  SlotCount = 2
  NoContent = NoContent
  NoFile = NoFile
  Environments <- OneByOne
  MaxSaves = 3
SYMMETRY Symmetry
INVARIANT NoUnusedFiles
INVARIANT StoredReferencesResolve
PROPERTY UploadsKept
PROPERTY ReferencedFilesStay
CHECK_DEADLOCK FALSE
