CONSTANTS
  main = main
  part = part
  widget = widget
  f1 = f1
  f2 = f2
  c1 = c1
  r1 = r1
  r2 = r2
  q1 = q1
  q2 = q2
  Libraries = {main, part, widget}
  Contents = {c1}
  Files = {f1, f2}
  Requests = {r1, r2}
  NoLibrary = NoLibrary
  NoContent = NoContent
  NoPackage = NoPackage
  Queries = {q1, q2}
  MaxVersion = 2
  Preloaded <- MCPreloaded
  Editor <- MCEditor
  Dynamic <- MCDynamic
  Packages <- MCPackages
  Environments <- MCEnvironments
  HubEnvironments <- MCHubEnvironments
SPECIFICATION ServerSpec
SYMMETRY RequestSymmetry
INVARIANT ContentHasItsLibraries
INVARIANT ImportIsAllOrNothing
INVARIANT ExportsCanBeImported
INVARIANT PackagesAreCleanedUp
INVARIANT UpdateTimeHasList
INVARIANT OneIdentity
INVARIANT MetadataIsAnswered
PROPERTY DependentsKeepTheirLibraries
CHECK_DEADLOCK FALSE
