CONSTANTS
  main = main
  a = a
  b = b
  s1 = s1
  s2 = s2
  s3 = s3
  s4 = s4
  f1 = f1
  f2 = f2
  i1 = i1
  i2 = i2
  Libraries = {main, a, b}
  Main = main
  Nothing = Nothing
  Imports = {i1, i2}
  Slots = {s1, s2, s3, s4}
  Files = {f1, f2}
  LongFiles = {f2}
  PackageLibraries = {main, a, b}
  None = None
  Graphs <- MCGraphs
  Core <- MCCore
  Packages <- MCPackages
  Scenarios <- MCScenarios
SPECIFICATION AlgorithmsSpec
SYMMETRY ImportSymmetry
INVARIANT PlayerListIsComplete
INVARIANT EditorListIsComplete
INVARIANT MetadataNamesAll
INVARIANT VerdictsAreRight
INVARIANT ParametersAreComplete
CHECK_DEADLOCK FALSE
