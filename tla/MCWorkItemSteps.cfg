SPECIFICATION Spec
CONSTANTS
  w1 = w1  w2 = w2  h1 = h1  h2 = h2  a1 = a1  a2 = a2
  WorkItems = {w1, w2}
  Hypotheses = {h1, h2}
  Owner <- MCOwner
  Articles = {a1, a2}
  MaxCycles = 2
  MaxFetched = 1
  MaxSets = 1
  MaxBatch = 1
  MaxFrontier = 1
  MaxPerStep = 2
  MaxCalls = 5
SYMMETRY MCSymmetry
INVARIANTS SelectedForOwner NothingOverlooked
PROPERTIES ReviewBeforeExploring
CHECK_DEADLOCK FALSE
