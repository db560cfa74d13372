SPECIFICATION Spec
CONSTANTS
  Nobody = Nobody
  Runs = {r1}
  Batches = {b1,b2}
  FactNames = {"collector"}
  Workers = {w1,w2}
  Callers = {c1}
  Finalizers = {f1,f2}
  ZeroDrain = TRUE
  Faults = 1
  Crashes = 0
  Losses = 0
  Calls = 1
  Endings = 1
  Regrades = 1
  Routes <- MCRoutes
  Bounds <- MCBounds
SYMMETRY Symmetry
INVARIANTS SeqsDistinct SealedIsWhatCounts
PROPERTIES ImplementsPromise
CHECK_DEADLOCK FALSE
