SPECIFICATION Spec
CONSTANTS
  Nobody = Nobody
  Runs = {r1}
  Batches = {b1}
  FactNames = {"collector"}
  Workers = {w1}
  Callers = {c1}
  Finalizers = {f1}
  ZeroDrain = FALSE
  Faults = 0
  Crashes = 0
  Losses = 0
  Calls = 1
  Endings = 0
  Regrades = 0
  Routes <- MCRoutes
  Bounds <- MCBounds
SYMMETRY Symmetry
INVARIANTS UntouchedEvidenceVerifies
CHECK_DEADLOCK FALSE
