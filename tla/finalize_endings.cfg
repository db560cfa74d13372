SPECIFICATION Spec
CONSTANTS
  NoRun = NoRun
  Runs = {r1}
  Static = {}
  Graders = {g1}
  Enders = {e1,e2}
  ZeroDrain = TRUE
  MaxArrivals = 1
  MaxSettings = 1
  Bounds <- Endings
SYMMETRY Symmetry
INVARIANTS NoPhantomScore
PROPERTIES ImplementsOutcome
CHECK_DEADLOCK FALSE
