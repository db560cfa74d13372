SPECIFICATION Spec
CONSTANTS
  NoRun = NoRun
  Runs = {r1}
  Static = {r1}
  Graders = {g1}
  Enders = {e1}
  ZeroDrain = FALSE
  MaxArrivals = 1
  MaxSettings = 0
  Bounds <- Restart
SYMMETRY Symmetry
INVARIANTS CrashedMeansDied
CHECK_DEADLOCK FALSE
