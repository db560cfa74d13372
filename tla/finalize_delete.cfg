SPECIFICATION Spec
CONSTANTS
  NoRun = NoRun
  Runs = {r1}
  Static = {}
  Graders = {g1,g2}
  Enders = {e1}
  ZeroDrain = FALSE
  MaxArrivals = 1
  MaxSettings = 0
  Bounds <- DeleteOrBoot
SYMMETRY Symmetry
INVARIANTS GradingExclusive GradeHasItsRow ReleasedMeansGone NoStrandedEnvironment CrashedMeansDied
PROPERTIES ResultIsKept
CHECK_DEADLOCK FALSE
