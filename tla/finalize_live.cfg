SPECIFICATION FairSpec
CONSTANTS
  NoRun = NoRun
  Runs = {r1}
  Static = {}
  Graders = {g1}
  Enders = {e1}
  ZeroDrain = FALSE
  MaxArrivals = 1
  MaxSettings = 0
  Bounds <- OneFault
PROPERTIES EveryEndingIsReleased EveryAttemptIsGraded EveryEndingIsSealed
CHECK_DEADLOCK FALSE
