SPECIFICATION FairSpec
CONSTANTS
  Nobody = Nobody
  Runs = {r1,r2}
  Batches = {b1}
  FactNames = {"collector"}
  Workers = {w1}
  Callers = {}
  Finalizers = {f1}
  ZeroDrain = FALSE
  Faults = 1
  Crashes = 1
  Losses = 1
  Calls = 0
  Endings = 0
  Regrades = 0
  Routes <- MCRoutes
  Bounds <- MCBounds
INVARIANTS DeliveryIsExact
PROPERTIES EveryBatchIsAnswered
CHECK_DEADLOCK FALSE
