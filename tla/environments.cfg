SPECIFICATION MCSpec
CONSTANTS
  NoRun = NoRun
  Runs = {r1, r2}
  Procs = {p1, p2}
  Main = p1
  Pool = 2
  Budgets <- OneOf
  Watched = {w1}
  Listeners = {l1, l2}
  Strikes = 2
  GateFaults <- GateScenarios
  Backlog = 3
  Batch = 1
  BackoffMax = 3
  Stubborn <- StubbornSets
  SweepFaults = 1
  Joins = {j1}
  HostKinds <- Hosts
  ProxyPorts = {1, 2}
  Tries = 2
  JoinFaults <- JoinScenarios
INVARIANTS OneGate ProxyIsItsOwn
PROPERTIES ReservationResolves FailedIsClosed NoneStarved JoinedIsReaped
CHECK_DEADLOCK FALSE
