SPECIFICATION MCSpec
CONSTANTS
  NoRun = NoRun
  Runs = {r1, r2}
  Procs = {p1, p2}
  Main = p1
  Pool = 2
  Budgets <- Mixed
  Commands = {c1}
  Pids = {1, 2, 3}
  LastPort = 3
  StackFaults <- StackScenarios
  HostIps = {"a", "b"}
  PlaneFaults = 2
  PlaneEvents = 2
  Releases = {"r1", "r2"}
  LibraryFaults <- LibraryScenarios
  Askers = {"asker"}
  HostChanges = 1
  NestedFaults = 1
  Services = {"web", "db"}
  Missions <- MCMissions
  Block = 16
  AgentNodes = 2
  Terminals = {"cli"}
  Pages = {"page"}
  JobLimit = 2
  JobFaults <- JobScenarios
  RunIds = {r1, r2}
  Runners = {"q1", "q2"}
  RunnerCalls <- RunnerScenarios
SYMMETRY Symmetry
INVARIANTS LeaseExclusive NoLostEnvironment AclIsSound InstallIsWhole JobsAreTold
INVARIANTS UpIsTrusted NestingIsHonest NetworkIsConfined
PROPERTIES CommandsHold RunnerIsHonest
CHECK_DEADLOCK FALSE
