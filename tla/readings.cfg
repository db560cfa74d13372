SPECIFICATION MCSpec
CONSTANTS
  Sessions <- MCSessions
  TraceFaults <- TraceScenarios
  poller = poller
  viewer = viewer
  finalizer = finalizer
  Pollers = {poller}
  Viewers = {viewer, finalizer}
  Finalizer = finalizer
  Batches = 2
  Traffic <- MCTraffic
  DrainLimit = 2
  MapFaults <- MapScenarios
  CheckCount = 3
  Criteria = 2
  Weights = {1, 2}
  Attempts = {a1, a2}
  Marks = {0, 1, 3}
  Desks = {d1, d2}
  Played = {r1, r2}
  Authored <- MCAuthored
  Policies = {{}, {"i2", "i3"}}
  SeenMax = 1
  Horizon = 2
  Asked <- ControlScenarios
  PollAttempts = 2
  Manifests <- MCManifests
  Sights = {"join", "prompt", "intel", "complete", "batch"}
  LogLimit = 3
  VerdictLimit = 2
  Remotes = {"u", "v"}
  PageLoads = {l1, l2}
  Bulletins <- MCBulletins
  RowLimit = 4
  NewsTtl = 1
  NewsWait = 1
  FetchLimit = 2
  NewsEnd = 2
  NewsEvents = 1
  EditionLimit = 3
  BrowseEvents = 6
SYMMETRY Symmetry
INVARIANTS NoUpdateIsMissed TraceIsWhole EventsAreFollowed TerrainIsHistory GradesAreEarned ControlIsSound NewsIsCurrent
PROPERTIES OnlyScoresCount
CHECK_DEADLOCK FALSE
