SPECIFICATION MCSpec
CONSTANTS
  Conns = {c1, c2}
  Runs = {r1, r2}
  NStartHooks = 1
  NStopHooks = 2
  ShutdownTimeout = 2
  GracePeriod = 1
  MaxEdits = 2
  Watch = Watch
  ByHand = {hand}
  Docs = {d1}
INVARIANTS TypesOK DbOutlivesConnections GraceRespected DeadlineKept SuccessIsComplete
INVARIANTS CompleteSyncIsCurrent WatcherNeverLoops
PROPERTIES SignalledProcessEnds MeetsContract HeardEditsReachFiles
CHECK_DEADLOCK FALSE
