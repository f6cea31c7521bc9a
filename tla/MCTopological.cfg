\* Two of six tasks may hang; there is one worker more than that.
SPECIFICATION FairSpec
CONSTANTS
  db = db
  cache = cache
  app = app
  group = group
  extra = extra
  slow = slow
  Tasks <- DiamondTasks
  Deps <- DiamondDeps
  Workers = {w1, w2, w3}
  Hanging <- HangingServices
  NoTask = NoTask
  Given <- GivenGraphs
  Timings <- RunTimings
INVARIANTS
  TypeOK
  DependenciesFirst
  EachTaskOnce
  NoLostWakeup
  FailureBlocksDependents
  NilMeansAllCompleted
  ReversedGraphExact
  CriticalPathHeaviest
PROPERTIES
  NoStartAfterDie
  Termination
  OthersProceed
  OrderSpec
