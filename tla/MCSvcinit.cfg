\* A boot, a test and a shutdown in every mode, with crashes and Ctrl-C anywhere.
SPECIFICATION FairSpec
CONSTANTS
  db = db
  fixtures = fixtures
  app = app
  grp = grp
  lazy = lazy
  Targets <- BootTargets
  Deps <- DepsOf
  Type <- TypeOf
  DeferredAttr = {lazy}
  Enforce = {db, app}
  HealthTimeout <- TimeoutOf
  Modes = {"test", "keepUp", "run"}
INVARIANTS
  TypeOK
  StartedInOrder
  TestAfterStartup
  StoppedInOrder
  OkMeansStopped
  TestVerdict
  EnforcedShutdown
PROPERTIES
  CtrlCEnds
  OneShotEnds
