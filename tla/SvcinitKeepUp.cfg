\* A service crashes while a test with keep_services_up runs.
SPECIFICATION Spec
CONSTANTS
  db = db
  fixtures = fixtures
  app = app
  grp = grp
  lazy = lazy
  Targets <- BootTargets
  Deps <- DepsOf
  Type <- TypeOf
  DeferredAttr = {lazy}
  Enforce = {db, app}
  HealthTimeout <- TimeoutOf
  Modes = {"test", "keepUp", "run"}
INVARIANTS
  CrashSurvived
