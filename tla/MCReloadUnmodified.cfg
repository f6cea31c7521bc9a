\* A service that did not change and runs.
SPECIFICATION Spec
CONSTANTS
  grp = grp
  srv = srv
  job = job
  lazy = lazy
  Files <- MCFiles
  FirstFile <- File1
  NoLabels <- Empty
INVARIANTS
  UnmodifiedKeepRunning
