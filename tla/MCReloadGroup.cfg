\* A group removed together with a member.
SPECIFICATION Spec
CONSTANTS
  grp = grp
  srv = srv
  job = job
  lazy = lazy
  Files <- MCFiles
  FirstFile <- File1
  NoLabels <- Empty
INVARIANTS
  RemovedIsForgotten
