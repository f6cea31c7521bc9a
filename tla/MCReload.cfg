\* Five versions of the specs file, in any order, any number of times.
SPECIFICATION Spec
CONSTANTS
  grp = grp
  srv = srv
  job = job
  lazy = lazy
  Files <- MCFiles
  FirstFile <- File1
  NoLabels <- Empty
INVARIANTS
  TypeOK
  InstancesMatchSpecs
  RunsCurrentCode
  NoneForgotten
