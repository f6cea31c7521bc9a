\* Requests that do not overlap, one slow /v0/wait, for every spec of MCService.
SPECIFICATION FairSpec
CONSTANTS
  Controllers = {c1}
  Observers = {o1}
  Main = main
  MaxStarts = 3
  Specs <- AllSpecs
  Serial = TRUE
INVARIANTS
  TypeOK
  OneLiveProcess
  DoneIsCurrent
  NothingLeft
PROPERTIES
  KillLeavesDead
  ChildrenReaped
  KillReturns
  CrashReported
  StartNoticesExit
