\* Two clients at once, and a deferred service that both start.
SPECIFICATION Spec
CONSTANTS
  Controllers = {c1, c2}
  Observers = {}
  Main = main
  MaxStarts = 3
  Specs <- LoneSpecs
  Serial = FALSE
INVARIANTS
  OneLiveProcess
