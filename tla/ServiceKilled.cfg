\* One client at a time: an exit it caused must not be reported as a crash.
SPECIFICATION Spec
CONSTANTS
  Controllers = {c1}
  Observers = {o1}
  Main = main
  MaxStarts = 3
  Specs <- BootedSpecs
  Serial = TRUE
INVARIANTS
  KilledNotReported
