\* Assignment, aliases, services that come and go, and strangers that bind.
SPECIFICATION Spec
CONSTANTS
  db = db
  web = web
  grpc = grpc
  metrics = metrics
  admin = admin
  pub = pub
  pubOfPub = pubOfPub
  dangling = dangling
  added = added
  p1 = p1
  p2 = p2
  p3 = p3
  p4 = p4
  p5 = p5
  p6 = p6
  Zero = Zero
  Unset = Unset
  Empty = Empty
  PortNumbers <- SomePorts
  Names <- SomeNames
  Assigned = {db, web, grpc, metrics, admin}
  Flag <- FlagOf
  Aware = {db, admin}
  AliasOf <- AliasesOf
SYMMETRY Interchangeable
INVARIANTS
  TypeOK
  AssignedApart
  SvcctlApart
  HeldCanBind
  NamesResolve
