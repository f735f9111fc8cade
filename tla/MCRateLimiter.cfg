SPECIFICATION Spec
CONSTANTS
  Clients = {c1, c2}
  Handlers = {h1, h2}
  Burst = 2
  Rate = 1
  Cost = 2
  Second = 3
  SweepInterval = 3
  MaxKeys = 1
  MaxStall = 1
  MaxTime = 9
SYMMETRY Interchangeable
INVARIANTS
  TypeOK
  HeldBucketsAreKept
  MapStaysBounded
PROPERTY EvictionIsInvisible
