SPECIFICATION LimitsSpec
CONSTANTS
  Pairs = {q1, q2}
  Cost = 2
  Velocities <- TwoVelocities
  MaxBuckets = 1
  MaxTime = 2
  MaxSetBack = 1
  MaxRestarts = 1
  MaxRegrants = 1
  Legs <- SomeLegs
  Attempts <- SomeAttempts
  MaxLegs = 3
  Absent = Absent
  Null = Null
  Junk = Junk
  Profiles <- SomeProfiles
  Floors <- SomeFloors
  PauseAsks <- SomePauses
  LeaseAsks <- SomeLeases
  Jumps = {5, 25}
  MaxMinutes = 35
  MaxBehind = 1
  k1 = k1
  k2 = k2
  ra = ra
  rb = rb
  Owned = {k1, k2}
  Skills = {k2}
  PackageRoles = {ra}
  OtherRoles = {rb}
  RolesFor <- SomeRoles
  Operators = {w1, w2}
  MaxIssued = 2
  MaxByHand = 1
  Openers = {s, t}
  LastVersion = 4
  Signalling = {2, 3}
  LifeVersion = 4
  MaxRows = 2
  MaxBreaks = 1
  p1 = p1
  c1 = c1
  Grants = {g1}
  Principals = {p1}
  Capabilities = {c1}
  PrincipalOf <- MCPrincipalOf
  CapabilityOf <- MCCapabilityOf
  Writers = {w1, w2}
  PageSize = 1
  InitialLog <- MCHoled
  InitialVersion = 4
  MaxVersion = 5
  MirrorMayFail = TRUE
  NotesRecorded = TRUE
  CanSkew = TRUE
CHECK_DEADLOCK FALSE
SYMMETRY MCSymmetry
INVARIANT TablesMatchLog
INVARIANT LimitsAsTold
INVARIANT OpensWhole
INVARIANT VerifiesAfterUpgrade
INVARIANT PackagesKeepWord
PROPERTY ImplementsRevocation
