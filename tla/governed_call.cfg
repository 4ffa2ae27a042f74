SPECIFICATION GovernedSpec
CONSTANTS
  c1 = c1
  c2 = c2
  c3 = c3
  i1 = i1
  i2 = i2
  a1 = a1
  a2 = a2
  d1 = d1
  d2 = d2
  Pauses <- SomePauses
  Leases <- SomeLeases
  Settings <- AllSettings
  MaxWrites = 3
  Calls = {c1, c2, c3}
  Inputs = {i1, i2}
  InputOf <- TwoAlike
  MaxCrashes = 1
  Proposals = {a1, a2}
  Actions = {"grant_capability", "grant"}
  Deciders = {d1, d2}
  MaxGrants = 3
SYMMETRY Symmetry
CHECK_DEADLOCK FALSE
INVARIANT CallTypeOK
INVARIANT RevokedNeverRuns
INVARIANT FailsClosed
INVARIANT NeverGrantedNeverRuns
INVARIANT RowsTellOfRuns
INVARIANT ResultIsItsGrant
