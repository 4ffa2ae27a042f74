SPECIFICATION DecisionSpec
CONSTANTS
  c1 = c1
  c2 = c2
  c3 = c3
  i1 = i1
  i2 = i2
  a1 = a1
  a2 = a2
  d1 = d1
  d2 = d2
  Pauses <- NoPause
  Leases <- NoLease
  Settings <- OneSetting
  MaxWrites = 3
  Calls = {c1}
  Inputs = {i1, i2}
  InputOf <- TwoAlike
  MaxCrashes = 0
  Proposals = {a1}
  Actions = {"grant"}
  Deciders = {d1}
  MaxGrants = 1
PROPERTY RevokedRoleStops
