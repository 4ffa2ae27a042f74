SPECIFICATION Safety
CONSTANTS
  p1 = p1
  c1 = c1
  Grants = {g1}
  Principals = {p1}
  Capabilities = {c1}
  PrincipalOf <- MCPrincipalOf
  CapabilityOf <- MCCapabilityOf
  Writers = {w1, w2}
  PageSize = 2
  InitialLog <- MCFresh
  InitialVersion = 1
  MaxVersion = 3
  MirrorMayFail = FALSE
  NotesRecorded = FALSE
  CanSkew = FALSE
INVARIANTS
  ReplicaNotBehind
