SPECIFICATION Spec
CONSTANTS
  p1 = p1
  c1 = c1
  Grants = {g1, g2}
  Principals = {p1}
  Capabilities = {c1}
  PrincipalOf <- MCPrincipalOf
  CapabilityOf <- MCCapabilityOf
  Writers = {w1}
  PageSize = 1
  InitialLog <- MCHoled
  InitialVersion = 4
  MaxVersion = 6
  MirrorMayFail = FALSE
  NotesRecorded = FALSE
  CanSkew = TRUE
INVARIANT TypeOK
INVARIANT ReplicaNotBehind
INVARIANT MirrorCoversReplica
PROPERTY NoRewind
PROPERTY Converges
PROPERTY RevocationLands
