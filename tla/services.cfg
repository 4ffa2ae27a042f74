SPECIFICATION ServicesSpec
CONSTANTS
  m1 = m1
  m2 = m2
  n1 = n1
  n2 = n2
  t1 = t1
  t2 = t2
  r1 = r1
  r2 = r2
  r3 = r3
  l1 = l1
  l2 = l2
  NoToken = NoToken
  NoName = NoName
  Machines = {m1, m2}
  NodeIds = {n1, n2}
  Tokens = {t1, t2}
  MaxUses <- Uses
  EnvToken <- Env
  OwnName <- Names
  MaxCerts = 3
  MaxFaults = 1
  Requests = {r1, r2, r3}
  Writes = {r1, r3}
  Oversized = {r3}
  MaxExits = 2
  Lines = {l1, l2}
  MaxUnshipped = 1
  MaxPosts = 2
  MaxCrashes = 1
CHECK_DEADLOCK FALSE
INVARIANT ServicesTypeOK
INVARIANT WithinUses
INVARIANT KeptOut
INVARIANT WriteRunsOnce
INVARIANT NoneMislaid
INVARIANT ShippedIsAtCentral
PROPERTY RenewsWithoutToken
PROPERTY BackendReturns
