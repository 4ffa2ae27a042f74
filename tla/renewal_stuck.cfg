SPECIFICATION CredentialsSpec
CONSTANTS
  m1 = m1
  m2 = m2
  n1 = n1
  n2 = n2
  t1 = t1
  t2 = t2
  r1 = r1
  r2 = r2
  r3 = r3
  l1 = l1
  l2 = l2
  NoToken = NoToken
  NoName = NoName
  Machines = {m1, m2}
  NodeIds = {n1, n2}
  Tokens = {t1}
  MaxUses <- One
  EnvToken <- Env
  OwnName <- Names
  MaxCerts = 2
  MaxFaults = 0
  Requests = {r1}
  Writes = {}
  Oversized = {}
  MaxExits = 0
  Lines = {l1, l2}
  MaxUnshipped = 1
  MaxPosts = 2
  MaxCrashes = 1
CHECK_DEADLOCK FALSE
PROPERTY RenewsItself
