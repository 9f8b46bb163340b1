\* A member of the managing group changes the group.
SPECIFICATION Spec
CONSTANTS
  w1 = w1
  w2 = w2
  s1 = s1
  root = root
  bob = bob
  good = good
  bad = bad
  g1 = g1
  g2 = g2
  k1 = k1
  z0 = z0
  z1 = z1
  kv1 = kv1
  v1 = v1
  NoEntity = NoEntity
  NoID = NoID
  NoSecret = NoSecret
  NoMeta = NoMeta
  NoText = NoText
  NoGroup = NoGroup
  Entities = {root, bob}
  Secrets = {good, bad}
  Groups = {g1, g2}
  Capabilities <- MCCapabilities
  Keys = {k1}
  Contained <- MCContained
  MetaKeys = {z0, z1}
  BaseKey <- MCBaseKey
  KVKeys = {kv1}
  Values = {v1}
  NameIn <- MCNameIn
  MaxInt32 = 7
  Workers = {w1}
  Servers = {s1}
  ReadOnly = {}
  Offers <- ManagerOffers
  Directories <- MCDirectories
  FirstTokens <- MCTokens
  Lifetime = 1
  MaxTime = 0
  MaxRequests <- OneRequest
  MaxCrashes = 0
CHECK_DEADLOCK FALSE
INVARIANTS
  DelegationHonoured
