\* Every call that creates, authenticates or searches may fail, and the server may crash.
SPECIFICATION FairSpec
CONSTANTS
  a = a
  b = b
  w1 = w1
  w2 = w2
  good = good
  bad = bad
  g = g
  cap = cap
  k1 = k1
  k2 = k2
  z0 = z0
  z1 = z1
  kv1 = kv1
  v1 = v1
  v2 = v2
  NoEntity = NoEntity
  NoID = NoID
  NoSecret = NoSecret
  NoMeta = NoMeta
  NoText = NoText
  Entities = {a}
  Secrets = {good, bad}
  Groups = {g}
  Capabilities = {cap}
  Keys = {k1, k2}
  Contained <- MCContained
  MetaKeys = {z0, z1}
  BaseKey <- MCBaseKey
  KVKeys = {kv1}
  Values = {v1, v2}
  MaxInt32 = 7
  Workers = {w1, w2}
  Requests <- FaultRequests
  Searching = TRUE
  Populations <- FreshOrLocked
  Faults = {"get", "put", "secure"}
  StrictDelete = FALSE
  Exclusive = FALSE
  MaxAutoNumber = 1
  MaxCrashes = 1
INVARIANTS
  TypeOK
PROPERTIES
  NoErrorAfterWrite
  EventuallyAnswered
