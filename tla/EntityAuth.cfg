\* Two goroutines authenticate, lock, replace, remove and search for one entity,
\* with a crash.
SPECIFICATION SearchSpec
CONSTANTS
  a = a
  b = b
  w1 = w1
  w2 = w2
  good = good
  bad = bad
  g = g
  cap = cap
  k1 = k1
  k2 = k2
  z0 = z0
  z1 = z1
  kv1 = kv1
  v1 = v1
  v2 = v2
  NoEntity = NoEntity
  NoID = NoID
  NoSecret = NoSecret
  NoMeta = NoMeta
  NoText = NoText
  Entities = {a}
  Secrets = {good, bad}
  Groups = {g}
  Capabilities = {cap}
  Keys = {k1, k2}
  Contained <- MCContained
  MetaKeys = {z0, z1}
  BaseKey <- MCBaseKey
  KVKeys = {kv1}
  Values = {v1, v2}
  MaxInt32 = 7
  Workers = {w1, w2}
  Requests <- AuthRequests
  Searching = TRUE
  Populations <- FreshOrOne
  Faults = {"put", "del", "secure"}
  StrictDelete = TRUE
  Exclusive = FALSE
  MaxAutoNumber = 4
  MaxCrashes = 1
SYMMETRY WorkerSymmetry
INVARIANTS
  AuthSound
  CopiesCoherent
  UntouchedAreFound
PROPERTIES
  CreateOnlyIfAbsent
