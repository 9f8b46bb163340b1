\* Two goroutines whose clients keep conflicting requests apart, and a crash.
SPECIFICATION AckSpec
CONSTANTS
  a = a
  b = b
  w1 = w1
  w2 = w2
  good = good
  bad = bad
  g = g
  cap = cap
  k1 = k1
  k2 = k2
  z0 = z0
  z1 = z1
  kv1 = kv1
  v1 = v1
  v2 = v2
  NoEntity = NoEntity
  NoID = NoID
  NoSecret = NoSecret
  NoMeta = NoMeta
  NoText = NoText
  Entities = {a, b}
  Secrets = {good, bad}
  Groups = {g}
  Capabilities = {cap}
  Keys = {k1, k2}
  Contained <- MCContained
  MetaKeys = {z0, z1}
  BaseKey <- MCBaseKey
  KVKeys = {kv1}
  Values = {v1, v2}
  MaxInt32 = 7
  Workers = {w1, w2}
  Requests <- NumberRequests
  Searching = TRUE
  Populations <- FreshOrOne
  Faults = {}
  StrictDelete = FALSE
  Exclusive = TRUE
  MaxAutoNumber = 3
  MaxCrashes = 1
SYMMETRY WorkerSymmetry
INVARIANTS
  NumbersUnique
  CopiesCoherent
  BarredCannotAuthenticate
PROPERTIES
  ImplementsDirectory
