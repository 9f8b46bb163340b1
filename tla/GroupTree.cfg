\* Two goroutines whose clients keep conflicting requests apart.
SPECIFICATION FairSpec
CONSTANTS
  w1 = w1
  w2 = w2
  g1 = g1
  g2 = g2
  g3 = g3
  g4 = g4
  cap = cap
  k1 = k1
  z0 = z0
  z1 = z1
  kv1 = kv1
  v1 = v1
  v2 = v2
  NoEntity = NoEntity
  NoID = NoID
  NoSecret = NoSecret
  NoMeta = NoMeta
  NoText = NoText
  NoGroup = NoGroup
  Entities = {}
  Secrets = {}
  Groups = {g1, g2, g3, g4}
  Capabilities = {cap}
  Keys = {k1}
  Contained <- MCContained
  MetaKeys = {z0, z1}
  BaseKey <- MCBaseKey
  KVKeys = {kv1}
  Values = {v1}
  NameIn <- MCNameIn
  MaxInt32 = 7
  Workers = {w1, w2}
  Requests <- MCRequests
  Populations <- MCPopulations
  Faults = {"put", "del"}
  Exclusive = TRUE
  MaxAutoNumber = 3
INVARIANTS
  TypeOK
  RuleTargetsKnown
  RulesAcyclic
  GroupNumbersUnique
PROPERTIES
  ImplementsGroups
  GroupRequestsAnswered
