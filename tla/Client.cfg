\* Commands of every kind, next to others that share its token cache, a clock that
\* moves and servers that die.
SPECIFICATION FairClientSpec
CONSTANTS
  w1 = w1
  w2 = w2
  master = master
  replica = replica
  root = root
  bob = bob
  good = good
  bad = bad
  g1 = g1
  k1 = k1
  z0 = z0
  z1 = z1
  kv1 = kv1
  v1 = v1
  NoEntity = NoEntity
  NoID = NoID
  NoSecret = NoSecret
  NoMeta = NoMeta
  NoText = NoText
  NoGroup = NoGroup
  Entities = {root, bob}
  Secrets = {good, bad}
  Groups = {g1}
  Capabilities <- MCCapabilities
  Keys = {k1}
  Contained <- MCContained
  MetaKeys = {z0, z1}
  BaseKey <- MCBaseKey
  KVKeys = {kv1}
  Values = {v1}
  NameIn <- MCNameIn
  MaxInt32 = 7
  Workers = {w1, w2}
  Servers = {master, replica}
  ReadOnly = {replica}
  Offers <- MCNone
  Directories <- MCDirectories
  FirstTokens <- MCTokens
  Lifetime = 1
  MaxTime = 1
  MaxRequests <- MCNoRequests
  MaxCrashes = 1
  Offered <- MCOffered
  CoreServer = replica
  CoreMaster = master
  FirstFiles <- MCFiles
  MaxCommands <- MCMaxCommands
CHECK_DEADLOCK FALSE
INVARIANTS
  ClientTypeOK
  WritesReachMaster
  CarriesOwnToken
  RefusedOnlyByTime
PROPERTIES
  CommandsEnd
