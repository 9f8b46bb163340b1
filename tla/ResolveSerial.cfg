\* One change at a time, of rules that are dropped and turned round, and a crash.
SPECIFICATION FairSpec
CONSTANTS
  A = A
  B = B
  C = C
  NoGroup = NoGroup
  Unresolved = Unresolved
  Groups = {A, B, C}
  NameIn <- MCNameIn
  Threads = {t1}
  Edges <- Turning
  Removable = {A}
  MaxCrashes = 1
CONSTRAINT NestedAtMost
INVARIANTS
  ResolvesOnce
  Resolved
PROPERTIES
  ServesAgain
