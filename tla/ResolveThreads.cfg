\* Two changes at a time, of groups that come and go with rules about them.
SPECIFICATION FairSpec
CONSTANTS
  A = A
  B = B
  C = C
  NoGroup = NoGroup
  Unresolved = Unresolved
  Groups = {A, B}
  NameIn <- MCNameIn
  Threads = {t1, t2}
  Edges <- DownwardAB
  Removable = {A, B}
  MaxCrashes = 0
INVARIANTS
  TypeOK
  NoReentry
PROPERTIES
  CallbacksEnd
  LinksLostByRemovalOnly
