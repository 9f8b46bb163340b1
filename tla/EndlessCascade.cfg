\* One thread; a rule is dropped and turned round.
SPECIFICATION Spec
CONSTANTS
  A = A
  B = B
  C = C
  NoGroup = NoGroup
  Unresolved = Unresolved
  Groups = {A, B}
  NameIn <- MCNameIn
  Threads = {t1}
  Edges <- EitherWay
  Removable = {}
  MaxCrashes = 0
INVARIANTS
  NoReentry
