SPECIFICATION Spec
CONSTANTS
  u1 = u1
  u2 = u2
  Users = {u1, u2}
  Shards = {1, 2}
  Rests = {"a", "b"}
  Contents = {0, 1, 2}
INVARIANTS
  TypeOK
  NeverTorn
PROPERTIES
  BoundForever
  FlushIsAtomic
SYMMETRY UserSymmetry
