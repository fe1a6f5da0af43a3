\* A table whose keys may be deleted, as the interned strings are.
SPECIFICATION Spec
CONSTANTS
  k1 = k1
  k2 = k2
  k3 = k3
  k4 = k4
  Keys = {k1, k2, k3, k4}
  Nil = Nil
  True = True
  Values = {Nil, True}
  NoKey = NoKey
  Absent = Absent
  Hash <- MCHash
  Deletable = {k1, k2, k3, k4}
  MinCapacity = 4
  MaxCapacity = 8
INVARIANTS
  TypeOK
  CountCoversBuckets
  AlwaysAnEmptyEntry
  StoredKeysAreFound
  DeletedIsGone
PROPERTIES
  LastWriteVisible
