\* Strings are interned and collected in any order.
SPECIFICATION PoolSpec
CONSTANTS
  k1 = k1
  k2 = k2
  k3 = k3
  k4 = k4
  Keys = {k1, k2, k3, k4}
  Nil = Nil
  True = True
  Values = {Nil}
  NoKey = NoKey
  Absent = Absent
  Hash <- MCHash
  Deletable = {k1, k2, k3, k4}
  MinCapacity = 4
  MaxCapacity = 16
CHECK_DEADLOCK FALSE
INVARIANTS
  PoolTypeOK
  StringsAreUnique
PROPERTIES
  MarkedStringsStay
