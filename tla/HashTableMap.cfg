\* A table nobody deletes from: globals of a correct program, fields, methods.
SPECIFICATION Spec
CONSTANTS
  k1 = k1
  k2 = k2
  k3 = k3
  k4 = k4
  Keys = {k1, k2, k3, k4}
  Nil = Nil
  True = True
  Values = {Nil, True}
  NoKey = NoKey
  Absent = Absent
  Hash <- MCHash
  Deletable <- NoDeletes
  MinCapacity = 4
  MaxCapacity = 8
PROPERTIES
  ImplementsMap
