SPECIFICATION Spec
CONSTANTS
  k1 = k1
  k2 = k2
  k3 = k3
  t1 = t1
  t2 = t2
  NoValue = NoValue
  Keys = {k1, k2, k3}
  Values = {1, 2}
  Threads = {t1, t2}
  HashValue <- Hashes
  NumElements = 4
  NumLocks = 2
  Byte = {0, 1}
  NPos = 9
PROPERTIES IsAtomic
SYMMETRY Symmetry
