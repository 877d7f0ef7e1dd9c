SPECIFICATION Spec
CONSTANTS
  N = 2
  M = 2
  Keys = {k1}
  Ptrs = {p1}
  Invalid = Invalid
  t1 = t1
  t2 = t2
  t3 = t3
  Threads = {t1, t2, t3}
  Home <- TwoAndOne
  MaxOps = 1
INVARIANTS TypeOK NoWildWrite
