SPECIFICATION Spec
CONSTANTS
  t0 = t0
  k1 = k1
  k2 = k2
  N = 3
  Keys = {k1, k2}
  Ptrs = {p1, p2}
  Invalid = Invalid
  Threads = {t0}
  Home <- OnlyFirst
  NumTokens = 4
  MaxOps = 3
INVARIANTS CopiesCatchUp TokensConserved
CHECK_DEADLOCK FALSE
