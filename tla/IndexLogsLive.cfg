SPECIFICATION FairSpec
CONSTANTS
  N = 2
  M = 2
  Keys = {k1}
  Ptrs = {p1}
  Invalid = Invalid
  t1 = t1
  t2 = t2
  t3 = t3
  Threads = {t1, t2}
  Home <- OneAndOne
  MaxOps = 3
PROPERTIES EveryAppendReturns EveryEntryApplied
