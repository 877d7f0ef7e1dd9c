SPECIFICATION MCSpec
CONSTANTS
  Requests = {r1, r2, r3}
  Slots = {s1, s2}
  Tokens = {t1, t2}
  Workers = {w1, w2}
  None = None
INVARIANTS NoTokenPanic ExclusiveUse
PROPERTIES ImplementsAsyncReads EveryReadAnswered
