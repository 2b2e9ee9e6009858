\* A login, a refresh and a second use of the first token.
SPECIFICATION Spec
CONSTANTS
  t1 = t1  t2 = t2  k1 = k1  k2 = k2  k3 = k3  f1 = f1  f2 = f2
  Txns = {t1}
  Tokens = {k1, k2, k3}
  Families = {f1, f2}
  MaxRequests = 3
  MaxAborts = 0
INVARIANTS
  ReuseEndsFamily
CHECK_DEADLOCK FALSE
