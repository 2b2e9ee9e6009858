\* One request at a time, at most one of them interrupted, against CartBags.
SPECIFICATION Spec
CONSTANTS
  t1 = t1  t2 = t2  a = a  g = g  c1 = c1  c2 = c2  c3 = c3  x = x  y = y
  Txns = {t1}
  Customers = {a}
  Sessions = {g}
  CartIds = {c1, c2, c3}
  Variants = {x, y}
  Quantities = {0, 1, 2}
  Ops <- AnyOp
  MaxRequests = 4
  MaxAborts = 1
PROPERTIES
  BagsHold
CHECK_DEADLOCK FALSE
