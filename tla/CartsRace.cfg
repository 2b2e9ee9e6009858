\* Requests of a customer and of a guest session on two connections.
SPECIFICATION Spec
CONSTANTS
  t1 = t1  t2 = t2  a = a  g = g  c1 = c1  c2 = c2  c3 = c3  x = x  y = y
  Txns = {t1, t2}
  Customers = {a}
  Sessions = {g}
  CartIds = {c1, c2, c3}
  Variants = {x}
  Quantities = {0, 1}
  Ops <- AnyOp
  MaxRequests = 4
  MaxAborts = 1
SYMMETRY Connections
INVARIANTS
  OneActiveCart
  NothingInvented
CHECK_DEADLOCK FALSE
