\* Three connections: every operation, interleaved statement by statement.
SPECIFICATION Spec
CONSTANTS
  o1 = o1  o2 = o2  o3 = o3  c1 = c1  c2 = c2  c3 = c3  t1 = t1  t2 = t2  t3 = t3
  Txns = {t1, t2, t3}
  Orders = {o1, o2}
  Carts = {c1, c2}
  Variants <- Stocked
  Stock0 <- EnoughStock
  Basket <- SameBasket
  Total <- SameTotal
  Ops <- AnyOp
  MaxRequests = 4
  MaxAborts = 0
  RefundAmounts = {1, 2}
  ShipLines <- AllItems
  RepeatedLines <- NoLine
SYMMETRY Connections
INVARIANTS
  TypeOK
  StockLedger
  EventOnce
  NoLockCycle
CHECK_DEADLOCK FALSE
