\* One connection: service calls one at a time, every operation, one crash.
SPECIFICATION Spec
CONSTANTS
  o1 = o1  o2 = o2  o3 = o3  c1 = c1  c2 = c2  c3 = c3  t1 = t1  t2 = t2  t3 = t3
  Txns = {t1}
  Orders = {o1, o2}
  Carts = {c1, c2}
  Variants <- Stocked
  Stock0 <- EnoughStock
  Basket <- BasketOf
  Total <- TotalOf
  Ops <- AnyOp
  MaxRequests = 5
  MaxAborts = 1
  RefundAmounts = {1, 2}
  ShipLines <- OneOrAll
  RepeatedLines <- NoLine
INVARIANTS
  ShelfOrOrder
  RefundWithinCapture
  ShipmentsAddUp
  EventApplied
  OneOrderPerCart
PROPERTIES
  ClosedStays
  CancellationRefunds
CHECK_DEADLOCK FALSE
