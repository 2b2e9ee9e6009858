\* A checkout whose payment stays open, and a shipment of everything.
SPECIFICATION Spec
CONSTANTS
  o1 = o1  o2 = o2  o3 = o3  c1 = c1  c2 = c2  c3 = c3  t1 = t1  t2 = t2  t3 = t3
  Txns = {t1}
  Orders = {o1, o2}
  Carts = {c1}
  Variants <- Stocked
  Stock0 <- TwoEach
  Basket <- OneBasket
  Total <- OneTotal
  Ops = {"checkout", "confirm", "cancel", "ship", "webhook"}
  MaxRequests = 3
  MaxAborts = 0
  RefundAmounts = {1, 2}
  ShipLines <- AllItems
  RepeatedLines <- NoLine
PROPERTIES
  Lifecycle
CHECK_DEADLOCK FALSE
