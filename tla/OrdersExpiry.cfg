\* The expiry job and one checkout.
SPECIFICATION FairSpec
CONSTANTS
  o1 = o1  o2 = o2  o3 = o3  c1 = c1  c2 = c2  c3 = c3  t1 = t1  t2 = t2  t3 = t3
  Txns = {t1, t2}
  Orders = {o1}
  Carts = {c1}
  Variants <- Stocked
  Stock0 <- TwoEach
  Basket <- OneBasket
  Total <- OneTotal
  Ops = {"checkout", "expire"}
  MaxRequests = 2
  MaxAborts = 0
  RefundAmounts = {1, 2}
  ShipLines <- AllItems
  RepeatedLines <- NoLine
PROPERTIES
  ExpiredLeavesPending
CHECK_DEADLOCK FALSE
