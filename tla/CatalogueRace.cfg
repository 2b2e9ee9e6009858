\* Two calls at a time on a product, on the images of a variant or on the categories,
\* or for one of two tenants.
SPECIFICATION CatalogueSpec
CONSTANTS
  t1 = t1  t2 = t2  r1 = r1  r2 = r2  r3 = r3  e1 = e1  e2 = e2
  Calls = {t1, t2}
  Tenants = {e1, e2}
  NoTenant = none
  Conns = {t1, t2}
  NoConn = nobody
  MaxCalls = 2
  MaxFaults = 1
  MaxVariants = 4
  Skus = {"a", "b", "c", "auto"}
  AutoSku = "auto"
  Lists <- MCLists
  MaxProductCalls = 3
  MaxImages = 3
  Positions = {0}
  MaxImageCalls = 3
  Categories = {r1, r2, r3}
  NoCategory = none
  MaxMoves = 5
  MaxAborts = 1
SYMMETRY Symmetry
INVARIANTS
  OneDefault
  StockKept
  ListApplied
  ObjectsMatch
  OnePrimary
  AllShown
  TenantsApart
  PoolMoves
CHECK_DEADLOCK FALSE
