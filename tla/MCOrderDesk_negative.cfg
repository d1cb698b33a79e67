SPECIFICATION Spec
CONSTANTS
  o1 = o1
  o2 = o2
  s1 = s1
  s2 = s2
  k1 = k1
  w1 = w1
  w2 = w2
  Placed <- MCPlaced
  Stock0 <- Shelves
  Balance0 <- Purse
  Customer = {k1}
  Account = {k1}
  Sku = {s1}
  OrderId = {o1, o2}
  Clerk = {w1}
  Task <- ShelfTasks
  MaxMoves = 2
INVARIANTS
  StockNeverNegative
