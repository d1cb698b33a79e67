SPECIFICATION Spec
CONSTANTS
  None = None
  bear = bear
  kite = kite
  first = first
  second = second
  q1 = q1
  q2 = q2
  q3 = q3
  q4 = q4
  q5 = q5
  q6 = q6
  q7 = q7
  old = old
  Product = {bear, kite}
  Text = {first, second}
  Stocked <- MCStocked
  StockRequest = {q1, q2, q3, q4}
  Jobs <- MCJobs
  MaxFailures = 1
  MaxRestarts = 1
  ImageRequest = {q1, q2, q3, q4, q5, q6, q7}
  Wish <- MCWish
  Old = {old}
  MaxLosses = 1
  NotShown = None
  PriceCases <- MCPriceCases
  AmountCases <- MCAmountCases
INVARIANTS
  TypeOK
  IndexCatchesUp
  RowsHaveFiles
  OrphansExplained
  BestOfferWins
  TotalAddsUp
