SPECIFICATION Spec
CONSTANTS
  Unset = Unset
  Parts <- MCParts
  MaxAsks = 1
  MaxClicks = 2
  MaxFailures = 1
  MaxChanges = 1
  Parent <- MCParent
  Catalogues <- MCCatalogues
  Queries <- MCQueries
  Desks <- MCDesks
  Promotions <- MCPromotions
  Limit = 1
  MaxRanked = 2
INVARIANTS
  TypeOK
  ShownIsCurrent
  CreatedOnce
  RefusedOnlyIfStale
  EveryMatchOnce
CHECK_DEADLOCK FALSE
