SPECIFICATION Spec
CONSTANTS
  c1 = c1
  c2 = c2
  Clients = {c1, c2}
  Secrets = {"s1", "s2"}
  Catalogues <- SixCatalogues
  Keys = {k1, k2}
  NoKey = NoKey
  Routes <- ThreeRoutes
  Required <- ThreeScopes
  Tokens = {t1}
  NoEntry = NoEntry
  TTL = 2
  MaxTime = 4
  MaxRestarts = 2
INVARIANTS
  RevokedInTime
  TokensSurviveDeploys
  WholeCatalogue
CHECK_DEADLOCK FALSE
