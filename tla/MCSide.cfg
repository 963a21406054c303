SPECIFICATION FairSideSpec
CONSTANTS
  Pages = {"gate", "tables", "feed", "cache", "boot", "market", "shape", "figures", "wallet", "registry", "sign", "storefront", "reserves", "rows"}
  NoUser = NoUser
  Users = {u1, u2}
  NumAssets = 2
  Checks = {c1, c2, c3}
  Activations = {n1}
  RpcFails = TRUE
  Comets = {"b", "d"}
  Built = "b"
  Deployed = "d"
  NColl = 2
  Tabs = {1, 2}
  On <- OwnDevice
  CacheKeys = {"k", "f"}
  Registered = {"k"}
  Wants <- SomeWants
  AltTables = {"x1", "x2"}
  NoTable = "no table"
  FirstN = 1
  ChunkN = 1
  MaxReloads = 1
  Backing = {"a", "b"}
  BorrowFactor <- ToBorrow
  LiquidateFactor <- ToLiquidate
  AbsorbFactor <- ToAbsorb
  Prices <- SomePrices
  MaxColl = 2
  MaxDebt = 3
  NoDebtHealth = 5
  Slots = {1, 2}
  Lookback = 1
  MaxEntries = 1
  Cap = 2
  MaxHead = 2
  Chains = {"c1", "c2"}
  CacheTiers = {"market", "activity"}
  Fills = {1}
  RateMax = 1
  MaxVersion = 1
  MaxWindows = 1
  Committed <- SomeCommitted
  Registries <- SomeRegistries
  Pins <- SomePins
  Envs <- SomeEnvs
  Histories <- SomeHistories
  MaxTxs = 3
  Limit = 2
  Total = 7
  Wallets = {1, 2}
  NoWallet = 0
  MaxPicks = 3
  Entries <- SomeEntries
  MaxEdits = 1
  Owners = {"o1", "o2"}
  NoOwner = "nobody"
  SignChains = {"b", "d", "e"}
  BuiltChain = "b"
  Cluster <- SomeClusters
  Calls = {1}
  SignTables <- SomeTables
  Inline = 2
  MaxEvents = 3
  Loads = {1, 2}
  MaxMoves = 2
  NRows = 3
  NamedRows = {0, 1, 2}
  Factors <- SomeFactors
  MaxVisits = 2
  LineAssets = {"c"}
  Digits = 2
  Decimals <- OneDecimal
  StandIn = 2
  Typed = {4, 15, 20}
  LinePrices = {2}
  Reads = {1, 2}
  MaxSent = 1
CHECK_DEADLOCK FALSE
INVARIANTS SideTypeOK GateIsRight TablesAreRight FeedIsRight ServerIsRight BootIsRight ShapeIsRight
PROPERTIES FiguresAreRight SideEnds
