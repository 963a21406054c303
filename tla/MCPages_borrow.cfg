SPECIFICATION PagesSpec
CONSTANTS
  Pages = {"form"}
  Colls = {"c1", "c2"}
  Feeds = {"c1"}
  Factor <- TwoFactors
  Lanes = {"evm", "solana"}
  StartAccts <- SomeAccts
  StartMarkets <- SomeMarkets
  Prices = {2}
  MaxAmount = 2
  Accounts = {b1, b2}
  NoAddress = NoAddress
  Visible = {b1}
  Runs = {r1, r2}
  Scans = {s1, s2}
  Movers = {b1}
  MaxMoves = 1
  Users = {u1, u2}
  NoUser = NoUser
  Claims = {c1, c2}
  NoClaim = NoClaim
  Mints = {m1, m2}
  Flows = {f1, f2}
  PortalAmounts = {2}
  PortalFactor = 2
  PortalCash = 3
  ModalMarkets <- SomeNames
  ModalScreens <- SomeScreens
  ModalFactor <- TwoLines
  ModalChoices = {"A", "B"}
  ModalPreset = "PCOL"
  ModalMax = 2
  FormList <- InOrder
  Sums = {1}
  MaxReads = 2
  Debtors = {"a", "b"}
  Starts = {"none", "default"}
  Resolved = {"resolved"}
  Worlds <- SomeWorlds
  PriceSets <- HighOrLow
  LiquidateFactor <- LineFactors
  AbsorbFactor <- SeizeFactors
  Thresholds = {100, 110}
  MinSizes = {0, 150}
  MaxEnrich = 2
  Calls = {1, 2, 3}
  MaxFalls = 1
CHECK_DEADLOCK FALSE
INVARIANT BorrowIsOfBase
