SPECIFICATION DevSpec
CONSTANTS
  Pages = {"probe", "harness", "switched", "driver", "history"}
  Base = "u"
  Colls = {"c"}
  Listed <- BaseFirst
  Handlers = {h0}
  TwoHandlers = {h1, h2}
  Tabs = {t1, t2}
  Wallets = {"wallet"}
  TwoSigs = {s1, s2}
  Starts <- ProbeStarts
  NonceFirst = FALSE
  MaxNet = 1
  Amount <- Ones
  BorrowMin = 1
  BuyMax = 1
CHECK_DEADLOCK FALSE
SYMMETRY Symmetry
INVARIANTS DevTypeOK RestIsClean
PROPERTY FlowsEndAsPromised
