SPECIFICATION KindSpec
CONSTANTS
  NoUser = NoUser
  NoFlow = NoFlow
  Users = {u1, u2}
  SteadyUsers = {u1}
  Flows = {f1, f2}
  Amounts = {1, 2}
  CollateralFactor = 2
  InitWallet = {1, 2}
  InitBase <- InitBaseSome
  InitColl = {0, 1}
  WalletReplaces = TRUE
  OtherTabBudget = 1
INVARIANTS TypeOK FlowIsExact SteadyPlan
PROPERTIES OnlyStarterMoves ContractSpec WaitsOnlyForUser
