SPECIFICATION KindSpec
CONSTANTS
  NoUser = NoUser
  NoFlow = NoFlow
  Users = {u1}
  SteadyUsers = {u1}
  Flows = {f1}
  Amounts = {1, 2}
  CollateralFactor = 2
  InitWallet = {1, 2}
  InitBase <- InitBaseSome
  InitColl = {0, 1}
  WalletReplaces = FALSE
  OtherTabBudget = 1
INVARIANT SuccessTookEffect
