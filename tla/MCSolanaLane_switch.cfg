SPECIFICATION SwitchSpec
CONSTANTS
  NoUser = NoUser
  NoFlow = NoFlow
  Users = {u1, u2}
  Flows = {f1, f2}
  Amounts = {1}
  CollateralFactor = 2
  InitWallet = {}
  InitBase <- InitBaseOne
  InitColl = {0}
  OtherTabBudget = 0
PROPERTIES WorthMovesOnlyByCrossedSweep ContractSpec WaitsOnlyForUser
