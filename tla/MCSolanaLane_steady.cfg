SPECIFICATION SteadySpec
CONSTANTS
  NoUser = NoUser
  NoFlow = NoFlow
  Users = {u1}
  Flows = {f1, f2}
  Amounts = {1, 2}
  CollateralFactor = 2
  InitWallet = {2}
  InitBase <- InitBaseSome
  InitColl = {1}
  OtherTabBudget = 1
SYMMETRY Symmetry
INVARIANTS TypeOK PlanMatchesPopup SuccessIsWholePlan OneFlowAtATime SyntheticExplained AllowanceExplained
PROPERTIES BorrowOpensAmount
