SPECIFICATION Spec
CONSTANTS
  Files = {f1, f2}
  Unbind = FALSE
INVARIANT LedgerBalanced
INVARIANT HandlerFindsCard
INVARIANT CallsFindCard
INVARIANT OpenOnlyComplete
