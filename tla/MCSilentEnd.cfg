SPECIFICATION Spec
CONSTANTS
  Budgets = {0, 2}
  Costs = {1, 2, 3}
  Arena = 1
INVARIANTS
  SilentAtTheEnd
CHECK_DEADLOCK FALSE
