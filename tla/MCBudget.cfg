SPECIFICATION Spec
CONSTANTS
  Threads = {t1, t2}
  EPOCH_TICK = 2
  Lateness = 1
  Budgets = {0, 3}
  Clocks = {TRUE, FALSE}
  MaxWall = 7
  MaxMoves = 2
INVARIANTS
  BudgetIsCpu
