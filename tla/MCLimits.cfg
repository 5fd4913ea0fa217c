\* Two transactions at the limits of the gate, a kill switch and moving limits.
CONSTANTS
  None = None  btc = btc  eth = eth  h1 = h1  h2 = h2  r1 = r1  r2 = r2
  Symbols = {btc, eth}
  Signals <- TwoSymbols
  RuntimeSettings <- Changing
  Prices <- High
  Handlers = {h1, h2}
  Reconcilers = {r1}
  PositionsCap = 2
  ExposureCap = 8
  OrderCap = 16
  MaxOrders = 2
  MaxDay = 0
SPECIFICATION Spec
SYMMETRY HandlerSymmetry
INVARIANTS TypeOK OpenBound ExposureBound KillSwitchDrains
\* The system stops when the bounds are reached and the kill switch cannot move.
CHECK_DEADLOCK FALSE
