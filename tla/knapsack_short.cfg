SPECIFICATION PortfolioSpec
CHECK_DEADLOCK FALSE
CONSTANTS
  Values = {90, 100}
  HandlingTimes = {150, 430}
  Capacities = {580}
  Short = {290, 570, 580}
  MaxPending = 2
INVARIANTS
  KnapsackBeatsGreedy
