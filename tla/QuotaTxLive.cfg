SPECIFICATION TxFairSpec
CONSTANTS
  w1 = w1
  w2 = w2
  k1 = k1
  k2 = k2
  p1 = p1
  p2 = p2
  basic = basic
  enterprise = enterprise
  NoRow = NoRow
  NoProc = NoProc
  Workspaces = {w1, w2}
  Plans = {basic}
  Credits <- MCCredits
  Periods = {1}
  Costs = {3}
  Extras = {2}
  Keys = {k1}
  IntMax = 7
  MaxTime = 0
  Procs = {p1, p2}
PROPERTIES
  TransactionsEnd
