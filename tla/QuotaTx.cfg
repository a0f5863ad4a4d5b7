SPECIFICATION TxSpec
CONSTANTS
  w1 = w1
  w2 = w2
  k1 = k1
  k2 = k2
  p1 = p1
  p2 = p2
  basic = basic
  enterprise = enterprise
  NoRow = NoRow
  NoProc = NoProc
  Workspaces = {w1}
  Plans = {basic, enterprise}
  Credits <- MCCredits
  Periods = {1}
  Costs = {2, 3}
  Extras = {2}
  Keys = {k1}
  IntMax = 7
  MaxTime = 2
  Procs = {p1, p2}
INVARIANTS
  TxTypeOK
  AnswersTrue
  NoOverspend
  FlagsNeverLate
  LedgerMatches
  FailClosed
PROPERTIES
  QuotaSpec
  BudgetSpec
