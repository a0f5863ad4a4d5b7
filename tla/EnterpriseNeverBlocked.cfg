SPECIFICATION SyncSpec
CONSTANTS
  w1 = w1
  w2 = w2
  s1 = s1
  s2 = s2
  k1 = k1
  e1 = e1
  e2 = e2
  a1 = a1
  a2 = a2
  trial = trial
  starter = starter
  enterprise = enterprise
  OtherPlan = OtherPlan
  None = None
  NoRow = NoRow
  NoJob = NoJob
  NoSlot = NoSlot
  Workspaces = {w1}
  Bodies <- OneWorkspace
  Plans = {trial, starter, enterprise}
  Credits <- MCCredits
  Trial = trial
  Starter = starter
  Subs = {s1, s2}
  Periods = {1, 2}
  Costs = {3}
  Extras = {2}
  Keys = {k1}
  IntMax = 8
  MaxTime = 0
  Jobs = {e1, e2}
  Slots = {a1}
  KeepCompleted <- MCKeep
  KeepFailed <- MCKeep
  MaxStalled = 1
  MaxPosts = 2
INVARIANTS
  EnterpriseNeverBlocked
CHECK_DEADLOCK FALSE
