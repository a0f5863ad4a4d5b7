SPECIFICATION ProvSpec
CONSTANTS
  w1 = w1
  c1 = c1
  d1 = d1
  a1 = a1
  a2 = a2
  k1 = k1
  k2 = k2
  k3 = k3
  NoKey = NoKey
  NoJob = NoJob
  NoSlot = NoSlot
  Workspaces = {w1}
  Jobs = {c1, d1}
  JobWs <- MCJobWs
  DemoJobs = {d1}
  Keys = {k1, k2, k3}
  Slots = {a1, a2}
  KeepCompleted <- MCKeepCompleted
  KeepFailed <- MCKeepFailed
  MaxStalled = 1
INVARIANTS
  ProvTypeOK
  CredentialsWork
  CompletedMeansProvisioned
PROPERTIES
  CredentialsStable
SYMMETRY Symmetry
CHECK_DEADLOCK FALSE
