SPECIFICATION ConsoleSpec
CONSTANTS
  w1 = w1
  w2 = w2
  Workspaces <- MCWorkspaces
  None = None
  Life = 3
  Buffer = 2
  Latency = 1
INVARIANTS
  ConsoleTypeOK
  OwnActsShown
  WritesWhereShown
  TokenLive
