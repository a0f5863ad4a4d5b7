SPECIFICATION NotifSpec
CONSTANTS
  w1 = w1
  w2 = w2
  c1 = c1
  c2 = c2
  Workspaces = {w1, w2}
  Changes = {c1, c2}
  WsOf <- MCWsOf
  Subscribed <- MCSubscribed
  Runs <- MCRuns
  MaxPosts <- MCMaxPosts
  Limit = 2
INVARIANTS
  NotifTypeOK
  InboxTrue
  RecordsTruthful
