SPECIFICATION Spec
CONSTANTS
  p1 = p1  p2 = p2 t=t  NoPeer = NoPeer
  Peers = {p1, p2}
  LastBlock <- Level
  StartHeight = 0
  MaxConnections = 2
  MaxFailures = 1
  SyncSlack = 1
  SyncMaxRetry = 0
  Txs = {t}
  Sent = {t}
  Upsets = {"disconnect", "rescan", "protocol"}
  MaxConnects = 1
  MaxUpsets = 1
  MaxCalls = 1
  MaxNotices = 1
  MaxPings = 1
CHECK_DEADLOCK FALSE
INVARIANTS TypeOK RelaysAreConnected
PROPERTY PublishedOnce
SYMMETRY Symmetry
