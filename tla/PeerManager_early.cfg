SPECIFICATION Spec
CONSTANTS
  p1 = p1  p2 = p2  NoPeer = NoPeer
  Peers = {p1, p2}
  LastBlock <- Uneven
  StartHeight = 0
  MaxConnections = 2
  MaxFailures = 2
  SyncSlack = 1
  SyncMaxRetry = 0
  Txs = {}
  Sent = {}
  Upsets = {}
  MaxConnects = 1
  MaxUpsets = 1
  MaxCalls = 1
  MaxNotices = 1
  MaxPings = 2
CHECK_DEADLOCK FALSE
PROPERTY CaughtUp

