SPECIFICATION FairSpec
CONSTANTS
  p1 = p1  p2 = p2  NoPeer = NoPeer
  Peers = {p1, p2}
  LastBlock <- Ahead
  StartHeight = 0
  MaxConnections = 2
  MaxFailures = 2
  SyncSlack = 1
  SyncMaxRetry = 1
  Txs = {}
  Sent = {}
  Upsets = {"network"}
  MaxConnects = 1
  MaxUpsets = 1
  MaxCalls = 1
  MaxNotices = 1
  MaxPings = 2
CHECK_DEADLOCK FALSE
INVARIANTS DownloadPeerAlive NoOrphanSync
PROPERTY SyncEnds
