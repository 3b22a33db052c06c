SPECIFICATION Spec
CONSTANTS
  m0 = m0  m1 = m1  m2 = m2  m3 = m3  m4 = m4  m5 = m5  m6 = m6  m7 = m7
  f2 = f2  f3 = f3  f4 = f4  x3 = x3  r0 = r0  r2 = r2  r3 = r3
  p = p  q = q  t = t
  NoBlock = NoBlock  Freed = Freed  NoPeer = NoPeer
  Hash = {m0, m1, m2, m3, m4, m5, m6, m7, r0, r3}
  Prev <- MCPrev
  Height <- MCHeight
  Chain <- MCChain
  TxIn <- MCTxIn
  Checkpoints = {m0, m3}
  Reparsed <- MCReparsed
  BeforeKeyTime = {m0, m1, m2, m3}
  BadTarget <- MCBadTarget
  Txs = {}
  Peers = {q}
  PeerLast <- MCPeerLast
  TX_UNCONFIRMED = 2147483647
  Interval = 3
  SyncSlack = 1
  RebuildLag = 2
  Rescans = {"checkpoint", "number"}
  RescanNumbers = {4}
  CanCrash = TRUE
CHECK_DEADLOCK FALSE
INVARIANTS SavedHasTransition TransitionReachable
