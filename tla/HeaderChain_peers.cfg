SPECIFICATION Spec
CONSTANTS
  m0 = m0  m1 = m1  m2 = m2  m3 = m3  m4 = m4  m5 = m5  m6 = m6  m7 = m7
  f2 = f2  f3 = f3  f4 = f4  x3 = x3  r0 = r0  r2 = r2  r3 = r3
  p = p  q = q  t = t
  NoBlock = NoBlock  Freed = Freed  NoPeer = NoPeer
  Hash = {m0, m1, m2, m3, f3, r0, r2}
  Prev <- MCPrev
  Height <- MCHeight
  Chain <- MCChain
  TxIn <- MCTxIn
  Checkpoints = {m0, m2}
  Reparsed <- MCReparsed
  BeforeKeyTime = {m0}
  BadTarget <- MCBadTarget
  Txs = {t}
  Peers = {p, q}
  PeerLast <- MCPeerLast
  TX_UNCONFIRMED = 2147483647
  Interval = 2
  SyncSlack = 1
  RebuildLag = 2
  Rescans = {}
  RescanNumbers = {3}
  CanCrash = FALSE
CHECK_DEADLOCK FALSE
INVARIANTS TypeOK 
 
