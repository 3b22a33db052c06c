SPECIFICATION Spec
CONSTANTS
  g = g  a = a  d = d  c = c
  g0 = g0  g1 = g1  a0 = a0  d0 = d0  c0 = c0
  NoTx = NoTx  Foreign = Foreign
  Tx = {g, a, d, c}
  Output = {g0, g1, a0, d0, c0}
  TxOf <- MCTxOf
  AddressOf <- MCAddressOf
  Inputs <- MCInputs
  NonFinal = {d}
  LockHeight <- MCLockHeight
  TX_UNCONFIRMED = 2147483647
  GapLimit <- MCGapLimit
  FilterSpare = 0
  MaxHeight = 3
  MaxAddresses = 3
  CanRestart = TRUE
CHECK_DEADLOCK FALSE
INVARIANTS TypeOK SortedByHeight NoDoubleSpend CoinsSpendable 
PROPERTY CoinsLeaveWhenSpent
