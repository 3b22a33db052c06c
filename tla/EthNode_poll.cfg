SPECIFICATION FairSpec
CONSTANTS
  Elsewhere = {"ether"}
  MaxSends = 2
  MaxChain = 2
CHECK_DEADLOCK FALSE
INVARIANTS TypeOK BlockedInOrder OneEntryPerHash
PROPERTIES EveryMinedShown NonceCatchesUp
