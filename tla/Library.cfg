SPECIFICATION MCSpec
CONSTANTS
  item1 = item1  item2 = item2  item3 = item3  item4 = item4
  Keys = {item1, item2, item3, item4}
  Copies = {1, 2}
  Hashes = {0, 5, 6}
  Capacities = {0, 3}
  Base = 4
  TargetTimespan = 16
  MaxTxs = 6
CHECK_DEADLOCK FALSE
INVARIANTS RoundTrips AgreesWithReference 
PROPERTIES IsKeyedSet
