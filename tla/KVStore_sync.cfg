SPECIFICATION FairSpec
CONSTANTS
  k1 = k1  s1 = s1  s2 = s2  e1 = e1  NoKey = NoKey
  Keys = {k1}
  Syncers = {s1, s2}
  Editors = {e1}
  MaxTime = 2
  MaxVersion = 8
  MaxFaults = 2
CHECK_DEADLOCK FALSE
INVARIANTS TypeOK RecordedMatches
PROPERTIES OnlyOlderOverwritten 
