\* Whether cancelled operations, setups and initializations end.
SPECIFICATION FairSpec
CONSTANTS
  Attempts = {a1}
  Jobs = {j1}
  Tools = {t1, t2}
  None = None
  a1 = a1
  j1 = j1
  t1 = t1
  t2 = t2
  MaxSessions = 2
PROPERTIES
  CancelledEnds
  SetupsEnd
CHECK_DEADLOCK FALSE
