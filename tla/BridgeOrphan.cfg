\* The application stops while a pipeline runs, and starts again.
SPECIFICATION Spec
CONSTANTS
  Attempts = {a1, a2}
  Jobs = {j1}
  Tools = {}
  None = None
  a1 = a1
  a2 = a2
  j1 = j1
  MaxSessions = 2
INVARIANT
  NoCompetingWriters
CHECK_DEADLOCK FALSE
