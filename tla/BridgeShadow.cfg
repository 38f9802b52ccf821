\* The record of an earlier attempt at the job that runs.
SPECIFICATION Spec
CONSTANTS
  Attempts = {a1, a2}
  Jobs = {j1}
  Tools = {}
  None = None
  a1 = a1
  a2 = a2
  j1 = j1
  MaxSessions = 1
INVARIANT
  RunningJobCanBeCancelled
CHECK_DEADLOCK FALSE
