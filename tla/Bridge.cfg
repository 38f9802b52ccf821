\* Operations, cancellations and a restart in any order.
SPECIFICATION Spec
CONSTANTS
  Attempts = {a1, a2}
  Jobs = {j1, j2}
  Tools = {t1}
  None = None
  a1 = a1
  a2 = a2
  j1 = j1
  j2 = j2
  t1 = t1
  MaxSessions = 2
INVARIANTS
  TypeOK
  OneHeavyOperation
  SlotNeverLeaks
  OneInitialization
  CancelledSetupNeverOk
  LeasesReconciled
SYMMETRY Symmetry
CHECK_DEADLOCK FALSE
