\* The stage's checkpoint and the user's collections share one file.
SPECIFICATION Spec
CONSTANTS
  ClipCount <- MCSteady
  Editors = {e1}
  e1 = e1
  MaxRows = 2
  MaxTitles = 0
  MaxFaults = 0
INVARIANT
  UserCollectionsReadable
