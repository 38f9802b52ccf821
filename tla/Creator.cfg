\* Attempts, re-renders and editor commands in any order, cut off at any step.
SPECIFICATION Spec
CONSTANTS
  ClipCount <- MCClipCount
  Editors = {e1}
  e1 = e1
  MaxRows = 2
  MaxTitles = 1
  MaxFaults = 1
INVARIANTS
  TypeOK
  TitlesFollowClips
PROPERTIES
  UserRowsKept
  
  ValidRenderIsWhole
