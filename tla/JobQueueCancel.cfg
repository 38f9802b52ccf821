\* A cancellation outlives the attempt it ended.
SPECIFICATION Spec
CONSTANTS
  NStages = 3
  Filed <- MCFiled
  Adopts <- MCAdopts
  DiskGated <- MCDiskGated
  Scorers <- MCScorers
  Tunable <- MCTunable
  Presets = {plain, bold}
  InitialPreset = plain
  plain = plain
  bold = bold
  Outputs = {o1, nothing}
  NoRecs = {nothing}
  o1 = o1
  nothing = nothing
  Sources = {s1, s2}
  InitialSource = s1
  SourceStates = {s1, s2, Absent}
  s1 = s1
  s2 = s2
  Absent = Absent
  Torn = Torn
  Damaged = Damaged
  MaxFaults = 0
  MaxCancels = 1
PROPERTY
  CancelActsOnce
