\* The store under crashes, failures, damage, restyling and an MCP cancellation,
\* and the progress of a job that is resumed.
SPECIFICATION FairSpec
CONSTANTS
  NStages = 3
  Filed <- MCFiled
  Adopts <- MCAdopts
  DiskGated <- MCDiskGated
  Scorers <- MCScorers
  Tunable <- MCTunable
  Presets = {plain, bold}
  InitialPreset = plain
  plain = plain
  bold = bold
  Outputs = {o1, nothing}
  NoRecs = {nothing}
  o1 = o1
  nothing = nothing
  Sources = {s1, s2}
  InitialSource = s1
  SourceStates = {s1, s2, Absent}
  s1 = s1
  s2 = s2
  Absent = Absent
  Torn = Torn
  Damaged = Damaged
  MaxFaults = 2
  MaxCancels = 1
INVARIANTS
  TypeOK
  CheckpointIsGenuine
  ResultsCohere
  
  RowFollowsDisk
PROPERTIES
  CheckpointsSurvive
  Contract
  EventuallyDone
