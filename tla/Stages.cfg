\* All the stages of one job, with up to three faults in each.
SPECIFICATION FairSpec
CONSTANTS
  MaxFaults = 3
  BatchSize = 2
  MaxFrames = 6
  PieceFrames = 2
  Radius = 1
  MergeGap = 2
  ShortestSpan = 3
  Sources <- MCSources
  AnchorLimit = 3
  ShortSource = 4
  TopicUnits = 2
  PayoffEnds = 1
  CompleteEnds = 1
  MaxSpans = 4
  ShortlistLimit = 3
  MaxCandidates = 3
  RoundSize = 1
  MinCalls = 2
  StrongMinimum = 1
  MaxPosts = 3
  FinalistLimit = 2
  Scripts <- MCScripts
  Moments <- MCMoments
  Answers <- MCAnswers
  Reach = 4
  ShortReach = 1
  TailLimit = 8
  OutcomeReach = 10
  NearEnd = 0
  PauseReach = 1
  TurnReach = 0
  MostOffset = 6
  MaxTracks = 3
  MaxShot = 5
  CooldownFrames = 2
  ConfirmFrames = 2
  PunchGap = 2
  MaxPunches = 2
  MaxReels = 3
  MaxHours = 2
  Rungs = {1, 2}
  QualifyHours = 1
  FitMinimum = 1
  FitStep = 1
  MaxSyncs = 2
  Talks <- MCTalks
  Cuttings <- MCCuttings
  Marks = {70, 440}
  MinCutGap = 50
  BreathPad = 15
  EventProtect = 200
  NaturalPause = 110
  MinKeep = 40
  FrameTime = 4
  ShortestClip = 300
  LongestVisual = 200
  MaxClicks = 3
INVARIANTS
  TypeOK
  NoProcessLeaks
  InstallSound
  
  SpeechSound
  
  CandidatesSound
  
  RepairSound
  CameraSteady
  EditSound
  LoopSound
PROPERTIES
  TranscribedOnce
  EventuallyRendered
\* The job is over once it is rendered and its reels are no more looked at.
CHECK_DEADLOCK FALSE
