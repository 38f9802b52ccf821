----------------------------- MODULE Stages_proofs -----------------------------
(***************************************************************************)
(* Proofs about Stages, for every value of its constants.                  *)
(***************************************************************************)
EXTENDS Stages, Measures_proofs, Candidates_proofs

IngestPlaces ==
  {"start", "serve", "transfer", "caption", "select", "probe", "normalize",
   "audio", "stopped", "done"}
SpeechPlaces ==
  {"start", "activate", "load", "transcribe", "align", "stopped", "done"}
ScoringPlaces ==
  {"start", "ask", "ensure", "boot", "post", "sent", "recover", "rank", "ranked",
   "extras", "stopped", "done"}

ToolsPlaces ==
  {"start", "look", "stage", "npm", "swap", "place", "tidy", "spawn", "selftest",
   "stopped", "done"}
OtherPlaces ==
  {"start", "embed", "cluster", "hear", "fuse", "seed", "best", "anchors", "fill",
   "propose", "eligible", "filter", "lead", "boundary", "variants", "minutes",
   "closing", "payoffs", "entry", "direct", "punch", "write", "contract", "encode",
   "verify", "open", "asked", "stopped", "done"}
OtherStages ==
  {"diarize", "events", "candidates", "repair", "camera", "render", "over", "edit",
   "loop"}

Places ==
  \/ at = "tools" /\ pc \in ToolsPlaces
  \/ at = "ingest" /\ pc \in IngestPlaces
  \/ at = "asr" /\ pc \in SpeechPlaces
  \/ at = "score" /\ pc \in ScoringPlaces
  \/ at \in OtherStages /\ pc \in OtherPlaces

\* The steps of the stages this module proves nothing else about, and between.
OtherStep ==
  \/ at \in {"diarize", "events"} /\ ListeningNext
  \/ at = "candidates" /\ ShortlistNext
  \/ at = "repair" /\ RepairNext
  \/ at = "camera" /\ CameraNext
  \/ at = "render" /\ RenderingNext
  \/ at = "edit" /\ EditingNext
  \/ at = "loop" /\ LoopNext
  \/ EnterEvents \/ EnterCandidates \/ EnterCamera \/ EnterRender \/ EnterEdit
  \/ EnterLoop
OtherNext ==
  OtherStep /\ UNCHANGED <<toolsVars, ingestVars, speechVars, scoringVars>>

-----------------------------------------------------------------------------
(***************************************************************************)
(* Where the steps of each stage begin and end.                            *)
(***************************************************************************)
LEMMA ToolsSteps ==
  ASSUME at = "tools", pc \in ToolsPlaces, ToolsNext
  PROVE  at' = "tools" /\ pc' \in ToolsPlaces
<1>1. CASE \/ StartInstall \/ Found \/ Missing \/ Make \/ Made \/ InstallModules
           \/ SetAside \/ Place
  BY <1>1 DEF ToolsPlaces, Goto, StartInstall, Found, Missing, Make, Made,
              InstallModules, SetAside, Place
<1>2. CASE \/ Tidy \/ PlaceFails \/ TidyFails \/ MakingFails \/ StartTest \/ Tested
           \/ TestFails \/ KillInstall \/ ResumeInstall
  BY <1>2 DEF ToolsPlaces, Goto, Trouble, Resumes, Tidy, PlaceFails, TidyFails,
              MakingFails, StartTest, Tested, TestFails, KillInstall, ResumeInstall
<1> QED BY <1>1, <1>2 DEF ToolsNext

LEMMA IngestSteps ==
  ASSUME Places, at = "ingest", IngestNext
  PROVE  at' = "ingest" /\ pc' \in IngestPlaces
<1>1. CASE StartIngest \/ Serve \/ Transferred
  BY <1>1 DEF Places, ToolsPlaces, IngestPlaces, SpeechPlaces, ScoringPlaces, Goto,
              StartIngest, Serve, Transferred
<1>2. CASE TransferFails
  <2>1. pc \in {"serve", "transfer"} /\ at' = at
    BY <1>2 DEF TransferFails
  <2>2. PICK a \in BOOLEAN : Refuse(a)
    BY <1>2 DEF TransferFails
  <2>3. pc' \in {"serve", "stopped"}
    BY <2>2 DEF Refuse, GivesUp
  <2> QED BY <2>1, <2>3 DEF Places, ToolsPlaces, IngestPlaces, SpeechPlaces, ScoringPlaces
<1>3. CASE DownloadCaption \/ SelectCaption \/ AcceptSubtitle
  BY <1>3 DEF Places, ToolsPlaces, IngestPlaces, SpeechPlaces, ScoringPlaces, Goto,
              DownloadCaption, SelectCaption, AcceptSubtitle
<1>4. CASE Normalize \/ ExtractAudio
  BY <1>4 DEF Places, ToolsPlaces, IngestPlaces, SpeechPlaces, ScoringPlaces, Goto,
              Normalize, ExtractAudio
<1>5. CASE KillIngest \/ ResumeIngest
  BY <1>5 DEF IngestPlaces, Goto, Trouble, Working, Resumes, KillIngest,
              ResumeIngest
<1> QED BY <1>1, <1>2, <1>3, <1>4, <1>5 DEF IngestNext

LEMMA SpeechSteps ==
  ASSUME Places, at = "asr", NEW supplied, SpeechNext(supplied)
  PROVE  at' = "asr" /\ pc' \in SpeechPlaces
<1>1. CASE ReadSubtitle(supplied) \/ ChooseDevices(supplied)
  BY <1>1 DEF SpeechPlaces, Goto, ReadSubtitle, ChooseDevices
<1>2. CASE Activate \/ ActivationFails \/ LoadModel \/ LoadFails
  BY <1>2 DEF Places, Goto, Trouble, ToolsPlaces, IngestPlaces, SpeechPlaces, ScoringPlaces,
              FallsBack, Activate, ActivationFails, LoadModel, LoadFails
<1>3. CASE Halve \/ TranscribeFails \/ Transcribe \/ AlignFails \/ Align
  BY <1>3 DEF Places, Goto, Trouble, ToolsPlaces, IngestPlaces, SpeechPlaces, ScoringPlaces,
              FallsBack, Halve, TranscribeFails, Transcribe, AlignFails, Align
<1>4. CASE StopSpeech \/ ResumeSpeech
  BY <1>4 DEF SpeechPlaces, Goto, Trouble, Working, Resumes, StopSpeech,
              ResumeSpeech
<1> QED BY <1>1, <1>2, <1>3, <1>4 DEF SpeechNext

LEMMA ScoringSteps ==
  ASSUME Places, at = "score", ScoringNext
  PROVE  at' = "score" /\ pc' \in ScoringPlaces
<1>1. CASE StartScoring \/ Ask \/ NextRound \/ EndRounds
  BY <1>1 DEF ScoringPlaces, Goto, RoundOver, StartScoring, Ask, NextRound, EndRounds
<1>2. CASE Expire \/ ServerFails \/ WorkerEnds
  BY <1>2 DEF Places, OtherStages, ScoringPlaces, Trouble, Working, attempt, Expire,
              ServerFails, WorkerEnds
<1>3. CASE Answered \/ Post \/ Refused \/ PostFails \/ Abandon
  BY <1>3 DEF Places, Goto, Trouble, ToolsPlaces, IngestPlaces, SpeechPlaces, ScoringPlaces,
              Unanswered, Answered, Post, Refused, PostFails, Abandon
<1>4. CASE Ensure \/ Booted \/ BootFails \/ LocalFails \/ Recover
  BY <1>4 DEF Places, Goto, Trouble, ToolsPlaces, IngestPlaces, SpeechPlaces, ScoringPlaces,
              LocalFailure, Spawn, Ensure, Booted, BootFails, LocalFails, Recover
<1>5. CASE Rank \/ BeginExtras \/ Extra \/ EndScoring
  BY <1>5 DEF ScoringPlaces, Goto, Rank, BeginExtras, Extra, EndScoring
<1>6. CASE KillScoring \/ ResumeScoring
  BY <1>6 DEF ScoringPlaces, Goto, Trouble, Working, Resumes, KillScoring,
              ResumeScoring
<1> QED BY <1>1, <1>2, <1>3, <1>4, <1>5, <1>6 DEF ScoringNext

\* The other stages have places of their own, and add to the faults one by one.
More == faults < MaxFaults /\ faults' = faults + 1

LEMMA ListeningSteps ==
  ASSUME at \in {"diarize", "events"}, ListeningNext
  PROVE  at' = at /\ pc' \in OtherPlaces /\ (UNCHANGED faults \/ More)
<1>1. CASE FindWindows \/ Embed \/ Cluster \/ StopDiarize \/ ResumeDiarize
  BY <1>1 DEF FindWindows, Embed, Cluster, StopDiarize, ResumeDiarize, Resumes, Goto,
              Trouble, OtherPlaces, More
<1>2. CASE \/ Extract \/ HearPiece \/ FinishHearing \/ Fuse \/ StopEvents
           \/ ResumeEvents
  BY <1>2 DEF Extract, HearPiece, FinishHearing, Fuse, StopEvents, ResumeEvents,
              Resumes, Goto, Trouble, OtherPlaces, More
<1> QED BY <1>1, <1>2 DEF ListeningNext

LEMMA ShortlistSteps ==
  ASSUME at = "candidates", ShortlistNext
  PROVE  at' = at /\ pc' \in OtherPlaces /\ UNCHANGED faults
<1>0. CASE ProposingNext
  BY <1>0 DEF ProposingNext, StartProposing, SeedAnchors, Consider, EndBest, EndConsider,
              Fill, EndFill, Propose, EndProposing, Goto, OtherPlaces
<1>1. CASE Beginning \/ Filter \/ Cut \/ Lead
  BY <1>1 DEF Beginning, Filter, Cut, Lead, Pass, Goto, OtherPlaces
<1>2. CASE Boundary \/ BoundaryOver
  BY <1>2 DEF Boundary, BoundaryOver, Then, Pass, Goto, OtherPlaces
<1>3. CASE Variants \/ VariantsOver
  BY <1>3 DEF Variants, VariantsOver, Then, Pass, Goto, OtherPlaces
<1>4. CASE Minutes \/ MinutesOver
  BY <1>4 DEF Minutes, MinutesOver, Then, Pass, Goto, OtherPlaces
<1>5. CASE EndOfSource
  BY <1>5 DEF EndOfSource, Then, Goto, OtherPlaces
<1>6. CASE Payoffs \/ Finish
  BY <1>6 DEF Payoffs, Finish, Then, Goto, OtherPlaces
<1> QED BY <1>0, <1>1, <1>2, <1>3, <1>4, <1>5, <1>6 DEF ShortlistNext, Passes

LEMMA RepairSteps ==
  ASSUME at = "repair", RepairNext
  PROVE  at' = at /\ pc' \in OtherPlaces /\ UNCHANGED faults
BY DEF RepairNext, StartRepair, RepairEntry, EndRepair, Goto, OtherPlaces

LEMMA CameraSteps ==
  ASSUME at = "camera", CameraNext
  PROVE  at' = at /\ pc' \in OtherPlaces /\ (UNCHANGED faults \/ More)
BY DEF CameraNext, LoadVision, Direct, EndShot, Punch, WriteTrajectory, StopCamera, ResumeCamera,
       Resumes, Goto, Trouble, OtherPlaces, More

LEMMA RenderingSteps ==
  ASSUME at = "render", pc \in OtherPlaces, RenderingNext
  PROVE  at' \in {"render", "camera"} /\ pc' \in OtherPlaces
         /\ (UNCHANGED faults \/ More)
<1>1. CASE \/ StartRender \/ EngineMissing \/ InstallEngine \/ InstallFails
           \/ Contract \/ ContractBroken \/ LoseTrajectory
  BY <1>1 DEF StartRender, EngineMissing, InstallEngine, InstallFails, Contract,
              ContractBroken, LoseTrajectory, Goto, Trouble, attempt, OtherPlaces, More
<1>2. CASE Encode \/ HardwareFails \/ Verify \/ StopRender \/ ResumeRender
  BY <1>2 DEF Encode, HardwareFails, Verify, StopRender, ResumeRender, Resumes, Goto,
              Trouble, OtherPlaces, More
<1> QED BY <1>1, <1>2 DEF RenderingNext

LEMMA EditingSteps ==
  ASSUME at = "edit", pc \in OtherPlaces, EditingNext
  PROVE  at' = at /\ pc' \in OtherPlaces /\ (UNCHANGED faults \/ More)
<1>1. CASE OpenEditor \/ AskRender \/ Rerender \/ RerenderFails \/ CloseEditor
  BY <1>1 DEF OpenEditor, AskRender, Rerender, RerenderFails, CloseEditor, Goto, Trouble,
              OtherPlaces, More
<1>2. CASE \/ Drag \/ RemoveOrNot \/ SwitchSilence \/ DeleteVisual \/ Suggest
           \/ SuggestReads \/ SuggestFails \/ SuggestWrites \/ SuggestAnswers
           \/ (pc # "done" /\ ScoreAgain)
  <2>1. UNCHANGED attempt
    BY Zenon, <1>2 DEF Drag, RemoveOrNot, SwitchSilence, DeleteVisual, Persist, Suggest,
      SuggestReads, SuggestFails, SuggestWrites, SuggestAnswers, ScoreAgain
  <2> QED BY <2>1 DEF attempt
<1> QED BY <1>1, <1>2 DEF EditingNext

LEMMA LoopSteps ==
  ASSUME at = "loop", LoopNext
  PROVE  at' = at /\ pc' \in OtherPlaces /\ (UNCHANGED faults \/ More)
<1>1. CASE TimePasses \/ Publish \/ Unlink \/ PullByHand
  BY <1>1 DEF TimePasses, Publish, Unlink, PullByHand, Proceed, Goto, OtherPlaces
<1>2. ASSUME NEW s \in DOMAIN syncs,
             \/ StartSync(s) \/ List(s) \/ Upsert(s) \/ FindMissing(s) \/ Backfill(s)
             \/ FindLinked(s)
      PROVE  at' = at /\ pc' \in OtherPlaces /\ UNCHANGED faults
  BY <1>2 DEF StartSync, List, Upsert, FindMissing, Backfill, FindLinked, Proceed, Goto,
              OtherPlaces
<1>3. ASSUME NEW s \in DOMAIN syncs,
             \/ BackfillFails(s) \/ NotDue(s) \/ AskFigures(s) \/ Pulled(s)
             \/ PullFails(s) \/ Fit(s) \/ SaveFit(s) \/ SyncEnds(s)
      PROVE  at' = at /\ pc' \in OtherPlaces /\ (UNCHANGED faults \/ More)
  BY <1>3 DEF BackfillFails, NotDue, AskFigures, Pulled, PullFails, Fit, SaveFit,
              SyncEnds, Proceed, Goto, Trouble, OtherPlaces, More
<1> QED BY <1>1, <1>2, <1>3 DEF LoopNext

LEMMA OtherSteps ==
  ASSUME Places, OtherStep
  PROVE  /\ at \in OtherStages /\ pc \in OtherPlaces
         /\ at' \in OtherStages /\ pc' \in OtherPlaces
         /\ UNCHANGED faults \/ More \/ faults' = 0
<1>1. CASE \/ EnterEvents \/ EnterCandidates \/ EnterCamera \/ EnterRender \/ EnterEdit
           \/ EnterLoop
  BY <1>1 DEF EnterEvents, EnterCandidates, EnterCamera, EnterRender, EnterEdit,
              EnterLoop, Leaves, Enters, Places, OtherStages, OtherPlaces
<1>2. CASE at \in {"diarize", "events"} /\ ListeningNext
  BY <1>2, ListeningSteps DEF Places, OtherStages
<1>3. CASE at = "candidates" /\ ShortlistNext
  BY <1>3, ShortlistSteps DEF Places, OtherStages
<1>4. CASE at = "camera" /\ CameraNext
  BY <1>4, CameraSteps DEF Places, OtherStages
<1>5. CASE at = "render" /\ RenderingNext
  BY <1>5, RenderingSteps DEF Places, OtherStages
<1>6. CASE at = "loop" /\ LoopNext
  BY <1>6, LoopSteps DEF Places, OtherStages
<1>7. CASE at = "edit" /\ EditingNext
  BY <1>7, EditingSteps DEF Places, OtherStages
<1>8. CASE at = "repair" /\ RepairNext
  BY <1>8, RepairSteps DEF Places, OtherStages
<1> QED BY <1>1, <1>2, <1>3, <1>4, <1>5, <1>6, <1>7, <1>8 DEF OtherStep

\* Whose step a step is.
LEMMA Steps ==
  ASSUME Next
  PROVE  \/ /\ at = "tools" /\ ToolsNext
            /\ UNCHANGED ingestVars /\ UNCHANGED speechVars /\ UNCHANGED scoringVars
         \/ /\ at = "ingest" /\ IngestNext
            /\ UNCHANGED toolsVars /\ UNCHANGED speechVars /\ UNCHANGED scoringVars
         \/ /\ at = "asr" /\ SpeechNext(transcript # "none")
            /\ UNCHANGED toolsVars /\ UNCHANGED ingestVars /\ UNCHANGED scoringVars
         \/ /\ at = "score" /\ ScoringNext
            /\ UNCHANGED toolsVars /\ UNCHANGED ingestVars /\ UNCHANGED speechVars
         \/ OtherNext
         \/ EnterIngest \/ EnterSpeech \/ EnterDiarize \/ EnterScoring \/ EnterRepair
         \/ EndWithoutClips
<1>1. CASE EnterEvents \/ EnterCandidates \/ EnterCamera \/ EnterRender \/ EnterEdit \/ EnterLoop
  <2>1. UNCHANGED <<toolsVars, ingestVars, speechVars, scoringVars>>
    BY Zenon, <1>1 DEF EnterEvents, EnterCandidates, EnterCamera, EnterRender, EnterEdit,
                       EnterLoop
  <2> QED BY <2>1, <1>1 DEF OtherNext, OtherStep
<1>2. CASE EnterStage
  BY <1>1, <1>2 DEF EnterStage
<1>3. CASE Pipeline /\ ~EnterStage
  BY Zenon, <1>3 DEF Pipeline, OtherNext, OtherStep
<1>4. CASE ~Pipeline
  BY Zenon, <1>4 DEF Next, OtherNext, OtherStep
<1> QED BY <1>2, <1>3, <1>4 DEF Next, Pipeline

LEMMA PlacesKept ==
  ASSUME Places, Next
  PROVE  Places'
<1>1. CASE at = "ingest" /\ IngestNext
  BY <1>1, IngestSteps DEF Places
<1>2. CASE at = "asr" /\ SpeechNext(transcript # "none")
  BY <1>2, SpeechSteps DEF Places
<1>3. CASE at = "score" /\ ScoringNext
  BY <1>3, ScoringSteps DEF Places
<1>4. CASE \/ EnterIngest \/ EnterSpeech \/ EnterDiarize \/ EnterScoring \/ EnterRepair
           \/ EndWithoutClips
  BY <1>4 DEF Places, EnterIngest, EnterSpeech, EnterDiarize, EnterScoring, EnterRepair,
              EndWithoutClips, Enters, Leaves, IngestPlaces, SpeechPlaces, ScoringPlaces,
              OtherStages, OtherPlaces
<1>5. CASE OtherNext
  BY <1>5, OtherSteps DEF Places, OtherNext
<1>6. CASE at = "tools" /\ ToolsNext
  <2>1. pc \in ToolsPlaces
    BY <1>6 DEF Places, OtherStages
  <2> QED BY <1>6, <2>1, ToolsSteps DEF Places
<1> QED BY <1>1, <1>2, <1>3, <1>4, <1>5, <1>6, Steps

-----------------------------------------------------------------------------
(* The installation of the tools: what looks ready is whole at every moment*)
(* because a tree takes its name only when it is.                          *)
Seen == {"none", "torn", "whole"}

ToolsType ==
  /\ piece \in Trees /\ staged \in {"none", "torn", "hollow", "whole"}
  /\ tree \in [Trees -> Seen]
  /\ litter \subseteq {"node", "source", "plugin", "build", "unpacked"}
  /\ listener \in {"none", "ours", "orphan"}

Installing ==
  at = "tools" =>
    /\ pc \in {"swap", "place"} => staged = "whole"
    /\ pc \in {"stage", "swap", "place", "tidy"} => piece # "modules"
    /\ pc = "place" => aside \in [Within(piece) -> Seen]
    /\ pc \notin {"start", "stopped"} => litter \cap {"node", "source"} = {}

ToolsInv == ToolsType /\ Installing /\ OnlyTestsServe

LEMMA WithinTrees ==
  ASSUME NEW t \in Trees
  PROVE  Within(t) \subseteq Trees /\ t \in Within(t)
BY DEF Within, Trees

LEMMA SomeToolsInv == ASSUME at = "tools", pc = "start", SomeTools PROVE ToolsInv
<1>1. tree \in [Trees -> Seen]
  <2>1. AllNone \in [Trees -> Seen] /\ AllWhole \in [Trees -> Seen]
    BY DEF AllNone, AllWhole, Seen
  <2>2. \A t \in Trees : Damaged(t) \in [Trees -> Seen]
    BY <2>1 DEF Damaged, Seen
  <2>3. ASSUME NEW t \in Trees PROVE Lost(t) \in [Trees -> Seen]
    BY WithinTrees DEF Lost, Without, AllWhole, Seen
  <2> QED BY <2>1, <2>2, <2>3 DEF SomeTools
<1> QED BY <1>1 DEF SomeTools, ToolsInv, ToolsType, Installing, OnlyTestsServe, Trees

LEMMA ToolsKept ==
  ASSUME Places, ToolsInv, at = "tools", ToolsNext
  PROVE  ToolsInv'
<1>0. at = "tools" /\ at' = "tools" /\ pc \in ToolsPlaces
  BY ToolsSteps DEF Places, OtherStages
<1> USE DEF ToolsInv, ToolsType, Installing, OnlyTestsServe, Goto, Trouble
<1>1. CASE StartInstall
  BY <1>1, <1>0 DEF StartInstall, Cleared, Trees
<1>2. CASE Found
  <2>1. piece # "build" => Following[piece] \in Trees
    BY DEF Following, Trees
  <2> QED BY <1>2, <1>0, <2>1 DEF Found
<1>3. CASE Missing
  BY <1>3, <1>0 DEF Missing, Trees, Seen
<1>4. CASE Make
  BY <1>4, <1>0 DEF Make, Grown
<1>5. CASE Made
  BY <1>5, <1>0 DEF Made, Complete, toolsVars
<1>6. CASE InstallModules
  BY <1>6, <1>0 DEF InstallModules, Seen
<1>7. CASE SetAside
  <2>1. Within(piece) \subseteq Trees
    BY WithinTrees
  <2>2. /\ aside' = [t \in Within(piece) |-> tree[t]]
        /\ tree' = Without(tree, piece)
        /\ UNCHANGED <<piece, staged, litter, listener>>
        /\ pc = "swap" /\ pc' = "place"
    BY <1>7 DEF SetAside
  <2>3. aside' \in [Within(piece) -> Seen] /\ tree' \in [Trees -> Seen]
    BY <2>1, <2>2 DEF Seen, Without
  <2> QED BY <2>2, <2>3, <1>0
<1>8. CASE Place
  BY <1>8, <1>0 DEF Place, Seen
<1>9. CASE Tidy
  BY <1>9, <1>0 DEF Tidy
<1>10. CASE PlaceFails
  <2>1. /\ tree' = PutBack(tree) /\ aside \in [Within(piece) -> Seen]
        /\ Within(piece) \subseteq Trees
        /\ pc = "place" /\ pc' = "stopped" /\ UNCHANGED <<piece, litter, listener>>
        /\ staged' = "none"
    BY <1>10, <1>0, WithinTrees DEF PlaceFails
  <2>2. tree' \in [Trees -> Seen]
    BY <2>1 DEF PutBack
  <2> QED BY <2>1, <2>2, <1>0
<1>11. CASE TidyFails
  BY <1>11, <1>0 DEF TidyFails, Trees
<1>12. CASE MakingFails
  BY <1>12, <1>0 DEF MakingFails, NpmLeft, Seen
<1>13. CASE StartTest \/ Tested \/ TestFails
  BY <1>13, <1>0 DEF StartTest, Tested, TestFails, Dismissed
<1>14. CASE KillInstall
  <2>1. LeftBehind \subseteq {"node", "source", "plugin", "build", "unpacked"}
    BY <1>0 DEF LeftBehind, Trees
  <2>2. tree' \in [Trees -> Seen]
    BY <1>14 DEF KillInstall, NpmLeft, Seen
  <2> QED BY <1>14, <1>0, <2>1, <2>2 DEF KillInstall
<1>15. CASE ResumeInstall
  BY <1>15, <1>0 DEF ResumeInstall, Resumes, toolsVars
<1> QED
  BY <1>1, <1>2, <1>3, <1>4, <1>5, <1>6, <1>7, <1>8, <1>9, <1>10, <1>11, <1>12, <1>13,
     <1>14, <1>15 DEF ToolsNext

\* Afterwards the trees are whole, and nobody touches them.
LEMMA ToolsLeft ==
  ASSUME Places, ToolsInv, Next, ~(at = "tools" /\ ToolsNext)
  PROVE  ToolsInv'
<1>1. CASE EnterIngest
  BY <1>1 DEF EnterIngest, Enters, ForgetTools, AllWhole, Seen, Trees, ToolsInv, ToolsType,
              Installing, OnlyTestsServe
<1>2. ASSUME at' # "tools", pc' # "selftest", pc # "selftest", UNCHANGED toolsVars
      PROVE  ToolsInv'
  BY <1>2 DEF toolsVars, ToolsInv, ToolsType, Installing, OnlyTestsServe
<1>3. CASE at = "ingest" /\ IngestNext /\ UNCHANGED toolsVars
  BY <1>3, <1>2, IngestSteps DEF Places, OtherStages, IngestPlaces
<1>4. CASE at = "asr" /\ SpeechNext(transcript # "none") /\ UNCHANGED toolsVars
  BY <1>4, <1>2, SpeechSteps DEF Places, OtherStages, SpeechPlaces
<1>5. CASE at = "score" /\ ScoringNext /\ UNCHANGED toolsVars
  BY <1>5, <1>2, ScoringSteps DEF Places, OtherStages, ScoringPlaces
<1>6. CASE OtherNext
  BY <1>6, <1>2, OtherSteps DEF OtherNext, OtherStages, OtherPlaces
<1>7. CASE EnterSpeech \/ EnterDiarize \/ EnterScoring \/ EnterRepair \/ EndWithoutClips
  BY <1>7, <1>2 DEF EnterSpeech, EnterDiarize, EnterScoring, EnterRepair,
                    EndWithoutClips, Leaves, Enters
<1> QED BY <1>1, <1>3, <1>4, <1>5, <1>6, <1>7, Steps

-----------------------------------------------------------------------------
(* The ingest.                                                             *)

Records == [verified : BOOLEAN, last : {"none", "failed", "success"}]

IngestType ==
  /\ provider \in [by : {"none", "ours", "orphan"}, refused : BOOLEAN]
  /\ op \in [of : {"meta", "download"}, try : 1 .. 3]
  /\ subtitle \in [mode : {"asr", "platform", "external"},
                   source : {"none", "platform", "external"}]
  /\ transcript \in {"none", "platform", "external"}
  /\ accepted \in 0 .. 2
  /\ caption \in BOOLEAN
  /\ record \in Records

\* Who answers on the provider's port.
Served ==
  /\ pc = "transfer" => provider.by # "none"
  /\ pc \notin {"serve", "transfer"} => provider.by # "ours"
  /\ provider.by = "none" => ~provider.refused
  /\ pc \in {"serve", "transfer"} /\ op.try = 2 /\ provider.refused
       => provider.by = "orphan"

\* What became of a caption of the site.
Captioned ==
  /\ at = "ingest" /\ pc \in {"serve", "transfer", "caption", "select", "probe"}
       => transcript = "none"
  /\ at # "ingest" => ~caption
  /\ caption => \/ subtitle.mode = "asr"
                \/ subtitle.mode = "platform" /\ subtitle.source = "platform"
                \/ /\ subtitle.source = "external" /\ accepted > 0
                   /\ subtitle.mode = "external" => accepted > 1
  /\ caption /\ transcript = "external" => accepted > 1

IngestInv == IngestType /\ Served /\ Captioned /\ VerifiedWasLast

LEMMA OfRecords ==
  ASSUME record \in Records
  PROVE  {Doubted, Failed, Succeeded, NoRecord} \subseteq Records
<1>1. Doubted \in Records
  BY DEF Doubted, Records
<1>2. ASSUME NEW v \in BOOLEAN, NEW l \in {"none", "failed", "success"}
      PROVE  [verified |-> v, last |-> l] \in Records
  BY DEF Records
<1>3. Succeeded \in Records /\ NoRecord \in Records
  BY <1>2 DEF Succeeded, NoRecord
<1>4. Failed \in Records
  BY <1>2 DEF Failed
<1> QED BY <1>1, <1>3, <1>4

LEMMA IngestKept ==
  ASSUME Places, IngestInv, at = "ingest", IngestNext
  PROVE  IngestInv'
<1> USE DEF IngestInv
<1>0. at = "ingest" /\ at' = "ingest"
  BY IngestSteps
<1>1. CASE StartIngest
  BY <1>1, <1>0 DEF StartIngest, Goto, source, files, IngestType, Served, Captioned,
                    VerifiedWasLast
<1>2. CASE Serve
  BY <1>2, <1>0 DEF Serve, Goto, source, files, IngestType, Served, Captioned,
                    VerifiedWasLast
<1>3. CASE Transferred
  <2>3. Succeeded \in Records
    BY OfRecords DEF IngestType
  <2>1. IngestType' /\ Served' /\ Captioned'
    BY <1>3, <1>0, <2>3 DEF Transferred, Goto, source, Stopped, NoProvider, IngestType,
                      Served, Captioned
  <2>2. VerifiedWasLast'
    BY <1>3 DEF Transferred, Succeeded, VerifiedWasLast
  <2> QED BY <2>1, <2>2
<1>4. CASE TransferFails
  <2>1. UNCHANGED <<subtitle, transcript, accepted, caption>>
    BY <1>4 DEF TransferFails, files
  <2>2. PICK a \in BOOLEAN :
          /\ pc \in {"serve", "transfer"}
          /\ pc = "serve" => ~a /\ provider.by = "none"
          /\ Refuse(a)
    BY <1>4 DEF TransferFails
  <2> DEFINE seen == [provider EXCEPT !.refused = @ \/ a]
  <2>3. /\ seen \in [by : {"none", "ours", "orphan"}, refused : BOOLEAN]
        /\ seen.by = provider.by
        /\ seen.by = "none" => ~seen.refused
    BY <2>2 DEF IngestType, Served
  <2>4. /\ Stopped(seen) \in [by : {"none", "ours", "orphan"}, refused : BOOLEAN]
        /\ Stopped(seen).by # "ours"
        /\ Stopped(seen).refused => Stopped(seen).by = "orphan"
        /\ Stopped(provider) \in [by : {"none", "ours", "orphan"}, refused : BOOLEAN]
        /\ Stopped(provider).by # "ours"
        /\ Stopped(provider).by = "none" => ~Stopped(provider).refused
    BY <2>3 DEF Stopped, NoProvider, IngestType, Served
  <2>5. \/ op.try = 1 /\ pc' = "serve" /\ provider' = Stopped(seen)
           /\ op' = [op EXCEPT !.try = @ + 1]
        \/ op.try = 2 /\ pc' = "serve" /\ provider' = seen
           /\ op' = [op EXCEPT !.try = @ + 1]
        \/ pc' = "stopped" /\ provider' = Stopped(provider) /\ op' = op
    BY <2>2 DEF Refuse, Restarted, GivesUp
  <2> HIDE DEF seen
  <2>9. record' \in {record, Doubted, Failed}
    BY <2>2 DEF Refuse, GivesUp
  <2>10. record' \in Records
    BY <2>9, OfRecords DEF IngestType
  <2>6. IngestType' /\ Served'
    BY <2>1, <2>2, <2>3, <2>4, <2>5, <2>10 DEF IngestType, Served
  <2>7. Captioned'
    BY <2>1, <2>2, <2>5, <1>0 DEF Captioned
  <2>8. VerifiedWasLast'
    BY <2>9 DEF Doubted, Failed, IngestType, Records, VerifiedWasLast
  <2> QED BY <2>6, <2>7, <2>8
<1>5. CASE DownloadCaption
  BY <1>5, <1>0 DEF DownloadCaption, Goto, source, Offered, IngestType, Served,
                    Captioned, VerifiedWasLast
<1>6. CASE SelectCaption
  BY <1>6, <1>0 DEF SelectCaption, Goto, source, files, IngestType, Served,
                    Captioned, VerifiedWasLast
<1>7. CASE AcceptSubtitle
  BY <1>7, <1>0 DEF AcceptSubtitle, SubtitleAccepted, Goto, source, files,
                    IngestType, Served, Captioned, VerifiedWasLast
<1>8. CASE Normalize \/ ExtractAudio
  BY <1>8, <1>0 DEF Normalize, ExtractAudio, Goto, source, IngestType, Served,
                    Captioned, VerifiedWasLast
<1>9. CASE KillIngest \/ ResumeIngest
  <2>3. record' \in Records
    BY <1>9, OfRecords DEF KillIngest, ResumeIngest, ingestVars, IngestType
  <2>1. IngestType' /\ Served' /\ Captioned'
    BY <1>9, <1>0, <2>3 DEF KillIngest, ResumeIngest, Resumes, Working, Trouble, Goto,
                      ingestVars, source, files, IngestType, Served, Captioned
  <2>2. VerifiedWasLast'
    BY <1>9 DEF KillIngest, ResumeIngest, ingestVars, Failed, VerifiedWasLast
  <2> QED BY <2>1, <2>2
<1> QED BY <1>1, <1>2, <1>3, <1>4, <1>5, <1>6, <1>7, <1>8, <1>9 DEF IngestNext

\* The other stages do not touch what ingest left, but for the transcript.
LEMMA IngestLeft ==
  ASSUME Places, IngestInv, ToolsInv, ~(at = "ingest" /\ IngestNext), Next
  PROVE  IngestInv'
<1> USE DEF IngestInv
<1>0. CASE EnterIngest
  <2>1. /\ at' = "ingest" /\ pc' = "start" /\ listener \in {"none", "orphan"}
        /\ provider' = [NoProvider EXCEPT !.by = listener]
        /\ record' \in {NoRecord, Succeeded}
        /\ \/ subtitle' = [mode |-> "asr", source |-> "none"]
           \/ subtitle' = [mode |-> "external", source |-> "none"]
        /\ UNCHANGED <<caption, op, transcript, accepted>>
    BY <1>0 DEF EnterIngest, Leaves, Enters, UrlJob, files, ToolsInv, ToolsType, OnlyTestsServe
  <2>2. provider' = [by |-> listener, refused |-> FALSE]
    BY <2>1 DEF NoProvider
  <2>3. provider'.by \in {"none", "orphan"} /\ provider'.refused = FALSE
    BY <2>1, <2>2
  <2>4. record'.verified => record'.last = "success"
    BY <2>1 DEF NoRecord, Succeeded
  <2>5. IngestType'
    <3>1. provider' \in [by : {"none", "ours", "orphan"}, refused : BOOLEAN]
      <4>1. listener \in {"none", "ours", "orphan"} /\ FALSE \in BOOLEAN
        BY <2>1
      <4> QED BY Zenon, <4>1, <2>2
    <3>2. subtitle' \in [mode : {"asr", "platform", "external"},
                        source : {"none", "platform", "external"}]
      BY <2>1
    <3>3. record' \in Records
      BY <2>1, OfRecords DEF IngestType
    <3> QED BY <3>1, <3>2, <3>3, <2>1 DEF IngestType
  <2>6. Served' /\ Captioned' /\ VerifiedWasLast'
    BY <2>1, <2>3, <2>4, <1>0 DEF EnterIngest, Leaves, Served, Captioned, VerifiedWasLast
  <2> QED BY <2>5, <2>6
<1>1. CASE EnterSpeech
  <2>1. /\ at' = "asr" /\ pc' = "start" /\ transcript' = transcript
        /\ caption' = FALSE /\ subtitle' = [mode |-> "asr", source |-> "none"]
        /\ accepted' = 0 /\ op' = [of |-> "meta", try |-> 1]
        /\ provider' = [by |-> "none", refused |-> FALSE]
    BY <1>1 DEF EnterSpeech, Enters, ForgetIngest, NoProvider
  <2>2. provider'.by = "none" /\ provider'.refused = FALSE
    BY <2>1
  <2>3. IngestType'
    <3>1. provider' \in [by : {"none", "ours", "orphan"}, refused : BOOLEAN]
      BY <2>1
    <3>2. op' \in [of : {"meta", "download"}, try : 1 .. 3]
      BY <2>1
    <3>3. subtitle' \in [mode : {"asr", "platform", "external"},
                        source : {"none", "platform", "external"}]
      BY <2>1
    <3>4. transcript' \in {"none", "platform", "external"} /\ accepted' \in 0 .. 2
      BY <2>1 DEF IngestType
    <3>5. caption' \in BOOLEAN
      BY <2>1
    <3>6. record' \in Records
      BY <1>1, OfRecords DEF EnterSpeech, ForgetIngest, IngestType
    <3> QED BY <3>1, <3>2, <3>3, <3>4, <3>5, <3>6 DEF IngestType
  <2>4. Served' /\ Captioned'
    BY <2>1, <2>2 DEF Served, Captioned
  <2>5. VerifiedWasLast'
    BY <1>1 DEF EnterSpeech, ForgetIngest, NoRecord, VerifiedWasLast
  <2> QED BY <2>3, <2>4, <2>5
<1>2. CASE EnterDiarize
  BY <1>2 DEF EnterDiarize, Leaves, Enters, files, IngestType, Served, Captioned,
              VerifiedWasLast
<1>3. ASSUME at # "ingest", at' # "ingest", UNCHANGED ingestVars,
             pc' \notin {"serve", "transfer"}
      PROVE  IngestInv'
  <2>1. pc \notin {"serve", "transfer"}
    BY <1>3 DEF Places, ToolsPlaces, SpeechPlaces, ScoringPlaces, OtherPlaces
  <2> QED BY <1>3, <2>1 DEF ingestVars, files, IngestType, Served, Captioned,
                            VerifiedWasLast
<1>4. CASE at = "asr" /\ SpeechNext(transcript # "none") /\ UNCHANGED ingestVars
  BY <1>4, <1>3, SpeechSteps DEF SpeechPlaces
<1>5. CASE at = "score" /\ ScoringNext /\ UNCHANGED ingestVars
  BY <1>5, <1>3, ScoringSteps DEF ScoringPlaces
<1>6. CASE OtherNext
  BY <1>6, <1>3, OtherSteps DEF OtherNext, OtherStages, OtherPlaces
<1>7. CASE EnterScoring \/ EnterRepair \/ EndWithoutClips
  BY <1>7, <1>3 DEF EnterScoring, EnterRepair, EndWithoutClips, Enters, Leaves
<1>8. CASE at = "tools" /\ ToolsNext /\ UNCHANGED ingestVars
  <2>1. pc \in ToolsPlaces
    BY <1>8 DEF Places, OtherStages
  <2> QED BY <1>8, <2>1, <1>3, ToolsSteps DEF ToolsPlaces
<1> QED BY <1>0, <1>1, <1>2, <1>4, <1>5, <1>6, <1>7, <1>8, Steps

-----------------------------------------------------------------------------
(* Speech.                                                                 *)

Pair == [transcribe : Devices, align : Devices]
Speaking == {"activate", "load", "transcribe", "align"}

SpeechType ==
  /\ approved \in BOOLEAN /\ long \in BOOLEAN
  /\ saved \in Devices \cup {"none"} /\ batch \in 0 .. BatchSize
  /\ chosen = Idle \/ chosen \in Pair
  /\ device = Idle \/ device \in Pair

\* What the attempt has decided where.
Decided ==
  /\ at \in {"tools", "ingest"} => chosen = Idle /\ batch = 0
  /\ at = "asr" =>
       /\ pc \in {"start", "stopped"} => chosen = Idle
       /\ pc \in {"start", "activate", "load", "stopped"} => batch = 0
       /\ pc \in Speaking => chosen \in Pair /\ device \in Pair
       /\ pc \in {"activate", "load"} => device.transcribe = chosen.transcribe
       /\ pc \in {"load", "transcribe"} => saved = "none"

\* What the state says before it is reported.
Promised ==
  at = "asr" /\ pc \in Speaking =>
    /\ state \in {"GPU", "GPU/CPU", "CPU", "DEGRADED"}
    /\ state = "GPU" => chosen.transcribe = "cuda" /\ device.align = "cuda"
    /\ state = "GPU/CPU" => chosen.transcribe = "cuda"
    /\ state = "CPU" => chosen.transcribe = "cpu"
    /\ state = "DEGRADED" =>
         /\ pc \notin {"activate", "load"}
         /\ device.transcribe = "cpu" \/ device.align = "cpu"
    /\ batch # 0 /\ state # "DEGRADED" => device.transcribe = chosen.transcribe

SpeechInv ==
  SpeechType /\ Decided /\ Promised /\ NoUnapprovedFallback /\ ReportIsTrue

LEMMA DevicesOfPair ==
  ASSUME NEW d \in Pair
  PROVE  /\ d # Idle
         /\ d.transcribe \in Devices /\ d.align \in Devices
         /\ \A x \in Devices : [d EXCEPT !.transcribe = x] \in Pair
                               /\ [d EXCEPT !.align = x] \in Pair
         /\ Readiness(d) \in {"GPU", "GPU/CPU", "CPU"}
         /\ Readiness(d) = "GPU" <=> d.transcribe = "cuda" /\ d.align = "cuda"
         /\ Readiness(d) = "CPU" <=> d.transcribe = "cpu"
         /\ (\E s \in DOMAIN d : d[s] = "cpu")
              <=> d.transcribe = "cpu" \/ d.align = "cpu"
<1>1. d.transcribe \in Devices /\ d.align \in Devices
  BY DEF Pair
<1>2. d # Idle
  BY <1>1 DEF Idle, Devices
<1>3. \A x \in Devices : [d EXCEPT !.transcribe = x] \in Pair
                         /\ [d EXCEPT !.align = x] \in Pair
  BY DEF Pair
<1>4. /\ Readiness(d) \in {"GPU", "GPU/CPU", "CPU"}
      /\ Readiness(d) = "GPU" <=> d.transcribe = "cuda" /\ d.align = "cuda"
      /\ Readiness(d) = "CPU" <=> d.transcribe = "cpu"
  BY <1>1 DEF Readiness, Devices
<1>5. DOMAIN d = {"transcribe", "align"}
  BY DEF Pair
<1> QED BY <1>1, <1>2, <1>3, <1>4, <1>5

LEMMA FallBackKeeps ==
  ASSUME Places, SpeechInv, BatchAssumption, at = "asr",
         NEW p \in {"transcribe", "align"}, p = "align" <=> pc = "align",
         pc \in {"load", "transcribe", "align"},
         NEW step \in {"transcribe", "align"}, step = "align" => pc = "align",
         NEW size \in 0 .. BatchSize, FallsBack(p, step, size)
  PROVE  SpeechInv'
<1>1. /\ at' = "asr" /\ pc' = p /\ device[step] = "cuda" /\ MayFallBack
      /\ device' = [device EXCEPT ![step] = "cpu"] /\ state' = "DEGRADED"
      /\ batch' = size /\ saved' = saved /\ chosen' = chosen
      /\ long' = long /\ approved' = approved
  BY DEF FallsBack, Trouble, Keep
<1>2. chosen \in Pair /\ device \in Pair
  BY DEF SpeechInv, Decided, Speaking
<1>3. device' \in Pair /\ (device'.transcribe = "cpu" \/ device'.align = "cpu")
  BY <1>1, <1>2 DEF Pair, Devices
<1>4. p = "transcribe" => saved = "none"
  BY DEF SpeechInv, Decided
<1>5. SpeechType'
  BY <1>1, <1>2, <1>3 DEF SpeechInv, SpeechType
<1>6. Decided'
  BY <1>1, <1>2, <1>3, <1>4 DEF Decided, Speaking
<1>7. Promised'
  BY <1>1, <1>3 DEF Promised
<1>8. NoUnapprovedFallback' /\ ReportIsTrue'
  BY <1>1 DEF NoUnapprovedFallback, ReportIsTrue, MayFallBack
<1> QED BY <1>5, <1>6, <1>7, <1>8 DEF SpeechInv

LEMMA SpeechKept ==
  ASSUME Places, SpeechInv, BatchAssumption, at = "asr", NEW supplied,
         SpeechNext(supplied)
  PROVE  SpeechInv'
<1>0. at = "asr" /\ at' = "asr" /\ pc' \in SpeechPlaces /\ BatchSize \in 0 .. BatchSize
  BY SpeechSteps DEF BatchAssumption
<1>1. CASE ReadSubtitle(supplied)
  <2>1. /\ pc' = "done" /\ chosen' = Idle /\ device' = Idle /\ state' = "SUBTITLE"
        /\ saved' = saved /\ batch' = batch /\ long' = long /\ approved' = approved
        /\ batch = 0
    BY <1>1, <1>0 DEF ReadSubtitle, Goto, Keep, SpeechInv, Decided
  <2>2. SpeechType' /\ Decided' /\ Promised'
    BY <2>1, <1>0 DEF SpeechInv, SpeechType, Decided, Promised, Speaking
  <2>3. NoUnapprovedFallback' /\ ReportIsTrue'
    BY <2>1 DEF NoUnapprovedFallback, ReportIsTrue, Idle
  <2> QED BY <2>2, <2>3 DEF SpeechInv
<1>2. CASE ChooseDevices(supplied)
  <2>1. /\ pc' = "activate" /\ chosen' \in Pair /\ device' = chosen'
        /\ state' = Readiness(chosen') /\ batch' = 0 /\ saved' = saved
        /\ long' = long /\ approved' = approved
    BY <1>2 DEF ChooseDevices, Goto, Keep, Pair
  <2>2. /\ state' \in {"GPU", "GPU/CPU", "CPU"}
        /\ state' = "GPU" => chosen'.transcribe = "cuda" /\ chosen'.align = "cuda"
        /\ state' = "CPU" <=> chosen'.transcribe = "cpu"
        /\ chosen'.transcribe \in Devices
    BY <2>1, DevicesOfPair
  <2>3. SpeechType' /\ Decided'
    BY <2>1, <1>0 DEF SpeechInv, SpeechType, Decided, Speaking, BatchAssumption
  <2>4. Promised'
    BY <2>1, <2>2 DEF Promised, Devices
  <2>5. NoUnapprovedFallback' /\ ReportIsTrue'
    BY <2>1 DEF NoUnapprovedFallback, ReportIsTrue
  <2> QED BY <2>3, <2>4, <2>5 DEF SpeechInv
<1>3. CASE Activate
  <2>1. /\ chosen' = chosen /\ saved' = saved /\ batch' = batch /\ state' = state
        /\ long' = long /\ approved' = approved /\ pc = "activate"
        /\ \/ saved # "none" /\ pc' = "align"
              /\ device' = [device EXCEPT !.transcribe = saved]
           \/ saved = "none" /\ pc' = "load" /\ device' = device
    BY <1>3 DEF Activate, Reusable, Goto, Keep
  <2>2. chosen \in Pair /\ device \in Pair /\ batch = 0 /\ state # "DEGRADED"
        /\ saved \in Devices \cup {"none"} /\ device.transcribe = chosen.transcribe
    BY <2>1, <1>0 DEF SpeechInv, SpeechType, Decided, Promised, Speaking
  <2>3. device' \in Pair /\ device'.align = device.align
    BY <2>1, <2>2 DEF Pair
  <2>4. SpeechType' /\ Decided' /\ Promised'
    BY <2>1, <2>2, <2>3, <1>0 DEF SpeechInv, SpeechType, Decided, Promised, Speaking
  <2>5. NoUnapprovedFallback' /\ ReportIsTrue'
    BY <2>1, <2>2, <2>3, <1>0 DEF SpeechInv, NoUnapprovedFallback, ReportIsTrue
  <2> QED BY <2>4, <2>5 DEF SpeechInv
<1>4. CASE ActivationFails
  <2>1. /\ chosen' = chosen /\ saved' = saved /\ batch' = batch /\ state' = state
        /\ long' = long /\ approved' = approved /\ pc = "activate" /\ pc' = "activate"
        /\ chosen.transcribe = "cpu" /\ device' = [device EXCEPT !.align = "cpu"]
    BY <1>4 DEF ActivationFails, Trouble, Keep
  <2>2. device \in Pair
    BY <2>1, <1>0 DEF SpeechInv, Decided, Speaking
  <2>3. device' \in Pair /\ device'.transcribe = device.transcribe
    BY <2>1, <2>2 DEF Pair, Devices
  <2>4. SpeechType' /\ Decided' /\ Promised'
    BY <2>1, <2>3, <1>0 DEF SpeechInv, SpeechType, Decided, Promised, Speaking
  <2>5. NoUnapprovedFallback' /\ ReportIsTrue'
    BY <2>1 DEF NoUnapprovedFallback, ReportIsTrue
  <2> QED BY <2>4, <2>5 DEF SpeechInv
<1>5. CASE LoadModel
  <2>1. /\ chosen' = chosen /\ saved' = saved /\ batch' = BatchSize /\ state' = state
        /\ device' = device /\ long' = long /\ approved' = approved
        /\ pc = "load" /\ pc' = "transcribe"
    BY <1>5 DEF LoadModel, Goto, Keep
  <2>2. SpeechType' /\ Decided' /\ Promised'
    BY <2>1, <1>0 DEF SpeechInv, SpeechType, Decided, Promised, Speaking
  <2>3. NoUnapprovedFallback' /\ ReportIsTrue'
    BY <2>1, <1>0 DEF SpeechInv, NoUnapprovedFallback, ReportIsTrue, Decided
  <2> QED BY <2>2, <2>3 DEF SpeechInv
<1>6. CASE LoadFails
  BY <1>6, <1>0, FallBackKeeps DEF LoadFails
<1>7. CASE Halve
  <2>1. /\ chosen' = chosen /\ saved' = saved /\ state' = state /\ device' = device
        /\ long' = long /\ approved' = approved /\ batch > 1
        /\ batch' = batch \div 2 /\ pc = "transcribe" /\ pc' = "transcribe"
    BY <1>7 DEF Halve, Trouble, Keep
  <2>2. batch' \in 0 .. BatchSize /\ batch # 0
    BY <2>1 DEF SpeechInv, SpeechType, BatchAssumption
  <2>3. SpeechType' /\ Decided' /\ Promised'
    BY <2>1, <2>2, <1>0 DEF SpeechInv, SpeechType, Decided, Promised, Speaking
  <2>4. NoUnapprovedFallback' /\ ReportIsTrue'
    BY <2>1, <2>2, <1>0 DEF SpeechInv, NoUnapprovedFallback, ReportIsTrue
  <2> QED BY <2>3, <2>4 DEF SpeechInv
<1>8. CASE TranscribeFails
  BY <1>8, <1>0, FallBackKeeps DEF TranscribeFails
<1>9. CASE Transcribe
  <2>1. /\ chosen' = chosen /\ batch' = batch /\ state' = state /\ device' = device
        /\ long' = long /\ approved' = approved /\ saved' = device.transcribe
        /\ pc = "transcribe" /\ pc' = "align"
    BY <1>9 DEF Transcribe, Goto, Keep
  <2>2. device \in Pair
    BY <2>1, <1>0 DEF SpeechInv, Decided, Speaking
  <2>3. saved' \in Devices
    BY <2>1, <2>2, DevicesOfPair
  <2>4. SpeechType' /\ Decided' /\ Promised'
    BY <2>1, <2>3, <1>0 DEF SpeechInv, SpeechType, Decided, Promised, Speaking
  <2>5. NoUnapprovedFallback' /\ ReportIsTrue'
    BY <2>1, <1>0 DEF SpeechInv, NoUnapprovedFallback, ReportIsTrue
  <2> QED BY <2>4, <2>5 DEF SpeechInv
<1>10. CASE AlignFails
  <2>1. pc = "align" /\ FallsBack("align", "align", batch) /\ batch \in 0 .. BatchSize
    BY <1>10 DEF AlignFails, SpeechInv, SpeechType
  <2> QED BY <2>1, <1>0, FallBackKeeps
<1>11. CASE Align
  <2>1. /\ chosen' = chosen /\ saved' = saved /\ batch' = batch /\ device' = device
        /\ long' = long /\ approved' = approved /\ state' = Reported
        /\ pc = "align" /\ pc' = "done"
    BY <1>11 DEF Align, Goto, Keep
  <2>2. device \in Pair /\ chosen \in Pair
    BY <2>1, <1>0 DEF SpeechInv, Decided, Speaking
  <2>3. SpeechType' /\ Decided' /\ Promised'
    BY <2>1, <1>0 DEF SpeechInv, SpeechType, Decided, Promised, Speaking
  <2>4. NoUnapprovedFallback'
    BY <2>1, <1>0 DEF SpeechInv, NoUnapprovedFallback
  <2>5. /\ state \in {"GPU", "GPU/CPU", "CPU", "DEGRADED"}
        /\ state = "GPU" => chosen.transcribe = "cuda" /\ device.align = "cuda"
        /\ state = "GPU/CPU" => chosen.transcribe = "cuda"
        /\ state = "CPU" => chosen.transcribe = "cpu"
        /\ state = "DEGRADED" => device.transcribe = "cpu" \/ device.align = "cpu"
        /\ batch # 0 /\ state # "DEGRADED" => device.transcribe = chosen.transcribe
    BY <2>1, <1>0 DEF SpeechInv, Promised, Speaking
  <2>6. /\ device.transcribe \in Devices /\ device.align \in Devices
        /\ Readiness(device) \in {"GPU", "GPU/CPU", "CPU"}
        /\ Readiness(device) = "GPU"
             <=> device.transcribe = "cuda" /\ device.align = "cuda"
        /\ Readiness(device) = "CPU" <=> device.transcribe = "cpu"
        /\ (\E s \in DOMAIN device : device[s] = "cpu")
             <=> device.transcribe = "cpu" \/ device.align = "cpu"
    BY <2>2, DevicesOfPair
  <2>7. CASE chosen.transcribe = "cuda" /\ device.transcribe = "cuda"
    <3>1. state' = Readiness(device)
      BY <2>1, <2>7 DEF Reported
    <3> QED BY <3>1, <2>1, <2>6, <2>7, <2>3, <2>4 DEF ReportIsTrue, SpeechInv, Devices
  <2>8. CASE /\ ~(chosen.transcribe = "cuda" /\ device.transcribe = "cuda")
             /\ device = [transcribe |-> "cpu", align |-> "cuda"]
    <3>1. state' = "CPU/GPU" /\ device.align = "cuda"
      BY <2>1, <2>8 DEF Reported
    <3> QED BY <3>1, <2>1, <2>3, <2>4 DEF ReportIsTrue, SpeechInv
  <2>9. CASE /\ ~(chosen.transcribe = "cuda" /\ device.transcribe = "cuda")
             /\ device # [transcribe |-> "cpu", align |-> "cuda"]
    <3>1. state' = state
      BY <2>1, <2>9 DEF Reported
    <3>2. /\ state' \in {"GPU", "CPU/GPU"} => device'.align = "cuda"
          /\ batch' # 0 /\ state' \in {"GPU", "GPU/CPU"} => device'.transcribe = "cuda"
          /\ batch' # 0 /\ state' \in {"CPU", "DEGRADED"}
               => \E s \in DOMAIN device : device[s] = "cpu"
      BY <3>1, <2>1, <2>5, <2>6, <2>9
    <3>3. ReportIsTrue'
      BY <3>2, <2>1 DEF ReportIsTrue
    <3> QED BY <3>3, <2>3, <2>4 DEF SpeechInv
  <2> QED BY <2>7, <2>8, <2>9
<1>12. CASE StopSpeech
  <2>1. /\ pc' = "stopped" /\ device' = Idle /\ chosen' = Idle /\ batch' = 0
        /\ saved' = saved /\ long' = long /\ approved' = approved
    BY <1>12 DEF StopSpeech, Trouble, Keep
  <2>2. SpeechType' /\ Decided' /\ Promised'
    BY <2>1, <1>0 DEF SpeechInv, SpeechType, Decided, Promised, Speaking, BatchAssumption
  <2>3. NoUnapprovedFallback' /\ ReportIsTrue'
    BY <2>1 DEF NoUnapprovedFallback, ReportIsTrue, Idle
  <2> QED BY <2>2, <2>3 DEF SpeechInv
<1>13. CASE ResumeSpeech
  <2>1. /\ pc = "stopped" /\ pc' = "start" /\ device' = device /\ chosen' = chosen
        /\ batch' = batch /\ saved' = saved /\ long' = long
        /\ approved' \in {approved, TRUE}
    BY <1>13 DEF ResumeSpeech, Resumes, Goto
  <2>2. SpeechType' /\ Decided' /\ Promised'
    BY <2>1, <1>0 DEF SpeechInv, SpeechType, Decided, Promised, Speaking
  <2>3. NoUnapprovedFallback' /\ ReportIsTrue'
    BY <2>1, <1>0 DEF SpeechInv, Decided, NoUnapprovedFallback, ReportIsTrue, Idle
  <2> QED BY <2>2, <2>3 DEF SpeechInv
<1> QED
  BY <1>1, <1>2, <1>3, <1>4, <1>5, <1>6, <1>7, <1>8, <1>9, <1>10, <1>11, <1>12, <1>13
  DEF SpeechNext

LEMMA SpeechLeft ==
  ASSUME Places, SpeechInv, BatchAssumption, Next,
         ~(at = "asr" /\ SpeechNext(transcript # "none"))
  PROVE  SpeechInv'
<1>1. CASE at = "ingest" /\ IngestNext /\ UNCHANGED speechVars
  <2>1. at = "ingest" /\ at' = "ingest" /\ UNCHANGED speechVars
    BY <1>1, IngestSteps
  <2> QED
    BY <2>1 DEF speechVars, SpeechInv, SpeechType, Decided, Promised,
                NoUnapprovedFallback, ReportIsTrue
<1>2. CASE EnterSpeech
  <2>1. /\ at = "ingest" /\ at' = "asr" /\ pc' = "start" /\ long' \in BOOLEAN
        /\ UNCHANGED <<approved, saved, chosen, device, batch, state>>
    BY <1>2 DEF EnterSpeech, Leaves, Enters, BeginSpeech
  <2>2. SpeechType' /\ Decided' /\ Promised'
    BY <2>1 DEF SpeechInv, SpeechType, Decided, Promised, Speaking
  <2>3. NoUnapprovedFallback' /\ ReportIsTrue'
    BY <2>1 DEF SpeechInv, Decided, NoUnapprovedFallback, ReportIsTrue, Idle
  <2> QED BY <2>2, <2>3 DEF SpeechInv
<1>3. CASE EnterDiarize
  <2>1. /\ at' = "diarize" /\ long' = FALSE /\ approved' = FALSE /\ saved' = "none"
        /\ chosen' = Idle /\ device' = Idle /\ batch' = 0
    BY <1>3 DEF EnterDiarize, Enters, ForgetSpeech
  <2>2. SpeechType'
    <3>1. approved' \in BOOLEAN /\ long' \in BOOLEAN
      BY <2>1
    <3>2. saved' \in Devices \cup {"none"} /\ batch' \in 0 .. BatchSize
      BY <2>1 DEF BatchAssumption
    <3>3. chosen' = Idle /\ device' = Idle
      BY <2>1
    <3> QED BY <3>1, <3>2, <3>3 DEF SpeechType
  <2>3. Decided' /\ Promised' /\ NoUnapprovedFallback' /\ ReportIsTrue'
    BY <2>1 DEF Decided, Promised, NoUnapprovedFallback, ReportIsTrue
  <2> QED BY <2>2, <2>3 DEF SpeechInv
<1>4. ASSUME at' \notin {"ingest", "asr"}, at' = "tools" => at = "tools",
             UNCHANGED speechVars
      PROVE  SpeechInv'
  BY <1>4 DEF speechVars, SpeechInv, SpeechType, Decided, Promised,
              NoUnapprovedFallback, ReportIsTrue
<1>5. CASE at = "score" /\ ScoringNext /\ UNCHANGED speechVars
  BY <1>4, <1>5, ScoringSteps
<1>6. CASE OtherNext
  BY <1>4, <1>6, OtherSteps DEF OtherNext, OtherStages
<1>7. CASE EnterScoring \/ EnterRepair \/ EndWithoutClips
  BY <1>4, <1>7 DEF EnterScoring, EnterRepair, EndWithoutClips, Enters
<1>8. CASE at = "tools" /\ ToolsNext /\ UNCHANGED speechVars
  <2>1. pc \in ToolsPlaces
    BY <1>8 DEF Places, OtherStages
  <2> QED BY <1>8, <2>1, <1>4, ToolsSteps
<1>9. CASE EnterIngest
  <2>1. at = "tools" /\ at' = "ingest" /\ UNCHANGED speechVars
    BY <1>9 DEF EnterIngest, Leaves, Enters
  <2> QED
    BY <2>1 DEF speechVars, SpeechInv, SpeechType, Decided, Promised,
                NoUnapprovedFallback, ReportIsTrue
<1> QED BY <1>1, <1>2, <1>3, <1>5, <1>6, <1>7, <1>8, <1>9, Steps

\* A saved transcription is neither replaced nor made again.
LEMMA SavedKept ==
  ASSUME Places, SpeechInv, Next, saved # "none", at' = "asr"
  PROVE  saved' = saved /\ pc' \notin {"load", "transcribe"}
<1>1. CASE EnterSpeech
  BY <1>1 DEF EnterSpeech, Enters, BeginSpeech
<1>2. CASE at = "asr" /\ SpeechNext(transcript # "none")
  <2>1. at = "asr" /\ pc \notin {"load", "transcribe"}
    BY <1>2 DEF SpeechInv, Decided
  <2> QED
    BY <1>2, <2>1 DEF SpeechNext, ReadSubtitle, ChooseDevices, Activate, Reusable,
      ActivationFails, LoadModel, LoadFails, Halve, TranscribeFails, Transcribe,
      AlignFails, Align, StopSpeech, ResumeSpeech, Resumes, FallsBack, Goto, Trouble
<1>3. /\ ~(at = "ingest" /\ IngestNext) /\ ~(at = "score" /\ ScoringNext)
      /\ ~(at = "tools" /\ ToolsNext)
  <2>1. at = "tools" => pc \in ToolsPlaces
    BY DEF Places, OtherStages
  <2> QED BY <2>1, IngestSteps, ScoringSteps, ToolsSteps
<1>4. /\ ~EnterIngest /\ ~EnterDiarize /\ ~EnterScoring /\ ~EnterRepair
      /\ ~EndWithoutClips
  BY DEF EnterIngest, EnterDiarize, EnterScoring, EnterRepair, EndWithoutClips, Enters
<1>5. ~OtherNext
  BY OtherSteps DEF OtherNext, OtherStages
<1> QED BY <1>1, <1>2, <1>3, <1>4, <1>5, Steps

-----------------------------------------------------------------------------
(* Scoring.                                                                *)

Requests == [try : {1, 2}, posts : Nat, extra : BOOLEAN, boots : {"first", "recovery"}]

Flags ==
  /\ local \in BOOLEAN /\ expired \in BOOLEAN
  /\ worker \in BOOLEAN /\ aborted \in BOOLEAN

Numbers ==
  /\ prepared \in Nat /\ round \in 0 .. 3 /\ left \in Nat
  /\ asked \in Nat /\ scored \in Nat /\ strong \in Nat
  /\ strays \in Nat /\ kills \in Nat

ScoringType == Flags /\ Numbers /\ request \in Requests

\* Requests to a cloud provider, and their threads.
Posted ==
  /\ at # "score" \/ local => ~worker /\ ~aborted /\ ~request.extra
  /\ pc = "sent" => ~worker
  /\ request.posts <= MaxPosts
  /\ pc = "post" /\ ~local => request.posts < MaxPosts
  /\ pc \in {"ensure", "boot", "recover"} => local
  /\ pc = "extras" /\ local => todo = 0

\* A judgment is under way.
Judging ==
  \/ pc \in {"ensure", "boot", "recover"}
  \/ pc \in {"post", "sent"} /\ ~request.extra

\* The candidates of the rounds.
Counted ==
  /\ scored <= asked /\ strong <= scored
  /\ at = "score" /\ Judging => scored < asked
  /\ at = "score" /\ (Judging \/ pc = "ask") =>
       /\ todo \in Nat /\ asked + todo + left <= prepared
       /\ expired \/ asked + todo + left = prepared
       /\ ~local \/ round = 3 => left = 0
  /\ LeftOutForAReason

ScoringInv ==
  ScoringType /\ Posted /\ Counted /\ NoServerLeaks /\ StoriesShownOnce

LEMMA LeastOf ==
  ASSUME NEW m \in Nat, NEW n \in Nat
  PROVE  Least(m, n) \in Nat /\ Least(m, n) <= m /\ Least(m, n) <= n
BY DEF Least

LEMMA NoRequestIs ==
  /\ NoRequest \in Requests /\ NoRequest.posts = 0 /\ NoRequest.extra = FALSE
  /\ [NoRequest EXCEPT !.extra = TRUE] \in Requests
  /\ [NoRequest EXCEPT !.extra = TRUE].posts = 0
  /\ [NoRequest EXCEPT !.extra = TRUE].extra = TRUE
BY DEF NoRequest, Requests

LEMMA RequestTried ==
  ASSUME NEW r \in Requests
  PROVE  /\ [r EXCEPT !.try = 2] \in Requests
         /\ [r EXCEPT !.try = 2].posts = r.posts
         /\ [r EXCEPT !.try = 2].extra = r.extra
BY DEF Requests

LEMMA RequestBooted ==
  ASSUME NEW r \in Requests, NEW b \in {"first", "recovery"}
  PROVE  /\ [r EXCEPT !.boots = b] \in Requests
         /\ [r EXCEPT !.boots = b].posts = r.posts
         /\ [r EXCEPT !.boots = b].extra = r.extra
BY DEF Requests

LEMMA RequestRecovered ==
  ASSUME NEW r \in Requests
  PROVE  /\ [r EXCEPT !.try = 2, !.boots = "recovery"] \in Requests
         /\ [r EXCEPT !.try = 2, !.boots = "recovery"].posts = r.posts
         /\ [r EXCEPT !.try = 2, !.boots = "recovery"].extra = r.extra
BY DEF Requests

LEMMA RequestPosted ==
  ASSUME NEW r \in Requests
  PROVE  /\ [r EXCEPT !.posts = @ + 1] \in Requests
         /\ [r EXCEPT !.posts = @ + 1].posts = r.posts + 1
         /\ [r EXCEPT !.posts = @ + 1].extra = r.extra
BY DEF Requests

LEMMA MaxPostsIs == ASSUME ScoringAssumption PROVE MaxPosts \in Nat /\ MaxPosts > 0
BY DEF ScoringAssumption

-----------------------------------------------------------------------------
\* The choice of the finalists.
LEMMA WholeSubset ==
  ASSUME NEW n \in Nat, NEW s \in SUBSET (1 .. n), Cardinality(s) = n
  PROVE  s = 1 .. n
<1>1. IsFiniteSet(1 .. n) /\ Cardinality(1 .. n) = n
  BY FS_Interval
<1> QED BY <1>1, FS_Subset

ShownOnce(good, same, ranked, c) ==
  /\ \A i, j \in c : {i, j} \notin same
  /\ \A i \in (1 .. good) \ c :
       \/ Cardinality(c) = FinalistLimit
       \/ \E j \in ranked : {i, j} \in same

LEMMA RankShowsOnce ==
  ASSUME NEW eligible \in Nat, NEW good \in 0 .. eligible, NEW same,
         NEW ranked \in Diverse(1 .. eligible, eligible, same),
         NEW chosen_ \in Diverse(ranked \cap 1 .. good, FinalistLimit, same)
  PROVE  ShownOnce(good, same, ranked, chosen_)
<1>1. /\ ranked \in SUBSET (1 .. eligible)
      /\ Cardinality(ranked) = eligible
           \/ \A i \in (1 .. eligible) \ ranked : \E j \in ranked : {i, j} \in same
  BY DEF Diverse
<1>2. /\ chosen_ \in SUBSET (ranked \cap 1 .. good)
      /\ \A i, j \in chosen_ : {i, j} \notin same
      /\ Cardinality(chosen_) = FinalistLimit
           \/ \A i \in (ranked \cap 1 .. good) \ chosen_ :
                \E j \in chosen_ : {i, j} \in same
  BY DEF Diverse
<1>3. 1 .. good \subseteq 1 .. eligible
  OBVIOUS
<1>4. Cardinality(ranked) = eligible => ranked = 1 .. eligible
  BY <1>1, WholeSubset
<1>5. ASSUME NEW i \in (1 .. good) \ chosen_
      PROVE  \/ Cardinality(chosen_) = FinalistLimit
             \/ \E j \in ranked : {i, j} \in same
  <2>1. CASE i \in ranked
    BY <2>1, <1>2
  <2>2. CASE i \notin ranked
    BY <2>2, <1>1, <1>3, <1>4
  <2> QED BY <2>1, <2>2
<1> QED BY <1>2, <1>5 DEF ShownOnce

-----------------------------------------------------------------------------
(* The steps of scoring keep the invariant: the rounds.                    *)
LEMMA RoundsKept ==
  ASSUME Places, ScoringInv, ScoringAssumption, at' = "score", at = "score",
         StartScoring \/ Ask \/ NextRound \/ EndRounds
  PROVE  ScoringInv'
<1>0. RoundSize \in Nat
  BY DEF ScoringAssumption
<1>1. CASE StartScoring
  <2>1. /\ pc' = "ask" /\ round' = 1 /\ left' = prepared - todo'
        /\ todo' = (IF local THEN Least(RoundSize, prepared) ELSE prepared)
        /\ asked' = 0 /\ scored' = 0 /\ strong' = 0 /\ request' = NoRequest
        /\ expired' = FALSE /\ aborted' = FALSE /\ worker' = FALSE
        /\ UNCHANGED <<server, strays, kills, local, prepared>>
    BY <1>1 DEF StartScoring, Goto, Job, runtime
  <2>2. prepared \in Nat /\ Least(RoundSize, prepared) \in Nat
        /\ Least(RoundSize, prepared) <= prepared
    BY <1>0, LeastOf DEF ScoringInv, ScoringType, Flags, Numbers
  <2>3. todo' \in Nat /\ left' \in Nat /\ todo' + left' = prepared
        /\ (~local => left' = 0)
    BY <2>1, <2>2
  <2>4. ScoringType'
    <3>1. Flags'
      BY <2>1 DEF ScoringInv, ScoringType, Flags
    <3>2. Numbers'
      BY <2>1, <2>2, <2>3 DEF ScoringInv, ScoringType, Numbers
    <3>3. request' \in Requests
      BY <2>1, NoRequestIs
    <3> QED BY <3>1, <3>2, <3>3 DEF ScoringType
  <2>5. Posted'
    BY <2>1, NoRequestIs, MaxPostsIs DEF Posted
  <2>6. Counted'
    BY <2>1, <2>2, <2>3 DEF Counted, Judging, LeftOutForAReason
  <2>7. NoServerLeaks' /\ StoriesShownOnce'
    BY <2>1 DEF ScoringInv, NoServerLeaks, StoriesShownOnce
  <2> QED BY <2>4, <2>5, <2>6, <2>7 DEF ScoringInv
<1>2. CASE Ask
  <2>1. /\ pc = "ask" /\ todo > 0 /\ ~expired
        /\ pc' = IF local THEN "ensure" ELSE "post"
        /\ todo' = todo - 1 /\ asked' = asked + 1 /\ request' = NoRequest
        /\ UNCHANGED <<round, left, scored, strong, expired, aborted, worker,
                       server, strays, kills, local, prepared>>
    BY <1>2 DEF Ask, Goto, Job, runtime, cloudVars
  <2>2. ScoringType'
    BY <2>1, NoRequestIs DEF ScoringInv, ScoringType, Flags, Numbers
  <2>3. Posted'
    BY <2>1, NoRequestIs, MaxPostsIs DEF ScoringInv, Posted
  <2>4. Counted'
    BY <2>1, NoRequestIs
    DEF ScoringInv, ScoringType, Numbers, Counted, Judging, LeftOutForAReason
  <2>5. NoServerLeaks' /\ StoriesShownOnce'
    BY <2>1 DEF ScoringInv, NoServerLeaks, StoriesShownOnce
  <2> QED BY <2>2, <2>3, <2>4, <2>5 DEF ScoringInv
<1>3. CASE NextRound
  <2>1. /\ pc = "ask" /\ pc' = "ask" /\ local /\ round < 3 /\ round' = round + 1
        /\ todo = 0 \/ expired
        /\ todo' = (IF round = 1 THEN Least(RoundSize, left) ELSE left)
        /\ left' = left - todo'
        /\ UNCHANGED <<asked, scored, strong, request, expired, aborted, worker,
                       server, strays, kills, local, prepared>>
    BY <1>3 DEF NextRound, RoundOver, Goto, Job, runtime, cloudVars
  <2>2. left \in Nat /\ Least(RoundSize, left) \in Nat /\ Least(RoundSize, left) <= left
    BY <1>0, LeastOf DEF ScoringInv, ScoringType, Flags, Numbers
  <2>3. todo' \in Nat /\ left' \in Nat /\ todo' + left' = left
        /\ (round # 1 => left' = 0)
    BY <2>1, <2>2
  <2>4. ScoringType'
    BY <2>1, <2>3 DEF ScoringInv, ScoringType, Flags, Numbers
  <2>5. Posted'
    BY <2>1 DEF ScoringInv, Posted
  <2>6. Counted'
    BY <2>1, <2>3
    DEF ScoringInv, ScoringType, Numbers, Counted, Judging, LeftOutForAReason
  <2>7. NoServerLeaks' /\ StoriesShownOnce'
    BY <2>1 DEF ScoringInv, NoServerLeaks, StoriesShownOnce
  <2> QED BY <2>4, <2>5, <2>6, <2>7 DEF ScoringInv
<1>4. CASE EndRounds
  <2>1. /\ pc = "ask" /\ pc' \in {"stopped", "rank"}
        /\ todo = 0 \/ expired
        /\ ~(local /\ WantsMore /\ left > 0 /\ round < 3)
        /\ UNCHANGED <<round, todo, left, asked, scored, strong, request, expired,
                       aborted, worker, strays, kills, local, prepared>>
    BY <1>4 DEF EndRounds, RoundOver, Goto, Job, counts, cloudVars
  <2>2. ScoringType'
    BY <2>1 DEF ScoringInv, ScoringType, Flags, Numbers
  <2>3. Posted'
    BY <2>1 DEF ScoringInv, Posted
  <2>4. LeftOutForAReason'
    <3>1. SUFFICES ASSUME asked < prepared, ~expired
                   PROVE  local /\ asked >= MinCalls /\ strong >= StrongMinimum
      BY <2>1 DEF LeftOutForAReason
    <3>2. todo = 0 /\ asked + left = prepared /\ (~local \/ round = 3 => left = 0)
      BY <3>1, <2>1 DEF ScoringInv, ScoringType, Numbers, Counted
    <3>3. left > 0 /\ local /\ round < 3
      BY <3>1, <3>2 DEF ScoringInv, ScoringType, Flags, Numbers
    <3>4. ~WantsMore /\ MinCalls \in Nat /\ StrongMinimum \in Nat
      BY <2>1, <3>3 DEF ScoringAssumption
    <3> QED BY <3>3, <3>4 DEF WantsMore, ScoringInv, ScoringType, Numbers
  <2>5. Counted'
    BY <2>1, <2>4 DEF ScoringInv, Counted, Judging
  <2>6. NoServerLeaks' /\ StoriesShownOnce'
    BY <2>1 DEF ScoringInv, NoServerLeaks, StoriesShownOnce
  <2> QED BY <2>2, <2>3, <2>5, <2>6 DEF ScoringInv
<1> QED BY <1>1, <1>2, <1>3, <1>4

\* What may happen at any moment.
LEMMA EventsKept ==
  ASSUME Places, ScoringInv, at = "score", at' = "score",
         Expire \/ ServerFails \/ WorkerEnds
  PROVE  ScoringInv'
<1>1. /\ pc' = pc /\ (expired' = expired \/ expired' = TRUE)
      /\ worker' = worker \/ worker' = FALSE
      /\ UNCHANGED <<round, todo, left, asked, scored, strong, request, aborted,
                     strays, kills, local, prepared, clips>>
  BY DEF Expire, ServerFails, WorkerEnds, Trouble, Job, attempt, counts, cloudVars,
         runtime
<1>2. ScoringType'
  <2>1. Flags'
    BY <1>1 DEF ScoringInv, ScoringType, Flags
  <2>2. Numbers' /\ request' \in Requests
    BY <1>1 DEF ScoringInv, ScoringType, Numbers
  <2> QED BY <2>1, <2>2 DEF ScoringType
<1>5. Posted'
  BY <1>1 DEF ScoringInv, Posted
<1>3. Counted'
  BY <1>1 DEF ScoringInv, ScoringType, Numbers, Counted, Judging, LeftOutForAReason
<1>4. NoServerLeaks' /\ StoriesShownOnce'
  BY <1>1 DEF ScoringInv, NoServerLeaks, StoriesShownOnce
<1> QED BY <1>2, <1>5, <1>3, <1>4 DEF ScoringInv

\* A judgment of the cloud, or an extra request.
LEMMA RequestsKept ==
  ASSUME Places, ScoringInv, ScoringAssumption, at = "score", at' = "score",
         Answered \/ Post \/ Refused \/ PostFails \/ Abandon
  PROVE  ScoringInv'
<1> DEFINE Same ==
      UNCHANGED <<round, todo, left, asked, expired, server, strays, kills, local,
                  prepared>>
<1>a. request \in Requests /\ request.posts \in Nat /\ request.extra \in BOOLEAN
  BY DEF ScoringInv, ScoringType, Requests
<1>1. CASE Answered
  <2>1. /\ pc = "sent" /\ pc' = (IF request.extra THEN "extras" ELSE "ask")
        /\ IF request.extra THEN UNCHANGED <<scored, strong>>
           ELSE scored' = scored + 1 /\ (strong' = strong \/ strong' = strong + 1)
        /\ UNCHANGED <<request, aborted, worker>> /\ Same
    BY <1>1 DEF Answered, Goto, Job, cloudVars, runtime
  <2>2. Flags' /\ Numbers' /\ request' \in Requests
    <3>1. Flags'
      BY <2>1 DEF ScoringInv, ScoringType, Flags
    <3>2. Numbers' /\ request' \in Requests
      BY <2>1, <1>a DEF ScoringInv, ScoringType, Numbers
    <3> QED BY <3>1, <3>2
  <2>3. Posted'
    BY <2>1 DEF ScoringInv, Posted
  <2>4. Counted'
    BY <2>1, <1>a
    DEF ScoringInv, ScoringType, Numbers, Counted, Judging, LeftOutForAReason
  <2>5. NoServerLeaks' /\ StoriesShownOnce'
    BY <2>1 DEF ScoringInv, NoServerLeaks, StoriesShownOnce
  <2> QED BY <2>2, <2>3, <2>4, <2>5 DEF ScoringInv, ScoringType
<1>2. CASE Post
  <2>1. /\ pc = "post" /\ pc' = "sent"
        /\ local \/ MayPost
        /\ request' = (IF local THEN request ELSE [request EXCEPT !.posts = @ + 1])
        /\ UNCHANGED <<scored, strong, aborted, worker>> /\ Same
    BY <1>2 DEF Post, Goto, Job, counts, cloudVars, runtime
  <2>2. /\ request' \in Requests /\ request'.extra = request.extra
        /\ local => request'.posts = request.posts
        /\ ~local => request'.posts = request.posts + 1
    BY <2>1, <1>a, RequestPosted
  <2>3. Flags' /\ Numbers'
    BY <2>1 DEF ScoringInv, ScoringType, Flags, Numbers
  <2>4. local \/ ~worker
    BY <2>1 DEF MayPost
  <2>5. Posted'
    BY <2>1, <2>2, <2>4, <1>a, MaxPostsIs DEF ScoringInv, Posted
  <2>6. Counted'
    BY <2>1, <2>2
    DEF ScoringInv, ScoringType, Numbers, Counted, Judging, LeftOutForAReason
  <2>7. NoServerLeaks' /\ StoriesShownOnce'
    BY <2>1 DEF ScoringInv, NoServerLeaks, StoriesShownOnce
  <2> QED BY <2>2, <2>3, <2>5, <2>6, <2>7 DEF ScoringInv, ScoringType
<1>3. CASE Refused \/ PostFails \/ Abandon
  <2>1. /\ pc \in {"post", "sent"} /\ ~local /\ request' = request
        /\ \/ pc' = (IF request.extra THEN "extras" ELSE "ask")
           \/ pc' = "post" /\ request.posts < MaxPosts
        /\ (aborted' = aborted /\ worker' = worker) \/ (aborted' = TRUE /\ worker' = TRUE)
        /\ UNCHANGED <<scored, strong>> /\ Same
    BY <1>3 DEF Refused, PostFails, Abandon, TriesLeft, Unanswered, Goto, Trouble,
                Job, counts, cloudVars, runtime
  <2>2. ScoringType'
    <3>1. Flags'
      BY <2>1 DEF ScoringInv, ScoringType, Flags
    <3>2. Numbers' /\ request' \in Requests
      BY <2>1, <1>a DEF ScoringInv, ScoringType, Numbers
    <3> QED BY <3>1, <3>2 DEF ScoringType
  <2>3. Posted'
    BY <2>1 DEF ScoringInv, Posted
  <2>4. Counted'
    BY <2>1, <1>a
    DEF ScoringInv, ScoringType, Numbers, Counted, Judging, LeftOutForAReason
  <2>5. NoServerLeaks' /\ StoriesShownOnce'
    BY <2>1 DEF ScoringInv, NoServerLeaks, StoriesShownOnce
  <2> QED BY <2>2, <2>3, <2>4, <2>5 DEF ScoringInv
<1> QED BY <1>1, <1>2, <1>3

\* ClipGauge Local and its server.
LEMMA LocalKept ==
  ASSUME Places, ScoringInv, ScoringAssumption, at = "score", at' = "score",
         Ensure \/ Booted \/ BootFails \/ LocalFails \/ Recover
  PROVE  ScoringInv'
<1>a. request \in Requests /\ request.extra \in BOOLEAN
  BY DEF ScoringInv, ScoringType, Requests
<1>1. /\ local /\ ~request.extra
      /\ \/ pc \in {"ensure", "boot", "recover"}
         \/ pc = "sent"
  BY DEF Ensure, Booted, BootFails, LocalFails, Recover, ScoringInv, Posted
<1>2. pc' \in {"ensure", "boot", "post", "recover", "ask"}
  BY DEF Ensure, Booted, BootFails, LocalFails, Recover, Spawn, LocalFailure, Goto,
         Trouble
<1>3. /\ strays' = strays /\ kills' = kills
      /\ UNCHANGED <<round, todo, left, asked, scored, strong, expired, aborted,
                     worker, local, prepared>>
  BY DEF Ensure, Booted, BootFails, LocalFails, Recover, Spawn, Reuses, Job, counts,
         cloudVars, runtime
<1>4. /\ request' \in Requests /\ request'.posts = request.posts
      /\ request'.extra = request.extra
  <2>1. \/ request' = request
        \/ request' = [request EXCEPT !.boots = "first"]
        \/ request' = [request EXCEPT !.try = 2]
        \/ request' = [request EXCEPT !.try = 2, !.boots = "recovery"]
    BY DEF Ensure, Booted, BootFails, LocalFails, Recover, Spawn
  <2> QED BY <2>1, <1>a, RequestTried, RequestBooted, RequestRecovered
<1>5. ScoringType'
  BY <1>3, <1>4 DEF ScoringInv, ScoringType, Flags, Numbers
<1>6. Posted'
  BY <1>1, <1>2, <1>3, <1>4 DEF ScoringInv, Posted
<1>7. Counted'
  BY <1>1, <1>2, <1>3, <1>4
  DEF ScoringInv, ScoringType, Numbers, Counted, Judging, LeftOutForAReason
<1>8. NoServerLeaks' /\ StoriesShownOnce'
  BY <1>2, <1>3 DEF ScoringInv, NoServerLeaks, StoriesShownOnce
<1> QED BY <1>5, <1>6, <1>7, <1>8 DEF ScoringInv

\* The ranking, the extra requests, and the ends of an attempt.
LEMMA EndsKept ==
  ASSUME Places, ScoringInv, ScoringAssumption, at = "score", at' = "score",
         \/ Rank \/ BeginExtras \/ Extra \/ EndScoring
         \/ KillScoring \/ ResumeScoring
  PROVE  ScoringInv'
<1>1. CASE Rank
  <2>1. /\ pc' = "ranked" /\ pc = "rank"
        /\ UNCHANGED <<round, todo, left, asked, scored, strong, request, expired,
                       aborted, worker, strays, kills, local, prepared>>
    BY <1>1 DEF Rank, Goto, Job, counts, cloudVars, runtime
  <2>2. PICK eligible \in 0 .. scored :
          \E good \in 0 .. eligible, same \in SUBSET Pairs(eligible) :
          \E ranked \in Diverse(1 .. eligible, eligible, same) :
          \E c \in Diverse(ranked \cap 1 .. good, FinalistLimit, same) :
            clips' = [good |-> good, same |-> same, ranked |-> ranked,
                      finalists |-> c]
    BY <1>1 DEF Rank
  <2>8. PICK good \in 0 .. eligible, same \in SUBSET Pairs(eligible) :
          \E ranked \in Diverse(1 .. eligible, eligible, same) :
          \E c \in Diverse(ranked \cap 1 .. good, FinalistLimit, same) :
            clips' = [good |-> good, same |-> same, ranked |-> ranked,
                      finalists |-> c]
    BY <2>2
  <2>9. PICK ranked \in Diverse(1 .. eligible, eligible, same) :
          \E c \in Diverse(ranked \cap 1 .. good, FinalistLimit, same) :
            clips' = [good |-> good, same |-> same, ranked |-> ranked,
                      finalists |-> c]
    BY <2>8
  <2>10. PICK chosen_ \in Diverse(ranked \cap 1 .. good, FinalistLimit, same) :
            clips' = [good |-> good, same |-> same, ranked |-> ranked,
                      finalists |-> chosen_]
    BY <2>9
  <2>3. eligible \in Nat
    BY <2>2 DEF ScoringInv, ScoringType, Numbers
  <2>4. ShownOnce(good, same, ranked, chosen_)
    <3>1. /\ good \in 0 .. eligible
          /\ ranked \in Diverse(1 .. eligible, eligible, same)
          /\ chosen_ \in Diverse(ranked \cap 1 .. good, FinalistLimit, same)
      BY <2>8, <2>9, <2>10
    <3> QED BY <3>1, <2>3, RankShowsOnce
  <2>5. StoriesShownOnce'
    BY <2>10, <2>4 DEF StoriesShownOnce, ShownOnce
  <2>6. ScoringType' /\ Posted' /\ NoServerLeaks'
    BY <2>1 DEF ScoringInv, ScoringType, Flags, Numbers, Posted, NoServerLeaks
  <2>7. Counted'
    BY <2>1 DEF ScoringInv, Counted, Judging, LeftOutForAReason
  <2> QED BY <2>5, <2>6, <2>7 DEF ScoringInv
<1>2. CASE BeginExtras
  <2>1. /\ pc' = "extras" /\ pc = "ranked"
        /\ UNCHANGED <<round, left, asked, scored, strong, request, expired,
                       aborted, worker, strays, kills, local, prepared>>
    BY <1>2 DEF BeginExtras, Goto, Job, cloudVars, runtime
  <2>2. local => todo' = 0
    BY <1>2 DEF BeginExtras
  <2>3. ScoringType' /\ Posted' /\ NoServerLeaks' /\ StoriesShownOnce'
    BY <2>1, <2>2 DEF ScoringInv, ScoringType, Flags, Numbers, Posted,
                      NoServerLeaks, StoriesShownOnce
  <2>4. Counted'
    BY <2>1 DEF ScoringInv, Counted, Judging, LeftOutForAReason
  <2> QED BY <2>3, <2>4 DEF ScoringInv
<1>3. CASE Extra
  <2>1. /\ pc' = "post" /\ pc = "extras" /\ todo > 0 /\ todo' = todo - 1
        /\ request' = [NoRequest EXCEPT !.extra = TRUE]
        /\ UNCHANGED <<round, left, asked, scored, strong, expired, aborted, worker,
                       strays, kills, local, prepared>>
    BY <1>3 DEF Extra, Goto, Job, cloudVars, runtime
  <2>2. ~local
    BY <2>1 DEF ScoringInv, Posted, ScoringType, Numbers
  <2>3. ScoringType'
    BY <2>1, NoRequestIs DEF ScoringInv, ScoringType, Flags, Numbers
  <2>4. Posted'
    BY <2>1, <2>2, NoRequestIs, MaxPostsIs DEF ScoringInv, Posted
  <2>5. Counted'
    BY <2>1, NoRequestIs DEF ScoringInv, Counted, Judging, LeftOutForAReason
  <2>6. NoServerLeaks' /\ StoriesShownOnce'
    BY <2>1 DEF ScoringInv, NoServerLeaks, StoriesShownOnce
  <2> QED BY <2>3, <2>4, <2>5, <2>6 DEF ScoringInv
<1>4. CASE EndScoring \/ ResumeScoring
  <2>1. /\ pc' \in {"done", "start"}
        /\ UNCHANGED <<round, todo, left, asked, scored, strong, request, expired,
                       aborted, worker, strays, kills, local, prepared>>
    BY <1>4 DEF EndScoring, ResumeScoring, Resumes, Goto, Job, counts, cloudVars,
                runtime, scoringVars
  <2>2. ScoringType' /\ Posted' /\ NoServerLeaks' /\ StoriesShownOnce'
    BY <2>1 DEF ScoringInv, ScoringType, Flags, Numbers, Posted, NoServerLeaks,
                StoriesShownOnce
  <2>3. Counted'
    BY <2>1 DEF ScoringInv, Counted, Judging, LeftOutForAReason
  <2> QED BY <2>2, <2>3 DEF ScoringInv
<1>5. CASE KillScoring
  <2>1. /\ pc' = "stopped" /\ kills' = kills + 1
        /\ strays' = strays \/ strays' = strays + 1
        /\ aborted' = FALSE /\ worker' = FALSE /\ request' = NoRequest
        /\ UNCHANGED <<round, todo, left, asked, scored, strong, expired, local,
                       prepared>>
    BY <1>5 DEF KillScoring, Trouble, Job, counts
  <2>2. ScoringType'
    <3>1. Flags'
      BY <2>1 DEF ScoringInv, ScoringType, Flags
    <3>2. Numbers' /\ request' \in Requests
      BY <2>1, NoRequestIs DEF ScoringInv, ScoringType, Numbers
    <3> QED BY <3>1, <3>2 DEF ScoringType
  <2>3. Posted'
    BY <2>1, NoRequestIs, MaxPostsIs DEF Posted
  <2>4. Counted'
    BY <2>1 DEF ScoringInv, Counted, Judging, LeftOutForAReason
  <2>5. NoServerLeaks' /\ StoriesShownOnce'
    BY <2>1 DEF ScoringInv, ScoringType, Numbers, NoServerLeaks, StoriesShownOnce
  <2> QED BY <2>2, <2>3, <2>4, <2>5 DEF ScoringInv
<1> QED BY <1>1, <1>2, <1>3, <1>4, <1>5

LEMMA ScoringKept ==
  ASSUME Places, ScoringInv, ScoringAssumption, at = "score", ScoringNext
  PROVE  ScoringInv'
<1>1. at = "score" /\ at' = "score"
  BY ScoringSteps
<1>2. CASE StartScoring \/ Ask \/ NextRound \/ EndRounds
  BY <1>1, <1>2, RoundsKept
<1>3. CASE Expire \/ ServerFails \/ WorkerEnds
  BY <1>1, <1>3, EventsKept
<1>4. CASE Answered \/ Post \/ Refused \/ PostFails \/ Abandon
  BY <1>1, <1>4, RequestsKept
<1>5. CASE Ensure \/ Booted \/ BootFails \/ LocalFails \/ Recover
  BY <1>1, <1>5, LocalKept
<1>6. CASE \/ Rank \/ BeginExtras \/ Extra \/ EndScoring
           \/ KillScoring \/ ResumeScoring
  BY <1>1, <1>6, EndsKept
<1> QED BY <1>2, <1>3, <1>4, <1>5, <1>6 DEF ScoringNext

\* Scoring as it begins, and as it is forgotten.
LEMMA NoScoringInv ==
  ASSUME ScoringAssumption, NoScoring, at # "score", pc \in {"start", "done"}
  PROVE  ScoringInv
<1>1. Flags
  BY DEF NoScoring, Flags
<1>2. Numbers /\ request \in Requests
  BY NoRequestIs DEF NoScoring, Numbers
<1>3. Posted
  BY NoRequestIs, MaxPostsIs DEF NoScoring, Posted
<1>4. Counted /\ NoServerLeaks /\ StoriesShownOnce
  BY DEF NoScoring, Counted, LeftOutForAReason, NoServerLeaks, StoriesShownOnce
<1> QED BY <1>1, <1>2, <1>3, <1>4 DEF ScoringInv, ScoringType

LEMMA ScoringLeft ==
  ASSUME Places, ScoringInv, ScoringAssumption, Next, ~(at = "score" /\ ScoringNext)
  PROVE  ScoringInv'
<1>1. CASE EnterScoring
  <2>1. /\ at # "score" /\ pc' = "start" /\ local' \in BOOLEAN
        /\ prepared' \in 0 .. MaxCandidates /\ MaxCandidates \in Nat
        /\ UNCHANGED <<round, todo, left, asked, scored, strong, request, expired,
                       aborted, worker, strays, kills>>
    BY <1>1 DEF EnterScoring, Leaves, Enters, BeginScoring, counts, cloudVars, runtime,
                ScoringAssumption
  <2>2. ScoringType'
    <3>1. Flags'
      BY <2>1 DEF ScoringInv, ScoringType, Flags
    <3>2. Numbers' /\ request' \in Requests
      BY <2>1 DEF ScoringInv, ScoringType, Numbers
    <3> QED BY <3>1, <3>2 DEF ScoringType
  <2>3. Posted'
    BY <2>1 DEF ScoringInv, Posted
  <2>4. Counted'
    BY <2>1 DEF ScoringInv, Counted, Judging, LeftOutForAReason
  <2>5. NoServerLeaks' /\ StoriesShownOnce'
    BY <2>1 DEF ScoringInv, NoServerLeaks, StoriesShownOnce
  <2> QED BY <2>2, <2>3, <2>4, <2>5 DEF ScoringInv
<1>2. CASE EnterRepair \/ EndWithoutClips
  <2>1. /\ at' # "score" /\ pc' \in {"start", "done"} /\ ForgetScoring
    BY <1>2 DEF EnterRepair, EndWithoutClips, Leaves, Enters
  <2>2. Flags'
    BY <2>1 DEF ForgetScoring, Flags
  <2>3. Numbers' /\ request' \in Requests
    BY <2>1, NoRequestIs DEF ForgetScoring, Numbers
  <2>4. Posted'
    BY <2>1, NoRequestIs, MaxPostsIs DEF ForgetScoring, Posted
  <2>5. Counted' /\ NoServerLeaks' /\ StoriesShownOnce'
    BY <2>1 DEF ForgetScoring, Counted, LeftOutForAReason, NoServerLeaks,
                StoriesShownOnce
  <2> QED BY <2>2, <2>3, <2>4, <2>5 DEF ScoringInv, ScoringType
<1>3. ASSUME at # "score", at' # "score", UNCHANGED scoringVars,
             pc' \in ToolsPlaces \cup IngestPlaces \cup SpeechPlaces \cup OtherPlaces
      PROVE  ScoringInv'
  <2>2. /\ pc' \notin {"sent", "post", "ensure", "boot", "recover", "extras", "ranked"}
        /\ UNCHANGED <<local, prepared, round, todo, left, asked, scored, strong,
                       request, expired, aborted, worker, strays, kills>>
    BY <1>3 DEF ToolsPlaces, IngestPlaces, SpeechPlaces, OtherPlaces, scoringVars,
                counts, cloudVars, runtime
  <2>3. ScoringType' /\ NoServerLeaks' /\ StoriesShownOnce'
    BY <2>2 DEF ScoringInv, ScoringType, Flags, Numbers, NoServerLeaks,
                StoriesShownOnce
  <2>4. Posted' /\ Counted'
    BY <1>3, <2>2 DEF ScoringInv, Posted, Counted, LeftOutForAReason
  <2> QED BY <2>3, <2>4 DEF ScoringInv
<1>4. CASE at = "ingest" /\ IngestNext /\ UNCHANGED scoringVars
  BY <1>3, <1>4, IngestSteps
<1>5. CASE at = "asr" /\ SpeechNext(transcript # "none") /\ UNCHANGED scoringVars
  BY <1>3, <1>5, SpeechSteps
<1>6. CASE OtherNext
  BY <1>3, <1>6, OtherSteps DEF OtherNext, OtherStages
<1>7. CASE EnterIngest \/ EnterSpeech \/ EnterDiarize
  BY <1>3, <1>7 DEF EnterIngest, EnterSpeech, EnterDiarize, Leaves, Enters, IngestPlaces,
                    SpeechPlaces
<1>8. CASE at = "tools" /\ ToolsNext /\ UNCHANGED scoringVars
  <2>1. pc \in ToolsPlaces
    BY <1>8 DEF Places, OtherStages
  <2> QED BY <1>8, <2>1, <1>3, ToolsSteps
<1> QED BY <1>1, <1>2, <1>4, <1>5, <1>6, <1>7, <1>8, Steps

-----------------------------------------------------------------------------
(* The clips that are repaired.                                            *)
Recommended ==
  due \in Nat /\ wanted \in Nat /\ due <= wanted /\ wanted <= FinalistLimit

LEMMA FinalistLimitIs == ASSUME ScoringAssumption PROVE FinalistLimit \in Nat
BY DEF ScoringAssumption

LEMMA RecommendedKept ==
  ASSUME ScoringAssumption, Places, ScoringInv, Recommended, Next
  PROVE  Recommended'
<1>0. FinalistLimit \in Nat
  BY FinalistLimitIs
<1>1. CASE EnterRepair
  <2>1. PICK n \in 1 .. Least(FinalistLimit, scored) : BeginRepair(n)
    BY <1>1 DEF EnterRepair
  <2>2. scored \in Nat
    BY DEF ScoringInv, ScoringType, Numbers
  <2> QED BY <2>1, <2>2, <1>0, LeastOf DEF BeginRepair, Recommended
<1>2. CASE EnterCamera
  BY <1>2, <1>0 DEF EnterCamera, ForgetRepair, Recommended
<1>3. CASE RepairNext
  BY <1>3 DEF RepairNext, StartRepair, RepairEntry, EndRepair, repairVars, Recommended
<1>4. ~EnterRepair /\ ~EnterCamera /\ ~RepairNext => UNCHANGED repairVars
  BY Zenon DEF Next, Pipeline, EnterStage, EnterIngest, EnterSpeech, EnterDiarize,
    EnterEvents, EnterCandidates, EnterScoring, EndWithoutClips, EnterRender, EnterEdit,
    EnterLoop
<1> QED BY <1>1, <1>2, <1>3, <1>4 DEF repairVars, Recommended

-----------------------------------------------------------------------------
(* The bound on the faults.                                                *)
LEMMA FaultsKept ==
  ASSUME FaultsAssumption, faults \in 0 .. MaxFaults, Places, Next
  PROVE  faults' \in 0 .. MaxFaults
<1>1. ASSUME \/ UNCHANGED faults
             \/ faults < MaxFaults /\ faults' = faults + 1
             \/ faults' = 0
      PROVE  faults' \in 0 .. MaxFaults
  BY <1>1 DEF FaultsAssumption
<1>2. CASE IngestNext
  BY <1>2, <1>1 DEF IngestNext, StartIngest, Serve, Transferred, TransferFails,
    DownloadCaption, SelectCaption, AcceptSubtitle, Normalize, ExtractAudio,
    KillIngest, ResumeIngest, Resumes, Goto, Trouble
<1>3. CASE SpeechNext(transcript # "none")
  BY <1>3, <1>1 DEF SpeechNext, ReadSubtitle, ChooseDevices, Activate,
    ActivationFails, LoadModel, LoadFails, Halve, TranscribeFails, Transcribe,
    AlignFails, Align, StopSpeech, ResumeSpeech, Resumes, FallsBack, Goto, Trouble
<1>4. CASE ScoringNext
  BY <1>4, <1>1 DEF ScoringNext, StartScoring, Expire, Ask, NextRound, EndRounds,
    Answered, Post, Refused, PostFails, Abandon, WorkerEnds, ServerFails, Ensure,
    Spawn, Booted, BootFails, LocalFails, Recover, Rank, BeginExtras, Extra,
    EndScoring, KillScoring, ResumeScoring, Resumes, Goto, Trouble, attempt
<1>5. CASE \/ EnterIngest \/ EnterSpeech \/ EnterDiarize \/ EnterScoring \/ EnterRepair
           \/ EndWithoutClips
  BY <1>5, <1>1 DEF EnterIngest, EnterSpeech, EnterDiarize, EnterScoring, EnterRepair,
                    EndWithoutClips, Enters
<1>7. CASE ToolsNext
  BY <1>7, <1>1 DEF ToolsNext, StartInstall, Found, Missing, Make, Made, InstallModules,
    SetAside, Place, Tidy, PlaceFails, TidyFails, MakingFails, StartTest, Tested,
    TestFails, KillInstall, ResumeInstall, Resumes, Goto, Trouble
<1>6. CASE OtherNext
  BY <1>6, <1>1, OtherSteps DEF OtherNext, More
<1> QED BY <1>2, <1>3, <1>4, <1>5, <1>6, <1>7, Steps

-----------------------------------------------------------------------------
(* The editing: what a re-render that was asked for is going to read.      *)
AskedFor ==
  at = "edit" /\ pc = "asked" => cutOut.late \/ (stored = cutOut.asked.edit /\ Valid(stored))
CutOutShape == DOMAIN cutOut = {"asked", "edit", "take", "late"}
EditingInv == CutOutShape /\ AskedFor /\ RenderedWithin

LEMMA EditingKept ==
  ASSUME EditingInv, at = "edit", EditingNext
  PROVE  EditingInv'
<1>1. CASE OpenEditor
  BY <1>1 DEF OpenEditor, Goto, EditingInv, CutOutShape, AskedFor, RenderedWithin, NoCutOut
<1>2. CASE AskRender
  BY <1>2 DEF AskRender, Click, Goto, EditingInv, CutOutShape, AskedFor, RenderedWithin,
              NoCutOut, Valid
<1>3. CASE Rerender
  <2>1. /\ pc = "asked" /\ pc' = "start" /\ CutOutShape
        /\ cutOut' = [cutOut EXCEPT !.edit = stored, !.take = take]
    BY <1>3 DEF Rerender, Goto, EditingInv
  <2>2. /\ CutOutShape' /\ cutOut'.edit = stored /\ cutOut'.take = take
        /\ cutOut'.late = cutOut.late
    BY <2>1 DEF CutOutShape
  <2>3. RenderedWithin'
    BY <2>1, <2>2 DEF EditingInv, AskedFor, Valid, RenderedWithin
  <2> QED BY <2>1, <2>2, <2>3 DEF EditingInv, AskedFor
<1>4. CASE RerenderFails \/ CloseEditor
  BY <1>4 DEF RerenderFails, CloseEditor, editingVars, Goto, Trouble, EditingInv,
              CutOutShape, AskedFor, RenderedWithin, NoCutOut
<1>5. ASSUME Overtake, UNCHANGED attempt
      PROVE  EditingInv'
  <2>1. CASE pc = "asked"
    <3>1. cutOut' = [cutOut EXCEPT !.late = TRUE] /\ CutOutShape
      BY <1>5, <2>1 DEF Overtake, EditingInv
    <3>2. cutOut'.late /\ CutOutShape'
      BY <3>1 DEF CutOutShape
    <3> QED BY <3>2 DEF EditingInv, AskedFor, RenderedWithin
  <2>2. CASE pc # "asked"
    BY <1>5, <2>2 DEF Overtake, attempt, EditingInv, CutOutShape, AskedFor, RenderedWithin
  <2> QED BY <2>1, <2>2
<1>6. ASSUME UNCHANGED <<attempt, stored, cutOut>>, take' = take \/ pc # "asked"
      PROVE  EditingInv'
  BY <1>6 DEF attempt, EditingInv, CutOutShape, AskedFor, RenderedWithin, Valid
<1>7. CASE RemoveOrNot \/ SwitchSilence \/ DeleteVisual
  <2>1. PICK e : Persist(e)
    BY Zenon, <1>7 DEF RemoveOrNot, SwitchSilence, DeleteVisual
  <2>2. UNCHANGED attempt /\ take' = take /\ (Overtake \/ UNCHANGED <<stored, cutOut>>)
    BY <2>1 DEF Persist, Click
  <2> QED BY <2>2, <1>5, <1>6
<1>8. CASE Suggest \/ SuggestWrites
  BY <1>8, <1>5 DEF Suggest, SuggestWrites
<1>9. CASE Drag \/ SuggestReads \/ SuggestFails \/ SuggestAnswers \/ ScoreAgain
  <2>1. UNCHANGED <<attempt, stored, cutOut>> /\ (take' = take \/ pc # "asked")
    BY Zenon, <1>9 DEF Drag, Click, SuggestReads, SuggestFails, SuggestAnswers, ScoreAgain
  <2> QED BY <2>1, <1>6
<1> QED BY <1>1, <1>2, <1>3, <1>4, <1>7, <1>8, <1>9 DEF EditingNext

\* The other stages leave the edits alone.
LEMMA EditingLeft ==
  ASSUME EditingInv, Places, Next
  PROVE  EditingInv'
<1>1. ASSUME UNCHANGED editingVars, at' # "edit" \/ pc' # "asked"
      PROVE  EditingInv'
  BY <1>1 DEF editingVars, EditingInv, CutOutShape, AskedFor, RenderedWithin
<1>2. CASE at = "edit" /\ EditingNext
  BY <1>2, EditingKept
<1>3. CASE EnterEdit
  BY <1>3 DEF EnterEdit, Enters, BeginEditing, EditingInv, CutOutShape, AskedFor,
              RenderedWithin
<1>4. CASE Pipeline /\ ~EnterEdit
  <2>1. UNCHANGED editingVars
    BY Zenon, <1>4 DEF Pipeline, EnterStage, EnterIngest, EnterSpeech, EnterDiarize,
      EnterEvents, EnterCandidates, EnterScoring, EnterRepair, EnterCamera,
      EndWithoutClips, EnterRender, EnterLoop
  <2>2. at' # "edit"
    <3>1. CASE EnterStage
      BY <3>1, <1>4 DEF EnterStage, EnterIngest, EnterSpeech, EnterDiarize,
        EnterEvents, EnterCandidates, EnterScoring, EnterRepair, EnterCamera,
        EndWithoutClips, EnterRender, EnterLoop, Enters
    <3>2. CASE ~EnterStage
      BY <3>2, <1>4, ToolsSteps, IngestSteps, SpeechSteps, ScoringSteps, ListeningSteps,
         ShortlistSteps, RepairSteps, CameraSteps, RenderingSteps
      DEF Pipeline, Places, OtherStages
    <3> QED BY <3>1, <3>2
  <2> QED BY <1>1, <2>1, <2>2
<1>5. CASE at = "loop" /\ LoopNext /\ UNCHANGED editingVars
  BY <1>5, <1>1, LoopSteps
<1> QED BY <1>2, <1>3, <1>4, <1>5 DEF Next

-----------------------------------------------------------------------------
(***************************************************************************)
(* The stages with invariants of their own (Clips_proofs, Measures_proofs, *)
(* Candidates_proofs) are only entered, left, and otherwise let alone.     *)
(***************************************************************************)
LEMMA OwnStage ==
  ASSUME Places, Next, ~EnterStage
  PROVE  at' = at \/ (at = "render" /\ at' = "camera")
<1>1. CASE Pipeline
  BY <1>1, ToolsSteps, IngestSteps, SpeechSteps, ScoringSteps, ListeningSteps,
     ShortlistSteps, RepairSteps, CameraSteps, RenderingSteps
  DEF Pipeline, Places, OtherStages
<1>2. CASE at = "loop" /\ LoopNext
  BY <1>2, LoopSteps
<1>3. CASE at = "edit" /\ EditingNext
  BY <1>3, EditingSteps DEF Places, OtherStages
<1> QED BY <1>1, <1>2, <1>3 DEF Next

(***************************************************************************)
(* Before the editing there is nothing of it; from then on what the editor *)
(* keeps true (Clips_proofs).                                              *)
(***************************************************************************)
Edited == (at = "edit" => EditsInv) /\ (at # "edit" => NoEditing)

LEMMA EditingBegins ==
  ASSUME TalksAssumption, NoEditing, BeginEditing, pc' = "start"
  PROVE  EditsInv'
<1>1. /\ talk' \in Talks /\ take' = 1 /\ stored' = NoEdit /\ shown' = NoEditor
      /\ helper' = NoHelper /\ cutOut' = NoCutOut
  BY DEF NoEditing, BeginEditing
<1>2. 1 \in 1 .. Len(Cuttings)
  <2>1. Len(Cuttings) \in Nat /\ Len(Cuttings) > 0
    BY DEF TalksAssumption
  <2> QED BY <2>1
<1>3. /\ IsEdit(NoEdit) /\ DOMAIN NoEditor = {"edit", "start", "end", "silences"}
      /\ NoEditor.edit = NoEdit
  BY DEF NoEdit, NoEditor, IsEdit
<1>4. DOMAIN NoHelper = {"pc", "edit", "mine"} /\ NoHelper.edit = NoEdit /\ NoHelper.pc = "none"
  BY DEF NoHelper
<1>5. DOMAIN NoCutOut = {"asked", "edit", "take", "late"} /\ NoCutOut.edit = NoEdit
  BY DEF NoCutOut
<1>6. EditsShaped'
  BY <1>1, <1>2, <1>3, <1>4, <1>5 DEF EditsShaped, IsEdit
<1>7. EditsLast'
  BY <1>1, <1>4, <1>5 DEF EditsLast
<1>8. EditorsKnow'
  BY <1>1, <1>5 DEF EditorsKnow
<1> QED BY <1>6, <1>7, <1>8 DEF EditsInv

LEMMA EditedKept ==
  ASSUME TimesAssumption, TalksAssumption, Edited, Places, Next
  PROVE  Edited'
<1>1. ASSUME UNCHANGED editingVars, at # "edit", at' # "edit"
      PROVE  Edited'
  BY <1>1 DEF Edited, editingVars, NoEditing
<1>2. CASE at = "edit" /\ EditingNext
  <2>1. at' = at
    BY <1>2, EditingSteps DEF Places, OtherStages
  <2>2. EditsInv'
    BY <1>2, EditsKept DEF Edited
  <2> QED BY <1>2, <2>1, <2>2 DEF Edited
<1>3. CASE EnterEdit
  <2>1. at # "edit" /\ at' = "edit" /\ pc' = "start" /\ BeginEditing
    BY <1>3 DEF EnterEdit, Enters, Leaves
  <2>2. EditsInv'
    BY <2>1, EditingBegins DEF Edited
  <2> QED BY <2>1, <2>2 DEF Edited
<1>4. CASE Pipeline /\ ~EnterEdit
  <2>1. UNCHANGED editingVars
    BY Zenon, <1>4 DEF Pipeline, EnterStage, EnterIngest, EnterSpeech, EnterDiarize,
      EnterEvents, EnterCandidates, EnterScoring, EnterRepair, EnterCamera,
      EndWithoutClips, EnterRender, EnterLoop
  <2>2. at # "edit" /\ at' # "edit"
    <3>1. CASE EnterStage
      BY <3>1, <1>4 DEF EnterStage, EnterIngest, EnterSpeech, EnterDiarize,
        EnterEvents, EnterCandidates, EnterScoring, EnterRepair, EnterCamera,
        EndWithoutClips, EnterRender, EnterLoop, Enters, Leaves
    <3>2. CASE ~EnterStage
      <4>1. at # "edit"
        BY <3>2, <1>4 DEF Pipeline
      <4>2. at' = at \/ (at = "render" /\ at' = "camera")
        BY <3>2, <1>4, OwnStage DEF Next
      <4> QED BY <4>1, <4>2
    <3> QED BY <3>1, <3>2
  <2> QED BY <1>1, <2>1, <2>2
<1>5. CASE at = "loop" /\ LoopNext /\ UNCHANGED editingVars
  BY <1>5, <1>1, LoopSteps
<1> QED BY <1>2, <1>3, <1>4, <1>5 DEF Next

(* The repair: what it has made of the last entry, on the transcript.      *)
Repaired ==
  /\ RepairSound
  /\ at = "repair" => script \in Scripts
  /\ at # "repair" => script = NoScript /\ entry = NoEntry

LEMMA NothingRepaired ==
  ASSUME NoRepair, at # "repair"
  PROVE  Repaired
<1>1. script = NoScript /\ entry = NoEntry /\ Words = {}
  BY DEF NoRepair, NoScript, Words
<1>2. WordsWhole /\ OpeningKept /\ EndKept /\ TailLimited
  BY <1>1 DEF WordsWhole, OpeningKept, EndKept, TailLimited, NoEntry, TailEnds, PaysOff
<1> QED BY <1>1, <1>2 DEF Repaired, RepairSound

\* The bounds before any entry are at the start of the first word at most.
LEMMA NoEntrySound ==
  ASSUME RepairAssumptions, script' \in Scripts \cup {NoScript}, entry' = NoEntry
  PROVE  RepairSound'
<1>1. \A i \in Words' : WordStart(i)' \in Nat
  <2>1. CASE script' \in Scripts
    <3> DEFINE W == [start : Nat, end : Nat, closes : BOOLEAN, dangles : BOOLEAN]
    <3>1. script'.words \in Seq(W)
      BY <2>1 DEF RepairAssumptions, ScriptsAssumption
    <3>2. \A w \in W : w.start \in Nat
      OBVIOUS
    <3> HIDE DEF W
    <3>3. \A i \in DOMAIN script'.words : script'.words[i] \in W
      BY <3>1
    <3> QED BY <3>2, <3>3 DEF Words, WordStart
  <2>2. CASE script' = NoScript
    BY <2>2 DEF NoScript, Words
  <2> QED BY <2>1, <2>2
<1>2. entry'.from = 0 /\ entry'.to = 0 /\ ~entry'.of.opening /\ ~entry'.of.kept
  BY DEF NoEntry
<1>3. WordsWhole'
  BY <1>1, <1>2 DEF WordsWhole
<1>4. OpeningKept' /\ EndKept' /\ TailLimited'
  BY <1>2 DEF OpeningKept, EndKept, TailLimited, TailEnds, PaysOff
<1> QED BY <1>3, <1>4 DEF RepairSound

LEMMA RepairedStays ==
  ASSUME Repaired, UNCHANGED repairVars, UNCHANGED at
  PROVE  Repaired'
<1>1. UNCHANGED <<script, entry>>
  BY DEF repairVars
<1>2. RepairSound'
  BY <1>1 DEF Repaired, RepairSound, WordsWhole, OpeningKept, EndKept, TailLimited, Words,
    WordStart, WordEnd, TailEnds, PaysOff, KeptEnd, PayoffEnd, Segments, SegStart, SegEnd
<1> QED BY <1>1, <1>2 DEF Repaired

LEMMA RepairedKept ==
  ASSUME RepairAssumptions, Repaired, Places, Next
  PROVE  Repaired'
<1>1. CASE EnterRepair
  <2>1. /\ at = "score" /\ at' = "repair" /\ script' \in Scripts /\ entry' = entry
    BY <1>1 DEF EnterRepair, Leaves, Enters, BeginRepair
  <2> QED BY <2>1, NoEntrySound DEF Repaired
<1>2. CASE EnterCamera
  <2>1. at' = "camera" /\ script' = NoScript /\ entry' = NoEntry
    BY <1>2 DEF EnterCamera, Enters, ForgetRepair
  <2> QED BY <2>1, NoEntrySound DEF Repaired
<1>3. CASE at = "repair" /\ RepairNext
  <2>1. script' = script /\ at' = "repair"
    BY <1>3, RepairSteps DEF RepairNext, StartRepair, RepairEntry, EndRepair, repairVars
  <2>2. script \in Scripts /\ RepairSound
    BY <1>3 DEF Repaired
  <2> QED BY <1>3, <2>1, <2>2, RepairKept DEF Repaired
<1>4. ASSUME UNCHANGED repairVars, at # "repair", at' # "repair"
      PROVE  Repaired'
  <2>1. script' = NoScript /\ entry' = NoEntry
    BY <1>4 DEF repairVars, Repaired
  <2> QED BY <1>4, <2>1, NoEntrySound DEF Repaired
<1>5. CASE EnterStage /\ ~EnterRepair /\ ~EnterCamera
  <2>1. UNCHANGED repairVars
    BY Zenon, <1>5 DEF EnterStage, EnterIngest, EnterSpeech, EnterDiarize, EnterEvents,
      EnterCandidates, EnterScoring, EndWithoutClips, EnterRender, EnterEdit, EnterLoop
  <2>2. at # "repair" /\ at' # "repair"
    BY <1>5 DEF EnterStage, EnterIngest, EnterSpeech, EnterDiarize, EnterEvents,
      EnterCandidates, EnterScoring, EndWithoutClips, EnterRender, EnterEdit, EnterLoop,
      Leaves, Enters
  <2> QED BY <1>4, <2>1, <2>2
<1>6. CASE ~EnterStage /\ ~(at = "repair" /\ RepairNext)
  <2>1. UNCHANGED repairVars
    BY Zenon, <1>6 DEF Next, Pipeline
  <2>2. at # "repair"
    BY <1>6 DEF Next, Pipeline
  <2> QED BY <1>4, <1>6, <2>1, <2>2, OwnStage
<1> QED BY <1>1, <1>2, <1>3, <1>5, <1>6

(* The camera.                                                             *)
DirectorVars == <<director, film, punches>>

LEMMA DirectorStays ==
  ASSUME DirectorInv, UNCHANGED DirectorVars
  PROVE  DirectorInv'
BY DEF DirectorVars, DirectorInv, Confirmed, Cooling, SteadyFilm, SteadyPunches, TurnsTo

LEMMA DirectorKept ==
  ASSUME CameraAssumption, DirectorInv, Next
  PROVE  DirectorInv'
<1>1. CASE CameraNext
  BY <1>1, CameraKept
<1>2. CASE EnterCamera \/ EnterLoop \/ EnterEdit
  BY Zenon, <1>2, NewClipInv DEF EnterCamera, BeginCamera, EnterLoop, EnterEdit, ForgetCamera
<1>3. CASE RenderingNext
  <2>1. UNCHANGED DirectorVars
    BY <1>3 DEF RenderingNext, LoseTrajectory, cameraVars, DirectorVars
  <2> QED BY <2>1, DirectorStays
<1>4. CASE ~CameraNext /\ ~EnterCamera /\ ~EnterLoop /\ ~EnterEdit /\ ~RenderingNext
  <2>1. UNCHANGED cameraVars
    BY Zenon, <1>4 DEF Next, Pipeline, EnterStage, EnterIngest, EnterSpeech, EnterDiarize,
      EnterEvents, EnterCandidates, EnterScoring, EnterRepair, EndWithoutClips, EnterRender
  <2> QED BY <2>1, DirectorStays DEF cameraVars, DirectorVars
<1> QED BY <1>1, <1>2, <1>3, <1>4

(* The reels.                                                              *)
LEMMA ReelsKept ==
  ASSUME LoopAssumption, LoopInv, Next
  PROVE  LoopInv'
<1>1. CASE LoopNext
  BY <1>1, LoopKept
<1>2. CASE EnterLoop
  BY <1>2, BeginLoopInv DEF EnterLoop
<1>3. CASE ~LoopNext /\ ~EnterLoop
  <2>1. UNCHANGED loopVars
    BY Zenon, <1>3 DEF Next, Pipeline, EnterStage, EnterIngest, EnterSpeech, EnterDiarize,
      EnterEvents, EnterCandidates, EnterScoring, EnterRepair, EnterCamera,
      EndWithoutClips, EnterRender, EnterEdit
  <2> QED BY <2>1, LoopStays
<1> QED BY <1>1, <1>2, <1>3

(* The sound.                                                              *)
LEMMA SoundKept ==
  ASSUME ListeningAssumption, Places, HeardSoFar, Next
  PROVE  HeardSoFar'
<1>1. CASE at \in {"diarize", "events"} /\ ListeningNext
  BY <1>1, ListeningKept
<1>2. CASE EnterStage
  <2>1. at' = "events" => pc' \notin {"hear", "fuse"}
    BY <1>2 DEF EnterStage, EnterIngest, EnterSpeech, EnterDiarize, EnterEvents,
      EnterCandidates, EnterScoring, EnterRepair, EnterCamera, EndWithoutClips, EnterRender,
      EnterEdit, EnterLoop, Enters
  <2> QED BY <2>1, NotListeningThen
<1>3. CASE ~EnterStage /\ ~(at \in {"diarize", "events"} /\ ListeningNext)
  <2>1. at # "events"
    BY <1>3 DEF Next, Pipeline
  <2>2. at' # "events"
    BY <1>3, <2>1, OwnStage
  <2> QED BY <2>2, NotListeningThen
<1> QED BY <1>1, <1>2, <1>3

(* The candidates.                                                         *)
LEMMA ShortlistLeft ==
  ASSUME CandidatesAssumptions, CandidatesInv, Places, Next
  PROVE  CandidatesInv'
<1>1. CASE at = "candidates" /\ ShortlistNext
  BY <1>1, CandidatesKept
<1>2. CASE EnterScoring \/ EndWithoutClips
  BY <1>2, ForgottenCandidatesInv DEF EnterScoring, EndWithoutClips, Enters
<1>3. CASE EnterStage /\ ~EnterScoring /\ ~EndWithoutClips
  <2>1. UNCHANGED shortlistVars
    BY Zenon, <1>3 DEF EnterStage, EnterIngest, EnterSpeech, EnterDiarize, EnterEvents,
      EnterCandidates, EnterRepair, EnterCamera, EnterRender, EnterEdit, EnterLoop
  <2>2. at # "candidates" /\ (at' = "candidates" => pc' = "start")
    BY <1>3 DEF EnterStage, EnterIngest, EnterSpeech, EnterDiarize, EnterEvents,
      EnterCandidates, EnterRepair, EnterCamera, EnterRender, EnterEdit, EnterLoop,
      Leaves, Enters
  <2> QED BY <2>1, <2>2, CandidatesStay
<1>4. CASE ~EnterStage /\ ~(at = "candidates" /\ ShortlistNext)
  <2>1. UNCHANGED shortlistVars
    BY Zenon, <1>4 DEF Next, Pipeline
  <2>2. at # "candidates"
    BY <1>4 DEF Next, Pipeline
  <2> QED BY <1>4, <2>1, <2>2, OwnStage, CandidatesStay
<1> QED BY <1>1, <1>2, <1>3, <1>4

-----------------------------------------------------------------------------
(* The inductive invariant.                                                *)
StagesInv ==
  /\ Places /\ ToolsInv /\ IngestInv /\ SpeechInv /\ ScoringInv /\ Recommended
  /\ EditingInv /\ faults \in 0 .. MaxFaults
  /\ CandidatesInv /\ Repaired /\ DirectorInv /\ LoopInv /\ HeardSoFar /\ Edited

StagesAssumptions ==
  /\ FaultsAssumption /\ BatchAssumption /\ ScoringAssumption
  /\ CandidatesAssumptions /\ RepairAssumptions /\ CameraAssumption /\ LoopAssumption
  /\ ListeningAssumption /\ TimesAssumption /\ TalksAssumption

LEMMA InitInv == ASSUME StagesAssumptions, Init PROVE StagesInv
<1>1. at = "tools" /\ pc = "start" /\ faults \in 0 .. MaxFaults
  BY DEF Init, StagesAssumptions, FaultsAssumption
<1>6. ToolsInv /\ Recommended
  <2>1. ToolsInv
    BY SomeToolsInv DEF Init
  <2>2. Recommended
    BY FinalistLimitIs DEF Init, NoRepair, Recommended, StagesAssumptions
  <2> QED BY <2>1, <2>2
<1>2. IngestInv
  <2>1. /\ provider = [by |-> "none", refused |-> FALSE]
        /\ op = [of |-> "meta", try |-> 1] /\ transcript = "none" /\ accepted = 0
        /\ caption = FALSE /\ subtitle.source = "none"
        /\ subtitle = [mode |-> "asr", source |-> "none"]
        /\ record = [verified |-> FALSE, last |-> "none"]
    BY DEF Init, NoIngest, NoSource, NoProvider, NoRecord
  <2>2. provider \in [by : {"none", "ours", "orphan"}, refused : BOOLEAN]
    BY <2>1
  <2>3. op \in [of : {"meta", "download"}, try : 1 .. 3]
    BY <2>1
  <2>4. subtitle \in [mode : {"asr", "platform", "external"},
                      source : {"none", "platform", "external"}]
    BY <2>1
  <2>5. transcript \in {"none", "platform", "external"} /\ accepted \in 0 .. 2
    BY <2>1
  <2>7. caption \in BOOLEAN
    BY <2>1
  <2>6. Served /\ Captioned /\ VerifiedWasLast
    BY <1>1, <2>1 DEF Served, Captioned, VerifiedWasLast
  <2>8. record \in Records
    BY <2>1 DEF Records
  <2> QED BY <2>2, <2>3, <2>4, <2>5, <2>6, <2>7, <2>8 DEF IngestInv, IngestType
<1>3. SpeechInv
  <2>1. /\ long = FALSE /\ approved = FALSE /\ saved = "none" /\ chosen = Idle
        /\ device = Idle /\ batch = 0
    BY DEF Init, NoSpeech
  <2>2. saved \in Devices \cup {"none"} /\ batch \in 0 .. BatchSize
    BY <2>1 DEF StagesAssumptions, BatchAssumption
  <2>4. approved \in BOOLEAN /\ long \in BOOLEAN
    BY <2>1
  <2>3. Decided /\ Promised /\ NoUnapprovedFallback /\ ReportIsTrue
    BY <1>1, <2>1 DEF Decided, Promised, NoUnapprovedFallback, ReportIsTrue
  <2> QED BY <2>1, <2>2, <2>3, <2>4 DEF SpeechInv, SpeechType
<1>4. ScoringInv
  BY <1>1, NoScoringInv DEF Init, StagesAssumptions
<1>5. EditingInv
  BY <1>1 DEF Init, NoEditing, NoCutOut, EditingInv, CutOutShape, AskedFor, RenderedWithin
<1>7. CandidatesInv /\ Repaired /\ LoopInv
  BY <1>1, NoCandidatesInv, NothingRepaired, NoLoopInv DEF Init
<1>8. DirectorInv
  BY NoCameraInv DEF Init, StagesAssumptions
<1>9. HeardSoFar
  BY <1>1, NotListening
<1>10. Edited
  BY <1>1 DEF Init, Edited
<1> QED BY <1>1, <1>2, <1>3, <1>4, <1>5, <1>6, <1>7, <1>8, <1>9, <1>10
        DEF StagesInv, Places, ToolsPlaces

LEMMA NextInv == ASSUME StagesAssumptions, StagesInv, Next PROVE StagesInv'
<1>0. /\ Places /\ ToolsInv /\ IngestInv /\ SpeechInv /\ ScoringInv /\ Recommended
      /\ EditingInv
      /\ FaultsAssumption /\ BatchAssumption /\ ScoringAssumption
      /\ faults \in 0 .. MaxFaults
      /\ CandidatesInv /\ Repaired /\ DirectorInv /\ LoopInv /\ HeardSoFar /\ Edited
      /\ CandidatesAssumptions /\ RepairAssumptions /\ CameraAssumption /\ LoopAssumption
      /\ ListeningAssumption /\ TimesAssumption /\ TalksAssumption
  BY DEF StagesInv, StagesAssumptions
<1>1. Places' /\ faults' \in 0 .. MaxFaults
  BY <1>0, PlacesKept, FaultsKept
<1>2. IngestInv'
  BY <1>0, IngestKept, IngestLeft
<1>3. SpeechInv'
  BY <1>0, SpeechKept, SpeechLeft
<1>4. ScoringInv'
  BY <1>0, ScoringKept, ScoringLeft
<1>5. EditingInv'
  BY <1>0, EditingLeft
<1>6. ToolsInv' /\ Recommended'
  BY <1>0, ToolsKept, ToolsLeft, RecommendedKept
<1>7. CandidatesInv' /\ Repaired'
  BY <1>0, ShortlistLeft, RepairedKept
<1>8. DirectorInv' /\ LoopInv'
  BY <1>0, DirectorKept, ReelsKept
<1>9. HeardSoFar'
  BY <1>0, SoundKept
<1>10. Edited'
  BY <1>0, EditedKept
<1> QED BY <1>1, <1>2, <1>3, <1>4, <1>5, <1>6, <1>7, <1>8, <1>9, <1>10 DEF StagesInv

LEMMA StutterInv == ASSUME StagesInv, UNCHANGED vars PROVE StagesInv'
<1>1. /\ UNCHANGED <<at, pc, faults>> /\ UNCHANGED toolsVars /\ UNCHANGED ingestVars
      /\ UNCHANGED speechVars /\ UNCHANGED scoringVars /\ UNCHANGED repairVars
  BY DEF vars, attempt
<1>2. Places' /\ faults' \in 0 .. MaxFaults
  BY <1>1 DEF StagesInv, Places
<1>3. IngestInv'
  BY <1>1 DEF StagesInv, ingestVars, files, IngestInv, IngestType, Served, Captioned,
              VerifiedWasLast
<1>4. SpeechInv'
  BY <1>1 DEF StagesInv, speechVars, SpeechInv, SpeechType, Decided, Promised,
              NoUnapprovedFallback, ReportIsTrue
<1>5. ScoringInv'
  BY <1>1 DEF StagesInv, scoringVars, counts, cloudVars, runtime, ScoringInv,
    ScoringType, Flags, Numbers, Posted, Counted, Judging, LeftOutForAReason,
    NoServerLeaks, StoriesShownOnce
<1>6. EditingInv'
  BY <1>1 DEF StagesInv, vars, editingVars, EditingInv, CutOutShape, AskedFor, Valid,
              RenderedWithin
<1>7. ToolsInv' /\ Recommended'
  BY <1>1 DEF StagesInv, toolsVars, repairVars, ToolsInv, ToolsType, Installing,
              OnlyTestsServe, Recommended
<1>8. CandidatesInv'
  BY <1>1, CandidatesStill DEF StagesInv, vars
<1>9. Repaired'
  BY <1>1, RepairedStays DEF StagesInv
<1>10. DirectorInv' /\ LoopInv'
  BY DirectorStays, LoopStays DEF StagesInv, vars, cameraVars, DirectorVars
<1>11. HeardSoFar'
  BY <1>1, ListeningStays DEF StagesInv, vars
<1>12. Edited'
  <2>1. UNCHANGED editingVars /\ at' = at /\ pc' = pc
    BY DEF vars, attempt
  <2>2. CASE at = "edit"
    BY <2>1, <2>2, EditsStill DEF StagesInv, Edited
  <2>3. CASE at # "edit"
    BY <2>1, <2>3 DEF StagesInv, Edited, editingVars, NoEditing
  <2> QED BY <2>2, <2>3
<1> QED BY <1>2, <1>3, <1>4, <1>5, <1>6, <1>7, <1>8, <1>9, <1>10, <1>11, <1>12 DEF StagesInv

LEMMA StagesTyped == ASSUME StagesInv PROVE TypeOK
<1>1. /\ at \in {"tools", "ingest", "asr", "score"} \cup OtherStages
      /\ faults \in 0 .. MaxFaults
      /\ ToolsType /\ IngestType /\ SpeechType /\ ScoringInv /\ Recommended
  BY DEF StagesInv, Places, ToolsInv, IngestInv, SpeechInv
<1>2. pc = "ask" => at = "score"
  BY DEF StagesInv, Places, ToolsPlaces, IngestPlaces, SpeechPlaces, OtherPlaces
<1>3. pc = "ask" => asked + todo + left <= prepared
  BY <1>1, <1>2 DEF ScoringInv, Counted
<1>4. scored <= asked /\ strong <= scored /\ request.posts <= MaxPosts
      /\ (local => ~worker /\ ~aborted)
  BY <1>1 DEF ScoringInv, Counted, Posted
<1>5. /\ piece \in Trees /\ litter \subseteq Trees \cup {"unpacked"}
      /\ due <= wanted /\ wanted <= FinalistLimit
  BY <1>1 DEF ToolsType, Trees, Recommended
<1> QED BY <1>1, <1>3, <1>4, <1>5 DEF TypeOK, OtherStages, IngestType, SpeechType, Pair

\* Every reachable state satisfies the invariant.
LEMMA Invariance ==
  ASSUME StagesAssumptions
  PROVE  Spec => []StagesInv
<1>1. Init => StagesInv
  BY InitInv
<1>2. StagesInv /\ [Next]_vars => StagesInv'
  BY NextInv, StutterInv
<1> QED BY <1>1, <1>2, PTL DEF Spec

LEMMA AssumptionsHold == StagesAssumptions
<1>1. CandidatesAssumptions
  BY LimitsAssumption, SourcesAssumption, ShortlistAssumption
  DEF CandidatesAssumptions, ProposingAssumptions
<1>2. RepairAssumptions
  BY ReachAssumption, ScriptsAssumption, MomentsAssumption, AnswersAssumption
  DEF RepairAssumptions
<1> QED BY <1>1, <1>2, FaultsAssumption, BatchAssumption, ScoringAssumption,
           CameraAssumption, LoopAssumption, ListeningAssumption, TimesAssumption,
           TalksAssumption DEF StagesAssumptions

\* The types of the variables, and the bounds of the counters.
THEOREM Typing == Spec => []TypeOK
BY Invariance, AssumptionsHold, StagesTyped, PTL

\* No tree that only looks ready is left by an installation that was cut off, a
\* successful one has cleared up, and its test leaves no provider behind.
THEOREM InstallationIsSound == Spec => []InstallSound
<1>1. StagesInv => ReadyIsWhole
  BY DEF StagesInv, ToolsInv, ToolsType, Seen, ReadyIsWhole
<1>2. StagesInv => ClearedUp
  BY DEF StagesInv, ToolsInv, ToolsType, Installing, ClearedUp
<1>3. StagesInv => OnlyTestsServe
  BY DEF StagesInv, ToolsInv
<1>4. StagesInv => InstallSound
  BY <1>1, <1>2, <1>3 DEF InstallSound
<1> QED BY <1>4, Invariance, AssumptionsHold, PTL

\* A retry uses a new PO-token provider, or one that a killed attempt left; a caption
\* of the site becomes the user's only by a second acceptance; and the download that
\* is called verified is the last that was recorded.
THEOREM IngestIsSound == Spec => []IngestSound
<1>1. StagesInv => RetryMeetsNewProvider
  BY DEF StagesInv, IngestInv, Served, RetryMeetsNewProvider
<1>2. StagesInv => ProvenanceKept
  BY DEF StagesInv, IngestInv, Captioned, ProvenanceKept
<1>3. StagesInv => IngestSound
  BY <1>1, <1>2 DEF StagesInv, IngestInv, IngestSound
<1> QED BY <1>3, Invariance, AssumptionsHold, PTL

\* No step of a long job chosen for the GPU runs on the CPU unapproved, and
\* the device that speech recognition reports is the one it used.
THEOREM SpeechIsSound == Spec => []SpeechSound
<1>1. StagesInv => SpeechSound
  BY DEF StagesInv, SpeechInv, SpeechSound
<1> QED BY <1>1, Invariance, AssumptionsHold, PTL

\* A transcription that was saved is never made again.
THEOREM TranscribedOnceOnly == Spec => TranscribedOnce
<1>1. StagesInv /\ [Next]_vars
        => [saved # "none" /\ at' = "asr" =>
              saved' = saved /\ pc' \notin {"load", "transcribe"}]_
             <<attempt, speechVars>>
  <2>1. ASSUME StagesInv, Next
        PROVE  saved # "none" /\ at' = "asr" =>
                 saved' = saved /\ pc' \notin {"load", "transcribe"}
    BY <2>1, SavedKept DEF StagesInv
  <2>2. UNCHANGED vars => UNCHANGED <<attempt, speechVars>>
    BY DEF vars
  <2> QED BY <2>1, <2>2
<1> QED BY <1>1, Invariance, AssumptionsHold, PTL DEF Spec, TranscribedOnce

\* What the detector of events finds in the pieces it hears is what there is in the
\* sound as a whole, however the sound is cut into pieces.
THEOREM PiecesMergeToWhole == Spec => []PiecesDoNotMatter
<1>1. StagesInv => PiecesDoNotMatter
  BY DEF StagesInv, HeardSoFar
<1> QED BY <1>1, Invariance, AssumptionsHold, PTL

\* The scoring: one request at a time, whatever threads were left behind; a
\* candidate is not asked about only for the two reasons there are; and the
\* finalists tell different stories, none being left out for nothing.
THEOREM ScoringIsSound == Spec => []ScoringSound
<1>1. StagesInv => OneRequestAtATime
  BY DEF StagesInv, ScoringInv, Posted, OneRequestAtATime
<1>2. StagesInv => LeftOutForAReason
  BY DEF StagesInv, ScoringInv, Counted
<1>3. StagesInv => StoriesShownOnce
  BY DEF StagesInv, ScoringInv
<1>4. StagesInv => ScoringSound
  BY <1>1, <1>2, <1>3 DEF ScoringSound
<1> QED BY <1>4, Invariance, AssumptionsHold, PTL

\* A re-render applies no edit to a clip whose bounds, as it is scored, it leaves,
\* unless something was saved after the request.
THEOREM RendersStayWithin == Spec => []RenderedWithin
<1>1. StagesInv => RenderedWithin
  BY DEF StagesInv, EditingInv
<1> QED BY <1>1, Invariance, AssumptionsHold, PTL

\* What a re-render cuts out of a clip is heard whole but for the silences, with the
\* captions and the picture in step, whatever was said and whatever was edited; and
\* no silence is removed that the user switched off, nor an edit applied elsewhere.
THEOREM EditsAreSound == Spec => []EditSound
<1>1. TimesAssumption /\ TalksAssumption
  BY AssumptionsHold DEF StagesAssumptions
<1>2. StagesInv => RenderedWithin
  BY DEF StagesInv, EditingInv
<1>3. StagesInv => CutInStep /\ SwitchedOffHeard
  <2>1. ASSUME StagesInv, at = "edit" PROVE CutInStep /\ SwitchedOffHeard
    BY <1>1, <2>1, EditIsInStep DEF StagesInv, Edited
  <2>2. ASSUME StagesInv, at # "edit" PROVE CutInStep /\ SwitchedOffHeard
    <3>1. cutOut.edit = NoEdit
      BY <2>2 DEF StagesInv, Edited, NoEditing, NoCutOut
    <3> QED BY <3>1 DEF CutInStep, SwitchedOffHeard
  <2> QED BY <2>1, <2>2
<1>4. StagesInv => EditSound
  BY <1>2, <1>3 DEF EditSound, EditHonoured
<1> QED BY <1>4, Invariance, AssumptionsHold, PTL

\* No PO-token provider and no llama-server is left behind but by a kill.
THEOREM ProcessesNeverLeak == Spec => []NoProcessLeaks
<1>1. StagesInv => NoProcessLeaks
  BY DEF StagesInv, IngestInv, Served, OnlyOrphansServe, ScoringInv, NoProcessLeaks
<1> QED BY <1>1, Invariance, AssumptionsHold, PTL

\* The candidates: anchors apart, spans that reach them, a shortlist that is told
\* apart, keeps the source's end and accounts for the rest.
THEOREM CandidatesAreSound == Spec => []CandidatesSound
<1>1. CandidatesAssumptions
  BY AssumptionsHold DEF StagesAssumptions
<1>2. StagesInv => CandidatesSound
  BY <1>1, CandidatesHold DEF StagesInv, CandidatesSound
<1> QED BY <1>2, Invariance, AssumptionsHold, PTL

\* A repaired clip cuts no word, opens and ends where its evidence is trusted to, and
\* goes on after its payoff for a limited time.
THEOREM RepairsAreSound == Spec => []RepairSound
<1>1. StagesInv => RepairSound
  BY DEF StagesInv, Repaired
<1> QED BY <1>1, Invariance, AssumptionsHold, PTL

\* The camera turns from a face in the picture only to one that has beaten it for
\* long enough and after the cooldown, and punch-ins are apart.
THEOREM CameraIsSteady == Spec => []CameraSteady
<1>1. StagesInv => CameraSteady
  BY SteadyIs DEF StagesInv, DirectorInv
<1> QED BY <1>1, Invariance, AssumptionsHold, PTL

\* Syncs that do not overlap take each rung's figures once and fit at intervals, and
\* one that is whole leaves no reel behind.
THEOREM LoopKeepsPace == Spec => []LoopSound
<1>1. StagesInv => LoopSound
  BY LoopIsSound DEF StagesInv, LoopSound
<1> QED BY <1>1, Invariance, AssumptionsHold, PTL
=============================================================================
