--------------------------------- MODULE Stages -------------------------------
(***************************************************************************)
(* The stages of a job, in the order in which run_stages executes them,    *)
(* after the installation of the YouTube tools it ingests with, and each   *)
(* on the data of those before: the subtitle ingest accepted decides       *)
(* whether there is anything to transcribe, the shortlist bounds the       *)
(* candidates, the scored ones the finalists the camera directs, and a     *)
(* rendering without its trajectories sends the job back to the camera.    *)
(* When the job is rendered, its clips are edited, or become reels whose   *)
(* numbers are collected; the two share nothing.  A stage starts with      *)
(* MaxFaults new faults.                                                   *)
(***************************************************************************)
EXTENDS Tools, UrlIngest, Speech, Listening, Shortlist, Scoring, Repair, Rendering,
        Editing, Loop

vars ==
  <<attempt, toolsVars, ingestVars, speechVars, listeningVars, shortlistVars,
    scoringVars, repairVars, cameraVars, renderingVars, editingVars, loopVars>>

Init == at = "tools" /\ pc = "start" /\ faults = 0 /\ SomeTools
        /\ NoIngest /\ NoSpeech /\ NoListening /\ NoShortlist /\ NoScoring
        /\ NoRepair /\ NoCamera /\ NoRendering /\ NoEditing /\ NoLoop

Enters(s) == at' = s /\ pc' = "start" /\ faults' = 0
Leaves(s) == at = s /\ pc = "done"

(***************************************************************************)
(* The next stage begins with its own variables and the data of the stage  *)
(* before; what no later stage reads is forgotten.                         *)
(***************************************************************************)
\* A provider that an installation left behind may answer on the port.
EnterIngest ==
  /\ Leaves("tools") /\ Enters("ingest") /\ UrlJob(listener) /\ ForgetTools
  /\ UNCHANGED <<speechVars, listeningVars, shortlistVars, scoringVars,
                 repairVars, cameraVars, renderingVars, editingVars, loopVars>>

EnterSpeech ==
  /\ Leaves("ingest") /\ Enters("asr") /\ ForgetIngest /\ BeginSpeech
  /\ UNCHANGED <<toolsVars, transcript, listeningVars, shortlistVars,
                 scoringVars, repairVars, cameraVars, renderingVars, editingVars,
                 loopVars>>

EnterDiarize ==
  /\ Leaves("asr") /\ Enters("diarize") /\ transcript' = "none" /\ ForgetSpeech
  /\ UNCHANGED <<toolsVars, source, files, subtitle, op, provider, record,
                 accepted, listeningVars, shortlistVars, scoringVars,
                 repairVars, cameraVars, renderingVars, editingVars, loopVars>>

EnterEvents ==
  /\ Leaves("diarize") /\ Enters("events")
  /\ UNCHANGED <<toolsVars, ingestVars, speechVars, listeningVars,
                 shortlistVars, scoringVars, repairVars, cameraVars, renderingVars,
                 editingVars, loopVars>>

EnterCandidates ==
  /\ Leaves("events") /\ Enters("candidates") /\ ForgetListening
  /\ UNCHANGED <<toolsVars, ingestVars, speechVars, shortlistVars, scoringVars,
                 repairVars, cameraVars, renderingVars, editingVars, loopVars>>

\* Of the shortlist, those with enough words are asked about.
EnterScoring ==
  /\ Leaves("candidates") /\ list # <<>> /\ Enters("score") /\ ForgetShortlist
  /\ BeginScoring /\ prepared' <= Len(list)
  /\ UNCHANGED <<toolsVars, ingestVars, speechVars, listeningVars, repairVars,
                 cameraVars, renderingVars, editingVars, loopVars>>

EnterRepair ==
  /\ Leaves("score") /\ Enters("repair") /\ ForgetScoring
  /\ \E n \in 1 .. Least(FinalistLimit, scored) : BeginRepair(n)
  /\ UNCHANGED <<toolsVars, ingestVars, speechVars, listeningVars,
                 shortlistVars, cameraVars, renderingVars, editingVars,
                 loopVars>>

EnterCamera ==
  /\ Leaves("repair") /\ Enters("camera") /\ ForgetRepair /\ BeginCamera(wanted)
  /\ UNCHANGED <<toolsVars, ingestVars, speechVars, listeningVars,
                 shortlistVars, scoringVars, renderingVars, editingVars,
                 loopVars>>

(***************************************************************************)
(* The outcome SUCCESS_NO_RECOMMENDATIONS of candidates or score: the run  *)
(* is over, and the stages after it are not executed.                      *)
(***************************************************************************)
EndWithoutClips ==
  /\ Leaves("score") \/ (Leaves("candidates") /\ list = <<>>)
  /\ at' = "over" /\ UNCHANGED <<pc, faults>> /\ ForgetShortlist /\ ForgetScoring
  /\ UNCHANGED <<toolsVars, ingestVars, speechVars, listeningVars, repairVars,
                 cameraVars, renderingVars, editingVars, loopVars>>

\* For the first time, or after the trajectories were made again.
EnterRender ==
  /\ Leaves("camera")
  /\ \/ clip = <<>> /\ Enters("render") /\ BeginRendering
     \/ clip # <<>> /\ at' = "render" /\ pc' = "start" /\ UNCHANGED <<faults, renderingVars>>
  /\ UNCHANGED <<toolsVars, ingestVars, speechVars, listeningVars,
                 shortlistVars, scoringVars, repairVars, cameraVars, editingVars,
                 loopVars>>

EnterLoop ==
  /\ Leaves("render") /\ Enters("loop") /\ ForgetCamera /\ ForgetRendering /\ BeginLoop
  /\ UNCHANGED <<toolsVars, ingestVars, speechVars, listeningVars,
                 shortlistVars, scoringVars, repairVars, editingVars>>

EnterEdit ==
  /\ Leaves("render") /\ Enters("edit") /\ ForgetCamera /\ ForgetRendering /\ BeginEditing
  /\ UNCHANGED <<toolsVars, ingestVars, speechVars, listeningVars,
                 shortlistVars, scoringVars, repairVars, loopVars>>

EnterStage ==
  \/ EnterIngest \/ EnterSpeech \/ EnterDiarize \/ EnterEvents \/ EnterCandidates
  \/ EnterScoring \/ EnterRepair \/ EnterCamera \/ EndWithoutClips \/ EnterRender
  \/ EnterEdit \/ EnterLoop

Pipeline ==
  \/ /\ at = "tools" /\ ToolsNext
     /\ UNCHANGED <<ingestVars, speechVars, listeningVars, shortlistVars,
                    scoringVars, repairVars, cameraVars, renderingVars, editingVars,
                    loopVars>>
  \/ /\ at = "ingest" /\ IngestNext
     /\ UNCHANGED <<toolsVars, speechVars, listeningVars, shortlistVars,
                    scoringVars, repairVars, cameraVars, renderingVars, editingVars,
                    loopVars>>
  \/ /\ at = "asr" /\ SpeechNext(transcript # "none")
     /\ UNCHANGED <<toolsVars, ingestVars, listeningVars, shortlistVars,
                    scoringVars, repairVars, cameraVars, renderingVars, editingVars,
                    loopVars>>
  \/ /\ at \in {"diarize", "events"} /\ ListeningNext
     /\ UNCHANGED <<toolsVars, ingestVars, speechVars, shortlistVars,
                    scoringVars, repairVars, cameraVars, renderingVars, editingVars,
                    loopVars>>
  \/ /\ at = "candidates" /\ ShortlistNext
     /\ UNCHANGED <<toolsVars, ingestVars, speechVars, listeningVars,
                    scoringVars, repairVars, cameraVars, renderingVars, editingVars,
                    loopVars>>
  \/ /\ at = "score" /\ ScoringNext
     /\ UNCHANGED <<toolsVars, ingestVars, speechVars, listeningVars,
                    shortlistVars, repairVars, cameraVars, renderingVars,
                    editingVars, loopVars>>
  \/ /\ at = "repair" /\ RepairNext
     /\ UNCHANGED <<toolsVars, ingestVars, speechVars, listeningVars,
                    shortlistVars, scoringVars, cameraVars, renderingVars,
                    editingVars, loopVars>>
  \/ /\ at = "camera" /\ CameraNext
     /\ UNCHANGED <<toolsVars, ingestVars, speechVars, listeningVars,
                    shortlistVars, scoringVars, repairVars, renderingVars,
                    editingVars, loopVars>>
  \/ /\ at = "render" /\ RenderingNext
     /\ UNCHANGED <<toolsVars, ingestVars, speechVars, listeningVars,
                    shortlistVars, scoringVars, repairVars, editingVars,
                    loopVars>>
  \/ EnterStage

Next ==
  \/ Pipeline
  \/ /\ at = "loop" /\ LoopNext
     /\ UNCHANGED <<toolsVars, ingestVars, speechVars, listeningVars,
                    shortlistVars, scoringVars, repairVars, cameraVars, renderingVars,
                    editingVars>>
  \/ /\ at = "edit" /\ EditingNext
     /\ UNCHANGED <<toolsVars, ingestVars, speechVars, listeningVars,
                    shortlistVars, scoringVars, repairVars, cameraVars, renderingVars,
                    loopVars>>

Spec == Init /\ [][Next]_vars

(***************************************************************************)
(* Every wait of the code has a time limit (the watchdog of yt-dlp, the    *)
(* timeouts of requests, of ffmpeg and of the servers' starts), and a job  *)
(* that stopped is resumed: something always happens next.  Nothing is     *)
(* assumed of the user's edits, the time and the syncs after the job.      *)
(***************************************************************************)
FairSpec == Spec /\ WF_vars(Pipeline)

TypeOK ==
  /\ at \in {"tools", "ingest", "asr", "diarize", "events", "candidates", "score",
             "repair", "camera", "render", "over", "edit", "loop"}
  /\ faults \in 0 .. MaxFaults
  /\ piece \in Trees /\ litter \subseteq Trees \cup {"unpacked"}
  /\ provider \in [by : {"none", "ours", "orphan"}, refused : BOOLEAN]
  /\ op \in [of : {"meta", "download"}, try : 1 .. 3]
  /\ transcript \in {"none", "platform", "external"} /\ accepted \in 0 .. 2
  /\ saved \in Devices \cup {"none"} /\ batch \in 0 .. BatchSize
  /\ \A d \in {chosen, device} :
       d = Idle \/ d \in [transcribe : Devices, align : Devices]
  /\ pc = "ask" => asked + todo + left <= prepared
  /\ scored <= asked /\ strong <= scored
  /\ due <= wanted /\ wanted <= FinalistLimit
  /\ request.posts <= MaxPosts /\ (local => ~worker /\ ~aborted)

(***************************************************************************)
(* No process outlives its use but by a kill of the pipeline: neither the  *)
(* PO-token provider of an ingest nor a llama-server of the scoring.       *)
(***************************************************************************)
NoProcessLeaks == OnlyOrphansServe /\ NoServerLeaks

(***************************************************************************)
(* The installation of the YouTube tools, whatever cuts it off, leaves no  *)
(* tree that only looks ready, clears up, and stops what it tested.        *)
(***************************************************************************)
InstallSound == ReadyIsWhole /\ ClearedUp /\ OnlyTestsServe

(***************************************************************************)
(* The ingest retries a refused transfer with a new provider, keeps where  *)
(* a subtitle came from, and claims a verified download only of the last.  *)
(***************************************************************************)
IngestSound == RetryMeetsNewProvider /\ ProvenanceKept /\ VerifiedWasLast

(***************************************************************************)
(* The scoring never has two requests under way at once, leaves a          *)
(* candidate out only for its time or with enough calls and strong clips,  *)
(* and recommends no story twice.                                          *)
(***************************************************************************)
ScoringSound == OneRequestAtATime /\ LeftOutForAReason /\ StoriesShownOnce

(***************************************************************************)
(* Speech recognition leaves the device that was approved only with a new  *)
(* approval, and its report names the devices that did the work.           *)
(***************************************************************************)
SpeechSound == NoUnapprovedFallback /\ ReportIsTrue

(***************************************************************************)
(* Syncs that do not overlap keep to the ladder and to the fits' interval, *)
(* and leave no reel unlisted that was posted before one with a row.       *)
(***************************************************************************)
LoopSound == Paced /\ NoLostPosts

(***************************************************************************)
(* A cut of an edited clip is the same for picture, words and sound, and   *)
(* what the user chose is what is rendered.                                *)
(***************************************************************************)
EditSound == CutInStep /\ EditHonoured

(***************************************************************************)
(* The anchors are spread and every span proposed reaches its own; the     *)
(* passes of the shortlist keep its entries distinct and known, keep the   *)
(* end of the source on it, and account for what they discard.             *)
(***************************************************************************)
CandidatesSound ==
  /\ AnchorsSpread /\ SpansReachAnchors
  /\ NoSecondPlace /\ SourceEndKept /\ DiscardsExplained

(***************************************************************************)
(* A job that is resumed whenever it stops is rendered in the end, all its *)
(* finalists whole, or ends without recommendations, whatever fails a      *)
(* bounded number of times in each stage; unless its subtitle cannot be    *)
(* used, a kill tore its normalized video, or its shortlist is the one     *)
(* that fails.                                                             *)
(***************************************************************************)
EventuallyRendered ==
  <>(\/ (at = "render" /\ pc = "done" /\ AllRendered) \/ at = "over"
     \/ (at = "ingest" /\ IngestTrapped)
     \/ (at = "candidates" /\ pc = "stopped"))
=============================================================================
