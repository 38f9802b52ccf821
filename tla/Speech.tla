--------------------------------- MODULE Speech -------------------------------
(***************************************************************************)
(* AsrStage.run: the transcript of a supplied subtitle, or a transcription *)
(* and an alignment of its words, each on the device the probes of this    *)
(* attempt chose or, when that fails, on the CPU.  A transcription is      *)
(* saved before the alignment and reused by the next attempt.  whisperx    *)
(* and the devices are the environment.                                    *)
(***************************************************************************)
EXTENDS Attempt

CONSTANT BatchSize        \* the first batch size, of both devices

ASSUME BatchAssumption == BatchSize \in Nat \ {0}

VARIABLES
  long,       \* whether the audio is longer than LONG_ASR_APPROVAL_SECONDS
  exact,      \* whether its language has an alignment model
  approved,   \* settings.allow_cpu_asr_fallback
  saved,      \* the device of the asr-transcription checkpoint, or none
  chosen,     \* the devices this attempt chose to transcribe and to align on
  device,     \* and those it uses
  batch,      \* of the transcription this attempt makes, 0 if it makes none
  state       \* acceleration_state

speechVars == <<long, exact, approved, saved, chosen, device, batch, state>>

Devices == {"cuda", "cpu"}
Idle == [transcribe |-> "none", align |-> "none"]

NoSpeech ==
  /\ long = FALSE /\ exact = FALSE /\ approved = FALSE /\ saved = "none"
  /\ chosen = Idle /\ device = Idle /\ batch = 0 /\ state = "none"

\* The audio of the job comes in.
BeginSpeech ==
  /\ long' \in BOOLEAN /\ exact' \in BOOLEAN
  /\ UNCHANGED <<approved, saved, chosen, device, batch, state>>

ForgetSpeech ==
  /\ long' = FALSE /\ exact' = FALSE /\ approved' = FALSE /\ saved' = "none"
  /\ chosen' = Idle /\ device' = Idle /\ batch' = 0 /\ state' = "none"

Keep == UNCHANGED <<long, exact, approved>>

\* asr_readiness: what the probes promise.
Readiness(d) == IF d.transcribe = "cpu" THEN "CPU"
                ELSE IF d.align = "cpu" THEN "GPU/CPU" ELSE "GPU"

(***************************************************************************)
(* The probes choose the devices.  Whether a supplied subtitle makes the   *)
(* rest unnecessary is decided by the data of ingest.                      *)
(***************************************************************************)
ReadSubtitle(supplied) ==
  /\ at = "asr" /\ pc = "start" /\ supplied /\ Goto("done")
  /\ chosen' = Idle /\ device' = Idle /\ state' = "SUBTITLE"
  /\ UNCHANGED <<saved, batch>> /\ Keep

ChooseDevices(supplied) ==
  /\ at = "asr" /\ pc = "start" /\ ~supplied /\ Goto("activate")
  /\ chosen' \in [transcribe : Devices, align : Devices]
  /\ device' = chosen' /\ state' = Readiness(chosen') /\ batch' = 0
  /\ UNCHANGED saved /\ Keep

\* A variant that reuses only what was made on the device chosen now.
ReusableHere == saved = device.transcribe
\* _cached_transcription: made of this audio by this model, on any device.
Reusable == saved # "none"

Activate ==
  /\ pc = "activate"
  /\ IF Reusable
       THEN Goto("align") /\ device' = [device EXCEPT !.transcribe = saved]
       ELSE Goto("load") /\ UNCHANGED device
  /\ UNCHANGED <<saved, chosen, batch, state>> /\ Keep

\* Without the CUDA libraries the alignment alone moves to the CPU.
ActivationFails ==
  /\ pc = "activate" /\ chosen.align = "cuda" /\ chosen.transcribe = "cpu"
  /\ device.align = "cuda" /\ Trouble("activate")
  /\ device' = [device EXCEPT !.align = "cpu"]
  /\ UNCHANGED <<saved, chosen, batch, state>> /\ Keep

LoadModel ==
  /\ pc = "load" /\ Goto("transcribe") /\ batch' = BatchSize
  /\ UNCHANGED <<saved, chosen, device, state>> /\ Keep

\* A variant that falls back without asking.
AlwaysMayFallBack == TRUE
MayFallBack == approved \/ ~long

\* The fall back to the CPU, in the attempt, of a step that failed on CUDA.
FallsBack(p, step, size) ==
  /\ Trouble(p) /\ device[step] = "cuda" /\ MayFallBack
  /\ device' = [device EXCEPT ![step] = "cpu"] /\ state' = "DEGRADED"
  /\ batch' = size
  /\ UNCHANGED <<saved, chosen>> /\ Keep

LoadFails == pc = "load" /\ FallsBack("transcribe", "transcribe", BatchSize)

(***************************************************************************)
(* _transcribe_model halves the batch while memory is what lacks; what     *)
(* fails otherwise, or with a batch of one, falls back or stops.           *)
(***************************************************************************)
Halve ==
  /\ pc = "transcribe" /\ batch > 1 /\ Trouble("transcribe")
  /\ batch' = batch \div 2
  /\ UNCHANGED <<saved, chosen, device, state>> /\ Keep

TranscribeFails ==
  pc = "transcribe" /\ FallsBack("transcribe", "transcribe", BatchSize)

\* write_checkpoint of asr-transcription, with the device it was made on.
Transcribe ==
  /\ pc = "transcribe" /\ Goto("align") /\ saved' = device.transcribe
  /\ UNCHANGED <<chosen, device, batch, state>> /\ Keep

\* The model of another language is not loaded at all.
AlignFails ==
  pc = "align" /\ exact /\ FallsBack("align", "align", batch)

\* A variant that reports what was chosen.
ReportedAsChosen ==
  IF chosen.transcribe = "cuda" THEN Readiness(chosen)
  ELSE IF chosen.align = "cuda" THEN "CPU/GPU" ELSE state

\* The state that is reported: the last tests of AsrStage.run.
Reported ==
  CASE chosen.transcribe = "cuda" /\ device.transcribe = "cuda" -> Readiness(device)
    [] device = [transcribe |-> "cpu", align |-> "cuda"] -> "CPU/GPU"
    [] OTHER -> state

Align ==
  /\ pc = "align" /\ Goto("done") /\ state' = Reported
  /\ UNCHANGED <<saved, chosen, device, batch>> /\ Keep

(***************************************************************************)
(* The attempt stops: an error no fall back is left or allowed for, or a   *)
(* kill.                                                                   *)
(***************************************************************************)
StopSpeech ==
  /\ Working("asr") /\ Trouble("stopped")
  /\ device' = Idle /\ chosen' = Idle /\ state' = "none" /\ batch' = 0
  /\ UNCHANGED saved /\ Keep

\* The user resumes, or resumes with --allow-cpu-asr-fallback.
ResumeSpeech ==
  /\ Resumes("asr") /\ approved' \in {approved, TRUE}
  /\ UNCHANGED <<long, exact, saved, chosen, device, batch, state>>

SpeechNext(supplied) ==
  \/ ReadSubtitle(supplied) \/ ChooseDevices(supplied) \/ Activate
  \/ ActivationFails \/ LoadModel \/ LoadFails \/ Halve \/ TranscribeFails
  \/ Transcribe \/ AlignFails \/ Align \/ StopSpeech \/ ResumeSpeech

-----------------------------------------------------------------------------
(***************************************************************************)
(* A long job whose transcription was chosen for the GPU does not go on    *)
(* with any of its steps on the CPU unless the user approved it, whichever *)
(* step the GPU failed in; a reused transcription is not such a step.      *)
(***************************************************************************)
NoUnapprovedFallback ==
  at = "asr" /\ long /\ ~approved /\ chosen.transcribe = "cuda" =>
    /\ device.align = chosen.align
    /\ device.transcribe = "cuda" \/ batch = 0

(***************************************************************************)
(* A finished transcription is not made again, whatever stops the attempt  *)
(* after it and whatever devices the next one finds.                       *)
(***************************************************************************)
TranscribedOnce ==
  [][saved # "none" /\ at' = "asr" =>
       saved' = saved /\ pc' \notin {"load", "transcribe"}]_
    <<attempt, speechVars>>

(***************************************************************************)
(* What a job reports happened: a state that names the GPU for the         *)
(* alignment only if the alignment used it, and, unless the transcription  *)
(* was reused, one that names it for the transcription only if that ran on *)
(* it, and the CPU only if one of the two ran there.                       *)
(***************************************************************************)
ReportIsTrue ==
  at = "asr" /\ pc = "done" =>
    /\ state \in {"GPU", "CPU/GPU"} => device.align = "cuda"
    /\ batch # 0 =>
         /\ state \in {"GPU", "GPU/CPU"} => device.transcribe = "cuda"
         /\ state \in {"CPU", "DEGRADED"} => "cpu" \in {device[s] : s \in DOMAIN device}
=============================================================================
