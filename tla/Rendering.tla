------------------------------- MODULE Rendering ------------------------------
(***************************************************************************)
(* RenderStage.run: every finalist clip is encoded in place with the       *)
(* trajectory the camera stage wrote, by the hardware's encoder where a    *)
(* probe found one, and verified.  An attempt renders all clips again.     *)
(* Captions need a capable FFmpeg, which only the Setup Center installs.   *)
(* The filter graph, the captions' text and the loudness are left out.     *)
(***************************************************************************)
EXTENDS Camera

VARIABLES
  captions,  \* the caption preset wants captions burned
  engine,    \* a caption-capable FFmpeg is there
  encoder,   \* what the probe of this process found: none yet, hardware, x264
  next,      \* the clip to be rendered
  clip       \* clip_NN.mp4 of every finalist: none, torn or whole

renderingVars == <<captions, engine, encoder, next, clip>>

NoRendering ==
  /\ captions = FALSE /\ engine = FALSE /\ encoder = "none" /\ next = 0
  /\ clip = <<>>

\* The preset may be "none", and FFmpeg may not be installed yet.
BeginRendering ==
  /\ captions' \in BOOLEAN /\ engine' \in BOOLEAN
  /\ clip' = [c \in finalists |-> "none"] /\ UNCHANGED <<encoder, next>>

ForgetRendering ==
  /\ captions' = FALSE /\ engine' = FALSE /\ encoder' = "none" /\ next' = 0
  /\ clip' = <<>>

-----------------------------------------------------------------------------
(***************************************************************************)
(* Without a capable FFmpeg the stage fails at once, and so does every     *)
(* resume until it is installed.                                           *)
(***************************************************************************)
EngineReady == engine \/ ~captions

StartRender ==
  /\ at = "render" /\ pc = "start" /\ EngineReady
  /\ encoder' \in {"hardware", "x264"}
  /\ Goto("contract") /\ UNCHANGED <<captions, engine, next, clip>>

EngineMissing ==
  /\ at = "render" /\ pc = "start" /\ ~EngineReady
  /\ Goto("stopped") /\ UNCHANGED renderingVars

(***************************************************************************)
(* install_managed: extracted aside and tried, then exchanged for what is  *)
(* there; a failure restores that, and a kill between the two moves leaves *)
(* nothing.                                                                *)
(***************************************************************************)
InstallEngine ==
  /\ at = "render" /\ pc = "stopped" /\ ~EngineReady
  /\ engine' = TRUE /\ UNCHANGED <<attempt, captions, encoder, next, clip>>

InstallFails ==
  /\ at = "render" /\ pc = "stopped" /\ ~EngineReady
  /\ Trouble("stopped") /\ UNCHANGED renderingVars

\* Every finalist needs its trajectory, now and when its turn comes.
Directed == finalists \subseteq trajectories

Contract ==
  /\ pc = "contract" /\ Directed /\ Goto("encode") /\ next' = 1
  /\ UNCHANGED <<captions, engine, encoder, clip>>

ContractBroken ==
  /\ \/ pc = "contract" /\ ~Directed
     \/ pc = "encode" /\ next \notin trajectories
  /\ Goto("stopped") /\ UNCHANGED renderingVars

-----------------------------------------------------------------------------
Rendered == clip' = [clip EXCEPT ![next] = "whole"]

\* One clip; an error that names the hardware's encoder is tried with x264.
Encode ==
  /\ pc = "encode" /\ next \in trajectories /\ Goto("verify") /\ Rendered
  /\ UNCHANGED <<captions, engine, encoder, next>>

HardwareFails ==
  /\ pc = "encode" /\ next \in trajectories /\ encoder = "hardware"
  /\ Trouble("verify") /\ Rendered
  /\ UNCHANGED <<captions, engine, encoder, next>>

\* ffprobe finds both streams, and the duration that was asked for.
Verify ==
  /\ pc = "verify" /\ clip[next] = "whole" /\ next' = next + 1
  /\ Goto(IF next = Cardinality(finalists) THEN "done" ELSE "encode")
  /\ UNCHANGED <<captions, engine, encoder, clip>>

(***************************************************************************)
(* An error of FFmpeg, a clip that fails the verification, the time limit  *)
(* or a kill; a clip that was being encoded is torn.                       *)
(***************************************************************************)
StopRender ==
  /\ Working("render") /\ Trouble("stopped")
  /\ clip' \in IF pc = "encode" THEN {clip, [clip EXCEPT ![next] = "torn"]} ELSE {clip}
  /\ UNCHANGED <<captions, engine, encoder, next>>

\* A trajectory is gone, whatever removed it.
LoseTrajectory ==
  /\ at = "render" /\ pc # "done" /\ faults < MaxFaults
  /\ faults' = faults + 1 /\ UNCHANGED <<at, pc>>
  /\ \E c \in trajectories : trajectories' = trajectories \ {c}
  /\ UNCHANGED <<finalists, director, film, punches, renderingVars>>

(***************************************************************************)
(* The user installs FFmpeg first, as the message says.  A camera stage    *)
(* that lost a trajectory is not valid, and runs again.                    *)
(***************************************************************************)
ResumeRender ==
  /\ EngineReady /\ encoder' = "none" /\ next' = 0
  /\ \/ Directed /\ Resumes("render")
     \/ /\ ~Directed /\ at = "render" /\ pc = "stopped"
        /\ at' = "camera" /\ pc' = "start" /\ UNCHANGED faults
  /\ UNCHANGED <<captions, engine, clip>>

RenderingNext ==
  \/ /\ \/ StartRender \/ EngineMissing \/ InstallEngine \/ InstallFails
        \/ Contract \/ ContractBroken \/ Encode \/ HardwareFails \/ Verify
        \/ StopRender \/ ResumeRender
     /\ UNCHANGED cameraVars
  \/ LoseTrajectory

AllRendered == \A c \in finalists : clip[c] = "whole"
=============================================================================
