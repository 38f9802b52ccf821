--------------------------------- MODULE Camera -------------------------------
(***************************************************************************)
(* CameraStage.run: for each finalist clip the director chooses, frame by  *)
(* frame, whom the camera follows (active_speaker_timeline), schedules the *)
(* punch-ins, and writes the trajectory.                                   *)
(*                                                                         *)
(* Of the faces' scores it matters which is best, and whether it beats the *)
(* one shown; what the smoother makes of the positions is left out.        *)
(***************************************************************************)
EXTENDS Attempt, FiniteSetsExt, SequencesExt

CONSTANTS
  MaxTracks,      \* bound: faces tracked in a clip
  MaxShot,        \* bound: frames of a clip
  CooldownFrames, \* COOLDOWN_SEC, in frames
  ConfirmFrames,  \* CONFIRM_FRAMES
  PunchGap,       \* the least distance of two punch-ins, in frames
  MaxPunches      \* the most of them in a clip

ASSUME CameraAssumption ==
  /\ {MaxTracks, MaxShot} \subseteq Nat \ {0}
  /\ {CooldownFrames, ConfirmFrames, PunchGap, MaxPunches} \subseteq Nat \ {0}

VARIABLES
  finalists,    \* the clips to direct
  trajectories, \* those whose trajectory is there
  director,     \* the switch machine
  film,         \* history: the last frames, as long as a switch depends on
  punches       \* the punch-ins of the clip

cameraVars == <<finalists, trajectories, director, film, punches>>

NoFace == 0
Tracks == 1 .. MaxTracks
\* since: the frames since the last switch; it starts as if long past.
ColdStart ==
  [shown |-> NoFace, challenger |-> NoFace, confirm |-> 0, frame |-> 0,
   since |-> CooldownFrames]

NoCamera ==
  /\ finalists = {} /\ trajectories = {} /\ director = ColdStart
  /\ film = <<>> /\ punches = {}

NewClip == director' = ColdStart /\ film' = <<>> /\ punches' = {}

BeginCamera(n) == finalists' = 1 .. n /\ NewClip /\ UNCHANGED trajectories

\* The models are loaded, and every clip is directed again.
LoadVision ==
  /\ at = "camera" /\ pc = "start" /\ Goto("direct") /\ NewClip
  /\ trajectories' = {} /\ UNCHANGED finalists

ForgetCamera == finalists' = {} /\ trajectories' = {} /\ NewClip

-----------------------------------------------------------------------------
(***************************************************************************)
(* The switch machine.  A face takes over at once if the one shown left;   *)
(* otherwise it must beat that one in several frames in a row, after the   *)
(* cooldown.                                                               *)
(***************************************************************************)
\* The face with the best score, whether the one shown left the picture, and
\* whether the best beats it; or nobody is in the picture.
Frames(shown) ==
  {[best |-> NoFace, left |-> FALSE, beats |-> FALSE]} \cup
  {f \in [best : Tracks, left : BOOLEAN, beats : BOOLEAN] :
     /\ shown = NoFace => f.left
     /\ f.left \/ f.beats => f.best # shown
     /\ ~(f.left /\ f.beats)}

Passed(d, m) == [m EXCEPT !.frame = @ + 1, !.since = Least(CooldownFrames, d.since + 1)]
Unchallenged(d) == Passed(d, [d EXCEPT !.challenger = NoFace, !.confirm = 0])
\* The frame of a switch is the first of the next cooldown.
Switched(d, t) == [Unchallenged(d) EXCEPT !.shown = t, !.since = Least(CooldownFrames, 1)]

Challenged(d, best) ==
  LET n == IF d.challenger = best THEN d.confirm + 1 ELSE 1
  IN IF n >= ConfirmFrames THEN Switched(d, best)
     ELSE Passed(d, [d EXCEPT !.challenger = best, !.confirm = n])

\* A variant that goes on counting after a frame in which nobody challenges.
Patient(d, f) ==
  IF f.left THEN Switched(d, f.best)
  ELSE IF f.beats /\ d.since >= CooldownFrames
    THEN Challenged(d, f.best) ELSE Passed(d, d)
Followed(d, f) ==
  IF f.left THEN Switched(d, f.best)
  ELSE IF f.beats /\ d.since >= CooldownFrames
    THEN Challenged(d, f.best) ELSE Unchallenged(d)

FilmLength == Max({ConfirmFrames, CooldownFrames + 1})
LastFrames(s) == SubSeq(s, 1 + Len(s) - Least(Len(s), FilmLength), Len(s))

Direct ==
  /\ pc = "direct" /\ director.frame < MaxShot /\ Goto("direct")
  /\ \E f \in Frames(director.shown) :
       /\ director' = Followed(director, f)
       /\ film' = LastFrames(Append(film,
            [shown |-> director'.shown, left |-> f.left,
             beaten |-> IF f.beats THEN f.best ELSE NoFace]))
  /\ UNCHANGED <<finalists, trajectories, punches>>

\* Of the moments for a punch-in, in order, those far enough from the last one
\* that is kept, and of these the first.
Spaced(moments) ==
  CHOOSE kept \in SUBSET moments :
    \A m \in moments : m \in kept <=> \A k \in kept : k < m => m - k >= PunchGap
PunchSchedule(moments) ==
  {m \in Spaced(moments) : Cardinality({k \in Spaced(moments) : k < m}) < MaxPunches}

\* The frames are directed; of them only their number is still of interest.
EndShot ==
  /\ pc = "direct" /\ Goto("punch")
  /\ director' = [ColdStart EXCEPT !.frame = director.frame]
  /\ film' = <<>> /\ UNCHANGED <<finalists, trajectories, punches>>

Punch ==
  /\ pc = "punch" /\ Goto("write")
  /\ \E moments \in SUBSET (1 .. director.frame) : punches' = PunchSchedule(moments)
  /\ UNCHANGED <<finalists, trajectories, director, film>>

\* The trajectory is written in one piece; the next clip starts afresh.
WriteTrajectory ==
  /\ pc = "write" /\ NewClip
  /\ trajectories' = trajectories \cup {Min(finalists \ trajectories)}
  /\ Goto(IF trajectories' = finalists THEN "done" ELSE "direct")
  /\ UNCHANGED finalists

StopCamera ==
  /\ Working("camera") /\ Trouble("stopped") /\ NewClip
  /\ UNCHANGED <<finalists, trajectories>>

ResumeCamera == Resumes("camera") /\ UNCHANGED cameraVars

CameraNext ==
  LoadVision \/ Direct \/ EndShot \/ Punch \/ WriteTrajectory \/ StopCamera \/ ResumeCamera

-----------------------------------------------------------------------------
(***************************************************************************)
(* The camera leaves a face that is in the picture only for one that beat  *)
(* it in each of the last frames, and not soon after it turned to it; and  *)
(* punch-ins are never close together.                                     *)
(***************************************************************************)
TurnsTo(i) == i > 1 /\ film[i].shown # film[i - 1].shown
CameraSteady ==
  /\ \A i \in DOMAIN film :
       TurnsTo(i) /\ ~film[i].left =>
         /\ \A j \in 1 .. i : j > i - ConfirmFrames => film[j].beaten = film[i].shown
         /\ \A j \in 1 .. (i - 1) : j > i - CooldownFrames => ~TurnsTo(j)
  /\ \A m, n \in punches : m < n => n - m >= PunchGap
=============================================================================
