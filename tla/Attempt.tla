-------------------------------- MODULE Attempt -------------------------------
(***************************************************************************)
(* What the stage modules (UrlIngest, Speech, Listening, Shortlist,        *)
(* Scoring, Camera, Rendering, Loop) share: the one pipeline process that  *)
(* executes a stage, which ends it, fails in it and stops (StageError), or *)
(* is killed in it; and the resume that starts the stage again.            *)
(* Checkpoints, rows and settings are JobQueue's subject; a stage that is  *)
(* complete is not run again here.                                         *)
(***************************************************************************)
EXTENDS Naturals

CONSTANT MaxFaults        \* bound: things that go wrong in one stage

ASSUME FaultsAssumption == MaxFaults \in Nat

VARIABLES
  at,                     \* the stage that is executed
  pc,                     \* where in it, or "stopped", or "done"
  faults                  \* things that went wrong in this stage

attempt == <<at, pc, faults>>

Goto(p) == pc' = p /\ UNCHANGED <<at, faults>>

\* Something goes wrong that need not: a process, a service or a kill.
Trouble(p) ==
  /\ faults < MaxFaults /\ faults' = faults + 1
  /\ pc' = p /\ UNCHANGED at

Working(s) == at = s /\ pc \notin {"stopped", "done"}

Least(m, n) == IF m < n THEN m ELSE n

\* The user resumes a job that stopped: cmd_resume runs the stage again.
Resumes(s) == at = s /\ pc = "stopped" /\ Goto("start")
=============================================================================
