--------------------------- MODULE PipelineContract ---------------------------
(***************************************************************************)
(* What the job store promises whoever starts, resumes and reads a job,    *)
(* with no checkpoints, files or processes: a job is done only with an     *)
(* answer that one run from scratch under its present settings could have  *)
(* given, and the answer of a job is withdrawn only by another attempt or  *)
(* a refusal.  JobQueue implements it (JobQueue!Contract).                 *)
(***************************************************************************)
EXTENDS Naturals, Sequences

CONSTANTS NStages, Presets, InitialPreset, Results, NoRecs

VARIABLES status, cfg, answer
contractVars == <<status, cfg, answer>>

(***************************************************************************)
(* An answer from scratch: each stage was computed under its present       *)
(* settings from the outputs of the stages before it, and no stage ran     *)
(* after one that recommends nothing.                                      *)
(***************************************************************************)
FromScratch(a) ==
  /\ Len(a) \in 1 .. NStages
  /\ \A i \in 1 .. Len(a) :
       /\ a[i] \in Results
       /\ a[i].dep.cfg = cfg[i]
       /\ a[i].dep.up = [j \in 1 .. i - 1 |-> a[j].out]
       /\ i < Len(a) => a[i].out \notin NoRecs

Init ==
  /\ status = "pending"
  /\ cfg = [i \in 1 .. NStages |-> InitialPreset]
  /\ answer = <<>>

Reconfigure ==
  /\ \E i \in 1 .. NStages, p \in Presets : cfg' = [cfg EXCEPT ![i] = p]
  /\ UNCHANGED <<status, answer>>

Attempt == status' = "running" /\ answer' = <<>> /\ UNCHANGED cfg

Refuse == status' = "failed" /\ answer' = <<>> /\ UNCHANGED cfg

Deliver ==
  /\ status # "done" /\ status' = "done"
  /\ FromScratch(answer')
  /\ UNCHANGED cfg

Next == Reconfigure \/ Attempt \/ Refuse \/ Deliver

Spec == Init /\ [][Next]_contractVars
=============================================================================
