------------------------------- MODULE JobQueue -------------------------------
(***************************************************************************)
(* One job of the pipeline's job store: pipeline/clipgauge_pipeline/       *)
(* jobs/queue.py (run_stages and the checkpoints), jobs/artifacts.py (the  *)
(* descriptors and the manifest), the part of cli.py and mcp_server.py     *)
(* that starts, resumes and cancels a job, and what ingest/stage.py does   *)
(* with the source file.                                                   *)
(*                                                                         *)
(* A job is a directory and a row of the database.  A stage that has run   *)
(* leaves its file in the directory, then its checkpoint ("envelope"), its *)
(* entry of artifact-manifest.json and its row of stage_runs, in that      *)
(* order and by four separate writes; the process may be killed between    *)
(* any two of them.  A later attempt takes a stage from its checkpoint     *)
(* when the file, the descriptor in the envelope and the manifest agree    *)
(* and the envelope's dependency fingerprint is the one the stage has now. *)
(*                                                                         *)
(* The data of a stage is abstracted to its output fingerprint, a member   *)
(* of Outputs, and a file to the run that wrote it.  The size, the         *)
(* modification time and the digest of a file are one identity here.       *)
(***************************************************************************)
EXTENDS Naturals, Sequences

CONSTANTS
  NStages,      \* cli._stages() in order; a stage is its position
  Filed,        \* stages whose data names a managed file
  Adopts,       \* stages whose run keeps a file it finds (ingest: media.mp4)
  DiskGated,    \* stages run_stages blocks on low disk: ingest, asr, render
  Scorers,      \* stages that may answer SUCCESS_NO_RECOMMENDATIONS
  Presets,      \* values of a stage's dependency_settings
  InitialPreset,
  Tunable,      \* stages whose dependency settings a resume can change
  Outputs,      \* fingerprints of a stage's data
  NoRecs,       \* those whose outcome is SUCCESS_NO_RECOMMENDATIONS
  Sources,      \* identities (size, mtime, hash) the source file can have
  InitialSource,
  SourceStates, \* the ones it takes; with Absent in it the file may be moved
  Absent, Torn, Damaged,   \* no file; a partly written one; an altered one
  MaxFaults,    \* bound: crashes, failures, losses and changes of the input
  MaxCancels    \* bound: MCP cancellations

Stages == 1 .. NStages

(***************************************************************************)
(* What a dependency fingerprint hashes (_dependency_fingerprint), and the *)
(* values a file and a checkpoint can have.                                *)
(***************************************************************************)
Deps == [cfg : Presets, src : Sources \cup {Absent}, up : Seq(Outputs)]
Results == [dep : Deps, out : Outputs]
Files == Results \cup {Absent, Torn, Damaged}
Envelopes == [dep : Deps, out : Outputs, file : Files]

ASSUME StagesAssumption ==
  /\ NStages \in Nat \ {0}
  /\ Filed \subseteq Stages /\ Adopts \subseteq Filed
  /\ DiskGated \subseteq Stages /\ Scorers \subseteq Stages
  /\ Tunable \subseteq Stages
ASSUME ValuesAssumption ==
  /\ InitialPreset \in Presets /\ InitialSource \in Sources
  /\ SourceStates \subseteq Sources \cup {Absent}
  /\ NoRecs \subseteq Outputs
  /\ Torn # Absent /\ Torn # Damaged /\ Absent # Damaged
  /\ {Absent, Torn, Damaged} \cap Results = {}
  /\ {Absent, Torn, Damaged} \cap Envelopes = {}
ASSUME BoundsAssumption == MaxFaults \in Nat /\ MaxCancels \in Nat

VARIABLES
  \* the job directory
  files,      \* the managed file of each stage
  envelope,   \* <stage>.json
  manifest,   \* artifact-manifest.json: the descriptor of each stage's file
  cancel,     \* whether cancel.requested exists
  source,     \* the identity of the external source file
  \* the database
  row,        \* stage_runs.status
  status,     \* jobs.status
  cfg,        \* jobs.settings_json: each stage's dependency_settings
  \* the process that runs the attempt
  pc, stop, results, dep, out, error,
  \* an MCP cancel_job call
  mcp, seen,
  \* bounds and history
  faults, cancels, asked, kept, clean, hurt

disk == <<files, envelope, manifest>>
db == <<row, status, cfg>>
proc == <<pc, stop, results, dep, out, error>>
mcpVars == <<cancel, mcp, seen, cancels, asked>>
history == <<kept, clean, hurt>>
vars == <<disk, db, source, proc, mcpVars, faults, history>>

Cur == Len(results) + 1
Running == pc # "idle"
InRun == pc \in {"gate", "run", "write", "envelope", "manifest", "row"}

OutsOf(rs) == [i \in 1 .. Len(rs) |-> rs[i].out]
DependencyFingerprint ==
  [cfg |-> cfg[Cur], src |-> source, up |-> OutsOf(results)]

(***************************************************************************)
(* artifacts.prepare: the descriptor of a stage's file as it is now.  A    *)
(* stage without a file has an empty list of descriptors: Absent.          *)
(***************************************************************************)
Descriptor(i) == IF i \in Filed THEN files[i] ELSE Absent

\* A variant that trusts the size of the file and not what is in it.
ValidatesNoDigest(i) ==
  /\ envelope[i] \notin {Absent, Damaged}
  /\ i \in Filed => files[i] # Absent
  /\ manifest[i] = <<envelope[i].file>>

(***************************************************************************)
(* artifacts.validate: the envelope parses, the file it describes is there *)
(* and unchanged, and the manifest says the same.                          *)
(***************************************************************************)
Validates(i) ==
  /\ envelope[i] \notin {Absent, Damaged}
  /\ envelope[i].file = Descriptor(i)
  /\ i \in Filed => files[i] # Absent
  /\ manifest[i] = <<envelope[i].file>>

\* A variant that does not look at the dependency fingerprint.
ReadAnyCheckpoint(i, d) == Validates(i)

\* read_checkpoint_detailed: a valid checkpoint whose dependencies still hold.
ReadCheckpoint(i, d) == Validates(i) /\ envelope[i].dep = d

-----------------------------------------------------------------------------
Init ==
  /\ files = [i \in Stages |-> Absent]
  /\ envelope = [i \in Stages |-> Absent]
  /\ manifest = [i \in Stages |-> <<>>]
  /\ cancel = FALSE
  /\ source = InitialSource
  /\ row = [i \in Stages |-> "none"]
  /\ status = "pending"
  /\ cfg = [i \in Stages |-> InitialPreset]
  /\ pc = "idle" /\ stop = NStages /\ results = <<>>
  /\ dep = Absent /\ out = Absent /\ error = "none"
  /\ mcp = "idle" /\ seen = "pending" /\ cancels = 0 /\ asked = FALSE
  /\ faults = 0
  /\ kept = <<>> /\ clean = TRUE /\ hurt = {}

-----------------------------------------------------------------------------
(***************************************************************************)
(* Starting an attempt: cmd_resume may store other settings first, then    *)
(* run_stages(stop_after) sets the job running.                            *)
(***************************************************************************)
\* A cancellation counts as a fault: the bound of MaxFaults is on both.
Fault == faults + cancels < MaxFaults /\ faults' = faults + 1

\* What is left of the kept results when stage i has to be run again.
KeepBelow(i) == SubSeq(kept, 1, IF i - 1 < Len(kept) THEN i - 1 ELSE Len(kept))

Configure ==
  /\ pc = "idle" /\ Fault
  /\ \E i \in Tunable, p \in Presets :
       /\ cfg[i] # p
       /\ cfg' = [cfg EXCEPT ![i] = p]
       /\ kept' = KeepBelow(i)
  /\ UNCHANGED <<disk, source, row, status, proc, mcpVars, clean, hurt>>

\* A variant that will not resume a job its row says is running.
BeginUnlessRunning ==
  /\ pc = "idle" /\ status # "running"
  /\ \E s \in Stages : stop' = s
  /\ status' = "running" /\ pc' = "stage"
  /\ results' = <<>> /\ dep' = Absent /\ out' = Absent /\ error' = "none"
  /\ clean' = TRUE
  /\ UNCHANGED <<disk, source, row, cfg, mcpVars, faults, kept, hurt>>

Begin ==
  /\ pc = "idle"
  /\ \E s \in Stages : stop' = s
  /\ status' = "running" /\ pc' = "stage"
  /\ results' = <<>> /\ dep' = Absent /\ out' = Absent /\ error' = "none"
  /\ clean' = TRUE
  /\ UNCHANGED <<disk, source, row, cfg, mcpVars, faults, kept, hurt>>

(***************************************************************************)
(* The loop of run_stages: the cancellation file, the cached checkpoint,   *)
(* the disk gate, the run, write_checkpoint.                               *)
(***************************************************************************)
CancelStage ==
  /\ pc = "stage" /\ cancel
  /\ status' = "failed" /\ error' = "CANCELLED" /\ pc' = "idle"
  /\ asked' = FALSE
  /\ UNCHANGED <<disk, source, row, cfg, stop, results, dep, out,
                 cancel, mcp, seen, cancels, faults, history>>

\* A variant that forgets to stop the loop at stop_after.
AcceptPastStop(r) ==
  /\ results' = Append(results, r)
  /\ pc' = IF r.out \in NoRecs THEN "finish" ELSE "stage"
  /\ kept' = IF clean /\ Len(kept) = Len(results) THEN results' ELSE kept

\* A variant that goes on after SUCCESS_NO_RECOMMENDATIONS.
AcceptPastNothing(r) ==
  /\ results' = Append(results, r)
  /\ pc' = IF Cur = stop THEN "finish" ELSE "stage"
  /\ kept' = IF clean /\ Len(kept) = Len(results) THEN results' ELSE kept

\* results[stage.name] = data, and where the loop goes from there.
Accept(r) ==
  /\ results' = Append(results, r)
  /\ pc' = IF Cur = stop \/ r.out \in NoRecs THEN "finish" ELSE "stage"
  /\ kept' = IF clean /\ Len(kept) = Len(results) THEN results' ELSE kept

UseCached ==
  /\ pc = "stage" /\ ~cancel
  /\ ReadCheckpoint(Cur, DependencyFingerprint)
  /\ Accept([dep |-> envelope[Cur].dep, out |-> envelope[Cur].out])
  /\ UNCHANGED <<disk, source, db, stop, dep, out, error, mcpVars, faults,
                 clean, hurt>>

MissCached ==
  /\ pc = "stage" /\ ~cancel
  /\ ~ReadCheckpoint(Cur, DependencyFingerprint)
  /\ dep' = DependencyFingerprint /\ pc' = "gate"
  /\ UNCHANGED <<disk, source, db, stop, results, out, error, mcpVars, faults,
                 history>>

\* mark_stage(failed); set_job_status(failed) is the next write, in Fail.
FailStage(code) ==
  /\ row' = [row EXCEPT ![Cur] = "failed"]
  /\ error' = code /\ pc' = "failing"
  /\ UNCHANGED <<disk, source, status, cfg, stop, results, dep, out, mcpVars,
                 history>>

DiskBlocked ==
  pc = "gate" /\ Cur \in DiskGated /\ Fault /\ FailStage("DISK_SPACE_LOW")

\* A variant that leaves the row of the earlier run.
MarkNothing ==
  /\ pc = "gate" /\ pc' = "run" /\ hurt' = hurt \ {Cur}
  /\ UNCHANGED <<disk, source, db, stop, results, dep, out, error,
                 mcpVars, faults, kept, clean>>

MarkRunning ==
  /\ pc = "gate"
  /\ row' = [row EXCEPT ![Cur] = "running"]
  /\ pc' = "run" /\ hurt' = hurt \ {Cur}
  /\ UNCHANGED <<disk, source, status, cfg, stop, results, dep, out, error,
                 mcpVars, faults, kept, clean>>

(***************************************************************************)
(* stage.run.  Ingest wants the source file even when it keeps the copy it *)
(* finds, and a copy that is not whole may or may not be probed well.      *)
(***************************************************************************)
HasCopy == Cur \in Adopts /\ files[Cur] # Absent

RunFails ==
  pc \in {"run", "write"} /\ Fault /\ FailStage("STAGE_FAILED")

SourceNotFound ==
  /\ pc = "run" /\ Cur \in Adopts /\ source = Absent
  /\ FailStage("INPUT_FILE_NOT_FOUND") /\ UNCHANGED faults

ProbeFails ==
  /\ pc = "run" /\ HasCopy /\ files[Cur] \in {Torn, Damaged}
  /\ FailStage("STAGE_FAILED") /\ UNCHANGED faults

SourceThere == Cur \in Adopts => source # Absent

RunOpensFile ==
  /\ pc = "run" /\ SourceThere /\ Cur \in Filed /\ ~HasCopy
  /\ files' = [files EXCEPT ![Cur] = Torn]
  /\ pc' = "write"
  /\ UNCHANGED <<envelope, manifest, source, db, stop, results, dep, out, error,
                 mcpVars, faults, history>>

Answer == {o \in Outputs : o \in NoRecs => Cur \in Scorers}

RunReturns ==
  /\ \/ /\ pc = "write"
        /\ \E o \in Answer :
             /\ out' = o
             /\ files' = [files EXCEPT ![Cur] = [dep |-> dep, out |-> o]]
     \/ /\ pc = "run" /\ SourceThere /\ (Cur \in Filed => HasCopy)
        /\ \E o \in Answer : out' = o
        /\ UNCHANGED files
  /\ pc' = "envelope"
  /\ UNCHANGED <<envelope, manifest, source, db, stop, results, dep, error,
                 mcpVars, faults, history>>

(***************************************************************************)
(* write_checkpoint: prepare describes the file and refuses a missing one, *)
(* then the envelope, the manifest and the row are written in turn.        *)
(***************************************************************************)
PrepareFails ==
  /\ pc = "envelope" /\ Cur \in Filed /\ files[Cur] = Absent
  /\ FailStage("ARTIFACT_MISSING") /\ UNCHANGED faults

WriteEnvelope ==
  /\ pc = "envelope" /\ (Cur \in Filed => files[Cur] # Absent)
  /\ envelope' = [envelope EXCEPT
       ![Cur] = [dep |-> dep, out |-> out, file |-> Descriptor(Cur)]]
  /\ pc' = "manifest"
  /\ UNCHANGED <<files, manifest, source, db, stop, results, dep, out, error,
                 mcpVars, faults, history>>

\* A variant that starts a new manifest instead of updating the one there is.
ReplaceManifest ==
  /\ pc = "manifest"
  /\ manifest' = [i \in Stages |-> IF i = Cur THEN <<envelope[Cur].file>> ELSE <<>>]
  /\ pc' = "row"
  /\ UNCHANGED <<files, envelope, source, db, stop, results, dep, out, error,
                 mcpVars, faults, history>>

\* The descriptors in hand are the ones just put in the envelope.
UpdateManifest ==
  /\ pc = "manifest"
  /\ manifest' = [manifest EXCEPT ![Cur] = <<envelope[Cur].file>>]
  /\ pc' = "row"
  /\ UNCHANGED <<files, envelope, source, db, stop, results, dep, out, error,
                 mcpVars, faults, history>>

WriteRow ==
  /\ pc = "row"
  /\ row' = [row EXCEPT ![Cur] = "done"]
  /\ Accept([dep |-> dep, out |-> out])
  /\ UNCHANGED <<disk, source, status, cfg, stop, dep, out, error, mcpVars,
                 faults, clean, hurt>>

Fail ==
  /\ pc = "failing"
  /\ status' = "failed" /\ pc' = "idle"
  /\ UNCHANGED <<disk, source, row, cfg, stop, results, dep, out, error,
                 mcpVars, faults, history>>

Finish ==
  /\ pc = "finish"
  /\ status' = "done" /\ pc' = "idle"
  /\ UNCHANGED <<disk, source, row, cfg, stop, results, dep, out, error,
                 mcpVars, faults, history>>

(***************************************************************************)
(* The process dies: a signal from terminate_owned, a crash, the machine,  *)
(* or a write that raises OSError (run_stages handles ArtifactError only). *)
(***************************************************************************)
Crash ==
  /\ Running /\ Fault
  /\ pc' = "idle"
  /\ UNCHANGED <<disk, source, db, stop, results, dep, out, error, mcpVars,
                 history>>

-----------------------------------------------------------------------------
(***************************************************************************)
(* McpService.cancel reads the job, writes cancel.requested and, if the    *)
(* job it read was pending, sets it failed.                                *)
(***************************************************************************)
McpRead ==
  /\ mcp = "idle" /\ cancels < MaxCancels
  /\ mcp' = "read" /\ seen' = status /\ cancels' = cancels + 1
  /\ UNCHANGED <<disk, source, db, proc, cancel, asked, faults, history>>

McpWrite ==
  /\ mcp = "read"
  /\ cancel' = TRUE /\ asked' = TRUE
  /\ mcp' = IF seen = "pending" THEN "set" ELSE "idle"
  /\ UNCHANGED <<disk, source, db, proc, seen, cancels, faults, history>>

McpSet ==
  /\ mcp = "set"
  /\ status' = "failed" /\ mcp' = "idle"
  /\ UNCHANGED <<disk, source, row, cfg, proc, cancel, seen, cancels, asked,
                 faults, history>>

-----------------------------------------------------------------------------
(***************************************************************************)
(* What happens to the directory from outside.  A file may be deleted at   *)
(* any time; it is altered, or a checkpoint spoilt, only between attempts. *)
(***************************************************************************)
Outside(hurtStages, firstStage) ==
  /\ Fault
  /\ kept' = KeepBelow(firstStage)
  /\ clean' = FALSE
  /\ hurt' = hurt \cup hurtStages
  /\ UNCHANGED <<db, proc, mcpVars>>

LoseFile ==
  \E i \in Filed :
    /\ files[i] # Absent
    /\ files' = [files EXCEPT ![i] = Absent]
    /\ Outside({i}, i) /\ UNCHANGED <<envelope, manifest, source>>

AlterFile ==
  \E i \in Filed :
    /\ pc = "idle" /\ files[i] \notin {Absent, Damaged}
    /\ files' = [files EXCEPT ![i] = Damaged]
    /\ Outside({i}, i) /\ UNCHANGED <<envelope, manifest, source>>

SpoilEnvelope ==
  \E i \in Stages, e \in {Absent, Damaged} :
    /\ pc = "idle" /\ envelope[i] \notin {Absent, Damaged}
    /\ envelope' = [envelope EXCEPT ![i] = e]
    /\ Outside({i}, i) /\ UNCHANGED <<files, manifest, source>>

\* update_manifest starts a new manifest when the old one cannot be read.
SpoilManifest ==
  /\ pc = "idle" /\ \E i \in Stages : manifest[i] # <<>>
  /\ manifest' = [i \in Stages |-> <<>>]
  /\ Outside(Stages, 1) /\ UNCHANGED <<files, envelope, source>>

SourceChanges ==
  /\ \E s \in SourceStates : s # source /\ source' = s
  /\ Outside({}, 1) /\ UNCHANGED disk

-----------------------------------------------------------------------------
RunStages ==
  \/ CancelStage \/ UseCached \/ MissCached \/ DiskBlocked \/ MarkRunning
  \/ RunFails \/ SourceNotFound \/ ProbeFails \/ RunOpensFile \/ RunReturns
  \/ PrepareFails \/ WriteEnvelope \/ UpdateManifest \/ WriteRow
  \/ Fail \/ Finish

Environment ==
  \/ LoseFile \/ AlterFile \/ SpoilEnvelope \/ SpoilManifest \/ SourceChanges

Next ==
  \/ Configure \/ Begin \/ RunStages \/ Crash
  \/ McpRead \/ McpWrite \/ McpSet
  \/ Environment

Spec == Init /\ [][Next]_vars

(***************************************************************************)
(* The process runs while it is alive, and someone resumes a job that is   *)
(* not done; crashes and failures are never forced.                        *)
(***************************************************************************)
FairSpec ==
  /\ Spec
  /\ WF_vars(RunStages)
  /\ WF_vars(status # "done" /\ Begin)

-----------------------------------------------------------------------------
Pcs == {"idle", "stage", "gate", "run", "write", "envelope", "manifest", "row",
        "failing", "finish"}
Codes == {"none", "CANCELLED", "DISK_SPACE_LOW", "STAGE_FAILED",
          "INPUT_FILE_NOT_FOUND", "ARTIFACT_MISSING"}
Statuses == {"pending", "running", "failed", "done"}

\* Every variable holds a value of its kind.
TypeOK ==
  /\ files \in [Stages -> Files]
  /\ envelope \in [Stages -> Envelopes \cup {Absent, Damaged}]
  /\ manifest \in [Stages -> Seq(Files)]
  /\ cancel \in BOOLEAN /\ source \in Sources \cup {Absent}
  /\ row \in [Stages -> {"none", "running", "failed", "done"}]
  /\ status \in Statuses
  /\ cfg \in [Stages -> Presets]
  /\ pc \in Pcs /\ stop \in Stages
  /\ results \in Seq(Results) /\ Len(results) <= NStages
  /\ pc \notin {"idle", "finish"} => Cur <= stop
  /\ dep \in Deps \cup {Absent} /\ (InRun => dep \in Deps)
  /\ out \in Outputs \cup {Absent}
  /\ pc \in {"envelope", "manifest", "row"} => out \in Outputs
  /\ pc = "manifest" => envelope[Cur] \in Envelopes
  /\ error \in Codes
  /\ mcp \in {"idle", "read", "set"} /\ seen \in Statuses
  /\ cancels \in 0 .. MaxCancels /\ asked \in BOOLEAN
  /\ faults \in 0 .. MaxFaults
  /\ kept \in Seq(Results) /\ clean \in BOOLEAN /\ hurt \subseteq Stages

(***************************************************************************)
(* A checkpoint that validates describes the file of the very run that     *)
(* wrote the checkpoint: no crash, restyle or repair ever pairs the data   *)
(* of one run with the file of another, or with half of one.  (For the     *)
(* stages that write their file; ingest, which adopts one, is not so: see  *)
(* AdoptedIsWhole.)                                                        *)
(***************************************************************************)
CheckpointIsGenuine ==
  \A i \in Filed \ Adopts :
    Validates(i) =>
      files[i] = [dep |-> envelope[i].dep, out |-> envelope[i].out]

(***************************************************************************)
(* The results of an attempt are one generation: each was computed with    *)
(* the job's present settings from exactly the outputs returned beside it. *)
(***************************************************************************)
Coherent(rs) ==
  \A i \in 1 .. Len(rs) :
    /\ rs[i].dep.cfg = cfg[i]
    /\ rs[i].dep.up = [j \in 1 .. i - 1 |-> rs[j].out]
    /\ i < Len(rs) => rs[i].out \notin NoRecs
ResultsCohere == Running => Coherent(results)

(***************************************************************************)
(* Completed work is never done again: whatever attempt comes after        *)
(* whatever crash, failure or cancellation, a stage that an earlier        *)
(* attempt completed is not run a second time, and the data it answers is  *)
(* the same, unless its inputs were changed or what it left was damaged.   *)
(***************************************************************************)
NothingRedone ==
  /\ InRun => Cur > Len(kept)
  /\ Running =>
       \A i \in 1 .. Len(results) : i <= Len(kept) => kept[i] = results[i]

(***************************************************************************)
(* The database never runs ahead of the disk: a stage whose row is done    *)
(* has a checkpoint that validates, unless the directory was damaged from  *)
(* outside since the stage was started.                                    *)
(***************************************************************************)
RowFollowsDisk ==
  \A i \in Stages : row[i] = "done" /\ i \notin hurt => Validates(i)

(***************************************************************************)
(* No step of the code takes a valid checkpoint away from any stage but    *)
(* the one it is running.                                                  *)
(***************************************************************************)
CheckpointsSurvive ==
  [][\A i \in Stages :
       Validates(i) /\ ~Validates(i)' =>
         (InRun /\ i = Cur) \/ Environment]_vars

(***************************************************************************)
(* A job that keeps being resumed is eventually done, however the earlier  *)
(* attempts ended, unless it was cancelled (CancelActsOnce), its source    *)
(* was moved (ResumeNeedsNoSource), or ingest holds a copy that is not     *)
(* whole (AdoptedIsWhole).                                                 *)
(***************************************************************************)
EventuallyDone ==
  []<>(\/ status = "done" \/ cancel \/ source = Absent
       \/ \E i \in Adopts : files[i] \in {Torn, Damaged})

(***************************************************************************)
(* The job store keeps the contract of PipelineContract: the answer of a   *)
(* done job is the results of the attempt that finished it.                *)
(***************************************************************************)
Answered == IF status = "done" THEN results ELSE <<>>
C == INSTANCE PipelineContract WITH answer <- Answered
Contract == C!Spec

-----------------------------------------------------------------------------
(* What the repository says of the job store, and the code does not do.    *)

\* queue.py:571: "Completed checkpoints remain available for resume": an attempt
\* is refused as cancelled only if a cancellation was asked since the last one.
CancelActsOnce == [][CancelStage => asked]_vars

\* ingest/stage.py:149: the managed copy "makes resume independent of an external
\* path being moved": with its copy whole, ingest does not fail for the source.
ResumeNeedsNoSource ==
  error = "INPUT_FILE_NOT_FOUND" =>
    \A i \in Adopts : files[i] \in {Absent, Torn, Damaged}

\* artifacts.py: a checkpoint is valid only for files that are whole.
AdoptedIsWhole ==
  \A i \in Adopts : Validates(i) => files[i] \notin {Torn, Damaged}
=============================================================================
