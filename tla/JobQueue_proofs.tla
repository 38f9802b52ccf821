---------------------------- MODULE JobQueue_proofs ----------------------------
(***************************************************************************)
(* Proofs about JobQueue, for any number of stages, any settings, outputs  *)
(* and sources, and any number of faults and cancellations.                *)
(***************************************************************************)
EXTENDS JobQueue, SequenceTheorems, TLAPS

USE StagesAssumption

-----------------------------------------------------------------------------
(* What the helpers of the model return.                                   *)

LEMMA OutsOfType ==
  ASSUME NEW rs \in Seq(Results)
  PROVE  /\ OutsOf(rs) \in Seq(Outputs)
         /\ Len(OutsOf(rs)) = Len(rs)
         /\ \A i \in 1 .. Len(rs) : OutsOf(rs)[i] = rs[i].out
<1>1. \A i \in 1 .. Len(rs) : rs[i].out \in Outputs
  <2>1. \A i \in 1 .. Len(rs) : rs[i] \in Results
    OBVIOUS
  <2>2. QED
    BY <2>1 DEF Results
<1>2. OutsOf(rs) \in Seq(Outputs)
  BY <1>1 DEF OutsOf
<1>3. QED
  BY <1>2 DEF OutsOf

LEMMA CurType ==
  ASSUME TypeOK, pc \notin {"idle", "finish"}
  PROVE  Cur \in Stages
BY DEF TypeOK, Cur, Stages

LEMMA FingerprintType ==
  ASSUME TypeOK, pc = "stage"
  PROVE  DependencyFingerprint \in Deps
<1>1. OutsOf(results) \in Seq(Outputs)
  BY OutsOfType DEF TypeOK
<1>2. Cur \in Stages
  BY CurType
<1>3. QED
  BY <1>1, <1>2 DEF TypeOK, DependencyFingerprint, Deps

LEMMA KeepBelowType ==
  ASSUME TypeOK, NEW i \in Stages
  PROVE  KeepBelow(i) \in Seq(Results)
<1> DEFINE n == IF i - 1 < Len(kept) THEN i - 1 ELSE Len(kept)
<1>1. n \in Int /\ n <= Len(kept)
  BY DEF TypeOK, Stages
<1>2. \A j \in 1 .. n : kept[j] \in Results
  BY <1>1 DEF TypeOK
<1> HIDE DEF n
<1>3. SubSeq(kept, 1, n) \in Seq(Results)
  BY <1>1, <1>2, SubSeqProperties
<1>4. QED
  BY <1>3 DEF KeepBelow, n

LEMMA OutsideType ==
  ASSUME TypeOK, NEW i \in Stages, NEW h \in SUBSET Stages, Outside(h, i)
  PROVE  /\ kept' \in Seq(Results) /\ clean' \in BOOLEAN /\ hurt' \subseteq Stages
         /\ faults' \in 0 .. MaxFaults
         /\ UNCHANGED <<row, status, cfg, pc, stop, results, dep, out, error,
                        cancel, mcp, seen, cancels, asked>>
<1>1. faults' \in 0 .. MaxFaults
  BY BoundsAssumption DEF Outside, Fault, TypeOK
<1>2. QED
  BY <1>1, KeepBelowType DEF TypeOK, Outside, db, proc, mcpVars

LEMMA AcceptType ==
  ASSUME TypeOK, pc \notin {"idle", "finish"}, NEW r \in Results, Accept(r)
  PROVE  /\ results' \in Seq(Results) /\ Len(results') = Len(results) + 1
         /\ Len(results') <= NStages
         /\ kept' \in Seq(Results)
         /\ pc' \in {"stage", "finish"} /\ (pc' # "finish" => Cur' <= stop)
  BY DEF TypeOK, Accept, Cur, Stages
-----------------------------------------------------------------------------
(* Typing.                                                                 *)

\* Every reachable state of the job store is well typed.
THEOREM Typing == Spec => []TypeOK
<1>1. Init => TypeOK
  <2> SUFFICES ASSUME Init PROVE TypeOK
    OBVIOUS
  <2>1. /\ files \in [Stages -> Files]
        /\ envelope \in [Stages -> Envelopes \cup {Absent, Damaged}]
        /\ manifest \in [Stages -> Seq(Files)]
        /\ row \in [Stages -> {"none", "running", "failed", "done"}]
        /\ cfg \in [Stages -> Presets]
    BY ValuesAssumption DEF Init, Files
  <2>2. results \in Seq(Results) /\ Len(results) = 0 /\ kept \in Seq(Results)
    BY DEF Init
  <2>3. stop \in Stages
    BY DEF Init, Stages
  <2>4. /\ source \in Sources \cup {Absent} /\ status \in Statuses
        /\ dep \in Deps \cup {Absent} /\ out \in Outputs \cup {Absent}
        /\ error \in Codes /\ mcp \in {"idle", "read", "set"} /\ seen \in Statuses
    BY ValuesAssumption DEF Init, Statuses, Codes
  <2>5. /\ pc \in Pcs /\ pc = "idle"
        /\ cancel \in BOOLEAN /\ asked \in BOOLEAN /\ clean \in BOOLEAN
        /\ hurt \subseteq Stages
    BY Zenon DEF Init, Pcs
  <2>6. cancels \in 0 .. MaxCancels /\ faults \in 0 .. MaxFaults
    BY BoundsAssumption DEF Init
  <2>7. QED
    BY <2>1, <2>2, <2>3, <2>4, <2>5, <2>6 DEF TypeOK, InRun
<1>2. TypeOK /\ [Next]_vars => TypeOK'
  <2> SUFFICES ASSUME TypeOK, [Next]_vars PROVE TypeOK'
    OBVIOUS
  <2> USE DEF TypeOK, InRun
  <2>1. CASE Configure
    <3>1. PICK i \in Tunable, p \in Presets :
            cfg' = [cfg EXCEPT ![i] = p] /\ kept' = KeepBelow(i)
      BY <2>1 DEF Configure
    <3>2. kept' \in Seq(Results)
      BY <3>1, KeepBelowType
    <3>3. faults' \in 0 .. MaxFaults
      BY <2>1, BoundsAssumption DEF Configure, Fault
    <3>4. QED
      BY <2>1, <3>1, <3>2, <3>3 DEF Configure, disk, proc, mcpVars, Cur
  <2>2. CASE Begin
    BY <2>2
    DEF Begin, disk, mcpVars, Cur, Stages, Pcs, Statuses, Codes
  <2>3. CASE CancelStage
    BY <2>3 DEF CancelStage, disk, history, Cur, Pcs, Statuses, Codes
  <2>4. CASE UseCached
    <3>1. Cur \in Stages
      BY <2>4, CurType DEF UseCached
    <3>2. envelope[Cur] \in Envelopes
      BY <2>4, <3>1 DEF UseCached, ReadCheckpoint, Validates
    <3> DEFINE r == [dep |-> envelope[Cur].dep, out |-> envelope[Cur].out]
    <3>3. r \in Results
      BY <3>2 DEF Envelopes, Results
    <3>4. Accept(r)
      BY <2>4 DEF UseCached
    <3> HIDE DEF r
    <3>5. /\ results' \in Seq(Results) /\ Len(results') <= NStages
          /\ kept' \in Seq(Results)
          /\ pc' \in {"stage", "finish"} /\ (pc' # "finish" => Cur' <= stop)
      BY <3>3, <3>4, <2>4, AcceptType DEF UseCached
    <3>6. QED
      BY <2>4, <3>5 DEF UseCached, disk, db, mcpVars, Pcs
  <2>5. CASE MissCached
    <3>1. dep' \in Deps
      BY <2>5, FingerprintType DEF MissCached
    <3>2. QED
      BY <2>5, <3>1 DEF MissCached, disk, db, mcpVars, history, Cur, Pcs
  <2>6. CASE DiskBlocked
    <3>1. faults' \in 0 .. MaxFaults
      BY <2>6, BoundsAssumption DEF DiskBlocked, Fault
    <3>2. QED
      BY <2>6, <3>1, CurType
      DEF DiskBlocked, FailStage, disk, mcpVars, history, Cur, Pcs, Codes
  <2>7. CASE MarkRunning
    BY <2>7, CurType DEF MarkRunning, disk, mcpVars, Cur, Pcs
  <2>8. CASE RunFails
    <3>1. faults' \in 0 .. MaxFaults
      BY <2>8, BoundsAssumption DEF RunFails, Fault
    <3>2. QED
      BY <2>8, <3>1, CurType
      DEF RunFails, FailStage, disk, mcpVars, history, Cur, Pcs, Codes
  <2>9. CASE SourceNotFound
    BY <2>9, CurType
    DEF SourceNotFound, FailStage, disk, mcpVars, history, Cur, Pcs, Codes
  <2>10. CASE ProbeFails
    BY <2>10, CurType
    DEF ProbeFails, FailStage, disk, mcpVars, history, Cur, Pcs, Codes
  <2>11. CASE RunOpensFile
    BY <2>11, CurType
    DEF RunOpensFile, Files, db, mcpVars, history, Cur, Pcs
  <2>12. CASE RunReturns
    <3>1. dep \in Deps /\ \A o \in Outputs : [dep |-> dep, out |-> o] \in Files
      BY <2>12 DEF RunReturns, Files, Results
    <3>2. files' \in [Stages -> Files] /\ out' \in Outputs
      BY <2>12, <3>1 DEF RunReturns, Answer
    <3>3. out' \in Outputs \cup {Absent} /\ pc' = "envelope" /\ pc' \in Pcs
      BY <2>12, <3>2 DEF RunReturns, Pcs
    <3>4. UNCHANGED <<envelope, manifest, source, db, stop, results, dep, error,
                      mcpVars, faults, history>>
      BY <2>12 DEF RunReturns
    <3>5. pc \notin {"idle", "finish"} /\ InRun
      BY <2>12 DEF RunReturns, InRun
    <3>6. QED
      BY <3>1, <3>2, <3>3, <3>4, <3>5 DEF db, mcpVars, history, Cur
  <2>13. CASE PrepareFails
    BY <2>13, CurType
    DEF PrepareFails, FailStage, disk, mcpVars, history, Cur, Pcs, Codes
  <2>14. CASE WriteEnvelope
    <3>1. Cur \in Stages /\ dep \in Deps /\ out \in Outputs
      BY <2>14, CurType DEF WriteEnvelope
    <3>2. Descriptor(Cur) \in Files
      BY <3>1 DEF Descriptor, Files
    <3>3. [dep |-> dep, out |-> out, file |-> Descriptor(Cur)] \in Envelopes
      BY <3>1, <3>2 DEF Envelopes
    <3>4. envelope' \in [Stages -> Envelopes \cup {Absent, Damaged}]
          /\ envelope'[Cur] \in Envelopes
      BY <2>14, <3>1, <3>3 DEF WriteEnvelope
    <3>5. QED
      BY <2>14, <3>1, <3>4 DEF WriteEnvelope, db, mcpVars, history, Cur, Pcs
  <2>15. CASE UpdateManifest
    <3>1. Cur \in Stages /\ envelope[Cur].file \in Files
      BY <2>15, CurType DEF UpdateManifest, Envelopes
    <3>2. manifest' \in [Stages -> Seq(Files)]
      BY <2>15, <3>1 DEF UpdateManifest
    <3>3. QED
      BY <2>15, <3>2 DEF UpdateManifest, db, mcpVars, history, Cur, Pcs
  <2>16. CASE WriteRow
    <3> DEFINE r == [dep |-> dep, out |-> out]
    <3>1. r \in Results /\ Accept(r) /\ Cur \in Stages
      BY <2>16, CurType DEF WriteRow, Results
    <3> HIDE DEF r
    <3>2. /\ results' \in Seq(Results) /\ Len(results') <= NStages
          /\ kept' \in Seq(Results)
          /\ pc' \in {"stage", "finish"} /\ (pc' # "finish" => Cur' <= stop)
      BY <3>1, <2>16, AcceptType DEF WriteRow
    <3>3. QED
      BY <2>16, <3>1, <3>2 DEF WriteRow, disk, mcpVars, Pcs
  <2>17. CASE Fail
    BY <2>17 DEF Fail, disk, mcpVars, history, Cur, Pcs, Statuses
  <2>18. CASE Finish
    BY <2>18 DEF Finish, disk, mcpVars, history, Cur, Pcs, Statuses
  <2>19. CASE Crash
    <3>1. faults' \in 0 .. MaxFaults
      BY <2>19, BoundsAssumption DEF Crash, Fault
    <3>2. QED
      BY <2>19, <3>1 DEF Crash, disk, db, mcpVars, history, Cur, Pcs
  <2>20. CASE McpRead
    <3>1. cancels' \in 0 .. MaxCancels
      BY <2>20, BoundsAssumption DEF McpRead
    <3>2. QED
      BY <2>20, <3>1 DEF McpRead, disk, db, proc, history, Cur
  <2>21. CASE McpWrite
    BY <2>21 DEF McpWrite, disk, db, proc, history, Cur
  <2>22. CASE McpSet
    BY <2>22 DEF McpSet, disk, proc, history, Cur, Statuses
  <2>23. CASE LoseFile
    <3>1. PICK i \in Filed : files' = [files EXCEPT ![i] = Absent] /\ Outside({i}, i)
      BY <2>23 DEF LoseFile
    <3>2. files' \in [Stages -> Files]
      BY <3>1 DEF Files
    <3>3. QED
      BY <2>23, <3>1, <3>2, OutsideType DEF LoseFile, Cur
  <2>24. CASE AlterFile
    <3>1. PICK i \in Filed : files' = [files EXCEPT ![i] = Damaged] /\ Outside({i}, i)
      BY <2>24 DEF AlterFile
    <3>2. files' \in [Stages -> Files]
      BY <3>1 DEF Files
    <3>3. QED
      BY <2>24, <3>1, <3>2, OutsideType DEF AlterFile, Cur
  <2>25. CASE SpoilEnvelope
    <3>1. PICK i \in Stages, e \in {Absent, Damaged} :
            envelope' = [envelope EXCEPT ![i] = e] /\ Outside({i}, i)
      BY <2>25 DEF SpoilEnvelope
    <3>2. QED
      BY <2>25, <3>1, OutsideType DEF SpoilEnvelope, Cur
  <2>26. CASE SpoilManifest
    <3>1. Outside(Stages, 1) /\ 1 \in Stages
      BY <2>26 DEF SpoilManifest, Stages
    <3>2. manifest' \in [Stages -> Seq(Files)]
      BY <2>26 DEF SpoilManifest
    <3>3. QED
      BY <2>26, <3>1, <3>2, OutsideType DEF SpoilManifest, Cur
  <2>27. CASE SourceChanges
    <3>1. Outside({}, 1) /\ 1 \in Stages
      BY <2>27 DEF SourceChanges, Stages
    <3>2. source' \in Sources \cup {Absent}
      BY <2>27, ValuesAssumption DEF SourceChanges
    <3>3. QED
      BY <2>27, <3>1, <3>2, OutsideType DEF SourceChanges, disk, Cur
  <2>28. CASE UNCHANGED vars
    BY <2>28 DEF vars, disk, db, proc, mcpVars, history, Cur
  <2>29. QED
    BY <2>1, <2>2, <2>3, <2>4, <2>5, <2>6, <2>7, <2>8, <2>9, <2>10, <2>11,
       <2>12, <2>13, <2>14, <2>15, <2>16, <2>17, <2>18, <2>19, <2>20, <2>21,
       <2>22, <2>23, <2>24, <2>25, <2>26, <2>27, <2>28
    DEF Next, RunStages, Environment
<1>3. QED
  BY <1>1, <1>2, PTL DEF Spec
-----------------------------------------------------------------------------
(* The results of an attempt are one generation.                           *)

(***************************************************************************)
(* ResultsCohere is not inductive: the result a stage is about to return   *)
(* must have been asked for under the settings and the results the attempt *)
(* has now, and nothing may follow a result that recommends nothing.       *)
(***************************************************************************)
CoherenceInv ==
  /\ ResultsCohere
  /\ pc \notin {"idle", "finish"} =>
       \A i \in 1 .. Len(results) : results[i].out \notin NoRecs
  /\ InRun => dep.cfg = cfg[Cur] /\ dep.up = OutsOf(results)

LEMMA CoherentAppend ==
  ASSUME NEW rs \in Seq(Results), NEW r \in Results, Coherent(rs),
         \A i \in 1 .. Len(rs) : rs[i].out \notin NoRecs,
         r.dep.cfg = cfg[Len(rs) + 1], r.dep.up = OutsOf(rs)
  PROVE  Coherent(Append(rs, r))
<1> DEFINE s == Append(rs, r)
<1>1. Len(s) = Len(rs) + 1 /\ s[Len(rs) + 1] = r
  OBVIOUS
<1>2. \A i \in 1 .. Len(rs) : s[i] = rs[i]
  OBVIOUS
<1> HIDE DEF s
<1>3. \A i \in 1 .. Len(rs) :
        [j \in 1 .. i - 1 |-> s[j].out] = [j \in 1 .. i - 1 |-> rs[j].out]
  BY <1>2
<1>4. [j \in 1 .. (Len(rs) + 1) - 1 |-> s[j].out] = OutsOf(rs)
  BY <1>2 DEF OutsOf
<1>5. SUFFICES ASSUME NEW i \in 1 .. Len(rs) + 1
               PROVE  /\ s[i].dep.cfg = cfg[i]
                      /\ s[i].dep.up = [j \in 1 .. i - 1 |-> s[j].out]
                      /\ i < Len(rs) + 1 => s[i].out \notin NoRecs
  BY <1>1 DEF Coherent, s
<1>6. CASE i \in 1 .. Len(rs)
  BY <1>2, <1>3, <1>6 DEF Coherent
<1>7. CASE i = Len(rs) + 1
  BY <1>1, <1>4, <1>7
<1>8. QED
  BY <1>6, <1>7

\* The steps that return no result, change no setting and start no stage.
Quiet ==
  /\ UNCHANGED <<results, cfg>>
  /\ Running' => Running
  /\ pc' \notin {"idle", "finish"} => pc \notin {"idle", "finish"}
  /\ InRun' => InRun /\ dep' = dep

LEMMA QuietSteps ==
  ASSUME [Next]_vars
  PROVE  Configure \/ Begin \/ UseCached \/ MissCached \/ WriteRow \/ Quiet
<1> USE DEF Quiet, Running, InRun, disk, db, proc, mcpVars, history, FailStage, Outside
<1>1. CASE CancelStage \/ DiskBlocked \/ MarkRunning \/ RunFails \/ SourceNotFound
  BY <1>1 DEF CancelStage, DiskBlocked, MarkRunning, RunFails, SourceNotFound
<1>2. CASE ProbeFails \/ RunOpensFile \/ RunReturns \/ PrepareFails \/ WriteEnvelope
  BY <1>2 DEF ProbeFails, RunOpensFile, RunReturns, PrepareFails, WriteEnvelope
<1>3. CASE UpdateManifest \/ Fail \/ Finish \/ Crash \/ McpRead \/ McpWrite \/ McpSet
  BY <1>3 DEF UpdateManifest, Fail, Finish, Crash, McpRead, McpWrite, McpSet
<1>4. CASE Environment
  BY <1>4
  DEF Environment, LoseFile, AlterFile, SpoilEnvelope, SpoilManifest, SourceChanges
<1>5. CASE UNCHANGED vars
  BY <1>5 DEF vars
<1>6. QED
  BY <1>1, <1>2, <1>3, <1>4, <1>5 DEF Next, RunStages

LEMMA CoherenceInductive == TypeOK /\ CoherenceInv /\ [Next]_vars => CoherenceInv'
<1> SUFFICES ASSUME TypeOK, CoherenceInv, [Next]_vars PROVE CoherenceInv'
  OBVIOUS
<1> USE DEF CoherenceInv, ResultsCohere, Running, InRun
<1>1. CASE Configure
  BY <1>1 DEF Configure, proc
<1>2. CASE Begin
  BY <1>2 DEF Begin, Coherent
<1>3. ASSUME NEW r \in Results, Accept(r), UNCHANGED cfg,
             pc \notin {"idle", "finish"},
             r.dep.cfg = cfg[Cur], r.dep.up = OutsOf(results)
      PROVE  CoherenceInv'
  <2>1. results \in Seq(Results) /\ Cur = Len(results) + 1
    BY DEF TypeOK, Cur
  <2>2. results' = Append(results, r) /\ Coherent(results')
    BY <1>3, <2>1, CoherentAppend DEF Accept
  <2>3. Coherent(results)'
    BY <2>2, <1>3 DEF Coherent
  <2>4. pc' \in {"stage", "finish"} /\ (pc' = "stage" => r.out \notin NoRecs)
    BY <1>3 DEF Accept
  <2>5. \A i \in 1 .. Len(results') : results'[i] = r \/
          (i \in 1 .. Len(results) /\ results'[i] = results[i])
    BY <2>1, <2>2
  <2>6. QED
    BY <1>3, <2>3, <2>4, <2>5
<1>4. CASE UseCached
  <2>1. Cur \in Stages /\ envelope[Cur] \in Envelopes
    BY <1>4, CurType DEF UseCached, ReadCheckpoint, Validates, TypeOK
  <2> DEFINE r == [dep |-> envelope[Cur].dep, out |-> envelope[Cur].out]
  <2>2. r \in Results /\ r.dep = DependencyFingerprint /\ Accept(r)
    BY <1>4, <2>1 DEF UseCached, ReadCheckpoint, Envelopes, Results
  <2>3. r.dep.cfg = cfg[Cur] /\ r.dep.up = OutsOf(results)
    BY <2>2 DEF DependencyFingerprint
  <2> HIDE DEF r
  <2>4. QED
    BY <1>3, <1>4, <2>2, <2>3 DEF UseCached, db
<1>5. CASE MissCached
  BY <1>5 DEF MissCached, db, DependencyFingerprint, Coherent, Cur, OutsOf
<1>6. CASE WriteRow
  <2> DEFINE r == [dep |-> dep, out |-> out]
  <2>1. r \in Results /\ Accept(r)
    BY <1>6 DEF WriteRow, Results, TypeOK
  <2>2. r.dep.cfg = cfg[Cur] /\ r.dep.up = OutsOf(results)
    BY <1>6 DEF WriteRow
  <2> HIDE DEF r
  <2>3. QED
    BY <1>3, <1>6, <2>1, <2>2 DEF WriteRow
<1>7. CASE Quiet
  BY <1>7 DEF Quiet, Coherent, Cur, OutsOf
<1>8. QED
  BY <1>1, <1>2, <1>4, <1>5, <1>6, <1>7, QuietSteps

(***************************************************************************)
(* The results an attempt returns were computed one from another and under *)
(* the job's present settings: no checkpoint of another generation is ever *)
(* mixed in, for any number of stages.                                     *)
(***************************************************************************)
THEOREM ResultsAlwaysCohere == Spec => []ResultsCohere
<1>1. Init => CoherenceInv
  BY DEF Init, CoherenceInv, ResultsCohere, Running, InRun
<1>2. CoherenceInv => ResultsCohere
  BY DEF CoherenceInv
<1>3. QED
  BY <1>1, <1>2, Typing, CoherenceInductive, PTL DEF Spec
-----------------------------------------------------------------------------
(* What the steps do to the job directory.                                 *)

\* A step that is not the environment's touches the stage it runs, if any.
DiskFrame ==
  \/ Environment
  \/ \A i \in Stages :
       (InRun => i # Cur) =>
         files'[i] = files[i] /\ envelope'[i] = envelope[i] /\ manifest'[i] = manifest[i]

LEMMA StepFrame == TypeOK /\ [Next]_vars => DiskFrame
<1> SUFFICES ASSUME TypeOK, [Next]_vars PROVE DiskFrame
  OBVIOUS
<1> USE DEF DiskFrame, InRun, disk, FailStage
<1>1. CASE RunOpensFile \/ RunReturns
  BY <1>1 DEF RunOpensFile, RunReturns, TypeOK
<1>2. CASE WriteEnvelope \/ UpdateManifest
  BY <1>2 DEF WriteEnvelope, UpdateManifest, TypeOK
<1>3. CASE Configure \/ Begin \/ CancelStage \/ UseCached \/ MissCached
  BY <1>3 DEF Configure, Begin, CancelStage, UseCached, MissCached
<1>4. CASE DiskBlocked \/ MarkRunning \/ RunFails \/ SourceNotFound \/ ProbeFails
  BY <1>4 DEF DiskBlocked, MarkRunning, RunFails, SourceNotFound, ProbeFails
<1>5. CASE PrepareFails \/ WriteRow \/ Fail \/ Finish \/ Crash
  BY <1>5 DEF PrepareFails, WriteRow, Fail, Finish, Crash
<1>6. CASE McpRead \/ McpWrite \/ McpSet \/ UNCHANGED vars
  BY <1>6 DEF McpRead, McpWrite, McpSet, vars
<1>7. QED
  BY <1>1, <1>2, <1>3, <1>4, <1>5, <1>6 DEF Next, RunStages

LEMMA ValidatesFrame ==
  ASSUME NEW i \in Stages,
         files'[i] = files[i], envelope'[i] = envelope[i], manifest'[i] = manifest[i]
  PROVE  Validates(i)' <=> Validates(i)
BY DEF Validates, Descriptor

(***************************************************************************)
(* No attempt takes a valid checkpoint away from a stage it is not         *)
(* running: not by starting, failing, being cancelled or crashing.         *)
(***************************************************************************)
THEOREM CheckpointsAlwaysSurvive == Spec => CheckpointsSurvive
<1>1. TypeOK /\ [Next]_vars =>
        [\A i \in Stages :
           Validates(i) /\ ~Validates(i)' => (InRun /\ i = Cur) \/ Environment]_vars
  BY StepFrame, ValidatesFrame DEF DiskFrame
<1>2. QED
  BY <1>1, Typing, PTL DEF Spec, CheckpointsSurvive

-----------------------------------------------------------------------------
(* Checkpoints are genuine.                                                *)

(***************************************************************************)
(* The induction needs that any checkpoint describes the file of its own   *)
(* run, valid or not, and that the file a run has just written is still    *)
(* its own when the checkpoint is about to describe it.                    *)
(***************************************************************************)
GenuineInv ==
  /\ \A i \in Filed \ Adopts :
       envelope[i] \notin {Absent, Damaged} =>
         envelope[i].file = [dep |-> envelope[i].dep, out |-> envelope[i].out]
  /\ pc = "envelope" /\ Cur \in Filed \ Adopts =>
       files[Cur] \in {Absent, [dep |-> dep, out |-> out]}

LEMMA GenuineInductive == TypeOK /\ GenuineInv /\ [Next]_vars => GenuineInv'
<1> SUFFICES ASSUME TypeOK, GenuineInv, [Next]_vars PROVE GenuineInv'
  OBVIOUS
<1> USE DEF GenuineInv, disk, Cur
<1>1. CASE RunReturns
  <2>1. Cur \in Stages /\ Cur' = Cur
    BY <1>1, CurType DEF RunReturns
  <2>2. ASSUME Cur \in Filed \ Adopts
        PROVE  files'[Cur] = [dep |-> dep', out |-> out']
    <3>1. CASE pc = "write"
      <4>1. PICK o \in Answer : out' = o /\ files' = [files EXCEPT ![Cur] = [dep |-> dep, out |-> o]]
        BY <1>1, <3>1 DEF RunReturns
      <4>2. files \in [Stages -> Files] /\ dep' = dep
        BY <1>1 DEF RunReturns, TypeOK
      <4> QED BY <2>1, <4>1, <4>2
    <3>2. CASE pc # "write"
      BY <1>1, <2>1, <2>2, <3>2 DEF RunReturns, HasCopy, TypeOK
    <3> QED BY <3>1, <3>2
  <2>3. UNCHANGED envelope
    BY <1>1 DEF RunReturns
  <2>4. QED
    BY <2>1, <2>2, <2>3
<1>2. CASE WriteEnvelope
  <2>1. Cur \in Stages
    BY <1>2, CurType DEF WriteEnvelope
  <2>2. envelope'[Cur] = [dep |-> dep, out |-> out, file |-> Descriptor(Cur)]
    BY <1>2, <2>1 DEF WriteEnvelope, TypeOK
  <2>3. \A i \in Stages \ {Cur} : envelope'[i] = envelope[i]
    BY <1>2, <2>1 DEF WriteEnvelope, TypeOK
  <2>4. Cur \in Filed \ Adopts => Descriptor(Cur) = [dep |-> dep, out |-> out]
    BY <1>2 DEF WriteEnvelope, Descriptor
  <2>5. QED
    BY <1>2, <2>2, <2>3, <2>4 DEF WriteEnvelope
<1>3. CASE SpoilEnvelope
  BY <1>3, OutsideType DEF SpoilEnvelope, TypeOK
<1>4. CASE LoseFile \/ AlterFile \/ SpoilManifest \/ SourceChanges
  BY <1>4 DEF LoseFile, AlterFile, SpoilManifest, SourceChanges, Outside, proc, TypeOK
<1>5. CASE Configure \/ Begin \/ CancelStage \/ UseCached \/ MissCached
  BY <1>5 DEF Configure, Begin, CancelStage, UseCached, MissCached, Accept, proc
<1>6. CASE DiskBlocked \/ MarkRunning \/ RunFails \/ SourceNotFound \/ ProbeFails
  BY <1>6 DEF DiskBlocked, MarkRunning, RunFails, SourceNotFound, ProbeFails, FailStage
<1>7. CASE PrepareFails \/ UpdateManifest \/ WriteRow \/ Fail \/ Finish \/ Crash
  BY <1>7 DEF PrepareFails, UpdateManifest, WriteRow, Accept, Fail, Finish, Crash, FailStage
<1>8. CASE RunOpensFile \/ McpRead \/ McpWrite \/ McpSet \/ UNCHANGED vars
  BY <1>8 DEF RunOpensFile, McpRead, McpWrite, McpSet, vars, proc
<1>9. QED
  BY <1>1, <1>2, <1>3, <1>4, <1>5, <1>6, <1>7, <1>8 DEF Next, RunStages, Environment

(***************************************************************************)
(* A checkpoint that validates describes the file its own run wrote,       *)
(* whatever crashes, losses and later attempts came in between.            *)
(***************************************************************************)
THEOREM CheckpointsAreGenuine == Spec => []CheckpointIsGenuine
<1>1. Init => GenuineInv
  BY DEF Init, GenuineInv
<1>2. GenuineInv => CheckpointIsGenuine
  BY DEF GenuineInv, CheckpointIsGenuine, Validates, Descriptor
<1>3. QED
  BY <1>1, <1>2, Typing, GenuineInductive, PTL DEF Spec
-----------------------------------------------------------------------------
(* The rows of the database follow the disk.                               *)

(***************************************************************************)
(* While a stage is run its row says so; when its manifest entry, and then *)
(* its row, are about to be written, the rest of its checkpoint is there,  *)
(* unless the directory was damaged meanwhile.                             *)
(***************************************************************************)
RowInv ==
  /\ RowFollowsDisk
  /\ pc \in {"run", "write", "envelope", "manifest", "row"} => row[Cur] = "running"
  /\ pc \in {"manifest", "row"} /\ Cur \notin hurt =>
       /\ envelope[Cur] \notin {Absent, Damaged}
       /\ envelope[Cur].file = Descriptor(Cur)
       /\ Cur \in Filed => files[Cur] # Absent
  /\ pc = "row" /\ Cur \notin hurt => manifest[Cur] = <<envelope[Cur].file>>

LEMMA RowInductive == TypeOK /\ RowInv /\ [Next]_vars => RowInv'
<1> SUFFICES ASSUME TypeOK, RowInv, [Next]_vars PROVE RowInv'
  OBVIOUS
<1>0. ASSUME pc \notin {"idle", "finish"} PROVE Cur \in Stages
  BY <1>0, CurType
<1> USE DEF RowInv, RowFollowsDisk
<1>1. CASE RunOpensFile \/ RunReturns
  <2>1. /\ UNCHANGED <<row, hurt, envelope, manifest>> /\ Cur' = Cur /\ Cur \in Stages
        /\ \A i \in Stages \ {Cur} : files'[i] = files[i]
    BY <1>1, <1>0 DEF RunOpensFile, RunReturns, db, history, TypeOK, Cur
  <2>2. row[Cur] = "running" /\ pc' \in {"write", "envelope"}
    BY <1>1 DEF RunOpensFile, RunReturns
  <2>3. QED
    BY <2>1, <2>2, ValidatesFrame
<1>2. CASE WriteEnvelope
  <2>1. /\ UNCHANGED <<row, hurt, files, manifest>> /\ Cur' = Cur /\ Cur \in Stages
        /\ \A i \in Stages \ {Cur} : envelope'[i] = envelope[i]
        /\ row[Cur] = "running" /\ pc' = "manifest" /\ dep \in Deps /\ out \in Outputs
    BY <1>2, <1>0 DEF WriteEnvelope, db, history, TypeOK, InRun, Cur
  <2>2. envelope'[Cur] = [dep |-> dep, out |-> out, file |-> Descriptor(Cur)]
    BY <1>2, <2>1 DEF WriteEnvelope, TypeOK
  <2>3. Descriptor(Cur) \in Files
    BY <2>1 DEF Descriptor, TypeOK, Files
  <2>4. envelope'[Cur] \in Envelopes
    BY <2>1, <2>2, <2>3 DEF Envelopes
  <2>5. envelope'[Cur] \notin {Absent, Damaged}
    BY <2>4, ValuesAssumption
  <2>6. envelope'[Cur].file = Descriptor(Cur)' /\ (Cur \in Filed => files'[Cur] # Absent)
    BY <1>2, <2>1, <2>2 DEF WriteEnvelope, Descriptor
  <2>7. QED
    BY <2>1, <2>5, <2>6, ValidatesFrame
<1>3. CASE UpdateManifest
  <2>1. /\ UNCHANGED <<row, hurt, files, envelope>> /\ Cur' = Cur /\ Cur \in Stages
        /\ \A i \in Stages \ {Cur} : manifest'[i] = manifest[i]
        /\ manifest'[Cur] = <<envelope[Cur].file>>
        /\ row[Cur] = "running" /\ pc' = "row" /\ pc = "manifest"
    BY <1>3, <1>0 DEF UpdateManifest, db, history, TypeOK, Cur
  <2>2. QED
    BY <2>1, ValidatesFrame DEF Descriptor
<1>4. CASE WriteRow
  <2>1. /\ UNCHANGED <<hurt, files, envelope, manifest>> /\ Cur \in Stages
        /\ row' = [row EXCEPT ![Cur] = "done"] /\ pc' \in {"stage", "finish"}
    BY <1>4, <1>0 DEF WriteRow, disk, Accept
  <2>2. Cur \notin hurt => Validates(Cur)
    BY <1>4, <2>1 DEF WriteRow, Validates
  <2>3. QED
    BY <2>1, <2>2, ValidatesFrame DEF TypeOK
<1>5. CASE MarkRunning
  <2>1. /\ UNCHANGED <<files, envelope, manifest>> /\ Cur \in Stages /\ Cur' = Cur
        /\ row' = [row EXCEPT ![Cur] = "running"] /\ pc' = "run"
        /\ hurt' = hurt \ {Cur}
    BY <1>5, <1>0 DEF MarkRunning, disk, Cur
  <2>2. QED
    BY <2>1, ValidatesFrame DEF TypeOK
<1>6. ASSUME NEW h \in SUBSET Stages, UNCHANGED <<row, pc, results>>,
             hurt' = hurt \cup h,
             \A i \in Stages \ h : /\ files'[i] = files[i]
                                   /\ envelope'[i] = envelope[i]
                                   /\ manifest'[i] = manifest[i]
      PROVE  RowInv'
  <2>1. Cur' = Cur
    BY <1>6 DEF Cur
  <2>2. \A i \in Stages \ h : Validates(i)' <=> Validates(i)
    BY <1>6, ValidatesFrame
  <2>3. \A i \in Stages \ h : Descriptor(i)' = Descriptor(i)
    BY <1>6 DEF Descriptor
  <2>4. QED
    BY <1>0, <1>6, <2>1, <2>2, <2>3
<1>7. CASE Environment
  <2>1. CASE LoseFile
    <3>1. PICK i \in Filed : files' = [files EXCEPT ![i] = Absent] /\ Outside({i}, i)
      BY <2>1 DEF LoseFile
    <3>2. /\ UNCHANGED <<row, pc, results>> /\ hurt' = hurt \cup {i}
          /\ \A j \in Stages \ {i} : /\ files'[j] = files[j]
                                     /\ envelope'[j] = envelope[j]
                                     /\ manifest'[j] = manifest[j]
      BY <2>1, <3>1 DEF LoseFile, Outside, db, proc, TypeOK
    <3>3. {i} \in SUBSET Stages
      BY StagesAssumption
    <3>4. QED
      BY <1>6, <3>2, <3>3
  <2>2. CASE AlterFile
    <3>1. PICK i \in Filed : files' = [files EXCEPT ![i] = Damaged] /\ Outside({i}, i)
      BY <2>2 DEF AlterFile
    <3>2. /\ UNCHANGED <<row, pc, results>> /\ hurt' = hurt \cup {i}
          /\ \A j \in Stages \ {i} : /\ files'[j] = files[j]
                                     /\ envelope'[j] = envelope[j]
                                     /\ manifest'[j] = manifest[j]
      BY <2>2, <3>1 DEF AlterFile, Outside, db, proc, TypeOK
    <3>3. {i} \in SUBSET Stages
      BY StagesAssumption
    <3>4. QED
      BY <1>6, <3>2, <3>3
  <2>3. CASE SpoilEnvelope
    <3>1. PICK i \in Stages, e \in {Absent, Damaged} :
            envelope' = [envelope EXCEPT ![i] = e] /\ Outside({i}, i)
      BY <2>3 DEF SpoilEnvelope
    <3>2. /\ UNCHANGED <<row, pc, results>> /\ hurt' = hurt \cup {i}
          /\ \A j \in Stages \ {i} : /\ files'[j] = files[j]
                                     /\ envelope'[j] = envelope[j]
                                     /\ manifest'[j] = manifest[j]
      BY <2>3, <3>1 DEF SpoilEnvelope, Outside, db, proc, TypeOK
    <3>3. {i} \in SUBSET Stages
      BY StagesAssumption
    <3>4. QED
      BY <1>6, <3>2, <3>3
  <2>4. CASE SpoilManifest
    BY <2>4, <1>6 DEF SpoilManifest, Outside, db, proc, TypeOK
  <2>5. CASE SourceChanges
    BY <2>5, <1>6 DEF SourceChanges, Outside, db, proc, disk, TypeOK
  <2>6. QED
    BY <1>7, <2>1, <2>2, <2>3, <2>4, <2>5 DEF Environment
<1>8. ASSUME UNCHANGED <<files, envelope, manifest, hurt>>,
             \A i \in Stages : row'[i] # "done" \/ row'[i] = row[i],
             pc' \in {"run", "write", "envelope", "manifest", "row"} =>
               UNCHANGED <<row, pc, results>>
      PROVE  RowInv'
  <2>1. \A i \in Stages : Validates(i)' <=> Validates(i)
    BY <1>8, ValidatesFrame
  <2>2. QED
    BY <1>0, <1>8, <2>1 DEF Cur, Descriptor
<1> USE DEF disk, db, proc, mcpVars, history
<1>9. CASE Configure \/ Begin \/ CancelStage \/ UseCached \/ MissCached
  BY <1>8, <1>9 DEF Configure, Begin, CancelStage, UseCached, MissCached, Accept
<1>10. CASE DiskBlocked \/ RunFails \/ SourceNotFound \/ ProbeFails \/ PrepareFails
  BY <1>8, <1>10
  DEF DiskBlocked, RunFails, SourceNotFound, ProbeFails, PrepareFails, FailStage, TypeOK
<1>11. CASE Fail \/ Finish \/ Crash
  BY <1>8, <1>11 DEF Fail, Finish, Crash
<1>12. CASE McpRead \/ McpWrite \/ McpSet \/ UNCHANGED vars
  BY <1>8, <1>12 DEF McpRead, McpWrite, McpSet, vars
<1>13. QED
  BY <1>1, <1>2, <1>3, <1>4, <1>5, <1>7, <1>9, <1>10, <1>11, <1>12
  DEF Next, RunStages

(***************************************************************************)
(* A stage the database calls done has a valid checkpoint, at every point  *)
(* of every attempt, unless the directory was damaged from outside.        *)
(***************************************************************************)
THEOREM RowsFollowDisk == Spec => []RowFollowsDisk
<1>1. Init => RowInv
  BY DEF Init, RowInv, RowFollowsDisk
<1>2. RowInv => RowFollowsDisk
  BY DEF RowInv
<1>3. QED
  BY <1>1, <1>2, Typing, RowInductive, PTL DEF Spec

-----------------------------------------------------------------------------
(* Completed work is not redone.                                           *)

(***************************************************************************)
(* What is kept of the earlier attempts are checkpoints as they left them, *)
(* for the inputs there are now; an attempt that reads them answers the    *)
(* same, and runs only stages behind them.                                 *)
(***************************************************************************)
AsLeft(i) ==
  /\ Validates(i) /\ kept[i] = [dep |-> envelope[i].dep, out |-> envelope[i].out]
  /\ kept[i].dep = [cfg |-> cfg[i], src |-> source,
                    up |-> [j \in 1 .. i - 1 |-> kept[j].out]]
KeptInv ==
  /\ Len(kept) <= NStages /\ \A i \in 1 .. Len(kept) : AsLeft(i)
  /\ NothingRedone

\* What a stage that is run is about to leave, while nothing interferes.
Fresh ==
  clean /\ InRun =>
    /\ dep = DependencyFingerprint
    /\ pc = "manifest" =>
         /\ envelope[Cur] = [dep |-> dep, out |-> out, file |-> Descriptor(Cur)]
         /\ Cur \in Filed => files[Cur] # Absent
    /\ pc = "row" =>
         /\ Validates(Cur) /\ envelope[Cur].dep = dep /\ envelope[Cur].out = out

LEMMA KeepBelowIs ==
  ASSUME TypeOK, NEW i \in Stages
  PROVE  /\ KeepBelow(i) \in Seq(Results) /\ Len(KeepBelow(i)) <= Len(kept)
         /\ Len(KeepBelow(i)) < i
         /\ \A j \in 1 .. Len(KeepBelow(i)) : KeepBelow(i)[j] = kept[j]
<1> DEFINE n == IF i - 1 < Len(kept) THEN i - 1 ELSE Len(kept)
<1>1. n \in Nat /\ n <= Len(kept) /\ n < i /\ kept \in Seq(Results)
  BY DEF TypeOK, Stages
<1>2. KeepBelow(i) = SubSeq(kept, 1, n)
  BY DEF KeepBelow
<1> HIDE DEF n
<1>3. /\ Len(SubSeq(kept, 1, n)) = n
      /\ \A j \in 1 .. n : SubSeq(kept, 1, n)[j] = kept[j]
  BY <1>1
<1> QED BY <1>1, <1>2, <1>3, KeepBelowType

\* A step that leaves what is kept, or only less of it, as it was.
Trimmed ==
  /\ kept' \in Seq(Results) /\ Len(kept') <= Len(kept)
  /\ \A i \in 1 .. Len(kept') :
       /\ kept'[i] = kept[i] /\ cfg'[i] = cfg[i]
       /\ files'[i] = files[i] /\ envelope'[i] = envelope[i] /\ manifest'[i] = manifest[i]
  /\ Len(kept') > 0 => source' = source

LEMMA TrimmedKeeps ==
  ASSUME TypeOK, KeptInv, Trimmed,
         Running' => results' = <<>> \/ (Running /\ results' = results),
         InRun' => Len(kept') < Cur'
  PROVE  KeptInv'
<1>1. Len(kept) \in Nat /\ Len(kept') \in Nat /\ NStages \in Nat
  BY DEF TypeOK, Trimmed
<1>2. ASSUME NEW i \in 1 .. Len(kept') PROVE AsLeft(i)'
  <2>1. i \in Stages /\ i \in 1 .. Len(kept)
    BY <1>1 DEF Trimmed, KeptInv, Stages
  <2>2. AsLeft(i)
    BY <2>1 DEF KeptInv
  <2>3. Validates(i)'
    BY <2>1, <2>2, ValidatesFrame DEF AsLeft, Trimmed
  <2>4. \A j \in 1 .. i - 1 : kept'[j] = kept[j]
    BY <1>1 DEF Trimmed
  <2>5. [j \in 1 .. i - 1 |-> kept'[j].out] = [j \in 1 .. i - 1 |-> kept[j].out]
    BY <2>4
  <2>6. kept'[i] = kept[i] /\ cfg'[i] = cfg[i] /\ envelope'[i] = envelope[i]
        /\ source' = source
    BY <1>1 DEF Trimmed
  <2> QED BY <2>2, <2>3, <2>5, <2>6 DEF AsLeft
<1>3. Running' => \A i \in 1 .. Len(results') : i <= Len(kept') => kept'[i] = results'[i]
  <2>1. results \in Seq(Results)
    BY DEF TypeOK
  <2> QED BY <1>1, <2>1 DEF KeptInv, NothingRedone, Trimmed
<1> QED BY <1>1, <1>2, <1>3 DEF KeptInv, NothingRedone, Trimmed

\* The result of a stage, from its checkpoint or its run.
LEMMA AcceptKeeps ==
  ASSUME TypeOK, KeptInv, pc \in {"stage", "row"},
         NEW r \in Results, Accept(r), UNCHANGED <<disk, source, cfg>>,
         Cur <= Len(kept) => r = kept[Cur],
         clean => /\ Validates(Cur)
                  /\ r = [dep |-> envelope[Cur].dep, out |-> envelope[Cur].out]
                  /\ r.dep = DependencyFingerprint
  PROVE  KeptInv'
<1>0. PICK n \in Stages : n = Cur
  BY CurType
<1>1. /\ results \in Seq(Results) /\ kept \in Seq(Results) /\ n = Len(results) + 1
      /\ Running /\ Len(kept) <= NStages
  BY <1>0 DEF TypeOK, Cur, Running, KeptInv
<1>2. /\ results' = Append(results, r) /\ pc' \in {"stage", "finish"}
      /\ Len(results') = n /\ results'[n] = r
      /\ \A i \in 1 .. Len(results) : results'[i] = results[i]
  BY <1>1 DEF Accept
<1>3. \A i \in 1 .. Len(results) : i <= Len(kept) => kept[i] = results[i]
  BY <1>1 DEF KeptInv, NothingRedone
<1>4. ASSUME NEW i \in Stages, Validates(i) PROVE Validates(i)'
  BY <1>4, ValidatesFrame DEF disk
<1>5. CASE clean /\ Len(kept) = Len(results)
  <2>1. kept' = results' /\ Len(kept') = n /\ kept'[n] = r
        /\ \A i \in 1 .. Len(kept) : kept'[i] = kept[i]
    BY <1>1, <1>2, <1>3, <1>5 DEF Accept
  <2>2. ASSUME NEW i \in 1 .. Len(kept) PROVE AsLeft(i)'
    <3>1. AsLeft(i) /\ i \in Stages
      BY <1>1 DEF KeptInv, Stages
    <3>2. [j \in 1 .. i - 1 |-> kept'[j].out] = [j \in 1 .. i - 1 |-> kept[j].out]
      BY <1>1, <2>1
    <3>3. Validates(i)'
      BY <1>4, <3>1 DEF AsLeft
    <3> QED BY <2>1, <3>1, <3>2, <3>3 DEF AsLeft, disk
  <2>3. AsLeft(n)'
    <3>1. \A j \in 1 .. Len(results) : kept'[j] = results[j]
      BY <1>2, <2>1
    <3>2. [j \in 1 .. n - 1 |-> kept'[j].out] = OutsOf(results)
      BY <1>1, <3>1 DEF OutsOf
    <3>3. /\ Validates(n) /\ r.dep = DependencyFingerprint
          /\ r = [dep |-> envelope[n].dep, out |-> envelope[n].out]
      BY <1>0, <1>5
    <3>4. Validates(n)'
      BY <1>4, <3>3
    <3>5. kept'[n].dep = [cfg |-> cfg[n], src |-> source,
                          up |-> [j \in 1 .. n - 1 |-> kept'[j].out]]
      BY <1>0, <2>1, <3>2, <3>3 DEF DependencyFingerprint
    <3> QED BY <2>1, <3>3, <3>4, <3>5 DEF AsLeft, disk
  <2>4. ASSUME NEW i \in 1 .. Len(kept') PROVE AsLeft(i)'
    <3>1. i = n \/ i \in 1 .. Len(kept)
      BY <1>1, <1>5, <2>1
    <3> QED BY <2>2, <2>3, <3>1
  <2> QED BY <1>1, <1>2, <2>1, <2>4 DEF KeptInv, NothingRedone, InRun, Stages
<1>6. CASE ~(clean /\ Len(kept) = Len(results))
  <2>1. kept' = kept
    BY <1>6 DEF Accept
  <2>2. ASSUME NEW i \in 1 .. Len(kept) PROVE AsLeft(i)'
    <3>1. AsLeft(i) /\ i \in Stages
      BY <1>1 DEF KeptInv, Stages
    <3>2. Validates(i)'
      BY <1>4, <3>1 DEF AsLeft
    <3> QED BY <2>1, <3>1, <3>2 DEF AsLeft, disk
  <2>3. n <= Len(kept) => kept[n] = r
    BY <1>0
  <2>4. \A i \in 1 .. Len(results') : i <= Len(kept) => kept[i] = results'[i]
    BY <1>1, <1>2, <1>3, <2>3
  <2> QED BY <1>1, <1>2, <2>1, <2>2, <2>4 DEF KeptInv, NothingRedone, InRun
<1> QED BY <1>5, <1>6

\* The inputs and the checkpoint of the stage that is run stay its own.
LEMMA FreshInductive == TypeOK /\ Fresh /\ [Next]_vars => Fresh'
<1> SUFFICES ASSUME TypeOK, Fresh, [Next]_vars PROVE Fresh'
  OBVIOUS
<1> USE DEF Fresh, InRun, Cur, DependencyFingerprint, disk, db, proc, mcpVars, history
<1>1. CASE MissCached \/ MarkRunning \/ RunOpensFile \/ RunReturns
  BY <1>1 DEF MissCached, MarkRunning, RunOpensFile, RunReturns, OutsOf
<1>2. CASE WriteEnvelope
  <2>1. Cur \in Stages
    BY <1>2, CurType DEF WriteEnvelope
  <2>2. /\ UNCHANGED <<files, source, cfg, results, dep, out, clean>>
        /\ pc = "envelope" /\ pc' = "manifest" /\ Cur' = Cur
        /\ (Cur \in Filed => files[Cur] # Absent) /\ Descriptor(Cur)' = Descriptor(Cur)
        /\ envelope'[Cur] = [dep |-> dep, out |-> out, file |-> Descriptor(Cur)]
    BY <1>2, <2>1 DEF WriteEnvelope, Descriptor, TypeOK
  <2> QED BY <2>2 DEF OutsOf
<1>3. CASE UpdateManifest
  <2>1. Cur \in Stages /\ envelope[Cur] \in Envelopes
    BY <1>3, CurType DEF UpdateManifest, TypeOK
  <2>2. /\ UNCHANGED <<files, envelope, source, cfg, results, dep, out, clean>>
        /\ pc = "manifest" /\ pc' = "row" /\ Cur' = Cur
        /\ manifest'[Cur] = <<envelope[Cur].file>>
    BY <1>3, <2>1 DEF UpdateManifest, TypeOK
  <2>3. envelope[Cur] \notin {Absent, Damaged}
    BY <2>1, ValuesAssumption
  <2> QED BY <2>2, <2>3 DEF OutsOf, Validates, Descriptor
<1>4. CASE DiskBlocked \/ RunFails \/ SourceNotFound \/ ProbeFails \/ PrepareFails
  BY <1>4 DEF DiskBlocked, RunFails, SourceNotFound, ProbeFails, PrepareFails, FailStage
<1>5. CASE UseCached \/ WriteRow \/ Begin \/ Configure \/ CancelStage
  BY <1>5 DEF UseCached, WriteRow, Accept, Begin, Configure, CancelStage
<1>6. CASE Fail \/ Finish \/ Crash
  BY <1>6 DEF Fail, Finish, Crash
<1>7. CASE McpRead \/ McpWrite \/ McpSet \/ UNCHANGED vars
  BY <1>7 DEF McpRead, McpWrite, McpSet, vars, OutsOf, Validates, Descriptor
<1>8. CASE Environment
  BY <1>8 DEF Environment, LoseFile, AlterFile, SpoilEnvelope, SpoilManifest,
              SourceChanges, Outside
<1> QED BY <1>1, <1>2, <1>3, <1>4, <1>5, <1>6, <1>7, <1>8 DEF Next, RunStages

\* Damage from outside costs what is kept from the first stage that it hits.
LEMMA OutsideKeeps ==
  ASSUME TypeOK, KeptInv, NEW h \in SUBSET Stages, NEW i \in Stages, Outside(h, i),
         \A j \in Stages : j < i => /\ files'[j] = files[j]
                                    /\ envelope'[j] = envelope[j]
                                    /\ manifest'[j] = manifest[j],
         i # 1 => source' = source
  PROVE  KeptInv'
<1>1. /\ kept' = KeepBelow(i) /\ UNCHANGED <<cfg, pc, results>>
  BY DEF Outside, db, proc
<1>2. /\ kept' \in Seq(Results) /\ Len(kept') <= Len(kept) /\ Len(kept') < i
      /\ \A j \in 1 .. Len(kept') : kept'[j] = kept[j]
      /\ Len(kept) <= NStages /\ Len(kept) \in Nat /\ Len(kept') \in Nat
  BY <1>1, KeepBelowIs DEF KeptInv, TypeOK
<1>3. \A j \in 1 .. Len(kept') : j \in Stages /\ j < i
  BY <1>2 DEF Stages
<1>4. Trimmed
  BY <1>1, <1>2, <1>3 DEF Trimmed
<1>5. InRun' => Len(kept') < Cur'
  BY <1>1, <1>2 DEF KeptInv, NothingRedone, InRun, Cur, TypeOK
<1> QED BY <1>1, <1>4, <1>5, TrimmedKeeps DEF Running

LEMMA KeptInductive == TypeOK /\ KeptInv /\ Fresh /\ [Next]_vars => KeptInv'
<1> SUFFICES ASSUME TypeOK, KeptInv, Fresh, [Next]_vars PROVE KeptInv'
  OBVIOUS
<1>0. kept \in Seq(Results) /\ Len(kept) \in Nat /\ Len(kept) <= NStages
      /\ results \in Seq(Results) /\ Cur = Len(results) + 1
      /\ \A i \in 1 .. Len(kept) : i \in Stages
  BY DEF TypeOK, KeptInv, Cur, Stages
<1>1. ASSUME UNCHANGED <<kept, disk, cfg, source>>,
             Running' => results' = <<>> \/ (Running /\ results' = results),
             InRun' => InRun /\ results' = results
      PROVE  KeptInv'
  <2>1. Trimmed
    BY <1>0, <1>1 DEF Trimmed, disk
  <2>2. InRun' => Len(kept') < Cur'
    BY <1>1 DEF KeptInv, NothingRedone, Cur
  <2> QED BY <1>1, <2>1, <2>2, TrimmedKeeps
<1>2. CASE Configure
  <2>1. PICK i \in Tunable, p \in Presets :
          cfg' = [cfg EXCEPT ![i] = p] /\ kept' = KeepBelow(i)
    BY <1>2 DEF Configure
  <2>2. i \in Stages /\ ~Running' /\ ~InRun'
        /\ UNCHANGED <<files, envelope, manifest, source>>
    BY <1>2 DEF Configure, disk, proc, Running, InRun
  <2>3. /\ kept' \in Seq(Results) /\ Len(kept') <= Len(kept) /\ Len(kept') < i
        /\ \A j \in 1 .. Len(kept') : kept'[j] = kept[j]
    BY <2>1, <2>2, KeepBelowIs
  <2>4. \A j \in 1 .. Len(kept') : cfg'[j] = cfg[j]
    <3>1. ASSUME NEW j \in 1 .. Len(kept') PROVE j \in Stages /\ j # i
      BY <1>0, <2>2, <2>3 DEF Stages
    <3> QED BY <2>1, <3>1 DEF TypeOK
  <2>5. Trimmed
    BY <2>2, <2>3, <2>4 DEF Trimmed
  <2> QED BY <2>2, <2>5, TrimmedKeeps
<1> USE DEF db, proc, mcpVars, history
<1>3. CASE Begin \/ CancelStage \/ Fail \/ Finish \/ Crash
  BY <1>1, <1>3 DEF Begin, CancelStage, Fail, Finish, Crash, Running, InRun
<1>4. CASE DiskBlocked \/ RunFails \/ SourceNotFound \/ ProbeFails \/ PrepareFails
  BY <1>1, <1>4 DEF DiskBlocked, RunFails, SourceNotFound, ProbeFails, PrepareFails,
                    FailStage, Running, InRun
<1>5. CASE MarkRunning \/ McpRead \/ McpWrite \/ McpSet \/ UNCHANGED vars
  BY <1>1, <1>5 DEF MarkRunning, McpRead, McpWrite, McpSet, vars, disk, Running, InRun
<1>6. CASE MissCached
  <2>1. /\ UNCHANGED <<kept, disk, cfg, source, results>> /\ Running /\ pc = "stage"
        /\ ~ReadCheckpoint(Cur, DependencyFingerprint)
    BY <1>6 DEF MissCached, Running
  <2>2. ASSUME Cur <= Len(kept) PROVE FALSE
    <3>1. AsLeft(Cur)
      BY <1>0, <2>2 DEF KeptInv
    <3>2. \A j \in 1 .. Len(results) : kept[j] = results[j]
      BY <1>0, <2>1, <2>2 DEF KeptInv, NothingRedone
    <3>3. [j \in 1 .. Cur - 1 |-> kept[j].out] = OutsOf(results)
      BY <1>0, <3>2 DEF OutsOf
    <3>4. kept[Cur].dep = envelope[Cur].dep
      BY <3>1 DEF AsLeft
    <3>5. kept[Cur].dep = DependencyFingerprint
      BY <3>1, <3>3 DEF AsLeft, DependencyFingerprint
    <3> QED BY <2>1, <3>1, <3>4, <3>5 DEF AsLeft, ReadCheckpoint
  <2>3. Trimmed
    BY <1>0, <2>1 DEF Trimmed, disk
  <2>4. Len(kept') < Cur'
    BY <1>0, <2>1, <2>2 DEF Cur
  <2> QED BY <2>1, <2>3, <2>4, TrimmedKeeps
<1>7. CASE RunOpensFile \/ RunReturns \/ WriteEnvelope \/ UpdateManifest
  <2>1. /\ UNCHANGED <<kept, cfg, source, results>> /\ Running /\ InRun /\ Cur' = Cur
        /\ Cur \in Stages
        /\ \A i \in Stages \ {Cur} : /\ files'[i] = files[i] /\ envelope'[i] = envelope[i]
                                     /\ manifest'[i] = manifest[i]
    BY <1>7, CurType DEF RunOpensFile, RunReturns, WriteEnvelope, UpdateManifest, Running,
                         InRun, Cur, TypeOK
  <2>2. Len(kept) < Cur
    BY <2>1 DEF KeptInv, NothingRedone
  <2>3. Trimmed
    <3>1. \A i \in 1 .. Len(kept) : i \in Stages \ {Cur}
      BY <1>0, <2>2
    <3> QED BY <1>0, <2>1, <3>1 DEF Trimmed
  <2> QED BY <2>1, <2>2, <2>3, TrimmedKeeps
<1>8. CASE UseCached
  <2> DEFINE r == [dep |-> envelope[Cur].dep, out |-> envelope[Cur].out]
  <2>1. Cur \in Stages /\ envelope[Cur] \in Envelopes
    BY <1>8, CurType DEF UseCached, ReadCheckpoint, Validates, TypeOK
  <2>2. /\ r \in Results /\ r.dep = DependencyFingerprint /\ Accept(r) /\ pc = "stage"
        /\ Validates(Cur) /\ UNCHANGED <<disk, source, cfg>>
    BY <1>8, <2>1 DEF UseCached, ReadCheckpoint, Envelopes, Results
  <2>3. Cur <= Len(kept) => r = kept[Cur]
    <3>1. Cur <= Len(kept) => AsLeft(Cur)
      BY <1>0 DEF KeptInv
    <3> QED BY <3>1 DEF AsLeft
  <2> QED BY <2>2, <2>3, AcceptKeeps
<1>9. CASE WriteRow
  <2> DEFINE r == [dep |-> dep, out |-> out]
  <2>1. /\ r \in Results /\ Accept(r) /\ pc = "row" /\ InRun
        /\ UNCHANGED <<disk, source, cfg>>
    BY <1>9 DEF WriteRow, Results, TypeOK, InRun
  <2>2. ~(Cur <= Len(kept))
    BY <1>0, <2>1 DEF KeptInv, NothingRedone
  <2>3. clean => /\ Validates(Cur) /\ r.dep = DependencyFingerprint
                 /\ r = [dep |-> envelope[Cur].dep, out |-> envelope[Cur].out]
    BY <2>1 DEF Fresh
  <2> QED BY <2>1, <2>2, <2>3, AcceptKeeps
<1>10. CASE LoseFile \/ AlterFile
  <2>1. PICK i \in Filed, f \in {Absent, Damaged} :
          /\ files' = [files EXCEPT ![i] = f] /\ Outside({i}, i)
          /\ UNCHANGED <<envelope, manifest, source>>
    BY <1>10 DEF LoseFile, AlterFile
  <2>2. i \in Stages /\ \A j \in Stages : j < i => files'[j] = files[j]
    BY <2>1 DEF TypeOK, Stages
  <2> QED BY <2>1, <2>2, OutsideKeeps
<1>11. CASE SpoilEnvelope
  <2>1. PICK i \in Stages, e \in {Absent, Damaged} :
          /\ envelope' = [envelope EXCEPT ![i] = e] /\ Outside({i}, i)
          /\ UNCHANGED <<files, manifest, source>>
    BY <1>11 DEF SpoilEnvelope
  <2>2. \A j \in Stages : j < i => envelope'[j] = envelope[j]
    BY <2>1 DEF TypeOK, Stages
  <2> QED BY <2>1, <2>2, OutsideKeeps
<1>12. CASE SpoilManifest \/ SourceChanges
  <2>1. PICK h \in SUBSET Stages : Outside(h, 1)
    BY <1>12 DEF SpoilManifest, SourceChanges
  <2>2. 1 \in Stages /\ \A j \in Stages : ~(j < 1)
    BY DEF Stages
  <2> QED BY <2>1, <2>2, OutsideKeeps
<1> QED BY <1>2, <1>3, <1>4, <1>5, <1>6, <1>7, <1>8, <1>9, <1>10, <1>11, <1>12
        DEF Next, RunStages, Environment

(***************************************************************************)
(* A stage an attempt completed is not run again by any later one, which   *)
(* answers the same of it, unless its inputs were changed or what it left  *)
(* was damaged from outside.                                               *)
(***************************************************************************)
THEOREM NothingIsRedone == Spec => []NothingRedone
<1>1. Init => KeptInv /\ Fresh
  <2> SUFFICES ASSUME Init PROVE KeptInv /\ Fresh
    OBVIOUS
  <2>1. kept = <<>> /\ Len(kept) = 0 /\ ~Running /\ ~InRun
    BY DEF Init, Running, InRun
  <2> QED BY <2>1 DEF KeptInv, NothingRedone, Fresh
<1>2. KeptInv => NothingRedone
  BY DEF KeptInv
<1> QED BY <1>1, <1>2, Typing, KeptInductive, FreshInductive, PTL DEF Spec

-----------------------------------------------------------------------------
(* The job store keeps the contract of PipelineContract.                   *)

(***************************************************************************)
(* While an attempt runs its job is not done, so the contract sees no      *)
(* answer, and an attempt that is about to deliver has a result.           *)
(***************************************************************************)
DeliveryInv ==
  /\ Running => status # "done"
  /\ pc = "finish" => Len(results) > 0

LEMMA DeliveryInductive == TypeOK /\ DeliveryInv /\ [Next]_vars => DeliveryInv'
<1> SUFFICES ASSUME TypeOK, DeliveryInv, [Next]_vars PROVE DeliveryInv'
  OBVIOUS
<1> USE DEF DeliveryInv, Running, disk, db, proc, mcpVars, history, FailStage, Outside
<1>1. CASE UseCached \/ WriteRow
  <2>1. UNCHANGED status /\ Running
    BY <1>1 DEF UseCached, WriteRow
  <2>2. PICK r : results' = Append(results, r)
    BY <1>1 DEF UseCached, WriteRow, Accept
  <2>3. Len(results') > 0
    BY <2>2 DEF TypeOK
  <2>4. QED
    BY <2>1, <2>3
<1>2. CASE Configure \/ Begin \/ CancelStage \/ MissCached
  BY <1>2 DEF Configure, Begin, CancelStage, MissCached
<1>3. CASE DiskBlocked \/ MarkRunning \/ RunFails \/ SourceNotFound \/ ProbeFails
  BY <1>3 DEF DiskBlocked, MarkRunning, RunFails, SourceNotFound, ProbeFails
<1>4. CASE RunOpensFile \/ RunReturns \/ PrepareFails \/ WriteEnvelope \/ UpdateManifest
  BY <1>4 DEF RunOpensFile, RunReturns, PrepareFails, WriteEnvelope, UpdateManifest
<1>5. CASE Fail \/ Finish \/ Crash \/ McpRead \/ McpWrite \/ McpSet
  BY <1>5 DEF Fail, Finish, Crash, McpRead, McpWrite, McpSet
<1>6. CASE Environment
  BY <1>6
  DEF Environment, LoseFile, AlterFile, SpoilEnvelope, SpoilManifest, SourceChanges
<1>7. CASE UNCHANGED vars
  BY <1>7 DEF vars
<1>8. QED
  BY <1>1, <1>2, <1>3, <1>4, <1>5, <1>6, <1>7 DEF Next, RunStages

\* The steps the contract does not see.
Unseen == UNCHANGED <<status, cfg>> /\ (status = "done" => UNCHANGED results)

LEMMA UnseenSteps ==
  ASSUME DeliveryInv, [Next]_vars
  PROVE  Configure \/ Begin \/ CancelStage \/ Fail \/ Finish \/ McpSet \/ Unseen
<1> USE DEF Unseen, DeliveryInv, Running, disk, db, proc, mcpVars, history,
            FailStage, Outside
<1>1. CASE UseCached \/ WriteRow \/ MissCached \/ Crash \/ McpRead \/ McpWrite
  BY <1>1 DEF UseCached, WriteRow, MissCached, Crash, McpRead, McpWrite
<1>2. CASE DiskBlocked \/ MarkRunning \/ RunFails \/ SourceNotFound \/ ProbeFails
  BY <1>2 DEF DiskBlocked, MarkRunning, RunFails, SourceNotFound, ProbeFails
<1>3. CASE RunOpensFile \/ RunReturns \/ PrepareFails \/ WriteEnvelope \/ UpdateManifest
  BY <1>3 DEF RunOpensFile, RunReturns, PrepareFails, WriteEnvelope, UpdateManifest
<1>4. CASE Environment
  BY <1>4
  DEF Environment, LoseFile, AlterFile, SpoilEnvelope, SpoilManifest, SourceChanges
<1>5. CASE UNCHANGED vars
  BY <1>5 DEF vars
<1>6. QED
  BY <1>1, <1>2, <1>3, <1>4, <1>5 DEF Next, RunStages

LEMMA CoherentIsFromScratch ==
  ASSUME TypeOK, Len(results) > 0, Coherent(results)
  PROVE  C!FromScratch(results)
<1>1. Len(results) \in 1 .. NStages
  BY DEF TypeOK
<1>2. \A i \in 1 .. Len(results) : results[i] \in Results
  BY DEF TypeOK
<1>3. QED
  BY <1>1, <1>2 DEF C!FromScratch, Coherent

LEMMA ContractStep ==
  TypeOK /\ CoherenceInv /\ DeliveryInv /\ [Next]_vars => [C!Next]_C!contractVars
<1> SUFFICES ASSUME TypeOK, CoherenceInv, DeliveryInv, [Next]_vars
             PROVE  [C!Next]_C!contractVars
  OBVIOUS
<1> USE DEF C!Next, C!contractVars, Answered
<1>1. CASE Configure
  <2>1. PICK i \in Stages, p \in Presets : cfg' = [cfg EXCEPT ![i] = p]
    BY <1>1 DEF Configure
  <2>2. C!Reconfigure
    BY <1>1, <2>1 DEF Configure, C!Reconfigure, proc, Stages
  <2>3. QED
    BY <2>2
<1>2. CASE Begin
  BY <1>2 DEF Begin, C!Attempt
<1>3. CASE CancelStage \/ Fail \/ McpSet
  BY <1>3 DEF CancelStage, Fail, McpSet, C!Refuse
<1>4. CASE Finish
  <2>1. Len(results) > 0 /\ Coherent(results) /\ status # "done"
    BY <1>4 DEF Finish, CoherenceInv, ResultsCohere, DeliveryInv, Running
  <2>2. C!FromScratch(results)
    BY <2>1, CoherentIsFromScratch
  <2>3. status' = "done" /\ UNCHANGED <<cfg, results>>
    BY <1>4 DEF Finish
  <2>4. C!FromScratch(Answered')
    BY <2>2, <2>3
  <2>5. QED
    BY <2>1, <2>3, <2>4 DEF C!Deliver
<1>5. CASE Unseen
  BY <1>5 DEF Unseen
<1>6. QED
  BY <1>1, <1>2, <1>3, <1>4, <1>5, UnseenSteps

(***************************************************************************)
(* The job store implements PipelineContract: through any crashes,         *)
(* resumes, cancellations and changes of settings, a job is done only with *)
(* an answer that one run from scratch could have given.                   *)
(***************************************************************************)
THEOREM ImplementsContract == Spec => Contract
<1>1. Init => C!Init
  BY DEF Init, C!Init, Answered, Stages
<1>2. Init => CoherenceInv /\ DeliveryInv
  BY DEF Init, CoherenceInv, ResultsCohere, DeliveryInv, Running, InRun
<1>3. QED
  BY <1>1, <1>2, Typing, CoherenceInductive, DeliveryInductive, ContractStep, PTL
  DEF Spec, Contract, C!Spec
=============================================================================
