-------------------------------- MODULE Bridge --------------------------------
(***************************************************************************)
(* The native bridge of one ClipGauge home: process_manager.rs (the        *)
(* registry of heavy operations, cancellation, leases), sidecar.rs (the    *)
(* initialization coordinator) and the commands of main.rs that start,     *)
(* stream, cancel and report an operation.                                 *)
(*                                                                         *)
(* Commands run on the main thread, one at a time.  Each accepted          *)
(* operation has a worker thread and a child process in a group of its     *)
(* own, and all of them interleave.  The application may stop at any time  *)
(* without its children, and start again.                                  *)
(*                                                                         *)
(* An attempt is one call of run_job, resume_job, run_edit_render or       *)
(* start_setup.  The key of a run or a setup is fresh; that of a resume or *)
(* an edit is made of the job's id, so it is used again.                   *)
(***************************************************************************)
EXTENDS Naturals

CONSTANTS
  Attempts,    \* calls of the commands that start a heavy operation
  Jobs,        \* job ids
  Tools,       \* calls of setup_tool that initialize the pipeline
  None,
  MaxSessions  \* bound: starts of the application

Workers == Attempts \cup Tools
Keys == ({"run", "setup"} \X Attempts) \cup ({"resume", "edit"} \X Jobs)
Cancellable == Jobs \cup ({"setup"} \X Attempts)
Processes == {"sync", "child"} \X Attempts

Live == {"Starting", "Running", "Cancelling"}
States == Live \cup {"Cancelled", "Completed", "Failed"}
JobRecords == [job : Jobs \cup Keys \cup {None}, process : Processes \cup {None},
               state : States, cancel : BOOLEAN]
Leases == [state : States \cup {"Interrupted"}, session : 1 .. MaxSessions]

ASSUME BridgeAssumption ==
  /\ MaxSessions \in Nat \ {0}
  /\ Attempts \cap Tools = {}
  /\ None \notin Workers \cup Jobs \cup Keys \cup Processes \cup JobRecords \cup Leases

VARIABLES
  \* ProcessManager
  active,   \* the record of each key
  session,  \* session_id
  \* InitializationCoordinator
  owner,    \* the caller that is initializing (running), or None
  ready,
  \* the worker threads
  pc,
  key,      \* the key an attempt reserved
  code,     \* the code of its terminal event
  \* the processes
  sync,     \* each worker's initialization process
  child,    \* each attempt's pipeline process
  target,   \* the job it works on
  payload,  \* the completion payload it printed
  \* what outlives the application
  created,  \* the job directories
  lease,    \* runtime.json of each
  orphans,  \* jobs whose pipeline process an earlier session left running
  up        \* whether the application runs

manager == <<active, session>>
coordinator == <<owner, ready>>
threads == <<pc, key, code>>
pipeline == <<child, target, payload>>
home == <<created, lease, orphans, up>>
vars == <<manager, coordinator, threads, sync, pipeline, home>>

Kind(a) == key[a][1]
IsSetup(a) == key[a] # None /\ Kind(a) = "setup"
Record(a) == active[key[a]]
HasRecord(a) == key[a] # None /\ active[key[a]] # None

IsLive(k) == active[k] # None /\ active[k].state \in Live

\* is_cancel_requested
CancelRequested(a) == HasRecord(a) /\ Record(a).cancel

\* get_mut(key): nothing happens when the record is gone.
Update(a, r) ==
  active' = IF HasRecord(a) THEN [active EXCEPT ![key[a]] = r] ELSE active

Goto(w, l) == pc' = [pc EXCEPT ![w] = l]
At(w, l) == pc[w] = l

-----------------------------------------------------------------------------
Init ==
  /\ active = [k \in Keys |-> None] /\ session = 1
  /\ owner = None /\ ready = FALSE
  /\ pc = [w \in Workers |-> IF w \in Tools THEN "ensure" ELSE "new"]
  /\ key = [a \in Attempts |-> None] /\ code = [a \in Attempts |-> "none"]
  /\ sync = [w \in Workers |-> "none"]
  /\ child = [a \in Attempts |-> "none"]
  /\ target = [a \in Attempts |-> None]
  /\ payload = [a \in Attempts |-> "none"]
  /\ created \in SUBSET Jobs /\ lease = [j \in Jobs |-> None]
  /\ orphans = {} /\ up = TRUE

-----------------------------------------------------------------------------
(***************************************************************************)
(* Starting an operation: reserve, on the main thread.  max_heavy_jobs is  *)
(* 1.  start_setup adopts its key as its job id at once; a run or a setup  *)
(* initializes the pipeline first, a resume or an edit does not.           *)
(***************************************************************************)
NewRecord(k) ==
  [job |-> IF k[1] = "setup" THEN k ELSE None, process |-> None,
   state |-> "Starting", cancel |-> FALSE]

KeysOf(a) == ({"run", "setup"} \X {a}) \cup ({"resume", "edit"} \X created)

\* A variant that looks only at the key and not at the other operations.
ReserveBesideOthers(a) ==
  /\ up /\ At(a, "new")
  /\ \E k \in KeysOf(a) :
       /\ ~IsLive(k)
       /\ active' = [active EXCEPT ![k] = NewRecord(k)]
       /\ key' = [key EXCEPT ![a] = k]
       /\ Goto(a, IF k[1] \in {"run", "setup"} THEN "ensure" ELSE "spawn")
  /\ UNCHANGED <<session, coordinator, code, sync, pipeline, home>>

Reserve(a) ==
  /\ up /\ At(a, "new")
  /\ \A k \in Keys : ~IsLive(k)
  /\ \E k \in KeysOf(a) :
       /\ active' = [active EXCEPT ![k] = NewRecord(k)]
       /\ key' = [key EXCEPT ![a] = k]
       /\ Goto(a, IF k[1] \in {"run", "setup"} THEN "ensure" ELSE "spawn")
  /\ UNCHANGED <<session, coordinator, code, sync, pipeline, home>>

\* A call that is refused as Busy has already removed its key's old record.
ReserveRefused(k) ==
  /\ up /\ k[1] \in {"resume", "edit"} /\ active[k] # None /\ ~IsLive(k)
  /\ \E other \in Keys : IsLive(other)
  /\ active' = [active EXCEPT ![k] = None]
  /\ UNCHANGED <<session, coordinator, threads, sync, pipeline, home>>

-----------------------------------------------------------------------------
(***************************************************************************)
(* ensure_initialized, and initialize_pipeline_with_registration: one      *)
(* caller runs the initialization, the others wait on the condition        *)
(* variable and look again.                                                *)
(***************************************************************************)
\* A variant that does not look whether another caller is initializing.
EnterUnguarded(w) ==
  /\ At(w, "ensure")
  /\ IF ready THEN Goto(w, "initialized") /\ UNCHANGED owner
     ELSE Goto(w, "sync") /\ owner' = w
  /\ UNCHANGED <<manager, ready, key, code, sync, pipeline, home>>

Enter(w) ==
  /\ At(w, "ensure")
  /\ \/ ready /\ Goto(w, "initialized") /\ UNCHANGED owner
     \/ ~ready /\ owner # None /\ Goto(w, "waiting") /\ UNCHANGED owner
     \/ ~ready /\ owner = None /\ Goto(w, "sync") /\ owner' = w
  /\ UNCHANGED <<manager, ready, key, code, sync, pipeline, home>>

StartSync(w) ==
  /\ At(w, "sync")
  /\ \/ sync' = [sync EXCEPT ![w] = "alive"] /\ Goto(w, "register")
     \/ sync' = [sync EXCEPT ![w] = "failed"] /\ Goto(w, "publish")
  /\ UNCHANGED <<manager, coordinator, key, code, pipeline, home>>

Signal(status) == IF status = "alive" THEN "dying" ELSE status

Registered(a, process) ==
  [Record(a) EXCEPT !.process = process,
     !.state = IF Record(a).cancel THEN "Cancelling" ELSE "Running"]

\* The on_spawn callback: adopt the key, register, stop at once if cancelled.
RegisterSync(w) ==
  /\ At(w, "register") /\ Goto(w, "syncing")
  /\ IF w \in Attempts
     THEN /\ Update(w, [Registered(w, <<"sync", w>>) EXCEPT !.job = key[w]])
          /\ sync' = [sync EXCEPT
               ![w] = IF CancelRequested(w) THEN Signal(@) ELSE @]
     ELSE UNCHANGED <<active, sync>>
  /\ UNCHANGED <<session, coordinator, key, code, pipeline, home>>

\* It ends by itself, by a signal, or at the latest by run_bounded's timeouts.
SyncEnds(w) ==
  /\ At(w, "syncing")
  /\ \E r \in {"ok", "failed"} : sync' = [sync EXCEPT ![w] = r]
  /\ Goto(w, "publish")
  /\ UNCHANGED <<manager, coordinator, key, code, pipeline, home>>

Published(w) ==
  /\ owner' = None /\ ready' = (sync[w] = "ok")
  /\ sync' = [sync EXCEPT ![w] = "none"]
  /\ UNCHANGED <<manager, key, code, pipeline, home>>

Returned(w) == IF sync[w] = "ok" THEN "initialized" ELSE "uninitialized"

\* A variant that wakes one of the callers that wait (notify_one).
PublishToOne(w) ==
  /\ At(w, "publish") /\ Published(w)
  /\ LET waiting == {v \in Workers : pc[v] = "waiting"} IN
     IF waiting = {} THEN Goto(w, Returned(w))
     ELSE \E v \in waiting :
            pc' = [pc EXCEPT ![w] = Returned(w), ![v] = "ensure"]

Publish(w) ==
  /\ At(w, "publish") /\ Published(w)
  /\ pc' = [v \in Workers |-> IF v = w THEN Returned(w)
                              ELSE IF pc[v] = "waiting" THEN "ensure"
                              ELSE pc[v]]

ToolReturns(t) ==
  /\ pc[t] \in {"initialized", "uninitialized"} /\ Goto(t, "done")
  /\ UNCHANGED <<manager, coordinator, key, code, sync, pipeline, home>>

Conclude(a, c) == code' = [code EXCEPT ![a] = c]

\* Only start_setup asks whether it was cancelled meanwhile.
InitializationFailed(a) ==
  /\ At(a, "uninitialized") /\ Goto(a, "finish")
  /\ Conclude(a, IF IsSetup(a) /\ CancelRequested(a) THEN "CANCELLED" ELSE "FAILED")
  /\ UNCHANGED <<manager, coordinator, key, sync, pipeline, home>>

Initialized(a) ==
  /\ At(a, "initialized")
  /\ IF IsSetup(a) /\ CancelRequested(a)
     THEN Goto(a, "finish") /\ Conclude(a, "CANCELLED")
     ELSE Goto(a, "spawn") /\ UNCHANGED code
  /\ UNCHANGED <<manager, coordinator, key, sync, pipeline, home>>

-----------------------------------------------------------------------------
(***************************************************************************)
(* stream_pipeline and stream_setup: spawn, register, read the events,     *)
(* wait, decide, finish the record, write the lease, emit.                 *)
(***************************************************************************)
SpawnFails(a) ==
  /\ At(a, "spawn") /\ Goto(a, "finish") /\ Conclude(a, "FAILED")
  /\ UNCHANGED <<manager, coordinator, key, sync, pipeline, home>>

\* A run creates its job; a setup works on none.
JobsFor(a) ==
  CASE Kind(a) = "run" -> Jobs \ created
    [] Kind(a) = "setup" -> {None}
    [] OTHER -> {key[a][2]}

Spawn(a) ==
  /\ At(a, "spawn") /\ Goto(a, "spawned")
  /\ \E j \in JobsFor(a) :
       /\ target' = [target EXCEPT ![a] = j]
       /\ created' = created \cup ({j} \ {None})
  /\ child' = [child EXCEPT ![a] = "alive"]
  /\ UNCHANGED <<manager, coordinator, key, code, sync, payload,
                 lease, orphans, up>>

Register(a) ==
  /\ At(a, "spawned") /\ Goto(a, "stream")
  /\ Update(a, Registered(a, <<"child", a>>))
  /\ child' = [child EXCEPT ![a] =
       IF IsSetup(a) /\ CancelRequested(a) THEN Signal(@) ELSE @]
  /\ UNCHANGED <<session, coordinator, key, code, sync, target, payload, home>>

\* An event that names the job; the ones of an edit or a setup do not.  A
\* finite number of them is left to read once the process has ended.
Announce(a) ==
  /\ At(a, "stream") /\ Kind(a) \in {"run", "resume"} /\ HasRecord(a)
  /\ child[a] = "exited" => Record(a).job # target[a]
  /\ Update(a, [Record(a) EXCEPT !.job = target[a]])
  /\ Goto(a, "note")
  /\ UNCHANGED <<session, coordinator, key, code, sync, pipeline, home>>

\* A variant that does not validate the job id the lease is filed under.
WriteLeaseAnywhere(a) ==
  lease' = IF HasRecord(a)
           THEN [j \in DOMAIN lease \cup {Record(a).job} |->
                   IF j = Record(a).job
                   THEN [state |-> Record(a).state, session |-> session]
                   ELSE lease[j]]
           ELSE lease

\* write_lifecycle_snapshot: only for a record that has a job directory.
WriteLease(a) ==
  lease' = IF HasRecord(a) /\ Record(a).job \in Jobs
           THEN [lease EXCEPT ![Record(a).job] =
                   [state |-> Record(a).state, session |-> session]]
           ELSE lease

Note(a) ==
  /\ At(a, "note") /\ WriteLease(a) /\ Goto(a, "stream")
  /\ UNCHANGED <<manager, coordinator, key, code, sync, pipeline,
                 created, orphans, up>>

\* The safety limits of stream_setup; stream_pipeline has none.
TimeOut(a) ==
  /\ At(a, "stream") /\ IsSetup(a) /\ child[a] \in {"alive", "dying"}
  /\ child' = [child EXCEPT ![a] = "overdue"]
  /\ UNCHANGED <<manager, coordinator, threads, sync, target, payload, home>>

\* The process ends; one that was signalled may have finished before.
Exit(a) ==
  /\ child[a] \in {"alive", "dying", "overdue"}
  /\ child' = [child EXCEPT ![a] = "exited"]
  /\ \E p \in {"ok", "bad", "none"} :
       /\ child[a] = "overdue" => p = "none"
       /\ payload' = [payload EXCEPT ![a] = p]
  /\ UNCHANGED <<manager, coordinator, threads, sync, target, home>>

FinishedAs(a, success) ==
  IF Record(a).cancel THEN "Cancelled"
  ELSE IF success THEN "Completed" ELSE "Failed"

Outcome(a) ==
  IF CancelRequested(a) THEN "CANCELLED"
  ELSE IF payload[a] = "ok" THEN "OK" ELSE "FAILED"

\* stream_pipeline asks whether it was cancelled, and finishes later.
JobEnds(a) ==
  /\ At(a, "stream") /\ ~IsSetup(a) /\ child[a] = "exited"
  /\ Conclude(a, Outcome(a)) /\ Goto(a, "finish")
  /\ UNCHANGED <<manager, coordinator, key, sync, pipeline, home>>

\* A variant of stream_setup that decides as stream_pipeline does.
SetupEndsInTwoSteps(a) ==
  /\ At(a, "stream") /\ IsSetup(a) /\ child[a] = "exited"
  /\ Conclude(a, Outcome(a)) /\ Goto(a, "finish")
  /\ UNCHANGED <<manager, coordinator, key, sync, pipeline, home>>

\* stream_setup does both under one lock.
SetupEnds(a) ==
  /\ At(a, "stream") /\ IsSetup(a) /\ child[a] = "exited"
  /\ Conclude(a, Outcome(a)) /\ Goto(a, "report")
  /\ Update(a, [Record(a) EXCEPT !.state = FinishedAs(a, payload[a] = "ok")])
  /\ UNCHANGED <<session, coordinator, key, sync, pipeline, home>>

Finish(a) ==
  /\ At(a, "finish") /\ Goto(a, "snapshot")
  /\ Update(a, [Record(a) EXCEPT !.state = FinishedAs(a, code[a] = "OK")])
  /\ UNCHANGED <<session, coordinator, key, code, sync, pipeline, home>>

Snapshot(a) ==
  /\ At(a, "snapshot") /\ WriteLease(a) /\ Goto(a, "report")
  /\ UNCHANGED <<manager, coordinator, key, code, sync, pipeline,
                 created, orphans, up>>

\* The event is emitted, and the thread ends.
Report(a) ==
  /\ At(a, "report") /\ Goto(a, "done")
  /\ child' = [child EXCEPT ![a] = "none"]
  /\ target' = [target EXCEPT ![a] = None]
  /\ payload' = [payload EXCEPT ![a] = "none"]
  /\ UNCHANGED <<manager, coordinator, key, code, sync, home>>

-----------------------------------------------------------------------------
(***************************************************************************)
(* Cancellation: request_cancel finds a record by its job id, and the      *)
(* process it names is signalled.  A record that has no process keeps the  *)
(* request; cancel_setup answers Ok to that.                               *)
(***************************************************************************)
RequestCancel(k) ==
  active' = [active EXCEPT ![k].cancel = TRUE, ![k].state = "Cancelling"]

Terminate(process) ==
  /\ sync' = [w \in Workers |-> IF process = <<"sync", w>> THEN Signal(sync[w])
                                ELSE sync[w]]
  /\ child' = [a \in Attempts |-> IF process = <<"child", a>> THEN Signal(child[a])
                                  ELSE child[a]]

\* A variant that forgets to terminate the process.
CancelUnsignalled(id) ==
  /\ up
  /\ \E k \in Keys :
       active[k] # None /\ active[k].job = id /\ IsLive(k) /\ RequestCancel(k)
  /\ UNCHANGED <<session, coordinator, threads, sync, pipeline, home>>

\* A variant that does not look whether the record is terminal.
CancelAnyRecord(id) ==
  /\ up
  /\ \E k \in Keys :
       /\ active[k] # None /\ active[k].job = id
       /\ RequestCancel(k) /\ Terminate(active[k].process)
  /\ UNCHANGED <<session, coordinator, threads, target, payload, home>>

\* cancel_job, whose argument is a job id, and cancel_setup, whose argument is
\* the key of a setup.
Cancel(id) ==
  /\ up
  /\ \E k \in Keys :
       /\ active[k] # None /\ active[k].job = id /\ IsLive(k)
       /\ RequestCancel(k) /\ Terminate(active[k].process)
  /\ UNCHANGED <<session, coordinator, threads, target, payload, home>>

-----------------------------------------------------------------------------
(***************************************************************************)
(* The application stops, its children go on; they end at the latest when  *)
(* they print an event to the pipe nobody reads.  A start reconciles the   *)
(* leases.                                                                 *)
(***************************************************************************)
Stops ==
  /\ up /\ session < MaxSessions /\ up' = FALSE
  /\ active' = [k \in Keys |-> None]
  /\ owner' = None /\ ready' = FALSE
  /\ pc' = [w \in Workers |->
       IF pc[w] = "new" \/ (w \in Tools /\ pc[w] = "ensure") THEN pc[w] ELSE "done"]
  /\ sync' = [w \in Workers |-> "none"]
  /\ child' = [a \in Attempts |-> "none"]
  /\ target' = [a \in Attempts |-> None]
  /\ payload' = [a \in Attempts |-> "none"]
  /\ orphans' = orphans \cup
       ({target[a] : a \in {b \in Attempts : child[b] \in {"alive", "dying"}}}
          \ {None})
  /\ UNCHANGED <<session, key, code, created, lease>>

OrphanEnds(j) ==
  /\ j \in orphans /\ orphans' = orphans \ {j}
  /\ UNCHANGED <<manager, coordinator, threads, sync, pipeline, created, lease, up>>

\* A variant of reconcile_stale_leases that knows of running jobs only.
StartsForRunning ==
  /\ ~up /\ up' = TRUE /\ session' = session + 1
  /\ lease' = [j \in Jobs |->
       IF lease[j] # None /\ lease[j].state = "Running"
       THEN [lease[j] EXCEPT !.state = "Interrupted"] ELSE lease[j]]
  /\ UNCHANGED <<active, coordinator, threads, sync, pipeline, created, orphans>>

Starts ==
  /\ ~up /\ up' = TRUE /\ session' = session + 1
  /\ lease' = [j \in Jobs |->
       IF lease[j] # None /\ lease[j].state \in Live
       THEN [lease[j] EXCEPT !.state = "Interrupted"] ELSE lease[j]]
  /\ UNCHANGED <<active, coordinator, threads, sync, pipeline, created, orphans>>

-----------------------------------------------------------------------------
\* What a worker's thread does by itself.
Ensures(w) ==
  Enter(w) \/ StartSync(w) \/ RegisterSync(w) \/ SyncEnds(w) \/ Publish(w)
Streams(a) ==
  \/ InitializationFailed(a) \/ Initialized(a)
  \/ SpawnFails(a) \/ Spawn(a) \/ Register(a) \/ Announce(a) \/ Note(a)
  \/ JobEnds(a) \/ SetupEnds(a) \/ Finish(a) \/ Snapshot(a) \/ Report(a)

Next ==
  \/ \E w \in Workers : Ensures(w)
  \/ \E t \in Tools : ToolReturns(t)
  \/ \E a \in Attempts : Reserve(a) \/ Streams(a) \/ TimeOut(a) \/ Exit(a)
  \/ \E k \in Keys : ReserveRefused(k)
  \/ \E id \in Cancellable : Cancel(id)
  \/ Stops \/ Starts \/ \E j \in Jobs : OrphanEnds(j)

Spec == Init /\ [][Next]_vars

(***************************************************************************)
(* Threads are scheduled, a signalled process ends (SIGKILL follows after  *)
(* two seconds), and the limits of a setup expire.  Nothing makes a        *)
(* pipeline end by itself.                                                 *)
(***************************************************************************)
FairSpec ==
  /\ Spec
  /\ \A w \in Workers : WF_vars(Ensures(w))
  /\ \A t \in Tools : WF_vars(ToolReturns(t))
  /\ \A a \in Attempts :
       /\ WF_vars(Streams(a)) /\ WF_vars(TimeOut(a))
       /\ WF_vars(child[a] \in {"dying", "overdue"} /\ Exit(a))

-----------------------------------------------------------------------------
Pcs == {"new", "ensure", "waiting", "sync", "register", "syncing", "publish",
        "initialized", "uninitialized", "spawn", "spawned", "stream", "note",
        "finish", "snapshot", "report", "done"}
Before == {"new"}
After == {"snapshot", "report", "done"}
Initializing == {"sync", "register", "syncing", "publish"}

\* Every variable holds a value of its kind.
TypeOK ==
  /\ active \in [Keys -> JobRecords \cup {None}]
  /\ session \in 1 .. MaxSessions
  /\ owner \in Workers \cup {None} /\ ready \in BOOLEAN
  /\ pc \in [Workers -> Pcs]
  /\ key \in [Attempts -> Keys \cup {None}]
  /\ code \in [Attempts -> {"none", "OK", "CANCELLED", "FAILED"}]
  /\ sync \in [Workers -> {"none", "alive", "dying", "ok", "failed"}]
  /\ child \in [Attempts -> {"none", "alive", "dying", "overdue", "exited"}]
  /\ target \in [Attempts -> Jobs \cup {None}]
  /\ payload \in [Attempts -> {"none", "ok", "bad"}]
  /\ created \subseteq Jobs
  /\ lease \in [Jobs -> Leases \cup {None}]
  /\ orphans \subseteq Jobs /\ up \in BOOLEAN

\* The attempt holds the slot: it was accepted and its record is not finished.
Holds(a) == pc[a] \notin Before \cup After

(***************************************************************************)
(* At most one heavy operation is under way, whatever is reserved,         *)
(* cancelled, finished or refused in whatever order, and no process of an  *)
(* operation runs outside of the time it holds the slot.                   *)
(***************************************************************************)
OneHeavyOperation ==
  /\ \A a, b \in Attempts : Holds(a) /\ Holds(b) => a = b
  /\ \A a \in Attempts :
       child[a] \in {"alive", "dying", "overdue"} \/ sync[a] \in {"alive", "dying"}
         => Holds(a)

(***************************************************************************)
(* The slot is never leaked: a record that is not terminal, and so refuses *)
(* every other operation as Busy, belongs to a worker that will finish it. *)
(***************************************************************************)
SlotNeverLeaks ==
  \A k \in Keys : IsLive(k) => \E a \in Attempts : key[a] = k /\ Holds(a)

(***************************************************************************)
(* Initialization has one owner: no two callers run uv sync at once, and   *)
(* none runs it after it has succeeded.                                    *)
(***************************************************************************)
OneInitialization ==
  \A w \in Workers :
    pc[w] \in Initializing => owner = w /\ ~ready

(***************************************************************************)
(* A setup that was cancelled, even before it had a process, during the    *)
(* initialization it shares with others, or as its process ended, does not *)
(* report that it succeeded.                                               *)
(***************************************************************************)
CancelledSetupNeverOk ==
  \A a \in Attempts : IsSetup(a) /\ CancelRequested(a) => code[a] # "OK"

(***************************************************************************)
(* While the application runs, a lease that says a job is under way was    *)
(* written by this session.                                                *)
(***************************************************************************)
LeasesReconciled ==
  up => \A j \in Jobs :
    lease[j] # None /\ lease[j].state \in Live => lease[j].session = session

(***************************************************************************)
(* An operation whose cancellation was accepted ends, whatever it was      *)
(* doing: starting, waiting for another caller's initialization, running.  *)
(***************************************************************************)
CancelledEnds ==
  \A a \in Attempts : (CancelRequested(a) ~> pc[a] = "done")

(***************************************************************************)
(* A setup, and a caller of the initialization, never hangs: it ends even  *)
(* if its process does not, and even if nobody cancels it.                 *)
(***************************************************************************)
SetupsEnd ==
  /\ \A a \in Attempts : (IsSetup(a) ~> pc[a] = "done")
  /\ \A t \in Tools : <>(pc[t] = "done")

-----------------------------------------------------------------------------
(* What the repository says of the bridge, and the code does not do.       *)

\* main.rs:1026: "This job is already running in ClipGauge. Wait for it to finish
\* or cancel it": no record that cancel_job may find for a running job is terminal.
RunningJobCanBeCancelled ==
  \A k, l \in Keys :
    /\ IsLive(k) /\ active[k].job \in Jobs
    /\ active[l] # None /\ active[l].job = active[k].job
    => IsLive(l)

\* TROUBLESHOOTING.md:36: "Duplicate active runs for the same job are rejected to
\* avoid competing writers".
NoCompetingWriters ==
  \A a \in Attempts :
    child[a] \in {"alive", "dying"} => target[a] \notin orphans
=============================================================================
