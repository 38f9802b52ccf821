----------------------------- MODULE Bridge_proofs -----------------------------
(***************************************************************************)
(* Proofs about Bridge, for any number of attempts, jobs, callers of the   *)
(* initialization and starts of the application.                           *)
(***************************************************************************)
EXTENDS Bridge, TLAPS

USE BridgeAssumption

-----------------------------------------------------------------------------
(* What the helpers of the model return.                                   *)

\* A key of an attempt is fresh or names a job.
LEMMA KeyShape ==
  ASSUME NEW k \in Keys
  PROVE  \/ k[1] \in {"run", "setup"} /\ k[2] \in Attempts
         \/ k[1] \in {"resume", "edit"} /\ k[2] \in Jobs
BY DEF Keys

LEMMA NewRecordType ==
  ASSUME NEW k \in Keys
  PROVE  NewRecord(k) \in JobRecords /\ NewRecord(k).state \in Live
BY DEF NewRecord, JobRecords, States, Live

LEMMA KeysOfType ==
  ASSUME NEW a \in Attempts, created \subseteq Jobs
  PROVE  KeysOf(a) \subseteq Keys
BY DEF KeysOf, Keys

LEMMA RecordType ==
  ASSUME TypeOK, NEW a \in Attempts, HasRecord(a)
  PROVE  key[a] \in Keys /\ Record(a) \in JobRecords
BY DEF TypeOK, HasRecord, Record

\* Registering a process, and what ends an operation, leave a record of the type.
LEMMA RegisteredType ==
  ASSUME TypeOK, NEW a \in Attempts, HasRecord(a), NEW p \in Processes
  PROVE  Registered(a, p) \in JobRecords /\ Registered(a, p).state \in Live
BY RecordType DEF Registered, JobRecords, States, Live

LEMMA CancelType ==
  ASSUME NEW r \in JobRecords
  PROVE  [r EXCEPT !.cancel = TRUE, !.state = "Cancelling"] \in JobRecords
<1>1. [r EXCEPT !.state = "Cancelling"] \in JobRecords
  BY DEF JobRecords, States, Live
<1>2. QED
  BY <1>1, Zenon DEF JobRecords

LEMMA FinishedType ==
  ASSUME NEW a, NEW s
  PROVE  FinishedAs(a, s) \in States \ Live
BY DEF FinishedAs, States, Live

LEMMA UpdateType ==
  ASSUME TypeOK, NEW a \in Attempts, NEW r, HasRecord(a) => r \in JobRecords, Update(a, r)
  PROVE  active' \in [Keys -> JobRecords \cup {None}]
BY RecordType DEF Update, TypeOK

LEMMA WriteLeaseType ==
  ASSUME TypeOK, NEW a \in Attempts, WriteLease(a)
  PROVE  lease' \in [Jobs -> Leases \cup {None}]
<1>1. CASE HasRecord(a)
  <2>1. [state |-> Record(a).state, session |-> session] \in Leases
    BY <1>1, RecordType DEF TypeOK, JobRecords, Leases
  <2>2. QED
    BY <2>1 DEF WriteLease, TypeOK
<1>2. CASE ~HasRecord(a)
  BY <1>2 DEF WriteLease, TypeOK
<1>3. QED
  BY <1>1, <1>2

-----------------------------------------------------------------------------
(* Typing.                                                                 *)

(***************************************************************************)
(* TypeOK needs that an accepted attempt has a key, which names the job it *)
(* works on, and that an application that is down may still be started.    *)
(***************************************************************************)
TypeInv ==
  /\ TypeOK
  /\ \A a \in Attempts : pc[a] \notin {"new", "done"} => key[a] # None
  /\ ~up => session < MaxSessions

LEMMA TypeInitially == Init => TypeInv
<1>1. SUFFICES ASSUME Init PROVE TypeOK /\ \A a \in Attempts : pc[a] \in {"new", "done"}
  BY DEF Init, TypeInv
<1>2. session \in 1 .. MaxSessions /\ created \subseteq Jobs
  BY <1>1 DEF Init
<1>3. \A w \in Workers : pc[w] \in Pcs
  BY <1>1 DEF Init, Pcs
<1>4. pc \in [Workers -> Pcs]
  BY <1>1, <1>3 DEF Init
<1>5. active \in [Keys -> JobRecords \cup {None}] /\ lease \in [Jobs -> Leases \cup {None}]
  BY <1>1 DEF Init
<1>6. QED
  BY <1>1, <1>2, <1>4, <1>5 DEF Init, TypeOK, Workers

LEMMA TypeInductive == TypeInv /\ [Next]_vars => TypeInv'
<1> SUFFICES ASSUME TypeInv, [Next]_vars PROVE TypeInv'
  OBVIOUS
<1>0. TypeOK
  BY DEF TypeInv
<1> USE DEF TypeInv, TypeOK, Goto, At, manager, coordinator, threads, pipeline, home,
            Pcs, Workers
<1>1. ASSUME NEW a \in Attempts, Reserve(a) PROVE TypeInv'
  <2>1. PICK k \in Keys : /\ active' = [active EXCEPT ![k] = NewRecord(k)]
                          /\ key' = [key EXCEPT ![a] = k]
                          /\ pc' \in {[pc EXCEPT ![a] = "ensure"], [pc EXCEPT ![a] = "spawn"]}
    BY <1>1, KeysOfType DEF Reserve
  <2>2. active' \in [Keys -> JobRecords \cup {None}]
    BY <2>1, NewRecordType
  <2>3. QED
    BY <1>1, <2>1, <2>2 DEF Reserve
<1>2. ASSUME NEW k \in Keys, ReserveRefused(k) PROVE TypeInv'
  BY <1>2 DEF ReserveRefused
<1>3. ASSUME NEW w \in Workers, Enter(w) \/ StartSync(w) \/ SyncEnds(w)
      PROVE  TypeInv'
  BY <1>3 DEF Enter, StartSync, SyncEnds
<1>4. ASSUME NEW w \in Workers, RegisterSync(w) PROVE TypeInv'
  <2>1. CASE w \in Attempts
    <3> DEFINE r == [Registered(w, <<"sync", w>>) EXCEPT !.job = key[w]]
    <3>1. <<"sync", w>> \in Processes
      BY <2>1 DEF Processes
    <3>2. HasRecord(w) => r \in JobRecords
      BY <1>0, <2>1, <3>1, RegisteredType, RecordType DEF JobRecords
    <3>3. active' \in [Keys -> JobRecords \cup {None}]
      BY <1>0, <1>4, <2>1, <3>2, UpdateType DEF RegisterSync
    <3>4. QED
      BY <1>4, <2>1, <3>3 DEF RegisterSync, Signal
  <2>2. CASE w \notin Attempts
    BY <1>4, <2>2 DEF RegisterSync
  <2>3. QED
    BY <2>1, <2>2
<1>5. ASSUME NEW w \in Workers, Publish(w) PROVE TypeInv'
  BY <1>5 DEF Publish, Published, Returned
<1>6. ASSUME NEW t \in Tools, ToolReturns(t) PROVE TypeInv'
  BY <1>6 DEF ToolReturns
<1>7. ASSUME NEW a \in Attempts,
             InitializationFailed(a) \/ Initialized(a) \/ SpawnFails(a)
      PROVE  TypeInv'
  BY <1>7 DEF InitializationFailed, Initialized, SpawnFails, Conclude
<1>8. ASSUME NEW a \in Attempts, Spawn(a) PROVE TypeInv'
  <2>1. JobsFor(a) \subseteq Jobs \cup {None}
    BY <1>8, KeyShape DEF Spawn, JobsFor, Kind
  <2>2. QED
    BY <1>8, <2>1 DEF Spawn
<1>9. ASSUME NEW a \in Attempts, Register(a) PROVE TypeInv'
  <2>1. active' \in [Keys -> JobRecords \cup {None}]
    BY <1>0, <1>9, RegisteredType, UpdateType DEF Register, Processes
  <2>2. QED
    BY <1>9, <2>1 DEF Register, Signal
<1>10. ASSUME NEW a \in Attempts, Announce(a) PROVE TypeInv'
  <2>1. [Record(a) EXCEPT !.job = target[a]] \in JobRecords
    BY <1>0, <1>10, RecordType DEF Announce, JobRecords
  <2>2. active' \in [Keys -> JobRecords \cup {None}]
    BY <1>0, <1>10, <2>1, UpdateType DEF Announce
  <2>3. QED
    BY <1>10, <2>2 DEF Announce
<1>11. ASSUME NEW a \in Attempts, Note(a) \/ Snapshot(a) PROVE TypeInv'
  <2>1. lease' \in [Jobs -> Leases \cup {None}]
    BY <1>0, <1>11, WriteLeaseType DEF Note, Snapshot
  <2>2. QED
    BY <1>11, <2>1 DEF Note, Snapshot
<1>12. ASSUME NEW a \in Attempts, TimeOut(a) \/ Exit(a) \/ JobEnds(a) \/ Report(a)
       PROVE  TypeInv'
  BY <1>12 DEF TimeOut, Exit, JobEnds, Report, Conclude, Outcome
<1>13. ASSUME NEW a \in Attempts, SetupEnds(a) \/ Finish(a) PROVE TypeInv'
  <2>1. PICK s : Update(a, [Record(a) EXCEPT !.state = FinishedAs(a, s)])
    BY <1>13 DEF SetupEnds, Finish
  <2>2. HasRecord(a) => [Record(a) EXCEPT !.state = FinishedAs(a, s)] \in JobRecords
    BY <1>0, RecordType, FinishedType DEF JobRecords
  <2>3. active' \in [Keys -> JobRecords \cup {None}]
    BY <1>0, <2>1, <2>2, UpdateType
  <2>4. QED
    BY <1>13, <2>3 DEF SetupEnds, Finish, Conclude, Outcome
<1>14. ASSUME NEW id \in Cancellable, Cancel(id) PROVE TypeInv'
  <2>1. PICK k \in Keys : active[k] # None /\ RequestCancel(k) /\ Terminate(active[k].process)
    BY <1>14 DEF Cancel
  <2> DEFINE r == [active[k] EXCEPT !.cancel = TRUE, !.state = "Cancelling"]
  <2>2. active' \in [Keys -> JobRecords \cup {None}]
    <3>1. active[k] \in JobRecords
      BY <2>1
    <3>2. r \in JobRecords
      BY <3>1, CancelType, Zenon
    <3>3. active' = [active EXCEPT ![k] = r]
      BY <2>1 DEF RequestCancel
    <3>4. QED
      BY <3>2, <3>3
  <2>3. /\ sync' \in [Workers -> {"none", "alive", "dying", "ok", "failed"}]
        /\ child' \in [Attempts -> {"none", "alive", "dying", "overdue", "exited"}]
    BY <2>1 DEF Terminate, Signal
  <2>4. QED
    BY <1>14, <2>2, <2>3 DEF Cancel
<1>15. ASSUME Stops PROVE TypeInv'
  <2>1. orphans' \subseteq Jobs
    BY <1>15 DEF Stops
  <2>2. pc' \in [Workers -> Pcs] /\ \A a \in Attempts : pc'[a] \in {"new", "done"}
    BY <1>15 DEF Stops
  <2>3. QED
    BY <1>15, <2>1, <2>2 DEF Stops
<1>16. ASSUME Starts PROVE TypeInv'
  BY <1>16 DEF Starts, Leases
<1>17. ASSUME NEW j \in Jobs, OrphanEnds(j) PROVE TypeInv'
  BY <1>17 DEF OrphanEnds
<1>18. CASE UNCHANGED vars
  BY <1>18 DEF vars
<1>19. QED
  BY <1>1, <1>2, <1>3, <1>4, <1>5, <1>6, <1>7, <1>8, <1>9, <1>10, <1>11, <1>12,
     <1>13, <1>14, <1>15, <1>16, <1>17, <1>18
  DEF Next, Ensures, Streams

(***************************************************************************)
(* Every variable of the bridge holds a value of its kind.                 *)
(***************************************************************************)
THEOREM Typing == Spec => []TypeOK
<1>1. TypeInv => TypeOK
  BY DEF TypeInv
<1>2. QED
  BY <1>1, TypeInitially, TypeInductive, PTL DEF Spec

-----------------------------------------------------------------------------
(* The slot of the heavy operation.                                        *)

(***************************************************************************)
(* The attempts that hold the slot and the live records are each other's:  *)
(* a live record belongs to the one attempt that holds the slot, and the   *)
(* attempt that holds it has a live record.                                *)
(***************************************************************************)
SlotInv ==
  /\ SlotNeverLeaks
  /\ \A a \in Attempts : Holds(a) => key[a] # None /\ IsLive(key[a])
  /\ \A a, b \in Attempts : Holds(a) /\ Holds(b) => a = b

\* No attempt takes or gives up the slot, and no record becomes live or terminal.
SlotKept ==
  /\ UNCHANGED key
  /\ \A a \in Attempts : Holds(a)' <=> Holds(a)
  /\ \A k \in Keys : IsLive(k)' <=> IsLive(k)

LEMMA SlotFrame == TypeOK /\ SlotInv /\ SlotKept => SlotInv'
<1> SUFFICES ASSUME TypeOK, SlotInv, SlotKept PROVE SlotInv'
  OBVIOUS
<1>1. SlotNeverLeaks'
  BY DEF SlotInv, SlotKept, SlotNeverLeaks
<1>2. ASSUME NEW a \in Attempts, Holds(a)' PROVE (key[a] # None /\ IsLive(key[a]))'
  <2>1. key'[a] = key[a] /\ key[a] \in Keys /\ key[a] # None /\ IsLive(key[a])
    BY <1>2 DEF SlotInv, SlotKept, TypeOK
  <2>2. IsLive(key[a])' <=> active'[key[a]] # None /\ active'[key[a]].state \in Live
    BY <2>1 DEF IsLive
  <2>3. active'[key[a]] # None /\ active'[key[a]].state \in Live
    BY <2>1 DEF SlotKept, IsLive
  <2>4. QED
    BY <2>1, <2>2, <2>3
<1>3. QED
  BY <1>1, <1>2 DEF SlotInv, SlotKept

\* Writing a live record where the operation under way has one keeps the slot.
LEMMA UpdateKeepsLive ==
  ASSUME TypeOK, SlotInv, NEW a \in Attempts, Holds(a),
         NEW r, HasRecord(a) => r \in JobRecords /\ r.state \in Live, Update(a, r)
  PROVE  \A k \in Keys : IsLive(k)' <=> IsLive(k)
<1>1. HasRecord(a) /\ key[a] \in Keys /\ IsLive(key[a])
  BY DEF SlotInv, HasRecord, IsLive, TypeOK
<1>2. active' = [active EXCEPT ![key[a]] = r] /\ r # None
  BY <1>1 DEF Update
<1>3. QED
  BY <1>1, <1>2 DEF IsLive, TypeOK

\* Finishing the operation frees the slot.
LEMMA FinishFreesSlot ==
  ASSUME TypeOK, SlotInv, NEW a \in Attempts, Holds(a), NEW s,
         Update(a, [Record(a) EXCEPT !.state = FinishedAs(a, s)]),
         UNCHANGED key, ~Holds(a)',
         \A b \in Attempts \ {a} : Holds(b)' <=> Holds(b)
  PROVE  SlotInv'
<1> DEFINE r == [Record(a) EXCEPT !.state = FinishedAs(a, s)]
<1>1. HasRecord(a) /\ key[a] \in Keys
  BY DEF SlotInv, HasRecord, IsLive, TypeOK
<1>2. r.state \notin Live
  BY <1>1, RecordType, FinishedType DEF JobRecords
<1>3. active' = [active EXCEPT ![key[a]] = r]
  BY <1>1 DEF Update
<1> HIDE DEF r
<1>4. \A b \in Attempts : ~Holds(b)'
  BY DEF SlotInv
<1>5. \A k \in Keys : IsLive(k) => k = key[a]
  BY DEF SlotInv, SlotNeverLeaks
<1>6. \A k \in Keys : ~IsLive(k)'
  BY <1>1, <1>2, <1>3, <1>5 DEF IsLive, TypeOK
<1>7. QED
  BY <1>4, <1>6 DEF SlotInv, SlotNeverLeaks

LEMMA SlotInductive == TypeInv /\ SlotInv /\ [Next]_vars => SlotInv'
<1> SUFFICES ASSUME TypeInv, SlotInv, [Next]_vars PROVE SlotInv'
  OBVIOUS
<1>0. TypeOK
  BY DEF TypeInv
<1> USE DEF Goto, At, Holds, Before, After, manager, threads
<1>1. ASSUME NEW a \in Attempts, Reserve(a) PROVE SlotInv'
  <2>1. PICK k \in Keys : /\ active' = [active EXCEPT ![k] = NewRecord(k)]
                          /\ key' = [key EXCEPT ![a] = k]
                          /\ pc' \in {[pc EXCEPT ![a] = "ensure"], [pc EXCEPT ![a] = "spawn"]}
    BY <1>0, <1>1, KeysOfType DEF Reserve, TypeOK
  <2>2. \A l \in Keys : ~IsLive(l)
    BY <1>1 DEF Reserve
  <2>3. \A b \in Attempts : ~Holds(b)
    BY <1>0, <2>2 DEF SlotInv, TypeOK
  <2>4. Holds(a)' /\ key'[a] = k /\ \A b \in Attempts : Holds(b)' => b = a
    BY <1>0, <2>1, <2>3 DEF TypeOK, Workers
  <2>5. \A l \in Keys : IsLive(l)' <=> l = k
    BY <1>0, <2>1, <2>2, NewRecordType DEF IsLive, TypeOK
  <2>6. QED
    BY <2>4, <2>5 DEF SlotInv, SlotNeverLeaks
<1>2. ASSUME NEW k \in Keys, ReserveRefused(k) PROVE SlotInv'
  <2>1. SlotKept
    BY <1>0, <1>2 DEF ReserveRefused, SlotKept, IsLive, TypeOK
  <2>2. QED
    BY <1>0, <2>1, SlotFrame
<1>3. ASSUME NEW w \in Workers,
             Enter(w) \/ StartSync(w) \/ SyncEnds(w) \/ Publish(w)
      PROVE  SlotInv'
  <2>1. SlotKept
    BY <1>0, <1>3
    DEF Enter, StartSync, SyncEnds, Publish, Published, Returned, SlotKept, IsLive, TypeOK,
        Workers
  <2>2. QED
    BY <1>0, <2>1, SlotFrame
<1>4. ASSUME NEW w \in Workers, RegisterSync(w) PROVE SlotInv'
  <2>1. UNCHANGED key /\ \A a \in Attempts : Holds(a)' <=> Holds(a)
    BY <1>0, <1>4 DEF RegisterSync, TypeOK, Workers
  <2>2. CASE w \in Attempts
    <3> DEFINE q == Registered(w, <<"sync", w>>)
               r == [q EXCEPT !.job = key[w]]
    <3>1. <<"sync", w>> \in Processes
      BY <2>2 DEF Processes
    <3>2. HasRecord(w) => q \in JobRecords /\ q.state \in Live /\ key[w] \in Keys
      BY <1>0, <2>2, <3>1, RegisteredType, RecordType
    <3>3. Update(w, r)
      BY <1>4, <2>2 DEF RegisterSync
    <3> HIDE DEF q
    <3>4. HasRecord(w) => r \in JobRecords /\ r.state \in Live
      BY <3>2 DEF JobRecords
    <3>5. Holds(w)
      BY <1>4 DEF RegisterSync
    <3>6. SlotKept
      BY <1>0, <2>1, <2>2, <3>3, <3>4, <3>5, UpdateKeepsLive DEF SlotKept
    <3>7. QED
      BY <1>0, <3>6, SlotFrame
  <2>3. CASE w \notin Attempts
    BY <1>0, <1>4, <2>1, <2>3, SlotFrame DEF RegisterSync, SlotKept, IsLive
  <2>4. QED
    BY <2>2, <2>3
<1>5. ASSUME NEW w \in Workers,
             \/ w \in Tools /\ ToolReturns(w)
             \/ w \in Attempts /\ (InitializationFailed(w) \/ Initialized(w)
                                     \/ SpawnFails(w) \/ Spawn(w))
      PROVE  SlotInv'
  <2>1. SlotKept
    BY <1>0, <1>5
    DEF ToolReturns, InitializationFailed, Initialized, SpawnFails, Spawn, SlotKept, IsLive,
        TypeOK, Workers
  <2>2. QED
    BY <1>0, <2>1, SlotFrame
<1>6. ASSUME NEW a \in Attempts, Register(a) \/ Announce(a) PROVE SlotInv'
  <2>1. Holds(a) /\ IsLive(key[a]) /\ HasRecord(a)
    BY <1>0, <1>6 DEF Register, Announce, SlotInv, HasRecord, IsLive
  <2>2. PICK r : Update(a, r) /\ r \in JobRecords /\ r.state \in Live
    <3>1. CASE Register(a)
      BY <1>0, <2>1, <3>1, RegisteredType DEF Register, Processes
    <3>2. CASE Announce(a)
      BY <1>0, <2>1, <3>2, RecordType DEF Announce, IsLive, Record, JobRecords, TypeOK
    <3>3. QED
      BY <1>6, <3>1, <3>2
  <2>3. UNCHANGED key /\ \A b \in Attempts : Holds(b)' <=> Holds(b)
    BY <1>0, <1>6 DEF Register, Announce, TypeOK, Workers
  <2>4. SlotKept
    BY <1>0, <2>1, <2>2, <2>3, UpdateKeepsLive DEF SlotKept
  <2>5. QED
    BY <1>0, <2>4, SlotFrame
<1>7. ASSUME NEW a \in Attempts,
             \/ Note(a) \/ TimeOut(a) \/ Exit(a) \/ JobEnds(a) \/ Snapshot(a) \/ Report(a)
      PROVE  SlotInv'
  <2>1. SlotKept
    BY <1>0, <1>7
    DEF Note, TimeOut, Exit, JobEnds, Snapshot, Report, SlotKept, IsLive, TypeOK, Workers
  <2>2. QED
    BY <1>0, <2>1, SlotFrame
<1>8. ASSUME NEW a \in Attempts, SetupEnds(a) \/ Finish(a) PROVE SlotInv'
  <2>1. PICK s : Update(a, [Record(a) EXCEPT !.state = FinishedAs(a, s)])
    BY <1>8 DEF SetupEnds, Finish
  <2>2. /\ Holds(a) /\ UNCHANGED key /\ ~Holds(a)'
        /\ \A b \in Attempts \ {a} : Holds(b)' <=> Holds(b)
    BY <1>0, <1>8 DEF SetupEnds, Finish, TypeOK, Workers
  <2>3. QED
    BY <1>0, <2>1, <2>2, FinishFreesSlot
<1>9. ASSUME NEW id \in Cancellable, Cancel(id) PROVE SlotInv'
  <2>1. PICK k \in Keys : active[k] # None /\ IsLive(k) /\ RequestCancel(k)
    BY <1>9 DEF Cancel
  <2> DEFINE r == [active[k] EXCEPT !.cancel = TRUE, !.state = "Cancelling"]
  <2>2. active[k] \in JobRecords
    BY <1>0, <2>1 DEF TypeOK
  <2>3. r \in JobRecords
    BY <2>2, CancelType, Zenon
  <2>4. r.state \in Live /\ active' = [active EXCEPT ![k] = r]
    BY <2>1, <2>2 DEF RequestCancel, JobRecords, Live
  <2> HIDE DEF r
  <2>5. SlotKept
    BY <1>0, <1>9, <2>1, <2>3, <2>4 DEF Cancel, SlotKept, IsLive, TypeOK
  <2>6. QED
    BY <1>0, <2>5, SlotFrame
<1>10. ASSUME Stops PROVE SlotInv'
  <2>1. \A a \in Attempts : ~Holds(a)'
    BY <1>0, <1>10 DEF Stops, Workers
  <2>2. \A k \in Keys : ~IsLive(k)'
    BY <1>10 DEF Stops, IsLive
  <2>3. QED
    BY <2>1, <2>2 DEF SlotInv, SlotNeverLeaks
<1>11. ASSUME Starts \/ (\E j \in Jobs : OrphanEnds(j)) \/ UNCHANGED vars PROVE SlotInv'
  <2>1. SlotKept
    BY <1>11 DEF Starts, OrphanEnds, vars, SlotKept, IsLive
  <2>2. QED
    BY <1>0, <2>1, SlotFrame
<1>12. QED
  BY <1>1, <1>2, <1>3, <1>4, <1>5, <1>6, <1>7, <1>8, <1>9, <1>10, <1>11
  DEF Next, Ensures, Streams, Workers

\* A process of an operation is there only between its start and its end.
ProcessInv ==
  /\ \A a \in Attempts :
       child[a] \in {"alive", "dying", "overdue"} => pc[a] \in {"spawned", "stream", "note"}
  /\ \A a \in Attempts :
       sync[a] \in {"alive", "dying"} => pc[a] \in {"register", "syncing"}

LEMMA ProcessInductive == TypeOK /\ ProcessInv /\ [Next]_vars => ProcessInv'
<1> SUFFICES ASSUME TypeOK, ProcessInv, [Next]_vars PROVE ProcessInv'
  OBVIOUS
<1> USE DEF TypeOK, ProcessInv, Goto, At, manager, threads, pipeline, Workers, Signal
<1>1. ASSUME NEW a \in Attempts, Reserve(a) PROVE ProcessInv'
  <2>1. pc' \in {[pc EXCEPT ![a] = "ensure"], [pc EXCEPT ![a] = "spawn"]}
    BY <1>1 DEF Reserve
  <2>2. QED
    BY <1>1, <2>1 DEF Reserve
<1>2. ASSUME NEW w \in Workers,
             \/ Enter(w) \/ StartSync(w) \/ RegisterSync(w) \/ SyncEnds(w)
             \/ w \in Tools /\ ToolReturns(w)
      PROVE  ProcessInv'
  BY <1>2 DEF Enter, StartSync, RegisterSync, SyncEnds, ToolReturns
<1>3. ASSUME NEW w \in Workers, Publish(w) PROVE ProcessInv'
  BY <1>3 DEF Publish, Published, Returned
<1>4. ASSUME NEW a \in Attempts,
             \/ InitializationFailed(a) \/ Initialized(a) \/ SpawnFails(a) \/ Spawn(a)
             \/ Register(a) \/ Announce(a) \/ Note(a)
      PROVE  ProcessInv'
  BY <1>4 DEF InitializationFailed, Initialized, SpawnFails, Spawn, Register, Announce, Note
<1>5. ASSUME NEW a \in Attempts,
             \/ TimeOut(a) \/ Exit(a) \/ JobEnds(a) \/ SetupEnds(a) \/ Finish(a)
             \/ Snapshot(a) \/ Report(a)
      PROVE  ProcessInv'
  BY <1>5 DEF TimeOut, Exit, JobEnds, SetupEnds, Finish, Snapshot, Report
<1>6. ASSUME NEW id \in Cancellable, Cancel(id) PROVE ProcessInv'
  <2>1. PICK process : Terminate(process)
    BY <1>6 DEF Cancel
  <2>2. UNCHANGED pc
    BY <1>6 DEF Cancel
  <2>3. QED
    BY <2>1, <2>2 DEF Terminate
<1>7. ASSUME Stops PROVE ProcessInv'
  BY <1>7 DEF Stops
<1>8. ASSUME \/ \E k \in Keys : ReserveRefused(k)
             \/ Starts \/ (\E j \in Jobs : OrphanEnds(j)) \/ UNCHANGED vars
      PROVE  ProcessInv'
  BY <1>8 DEF ReserveRefused, Starts, OrphanEnds, vars
<1>9. QED
  BY <1>1, <1>2, <1>3, <1>4, <1>5, <1>6, <1>7, <1>8 DEF Next, Ensures, Streams

LEMMA SlotInitially == Init => SlotInv /\ ProcessInv
<1> SUFFICES ASSUME Init PROVE SlotInv /\ ProcessInv
  OBVIOUS
<1>1. \A a \in Attempts : ~Holds(a)
  BY DEF Init, Holds, Before, Workers
<1>2. \A k \in Keys : ~IsLive(k)
  BY DEF Init, IsLive
<1>3. QED
  BY <1>1, <1>2 DEF SlotInv, SlotNeverLeaks, ProcessInv, Init, Workers

(***************************************************************************)
(* At most one heavy operation is under way, for any number of commands,   *)
(* cancellations and restarts of the application.                          *)
(***************************************************************************)
THEOREM AlwaysOneHeavyOperation == Spec => []OneHeavyOperation
<1>1. SlotInv /\ ProcessInv => OneHeavyOperation
  BY DEF SlotInv, ProcessInv, OneHeavyOperation, Holds, Before, After
<1>2. QED
  BY <1>1, TypeInitially, TypeInductive, SlotInitially, SlotInductive, ProcessInductive, PTL
  DEF Spec, TypeInv

(***************************************************************************)
(* The slot is never leaked: every record that refuses the operations that *)
(* come after it belongs to a worker that is going to finish it.           *)
(***************************************************************************)
THEOREM SlotIsNeverLeaked == Spec => []SlotNeverLeaks
<1>1. SlotInv => SlotNeverLeaks
  BY DEF SlotInv
<1>2. QED
  BY <1>1, TypeInitially, TypeInductive, SlotInitially, SlotInductive, PTL DEF Spec

-----------------------------------------------------------------------------
(* The initialization coordinator, and the leases.                         *)

LEMMA OneInitializationInductive ==
  TypeOK /\ OneInitialization /\ [Next]_vars => OneInitialization'
<1> SUFFICES ASSUME TypeOK, OneInitialization, [Next]_vars PROVE OneInitialization'
  OBVIOUS
<1> USE DEF TypeOK, OneInitialization, Initializing, Goto, At, coordinator, threads, Workers
<1>1. ASSUME NEW w \in Workers, Enter(w) PROVE OneInitialization'
  BY <1>1 DEF Enter
<1>2. ASSUME NEW w \in Workers, StartSync(w) \/ RegisterSync(w) \/ SyncEnds(w)
      PROVE  OneInitialization'
  BY <1>2 DEF StartSync, RegisterSync, SyncEnds
<1>3. ASSUME NEW w \in Workers, Publish(w) PROVE OneInitialization'
  <2>1. \A v \in Workers \ {w} : pc[v] \notin Initializing
    BY <1>3 DEF Publish
  <2>2. \A v \in Workers : pc'[v] \notin Initializing
    BY <1>3, <2>1 DEF Publish, Returned
  <2>3. QED
    BY <2>2
<1>4. ASSUME NEW a \in Attempts, Reserve(a) PROVE OneInitialization'
  <2>1. pc' \in {[pc EXCEPT ![a] = "ensure"], [pc EXCEPT ![a] = "spawn"]}
    BY <1>4 DEF Reserve
  <2>2. QED
    BY <1>4, <2>1 DEF Reserve
<1>5. ASSUME NEW a \in Attempts,
             \/ InitializationFailed(a) \/ Initialized(a) \/ SpawnFails(a) \/ Spawn(a)
             \/ Register(a) \/ Announce(a) \/ Note(a)
      PROVE  OneInitialization'
  BY <1>5 DEF InitializationFailed, Initialized, SpawnFails, Spawn, Register, Announce, Note
<1>6. ASSUME NEW a \in Attempts,
             \/ TimeOut(a) \/ Exit(a) \/ JobEnds(a) \/ SetupEnds(a) \/ Finish(a)
             \/ Snapshot(a) \/ Report(a)
      PROVE  OneInitialization'
  BY <1>6 DEF TimeOut, Exit, JobEnds, SetupEnds, Finish, Snapshot, Report
<1>7. ASSUME \/ \E t \in Tools : ToolReturns(t)
             \/ \E id \in Cancellable : Cancel(id)
             \/ \E k \in Keys : ReserveRefused(k)
      PROVE  OneInitialization'
  BY <1>7 DEF ToolReturns, Cancel, ReserveRefused
<1>8. ASSUME Stops \/ Starts \/ (\E j \in Jobs : OrphanEnds(j)) \/ UNCHANGED vars
      PROVE  OneInitialization'
  BY <1>8 DEF Stops, Starts, OrphanEnds, vars
<1>9. QED
  BY <1>1, <1>2, <1>3, <1>4, <1>5, <1>6, <1>7, <1>8 DEF Next, Ensures, Streams

(***************************************************************************)
(* Initialization has one owner, for any number of callers.                *)
(***************************************************************************)
THEOREM AlwaysOneInitialization == Spec => []OneInitialization
<1>1. Init => OneInitialization
  BY DEF Init, OneInitialization, Initializing
<1>2. QED
  BY <1>1, TypeInitially, TypeInductive, OneInitializationInductive, PTL DEF Spec, TypeInv

LEMMA LeasesInductive == TypeOK /\ LeasesReconciled /\ [Next]_vars => LeasesReconciled'
<1> SUFFICES ASSUME TypeOK, LeasesReconciled, [Next]_vars PROVE LeasesReconciled'
  OBVIOUS
<1> USE DEF LeasesReconciled, manager, home
<1>1. ASSUME NEW a \in Attempts, Note(a) \/ Snapshot(a) PROVE LeasesReconciled'
  <2>1. UNCHANGED <<up, session>>
    BY <1>1 DEF Note, Snapshot
  <2> DEFINE written == [state |-> Record(a).state, session |-> session]
  <2>2. \A j \in Jobs : lease'[j] = lease[j] \/ lease'[j] = written
    BY <1>1 DEF Note, Snapshot, WriteLease, TypeOK
  <2>3. QED
    BY <2>1, <2>2
<1>2. ASSUME Starts PROVE LeasesReconciled'
  <2>1. ASSUME NEW j \in Jobs PROVE lease'[j] # None => lease'[j].state \notin Live
    BY <1>2 DEF Starts, TypeOK, Leases, Live
  <2>2. QED
    BY <2>1
<1>3. ASSUME Stops PROVE LeasesReconciled'
  BY <1>3 DEF Stops
<1>4. ASSUME NEW w \in Workers, Ensures(w) PROVE LeasesReconciled'
  BY <1>4 DEF Ensures, Enter, StartSync, RegisterSync, SyncEnds, Publish, Published
<1>5. ASSUME NEW a \in Attempts,
             \/ Reserve(a) \/ InitializationFailed(a) \/ Initialized(a) \/ SpawnFails(a)
             \/ Spawn(a) \/ Register(a) \/ Announce(a) \/ TimeOut(a)
      PROVE  LeasesReconciled'
  BY <1>5
  DEF Reserve, InitializationFailed, Initialized, SpawnFails, Spawn, Register, Announce, TimeOut
<1>6. ASSUME NEW a \in Attempts,
             Exit(a) \/ JobEnds(a) \/ SetupEnds(a) \/ Finish(a) \/ Report(a)
      PROVE  LeasesReconciled'
  BY <1>6 DEF Exit, JobEnds, SetupEnds, Finish, Report
<1>7. ASSUME \/ \E t \in Tools : ToolReturns(t)
             \/ \E id \in Cancellable : Cancel(id)
             \/ \E k \in Keys : ReserveRefused(k)
             \/ \E j \in Jobs : OrphanEnds(j)
             \/ UNCHANGED vars
      PROVE  LeasesReconciled'
  BY <1>7 DEF ToolReturns, Cancel, ReserveRefused, OrphanEnds, vars
<1>8. QED
  BY <1>1, <1>2, <1>3, <1>4, <1>5, <1>6, <1>7 DEF Next, Streams

(***************************************************************************)
(* A lease that says a job is under way is of this session, however often  *)
(* the application stopped with jobs under way.                            *)
(***************************************************************************)
THEOREM LeasesAreReconciled == Spec => []LeasesReconciled
<1>1. Init => LeasesReconciled
  BY DEF Init, LeasesReconciled
<1>2. QED
  BY <1>1, TypeInitially, TypeInductive, LeasesInductive, PTL DEF Spec, TypeInv

-----------------------------------------------------------------------------
(* A cancelled setup does not report that it succeeded.                    *)

\* The thread of the attempt has given its verdict.
Over == {"report", "done"}

(***************************************************************************)
(* A setup's key is its own; an attempt that was not made has no key and   *)
(* no verdict; and a setup that succeeded is over, and left a terminal     *)
(* record that nobody had cancelled.                                       *)
(***************************************************************************)
VerdictInv ==
  \A a \in Attempts :
    /\ IsSetup(a) => key[a][2] = a
    /\ pc[a] = "new" => key[a] = None /\ code[a] = "none"
    /\ IsSetup(a) /\ code[a] = "OK" =>
         pc[a] \in Over /\ ~CancelRequested(a) /\ ~IsLive(key[a])

\* What a step does to the attempts that are over, and their verdicts.
VerdictKept ==
  /\ UNCHANGED key
  /\ \A a \in Attempts :
       /\ pc'[a] = "new" => pc[a] = "new" /\ code'[a] = code[a]
       /\ pc[a] \in Over => pc'[a] \in Over
       /\ IsSetup(a) /\ code'[a] = "OK" => code[a] = "OK"
       /\ IsSetup(a) /\ pc[a] \in Over /\ ~IsLive(key[a]) =>
            active'[key[a]] \in {active[key[a]], None}

LEMMA VerdictFrame == TypeOK /\ VerdictInv /\ VerdictKept => VerdictInv'
<1> SUFFICES ASSUME TypeOK, VerdictInv, VerdictKept, NEW a \in Attempts
             PROVE  (/\ IsSetup(a) => key[a][2] = a
                     /\ pc[a] = "new" => key[a] = None /\ code[a] = "none"
                     /\ IsSetup(a) /\ code[a] = "OK" =>
                          pc[a] \in Over /\ ~CancelRequested(a) /\ ~IsLive(key[a]))'
  BY DEF VerdictInv
<1>1. key'[a] = key[a] /\ (IsSetup(a)' <=> IsSetup(a))
  BY DEF VerdictKept, IsSetup, Kind
<1>2. ASSUME IsSetup(a), code'[a] = "OK"
      PROVE  pc'[a] \in Over /\ ~CancelRequested(a)' /\ ~IsLive(key[a])'
  <2>1. code[a] = "OK" /\ pc[a] \in Over /\ ~CancelRequested(a) /\ ~IsLive(key[a])
    BY <1>2 DEF VerdictKept, VerdictInv
  <2>2. active'[key[a]] \in {active[key[a]], None} /\ pc'[a] \in Over
    BY <1>2, <2>1 DEF VerdictKept
  <2>3. QED
    BY <1>1, <2>1, <2>2 DEF CancelRequested, HasRecord, Record, IsLive
<1>3. QED
  BY <1>1, <1>2 DEF VerdictKept, VerdictInv

\* What a worker writes is in its own record, and no other setup has its key.
LEMMA UpdateElsewhere ==
  ASSUME TypeOK, VerdictInv, NEW b \in Attempts, NEW r, Update(b, r),
         NEW a \in Attempts, IsSetup(a), a # b
  PROVE  active'[key[a]] = active[key[a]]
<1>1. key[a] \in Keys /\ key[a][2] = a
  BY DEF IsSetup, VerdictInv, TypeOK
<1>2. HasRecord(b) => key[b] # key[a]
  BY <1>1 DEF HasRecord, IsSetup, Kind, VerdictInv
<1>3. QED
  BY <1>1, <1>2 DEF Update, TypeOK

LEMMA VerdictInductive == TypeInv /\ VerdictInv /\ [Next]_vars => VerdictInv'
<1> SUFFICES ASSUME TypeInv, VerdictInv, [Next]_vars PROVE VerdictInv'
  OBVIOUS
<1>0. TypeOK
  BY DEF TypeInv
<1> USE DEF Goto, At, Over, manager, threads, Workers
<1>1. ASSUME NEW b \in Attempts, Reserve(b) PROVE VerdictInv'
  <2>1. PICK k \in KeysOf(b) : /\ active' = [active EXCEPT ![k] = NewRecord(k)]
                               /\ key' = [key EXCEPT ![b] = k]
                               /\ pc' \in {[pc EXCEPT ![b] = "ensure"], [pc EXCEPT ![b] = "spawn"]}
    BY <1>1 DEF Reserve
  <2>2. k \in Keys /\ (k[1] = "setup" => k[2] = b)
    BY <1>0, <2>1, KeysOfType DEF KeysOf, TypeOK
  <2>3. UNCHANGED code /\ code[b] = "none"
    BY <1>1 DEF Reserve, VerdictInv
  <2>4. ASSUME NEW a \in Attempts \ {b}, IsSetup(a)
        PROVE  active'[key[a]] = active[key[a]]
    <3>1. key[a] \in Keys /\ key[a] # k
      BY <1>0, <2>2, <2>4 DEF VerdictInv, IsSetup, Kind, TypeOK
    <3>2. QED
      BY <1>0, <2>1, <3>1 DEF TypeOK
  <2>5. ASSUME NEW a \in Attempts \ {b}
        PROVE  /\ key'[a] = key[a] /\ code'[a] = code[a] /\ pc'[a] = pc[a]
               /\ IsSetup(a)' <=> IsSetup(a)
               /\ IsSetup(a) => /\ CancelRequested(a)' <=> CancelRequested(a)
                                /\ IsLive(key[a])' <=> IsLive(key[a])
    BY <1>0, <2>1, <2>3, <2>4
    DEF TypeOK, IsSetup, Kind, CancelRequested, HasRecord, Record, IsLive
  <2>6. key'[b] = k /\ pc'[b] # "new" /\ code'[b] = "none"
    BY <1>0, <2>1, <2>3 DEF TypeOK
  <2>7. QED
    BY <2>2, <2>5, <2>6 DEF VerdictInv, IsSetup, Kind
<1>2. ASSUME NEW k \in Keys, ReserveRefused(k) PROVE VerdictInv'
  <2>1. VerdictKept
    BY <1>0, <1>2 DEF ReserveRefused, VerdictKept, TypeOK
  <2>2. QED
    BY <1>0, <2>1, VerdictFrame
<1>3. ASSUME NEW w \in Workers,
             \/ Enter(w) \/ StartSync(w) \/ SyncEnds(w) \/ Publish(w)
             \/ w \in Tools /\ ToolReturns(w)
      PROVE  VerdictInv'
  <2>1. VerdictKept
    BY <1>0, <1>3
    DEF Enter, StartSync, SyncEnds, Publish, Published, Returned, ToolReturns, VerdictKept,
        TypeOK
  <2>2. QED
    BY <1>0, <2>1, VerdictFrame
<1>4. ASSUME NEW w \in Workers, RegisterSync(w) PROVE VerdictInv'
  <2>1. /\ UNCHANGED <<key, code>> /\ pc[w] = "register"
        /\ pc' = [pc EXCEPT ![w] = "syncing"]
    BY <1>4 DEF RegisterSync
  <2>2. ASSUME NEW a \in Attempts, IsSetup(a), a # w
        PROVE  active'[key[a]] = active[key[a]]
    BY <1>0, <1>4, <2>2, UpdateElsewhere DEF RegisterSync
  <2>3. VerdictKept
    BY <1>0, <2>1, <2>2 DEF VerdictKept, TypeOK
  <2>4. QED
    BY <1>0, <2>3, VerdictFrame
<1>5. ASSUME NEW b \in Attempts,
             \/ InitializationFailed(b) \/ Initialized(b) \/ SpawnFails(b) \/ Spawn(b)
             \/ Note(b) \/ TimeOut(b) \/ Exit(b) \/ JobEnds(b) \/ Snapshot(b) \/ Report(b)
      PROVE  VerdictInv'
  <2>1. UNCHANGED <<active, key>>
    BY <1>5
    DEF InitializationFailed, Initialized, SpawnFails, Spawn, Note, TimeOut, Exit, JobEnds,
        Snapshot, Report
  <2>2. \A a \in Attempts : /\ pc'[a] = "new" => pc[a] = "new" /\ code'[a] = code[a]
                            /\ pc[a] \in Over => pc'[a] \in Over
                            /\ IsSetup(a) /\ code'[a] = "OK" => code[a] = "OK"
    BY <1>0, <1>5
    DEF InitializationFailed, Initialized, SpawnFails, Spawn, Note, TimeOut, Exit, JobEnds,
        Snapshot, Report, Conclude, TypeOK
  <2>3. VerdictKept
    BY <2>1, <2>2 DEF VerdictKept
  <2>4. QED
    BY <1>0, <2>3, VerdictFrame
<1>6. ASSUME NEW b \in Attempts, Register(b) \/ Announce(b) \/ Finish(b)
      PROVE  VerdictInv'
  <2>1. /\ UNCHANGED <<key, code>> /\ pc[b] \notin Over
        /\ pc' \in {[pc EXCEPT ![b] = l] : l \in {"stream", "note", "snapshot"}}
    BY <1>6 DEF Register, Announce, Finish
  <2>2. PICK r : Update(b, r)
    BY <1>6 DEF Register, Announce, Finish
  <2>3. ASSUME NEW a \in Attempts, IsSetup(a), a # b
        PROVE  active'[key[a]] = active[key[a]]
    BY <1>0, <2>2, <2>3, UpdateElsewhere
  <2>4. VerdictKept
    BY <1>0, <2>1, <2>3 DEF VerdictKept, TypeOK
  <2>5. QED
    BY <1>0, <2>4, VerdictFrame
<1>7. ASSUME NEW b \in Attempts, SetupEnds(b) PROVE VerdictInv'
  <2> DEFINE r == [Record(b) EXCEPT !.state = FinishedAs(b, payload[b] = "ok")]
  <2>1. /\ UNCHANGED key /\ IsSetup(b) /\ pc[b] = "stream"
        /\ pc' = [pc EXCEPT ![b] = "report"] /\ code' = [code EXCEPT ![b] = Outcome(b)]
        /\ Update(b, r)
    BY <1>7 DEF SetupEnds, Conclude
  <2>2. ASSUME NEW a \in Attempts \ {b}, IsSetup(a)
        PROVE  active'[key[a]] = active[key[a]]
    BY <1>0, <2>1, <2>2, UpdateElsewhere
  <2>3. ASSUME NEW a \in Attempts \ {b}
        PROVE  /\ key'[a] = key[a] /\ code'[a] = code[a] /\ pc'[a] = pc[a]
               /\ IsSetup(a)' <=> IsSetup(a)
               /\ IsSetup(a) => /\ CancelRequested(a)' <=> CancelRequested(a)
                                /\ IsLive(key[a])' <=> IsLive(key[a])
    BY <1>0, <2>1, <2>2
    DEF TypeOK, IsSetup, Kind, CancelRequested, HasRecord, Record, IsLive
  <2>4. ASSUME code'[b] = "OK" PROVE ~CancelRequested(b)' /\ ~IsLive(key[b])'
    <3>1. ~CancelRequested(b) /\ key[b] \in Keys
      BY <1>0, <2>1, <2>4 DEF Outcome, TypeOK, IsSetup
    <3>2. CASE HasRecord(b)
      <4>1. r.cancel = FALSE /\ r.state \notin Live
        BY <1>0, <3>1, <3>2, RecordType, FinishedType DEF CancelRequested, JobRecords
      <4>2. active' = [active EXCEPT ![key[b]] = r]
        BY <2>1, <3>2 DEF Update
      <4> HIDE DEF r
      <4>3. active'[key[b]] = r
        BY <1>0, <3>1, <4>2 DEF TypeOK
      <4>4. QED
        BY <2>1, <4>1, <4>3 DEF CancelRequested, HasRecord, Record, IsLive
    <3>3. CASE ~HasRecord(b)
      BY <2>1, <3>3 DEF Update, CancelRequested, HasRecord, IsLive, IsSetup
    <3>4. QED
      BY <3>2, <3>3
  <2>5. pc'[b] = "report" /\ key'[b] = key[b] /\ (IsSetup(b)' <=> IsSetup(b))
    BY <1>0, <2>1 DEF TypeOK, IsSetup, Kind
  <2>6. QED
    BY <2>3, <2>4, <2>5 DEF VerdictInv
<1>8. ASSUME NEW id \in Cancellable, Cancel(id) PROVE VerdictInv'
  <2>1. PICK k \in Keys : IsLive(k) /\ RequestCancel(k)
    BY <1>8 DEF Cancel
  <2>2. UNCHANGED threads
    BY <1>8 DEF Cancel
  <2>3. \A l \in Keys : ~IsLive(l) => active'[l] = active[l]
    BY <1>0, <2>1 DEF RequestCancel, TypeOK
  <2>4. VerdictKept
    BY <1>0, <2>2, <2>3 DEF VerdictKept, TypeOK, IsSetup
  <2>5. QED
    BY <1>0, <2>4, VerdictFrame
<1>9. ASSUME Stops PROVE VerdictInv'
  <2>1. VerdictKept
    BY <1>0, <1>9 DEF Stops, VerdictKept, TypeOK, IsSetup
  <2>2. QED
    BY <1>0, <2>1, VerdictFrame
<1>10. ASSUME Starts \/ (\E j \in Jobs : OrphanEnds(j)) \/ UNCHANGED vars
       PROVE  VerdictInv'
  <2>1. VerdictKept
    BY <1>10 DEF Starts, OrphanEnds, vars, VerdictKept
  <2>2. QED
    BY <1>0, <2>1, VerdictFrame
<1>11. QED
  BY <1>1, <1>2, <1>3, <1>4, <1>5, <1>6, <1>7, <1>8, <1>9, <1>10
  DEF Next, Ensures, Streams

(***************************************************************************)
(* A setup that was cancelled, at whatever moment, never reports that it   *)
(* succeeded, for any number of setups and callers of the initialization.  *)
(***************************************************************************)
THEOREM CancelledSetupIsNeverOk == Spec => []CancelledSetupNeverOk
<1>1. Init => VerdictInv
  BY DEF Init, VerdictInv, IsSetup
<1>2. VerdictInv => CancelledSetupNeverOk
  BY DEF VerdictInv, CancelledSetupNeverOk
<1>3. QED
  BY <1>1, <1>2, TypeInitially, TypeInductive, VerdictInductive, PTL DEF Spec
=============================================================================
