--------------------------- MODULE Downloads_proofs ---------------------------
(***************************************************************************)
(* Proofs about Downloads, for any number of assets, any length, any       *)
(* number of faults, when at most one sidecar downloads at a time (the     *)
(* process manager admits one heavy operation).  With two of them TLC finds *)
(* DestinationVerified broken: they share the .part file.                  *)
(***************************************************************************)
EXTENDS Downloads, FiniteSetTheorems, TLAPS

USE SizesAssumption, InodesAssumption, ArchivesAssumption

OneSidecar == \A p, q \in Procs : p = q

Contents == [len : 0 .. Limit, ok : BOOLEAN, rot : BOOLEAN]
Transfer == {"resume", "request", "restart", "stream", "size", "hash", "place"}

-----------------------------------------------------------------------------
(* What the helpers return.                                                *)

LEMMA MissingType ==
  ASSUME NEW S \in SUBSET Assets
  PROVE  Missing(S) \in 0 .. NAssets
<1> DEFINE T == {a \in S : ~AssetReady(a)}
<1>1. IsFiniteSet(Assets) /\ Cardinality(Assets) = NAssets
  BY FS_Interval DEF Assets
<1>2. Cardinality(T) \in Nat /\ Cardinality(T) <= NAssets
  <2>1. T \subseteq Assets
    OBVIOUS
  <2>2. IsFiniteSet(T) /\ Cardinality(T) <= Cardinality(Assets)
    BY <1>1, <2>1, FS_Subset
  <2>3. QED
    BY <1>1, <2>2, FS_CardinalityType
<1>3. QED
  BY <1>2 DEF Missing

LEMMA PositionsOfAssets ==
  ASSUME NEW k \in Assets
  PROVE  k \in 1 .. NAssets + 1 /\ k + 1 \in 1 .. NAssets + 1
<1>1. NAssets \in Nat /\ k \in 1 .. NAssets
  BY DEF SizesAssumption, Assets
<1>2. QED
  BY <1>1

LEMMA EmptyType == Empty \in Contents /\ Empty.len = 0 /\ Empty.rot = FALSE
BY DEF Empty, Contents, Limit

LEMMA PutType ==
  ASSUME NEW f \in Contents, f.len < Limit, NEW good \in BOOLEAN
  PROVE  /\ Put(f, f.len, f.len, good) \in Contents
         /\ Put(f, f.len, f.len, good).len = f.len + 1
         /\ Put(f, f.len, f.len, good).rot = f.rot
<1>1. f.len \in 0 .. Limit /\ f.ok \in BOOLEAN /\ f.rot \in BOOLEAN
  BY DEF Contents
<1> DEFINE ok == f.ok /\ good /\ f.len = f.len /\ f.len <= f.len
<1>3. ~(f.len < f.len) /\ f.len + 1 \in 0 .. Limit
  BY <1>1 DEF Limit
<1>4. Put(f, f.len, f.len, good) = [len |-> f.len + 1, ok |-> ok, rot |-> f.rot]
  BY <1>3 DEF Put
<1>5. ok \in BOOLEAN
  OBVIOUS
<1> HIDE DEF ok
<1>6. QED
  BY <1>1, <1>3, <1>4, <1>5 DEF Contents

\* A free inode is one that no name and no open file refers to.
LEMMA FreshIsFree ==
  ASSUME ~(Inodes \subseteq InUse)
  PROVE  Fresh \in Inodes /\ Fresh \notin InUse
BY DEF Fresh

-----------------------------------------------------------------------------
(* The inductive invariant.                                                *)

\* A process works on an asset, and unpacks an archive.
Located ==
  \A p \in Procs :
    /\ pc[p] \in Downloading \cup {"grant", "hash all"} => at[p] \in Assets
    /\ pc[p] \in {"staged", "retired"} => at[p] \in Archives

\* A transfer writes to the end of the file under the .part name.
Streaming ==
  \A p \in Procs :
    IF pc[p] = "stream"
    THEN fd[p] # None /\ fd[p] = part[at[p]] /\ data[fd[p]].len = seen[p]
    ELSE fd[p] = None

\* A request asks for what the .part file lacks.
Resuming ==
  \A p \in Procs :
    pc[p] \in {"request", "restart"} => offset[p] = PartLength(at[p])

\* No file is under two names.
Apart ==
  \A a, b \in Assets :
    /\ part[a] # None => part[a] # dest[b] /\ (a # b => part[a] # part[b])
    /\ dest[a] # None /\ a # b => dest[a] # dest[b]

Undamaged == \A a \in Assets : part[a] # None => ~data[part[a]].rot

\* What is moved into place was hashed, and what is fetched is not there.
Checked == \A p \in Procs : pc[p] = "place" => Whole(part[at[p]])
Lacking == \A p \in Procs : pc[p] \in Transfer => ~AssetReady(at[p])

NoHalfSwap == \A a \in Swapped : tree[a] # "part"
HashedAll ==
  \A p \in Procs : verdict[p] = "hashed" => \A a \in Assets : dest[a] # None

IInv ==
  /\ TypeOK /\ Located /\ Streaming /\ Resuming /\ Apart /\ Undamaged
  /\ Checked /\ Lacking /\ DestinationVerified /\ NoHalfSwap /\ HashedAll

LEMMA Initially == Init => IInv
<1> SUFFICES ASSUME Init PROVE IInv
  OBVIOUS
<1> USE DEF Init
<1>1. TypeOK
  <2>1. Empty \in Contents
    BY EmptyType
  <2>2. data \in [Inodes -> Contents]
    BY <2>1
  <2>3. consent \in [ids : SUBSET Assets, budget : -1 .. NAssets]
    BY DEF NoConsent
  <2>4. rows \in [Assets -> Statuses] /\ mem \in [Procs -> [Assets -> Statuses]]
    BY DEF Statuses
  <2>5. held \in [Procs -> [ids : SUBSET Assets, budget : -1 .. NAssets]]
    BY <2>3
  <2>6. pc \in [Procs -> Positions] /\ cmd \in [Procs -> Commands]
    BY DEF Positions, Commands
  <2>7. at \in [Procs -> 1 .. NAssets + 1]
    OBVIOUS
  <2>8. seen \in [Procs -> 0 .. Limit] /\ offset \in [Procs -> 0 .. Limit]
    BY DEF Limit
  <2>9. QED
    BY <2>2, <2>3, <2>4, <2>5, <2>6, <2>7, <2>8 DEF TypeOK, Contents
<1>2. QED
  BY <1>1 DEF IInv, Located, Streaming, Resuming, Apart, Undamaged, Checked, Lacking,
              DestinationVerified, NoHalfSwap, HashedAll, Downloading, Transfer

-----------------------------------------------------------------------------
(* Which actions leave what alone.                                         *)

\* A download that fails.
Fails(p) ==
  Cancelled(p) \/ NoAnswer(p) \/ Interrupted(p)

\* Steps that touch no file and open or close none.
Quiet(p) ==
  \/ \E c \in Commands, a \in Assets : Launch(p, c, a)
  \/ Grant(p) \/ Reuse(p) \/ Prepare(p) \/ Cancel(p) \/ Busy(p)
  \/ RowInstalled(p) \/ SkipArchive(p) \/ Retire(p) \/ MoveSome(p)
  \/ Publish(p) \/ HashAll(p)

LEMMA QuietFiles ==
  ASSUME NEW p \in Procs, Quiet(p)
  PROVE  UNCHANGED <<part, dest, data, fd>>
BY DEF Quiet, Launch, Grant, Reuse, Prepare, Cancel, Busy, RowInstalled, SkipArchive,
       Retire, MoveSome, Publish, HashAll, files, stream

\* Steps that end the command and leave the files.
Ends(p) ==
  \/ Refuse(p) \/ Cancelled(p) \/ NoAnswer(p) \/ Interrupted(p)
  \/ PublishFails(p) \/ Done(p) \/ Kill(p)

LEMMA EndsFiles ==
  ASSUME NEW p \in Procs, Ends(p)
  PROVE  UNCHANGED <<part, dest, data>> /\ Exit(p)
BY DEF Ends, Refuse, Cancelled, NoAnswer, Interrupted, Failed, PublishFails, Done, Kill,
       files

LEMMA NextCases ==
  ASSUME [Next]_vars
  PROVE  \/ \E p \in Procs : \/ Quiet(p) \/ Ends(p) \/ Resume(p) \/ RestartClean(p)
                             \/ Answered(p) \/ (\E good \in BOOLEAN : Chunk(p, good))
                             \/ BodyEnds(p) \/ CheckSize(p) \/ CheckHash(p) \/ Place(p)
                             \/ Unpack(p)
         \/ \E a \in Assets : Rot(a)
         \/ UNCHANGED vars
BY DEF Next, Step, Download, Unpacking, Quiet, Ends

TypeFiles ==
  /\ part \in [Assets -> Inodes \cup {None}]
  /\ dest \in [Assets -> Inodes \cup {None}]
  /\ data \in [Inodes -> Contents]
  /\ fd \in [Procs -> Inodes \cup {None}]

LEMMA FilesTyped ==
  ASSUME IInv, OneSidecar, [Next]_vars
  PROVE  TypeFiles'
<1> USE DEF TypeFiles
<1>0. TypeFiles /\ seen \in [Procs -> 0 .. Limit] /\ offset \in [Procs -> 0 .. Limit]
  BY DEF IInv, TypeOK, Contents
<1>1. ASSUME NEW p \in Procs, Quiet(p) PROVE TypeFiles'
  BY <1>0, <1>1, QuietFiles
<1>2. ASSUME NEW p \in Procs, Ends(p) PROVE TypeFiles'
  BY <1>0, <1>2, EndsFiles DEF Exit
<1>3. ASSUME NEW p \in Procs, Resume(p) \/ RestartClean(p) PROVE TypeFiles'
  BY <1>0, <1>3 DEF Resume, RestartClean
<1>4. ASSUME NEW p \in Procs, BodyEnds(p) \/ Unpack(p) PROVE TypeFiles'
  BY <1>0, <1>4 DEF BodyEnds, Unpack, Exit, files
<1>5. ASSUME NEW p \in Procs, CheckSize(p) \/ CheckHash(p) PROVE TypeFiles'
  BY <1>0, <1>5 DEF CheckSize, CheckHash, Failed, Exit, files, stream
<1>6. ASSUME NEW p \in Procs, Place(p) PROVE TypeFiles'
  <2>1. pc[p] = "place" /\ at[p] \in Assets
    BY <1>6 DEF Place, IInv, Located, Downloading
  <2>2. QED
    BY <1>0, <1>6, <2>1 DEF Place, Failed, Exit, stream
<1>7. ASSUME NEW p \in Procs, Answered(p) PROVE TypeFiles'
  <2> DEFINE i == IF part[at[p]] = None THEN Fresh ELSE part[at[p]]
  <2>1. at[p] \in Assets
    BY <1>7 DEF Answered, IInv, Located, Downloading
  <2>2. i \in Inodes
    BY <1>0, <1>7, <2>1, FreshIsFree DEF Answered, OpenPart
  <2>3. QED
    BY <1>0, <1>7, <2>1, <2>2, EmptyType DEF Answered, OpenPart
<1>8. ASSUME NEW p \in Procs, NEW good \in BOOLEAN, Chunk(p, good) PROVE TypeFiles'
  <2>1. fd[p] \in Inodes /\ data[fd[p]].len = seen[p] /\ seen[p] < Limit
    BY <1>0, <1>8 DEF Chunk, IInv, Streaming
  <2>2. data' = [data EXCEPT ![fd[p]] = Put(data[fd[p]], seen[p], seen[p], good)]
    BY <1>8, <2>1 DEF Chunk
  <2>3. Put(data[fd[p]], seen[p], seen[p], good) \in Contents
    BY <1>0, <2>1, PutType
  <2>4. data' \in [Inodes -> Contents]
    BY <1>0, <2>1, <2>2, <2>3
  <2>5. UNCHANGED <<part, dest, fd>>
    BY <1>8 DEF Chunk
  <2>6. QED
    BY <1>0, <2>4, <2>5
<1>9. ASSUME NEW a \in Assets, Rot(a) PROVE TypeFiles'
  <2>1. [data[dest[a]] EXCEPT !.rot = TRUE] \in Contents
    <3>1. dest[a] \in Inodes
      BY <1>0, <1>9 DEF Rot
    <3>2. data[dest[a]] \in Contents
      BY <1>0, <3>1
    <3> QED BY <3>2 DEF Contents
  <2>2. data' = [data EXCEPT ![dest[a]] = [data[dest[a]] EXCEPT !.rot = TRUE]]
    BY <1>9 DEF Rot
  <2>3. data' \in [Inodes -> Contents]
    BY <1>0, <2>1, <2>2
  <2>4. UNCHANGED <<part, dest, fd>>
    BY <1>9 DEF Rot, stream
  <2>5. QED
    BY <1>0, <2>3, <2>4
<1>10. CASE UNCHANGED vars
  BY <1>0, <1>10 DEF vars, files, stream
<1>11. QED
  BY <1>1, <1>2, <1>3, <1>4, <1>5, <1>6, <1>7, <1>8, <1>9, <1>10, NextCases

-----------------------------------------------------------------------------
Consents == [ids : SUBSET Assets, budget : -1 .. NAssets]

TypeSaved ==
  /\ rows \in [Assets -> Statuses] /\ consent \in Consents
  /\ mem \in [Procs -> [Assets -> Statuses]] /\ held \in [Procs -> Consents]

\* Steps that write a row.
Saves(p) ==
  \/ Reuse(p) \/ Prepare(p) \/ RowInstalled(p) \/ Cancelled(p) \/ NoAnswer(p)
  \/ Interrupted(p) \/ CheckSize(p) \/ CheckHash(p) \/ Place(p)

LEMMA SavesRow ==
  ASSUME NEW p \in Procs, Saves(p)
  PROVE  /\ \/ \E status \in Statuses : SaveRow(p, status)
            \/ UNCHANGED <<mem, rows>>
         /\ UNCHANGED <<consent, held>>
BY DEF Saves, Reuse, Prepare, RowInstalled, Cancelled, NoAnswer, Interrupted, CheckSize,
       CheckHash, Place, Failed, Statuses, saved, memory

LEMMA SavedCases ==
  ASSUME [Next]_vars
  PROVE  \/ \E p \in Procs : \/ \E c \in Commands, a \in Assets : Launch(p, c, a)
                             \/ Grant(p) \/ Saves(p)
         \/ UNCHANGED <<saved, memory>>
<1>1. ASSUME NEW p \in Procs,
             \/ Refuse(p) \/ Cancel(p) \/ Resume(p) \/ Busy(p) \/ RestartClean(p)
             \/ Answered(p) \/ BodyEnds(p) \/ \E good \in BOOLEAN : Chunk(p, good)
      PROVE  UNCHANGED <<saved, memory>>
  BY <1>1 DEF Refuse, Cancel, Resume, Busy, RestartClean, Answered, Chunk, BodyEnds
<1>2. ASSUME NEW p \in Procs,
             \/ SkipArchive(p) \/ Unpack(p) \/ Retire(p) \/ MoveSome(p) \/ Publish(p)
             \/ PublishFails(p) \/ HashAll(p) \/ Done(p) \/ Kill(p)
      PROVE  UNCHANGED <<saved, memory>>
  BY <1>2 DEF SkipArchive, Unpack, Retire, MoveSome, Publish, PublishFails, HashAll,
              Done, Kill
<1>3. ASSUME NEW a \in Assets, Rot(a) PROVE UNCHANGED <<saved, memory>>
  BY <1>3 DEF Rot
<1>4. CASE UNCHANGED vars
  BY <1>4 DEF vars
<1>5. QED
  BY <1>1, <1>2, <1>3, <1>4 DEF Next, Step, Download, Unpacking, Saves

LEMMA SavedTyped ==
  ASSUME IInv, [Next]_vars
  PROVE  TypeSaved'
<1> USE DEF TypeSaved
<1>0. TypeSaved
  BY DEF IInv, TypeOK, Consents
<1>1. ASSUME NEW p \in Procs, NEW c \in Commands, NEW a \in Assets, Launch(p, c, a)
      PROVE  TypeSaved'
  BY <1>0, <1>1 DEF Launch, saved
<1>2. ASSUME NEW p \in Procs, Grant(p) PROVE TypeSaved'
  <2>1. Missing(Assets) \in -1 .. NAssets
    BY MissingType
  <2>2. consent' \in Consents
    BY <1>2, <2>1 DEF Grant, Consents
  <2>3. QED
    BY <1>0, <1>2, <2>2 DEF Grant
<1>3. ASSUME NEW p \in Procs, Saves(p) PROVE TypeSaved'
  <2>1. CASE UNCHANGED <<mem, rows>>
    BY <1>0, <1>3, <2>1, SavesRow
  <2>2. CASE UNCHANGED <<consent, held>> /\ \E status \in Statuses : SaveRow(p, status)
    <3>1. PICK status \in Statuses : mem' = [mem EXCEPT ![p][at[p]] = status]
                                     /\ rows' = mem'[p]
      BY <2>2 DEF SaveRow
    <3>2. [mem[p] EXCEPT ![at[p]] = status] \in [Assets -> Statuses]
      BY <1>0
    <3>3. mem' \in [Procs -> [Assets -> Statuses]] /\ rows' \in [Assets -> Statuses]
      BY <1>0, <3>1, <3>2
    <3>4. QED
      BY <1>0, <2>2, <3>3
  <2>3. QED
    BY <1>3, <2>1, <2>2, SavesRow
<1>4. CASE UNCHANGED <<saved, memory>>
  BY <1>0, <1>4 DEF saved, memory
<1>5. QED
  BY <1>1, <1>2, <1>3, <1>4, SavedCases

-----------------------------------------------------------------------------
TypeTrees ==
  /\ tree \in [Archives -> {"none", "part", "whole"}]
  /\ backup \in [Archives -> BOOLEAN]

LEMMA TreeCases ==
  ASSUME [Next]_vars
  PROVE  \/ \E p \in Procs : Retire(p) \/ MoveSome(p) \/ Publish(p) \/ PublishFails(p)
         \/ UNCHANGED trees
<1>1. ASSUME NEW p \in Procs, Saves(p) PROVE UNCHANGED trees
  BY <1>1 DEF Saves, Reuse, Prepare, RowInstalled, Cancelled, NoAnswer, Interrupted,
              CheckSize, CheckHash, Place, Failed
<1>2. ASSUME NEW p \in Procs,
             \/ Refuse(p) \/ Cancel(p) \/ Resume(p) \/ Busy(p) \/ RestartClean(p)
             \/ Answered(p) \/ BodyEnds(p) \/ \E good \in BOOLEAN : Chunk(p, good)
      PROVE  UNCHANGED trees
  BY <1>2 DEF Refuse, Cancel, Resume, Busy, RestartClean, Answered, Chunk, BodyEnds
<1>3. ASSUME NEW p \in Procs,
             \/ SkipArchive(p) \/ Unpack(p) \/ HashAll(p) \/ Done(p) \/ Kill(p) \/ Grant(p)
             \/ \E c \in Commands, a \in Assets : Launch(p, c, a)
      PROVE  UNCHANGED trees
  BY <1>3 DEF SkipArchive, Unpack, HashAll, Done, Kill, Grant, Launch
<1>4. ASSUME NEW a \in Assets, Rot(a) PROVE UNCHANGED trees
  BY <1>4 DEF Rot
<1>5. CASE UNCHANGED vars
  BY <1>5 DEF vars
<1>6. QED
  BY <1>1, <1>2, <1>3, <1>4, <1>5 DEF Next, Step, Download, Unpacking, Saves

LEMMA TreesTyped ==
  ASSUME IInv, [Next]_vars
  PROVE  TypeTrees' /\ NoHalfSwap'
<1> USE DEF TypeTrees, NoHalfSwap
<1>0. TypeTrees /\ NoHalfSwap
  BY DEF IInv, TypeOK
<1>1. ASSUME NEW p \in Procs, Retire(p) PROVE TypeTrees' /\ NoHalfSwap'
  <2>1. (backup[at[p]] \/ (at[p] \in Swapped /\ tree[at[p]] # "none")) \in BOOLEAN
    OBVIOUS
  <2>2. backup' \in [Archives -> BOOLEAN]
    BY <1>0, <1>1, <2>1 DEF Retire
  <2>3. QED
    BY <1>0, <1>1, <2>2 DEF Retire
<1>2. ASSUME NEW p \in Procs, MoveSome(p) PROVE TypeTrees' /\ NoHalfSwap'
  BY <1>0, <1>2 DEF MoveSome
<1>3. ASSUME NEW p \in Procs, Publish(p) PROVE TypeTrees' /\ NoHalfSwap'
  BY <1>0, <1>3 DEF Publish
<1>4. ASSUME NEW p \in Procs, PublishFails(p) PROVE TypeTrees' /\ NoHalfSwap'
  BY <1>0, <1>4 DEF PublishFails
<1>5. CASE UNCHANGED trees
  BY <1>0, <1>5 DEF trees
<1>6. QED
  BY <1>1, <1>2, <1>3, <1>4, <1>5, TreeCases

-----------------------------------------------------------------------------
TypeControl ==
  /\ pc \in [Procs -> Positions] /\ cmd \in [Procs -> Commands]
  /\ at \in [Procs -> 1 .. NAssets + 1]

\* Where a process may go next.
LEMMA GoTyped ==
  ASSUME IInv, NEW p \in Procs, NEW to \in Positions, NEW k \in 1 .. NAssets + 1,
         pc' = [pc EXCEPT ![p] = to], at' = [at EXCEPT ![p] = k],
         cmd' \in [Procs -> Commands],
         to \in Downloading \cup {"grant", "hash all"} => k \in Assets,
         to \in {"staged", "retired"} => k \in Archives
  PROVE  TypeControl' /\ Located'
BY DEF IInv, TypeOK, TypeControl, Located

LEMMA StayTyped ==
  ASSUME IInv, NEW p \in Procs, NEW to \in Positions,
         pc' = [pc EXCEPT ![p] = to], UNCHANGED <<at, cmd>>,
         to \in Downloading \cup {"grant", "hash all"} => at[p] \in Assets,
         to \in {"staged", "retired"} => at[p] \in Archives
  PROVE  TypeControl' /\ Located'
BY DEF IInv, TypeOK, TypeControl, Located

LEMMA ControlCases ==
  ASSUME [Next]_vars
  PROVE  \/ UNCHANGED <<pc, cmd, at>>
         \/ \E p \in Procs :
              \/ \E c \in Commands, a \in Assets : Launch(p, c, a)
              \/ Reuse(p) \/ RowInstalled(p) \/ Grant(p) \/ Prepare(p) \/ Resume(p)
              \/ Ends(p) \/ RestartClean(p) \/ Answered(p) \/ BodyEnds(p)
              \/ CheckSize(p) \/ CheckHash(p) \/ Place(p) \/ SkipArchive(p)
              \/ Unpack(p) \/ Retire(p) \/ HashAll(p) \/ Publish(p)
<1>1. ASSUME NEW p \in Procs,
             Cancel(p) \/ Busy(p) \/ MoveSome(p) \/ \E good \in BOOLEAN : Chunk(p, good)
      PROVE  UNCHANGED <<pc, cmd, at>>
  BY <1>1 DEF Cancel, Busy, Chunk, MoveSome
<1>2. ASSUME NEW a \in Assets, Rot(a) PROVE UNCHANGED <<pc, cmd, at>>
  BY <1>2 DEF Rot
<1>3. CASE UNCHANGED vars
  BY <1>3 DEF vars
<1>4. QED
  BY <1>1, <1>2, <1>3 DEF Next, Step, Download, Unpacking, Ends

LEMMA ControlTyped ==
  ASSUME IInv, [Next]_vars
  PROVE  TypeControl' /\ Located'
<1> USE DEF Go
<1> DEFINE Goal == TypeControl' /\ Located'
<1>0. TypeControl /\ Located
  BY DEF IInv, TypeOK, TypeControl
<1>p. /\ Downloading \subseteq Positions
      /\ {"off", "grant", "hash all", "unpack", "staged", "retired"} \subseteq Positions
  BY DEF Positions
<1>1. ASSUME NEW p \in Procs, NEW c \in Commands, NEW a \in Assets, Launch(p, c, a)
      PROVE  Goal
  <2> DEFINE to == CASE c = "install" -> "grant"
                     [] c = "ensure" -> "prepare"
                     [] c = "check" -> "hash all"
  <2>1. to \in {"grant", "prepare", "hash all"}
    BY DEF Commands
  <2>2. to \in Positions /\ to \notin {"staged", "retired"}
    BY <2>1, <1>p DEF Downloading
  <2>3. a \in 1 .. NAssets + 1 /\ cmd' \in [Procs -> Commands]
    BY <1>0, <1>1, PositionsOfAssets DEF Launch, TypeControl
  <2>4. pc' = [pc EXCEPT ![p] = to] /\ at' = [at EXCEPT ![p] = a]
    BY <1>1 DEF Launch
  <2> HIDE DEF to
  <2>5. QED
    BY <2>2, <2>3, <2>4, GoTyped
<1>2. ASSUME NEW p \in Procs, Reuse(p) \/ RowInstalled(p) PROVE Goal
  <2>1. at[p] \in Assets /\ cmd' = cmd /\ Advance(p)
    BY <1>0, <1>2 DEF Reuse, RowInstalled, Located, Downloading
  <2>2. CASE cmd[p] = "install" /\ at[p] < NAssets
    <3>1. at[p] + 1 \in Assets /\ at[p] + 1 \in 1 .. NAssets + 1
      BY <2>1, <2>2 DEF Assets
    <3>2. "prepare" \in Positions /\ cmd' \in [Procs -> Commands]
      BY <1>0, <1>p, <2>1 DEF Downloading, TypeControl
    <3>3. pc' = [pc EXCEPT ![p] = "prepare"] /\ at' = [at EXCEPT ![p] = at[p] + 1]
      BY <2>1, <2>2 DEF Advance
    <3>4. QED
      BY <3>1, <3>2, <3>3, GoTyped
  <2>3. CASE cmd[p] = "install" /\ ~(at[p] < NAssets)
    <3>1. 1 \in 1 .. NAssets + 1 /\ cmd' \in [Procs -> Commands]
      BY <1>0, <2>1 DEF TypeControl
    <3>2. pc' = [pc EXCEPT ![p] = "unpack"] /\ at' = [at EXCEPT ![p] = 1]
      BY <2>1, <2>3 DEF Advance
    <3>3. "unpack" \notin Downloading
      BY DEF Downloading
    <3>4. QED
      BY <1>p, <3>1, <3>2, <3>3, GoTyped
  <2>4. CASE cmd[p] # "install"
    <3>1. pc' = [pc EXCEPT ![p] = "off"] /\ at' = at /\ "off" \notin Downloading
      BY <2>1, <2>4 DEF Advance, Downloading
    <3>2. QED
      BY <1>p, <2>1, <3>1, StayTyped
  <2>5. QED
    BY <2>2, <2>3, <2>4
<1>3. ASSUME NEW p \in Procs, Grant(p) \/ Prepare(p) \/ Resume(p) PROVE Goal
  <2>1. at[p] \in Assets
    BY <1>0, <1>3 DEF Grant, Prepare, Resume, Located, Downloading
  <2>2. \E to \in Downloading : pc' = [pc EXCEPT ![p] = to] /\ UNCHANGED <<at, cmd>>
    BY <1>3 DEF Grant, Prepare, Resume, Downloading
  <2>3. QED
    BY <1>p, <2>1, <2>2, StayTyped DEF Downloading
<1>4. ASSUME NEW p \in Procs, Ends(p) PROVE Goal
  <2>1. pc' = [pc EXCEPT ![p] = "off"] /\ UNCHANGED <<at, cmd>>
    BY <1>4 DEF Ends, Refuse, Cancelled, NoAnswer, Interrupted, Failed, PublishFails,
                Done, Kill, Exit
  <2>2. QED
    BY <1>p, <2>1, StayTyped DEF Downloading
<1>5. ASSUME NEW p \in Procs,
             \/ RestartClean(p) \/ Answered(p) \/ BodyEnds(p) \/ CheckSize(p)
             \/ CheckHash(p) \/ Place(p)
      PROVE  Goal
  <2>1. at[p] \in Assets
    BY <1>0, <1>5 DEF RestartClean, Answered, BodyEnds, CheckSize, CheckHash, Place,
                      Located, Downloading
  <2>2. \E to \in Downloading \cup {"off"} :
          pc' = [pc EXCEPT ![p] = to] /\ UNCHANGED <<at, cmd>>
    BY <1>5 DEF RestartClean, Answered, BodyEnds, CheckSize, CheckHash, Place, Failed,
                Exit, Downloading
  <2>3. QED
    BY <1>p, <2>1, <2>2, StayTyped DEF Downloading
<1>6. ASSUME NEW p \in Procs, SkipArchive(p) PROVE Goal
  <2>1. at[p] \in Assets /\ pc[p] = "unpack" /\ pc' = pc /\ cmd' = cmd
    BY <1>6 DEF SkipArchive
  <2>2. at[p] + 1 \in 1 .. NAssets + 1
    BY <2>1, PositionsOfAssets
  <2>3. at' = [at EXCEPT ![p] = at[p] + 1]
    BY <1>6 DEF SkipArchive, NextArchive
  <2>4. QED
    BY <1>0, <2>1, <2>2, <2>3 DEF TypeControl, Located, Downloading
<1>7. ASSUME NEW p \in Procs, Unpack(p) PROVE Goal
  <2>1. at[p] \in Archives /\ pc[p] = "unpack" /\ cmd' = cmd
    BY <1>7 DEF Unpack
  <2>2. CASE Go(p, "staged") /\ UNCHANGED at
    BY <1>p, <2>1, <2>2, StayTyped DEF Downloading
  <2>3. CASE NextArchive(p) /\ UNCHANGED pc
    <3>1. at[p] + 1 \in 1 .. NAssets + 1
      BY <2>1, PositionsOfAssets DEF ArchivesAssumption
    <3>2. QED
      BY <1>0, <2>1, <2>3, <3>1 DEF TypeControl, Located, Downloading, NextArchive
  <2>4. CASE Exit(p) /\ UNCHANGED at
    BY <1>p, <2>1, <2>4, StayTyped DEF Downloading, Exit
  <2>5. QED
    BY <1>7, <2>2, <2>3, <2>4 DEF Unpack
<1>8. ASSUME NEW p \in Procs, Retire(p) \/ HashAll(p) PROVE Goal
  <2>1. CASE Retire(p)
    <3>1. at[p] \in Archives
      BY <1>0, <2>1 DEF Retire, Located
    <3>2. pc' = [pc EXCEPT ![p] = "retired"] /\ UNCHANGED <<at, cmd>>
      BY <2>1 DEF Retire
    <3>3. QED
      BY <1>p, <3>1, <3>2, StayTyped DEF Downloading
  <2>2. CASE HashAll(p)
    <3>1. pc' = [pc EXCEPT ![p] = "unpack"] /\ UNCHANGED <<at, cmd>>
      BY <2>2 DEF HashAll
    <3>2. QED
      BY <1>p, <3>1, StayTyped DEF Downloading
  <2>3. QED
    BY <1>8, <2>1, <2>2
<1>9. ASSUME NEW p \in Procs, Publish(p) PROVE Goal
  <2>1. at[p] \in Archives /\ cmd' = cmd
    BY <1>0, <1>9 DEF Publish, Located
  <2>2. at[p] + 1 \in 1 .. NAssets + 1
    BY <2>1, PositionsOfAssets DEF ArchivesAssumption
  <2>3. pc' = [pc EXCEPT ![p] = "unpack"] /\ at' = [at EXCEPT ![p] = at[p] + 1]
    BY <1>9 DEF Publish, NextArchive
  <2>4. cmd' \in [Procs -> Commands]
    BY <1>0, <2>1 DEF TypeControl
  <2>5. QED
    BY <1>p, <2>2, <2>3, <2>4, GoTyped DEF Downloading
<1>10. CASE UNCHANGED <<pc, cmd, at>>
  BY <1>0, <1>10 DEF TypeControl, Located
<1>11. QED
  BY <1>1, <1>2, <1>3, <1>4, <1>5, <1>6, <1>7, <1>8, <1>9, <1>10, ControlCases

-----------------------------------------------------------------------------
TypeNumbers ==
  /\ seen \in [Procs -> 0 .. Limit] /\ offset \in [Procs -> 0 .. Limit]
  /\ tries \in [Procs -> 0 .. MaxTries] /\ faults \in 0 .. MaxFaults

LEMMA PartLengthType ==
  ASSUME TypeFiles, NEW a \in Assets
  PROVE  PartLength(a) \in 0 .. Limit
<1>1. CASE part[a] = None
  BY <1>1 DEF PartLength, Limit, SizesAssumption
<1>2. CASE part[a] # None
  <2>1. data[part[a]] \in Contents
    BY <1>2 DEF TypeFiles
  <2>2. QED
    BY <1>2, <2>1 DEF PartLength, Contents
<1>3. QED
  BY <1>1, <1>2

\* A step counts at most one fault.
LEMMA FaultTyped ==
  ASSUME IInv, [Next]_vars
  PROVE  faults' \in 0 .. MaxFaults
<1>0. faults \in 0 .. MaxFaults /\ MaxFaults \in Nat
  BY DEF IInv, TypeOK, SizesAssumption
<1>1. Fault \/ UNCHANGED faults
  <2>1. ASSUME NEW p \in Procs, Download(p) PROVE Fault \/ UNCHANGED faults
    BY <2>1 DEF Download, Reuse, Refuse, Prepare, Resume, Cancelled, Busy, NoAnswer,
                RestartClean, Answered, Chunk, Interrupted, BodyEnds, CheckSize,
                CheckHash, Place, RowInstalled
  <2>2. ASSUME NEW p \in Procs, Unpacking(p) PROVE Fault \/ UNCHANGED faults
    BY <2>2 DEF Unpacking, SkipArchive, Unpack, Retire, MoveSome, Publish,
                PublishFails, HashAll, Done
  <2>3. ASSUME NEW p \in Procs,
               \/ Grant(p) \/ Cancel(p) \/ Kill(p)
               \/ \E c \in Commands, a \in Assets : Launch(p, c, a)
        PROVE  Fault \/ UNCHANGED faults
    BY <2>3 DEF Grant, Cancel, Kill, Launch
  <2>4. ASSUME NEW a \in Assets, Rot(a) PROVE Fault \/ UNCHANGED faults
    BY <2>4 DEF Rot
  <2> QED BY <2>1, <2>2, <2>3, <2>4 DEF Next, Step, vars
<1>2. QED
  BY <1>0, <1>1 DEF Fault

LEMMA NumberCases ==
  ASSUME [Next]_vars
  PROVE  \/ UNCHANGED <<seen, offset, tries>>
         \/ \E p \in Procs : \/ Resume(p) \/ Busy(p) \/ RestartClean(p) \/ Answered(p)
                             \/ \E good \in BOOLEAN : Chunk(p, good)
<1>1. ASSUME NEW p \in Procs,
             \/ Reuse(p) \/ Refuse(p) \/ Prepare(p) \/ Cancelled(p) \/ NoAnswer(p)
             \/ Interrupted(p) \/ BodyEnds(p) \/ CheckSize(p) \/ CheckHash(p)
             \/ Place(p) \/ RowInstalled(p)
      PROVE  UNCHANGED <<seen, offset, tries>>
  BY <1>1 DEF Reuse, Refuse, Prepare, Cancelled, NoAnswer, Interrupted, BodyEnds,
              CheckSize, CheckHash, Place, RowInstalled, Failed, stream
<1>2. ASSUME NEW p \in Procs, Unpacking(p)
      PROVE  UNCHANGED <<seen, offset, tries>>
  BY <1>2 DEF Unpacking, SkipArchive, Unpack, Retire, MoveSome, Publish, PublishFails,
              HashAll, Done, stream
<1>3. ASSUME NEW p \in Procs,
             \/ Grant(p) \/ Cancel(p) \/ Kill(p)
             \/ \E c \in Commands, a \in Assets : Launch(p, c, a)
      PROVE  UNCHANGED <<seen, offset, tries>>
  BY <1>3 DEF Grant, Cancel, Kill, Launch, stream
<1>4. ASSUME NEW a \in Assets, Rot(a) PROVE UNCHANGED <<seen, offset, tries>>
  BY <1>4 DEF Rot, stream
<1>5. CASE UNCHANGED vars
  BY <1>5 DEF vars, stream
<1>6. QED
  BY <1>1, <1>2, <1>3, <1>4, <1>5 DEF Next, Step, Download

LEMMA NumbersTyped ==
  ASSUME IInv, [Next]_vars
  PROVE  TypeNumbers'
<1> USE DEF TypeNumbers
<1>0. /\ TypeNumbers /\ TypeFiles /\ Limit \in Nat /\ MaxTries \in Nat
  BY DEF IInv, TypeOK, TypeFiles, Contents, SizesAssumption, Limit
<1>f. faults' \in 0 .. MaxFaults
  BY FaultTyped
<1>1. ASSUME NEW p \in Procs, Resume(p) PROVE TypeNumbers'
  <2>1. at[p] \in Assets
    BY <1>1 DEF Resume, IInv, Located, Downloading
  <2>2. PartLength(at[p]) \in 0 .. Limit
    BY <1>0, <2>1, PartLengthType
  <2>3. QED
    BY <1>0, <1>f, <1>1, <2>2 DEF Resume
<1>2. ASSUME NEW p \in Procs, Busy(p) PROVE TypeNumbers'
  BY <1>0, <1>f, <1>2 DEF Busy
<1>3. ASSUME NEW p \in Procs, RestartClean(p) PROVE TypeNumbers'
  BY <1>0, <1>f, <1>3 DEF RestartClean
<1>4. ASSUME NEW p \in Procs, Answered(p) PROVE TypeNumbers'
  BY <1>0, <1>f, <1>4 DEF Answered
<1>5. ASSUME NEW p \in Procs, NEW good \in BOOLEAN, Chunk(p, good) PROVE TypeNumbers'
  <2>1. seen[p] + 1 \in 0 .. Limit
    BY <1>0, <1>5 DEF Chunk
  <2>2. QED
    BY <1>0, <1>f, <1>5, <2>1 DEF Chunk
<1>6. CASE UNCHANGED <<seen, offset, tries>>
  BY <1>0, <1>f, <1>6
<1>7. QED
  BY <1>1, <1>2, <1>3, <1>4, <1>5, <1>6, NumberCases

TypeAnswers ==
  /\ stop \in [Procs -> BOOLEAN]
  /\ verdict \in [Procs -> {"unasked", "hashed", "no", "yes"}]

LEMMA AnswerCases ==
  ASSUME [Next]_vars
  PROVE  \/ UNCHANGED <<stop, verdict>>
         \/ \E p \in Procs : \/ \E c \in Commands, a \in Assets : Launch(p, c, a)
                             \/ Cancel(p) \/ HashAll(p) \/ Done(p)
<1>1. ASSUME NEW p \in Procs, Download(p)
      PROVE  UNCHANGED <<stop, verdict>>
  BY <1>1 DEF Download, Reuse, Refuse, Prepare, Resume, Cancelled, Busy, NoAnswer,
              RestartClean, Answered, Chunk, Interrupted, BodyEnds, CheckSize,
              CheckHash, Place, RowInstalled, Failed
<1>2. ASSUME NEW p \in Procs,
             \/ SkipArchive(p) \/ Unpack(p) \/ Retire(p) \/ MoveSome(p) \/ Publish(p)
             \/ PublishFails(p) \/ Kill(p) \/ Grant(p)
      PROVE  UNCHANGED <<stop, verdict>>
  BY <1>2 DEF SkipArchive, Unpack, Retire, MoveSome, Publish, PublishFails, Kill, Grant
<1>3. ASSUME NEW a \in Assets, Rot(a) PROVE UNCHANGED <<stop, verdict>>
  BY <1>3 DEF Rot
<1>4. CASE UNCHANGED vars
  BY <1>4 DEF vars
<1>5. QED
  BY <1>1, <1>2, <1>3, <1>4 DEF Next, Step, Unpacking

LEMMA AnswersTyped ==
  ASSUME IInv, [Next]_vars
  PROVE  TypeAnswers'
<1> USE DEF TypeAnswers
<1>0. TypeAnswers
  BY DEF IInv, TypeOK
<1>1. ASSUME NEW p \in Procs, NEW c \in Commands, NEW a \in Assets, Launch(p, c, a)
      PROVE  TypeAnswers'
  BY <1>0, <1>1 DEF Launch
<1>2. ASSUME NEW p \in Procs, Cancel(p) PROVE TypeAnswers'
  BY <1>0, <1>2 DEF Cancel
<1>3. ASSUME NEW p \in Procs, HashAll(p) PROVE TypeAnswers'
  BY <1>0, <1>3 DEF HashAll
<1>4. ASSUME NEW p \in Procs, Done(p) PROVE TypeAnswers'
  BY <1>0, <1>4 DEF Done
<1>5. QED
  BY <1>0, <1>1, <1>2, <1>3, <1>4, AnswerCases

LEMMA Typed ==
  ASSUME IInv, OneSidecar, [Next]_vars
  PROVE  TypeOK'
<1>1. TypeFiles' /\ TypeSaved' /\ TypeTrees' /\ TypeControl' /\ TypeNumbers'
      /\ TypeAnswers'
  BY FilesTyped, SavedTyped, TreesTyped, ControlTyped, NumbersTyped, AnswersTyped
<1>2. QED
  BY <1>1 DEF TypeOK, TypeFiles, TypeSaved, TypeTrees, TypeControl, TypeNumbers,
              TypeAnswers, Contents, Consents

-----------------------------------------------------------------------------
(* The files.  One sidecar is alone with them.                             *)

Files ==
  /\ Streaming /\ Resuming /\ Apart /\ Undamaged /\ Checked /\ Lacking
  /\ DestinationVerified

\* The parts of Files that speak of the process, for the only process p.
Alone(p) ==
  /\ IF pc[p] = "stream"
     THEN fd[p] # None /\ fd[p] = part[at[p]] /\ data[fd[p]].len = seen[p]
     ELSE fd[p] = None
  /\ pc[p] \in {"request", "restart"} => offset[p] = PartLength(at[p])
  /\ pc[p] = "place" => Whole(part[at[p]])
  /\ pc[p] \in Transfer => ~AssetReady(at[p])

LEMMA AloneFiles ==
  ASSUME OneSidecar, NEW p \in Procs
  PROVE  Files <=> Alone(p) /\ Apart /\ Undamaged /\ DestinationVerified
BY DEF OneSidecar, Files, Alone, Streaming, Resuming, Checked, Lacking

LEMMA AloneNext ==
  ASSUME OneSidecar, NEW p \in Procs,
         Alone(p)', Apart', Undamaged', DestinationVerified'
  PROVE  Files'
BY DEF OneSidecar, Files, Alone, Streaming, Resuming, Checked, Lacking

\* Nothing about the files changes with the position alone.
LEMMA SameFiles ==
  ASSUME Apart, Undamaged, DestinationVerified, UNCHANGED <<part, dest, data>>
  PROVE  /\ Apart' /\ Undamaged' /\ DestinationVerified'
         /\ \A a \in Assets : /\ PartLength(a)' = PartLength(a)
                            /\ AssetReady(a)' = AssetReady(a)
                            /\ Whole(part[a])' = Whole(part[a])
<1>1. Apart' /\ Undamaged'
  BY DEF Apart, Undamaged
<1>2. DestinationVerified'
  BY DEF DestinationVerified, Whole
<1>3. QED
  BY <1>1, <1>2 DEF PartLength, AssetReady, Whole

\* Where a quiet step leads.
LEMMA QuietSteps ==
  ASSUME NEW p \in Procs, Quiet(p), pc \in [Procs -> Positions]
  PROVE  \/ pc'[p] \notin Transfer /\ pc[p] # "stream"
         \/ pc'[p] = "resume" /\ pc[p] = "prepare" /\ UNCHANGED at /\ ~AssetReady(at[p])
         \/ UNCHANGED <<pc, at, seen, offset>>
<1> USE DEF Go, Transfer
<1>1. ASSUME NEW c \in Commands, NEW a \in Assets, Launch(p, c, a)
      PROVE  pc'[p] \in {"grant", "prepare", "hash all"} /\ pc[p] = "off"
  BY <1>1 DEF Launch, Commands
<1>2. CASE Grant(p) \/ HashAll(p) \/ Retire(p) \/ Publish(p)
  BY <1>2 DEF Grant, HashAll, Retire, Publish
<1>3. CASE Prepare(p)
  BY <1>3 DEF Prepare
<1>4. CASE Reuse(p) \/ RowInstalled(p)
  BY <1>4 DEF Reuse, RowInstalled, Advance
<1>5. CASE Cancel(p) \/ Busy(p)
  BY <1>5 DEF Cancel, Busy, stream
<1>6. CASE SkipArchive(p) \/ MoveSome(p)
  BY <1>6 DEF SkipArchive, MoveSome
<1>7. QED
  BY <1>1, <1>2, <1>3, <1>4, <1>5, <1>6 DEF Quiet

LEMMA FilesKept ==
  ASSUME IInv, OneSidecar, [Next]_vars
  PROVE  Files'
<1>0. /\ TypeFiles /\ pc \in [Procs -> Positions] /\ Located /\ Files
      /\ seen \in [Procs -> 0 .. Limit] /\ offset \in [Procs -> 0 .. Limit]
      /\ tries \in [Procs -> 0 .. MaxTries]
  BY DEF IInv, TypeOK, TypeFiles, Contents, Files
<1>a. Apart /\ Undamaged /\ DestinationVerified
  BY <1>0 DEF Files
<1>n. None \notin Inodes
  BY DEF InodesAssumption
<1>1. ASSUME NEW p \in Procs, Quiet(p) PROVE Files'
  <2>1. UNCHANGED <<part, dest, data, fd>>
    BY <1>1, QuietFiles
  <2>2. Apart' /\ Undamaged' /\ DestinationVerified'
    BY <1>a, <2>1, SameFiles
  <2>3. Alone(p)
    BY <1>0, AloneFiles
  <2>4. ASSUME pc'[p] \notin Transfer, pc[p] # "stream"
        PROVE  Alone(p)'
    BY <2>1, <2>3, <2>4 DEF Alone, Transfer
  <2>5. ASSUME pc'[p] = "resume", pc[p] = "prepare", UNCHANGED at, ~AssetReady(at[p])
        PROVE  Alone(p)'
    <3>1. ~AssetReady(at[p])'
      BY <2>1, <2>5 DEF AssetReady, Whole
    <3>2. QED
      BY <2>1, <2>3, <2>5, <3>1 DEF Alone
  <2>6. ASSUME UNCHANGED <<pc, at, seen, offset>>
        PROVE  Alone(p)'
    BY <2>1, <2>3, <2>6 DEF Alone, AssetReady, Whole, PartLength
  <2>7. Alone(p)'
    BY <1>0, <1>1, <2>4, <2>5, <2>6, QuietSteps
  <2>8. QED
    BY <2>2, <2>7, AloneNext
<1>2. ASSUME NEW p \in Procs, Ends(p) PROVE Files'
  <2>1. UNCHANGED <<part, dest, data>> /\ Exit(p)
    BY <1>2, EndsFiles
  <2>2. Apart' /\ Undamaged' /\ DestinationVerified'
    BY <1>a, <2>1, SameFiles
  <2>3. Alone(p)'
    BY <1>0, <2>1 DEF Alone, Exit, Go, Transfer, TypeFiles
  <2>4. QED
    BY <2>2, <2>3, AloneNext
<1>3. ASSUME NEW p \in Procs, Resume(p) \/ RestartClean(p) PROVE Files'
  <2>1. /\ at[p] \in Assets /\ UNCHANGED <<dest, data, at, fd>>
        /\ pc[p] \in {"resume", "request"} /\ pc'[p] \in {"request", "restart"}
    BY <1>0, <1>3 DEF Resume, RestartClean, Go, Located, Downloading
  <2>2. \/ part' = [part EXCEPT ![at[p]] = None] /\ offset'[p] = 0
        \/ part' = part /\ offset'[p] = PartLength(at[p])
    BY <1>0, <1>3, <2>1 DEF Resume, RestartClean, TypeFiles
  <2>3. Apart' /\ Undamaged' /\ DestinationVerified'
    BY <1>0, <1>a, <2>1, <2>2 DEF Apart, Undamaged, DestinationVerified, Whole, TypeFiles
  <2>4. Alone(p)
    BY <1>0, AloneFiles
  <2>5. PartLength(at[p])' = offset'[p]
    BY <1>0, <2>1, <2>2 DEF PartLength, TypeFiles
  <2>6. ~AssetReady(at[p])'
    BY <2>1, <2>4 DEF Alone, AssetReady, Whole, Transfer
  <2>7. Alone(p)'
    BY <2>1, <2>4, <2>5, <2>6 DEF Alone
  <2>8. QED
    BY <2>3, <2>7, AloneNext
<1>4. ASSUME NEW p \in Procs, Answered(p) PROVE Files'
  <2> DEFINE i == IF part[at[p]] = None THEN Fresh ELSE part[at[p]]
  <2>1. /\ at[p] \in Assets /\ pc[p] \in {"request", "restart"} /\ OpenPart(p, offset[p] > 0)
        /\ seen'[p] = offset[p] /\ pc'[p] = "stream" /\ UNCHANGED <<dest, at, offset>>
    BY <1>0, <1>4 DEF Answered, Go, Located, Downloading
  <2>2. Alone(p)
    BY <1>0, AloneFiles
  <2>3. i \in Inodes /\ i # None /\ (part[at[p]] = None => i \notin InUse)
    BY <1>0, <1>n, <2>1, FreshIsFree DEF OpenPart, TypeFiles
  <2>4. /\ part' = [part EXCEPT ![at[p]] = i] /\ fd' = [fd EXCEPT ![p] = i]
        /\ data' = IF offset[p] > 0 /\ part[at[p]] # None THEN data
                   ELSE [data EXCEPT ![i] = Empty]
    BY <2>1 DEF OpenPart
  <2>5. \A b \in Assets : i # dest[b] /\ (b # at[p] => i # part[b])
    BY <1>a, <2>1, <2>3 DEF Apart, InUse
  <2> HIDE DEF i
  <2>6. Apart'
    BY <1>0, <1>a, <2>1, <2>4, <2>5 DEF Apart, TypeFiles
  <2>7. data'[i].rot = FALSE /\ data'[i].len = offset[p]
    <3>1. offset[p] = PartLength(at[p]) /\ offset[p] \in 0 .. Limit
      BY <1>0, <2>1, <2>2 DEF Alone
    <3>2. CASE offset[p] > 0 /\ part[at[p]] # None
      <4>1. i = part[at[p]] /\ data' = data /\ data[i] \in Contents
        BY <1>0, <2>3, <2>4, <3>2 DEF i, TypeFiles
      <4>2. ~data[i].rot
        BY <1>a, <2>1, <3>2, <4>1 DEF Undamaged
      <4>3. QED
        BY <3>1, <3>2, <4>1, <4>2 DEF PartLength, Contents
    <3>3. CASE ~(offset[p] > 0 /\ part[at[p]] # None)
      <4>1. data'[i] = Empty
        BY <1>0, <2>3, <2>4, <3>3 DEF TypeFiles
      <4>2. offset[p] = 0
        BY <3>1, <3>3 DEF PartLength
      <4>3. QED
        BY <4>1, <4>2, EmptyType
    <3>4. QED
      BY <3>2, <3>3
  <2>8. \A j \in Inodes : j # i => data'[j] = data[j]
    BY <1>0, <2>4 DEF TypeFiles
  <2>9. Undamaged'
    <3> SUFFICES ASSUME NEW b \in Assets, part'[b] # None PROVE ~data'[part'[b]].rot
      BY DEF Undamaged
    <3>1. CASE b = at[p]
      BY <1>0, <2>1, <2>4, <2>7, <3>1 DEF TypeFiles
    <3>2. CASE b # at[p]
      <4>1. part'[b] = part[b] /\ part[b] \in Inodes /\ part[b] # i
        BY <1>0, <2>1, <2>4, <2>5, <3>2 DEF TypeFiles
      <4>2. QED
        BY <1>a, <2>8, <4>1 DEF Undamaged
    <3>3. QED
      BY <3>1, <3>2
  <2>10. \A b \in Assets : dest[b] # None => data'[dest[b]] = data[dest[b]]
    BY <1>0, <2>5, <2>8 DEF TypeFiles
  <2>11. DestinationVerified'
    BY <1>a, <2>1, <2>10 DEF DestinationVerified, Whole
  <2>12. ~AssetReady(at[p])'
    BY <2>1, <2>2, <2>10 DEF Alone, AssetReady, Whole, Transfer
  <2>13. fd'[p] = i /\ part'[at[p]] = i
    BY <1>0, <2>1, <2>4 DEF TypeFiles
  <2>14. Alone(p)'
    BY <2>1, <2>3, <2>7, <2>12, <2>13 DEF Alone
  <2>15. QED
    BY <2>6, <2>9, <2>11, <2>14, AloneNext
<1>5. ASSUME NEW p \in Procs, NEW good \in BOOLEAN, Chunk(p, good) PROVE Files'
  <2>1. pc[p] = "stream" /\ seen[p] < Limit /\ UNCHANGED <<part, dest, pc, at, fd, offset>>
        /\ seen'[p] = seen[p] + 1 /\ at[p] \in Assets
    BY <1>0, <1>5 DEF Chunk, Located, Downloading
  <2>2. Alone(p)
    BY <1>0, AloneFiles
  <2>3. fd[p] = part[at[p]] /\ fd[p] \in Inodes /\ data[fd[p]].len = seen[p]
        /\ data[fd[p]] \in Contents
    BY <1>0, <2>1, <2>2 DEF Alone, TypeFiles
  <2> DEFINE new == Put(data[fd[p]], seen[p], seen[p], good)
  <2>4. data' = [data EXCEPT ![fd[p]] = new]
    BY <1>5, <2>3 DEF Chunk
  <2>5. new.len = seen[p] + 1 /\ new.rot = data[fd[p]].rot
    BY <2>1, <2>3, PutType
  <2> HIDE DEF new
  <2>6. /\ data'[fd[p]] = new
        /\ \A j \in Inodes : j # fd[p] => data'[j] = data[j]
    BY <1>0, <2>3, <2>4 DEF TypeFiles
  <2>7. Apart'
    BY <1>a, <2>1 DEF Apart
  <2>8. Undamaged'
    <3>1. ~data[fd[p]].rot
      BY <1>a, <1>n, <2>1, <2>3 DEF Undamaged
    <3>2. \A b \in Assets : part[b] # None => part[b] \in Inodes
      BY <1>0 DEF TypeFiles
    <3>3. QED
      BY <1>a, <2>1, <2>5, <2>6, <3>1, <3>2 DEF Undamaged
  <2>9. \A b \in Assets : dest[b] # None => data'[dest[b]] = data[dest[b]]
    BY <1>0, <1>a, <1>n, <2>1, <2>3, <2>6 DEF Apart, TypeFiles
  <2>10. DestinationVerified'
    BY <1>a, <2>1, <2>9 DEF DestinationVerified, Whole
  <2>11. ~AssetReady(at[p])'
    BY <2>1, <2>2, <2>9 DEF Alone, AssetReady, Whole, Transfer
  <2>12. Alone(p)'
    BY <2>1, <2>2, <2>5, <2>6, <2>11 DEF Alone
  <2>13. QED
    BY <2>7, <2>8, <2>10, <2>12, AloneNext
<1>6. ASSUME NEW p \in Procs, BodyEnds(p) \/ Unpack(p) PROVE Files'
  <2>1. UNCHANGED <<part, dest, data>>
    BY <1>6 DEF BodyEnds, Unpack, files
  <2>2. Apart' /\ Undamaged' /\ DestinationVerified'
    BY <1>a, <2>1, SameFiles
  <2>3. Alone(p)
    BY <1>0, AloneFiles
  <2>4. CASE BodyEnds(p)
    <3>1. pc[p] = "stream" /\ pc'[p] = "size" /\ at' = at /\ fd'[p] = None
      BY <1>0, <2>4 DEF BodyEnds, Go, TypeFiles
    <3>2. ~AssetReady(at[p])'
      BY <2>1, <2>3, <3>1 DEF Alone, AssetReady, Whole, Transfer
    <3>3. Alone(p)'
      BY <3>1, <3>2 DEF Alone
    <3>4. QED
      BY <2>2, <3>3, AloneNext
  <2>5. CASE Unpack(p)
    <3>1. pc[p] = "unpack" /\ pc'[p] \in {"staged", "unpack", "off"}
      BY <1>0, <2>5 DEF Unpack, Go, Exit
    <3>2. fd[p] = None
      BY <2>3, <3>1 DEF Alone
    <3>3. fd'[p] = None
      BY <1>0, <2>5, <3>2 DEF Unpack, Exit, TypeFiles
    <3>4. Alone(p)'
      BY <3>1, <3>3 DEF Alone, Transfer
    <3>5. QED
      BY <2>2, <3>4, AloneNext
  <2>6. QED
    BY <1>6, <2>4, <2>5
<1>7. ASSUME NEW p \in Procs, CheckSize(p) \/ CheckHash(p) PROVE Files'
  <2>1. /\ at[p] \in Assets /\ pc[p] \in {"size", "hash"} /\ UNCHANGED <<dest, data, at>>
    BY <1>0, <1>7 DEF CheckSize, CheckHash, Failed, files, Located, Downloading
  <2>2. Alone(p)
    BY <1>0, AloneFiles
  <2>3. fd[p] = None
    BY <2>1, <2>2 DEF Alone
  <2>4. \/ pc'[p] = "hash" /\ fd' = fd /\ part' = part
        \/ pc'[p] = "place" /\ fd' = fd /\ part' = part /\ Whole(part[at[p]])
        \/ /\ pc'[p] = "off" /\ fd'[p] = None
           /\ part' = part \/ part' = [part EXCEPT ![at[p]] = None]
    BY <1>0, <1>7 DEF CheckSize, CheckHash, Failed, Exit, Go, files, stream, TypeFiles
  <2>5. part' = part \/ part' = [part EXCEPT ![at[p]] = None]
    BY <2>4
  <2>6. Apart' /\ Undamaged' /\ DestinationVerified'
    BY <1>0, <1>a, <2>1, <2>5 DEF Apart, Undamaged, DestinationVerified, Whole, TypeFiles
  <2>7. ~AssetReady(at[p])'
    BY <2>1, <2>2 DEF Alone, AssetReady, Whole, Transfer
  <2>8. Alone(p)'
    BY <2>1, <2>3, <2>4, <2>7 DEF Alone, Transfer, Whole
  <2>9. QED
    BY <2>6, <2>8, AloneNext
<1>8. ASSUME NEW p \in Procs, Place(p) PROVE Files'
  <2>1. at[p] \in Assets /\ pc[p] = "place"
    BY <1>0, <1>8 DEF Place, Located, Downloading
  <2>2. Alone(p)
    BY <1>0, AloneFiles
  <2>3. Whole(part[at[p]]) /\ part[at[p]] # None /\ fd[p] = None
    BY <2>1, <2>2 DEF Alone, Whole
  <2>4. /\ dest' = [dest EXCEPT ![at[p]] = part[at[p]]]
        /\ part' = [part EXCEPT ![at[p]] = None]
        /\ pc'[p] = "placed" /\ UNCHANGED <<data, fd, at>>
    BY <1>0, <1>8, <2>3 DEF Place, Go, stream
  <2>5. Apart'
    BY <1>0, <1>a, <2>1, <2>3, <2>4 DEF Apart, TypeFiles
  <2>6. Undamaged'
    BY <1>0, <1>a, <2>1, <2>4 DEF Undamaged, TypeFiles
  <2>7. DestinationVerified'
    BY <1>0, <1>a, <2>1, <2>3, <2>4 DEF DestinationVerified, Whole, TypeFiles
  <2>8. Alone(p)'
    BY <2>3, <2>4 DEF Alone, Transfer
  <2>9. QED
    BY <2>5, <2>6, <2>7, <2>8, AloneNext
<1>9. ASSUME NEW a \in Assets, Rot(a) PROVE Files'
  <2>1. /\ dest[a] # None /\ UNCHANGED <<part, dest, pc, at, fd, seen, offset>>
        /\ data' = [data EXCEPT ![dest[a]].rot = TRUE]
    BY <1>9 DEF Rot, stream
  <2>2. dest[a] \in Inodes /\ data[dest[a]] \in Contents
    BY <1>0, <1>9, <2>1 DEF TypeFiles
  <2>3. /\ \A j \in Inodes : data'[j].len = data[j].len /\ data'[j].ok = data[j].ok
        /\ \A j \in Inodes : data[j].rot => data'[j].rot
        /\ \A j \in Inodes : j # dest[a] => data'[j] = data[j]
    BY <1>0, <2>1, <2>2 DEF TypeFiles, Contents
  <2>4. Apart'
    BY <1>a, <2>1 DEF Apart
  <2>5. Undamaged'
    BY <1>0, <1>a, <1>9, <2>1, <2>3 DEF Undamaged, Apart, TypeFiles
  <2>6. DestinationVerified'
    BY <1>0, <1>a, <2>1, <2>3 DEF DestinationVerified, Whole, TypeFiles
  <2>7. ASSUME NEW p \in Procs PROVE Files'
    <3>1. Alone(p)
      BY <1>0, AloneFiles
    <3>2. at[p] \in Assets \/ pc[p] \notin Downloading
      BY <1>0 DEF Located
    <3>3. pc[p] \in Transfer => at[p] \in Assets
      BY <3>2 DEF Transfer, Downloading
    <3>4. at[p] \in Assets => /\ Whole(part[at[p]])' <=> Whole(part[at[p]])
                              /\ PartLength(at[p])' = PartLength(at[p])
                              /\ AssetReady(at[p])' => AssetReady(at[p])
      BY <1>0, <2>1, <2>3 DEF Whole, PartLength, AssetReady, TypeFiles
    <3>5. data'[fd[p]].len = data[fd[p]].len \/ fd[p] = None
      BY <1>0, <2>3 DEF TypeFiles
    <3>6. CASE pc[p] \in Transfer
      <4>1. at[p] \in Assets /\ UNCHANGED <<part, pc, at, fd, seen, offset>>
        BY <2>1, <3>3, <3>6
      <4>2. IF pc[p] = "stream"
            THEN fd[p] # None /\ fd[p] = part[at[p]] /\ data'[fd[p]].len = seen[p]
            ELSE fd[p] = None
        BY <3>1, <3>5 DEF Alone
      <4>3. pc[p] \in {"request", "restart"} => offset[p] = PartLength(at[p])'
        BY <3>1, <3>4, <4>1 DEF Alone
      <4>4. pc[p] = "place" => Whole(part[at[p]])'
        BY <3>1, <3>4, <4>1 DEF Alone
      <4>5. ~AssetReady(at[p])'
        BY <3>1, <3>4, <3>6, <4>1 DEF Alone
      <4>6. Alone(p)'
        BY <4>1, <4>2, <4>3, <4>4, <4>5 DEF Alone
      <4>7. QED
        BY <2>4, <2>5, <2>6, <4>6, AloneNext
    <3>7. CASE pc[p] \notin Transfer
      <4>1. fd[p] = None
        BY <3>1, <3>7 DEF Alone, Transfer
      <4>2. Alone(p)'
        BY <2>1, <3>7, <4>1 DEF Alone, Transfer
      <4>3. QED
        BY <2>4, <2>5, <2>6, <4>2, AloneNext
    <3>8. QED
      BY <3>6, <3>7
  <2>8. CASE Procs = {}
    BY <2>4, <2>5, <2>6, <2>8 DEF Files, Streaming, Resuming, Checked, Lacking
  <2>9. QED
    BY <2>7, <2>8
<1>10. CASE UNCHANGED vars
  <2>1. UNCHANGED <<part, dest, data, pc, at, fd, seen, offset>>
    BY <1>10 DEF vars, files, stream
  <2>2. QED
    BY <1>0, <2>1 DEF Files, Streaming, Resuming, Apart, Undamaged, Checked, Lacking,
                      DestinationVerified, Whole, PartLength, AssetReady
<1>11. QED
  BY <1>1, <1>2, <1>3, <1>4, <1>5, <1>6, <1>7, <1>8, <1>9, <1>10, NextCases

-----------------------------------------------------------------------------
(* What happens to a destination.                                          *)

LEMMA DestKept ==
  ASSUME IInv, OneSidecar, [Next]_vars,
         \A p \in Procs : ~Place(p), \A a \in Assets : ~Rot(a)
  PROVE  dest' = dest /\ \A b \in Assets : dest[b] # None => data'[dest[b]] = data[dest[b]]
<1> DEFINE Kept == dest' = dest /\ \A b \in Assets : dest[b] # None
                                    => data'[dest[b]] = data[dest[b]]
<1>0. /\ TypeFiles /\ Located /\ Files /\ Apart
      /\ seen \in [Procs -> 0 .. Limit]
  BY DEF IInv, TypeOK, TypeFiles, Contents, Files
<1>1. ASSUME NEW p \in Procs, Quiet(p) PROVE Kept
  BY <1>1, QuietFiles
<1>2. ASSUME NEW p \in Procs, Ends(p) PROVE Kept
  BY <1>2, EndsFiles
<1>3. ASSUME NEW p \in Procs,
             \/ Resume(p) \/ RestartClean(p) \/ BodyEnds(p) \/ Unpack(p)
             \/ CheckSize(p) \/ CheckHash(p)
      PROVE  Kept
  BY <1>3 DEF Resume, RestartClean, BodyEnds, Unpack, CheckSize, CheckHash, Failed, files
<1>4. ASSUME NEW p \in Procs, Answered(p) PROVE Kept
  <2> DEFINE i == IF part[at[p]] = None THEN Fresh ELSE part[at[p]]
  <2>1. at[p] \in Assets /\ OpenPart(p, offset[p] > 0) /\ dest' = dest
    BY <1>0, <1>4 DEF Answered, Located, Downloading
  <2>2. \A b \in Assets : dest[b] # None => i # dest[b]
    BY <1>0, <2>1, FreshIsFree DEF Apart, InUse, OpenPart
  <2>3. data' = data \/ data' = [data EXCEPT ![i] = Empty]
    BY <2>1 DEF OpenPart
  <2> HIDE DEF i
  <2>4. QED
    BY <1>0, <2>1, <2>2, <2>3 DEF TypeFiles
<1>5. ASSUME NEW p \in Procs, NEW good \in BOOLEAN, Chunk(p, good) PROVE Kept
  <2>1. pc[p] = "stream" /\ at[p] \in Assets /\ dest' = dest
    BY <1>0, <1>5 DEF Chunk, Located, Downloading
  <2>2. fd[p] # None /\ fd[p] = part[at[p]]
    BY <1>0, <2>1 DEF Files, Streaming
  <2>3. \A b \in Assets : fd[p] # dest[b]
    BY <1>0, <2>1, <2>2 DEF Apart
  <2> DEFINE new == Put(data[fd[p]], IF offset[p] > 0 THEN data[fd[p]].len ELSE seen[p],
                        seen[p], good)
  <2>4. data' = [data EXCEPT ![fd[p]] = new]
    BY <1>5 DEF Chunk
  <2> HIDE DEF new
  <2>5. QED
    BY <1>0, <2>1, <2>3, <2>4 DEF TypeFiles
<1>6. CASE UNCHANGED vars
  BY <1>6 DEF vars, files
<1>7. QED
  BY <1>1, <1>2, <1>3, <1>4, <1>5, <1>6, NextCases

LEMMA PlaceInstalls ==
  ASSUME IInv, OneSidecar, NEW p \in Procs, Place(p)
  PROVE  /\ at[p] \in Assets /\ Whole(part[at[p]]) /\ ~data[part[at[p]]].rot
         /\ ~AssetReady(at[p])
         /\ dest' = [dest EXCEPT ![at[p]] = part[at[p]]] /\ data' = data
<1>1. pc[p] = "place" /\ at[p] \in Assets
  BY DEF Place, IInv, Located, Downloading
<1>2. Whole(part[at[p]]) /\ ~AssetReady(at[p])
  BY <1>1 DEF IInv, Checked, Lacking, Transfer
<1>3. part[at[p]] # None
  BY <1>2 DEF Whole
<1>4. ~data[part[at[p]]].rot
  BY <1>1, <1>3 DEF IInv, Undamaged
<1>5. QED
  BY <1>1, <1>2, <1>3, <1>4 DEF Place

LEMMA HashedKept ==
  ASSUME IInv, OneSidecar, [Next]_vars
  PROVE  HashedAll'
<1>0. HashedAll /\ TypeFiles /\ TypeAnswers /\ None \notin Inodes
  BY DEF IInv, TypeOK, TypeFiles, TypeAnswers, Contents, InodesAssumption
<1>1. \A a \in Assets : dest[a] # None => dest'[a] # None
  <2>1. ASSUME NEW p \in Procs, Place(p) PROVE \A a \in Assets : dest[a] # None => dest'[a] # None
    BY <1>0, <2>1, PlaceInstalls DEF TypeFiles, Whole
  <2>2. ASSUME NEW b \in Assets, Rot(b) PROVE dest' = dest
    BY <2>2 DEF Rot
  <2>3. QED
    BY <2>1, <2>2, DestKept
<1>2. ASSUME NEW p \in Procs, HashAll(p) PROVE HashedAll'
  <2>1. dest' = dest
    BY <1>2 DEF HashAll, files
  <2>2. verdict'[p] = "hashed" => \A a \in Assets : dest[a] # None
    BY <1>0, <1>2 DEF HashAll, TypeAnswers, AssetReady, Whole
  <2>3. \A q \in Procs : q # p => verdict'[q] = verdict[q]
    BY <1>0, <1>2 DEF HashAll, TypeAnswers
  <2>4. QED
    BY <1>0, <2>1, <2>2, <2>3 DEF HashedAll
<1>3. ASSUME NEW p \in Procs, \/ Done(p) \/ Cancel(p)
                               \/ \E c \in Commands, a \in Assets : Launch(p, c, a)
      PROVE  \A q \in Procs : verdict'[q] = "hashed" => verdict[q] = "hashed"
  BY <1>0, <1>3 DEF Done, Cancel, Launch, TypeAnswers
<1>4. CASE \A q \in Procs : verdict'[q] = "hashed" => verdict[q] = "hashed"
  BY <1>0, <1>1, <1>4 DEF HashedAll
<1>5. QED
  BY <1>2, <1>3, <1>4, AnswerCases

LEMMA Inductive ==
  ASSUME OneSidecar, IInv, [Next]_vars
  PROVE  IInv'
BY Typed, ControlTyped, TreesTyped, FilesKept, HashedKept DEF IInv, Files

LEMMA Invariance == OneSidecar => (Spec => []IInv)
<1> SUFFICES ASSUME OneSidecar PROVE Spec => []IInv
  OBVIOUS
<1>1. IInv /\ [Next]_vars => IInv'
  BY Inductive
<1>2. QED
  BY <1>1, Initially, PTL DEF Spec

-----------------------------------------------------------------------------
(***************************************************************************)
(* The variables of the model stay within their types: a transfer never    *)
(* counts more bytes than the limit _download_stream enforces.             *)
(***************************************************************************)
THEOREM TypeCorrect == OneSidecar => (Spec => []TypeOK)
<1>1. IInv => TypeOK
  BY DEF IInv
<1>2. QED
  BY <1>1, Invariance, PTL

(***************************************************************************)
(* runtime.py:3-7 for a single sidecar: whatever is killed, interrupted,   *)
(* retried or resumed, what stands at a destination was verified.          *)
(***************************************************************************)
THEOREM Verified == OneSidecar => (Spec => []DestinationVerified)
<1>1. IInv => DestinationVerified
  BY DEF IInv
<1>2. QED
  BY <1>1, Invariance, PTL

(***************************************************************************)
(* managed.ready answers yes only when every asset was verified and every  *)
(* archive is unpacked completely, although it looks at some of the trees  *)
(* by name only.                                                           *)
(***************************************************************************)
THEOREM ReadySound == OneSidecar => (Spec => ReadyIsTrue)
<1> DEFINE Sound == \A p \in Procs : verdict'[p] = "yes" /\ verdict[p] # "yes"
                      => Unpacked /\ \A a \in Assets : Whole(dest[a])
<1>1. ASSUME IInv, Next PROVE Sound
  <2> SUFFICES ASSUME NEW q \in Procs, verdict'[q] = "yes", verdict[q] # "yes"
               PROVE  Unpacked /\ \A a \in Assets : Whole(dest[a])
    OBVIOUS
  <2>0. TypeAnswers /\ TypeTrees
    BY <1>1 DEF IInv, TypeOK, TypeAnswers, TypeTrees
  <2>1. PICK p \in Procs : \/ \E c \in Commands, a \in Assets : Launch(p, c, a)
                          \/ Cancel(p) \/ HashAll(p) \/ Done(p)
    BY <1>1, AnswerCases
  <2>2. Done(p) /\ p = q
    BY <2>0, <2>1 DEF Launch, Cancel, HashAll, Done, TypeAnswers
  <2>3. verdict[q] = "hashed" /\ \A a \in Archives : Looks(a)
    BY <2>0, <2>2 DEF Done, TypeAnswers
  <2>4. \A a \in Assets : Whole(dest[a])
    BY <1>1, <2>3 DEF IInv, HashedAll, DestinationVerified
  <2>5. Unpacked
    BY <1>1, <2>0, <2>3 DEF IInv, NoHalfSwap, Looks, Unpacked, TypeTrees
  <2>6. QED
    BY <2>4, <2>5
<1>2. IInv /\ [Next]_vars => [Sound]_vars
  BY <1>1
<1>3. QED
  BY <1>2, Invariance, PTL DEF ReadyIsTrue, Spec

(***************************************************************************)
(* The downloads implement AssetStore: a destination changes from absent   *)
(* or damaged to verified in one step, and no step of ClipGauge takes a    *)
(* verified asset away.                                                    *)
(***************************************************************************)
Installed == [a \in Assets |-> IF dest[a] = None THEN "absent"
                               ELSE IF ~Whole(dest[a]) THEN "unverified"
                               ELSE IF data[dest[a]].rot THEN "damaged"
                               ELSE "verified"]

LEMMA StoreStep ==
  ASSUME IInv, OneSidecar, [Next]_vars
  PROVE  [\E a \in Assets :
            \/ Installed[a] # "verified"
               /\ Installed' = [Installed EXCEPT ![a] = "verified"]
            \/ Installed[a] = "verified"
               /\ Installed' = [Installed EXCEPT ![a] = "damaged"]]_Installed
<1>0. TypeFiles /\ DestinationVerified /\ Apart /\ None \notin Inodes
  BY DEF IInv, TypeOK, TypeFiles, Contents, InodesAssumption
<1>1. ASSUME NEW p \in Procs, Place(p)
      PROVE  /\ at[p] \in Assets /\ Installed[at[p]] # "verified"
             /\ Installed' = [Installed EXCEPT ![at[p]] = "verified"]
  <2>1. /\ at[p] \in Assets /\ Whole(part[at[p]]) /\ ~data[part[at[p]]].rot
        /\ ~AssetReady(at[p])
        /\ dest' = [dest EXCEPT ![at[p]] = part[at[p]]] /\ data' = data
    BY <1>1, PlaceInstalls
  <2>2. Installed[at[p]] # "verified"
    BY <2>1 DEF Installed, AssetReady
  <2>3. \A b \in Assets : Installed'[b] = IF b = at[p] THEN "verified" ELSE Installed[b]
    BY <1>0, <2>1 DEF Installed, Whole, TypeFiles
  <2>4. Installed' = [Installed EXCEPT ![at[p]] = "verified"]
    BY <2>1, <2>3 DEF Installed
  <2>5. QED
    BY <2>1, <2>2, <2>4
<1>2. ASSUME NEW a \in Assets, Rot(a)
      PROVE  \/ Installed' = Installed
             \/ /\ Installed[a] = "verified"
                /\ Installed' = [Installed EXCEPT ![a] = "damaged"]
  <2>1. /\ dest[a] \in Inodes /\ dest' = dest
        /\ data' = [data EXCEPT ![dest[a]].rot = TRUE]
        /\ data[dest[a]] \in Contents /\ ~data[dest[a]].rot
    BY <1>0, <1>2 DEF Rot, TypeFiles
  <2>2. /\ \A j \in Inodes : data'[j].len = data[j].len /\ data'[j].ok = data[j].ok
        /\ data'[dest[a]].rot
        /\ \A j \in Inodes : j # dest[a] => data'[j] = data[j]
    BY <1>0, <2>1 DEF TypeFiles, Contents
  <2>3. Installed[a] = "verified"
    BY <1>0, <2>1 DEF Installed, DestinationVerified
  <2>4. \A b \in Assets : Installed'[b] = IF dest[b] = dest[a] THEN "damaged" ELSE Installed[b]
    BY <1>0, <2>1, <2>2 DEF Installed, DestinationVerified, Whole, TypeFiles
  <2>5. \A b \in Assets : b # a => dest[b] # dest[a]
    BY <1>0, <2>1 DEF Apart
  <2>6. QED
    BY <2>1, <2>3, <2>4, <2>5 DEF Installed
<1>3. CASE (\A p \in Procs : ~Place(p)) /\ (\A a \in Assets : ~Rot(a))
  <2>1. dest' = dest /\ \A b \in Assets : dest[b] # None => data'[dest[b]] = data[dest[b]]
    BY <1>3, DestKept
  <2>2. \A b \in Assets : Installed'[b] = Installed[b]
    BY <2>1 DEF Installed, Whole
  <2>3. Installed' = Installed
    BY <2>2 DEF Installed
  <2>4. QED
    BY <2>3
<1>4. QED
  BY <1>1, <1>2, <1>3


THEOREM Refines == OneSidecar => (Spec => StoreSpec)
<1> SUFFICES ASSUME OneSidecar PROVE Spec => StoreSpec
  OBVIOUS
<1>1. Init => Store!Init
  BY DEF Init, Store!Init
<1>2. IInv /\ [Next]_vars => [Store!Next]_Installed
  BY StoreStep DEF Store!Next, Store!Install, Store!Damage, Installed
<1>3. QED
  BY <1>1, <1>2, Invariance, PTL DEF Spec, StoreSpec, Store!Spec, Installed

===============================================================================
