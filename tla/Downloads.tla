----------------------------- MODULE Downloads ------------------------------
(***************************************************************************)
(* Managed downloads: the sidecar processes that fetch a group of assets   *)
(* (downloads.py), each through one shared ".part" file that is resumed,   *)
(* hashed and moved into place (runtime.py), and that unpack the archives  *)
(* among them (models/managed.py).  Files are inodes, so that a process    *)
(* goes on writing to a file another one has moved or unlinked.  A block   *)
(* is right or wrong, a file is its length and whether all its blocks are  *)
(* right.                                                                  *)
(***************************************************************************)
EXTENDS Integers, FiniteSets

CONSTANTS
  NAssets,     \* the group is 1 .. NAssets, fetched in this order
  Archives,    \* the assets that are unpacked after the downloads
  Swapped,     \* those unpacked into a staging directory that is renamed
  Restored,    \* the swapped ones that `ready` unpacks again (Silero)
  Procs,       \* sidecar processes that may be alive together
  Inodes,
  Size,        \* length of an asset, in blocks
  Slack,       \* blocks above Size that the size limit tolerates (1 MiB)
  MaxTries,    \* len(_DOWNLOAD_RETRY_DELAYS)
  MaxFaults,   \* bound: kills, interruptions, wrong bytes, damage
  None

Assets == 1 .. NAssets

ASSUME SizesAssumption ==
  /\ NAssets \in Nat /\ Size \in Nat \ {0} /\ Slack \in Nat \ {0}
  /\ MaxTries \in Nat /\ MaxFaults \in Nat
ASSUME InodesAssumption == IsFiniteSet(Inodes) /\ None \notin Inodes
ASSUME ArchivesAssumption ==
  Archives \subseteq Assets /\ Swapped \subseteq Archives
  /\ Restored \subseteq Swapped

VARIABLES
  part, dest,    \* the inode under the .part name and the destination
  data,          \* content of an inode
  rows,          \* downloads.json
  consent,       \* download-consent.json: the record of the group
  tree, backup,  \* unpacked trees, and the ".previous" directories left over
  pc, cmd, at,   \* of each process: position, command, current asset
  mem, held,     \* of each process: rows and consent its manager loaded
  fd, seen,      \* of each process: the file it writes, and its byte count
  offset, tries, \* of each process: where it resumes, and the retries made
  stop,          \* of each process: whether its caller asked it to cancel
  verdict,       \* of each process: what `ready` answered
  faults

files == <<part, dest, data>>
saved == <<rows, consent>>
trees == <<tree, backup>>
memory == <<mem, held>>
stream == <<fd, seen, offset, tries>>
vars == <<files, saved, trees, pc, cmd, at, memory, stream, stop, verdict,
          faults>>

Commands == {"install", "ensure", "check"}
\* "there" is installed or reused, "failed" retryable-failed or cancelled.
Statuses == {"none", "downloading", "there", "failed"}
Downloading == {"prepare", "resume", "request", "restart", "stream", "size",
                "hash", "place", "placed"}
Positions == Downloading \cup {"off", "grant", "hash all", "unpack", "staged",
                               "retired"}
Limit == Size + Slack
NoConsent == [ids |-> {}, budget |-> -1]
Empty == [len |-> 0, ok |-> TRUE, rot |-> FALSE]

Init ==
  /\ part = [a \in Assets |-> None] /\ dest = [a \in Assets |-> None]
  /\ data = [i \in Inodes |-> Empty]
  /\ rows = [a \in Assets |-> "none"] /\ consent = NoConsent
  /\ tree = [a \in Archives |-> "none"] /\ backup = [a \in Archives |-> FALSE]
  /\ pc = [p \in Procs |-> "off"] /\ cmd = [p \in Procs |-> "install"]
  /\ at = [p \in Procs |-> 1]
  /\ mem = [p \in Procs |-> rows] /\ held = [p \in Procs |-> consent]
  /\ fd = [p \in Procs |-> None] /\ seen = [p \in Procs |-> 0]
  /\ offset = [p \in Procs |-> 0] /\ tries = [p \in Procs |-> 0]
  /\ stop = [p \in Procs |-> FALSE]
  /\ verdict = [p \in Procs |-> "unasked"]
  /\ faults = 0

Fault == faults < MaxFaults /\ faults' = faults + 1

Go(p, to) == pc' = [pc EXCEPT ![p] = to]

----------------------------------------------------------------------------
(* Files.                                                                  *)

Whole(i) == i # None /\ data[i].len = Size /\ data[i].ok
\* What a fresh hash answers: DownloadManager._asset_ready.
AssetReady(a) == Whole(dest[a]) /\ ~data[dest[a]].rot

InUse == {part[a] : a \in Assets} \cup {dest[a] : a \in Assets}
           \cup {fd[p] : p \in Procs}
Fresh == CHOOSE i \in Inodes \ InUse : TRUE

\* A block written at `pos` that was meant to be block number `n`.
Put(f, pos, n, good) ==
  [len |-> IF pos < f.len THEN f.len ELSE pos + 1,
   ok |-> f.ok /\ good /\ pos = n /\ pos <= f.len,
   rot |-> f.rot]

(***************************************************************************)
(* A command loads both JSON files into its manager.  "install" grants the *)
(* group's consent and fetches and unpacks all of it (cmd_setup            *)
(* install-group), "ensure" fetches one asset under the consent found on   *)
(* disk (registry.ensure, ensure_ytdlp), "check" is managed.ready.         *)
(***************************************************************************)
Launch(p, c, a) ==
  /\ pc[p] = "off"
  /\ c # "ensure" => a = 1
  /\ Go(p, CASE c = "install" -> "grant"
             [] c = "ensure" -> "prepare"
             [] c = "check" -> "hash all")
  /\ cmd' = [cmd EXCEPT ![p] = c] /\ at' = [at EXCEPT ![p] = a]
  /\ mem' = [mem EXCEPT ![p] = rows] /\ held' = [held EXCEPT ![p] = consent]
  /\ stop' = [stop EXCEPT ![p] = FALSE]
  /\ verdict' = [verdict EXCEPT ![p] = "unasked"]
  /\ UNCHANGED <<files, saved, trees, stream, faults>>

Missing(S) == Cardinality({a \in S : ~AssetReady(a)})

\* DownloadManager.grant_consent: the new record replaces the group's.
Grant(p) ==
  /\ pc[p] = "grant"
  /\ consent' = [ids |-> Assets, budget |-> Missing(Assets)]
  /\ held' = [held EXCEPT ![p] = consent']
  /\ Go(p, "prepare")
  /\ UNCHANGED <<files, rows, trees, cmd, at, mem, stream, stop, verdict,
                 faults>>

HasConsent(p, S) ==
  S \subseteq held[p].ids /\ Missing(S) <= held[p].budget

\* _save writes the manager's whole dictionary.
SaveRow(p, status) ==
  /\ mem' = [mem EXCEPT ![p][at[p]] = status]
  /\ rows' = mem'[p]

\* The command ends; its manager is gone with it.
Exit(p) == Go(p, "off") /\ fd' = [fd EXCEPT ![p] = None]

\* After a download the command goes on with the next asset of the group.
Advance(p) ==
  IF cmd[p] = "install" /\ at[p] < NAssets
  THEN Go(p, "prepare") /\ at' = [at EXCEPT ![p] = @ + 1]
  ELSE IF cmd[p] = "install"
       THEN Go(p, "unpack") /\ at' = [at EXCEPT ![p] = 1]
       ELSE Go(p, "off") /\ UNCHANGED at

----------------------------------------------------------------------------
(* DownloadManager.download and runtime.download_verified.                 *)

Reuse(p) ==
  /\ pc[p] = "prepare" /\ AssetReady(at[p])
  /\ SaveRow(p, "there") /\ Advance(p)
  /\ UNCHANGED <<files, consent, trees, cmd, held, stream, stop, verdict,
                 faults>>

\* ConsentRequiredError; RuntimeDiskSpaceError is the same exit.
Refuse(p) ==
  /\ pc[p] = "prepare" /\ ~AssetReady(at[p])
  /\ \/ ~HasConsent(p, {at[p]}) /\ UNCHANGED faults
     \/ Fault
  /\ Exit(p)
  /\ UNCHANGED <<files, saved, trees, cmd, at, memory, seen, offset, tries,
                 stop, verdict>>

\* Mutant: the file that does not verify is removed first.
PrepareByRemoving(p) ==
  /\ pc[p] = "prepare" /\ ~AssetReady(at[p]) /\ HasConsent(p, {at[p]})
  /\ SaveRow(p, "downloading")
  /\ dest' = [dest EXCEPT ![at[p]] = None]
  /\ Go(p, "resume")
  /\ UNCHANGED <<part, data, consent, trees, cmd, at, held, stream, stop,
                 verdict, faults>>

Prepare(p) ==
  /\ pc[p] = "prepare" /\ ~AssetReady(at[p]) /\ HasConsent(p, {at[p]})
  /\ SaveRow(p, "downloading")
  /\ Go(p, "resume")
  /\ UNCHANGED <<files, consent, trees, cmd, at, held, stream, stop, verdict,
                 faults>>

\* The caller's cancel callback turns true, and stays so.
Cancel(p) ==
  /\ pc[p] \in Downloading /\ ~stop[p] /\ Fault
  /\ stop' = [stop EXCEPT ![p] = TRUE]
  /\ UNCHANGED <<files, saved, trees, pc, cmd, at, memory, stream, verdict>>

PartLength(a) == IF part[a] = None THEN 0 ELSE data[part[a]].len

\* The size of the .part file decides where the transfer resumes.
Resume(p) ==
  /\ pc[p] = "resume"
  /\ LET n == PartLength(at[p]) IN
       /\ offset' = [offset EXCEPT ![p] = IF n > Limit THEN 0 ELSE n]
       /\ part' = [part EXCEPT ![at[p]] = IF n > Limit THEN None ELSE @]
  /\ tries' = [tries EXCEPT ![p] = 0]
  /\ Go(p, "request")
  /\ UNCHANGED <<dest, data, saved, trees, cmd, at, memory, fd, seen, stop,
                 verdict, faults>>

\* download: any failure leaves a row, and the .part file, and is raised.
Failed(p) ==
  /\ SaveRow(p, "failed") /\ Exit(p)
  /\ UNCHANGED <<dest, data, consent, trees, cmd, at, held, seen, offset,
                 tries, stop, verdict>>

\* Checked before every request and before every block is written.
Cancelled(p) ==
  /\ pc[p] \in {"request", "restart", "stream"} /\ stop[p]
  /\ Failed(p)
  /\ UNCHANGED <<part, faults>>

\* A status worth a retry, while _DOWNLOAD_RETRY_DELAYS has a delay left.
Busy(p) ==
  /\ pc[p] \in {"request", "restart"} /\ ~stop[p] /\ tries[p] < MaxTries
  /\ tries' = [tries EXCEPT ![p] = @ + 1]
  /\ UNCHANGED <<files, saved, trees, pc, cmd, at, memory, fd, seen, offset,
                 stop, verdict, faults>>

\* No answer, a status that is not worth a retry, or one after the last.
NoAnswer(p) ==
  /\ pc[p] \in {"request", "restart"} /\ ~stop[p] /\ Fault
  /\ Failed(p) /\ UNCHANGED part

\* Mutant: 416 is an error like any other status.
RestartUnless416(p) ==
  /\ pc[p] = "request" /\ ~stop[p] /\ offset[p] > 0 /\ UNCHANGED faults
  /\ IF offset[p] >= Size THEN Failed(p) /\ UNCHANGED part
     ELSE /\ part' = [part EXCEPT ![at[p]] = None]
          /\ offset' = [offset EXCEPT ![p] = 0]
          /\ tries' = [tries EXCEPT ![p] = 0]
          /\ Go(p, "restart")
          /\ UNCHANGED <<dest, data, saved, trees, cmd, at, memory, fd, seen,
                         stop, verdict>>

\* 200 to a range request, or 416: the partial file cannot be continued.
RestartClean(p) ==
  /\ pc[p] = "request" /\ ~stop[p] /\ offset[p] > 0
  /\ part' = [part EXCEPT ![at[p]] = None]
  /\ offset' = [offset EXCEPT ![p] = 0] /\ tries' = [tries EXCEPT ![p] = 0]
  /\ Go(p, "restart")
  /\ UNCHANGED <<dest, data, saved, trees, cmd, at, memory, fd, seen, stop,
                 verdict, faults>>

\* open(part, "ab") continues what is there, open(part, "wb") empties it.
OpenPart(p, append) ==
  LET i == IF part[at[p]] = None THEN Fresh ELSE part[at[p]] IN
    /\ part[at[p]] = None => ~(Inodes \subseteq InUse)  \* bound
    /\ part' = [part EXCEPT ![at[p]] = i]
    /\ data' = IF append /\ part[at[p]] # None THEN data
               ELSE [data EXCEPT ![i] = Empty]
    /\ fd' = [fd EXCEPT ![p] = i]

\* 200 to a request without a range, or 206 when something is left to send.
Answered(p) ==
  /\ pc[p] \in {"request", "restart"} /\ ~stop[p]
  /\ offset[p] > 0 => offset[p] < Size
  /\ OpenPart(p, offset[p] > 0)
  /\ seen' = [seen EXCEPT ![p] = offset[p]]
  /\ Go(p, "stream")
  /\ UNCHANGED <<dest, saved, trees, cmd, at, memory, offset, tries, stop,
                 verdict, faults>>

\* Mutant: the limit is not looked at while the body arrives.
ChunkWithoutLimit(p, good) ==
  /\ pc[p] = "stream" /\ ~stop[p]
  /\ IF good THEN seen[p] < Size /\ UNCHANGED faults ELSE Fault
  /\ LET f == data[fd[p]]
         pos == IF offset[p] > 0 THEN f.len ELSE seen[p] IN
       data' = [data EXCEPT ![fd[p]] = Put(f, pos, seen[p], good)]
  /\ seen' = [seen EXCEPT ![p] = @ + 1]
  /\ UNCHANGED <<part, dest, saved, trees, pc, cmd, at, memory, fd, offset,
                 tries, stop, verdict>>

\* The next block; a server that sends past the limit is cut off.
Chunk(p, good) ==
  /\ pc[p] = "stream" /\ ~stop[p]
  /\ seen[p] < Limit
  /\ IF good THEN seen[p] < Size /\ UNCHANGED faults ELSE Fault
  /\ LET f == data[fd[p]]
         pos == IF offset[p] > 0 THEN f.len ELSE seen[p] IN
       data' = [data EXCEPT ![fd[p]] = Put(f, pos, seen[p], good)]
  /\ seen' = [seen EXCEPT ![p] = @ + 1]
  /\ UNCHANGED <<part, dest, saved, trees, pc, cmd, at, memory, fd, offset,
                 tries, stop, verdict>>

\* The connection breaks, or the server passes the limit.
Interrupted(p) ==
  /\ pc[p] = "stream" /\ ~stop[p] /\ Fault
  /\ Failed(p) /\ UNCHANGED part

\* The body ends, early when the server is at fault.
BodyEnds(p) ==
  /\ pc[p] = "stream"
  /\ IF seen[p] < Size THEN Fault ELSE UNCHANGED faults
  /\ fd' = [fd EXCEPT ![p] = None]
  /\ Go(p, "size")
  /\ UNCHANGED <<files, saved, trees, cmd, at, memory, seen, offset, tries,
                 stop, verdict>>

\* part.stat(): a wrong length keeps the file, a missing one is an error.
CheckSize(p) ==
  /\ pc[p] = "size" /\ UNCHANGED faults
  /\ IF part[at[p]] # None /\ PartLength(at[p]) = Size
     THEN Go(p, "hash")
          /\ UNCHANGED <<files, saved, trees, cmd, at, memory, stream, stop,
                         verdict>>
     ELSE Failed(p) /\ UNCHANGED part

\* Mutant: a file of the right length is taken for the right file.
TrustLength(p) ==
  /\ pc[p] = "hash" /\ UNCHANGED faults
  /\ Go(p, "place")
  /\ UNCHANGED <<files, saved, trees, cmd, at, memory, stream, stop, verdict>>

\* sha256_file(part): a wrong hash removes the file.
CheckHash(p) ==
  /\ pc[p] = "hash" /\ UNCHANGED faults
  /\ IF Whole(part[at[p]])
     THEN Go(p, "place")
          /\ UNCHANGED <<files, saved, trees, cmd, at, memory, stream, stop,
                         verdict>>
     ELSE Failed(p) /\ part' = [part EXCEPT ![at[p]] = None]

\* os.replace(part, destination), by name.
Place(p) ==
  /\ pc[p] = "place" /\ UNCHANGED faults
  /\ IF part[at[p]] # None
     THEN /\ dest' = [dest EXCEPT ![at[p]] = part[at[p]]]
          /\ part' = [part EXCEPT ![at[p]] = None]
          /\ Go(p, "placed")
          /\ UNCHANGED <<data, saved, trees, cmd, at, memory, stream, stop,
                         verdict>>
     ELSE Failed(p) /\ UNCHANGED part

RowInstalled(p) ==
  /\ pc[p] = "placed"
  /\ SaveRow(p, "there") /\ Advance(p)
  /\ UNCHANGED <<files, consent, trees, cmd, held, stream, stop, verdict,
                 faults>>

----------------------------------------------------------------------------
(* Unpacking: _safe_extract_punkt and _safe_extract_silero rename a        *)
(* staging directory, extract_zip_verified empties the destination and     *)
(* moves its members one by one.                                           *)

\* What the command unpacks: an install always unpacks punkt again, the
\* others are unpacked when they are missing or do not verify.
Wanted(p, a) ==
  IF a \in Swapped \ Restored THEN cmd[p] = "install"
  ELSE IF a \in Restored THEN tree[a] = "none"
  ELSE tree[a] # "whole"

NextArchive(p) == at' = [at EXCEPT ![p] = @ + 1]

SkipArchive(p) ==
  /\ pc[p] = "unpack" /\ at[p] \in Assets
  /\ at[p] \in Archives => ~Wanted(p, at[p])
  /\ NextArchive(p)
  /\ UNCHANGED <<files, saved, trees, pc, cmd, memory, stream, stop, verdict,
                 faults>>

\* The archive is read into a staging directory; a bad one is refused.
\* `ready` goes on without an archive, an install fails.
Unpack(p) ==
  /\ pc[p] = "unpack" /\ at[p] \in Archives /\ Wanted(p, at[p])
  /\ UNCHANGED <<files, saved, trees, cmd, memory, seen, offset, tries, stop,
                 verdict, faults>>
  /\ IF AssetReady(at[p])
     THEN Go(p, "staged") /\ UNCHANGED <<at, fd>>
     ELSE IF cmd[p] = "check"
          THEN NextArchive(p) /\ UNCHANGED <<pc, fd>>
          ELSE Exit(p) /\ UNCHANGED at

\* The old tree leaves: renamed away, or emptied file by file.
Retire(p) ==
  /\ pc[p] = "staged"
  /\ tree' = [tree EXCEPT ![at[p]] = "none"]
  /\ backup' = [backup EXCEPT ![at[p]] =
                  @ \/ (at[p] \in Swapped /\ tree[at[p]] # "none")]
  /\ Go(p, "retired")
  /\ UNCHANGED <<files, saved, cmd, at, memory, stream, stop, verdict, faults>>

\* Mutant: every archive is unpacked where it will be used.
MoveSomeAnywhere(p) ==
  /\ pc[p] = "retired" /\ tree[at[p]] = "none"
  /\ tree' = [tree EXCEPT ![at[p]] = "part"]
  /\ UNCHANGED <<files, saved, backup, pc, cmd, at, memory, stream, stop,
                 verdict, faults>>

\* Members moved one at a time are there before the last one is.
MoveSome(p) ==
  /\ pc[p] = "retired" /\ at[p] \notin Swapped /\ tree[at[p]] = "none"
  /\ tree' = [tree EXCEPT ![at[p]] = "part"]
  /\ UNCHANGED <<files, saved, backup, pc, cmd, at, memory, stream, stop,
                 verdict, faults>>

\* The new tree arrives, and the ".previous" directory is removed.
Publish(p) ==
  /\ pc[p] = "retired"
  /\ at[p] \in Swapped \/ tree[at[p]] = "part"
  /\ tree' = [tree EXCEPT ![at[p]] = "whole"]
  /\ backup' = [backup EXCEPT ![at[p]] = FALSE]
  /\ Go(p, "unpack") /\ NextArchive(p)
  /\ UNCHANGED <<files, saved, cmd, memory, stream, stop, verdict, faults>>

\* The rename fails: the previous tree is put back and the error raised.
PublishFails(p) ==
  /\ pc[p] = "retired" /\ at[p] \in Swapped /\ Fault
  /\ tree' = [tree EXCEPT ![at[p]] = IF backup[at[p]] THEN "whole" ELSE @]
  /\ backup' = [backup EXCEPT ![at[p]] = FALSE]
  /\ Exit(p)
  /\ UNCHANGED <<files, saved, cmd, at, memory, seen, offset, tries, stop,
                 verdict>>

----------------------------------------------------------------------------
(* managed.ready hashes every asset, unpacks what `ready` repairs and then *)
(* looks: a swapped tree counts when it exists, another when its files     *)
(* hash right.                                                             *)

HashAll(p) ==
  /\ pc[p] = "hash all"
  /\ Go(p, "unpack")
  /\ verdict' = [verdict EXCEPT ![p] =
                   IF \A a \in Assets : AssetReady(a) THEN "hashed" ELSE "no"]
  /\ UNCHANGED <<files, saved, trees, cmd, at, memory, stream, stop, faults>>

Looks(a) == IF a \in Swapped THEN tree[a] # "none" ELSE tree[a] = "whole"

Done(p) ==
  /\ pc[p] = "unpack" /\ at[p] = NAssets + 1
  /\ verdict' = [verdict EXCEPT ![p] =
       IF cmd[p] # "check" THEN @
       ELSE IF @ = "hashed" /\ \A a \in Archives : Looks(a) THEN "yes"
       ELSE "no"]
  /\ Exit(p)
  /\ UNCHANGED <<files, saved, trees, cmd, at, memory, seen, offset, tries,
                 stop, faults>>

----------------------------------------------------------------------------
(* The sidecar is killed (cancel_setup, a crash); the files stay.          *)
Kill(p) ==
  /\ pc[p] # "off" /\ Fault
  /\ Exit(p)
  /\ UNCHANGED <<files, saved, trees, cmd, at, memory, seen, offset, tries,
                 stop, verdict>>

\* Bytes of an installed asset change on the disk.
Rot(a) ==
  /\ dest[a] # None /\ ~data[dest[a]].rot /\ Fault
  /\ data' = [data EXCEPT ![dest[a]].rot = TRUE]
  /\ UNCHANGED <<part, dest, saved, trees, pc, cmd, at, memory, stream, stop,
                 verdict>>

Download(p) ==
  \/ Reuse(p) \/ Refuse(p) \/ Prepare(p) \/ Resume(p) \/ Cancelled(p)
  \/ Busy(p) \/ NoAnswer(p) \/ RestartClean(p) \/ Answered(p)
  \/ \E good \in BOOLEAN : Chunk(p, good)
  \/ Interrupted(p) \/ BodyEnds(p) \/ CheckSize(p) \/ CheckHash(p)
  \/ Place(p) \/ RowInstalled(p)

Unpacking(p) ==
  SkipArchive(p) \/ Unpack(p) \/ Retire(p) \/ MoveSome(p) \/ Publish(p)
  \/ PublishFails(p) \/ HashAll(p) \/ Done(p)

Step(p) == Grant(p) \/ Download(p) \/ Unpacking(p)

Next ==
  \/ \E p \in Procs :
       \/ \E c \in Commands, a \in Assets : Launch(p, c, a)
       \/ Step(p) \/ Cancel(p) \/ Kill(p)
  \/ \E a \in Assets : Rot(a)

Spec == Init /\ [][Next]_vars

(***************************************************************************)
(* A command runs on while nothing stops it, and the user keeps asking for *)
(* the installation; what hinders it is bounded by MaxFaults.              *)
(***************************************************************************)
Fairness ==
  \A p \in Procs : WF_vars(Step(p)) /\ SF_vars(Launch(p, "install", 1))

FairSpec == Spec /\ Fairness

----------------------------------------------------------------------------
TypeOK ==
  /\ part \in [Assets -> Inodes \cup {None}]
  /\ dest \in [Assets -> Inodes \cup {None}]
  /\ data \in [Inodes -> [len : 0 .. Limit, ok : BOOLEAN, rot : BOOLEAN]]
  /\ rows \in [Assets -> Statuses]
  /\ consent \in [ids : SUBSET Assets, budget : -1 .. NAssets]
  /\ tree \in [Archives -> {"none", "part", "whole"}]
  /\ backup \in [Archives -> BOOLEAN]
  /\ pc \in [Procs -> Positions] /\ cmd \in [Procs -> Commands]
  /\ at \in [Procs -> 1 .. NAssets + 1]
  /\ mem \in [Procs -> [Assets -> Statuses]]
  /\ held \in [Procs -> [ids : SUBSET Assets, budget : -1 .. NAssets]]
  /\ fd \in [Procs -> Inodes \cup {None}] /\ seen \in [Procs -> 0 .. Limit]
  /\ offset \in [Procs -> 0 .. Limit] /\ tries \in [Procs -> 0 .. MaxTries]
  /\ stop \in [Procs -> BOOLEAN]
  /\ verdict \in [Procs -> {"unasked", "hashed", "no", "yes"}]
  /\ faults \in 0 .. MaxFaults

(***************************************************************************)
(* runtime.py:3-7: what stands at a destination was verified before it got *)
(* there, whatever was killed, interrupted or resumed before.              *)
(***************************************************************************)
DestinationVerified == \A a \in Assets : dest[a] # None => Whole(dest[a])

(***************************************************************************)
(* The detailed downloads implement AssetStore: an asset goes from absent  *)
(* or damaged to verified in one step, and never back but by damage from   *)
(* outside ("existing destinations remain untouched on all failures").     *)
(***************************************************************************)
Store == INSTANCE AssetStore WITH installed <-
  [a \in Assets |-> IF dest[a] = None THEN "absent"
                    ELSE IF ~Whole(dest[a]) THEN "unverified"
                    ELSE IF data[dest[a]].rot THEN "damaged"
                    ELSE "verified"]
StoreSpec == Store!Spec

(***************************************************************************)
(* ASR runs when managed.ready says so.  It looks at the swapped trees by  *)
(* name only, so a tree must never be there half unpacked, whatever was    *)
(* killed while it was unpacked.                                           *)
(***************************************************************************)
Unpacked == \A a \in Archives : tree[a] = "whole"
ReadyIsTrue ==
  [][\A p \in Procs : verdict'[p] = "yes" /\ verdict[p] # "yes"
       => Unpacked /\ \A a \in Assets : Whole(dest[a])]_vars

(***************************************************************************)
(* Whatever earlier attempts left behind (a part file that is too long, of *)
(* wrong bytes or of wrong length, a tree renamed away, half an unpacked   *)
(* archive, a narrower consent), installing again gets everything there.   *)
(***************************************************************************)
Usable == Unpacked /\ \A a \in Assets : AssetReady(a)
SetupRepairs == []<>Usable

=============================================================================
