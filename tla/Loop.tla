---------------------------------- MODULE Loop --------------------------------
(***************************************************************************)
(* insights/calibration.py: what becomes of the reels.  A sync lists the   *)
(* new ones, fills in linked ones it has no row of, appends a snapshot of  *)
(* the figures of every linked reel where one is due, and fits the scoring *)
(* constants once there are enough outcomes.  Two syncs may overlap (ig    *)
(* sync is its own process and takes no lock), and each of their accesses  *)
(* to the database is a transaction of its own.                            *)
(*                                                                         *)
(* `clipgauge ig link` refuses every job of this version (it reads version *)
(* 1 of the score), so the links are those of an earlier release.  Reels   *)
(* are numbered in the order in which they were posted; figures, captions, *)
(* thumbnails and the token are left out, as is the most that is listed.   *)
(***************************************************************************)
EXTENDS Attempt, FiniteSetsExt, SequencesExt

CONSTANTS
  MaxReels,     \* bound: reels on Instagram
  MaxHours,     \* bound: the clock
  Rungs,        \* RUNGS_H
  QualifyHours, \* QUALIFY_MIN_AGE_H
  FitMinimum,   \* FIT_MIN_OUTCOMES
  FitStep,      \* FIT_MIN_NEW
  MaxSyncs      \* bound: how often a sync or a pull is started

ASSUME LoopAssumption ==
  /\ {MaxReels, MaxHours, QualifyHours, FitMinimum, FitStep, MaxSyncs} \subseteq Nat
  /\ IsFiniteSet(Rungs) /\ Rungs \subseteq Nat /\ FitMinimum > 0

VARIABLES
  clock,
  posted,    \* when each reel was posted
  row,       \* its row in ig_media: none, known, or deleted
  linked,    \* the reels in published_clips
  snapshots, \* the ages at which figures of each reel were taken
  fits,      \* fitted_from_n of each version of the constants
  syncs,     \* the syncs under way
  started,   \* how many syncs and pulls were started
  crowded,   \* history: two of them overlapped, or figures were pulled by hand
  broken     \* history: a sync ended in the middle of its list

loopVars ==
  <<clock, posted, row, linked, snapshots, fits, syncs, started, crowded, broken>>

Reels == DOMAIN posted
AgeOf(r, now) == now - posted[r]
NoSync == [step |-> "off", todo |-> {}, now |-> 0, count |-> 0]

NoLoop ==
  /\ clock = 0 /\ posted = <<>> /\ row = <<>> /\ linked = {} /\ snapshots = <<>>
  /\ fits = <<>> /\ syncs = <<>> /\ started = 0 /\ crowded = FALSE /\ broken = FALSE

\* Some reels were posted and linked before; the first is an hour older.
BeginLoop ==
  /\ clock' = 1 /\ posted' = <<0, 1>> /\ \E l \in SUBSET {1, 2} : linked' = l
  /\ row' = <<"none", "none">> /\ snapshots' = <<<<>>, <<>>>> /\ fits' = <<>>
  /\ syncs' = <<NoSync, NoSync>> /\ started' = 0 /\ crowded' = FALSE /\ broken' = FALSE

Sync(s, step, todo) == syncs' = [syncs EXCEPT ![s].step = step, ![s].todo = todo]
Off(s) == syncs' = [syncs EXCEPT ![s] = NoSync]
Proceed == at = "loop" /\ Goto("start")

-----------------------------------------------------------------------------
\* The world: time passes, a reel is posted, the user unlinks one.
TimePasses ==
  /\ Proceed /\ clock < MaxHours /\ clock' = clock + 1
  /\ UNCHANGED <<posted, row, linked, snapshots, fits, syncs, started, crowded, broken>>

Publish ==
  /\ Proceed /\ Len(posted) < MaxReels
  /\ posted' = Append(posted, clock) /\ row' = Append(row, "none")
  /\ snapshots' = Append(snapshots, <<>>)
  /\ UNCHANGED <<clock, linked, fits, syncs, started, crowded, broken>>

Unlink ==
  /\ Proceed /\ started < MaxSyncs /\ started' = started + 1
  /\ \E r \in linked : linked' = linked \ {r}
  /\ UNCHANGED <<clock, posted, row, snapshots, fits, syncs, crowded, broken>>

-----------------------------------------------------------------------------
StartSync(s) ==
  /\ Proceed /\ syncs[s].step = "off" /\ started < MaxSyncs /\ started' = started + 1
  /\ \A t \in DOMAIN syncs : t < s => syncs[t].step # "off"
  /\ Sync(s, "list", {})
  /\ crowded' = (crowded \/ \E t \in DOMAIN syncs : syncs[t].step # "off")
  /\ UNCHANGED <<clock, posted, row, linked, snapshots, fits, broken>>

\* recent_media: from the newest on, up to the first that has a row.
Known == {r \in Reels : row[r] # "none"}
Unseen == {r \in Reels : \A k \in Known : k < r}

\* A variant that fills in the linked ones before it lists the new ones.
ListLate(s) ==
  /\ Proceed /\ syncs[s].step = "list"
  /\ Sync(s, "upsert", {r \in Reels : \A k \in Known \cup linked : k < r})
  /\ row' = [r \in Reels |-> IF r \in linked \ Known THEN "known" ELSE row[r]]
  /\ UNCHANGED <<clock, posted, linked, snapshots, fits, started, crowded, broken>>
List(s) ==
  /\ Proceed /\ syncs[s].step = "list" /\ Sync(s, "upsert", Unseen)
  /\ UNCHANGED <<clock, posted, row, linked, snapshots, fits, started, crowded, broken>>

Writes(s, r, step) ==
  /\ row' = [row EXCEPT ![r] = "known"] /\ Sync(s, step, syncs[s].todo \ {r})
  /\ UNCHANGED <<clock, posted, linked, snapshots, fits, started, crowded, broken>>

\* upsert_media, for the newest that is left.
Upsert(s) ==
  /\ Proceed /\ syncs[s].step = "upsert" /\ syncs[s].todo # {}
  /\ Writes(s, Max(syncs[s].todo), "upsert")

FindMissing(s) ==
  /\ Proceed /\ syncs[s].step = "upsert" /\ syncs[s].todo = {}
  /\ Sync(s, "backfill", {r \in linked : row[r] = "none"})
  /\ UNCHANGED <<clock, posted, row, linked, snapshots, fits, started, crowded, broken>>

Backfill(s) ==
  /\ Proceed /\ syncs[s].step = "backfill"
  /\ syncs[s].todo # {} /\ Writes(s, Min(syncs[s].todo), "backfill")

\* media_node refuses: the reel has no row after this sync either.
BackfillFails(s) ==
  /\ at = "loop" /\ syncs[s].step = "backfill" /\ syncs[s].todo # {}
  /\ Trouble("start") /\ Sync(s, "backfill", syncs[s].todo \ {Min(syncs[s].todo)})
  /\ UNCHANGED <<clock, posted, row, linked, snapshots, fits, started, crowded, broken>>

\* The linked reels, and the time against which their figures are due.
FindLinked(s) ==
  /\ Proceed /\ syncs[s].step = "backfill" /\ syncs[s].todo = {}
  /\ syncs' = [syncs EXCEPT ![s] = [step |-> "ladder", now |-> clock, count |-> 0,
                                    todo |-> {r \in linked : row[r] = "known"}]]
  /\ UNCHANGED <<clock, posted, row, linked, snapshots, fits, started, crowded, broken>>

\* insights_due: no snapshot at or past the last rung that was passed.
LastRung(age) == {g \in Rungs : g <= age /\ \A h \in Rungs : h <= age => h <= g}
\* A variant that wants one past the rung itself.
DueLate(r, now) ==
  \E g \in LastRung(AgeOf(r, now)) : \A a \in ToSet(snapshots[r]) : a <= g
Due(r, now) ==
  \E g \in LastRung(AgeOf(r, now)) : \A a \in ToSet(snapshots[r]) : a < g

Turn(s) == Min(syncs[s].todo)

NotDue(s) ==
  /\ Proceed /\ syncs[s].step = "ladder" /\ syncs[s].todo # {}
  /\ ~Due(Turn(s), syncs[s].now) /\ Sync(s, "ladder", syncs[s].todo \ {Turn(s)})
  /\ UNCHANGED <<clock, posted, row, linked, snapshots, fits, started, crowded, broken>>

AskFigures(s) ==
  /\ Proceed /\ syncs[s].step = "ladder" /\ syncs[s].todo # {}
  /\ Due(Turn(s), syncs[s].now)
  /\ syncs' = [syncs EXCEPT ![s].step = "pull", ![s].count = Turn(s),
                            ![s].todo = @ \ {Turn(s)}]
  /\ UNCHANGED <<clock, posted, row, linked, snapshots, fits, started, crowded, broken>>

\* store_metrics: the age is that of the moment.
Store(r) == snapshots' = [snapshots EXCEPT ![r] = Append(@, AgeOf(r, clock))]

Pulled(s) ==
  /\ Proceed /\ syncs[s].step = "pull" /\ Sync(s, "ladder", syncs[s].todo)
  /\ Store(syncs[s].count)
  /\ UNCHANGED <<clock, posted, row, linked, fits, started, crowded, broken>>

\* Instagram does not have the reel (any more), or fails otherwise.
PullFails(s) ==
  /\ at = "loop" /\ syncs[s].step = "pull" /\ Trouble("start")
  /\ Sync(s, "ladder", syncs[s].todo)
  /\ \/ row' = [row EXCEPT ![syncs[s].count] = "deleted"] \/ UNCHANGED row
  /\ UNCHANGED <<clock, posted, linked, snapshots, fits, started, crowded, broken>>

\* `ig pull` asks for the figures of every linked reel, due or not.
PullByHand ==
  /\ Proceed /\ started < MaxSyncs /\ started' = started + 1 /\ crowded' = TRUE
  /\ \E given \in SUBSET linked :
       snapshots' = [r \in Reels |-> IF r \in given
                       THEN Append(snapshots[r], AgeOf(r, clock)) ELSE snapshots[r]]
  /\ UNCHANGED <<clock, posted, row, linked, fits, syncs, broken>>

-----------------------------------------------------------------------------
\* qualifying_outcomes: linked reels with a snapshot that is nearly stable.
Outcomes ==
  Cardinality({r \in linked : \E a \in ToSet(snapshots[r]) : a >= QualifyHours})

FitDue(n) == n >= FitMinimum /\ (fits = <<>> \/ n - Last(fits) >= FitStep)

\* The grid search starts from what it reads here, and saves when it is done.
Fit(s) ==
  /\ Proceed /\ syncs[s].step = "ladder" /\ syncs[s].todo = {}
  /\ IF FitDue(Outcomes)
       THEN syncs' = [syncs EXCEPT ![s].step = "save", ![s].count = Outcomes]
       ELSE Off(s)
  /\ UNCHANGED <<clock, posted, row, linked, snapshots, fits, started, crowded, broken>>

\* The refit beat the active constants on the outcomes held out, or did not.
SaveFit(s) ==
  /\ Proceed /\ syncs[s].step = "save" /\ Off(s)
  /\ fits' \in {fits, Append(fits, syncs[s].count)}
  /\ UNCHANGED <<clock, posted, row, linked, snapshots, started, crowded, broken>>

(***************************************************************************)
(* A sync ends early: the list is refused, an error of the network is not  *)
(* caught, or it is killed.                                                *)
(***************************************************************************)
SyncEnds(s) ==
  /\ at = "loop" /\ syncs[s].step # "off" /\ Trouble("start") /\ Off(s)
  /\ broken' = (broken \/ (syncs[s].step = "upsert" /\ syncs[s].todo # {}))
  /\ UNCHANGED <<clock, posted, row, linked, snapshots, fits, started, crowded>>

LoopNext ==
  \/ TimePasses \/ Publish \/ Unlink \/ PullByHand
  \/ \E s \in DOMAIN syncs :
       \/ StartSync(s) \/ List(s) \/ Upsert(s) \/ FindMissing(s) \/ Backfill(s)
       \/ BackfillFails(s) \/ FindLinked(s) \/ NotDue(s) \/ AskFigures(s)
       \/ Pulled(s) \/ PullFails(s) \/ Fit(s) \/ SaveFit(s) \/ SyncEnds(s)

-----------------------------------------------------------------------------
(***************************************************************************)
(* Unless syncs overlap or figures are pulled by hand, there is at most    *)
(* one snapshot of a reel for each rung of the ladder, and the constants   *)
(* are fitted only once there are enough new outcomes.                     *)
(***************************************************************************)
Paced ==
  ~crowded =>
    /\ \A r \in Reels : \A i, j \in DOMAIN snapshots[r] :
         i # j => LastRung(snapshots[r][i]) # LastRung(snapshots[r][j])
    /\ \A i \in DOMAIN fits :
         IF i = 1 THEN fits[i] >= FitMinimum ELSE fits[i] - fits[i - 1] >= FitStep

(***************************************************************************)
(* Between syncs the reels without a row are newer than all that have one, *)
(* and so the next sync lists them, unless one ended within its list.      *)
(***************************************************************************)
NoLostPosts ==
  ~broken /\ (\A s \in DOMAIN syncs : syncs[s].step = "off") /\ Known # {} =>
    \A r \in Reels \ Known : r \in Unseen
=============================================================================
