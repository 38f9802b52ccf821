---------------------------- MODULE Measures_proofs ----------------------------
(***************************************************************************)
(* Proofs about what is measured: the syncs of the reels (Loop), however   *)
(* many there are and however they overlap, and the events in the sound    *)
(* (Listening), in whatever pieces it is heard.                            *)
(***************************************************************************)
EXTENDS Listening, Loop, Clips_proofs, SequenceTheorems

Strides == {"off", "list", "upsert", "backfill", "ladder", "pull", "save"}
Syncings == [step : Strides, todo : SUBSET Nat, now : Nat, count : Nat]
Rows == {"none", "known", "deleted"}

LoopTyped ==
  /\ clock \in Nat /\ posted \in Seq(Nat) /\ \A r \in Reels : posted[r] <= clock
  /\ row \in [Reels -> Rows] /\ row \in Seq(Rows)
  /\ snapshots \in [Reels -> Seq(Nat)] /\ snapshots \in Seq(Seq(Nat))
  /\ linked \in SUBSET Reels /\ fits \in Seq(Nat)
  /\ syncs \in [DOMAIN syncs -> Syncings]
  /\ \A s \in DOMAIN syncs : syncs[s].todo \subseteq Reels /\ syncs[s].now <= clock

\* What a sync goes on with has a row.
Rowed ==
  \A s \in DOMAIN syncs :
    /\ syncs[s].step \in {"ladder", "pull"} => syncs[s].todo \subseteq Known
    /\ syncs[s].step = "pull" => syncs[s].count \in Known

-----------------------------------------------------------------------------
(***************************************************************************)
(* A reel is sighted if it has a row or is about to get one from a list.   *)
(* While no sync ends within its list, the reels that are not sighted are  *)
(* newer than those that are, and a sync that listed has sighted all that  *)
(* are linked.                                                             *)
(***************************************************************************)
Sighted == Known \cup UNION {syncs[s].todo : s \in {t \in DOMAIN syncs : syncs[t].step = "upsert"}}

Lined ==
  ~broken =>
    /\ \A r \in Sighted, p \in Reels : p < r => p \in Sighted
    /\ \A s \in DOMAIN syncs :
         /\ syncs[s].step \in {"upsert", "backfill"} => linked \subseteq Sighted
         /\ syncs[s].step = "backfill" => syncs[s].todo \subseteq Sighted

(***************************************************************************)
(* Where the syncs do not overlap, only one is under way, and what it has  *)
(* found due is still due.                                                 *)
(***************************************************************************)
StillDue(s) ==
  /\ syncs[s].step = "pull" => Due(syncs[s].count, syncs[s].now)
  /\ syncs[s].step = "save" => FitDue(syncs[s].count)
Alone ==
  ~crowded =>
    /\ \A s, t \in DOMAIN syncs : s # t => syncs[s].step = "off" \/ syncs[t].step = "off"
    /\ \A s \in DOMAIN syncs : StillDue(s)

LoopInv == LoopTyped /\ Rowed /\ Lined /\ Alone /\ Paced
-----------------------------------------------------------------------------
\* What becomes of a sync that takes a step.
Becomes(s, x) == syncs' = [t \in DOMAIN syncs |-> IF t = s THEN x ELSE syncs[t]]

LEMMA SyncIs ==
  ASSUME LoopTyped, NEW s \in DOMAIN syncs, NEW stride, NEW rs, Sync(s, stride, rs)
  PROVE  Becomes(s, [step |-> stride, todo |-> rs, now |-> syncs[s].now,
                     count |-> syncs[s].count])
<1> DEFINE one == [syncs EXCEPT ![s].step = stride]
           x == [step |-> stride, todo |-> rs, now |-> syncs[s].now,
                 count |-> syncs[s].count]
<1>1. syncs[s] \in Syncings /\ syncs \in [DOMAIN syncs -> Syncings]
  BY DEF LoopTyped
<1>2. /\ one = [t \in DOMAIN syncs |->
                  IF t = s THEN [syncs[s] EXCEPT !.step = stride] ELSE syncs[t]]
  BY <1>1
<1>3. syncs' = [one EXCEPT ![s].todo = rs]
  BY DEF Sync
<1>4. one[s] = [step |-> stride, todo |-> syncs[s].todo, now |-> syncs[s].now,
                count |-> syncs[s].count]
  BY <1>1, <1>2 DEF Syncings
<1>5. [one[s] EXCEPT !.todo = rs] = x
  <2> HIDE DEF one
  <2> QED BY <1>4
<1>6. DOMAIN one = DOMAIN syncs /\ \A t \in DOMAIN syncs : t # s => one[t] = syncs[t]
  BY <1>2
<1>7. syncs' = [t \in DOMAIN syncs |-> IF t = s THEN [one[s] EXCEPT !.todo = rs] ELSE one[t]]
  <2> HIDE DEF one
  <2> QED BY <1>3, <1>6
<1>8. syncs' = [t \in DOMAIN syncs |-> IF t = s THEN x ELSE syncs[t]]
  <2> HIDE DEF one, x
  <2> QED BY <1>5, <1>6, <1>7
<1> QED BY <1>8 DEF Becomes

LEMMA AskIs ==
  ASSUME LoopTyped, NEW s \in DOMAIN syncs, AskFigures(s)
  PROVE  Becomes(s, [step |-> "pull", todo |-> syncs[s].todo \ {Turn(s)},
                     now |-> syncs[s].now, count |-> Turn(s)])
<1> DEFINE one == [syncs EXCEPT ![s].step = "pull"]
           two == [one EXCEPT ![s].count = Turn(s)]
           a == [syncs[s] EXCEPT !.step = "pull"]
           b == [a EXCEPT !.count = Turn(s)]
           rs == syncs[s].todo \ {Turn(s)}
           x == [step |-> "pull", todo |-> rs, now |-> syncs[s].now, count |-> Turn(s)]
<1>1. syncs[s] \in Syncings /\ syncs \in [DOMAIN syncs -> Syncings]
  BY DEF LoopTyped
<1>2. one = [t \in DOMAIN syncs |-> IF t = s THEN a ELSE syncs[t]]
  BY <1>1
<1>3. a = [step |-> "pull", todo |-> syncs[s].todo, now |-> syncs[s].now,
           count |-> syncs[s].count]
  BY <1>1 DEF Syncings
<1>4. b = [step |-> "pull", todo |-> syncs[s].todo, now |-> syncs[s].now,
           count |-> Turn(s)]
  <2> HIDE DEF a
  <2> QED BY <1>3
<1>5. two = [t \in DOMAIN syncs |-> IF t = s THEN b ELSE syncs[t]]
  <2> HIDE DEF a, one
  <2> QED BY <1>2
<1>6. syncs' = [two EXCEPT ![s].todo = two[s].todo \ {Turn(s)}]
  BY DEF AskFigures
<1>7. [b EXCEPT !.todo = b.todo \ {Turn(s)}] = x
  <2> HIDE DEF b
  <2> QED BY <1>4
<1>8. syncs' = [t \in DOMAIN syncs |-> IF t = s THEN x ELSE syncs[t]]
  <2> HIDE DEF two, b, x
  <2> QED BY <1>5, <1>6, <1>7
<1> QED BY <1>8 DEF Becomes

LEMMA SaveIs ==
  ASSUME LoopTyped, NEW s \in DOMAIN syncs, NEW n,
         syncs' = [syncs EXCEPT ![s].step = "save", ![s].count = n]
  PROVE  Becomes(s, [step |-> "save", todo |-> syncs[s].todo, now |-> syncs[s].now,
                     count |-> n])
<1> DEFINE one == [syncs EXCEPT ![s].step = "save"]
           a == [syncs[s] EXCEPT !.step = "save"]
           x == [step |-> "save", todo |-> syncs[s].todo, now |-> syncs[s].now, count |-> n]
<1>1. syncs[s] \in Syncings /\ syncs \in [DOMAIN syncs -> Syncings]
  BY DEF LoopTyped
<1>2. one = [t \in DOMAIN syncs |-> IF t = s THEN a ELSE syncs[t]]
  BY <1>1
<1>3. a = [step |-> "save", todo |-> syncs[s].todo, now |-> syncs[s].now,
           count |-> syncs[s].count]
  BY <1>1 DEF Syncings
<1>4. [a EXCEPT !.count = n] = x
  <2> HIDE DEF a
  <2> QED BY <1>3
<1>5. syncs' = [one EXCEPT ![s].count = n]
  OBVIOUS
<1>6. syncs' = [t \in DOMAIN syncs |-> IF t = s THEN x ELSE syncs[t]]
  <2> HIDE DEF one, a, x
  <2> QED BY <1>2, <1>4, <1>5
<1> QED BY <1>6 DEF Becomes

\* The type of a state whose other variables did not change.
LEMMA TypedBy ==
  ASSUME LoopTyped, NEW s \in DOMAIN syncs, NEW x \in Syncings, Becomes(s, x),
         x.todo \subseteq Reels, x.now <= clock, UNCHANGED <<clock, posted, linked>>,
         row' \in [Reels -> Rows], row' \in Seq(Rows),
         snapshots' \in [Reels -> Seq(Nat)], snapshots' \in Seq(Seq(Nat)),
         fits' \in Seq(Nat)
  PROVE  LoopTyped'
<1>1. Reels' = Reels
  BY DEF Reels
<1>2. syncs' \in [DOMAIN syncs -> Syncings] /\ DOMAIN syncs' = DOMAIN syncs
  BY DEF Becomes, LoopTyped
<1>3. \A t \in DOMAIN syncs : syncs'[t].todo \subseteq Reels /\ syncs'[t].now <= clock
  BY DEF Becomes, LoopTyped
<1> QED BY <1>1, <1>2, <1>3 DEF LoopTyped

\* Of the reels that are left one is the newest and one the oldest.
LEMMA TurnIs ==
  ASSUME LoopTyped, NEW s \in DOMAIN syncs, syncs[s].todo # {}
  PROVE  /\ Turn(s) \in syncs[s].todo /\ Max(syncs[s].todo) \in syncs[s].todo
         /\ syncs[s].todo \in SUBSET Reels /\ Reels = 1 .. Len(posted) /\ Len(posted) \in Nat
<1>1. Reels = 1 .. Len(posted) /\ Len(posted) \in Nat
  BY DEF LoopTyped, Reels
<1>2. syncs[s].todo \in SUBSET Reels
  BY DEF LoopTyped
<1>3. syncs[s].todo \in SUBSET Nat /\ \A r \in syncs[s].todo : r <= Len(posted)
  BY <1>1, <1>2
<1> QED BY <1>1, <1>2, <1>3, MinIsLeast, MaxIsGreatest DEF Turn

LEMMA SyncTyped ==
  ASSUME LoopTyped, NEW s \in DOMAIN syncs
  PROVE  /\ syncs[s] \in Syncings /\ syncs[s].todo \subseteq Reels
         /\ syncs[s].now \in Nat /\ syncs[s].now <= clock /\ clock \in Nat
         /\ syncs[s].count \in Nat
<1>1. syncs \in [DOMAIN syncs -> Syncings] /\ clock \in Nat
  BY DEF LoopTyped
<1>2. syncs[s].todo \subseteq Reels /\ syncs[s].now <= clock
  BY DEF LoopTyped
<1>3. syncs[s] \in Syncings
  BY <1>1
<1>4. syncs[s].now \in Nat /\ syncs[s].count \in Nat
  BY <1>3 DEF Syncings
<1> QED BY <1>1, <1>2, <1>3, <1>4

LEMMA ReelsAre ==
  ASSUME LoopTyped
  PROVE  /\ posted \in Seq(Nat) /\ Len(posted) \in Nat /\ Reels = 1 .. Len(posted)
         /\ Reels \in SUBSET Nat /\ \A r \in Reels : posted[r] \in Nat
<1>1. posted \in Seq(Nat) /\ Reels = 1 .. Len(posted)
  BY DEF LoopTyped, Reels
<1>2. \A r \in 1 .. Len(posted) : posted[r] \in Nat
  BY <1>1
<1> QED BY <1>1, <1>2

LEMMA AgesAre == ASSUME LoopTyped, NEW r \in Reels PROVE AgeOf(r, clock) \in Nat
BY DEF LoopTyped, AgeOf, Reels

LEMMA OutcomesAre == ASSUME LoopTyped PROVE Outcomes \in Nat
<1>1. linked \in SUBSET (1 .. Len(posted)) /\ Len(posted) \in Nat
  BY DEF LoopTyped, Reels
<1> DEFINE some == {r \in linked : \E a \in ToSet(snapshots[r]) : a >= QualifyHours}
<1>2. some \in SUBSET (1 .. Len(posted)) /\ Outcomes = Cardinality(some)
  BY <1>1 DEF Outcomes
<1>3. IsFiniteSet(1 .. Len(posted))
  BY <1>1, CountTo
<1> HIDE DEF some
<1>4. IsFiniteSet(some)
  BY <1>2, <1>3, FS_Subset
<1> QED BY <1>2, <1>4, FS_CardinalityType

LEMMA TypedKept ==
  ASSUME LoopAssumption, LoopTyped, Rowed, LoopNext
  PROVE  LoopTyped'
<1> DEFINE now(s) == syncs[s].now
           old(s) == syncs[s].count
           Still == /\ UNCHANGED <<clock, posted, linked>>
                    /\ row' \in [Reels -> Rows] /\ row' \in Seq(Rows)
                    /\ snapshots' \in [Reels -> Seq(Nat)] /\ snapshots' \in Seq(Seq(Nat))
                    /\ fits' \in Seq(Nat)
<1>1. UNCHANGED <<clock, posted, linked, row, snapshots, fits>> => Still
  BY DEF LoopTyped
<1>2. ASSUME NEW s \in DOMAIN syncs
      PROVE  syncs[s] \in Syncings /\ syncs[s].todo \subseteq Reels /\ syncs[s].now <= clock
             /\ Reels \in SUBSET Nat
  BY SyncTyped, ReelsAre
<1>3. ASSUME NEW s \in DOMAIN syncs, NEW stride \in Strides, NEW rs, Sync(s, stride, rs),
             rs \subseteq Reels, Still
      PROVE  LoopTyped'
  <2> DEFINE x == [step |-> stride, todo |-> rs, now |-> now(s), count |-> old(s)]
  <2>1. x \in Syncings /\ x.todo \subseteq Reels /\ x.now <= clock
    BY <1>2, <1>3 DEF Syncings
  <2>2. Becomes(s, x)
    BY <1>3, SyncIs
  <2> HIDE DEF x
  <2> QED BY <2>1, <2>2, <1>3, TypedBy
<1>4. ASSUME NEW s \in DOMAIN syncs, Off(s), Still PROVE LoopTyped'
  <2>1. NoSync \in Syncings /\ NoSync.todo \subseteq Reels /\ NoSync.now <= clock
    BY DEF NoSync, Syncings, Strides, LoopTyped
  <2>2. Becomes(s, NoSync)
    <3>1. syncs \in [DOMAIN syncs -> Syncings]
      BY DEF LoopTyped
    <3>2. syncs' = [syncs EXCEPT ![s] = NoSync]
      BY <1>4 DEF Off
    <3> QED BY <3>1, <3>2 DEF Becomes
  <2> QED BY <2>1, <2>2, <1>4, TypedBy
<1>5. CASE TimePasses
  <2>1. /\ clock' = clock + 1 /\ UNCHANGED <<posted, row, linked, snapshots, fits, syncs>>
        /\ UNCHANGED Reels
    BY <1>5 DEF TimePasses, Reels
  <2>2. /\ clock \in Nat /\ \A r \in Reels : posted[r] \in Nat /\ posted[r] <= clock
        /\ \A s \in DOMAIN syncs : syncs[s].now \in Nat /\ syncs[s].now <= clock
    <3>1. ASSUME NEW r \in Reels PROVE posted[r] \in Nat
      BY ReelsAre
    <3>2. ASSUME NEW s \in DOMAIN syncs PROVE syncs[s].now \in Nat
      BY SyncTyped
    <3> QED BY <3>1, <3>2 DEF LoopTyped
  <2>3. /\ clock' \in Nat /\ \A r \in Reels : posted[r] <= clock'
        /\ \A s \in DOMAIN syncs : syncs[s].now <= clock'
    BY <2>1, <2>2
  <2> QED BY <2>1, <2>3 DEF LoopTyped
<1>6. CASE Publish
  <2>1. /\ posted' = Append(posted, clock) /\ row' = Append(row, "none")
        /\ snapshots' = Append(snapshots, <<>>)
        /\ UNCHANGED <<clock, linked, fits, syncs>>
    BY <1>6 DEF Publish
  <2>2. posted' \in Seq(Nat) /\ Reels' = 1 .. Len(posted) + 1 /\ Reels \subseteq Reels'
        /\ \A r \in Reels' : posted'[r] <= clock
    <3>1. posted \in Seq(Nat) /\ clock \in Nat /\ Reels = 1 .. Len(posted)
          /\ \A r \in 1 .. Len(posted) : posted[r] <= clock
      BY ReelsAre DEF LoopTyped
    <3> DEFINE p == Append(posted, clock)
               n == Len(posted)
    <3>2. p \in Seq(Nat) /\ Len(p) = n + 1 /\ n \in Nat /\ p[n + 1] = clock
          /\ \A r \in 1 .. n : p[r] = posted[r]
      BY <3>1
    <3>3. posted' = p /\ Reels' = 1 .. n + 1 /\ 1 .. n \subseteq 1 .. n + 1
      BY <2>1, <3>2 DEF Reels
    <3> HIDE DEF p, n
    <3>4. ASSUME NEW r \in 1 .. n + 1 PROVE p[r] <= clock
      <4>1. p[n + 1] <= clock
        <5>1. clock <= clock
          BY <3>1
        <5> QED BY <3>2, <5>1
      <4>2. ASSUME NEW q \in 1 .. n PROVE p[q] <= clock
        <5>1. p[q] = posted[q] /\ posted[q] <= clock
          BY <3>1, <3>2 DEF n
        <5> QED BY <5>1
      <4>3. r \in 1 .. n \/ r = n + 1
        BY <3>2
      <4> QED BY Zenon, <4>1, <4>2, <4>3
    <3> QED BY <3>1, <3>2, <3>3, <3>4 DEF n
  <2>3. row' \in Seq(Rows) /\ Len(row') = Len(posted) + 1
    BY <2>1 DEF LoopTyped, Reels, Rows
  <2>4. snapshots' \in Seq(Seq(Nat)) /\ Len(snapshots') = Len(posted) + 1
    <3>1. <<>> \in Seq(Nat) /\ snapshots \in Seq(Seq(Nat)) /\ Len(snapshots) = Len(posted)
      BY DEF LoopTyped, Reels
    <3> QED BY <3>1, <2>1
  <2>5. row' \in [Reels' -> Rows] /\ snapshots' \in [Reels' -> Seq(Nat)]
    BY <2>2, <2>3, <2>4
  <2> QED BY <2>1, <2>2, <2>3, <2>4, <2>5 DEF LoopTyped
<1>7. CASE Unlink
  BY <1>7 DEF Unlink, LoopTyped, Reels
<1>8. CASE PullByHand
  <2>1. PICK given \in SUBSET linked :
          snapshots' = [r \in Reels |-> IF r \in given
                          THEN Append(snapshots[r], AgeOf(r, clock)) ELSE snapshots[r]]
    BY <1>8 DEF PullByHand
  <2>2. ASSUME NEW r \in Reels
        PROVE  Append(snapshots[r], AgeOf(r, clock)) \in Seq(Nat) /\ snapshots[r] \in Seq(Nat)
    BY AgesAre DEF LoopTyped
  <2>3. snapshots' \in [Reels -> Seq(Nat)]
    BY <2>1, <2>2
  <2>4. snapshots' \in Seq(Seq(Nat))
    BY <2>3, IsASeq DEF LoopTyped, Reels
  <2> QED BY <1>8, <2>3, <2>4 DEF PullByHand, LoopTyped, Reels
<1> HIDE DEF Still
<1>9. ASSUME NEW s \in DOMAIN syncs, \/ StartSync(s) \/ List(s) \/ FindMissing(s)
                                     \/ NotDue(s) \/ BackfillFails(s)
      PROVE  LoopTyped'
  <2>1. Still
    BY <1>9, <1>1 DEF StartSync, List, FindMissing, NotDue, BackfillFails
  <2>2. PICK stride \in Strides, rs \in SUBSET Reels : Sync(s, stride, rs)
    <3>1. Unseen \in SUBSET Reels /\ {r \in linked : row[r] = "none"} \in SUBSET Reels
          /\ \A r : syncs[s].todo \ {r} \in SUBSET Reels
      BY <1>2 DEF Unseen, LoopTyped
    <3> QED BY <1>9, <3>1 DEF StartSync, List, FindMissing, NotDue, BackfillFails, Strides
  <2> QED BY <2>1, <2>2, <1>3
<1>10. ASSUME NEW s \in DOMAIN syncs, Upsert(s) \/ Backfill(s) PROVE LoopTyped'
  <2>1. PICK r \in syncs[s].todo, stride \in {"upsert", "backfill"} : Writes(s, r, stride)
    BY <1>10, TurnIs DEF Upsert, Backfill, Turn
  <2>2. r \in Reels
    BY <1>2
  <2>3. row' \in [Reels -> Rows] /\ row' \in Seq(Rows)
    BY <2>1, <2>2 DEF Writes, LoopTyped, Rows, Reels
  <2>4. Still
    BY <2>1, <2>3 DEF Still, Writes, LoopTyped
  <2> QED BY <2>1, <2>4, <1>2, <1>3 DEF Writes, Strides
<1>11. ASSUME NEW s \in DOMAIN syncs, FindLinked(s) PROVE LoopTyped'
  <2> DEFINE x == [step |-> "ladder", now |-> clock, count |-> 0,
                   todo |-> {r \in linked : row[r] = "known"}]
  <2>1. Becomes(s, x)
    BY <1>11 DEF FindLinked, Becomes, LoopTyped
  <2>2. x \in Syncings /\ x.todo \subseteq Reels /\ x.now <= clock
    BY <1>2 DEF LoopTyped, Syncings, Strides
  <2>3. Still
    BY <1>11, <1>1 DEF FindLinked
  <2> HIDE DEF x
  <2> QED BY <2>1, <2>2, <2>3, TypedBy DEF Still
<1>12. ASSUME NEW s \in DOMAIN syncs, AskFigures(s) PROVE LoopTyped'
  <2> DEFINE x == [step |-> "pull", todo |-> syncs[s].todo \ {Turn(s)},
                   now |-> syncs[s].now, count |-> Turn(s)]
  <2>1. Becomes(s, x)
    BY <1>12, AskIs
  <2>2. Turn(s) \in Reels
    BY <1>12, TurnIs DEF AskFigures
  <2>3. x \in Syncings /\ x.todo \subseteq Reels /\ x.now <= clock
    BY <1>2, <2>2 DEF Syncings, Strides
  <2>4. Still
    BY <1>12, <1>1 DEF AskFigures
  <2> HIDE DEF x
  <2> QED BY <2>1, <2>3, <2>4, TypedBy DEF Still
<1>13. ASSUME NEW s \in DOMAIN syncs, Pulled(s) PROVE LoopTyped'
  <2>1. syncs[s].count \in Reels
    BY <1>13 DEF Pulled, Rowed, Known
  <2>2. snapshots' = [snapshots EXCEPT ![syncs[s].count] =
                        Append(@, AgeOf(syncs[s].count, clock))]
    BY <1>13 DEF Pulled, Store
  <2>3. snapshots' \in [Reels -> Seq(Nat)] /\ snapshots' \in Seq(Seq(Nat))
    <3>1. Append(snapshots[syncs[s].count], AgeOf(syncs[s].count, clock)) \in Seq(Nat)
      <4>3. snapshots \in [Reels -> Seq(Nat)]
        BY DEF LoopTyped
      <4>1. snapshots[syncs[s].count] \in Seq(Nat)
        BY <2>1, <4>3
      <4>2. AgeOf(syncs[s].count, clock) \in Nat
        BY <2>1, AgesAre
      <4> QED BY <4>1, <4>2
    <3>2. snapshots' \in [Reels -> Seq(Nat)]
      BY <2>2, <3>1 DEF LoopTyped
    <3>3. Reels = 1 .. Len(posted) /\ Len(posted) \in Nat
      BY ReelsAre
    <3> QED BY <3>2, <3>3, ListsAre
  <2>4. Still
    BY <1>13, <2>3 DEF Pulled, Still, LoopTyped
  <2> QED BY <1>13, <2>4, <1>2, <1>3 DEF Pulled, Strides
<1>14. ASSUME NEW s \in DOMAIN syncs, PullFails(s) PROVE LoopTyped'
  <2>1. syncs[s].count \in Reels
    BY <1>14 DEF PullFails, Rowed, Known
  <2>2. row' \in [Reels -> Rows] /\ row' \in Seq(Rows)
    <3>1. row' = row \/ row' = [row EXCEPT ![syncs[s].count] = "deleted"]
      BY <1>14 DEF PullFails
    <3>2. row' \in [Reels -> Rows]
      BY <3>1, <2>1 DEF LoopTyped, Rows
    <3> QED BY <3>2, ReelsAre, ListsAre
  <2>3. Still
    BY <1>14, <2>2 DEF PullFails, Still, LoopTyped
  <2> QED BY <1>14, <2>3, <1>2, <1>3 DEF PullFails, Strides
<1>15. Outcomes \in Nat
  BY OutcomesAre
<1>16. ASSUME NEW s \in DOMAIN syncs, Fit(s) PROVE LoopTyped'
  <2>1. Still
    BY <1>16, <1>1 DEF Fit
  <2>2. CASE Off(s)
    BY <2>1, <2>2, <1>4
  <2>3. CASE syncs' = [syncs EXCEPT ![s].step = "save", ![s].count = Outcomes]
    <3> DEFINE x == [step |-> "save", todo |-> syncs[s].todo, now |-> syncs[s].now,
                     count |-> Outcomes]
    <3>1. Becomes(s, x)
      BY <2>3, SaveIs
    <3>2. x \in Syncings /\ x.todo \subseteq Reels /\ x.now <= clock
      BY <1>2, <1>15 DEF Syncings, Strides
    <3> HIDE DEF x
    <3> QED BY <3>1, <3>2, <2>1, TypedBy DEF Still
  <2> QED BY <2>2, <2>3, <1>16 DEF Fit
<1>17. ASSUME NEW s \in DOMAIN syncs, SaveFit(s) \/ SyncEnds(s) PROVE LoopTyped'
  <2>1. Off(s)
    BY <1>17 DEF SaveFit, SyncEnds
  <2>2. fits' \in Seq(Nat)
    <3>1. syncs[s].count \in Nat /\ fits \in Seq(Nat)
      BY <1>2 DEF Syncings, LoopTyped
    <3>2. fits' = fits \/ fits' = Append(fits, syncs[s].count)
      BY <1>17 DEF SaveFit, SyncEnds
    <3>3. Append(fits, syncs[s].count) \in Seq(Nat)
      BY <3>1, AppendProperties
    <3> QED BY Zenon, <3>1, <3>2, <3>3
  <2>3. Still
    BY <1>17, <2>2 DEF SaveFit, SyncEnds, Still, LoopTyped
  <2> QED BY <2>1, <2>3, <1>4
<1> QED BY <1>5, <1>6, <1>7, <1>8, <1>9, <1>10, <1>11, <1>12, <1>13, <1>14, <1>16, <1>17
    DEF LoopNext

-----------------------------------------------------------------------------
\* A row is never removed.
LEMMA KnownGrows ==
  ASSUME LoopTyped, LoopNext
  PROVE  Known \subseteq Known'
<1>1. ASSUME UNCHANGED <<posted, row>> PROVE Known \subseteq Known'
  BY <1>1 DEF Known, Reels
<1>2. CASE TimePasses \/ Unlink \/ PullByHand
  BY <1>2, <1>1 DEF TimePasses, Unlink, PullByHand
<1>3. CASE Publish
  BY <1>3 DEF Publish, LoopTyped, Known, Reels
<1>4. ASSUME NEW s \in DOMAIN syncs,
             \/ StartSync(s) \/ List(s) \/ FindMissing(s) \/ BackfillFails(s)
             \/ FindLinked(s) \/ NotDue(s) \/ AskFigures(s) \/ Pulled(s) \/ Fit(s)
             \/ SaveFit(s) \/ SyncEnds(s)
      PROVE  Known \subseteq Known'
  BY <1>4, <1>1 DEF StartSync, List, FindMissing, BackfillFails, FindLinked, NotDue,
                    AskFigures, Pulled, Fit, SaveFit, SyncEnds
<1>5. ASSUME NEW s \in DOMAIN syncs, Upsert(s) \/ Backfill(s) \/ PullFails(s)
      PROVE  Known \subseteq Known'
  <2>1. UNCHANGED posted /\ row \in [Reels -> Rows] /\ Reels' = Reels
    BY <1>5 DEF Upsert, Backfill, PullFails, Writes, LoopTyped, Reels
  <2>2. \E r : \/ row' = row \/ row' = [row EXCEPT ![r] = "known"]
               \/ row' = [row EXCEPT ![r] = "deleted"]
    BY <1>5 DEF Upsert, Backfill, PullFails, Writes
  <2> QED BY <2>1, <2>2 DEF Known
<1> QED BY <1>2, <1>3, <1>4, <1>5 DEF LoopNext

LEMMA RowedBy ==
  ASSUME LoopTyped, Rowed, NEW s \in DOMAIN syncs, NEW x \in Syncings, Becomes(s, x),
         Known \subseteq Known',
         x.step \in {"ladder", "pull"} => x.todo \subseteq Known,
         x.step = "pull" => x.count \in Known
  PROVE  Rowed'
<1>1. DOMAIN syncs' = DOMAIN syncs /\ syncs'[s] = x
      /\ \A t \in DOMAIN syncs : t # s => syncs'[t] = syncs[t]
  BY DEF Becomes
<1>2. \A t \in DOMAIN syncs :
        /\ syncs'[t].step \in {"ladder", "pull"} => syncs'[t].todo \subseteq Known'
        /\ syncs'[t].step = "pull" => syncs'[t].count \in Known'
  BY <1>1 DEF Rowed
<1> QED BY <1>1, <1>2 DEF Rowed

LEMMA RowedKept ==
  ASSUME LoopAssumption, LoopTyped, Rowed, LoopNext
  PROVE  Rowed'
<1>0. Known \subseteq Known'
  BY KnownGrows
<1>1. ASSUME NEW s \in DOMAIN syncs
      PROVE  syncs[s] \in Syncings /\ syncs[s].todo \subseteq Reels /\ Reels \in SUBSET Nat
  BY SyncTyped, ReelsAre
<1>2. CASE UNCHANGED syncs
  BY <1>0, <1>2 DEF Rowed
<1>3. ASSUME NEW s \in DOMAIN syncs, NEW stride \in Strides, NEW rs \in SUBSET Reels,
             Sync(s, stride, rs), stride = "ladder" => rs \subseteq Known, stride # "pull"
      PROVE  Rowed'
  <2> DEFINE x == [step |-> stride, todo |-> rs, now |-> syncs[s].now,
                   count |-> syncs[s].count]
  <2>1. x \in Syncings /\ x.step = stride /\ x.todo = rs
    BY <1>1, <1>3 DEF Syncings
  <2>2. Becomes(s, x)
    BY <1>3, SyncIs
  <2> HIDE DEF x
  <2> QED BY <1>0, <1>3, <2>1, <2>2, RowedBy
<1>4. ASSUME NEW s \in DOMAIN syncs,
             StartSync(s) \/ List(s) \/ FindMissing(s) \/ BackfillFails(s)
      PROVE  Rowed'
  <2>1. PICK stride \in Strides \ {"ladder", "pull"}, rs \in SUBSET Reels : Sync(s, stride, rs)
    <3>1. Unseen \in SUBSET Reels /\ {r \in linked : row[r] = "none"} \in SUBSET Reels
          /\ \A r : syncs[s].todo \ {r} \in SUBSET Reels
      BY <1>1 DEF Unseen, LoopTyped
    <3> QED BY <1>4, <3>1 DEF StartSync, List, FindMissing, BackfillFails, Strides
  <2> QED BY <2>1, <1>3
<1>5. ASSUME NEW s \in DOMAIN syncs, Upsert(s) \/ Backfill(s) PROVE Rowed'
  <2>1. PICK r : Writes(s, r, "upsert") \/ Writes(s, r, "backfill")
    BY <1>5 DEF Upsert, Backfill
  <2>2. syncs[s].todo \ {r} \in SUBSET Reels
    BY <1>1
  <2> QED BY <2>1, <2>2, <1>3 DEF Writes, Strides
<1>6. ASSUME NEW s \in DOMAIN syncs, FindLinked(s) PROVE Rowed'
  <2> DEFINE x == [step |-> "ladder", now |-> clock, count |-> 0,
                   todo |-> {r \in linked : row[r] = "known"}]
  <2>1. Becomes(s, x)
    <3>1. syncs \in [DOMAIN syncs -> Syncings]
      BY DEF LoopTyped
    <3> QED BY <1>6, <3>1 DEF FindLinked, Becomes
  <2>2. x \in Syncings /\ x.todo \subseteq Known /\ x.step = "ladder"
    BY <1>1 DEF LoopTyped, Syncings, Strides, Known
  <2> HIDE DEF x
  <2> QED BY <1>0, <2>1, <2>2, RowedBy
<1>7. ASSUME NEW s \in DOMAIN syncs, NotDue(s) \/ Pulled(s) \/ PullFails(s) PROVE Rowed'
  <2>1. syncs[s].step \in {"ladder", "pull"} /\ syncs[s].todo \subseteq Known
    BY <1>7 DEF NotDue, Pulled, PullFails, Rowed
  <2>2. PICK rs \in SUBSET syncs[s].todo : Sync(s, "ladder", rs)
    BY <1>7 DEF NotDue, Pulled, PullFails
  <2>3. rs \in SUBSET Reels /\ rs \subseteq Known
    BY <1>1, <2>1, <2>2
  <2> QED BY <2>2, <2>3, <1>3 DEF Strides
<1>8. ASSUME NEW s \in DOMAIN syncs, AskFigures(s) PROVE Rowed'
  <2> DEFINE x == [step |-> "pull", todo |-> syncs[s].todo \ {Turn(s)},
                   now |-> syncs[s].now, count |-> Turn(s)]
  <2>1. Becomes(s, x)
    BY <1>8, AskIs
  <2>2. Turn(s) \in syncs[s].todo /\ syncs[s].todo \subseteq Known
    BY <1>8, TurnIs DEF AskFigures, Rowed
  <2>3. x \in Syncings /\ x.todo \subseteq Known /\ x.count \in Known
    BY <1>1, <2>2 DEF Syncings, Strides
  <2> HIDE DEF x
  <2> QED BY <1>0, <2>1, <2>3, RowedBy
<1>9. ASSUME NEW s \in DOMAIN syncs, Fit(s) \/ SaveFit(s) \/ SyncEnds(s) PROVE Rowed'
  <2>1. syncs \in [DOMAIN syncs -> Syncings]
    BY DEF LoopTyped
  <2>2. CASE Off(s)
    <3>1. Becomes(s, NoSync)
      BY <2>1, <2>2 DEF Off, Becomes
    <3>2. NoSync \in Syncings /\ NoSync.step = "off"
      BY DEF NoSync, Syncings, Strides
    <3> QED BY <1>0, <3>1, <3>2, RowedBy
  <2>3. CASE ~Off(s)
    <3> DEFINE x == [step |-> "save", todo |-> syncs[s].todo, now |-> syncs[s].now,
                     count |-> Outcomes]
    <3>1. Becomes(s, x)
      BY <1>9, <2>3, SaveIs DEF Fit, SaveFit, SyncEnds
    <3>2. ASSUME NEW t \in DOMAIN syncs
          PROVE  /\ syncs'[t].step \in {"ladder", "pull"}
                    => t # s /\ syncs'[t] = syncs[t]
      BY <3>1 DEF Becomes
    <3>3. DOMAIN syncs' = DOMAIN syncs
      BY <3>1 DEF Becomes
    <3> QED BY <3>2, <3>3, <1>0 DEF Rowed
  <2> QED BY <2>2, <2>3
<1> QED
  <2>1. CASE TimePasses \/ Publish \/ Unlink \/ PullByHand
    BY <2>1, <1>2 DEF TimePasses, Publish, Unlink, PullByHand
  <2> QED BY <2>1, <1>4, <1>5, <1>6, <1>7, <1>8, <1>9 DEF LoopNext

-----------------------------------------------------------------------------
\* Which reels are sighted after a step of one sync.
Elsewhere(s, r) == \E t \in DOMAIN syncs : t # s /\ syncs[t].step = "upsert" /\ r \in syncs[t].todo

LEMMA SightedIs ==
  ASSUME NEW s \in DOMAIN syncs
  PROVE  \A r : r \in Sighted <=>
           \/ r \in Known \/ Elsewhere(s, r)
           \/ syncs[s].step = "upsert" /\ r \in syncs[s].todo
BY DEF Sighted, Elsewhere

LEMMA SightedBecomes ==
  ASSUME NEW s \in DOMAIN syncs, NEW x, Becomes(s, x)
  PROVE  \A r : r \in Sighted' <=>
           \/ r \in Known' \/ Elsewhere(s, r)
           \/ x.step = "upsert" /\ r \in x.todo
<1>1. DOMAIN syncs' = DOMAIN syncs /\ syncs'[s] = x
      /\ \A t \in DOMAIN syncs : t # s => syncs'[t] = syncs[t]
  BY DEF Becomes
<1>2. \A r : r \in Sighted' <=>
        \/ r \in Known'
        \/ \E t \in DOMAIN syncs' : syncs'[t].step = "upsert" /\ r \in syncs'[t].todo
  BY DEF Sighted
<1> QED BY <1>1, <1>2 DEF Elsewhere

LEMMA SightedAreReels == ASSUME LoopTyped PROVE Sighted \in SUBSET Reels /\ Known \subseteq Sighted
BY DEF LoopTyped, Sighted, Known

\* What is sighted stays the same.
LEMMA LinedBy ==
  ASSUME LoopTyped, Lined, ~broken, NEW s \in DOMAIN syncs, NEW x \in Syncings,
         Becomes(s, x), UNCHANGED <<posted, linked>>, Sighted' = Sighted,
         x.step \in {"upsert", "backfill"} => linked \subseteq Sighted,
         x.step = "backfill" => x.todo \subseteq Sighted
  PROVE  Lined'
<1>1. DOMAIN syncs' = DOMAIN syncs /\ syncs'[s] = x /\ Reels' = Reels
      /\ \A t \in DOMAIN syncs : t # s => syncs'[t] = syncs[t]
  BY DEF Becomes, Reels
<1>2. ASSUME NEW t \in DOMAIN syncs
      PROVE  /\ syncs'[t].step \in {"upsert", "backfill"} => linked \subseteq Sighted
             /\ syncs'[t].step = "backfill" => syncs'[t].todo \subseteq Sighted
  BY <1>1 DEF Lined
<1>3. \A r \in Sighted, p \in Reels : p < r => p \in Sighted
  BY DEF Lined
<1> QED BY <1>1, <1>2, <1>3 DEF Lined

LEMMA SameKnown == ASSUME UNCHANGED <<posted, row>> PROVE Known' = Known /\ Reels' = Reels
BY DEF Known, Reels

\* A sync that is not in its list goes on, and is not in it then.
LEMMA LinedAside ==
  ASSUME LoopTyped, Lined, ~broken, NEW s \in DOMAIN syncs, NEW x \in Syncings,
         Becomes(s, x), UNCHANGED <<posted, linked>>, Known' = Known,
         x.step # "upsert", syncs[s].step = "upsert" => syncs[s].todo = {},
         x.step = "backfill" => syncs[s].step \in {"upsert", "backfill"},
         x.step = "backfill" => x.todo \subseteq linked \/ x.todo \subseteq syncs[s].todo,
         x.step = "backfill" /\ syncs[s].step = "upsert" => x.todo \subseteq linked
  PROVE  Lined'
<1>1. Sighted' = Sighted
  <2>1. \A r : r \in Sighted' <=> r \in Sighted
    BY SightedIs, SightedBecomes
  <2> QED BY <2>1
<1>2. x.step = "backfill" => linked \subseteq Sighted
  BY DEF Lined
<1>3. x.step = "backfill" => x.todo \subseteq Sighted
  BY <1>2 DEF Lined
<1> QED BY <1>1, <1>2, <1>3, LinedBy

LEMMA LinedKept ==
  ASSUME LoopAssumption, LoopTyped, Rowed, Lined, LoopNext
  PROVE  Lined'
<1> SUFFICES ASSUME ~broken' PROVE Lined'
  BY DEF Lined
<1>0. broken' = broken \/ \E s \in DOMAIN syncs : SyncEnds(s)
  BY DEF LoopNext, TimePasses, Publish, Unlink, PullByHand, StartSync, List, Upsert,
         FindMissing, Backfill, BackfillFails, FindLinked, NotDue, AskFigures, Pulled,
         PullFails, Fit, SaveFit, Writes
<1>1. ~broken
  BY <1>0 DEF SyncEnds
<1>2. ASSUME NEW s \in DOMAIN syncs
      PROVE  syncs[s] \in Syncings /\ syncs[s].todo \subseteq Reels /\ Reels \in SUBSET Nat
  BY SyncTyped, ReelsAre
<1>3. CASE TimePasses \/ Unlink \/ PullByHand
  <2>1. UNCHANGED <<syncs, broken>> /\ Known' = Known /\ Reels' = Reels /\ linked' \subseteq linked
    BY <1>3, SameKnown DEF TimePasses, Unlink, PullByHand
  <2>2. Sighted' = Sighted
    BY <2>1 DEF Sighted
  <2>3. linked \subseteq Sighted => linked' \subseteq Sighted
    BY <2>1
  <2> QED BY <2>1, <2>2, <2>3 DEF Lined
<1>4. CASE Publish
  <2>1. UNCHANGED <<syncs, broken, linked>>
    BY <1>4 DEF Publish
  <2>2. Known' = Known /\ Reels' = 1 .. Len(posted) + 1 /\ Reels = 1 .. Len(posted)
        /\ Len(posted) \in Nat
    <3>7. /\ posted \in Seq(Nat) /\ Reels = 1 .. Len(posted) /\ Len(posted) \in Nat
          /\ row \in Seq(Rows) /\ row \in [Reels -> Rows] /\ clock \in Nat
      BY ReelsAre DEF LoopTyped
    <3>8. posted' = Append(posted, clock)
      BY <1>4 DEF Publish
    <3>9. Len(posted') = Len(posted) + 1 /\ posted' \in Seq(Nat)
      BY <3>7, <3>8
    <3>10. Len(row) = Len(posted)
      BY <3>7
    <3>1. /\ posted \in Seq(Nat) /\ row \in Seq(Rows) /\ Len(posted') = Len(posted) + 1
          /\ Reels = 1 .. Len(posted) /\ Len(row) = Len(posted) /\ Len(posted) \in Nat
          /\ posted' \in Seq(Nat)
      BY <3>7, <3>9, <3>10
    <3>2. Reels' = 1 .. Len(posted) + 1
      BY <3>1 DEF Reels
    <3>3. row' = Append(row, "none")
      BY <1>4 DEF Publish
    <3>4. \A r \in Reels : row'[r] = row[r]
      BY <3>1, <3>3
    <3>5. row'[Len(posted) + 1] = "none"
      BY <3>1, <3>3
    <3>6. \A r \in Reels' : row'[r] # "none" <=> r \in Reels /\ row[r] # "none"
      <4>4. \A n \in Nat : \A r : r \in 1 .. n + 1 <=> r \in 1 .. n \/ r = n + 1
        OBVIOUS
      <4>1. \A r : r \in Reels' <=> r \in Reels \/ r = Len(posted) + 1
        BY <3>2, <3>7, <4>4
      <4>2. Len(posted) + 1 \notin 1 .. Len(posted)
        BY <3>7
      <4>3. Len(posted) + 1 \notin Reels
        BY <3>7, <4>2
      <4> QED BY Zenon, <3>4, <3>5, <4>1, <4>3
    <3>11. Known' = Known
      <4>1. \A r : /\ r \in Known' <=> r \in Reels' /\ row'[r] # "none"
                   /\ r \in Known <=> r \in Reels /\ row[r] # "none"
        BY Zenon DEF Known
      <4>2. ASSUME NEW r \in Reels PROVE r \in Reels'
        BY <3>2, <3>7
      <4>3. \A r : r \in Known' <=> r \in Known
        BY <3>6, <4>1, <4>2
      <4> QED BY <4>3
    <3> QED BY <3>2, <3>7, <3>11
  <2>3. Sighted' = Sighted /\ Sighted \in SUBSET Reels
    BY <2>1, <2>2, SightedAreReels DEF Sighted
  <2>4. \A r \in Sighted, p \in Reels' : p < r => p \in Sighted
    BY <1>1, <2>2, <2>3 DEF Lined
  <2> QED BY <2>1, <2>3, <2>4, <1>1 DEF Lined
<1>5. ASSUME NEW s \in DOMAIN syncs, NEW stride \in Strides \ {"upsert"},
             NEW rs \in SUBSET Reels, Sync(s, stride, rs),
             UNCHANGED <<posted, linked>>, Known' = Known,
             syncs[s].step = "upsert" => syncs[s].todo = {},
             stride = "backfill" => \/ syncs[s].step = "upsert" /\ rs \subseteq linked
                                    \/ syncs[s].step = "backfill" /\ rs \subseteq syncs[s].todo
      PROVE  Lined'
  <2> DEFINE x == [step |-> stride, todo |-> rs, now |-> syncs[s].now,
                   count |-> syncs[s].count]
  <2>1. x \in Syncings /\ x.step = stride /\ x.todo = rs
    BY <1>2 DEF Syncings
  <2>2. Becomes(s, x)
    BY <1>5, SyncIs
  <2> HIDE DEF x
  <2> QED BY <1>1, <1>5, <2>1, <2>2, LinedAside
<1>6. ASSUME NEW s \in DOMAIN syncs, StartSync(s) \/ NotDue(s) \/ Pulled(s) PROVE Lined'
  <2>1. PICK stride \in {"list", "ladder"}, rs \in SUBSET Reels : Sync(s, stride, rs)
    <3>1. \A r : syncs[s].todo \ {r} \in SUBSET Reels
      BY <1>2
    <3> QED BY <1>6, <1>2, <3>1 DEF StartSync, NotDue, Pulled
  <2>2. UNCHANGED <<posted, linked>> /\ Known' = Known /\ syncs[s].step # "upsert"
    BY <1>6, SameKnown DEF StartSync, NotDue, Pulled
  <2> QED BY <2>1, <2>2, <1>5 DEF Strides
<1>7. ASSUME NEW s \in DOMAIN syncs, List(s) PROVE Lined'
  <2> DEFINE x == [step |-> "upsert", todo |-> Unseen, now |-> syncs[s].now,
                   count |-> syncs[s].count]
  <2>1. Becomes(s, x) /\ x.step = "upsert" /\ x.todo = Unseen
    BY <1>7, SyncIs DEF List
  <2> HIDE DEF x
  <2>2. UNCHANGED <<posted, linked>> /\ Known' = Known /\ Reels' = Reels
        /\ syncs[s].step = "list"
    BY <1>7, SameKnown DEF List
  <2>3. \A r : r \in Sighted \/ r \in Unseen <=> r \in Sighted'
    BY <2>1, <2>2, SightedIs, SightedBecomes
  <2>4. Reels \subseteq Sighted'
    <3>1. ASSUME NEW r \in Reels, r \notin Unseen PROVE r \in Sighted
      <4>1. PICK m \in Known : ~(m < r)
        BY <3>1 DEF Unseen
      <4>2. m \in Reels /\ m \in Nat /\ r \in Nat /\ m \in Sighted
        BY <4>1, <1>2, SightedAreReels DEF Known
      <4>3. m = r \/ r < m
        BY <4>1, <4>2
      <4> QED BY <4>2, <4>3, <1>1 DEF Lined
    <3> QED BY <3>1, <2>3
  <2>5. linked \subseteq Reels /\ DOMAIN syncs' = DOMAIN syncs
        /\ \A t \in DOMAIN syncs : syncs'[t].step = "backfill" =>
             syncs'[t].todo \subseteq Reels
    BY <2>1, <1>2 DEF LoopTyped, Becomes
  <2> QED BY <2>2, <2>4, <2>5 DEF Lined
<1>8. ASSUME NEW s \in DOMAIN syncs, FindMissing(s) PROVE Lined'
  <2>1. /\ UNCHANGED <<posted, linked>> /\ Known' = Known /\ syncs[s].step = "upsert"
        /\ syncs[s].todo = {} /\ Sync(s, "backfill", {r \in linked : row[r] = "none"})
    BY <1>8, SameKnown DEF FindMissing
  <2>2. {r \in linked : row[r] = "none"} \in SUBSET Reels
    BY DEF LoopTyped
  <2> QED BY <2>1, <2>2, <1>5 DEF Strides
<1>9. ASSUME NEW s \in DOMAIN syncs, NEW r \in syncs[s].todo,
             Writes(s, r, "upsert") \/ Writes(s, r, "backfill")
      PROVE  Known' = Known \cup {r} /\ Reels' = Reels /\ UNCHANGED <<posted, linked>>
             /\ r \in Reels
  <2>1. r \in Reels /\ row \in [Reels -> Rows] /\ row' = [row EXCEPT ![r] = "known"]
        /\ UNCHANGED <<posted, linked>>
    BY <1>9, <1>2 DEF Writes, LoopTyped
  <2> QED BY <2>1 DEF Known, Reels
<1>10. ASSUME NEW s \in DOMAIN syncs, NEW r \in syncs[s].todo, NEW stride \in Strides,
              Writes(s, r, stride), syncs[s].step = stride,
              stride \in {"upsert", "backfill"}
       PROVE  Lined'
  <2> DEFINE x == [step |-> stride, todo |-> syncs[s].todo \ {r}, now |-> syncs[s].now,
                   count |-> syncs[s].count]
  <2>1. Becomes(s, x) /\ x.step = stride /\ x.todo = syncs[s].todo \ {r}
    BY <1>10, SyncIs DEF Writes
  <2>2. x \in Syncings
    BY <1>2, <1>10 DEF Syncings
  <2> HIDE DEF x
  <2>3. r \in Sighted
    BY <1>1, <1>10, SightedIs DEF Lined
  <2>4. Known' = Known \cup {r} /\ UNCHANGED <<posted, linked>>
    BY <1>9, <1>10
  <2>5. Sighted' = Sighted
    <3>1. \A p : p \in Sighted' <=> p \in Sighted
      BY <2>1, <2>3, <2>4, <1>10, SightedIs, SightedBecomes
    <3> QED BY <3>1
  <2>6. linked \subseteq Sighted /\ (stride = "backfill" => syncs[s].todo \subseteq Sighted)
    BY <1>1, <1>10 DEF Lined
  <2>7. x.step = "backfill" => x.todo \subseteq Sighted
    BY <2>1, <2>6
  <2> QED BY <1>1, <2>1, <2>2, <2>4, <2>5, <2>6, <2>7, LinedBy
<1>11. ASSUME NEW s \in DOMAIN syncs, Upsert(s) \/ Backfill(s) PROVE Lined'
  BY <1>11, <1>10, TurnIs DEF Upsert, Backfill, Turn, Strides
<1>12. ASSUME NEW s \in DOMAIN syncs, BackfillFails(s) PROVE Lined'
  <2>1. UNCHANGED <<posted, linked>> /\ Known' = Known /\ syncs[s].step = "backfill"
        /\ Sync(s, "backfill", syncs[s].todo \ {Min(syncs[s].todo)})
    BY <1>12, SameKnown DEF BackfillFails
  <2>2. syncs[s].todo \ {Min(syncs[s].todo)} \in SUBSET Reels
    BY <1>2
  <2> QED BY <2>1, <2>2, <1>5 DEF Strides
<1>13. ASSUME NEW s \in DOMAIN syncs, PullFails(s) PROVE Lined'
  <2>1. UNCHANGED <<posted, linked>> /\ syncs[s].step = "pull"
        /\ Sync(s, "ladder", syncs[s].todo)
    BY <1>13 DEF PullFails
  <2>2. Known' = Known
    <3>1. syncs[s].count \in Known /\ row \in [Reels -> Rows]
      BY <2>1 DEF Rowed, LoopTyped
    <3>2. row' = row \/ row' = [row EXCEPT ![syncs[s].count] = "deleted"]
      BY <1>13 DEF PullFails
    <3> QED BY <2>1, <3>1, <3>2 DEF Known, Reels
  <2> QED BY <2>1, <2>2, <1>2, <1>5 DEF Strides
<1>14. ASSUME NEW s \in DOMAIN syncs, NEW x \in Syncings, Becomes(s, x),
              UNCHANGED <<posted, row, linked>>, x.step \notin {"upsert", "backfill"},
              syncs[s].step = "upsert" => syncs[s].todo = {}
       PROVE  Lined'
  BY <1>1, <1>14, SameKnown, LinedAside
<1>15. ASSUME NEW s \in DOMAIN syncs, FindLinked(s) PROVE Lined'
  <2> DEFINE x == [step |-> "ladder", now |-> clock, count |-> 0,
                   todo |-> {r \in linked : row[r] = "known"}]
  <2>1. Becomes(s, x)
    <3>1. syncs \in [DOMAIN syncs -> Syncings]
      BY DEF LoopTyped
    <3> QED BY <1>15, <3>1 DEF FindLinked, Becomes
  <2>2. x \in Syncings /\ x.step = "ladder"
    BY <1>2 DEF LoopTyped, Syncings, Strides
  <2>3. UNCHANGED <<posted, row, linked>> /\ syncs[s].step = "backfill"
    BY <1>15 DEF FindLinked
  <2> HIDE DEF x
  <2> QED BY <2>1, <2>2, <2>3, <1>14
<1>16. ASSUME NEW s \in DOMAIN syncs, AskFigures(s) PROVE Lined'
  <2> DEFINE x == [step |-> "pull", todo |-> syncs[s].todo \ {Turn(s)},
                   now |-> syncs[s].now, count |-> Turn(s)]
  <2>1. Becomes(s, x)
    BY <1>16, AskIs
  <2>2. Turn(s) \in syncs[s].todo
    BY <1>16, TurnIs DEF AskFigures
  <2>3. x \in Syncings /\ x.step = "pull"
    BY <1>2, <2>2 DEF Syncings, Strides
  <2>4. UNCHANGED <<posted, row, linked>> /\ syncs[s].step = "ladder"
    BY <1>16 DEF AskFigures
  <2> HIDE DEF x
  <2> QED BY <2>1, <2>3, <2>4, <1>14
<1>17. ASSUME NEW s \in DOMAIN syncs, Fit(s) \/ SaveFit(s) \/ SyncEnds(s) PROVE Lined'
  <2>1. /\ UNCHANGED <<posted, row, linked>> /\ (syncs[s].step = "upsert" => syncs[s].todo = {})
    BY <1>17 DEF Fit, SaveFit, SyncEnds
  <2>2. CASE Off(s)
    <3>1. syncs \in [DOMAIN syncs -> Syncings]
      BY DEF LoopTyped
    <3>2. Becomes(s, NoSync)
      BY <2>2, <3>1 DEF Off, Becomes
    <3>3. NoSync \in Syncings /\ NoSync.step = "off"
      BY DEF NoSync, Syncings, Strides
    <3> QED BY <2>1, <3>2, <3>3, <1>14
  <2>3. CASE ~Off(s)
    <3> DEFINE x == [step |-> "save", todo |-> syncs[s].todo, now |-> syncs[s].now,
                     count |-> Outcomes]
    <3>1. Becomes(s, x)
      BY <1>17, <2>3, SaveIs DEF Fit, SaveFit, SyncEnds
    <3>2. x \in Syncings /\ x.step = "save"
      BY <1>2, OutcomesAre DEF Syncings, Strides
    <3> HIDE DEF x
    <3> QED BY <2>1, <3>1, <3>2, <1>14
  <2> QED BY <2>2, <2>3
<1> QED BY <1>3, <1>4, <1>6, <1>7, <1>8, <1>11, <1>12, <1>13, <1>15, <1>16, <1>17
    DEF LoopNext

-----------------------------------------------------------------------------
\* The ages at which figures of a reel were taken, each on a rung of its own.
Distinct(q) == \A i, j \in DOMAIN q : i # j => LastRung(q[i]) # LastRung(q[j])

LEMMA RungPassed ==
  ASSUME LoopAssumption, NEW b \in Nat, NEW g \in Rungs, g <= b
  PROVE  \E h \in LastRung(b) : g <= h
<1> DEFINE S == {h \in Rungs : h <= b}
<1>1. S \in SUBSET Nat /\ g \in S /\ \A h \in S : h <= b
  BY DEF LoopAssumption
<1>2. Max(S) \in S /\ \A h \in S : h <= Max(S)
  <2> HIDE DEF S
  <2> QED BY <1>1, MaxIsGreatest
<1>3. Max(S) \in LastRung(b)
  BY <1>2 DEF LastRung
<1> QED BY <1>1, <1>2, <1>3

LEMMA NewRung ==
  ASSUME LoopAssumption, NEW q \in Seq(Nat), Distinct(q), NEW b \in Nat, NEW g \in Rungs,
         g <= b, \A a \in ToSet(q) : a < g
  PROVE  Distinct(Append(q, b))
<1>1. PICK h \in LastRung(b) : g <= h
  BY RungPassed
<1>2. ASSUME NEW i \in 1 .. Len(q) PROVE LastRung(q[i]) # LastRung(b)
  <2>1. q[i] \in ToSet(q) /\ q[i] \in Nat
    BY DEF ToSet
  <2>2. q[i] < g /\ g \in Nat /\ h \in Nat
    BY <2>1, <1>1 DEF LoopAssumption, LastRung
  <2>3. h \notin LastRung(q[i])
    BY <2>1, <2>2, <1>1 DEF LastRung
  <2> QED BY <2>3
<1> DEFINE p == Append(q, b)
           n == Len(q)
<1>3. /\ n \in Nat /\ DOMAIN p = 1 .. n + 1 /\ p[n + 1] = b /\ DOMAIN q = 1 .. n
      /\ \A i \in 1 .. n : p[i] = q[i]
  OBVIOUS
<1>4. \A i \in 1 .. n : LastRung(q[i]) # LastRung(b)
  BY <1>2
<1> HIDE DEF p, n
<1>5. \A i, j \in 1 .. n : i # j => LastRung(p[i]) # LastRung(p[j])
  BY <1>3 DEF Distinct
<1>6. \A i \in 1 .. n : LastRung(p[i]) # LastRung(p[n + 1])
  BY <1>3, <1>4
<1>7. \A i \in 1 .. n + 1 : i \in 1 .. n \/ i = n + 1
  BY <1>3
<1>8. Distinct(p)
  BY Zenon, <1>3, <1>5, <1>6, <1>7 DEF Distinct
<1> QED BY <1>8 DEF p

\* The fits, each with enough new outcomes.
FitSpaced(q, i) == IF i = 1 THEN q[i] >= FitMinimum ELSE q[i] - q[i - 1] >= FitStep
Fitted(q) == \A i \in DOMAIN q : FitSpaced(q, i)

LEMMA NewFit ==
  ASSUME fits \in Seq(Nat), Fitted(fits), NEW n \in Nat, FitDue(n)
  PROVE  Fitted(Append(fits, n))
<1> DEFINE q == Append(fits, n)
           m == Len(fits)
<1>1. /\ m \in Nat /\ DOMAIN q = 1 .. m + 1 /\ q[m + 1] = n /\ DOMAIN fits = 1 .. m
      /\ \A i \in 1 .. m : q[i] = fits[i]
  OBVIOUS
<1>2. m > 0 => n - fits[m] >= FitStep
  BY DEF FitDue, Last
<1>3. n >= FitMinimum
  BY DEF FitDue
<1> HIDE DEF q, m
<1>4. ASSUME NEW i \in 1 .. m
      PROVE  FitSpaced(q, i)
  <2>1. q[i] = fits[i] /\ (i # 1 => q[i - 1] = fits[i - 1])
    BY <1>1
  <2> QED BY <1>1, <2>1 DEF Fitted, FitSpaced
<1>5. FitSpaced(q, m + 1)
  <2>1. CASE m = 0
    BY <1>1, <1>3, <2>1 DEF FitSpaced
  <2>2. CASE m # 0
    <3>1. m + 1 # 1 /\ m + 1 - 1 = m /\ q[m] = fits[m]
      BY <1>1, <2>2
    <3> QED BY <1>1, <1>2, <3>1, <2>2 DEF FitSpaced
  <2> QED BY <2>1, <2>2
<1>6. \A i \in 1 .. m + 1 : i \in 1 .. m \/ i = m + 1
  BY <1>1
<1>7. Fitted(q)
  BY Zenon, <1>1, <1>4, <1>5, <1>6 DEF Fitted
<1> QED BY <1>7 DEF q

LEMMA PacedIs ==
  Paced <=> (~crowded => (\A r \in Reels : Distinct(snapshots[r])) /\ Fitted(fits))
BY Zenon DEF Paced, Distinct, Fitted, FitSpaced

\* While there is only one sync, it takes the steps.
LEMMA AloneBy ==
  ASSUME LoopTyped, Alone, ~crowded, NEW s \in DOMAIN syncs, NEW x, Becomes(s, x),
         syncs[s].step # "off" \/ \A t \in DOMAIN syncs : syncs[t].step = "off",
         x.step = "pull" => Due(x.count, x.now)', x.step = "save" => FitDue(x.count)'
  PROVE  Alone'
<1>1. DOMAIN syncs' = DOMAIN syncs /\ syncs'[s] = x
      /\ \A t \in DOMAIN syncs : t # s => syncs'[t] = syncs[t]
  BY DEF Becomes
<1>2. \A t \in DOMAIN syncs : t # s => syncs[t].step = "off"
  BY DEF Alone
<1>3. \A t, u \in DOMAIN syncs' : t # u => syncs'[t].step = "off" \/ syncs'[u].step = "off"
  BY <1>1, <1>2
<1>4. ASSUME NEW t \in DOMAIN syncs PROVE StillDue(t)'
  <2>1. CASE t = s
    BY <2>1, <1>1 DEF StillDue
  <2>2. CASE t # s
    BY <2>2, <1>1, <1>2 DEF StillDue
  <2> QED BY <2>1, <2>2
<1> QED BY <1>1, <1>3, <1>4 DEF Alone

LEMMA PacedKept ==
  ASSUME LoopAssumption, LoopTyped, Rowed, Alone, Paced, LoopNext
  PROVE  Alone' /\ Paced'
<1> SUFFICES ASSUME ~crowded' PROVE Alone' /\ Paced'
  BY DEF Alone, Paced
<1>1. /\ ~crowded
      /\ \A s \in DOMAIN syncs : StartSync(s) => \A t \in DOMAIN syncs : syncs[t].step = "off"
  <2>1. crowded' = crowded \/ \E s \in DOMAIN syncs : StartSync(s)
    BY DEF LoopNext, TimePasses, Publish, Unlink, PullByHand, List, Upsert, FindMissing,
           Backfill, BackfillFails, FindLinked, NotDue, AskFigures, Pulled, PullFails, Fit,
           SaveFit, SyncEnds, Writes
  <2>2. ASSUME NEW s \in DOMAIN syncs, StartSync(s)
        PROVE  ~crowded /\ \A t \in DOMAIN syncs : syncs[t].step = "off"
    BY <2>2 DEF StartSync
  <2> QED BY <2>1, <2>2
<1>2. (\A r \in Reels : Distinct(snapshots[r])) /\ Fitted(fits)
  BY <1>1, PacedIs
<1>3. ASSUME NEW s \in DOMAIN syncs
      PROVE  syncs[s] \in Syncings /\ syncs[s].todo \subseteq Reels /\ syncs[s].now <= clock
             /\ syncs[s].count \in Nat /\ Reels \in SUBSET Nat
  BY SyncTyped, ReelsAre
<1>4. ASSUME (\A r \in Reels' : Distinct(snapshots'[r])) /\ Fitted(fits') PROVE Paced'
  <2>1. \A r \in Reels' : Distinct(snapshots[r])'
    BY <1>4 DEF Distinct, LastRung
  <2>2. Fitted(fits)'
    BY <1>4 DEF Fitted, FitSpaced
  <2> QED BY <2>1, <2>2 DEF Paced, Distinct, Fitted, FitSpaced
<1>5. ASSUME UNCHANGED <<posted, snapshots, fits>> PROVE Paced'
  BY <1>2, <1>4, <1>5 DEF Reels
<1>6. CASE TimePasses \/ Unlink
  <2>1. UNCHANGED <<posted, snapshots, fits, syncs>>
    BY <1>6 DEF TimePasses, Unlink
  <2>2. Alone'
    BY <1>1, <2>1 DEF Alone, StillDue, Due, FitDue, AgeOf
  <2> QED BY <2>1, <2>2, <1>5
<1>7. CASE PullByHand
  BY <1>7 DEF PullByHand
<1>8. CASE Publish
  <2>1. /\ UNCHANGED <<fits, syncs>> /\ posted' = Append(posted, clock)
        /\ snapshots' = Append(snapshots, <<>>)
    BY <1>8 DEF Publish
  <2>2. /\ posted \in Seq(Nat) /\ Len(posted) \in Nat /\ Reels = 1 .. Len(posted)
        /\ snapshots \in Seq(Seq(Nat)) /\ Len(snapshots) = Len(posted)
    BY DEF LoopTyped, Reels
  <2>3. Reels' = 1 .. Len(posted) + 1
    BY <2>1, <2>2 DEF Reels
  <2>4. \A r \in Reels : posted'[r] = posted[r] /\ snapshots'[r] = snapshots[r]
    BY <2>1, <2>2
  <2>5. snapshots'[Len(posted) + 1] = <<>>
    <3>1. <<>> \in Seq(Nat)
      OBVIOUS
    <3>2. Append(snapshots, <<>>)[Len(snapshots) + 1] = <<>>
      BY <2>2, <3>1, AppendProperties
    <3> QED BY <2>1, <2>2, <3>2
  <2>6. \A r \in Reels' : r \in Reels \/ r = Len(posted) + 1
    BY <2>2, <2>3
  <2>7. Distinct(<<>>)
    BY DEF Distinct
  <2>8. \A r \in Reels' : Distinct(snapshots'[r])
    BY Zenon, <2>4, <2>5, <2>6, <2>7, <1>2
  <2>9. Fitted(fits')
    BY <2>1, <1>2
  <2>10. ASSUME NEW s \in DOMAIN syncs PROVE StillDue(s)'
    <3>1. StillDue(s)
      BY <1>1 DEF Alone
    <3>2. syncs[s].step = "pull" => syncs[s].count \in Reels
      BY DEF Rowed, Known
    <3>3. syncs[s].step = "pull" => UNCHANGED Due(syncs[s].count, syncs[s].now)
      BY <2>1, <2>4, <3>2 DEF Due, AgeOf
    <3> QED BY <2>1, <3>1, <3>3 DEF StillDue, FitDue
  <2>11. Alone'
    BY <2>1, <2>10, <1>1 DEF Alone
  <2> QED BY <2>8, <2>9, <2>11, <1>4
<1>9. ASSUME NEW s \in DOMAIN syncs, NEW x, Becomes(s, x), x.step \notin {"pull", "save"},
             syncs[s].step # "off" \/ \A t \in DOMAIN syncs : syncs[t].step = "off"
      PROVE  Alone'
  BY <1>1, <1>9, AloneBy
<1>10. ASSUME NEW s \in DOMAIN syncs, NEW stride, NEW rs, Sync(s, stride, rs),
              stride \notin {"pull", "save"},
              syncs[s].step # "off" \/ \A t \in DOMAIN syncs : syncs[t].step = "off"
       PROVE  Alone'
  <2> DEFINE x == [step |-> stride, todo |-> rs, now |-> syncs[s].now,
                   count |-> syncs[s].count]
  <2>1. Becomes(s, x) /\ x.step = stride
    BY <1>10, SyncIs
  <2> HIDE DEF x
  <2> QED BY <2>1, <1>10, <1>9
<1>11. ASSUME NEW s \in DOMAIN syncs, Off(s), syncs[s].step # "off" PROVE Alone'
  <2>1. syncs \in [DOMAIN syncs -> Syncings]
    BY DEF LoopTyped
  <2>2. Becomes(s, NoSync) /\ NoSync.step = "off"
    BY <2>1, <1>11 DEF Off, Becomes, NoSync
  <2> QED BY <2>2, <1>9, <1>11
<1>12. ASSUME NEW s \in DOMAIN syncs,
              \/ StartSync(s) \/ List(s) \/ Upsert(s) \/ FindMissing(s) \/ Backfill(s)
              \/ BackfillFails(s) \/ NotDue(s) \/ PullFails(s)
       PROVE  Alone' /\ Paced'
  <2>1. Paced'
    BY <1>12, <1>5 DEF StartSync, List, Upsert, FindMissing, Backfill, BackfillFails,
                       NotDue, PullFails, Writes
  <2>2. syncs[s].step # "off" \/ \A t \in DOMAIN syncs : syncs[t].step = "off"
    BY <1>1, <1>12 DEF List, Upsert, FindMissing, Backfill, BackfillFails, NotDue, PullFails
  <2>3. \E stride, rs : Sync(s, stride, rs) /\ stride \notin {"pull", "save"}
    BY <1>12 DEF StartSync, List, Upsert, FindMissing, Backfill, BackfillFails, NotDue,
                 PullFails, Writes
  <2> QED BY <2>1, <2>2, <2>3, <1>10
<1>13. ASSUME NEW s \in DOMAIN syncs, FindLinked(s) PROVE Alone' /\ Paced'
  <2> DEFINE x == [step |-> "ladder", now |-> clock, count |-> 0,
                   todo |-> {r \in linked : row[r] = "known"}]
  <2>1. syncs \in [DOMAIN syncs -> Syncings]
    BY DEF LoopTyped
  <2>2. Becomes(s, x) /\ x.step = "ladder"
    BY <1>13, <2>1 DEF FindLinked, Becomes
  <2>3. syncs[s].step # "off" /\ Paced'
    BY <1>13, <1>5 DEF FindLinked
  <2> HIDE DEF x
  <2> QED BY <2>2, <2>3, <1>9
<1>14. ASSUME NEW s \in DOMAIN syncs, AskFigures(s) PROVE Alone' /\ Paced'
  <2>1. PICK x : x = [step |-> "pull", todo |-> syncs[s].todo \ {Turn(s)},
                      now |-> syncs[s].now, count |-> Turn(s)]
    OBVIOUS
  <2>2. Becomes(s, x)
    BY <1>14, <2>1, AskIs
  <2>3. /\ syncs[s].step = "ladder" /\ UNCHANGED <<posted, snapshots, fits>>
        /\ Due(Turn(s), syncs[s].now)
    BY <1>14 DEF AskFigures
  <2>4. x.step = "pull" /\ x.count = Turn(s) /\ x.now = syncs[s].now
    BY <2>1
  <2>5. Due(x.count, x.now)'
    BY <2>3, <2>4 DEF Due, AgeOf
  <2>6. Alone'
    BY <1>1, <2>2, <2>3, <2>4, <2>5, AloneBy
  <2> QED BY <2>3, <2>6, <1>5
<1>15. ASSUME NEW s \in DOMAIN syncs, Pulled(s) PROVE Alone' /\ Paced'
  <2>1. /\ syncs[s].step = "pull" /\ UNCHANGED <<posted, fits>>
        /\ Sync(s, "ladder", syncs[s].todo)
        /\ snapshots' = [snapshots EXCEPT ![syncs[s].count] =
                           Append(@, AgeOf(syncs[s].count, clock))]
    BY <1>15 DEF Pulled, Store
  <2>2. Alone'
    BY <2>1, <1>10
  <2> DEFINE r == syncs[s].count
             b == AgeOf(r, clock)
  <2>3. r \in Reels /\ b \in Nat /\ Due(r, syncs[s].now)
    <3>1. r \in Reels
      BY <2>1 DEF Rowed, Known
    <3>2. Due(r, syncs[s].now)
      BY <1>1, <2>1 DEF Alone, StillDue
    <3> QED BY <3>1, <3>2, AgesAre
  <2>4. snapshots[r] \in Seq(Nat) /\ Reels' = Reels /\ snapshots \in [Reels -> Seq(Nat)]
    BY <2>1, <2>3 DEF LoopTyped, Reels
  <2>5. PICK g \in Rungs : g <= b /\ \A a \in ToSet(snapshots[r]) : a < g
    <3>1. PICK g \in LastRung(AgeOf(r, syncs[s].now)) : \A a \in ToSet(snapshots[r]) : a < g
      BY <2>3 DEF Due
    <3>2. g \in Rungs /\ g \in Nat /\ g <= syncs[s].now - posted[r]
      BY <3>1 DEF LastRung, AgeOf, LoopAssumption
    <3>3. clock \in Nat /\ syncs[s].now \in Nat /\ posted[r] \in Nat /\ syncs[s].now <= clock
      BY <2>3, SyncTyped, ReelsAre
    <3>4. g <= clock - posted[r]
      BY <3>2, <3>3
    <3> QED BY <3>1, <3>2, <3>4 DEF AgeOf
  <2>6. Distinct(Append(snapshots[r], b))
    BY <1>2, <2>3, <2>4, <2>5, NewRung
  <2>7. snapshots' = [snapshots EXCEPT ![r] = Append(snapshots[r], b)]
    BY <2>1
  <2> HIDE DEF r, b
  <2>8. \A t \in Reels' : Distinct(snapshots'[t])
    BY <1>2, <2>3, <2>4, <2>6, <2>7
  <2>9. Fitted(fits')
    BY <1>2, <2>1
  <2> QED BY <2>2, <2>8, <2>9, <1>4
<1>16. ASSUME NEW s \in DOMAIN syncs, Fit(s) PROVE Alone' /\ Paced'
  <2>1. syncs[s].step = "ladder" /\ UNCHANGED <<posted, snapshots, fits>>
    BY <1>16 DEF Fit
  <2>2. CASE Off(s)
    BY <2>1, <2>2, <1>11, <1>5
  <2>3. CASE ~Off(s)
    <3>1. FitDue(Outcomes) /\ syncs' = [syncs EXCEPT ![s].step = "save", ![s].count = Outcomes]
      BY <1>16, <2>3 DEF Fit
    <3>2. PICK x : x = [step |-> "save", todo |-> syncs[s].todo, now |-> syncs[s].now,
                        count |-> Outcomes]
      OBVIOUS
    <3>3. Becomes(s, x) /\ x.step = "save" /\ x.count = Outcomes
      BY <3>1, <3>2, SaveIs
    <3>4. FitDue(x.count)'
      BY <2>1, <3>1, <3>3 DEF FitDue
    <3>5. Alone'
      BY <1>1, <2>1, <3>3, <3>4, AloneBy
    <3> QED BY <2>1, <3>5, <1>5
  <2> QED BY <2>2, <2>3
<1>17. ASSUME NEW s \in DOMAIN syncs, SaveFit(s) PROVE Alone' /\ Paced'
  <2>1. /\ syncs[s].step = "save" /\ Off(s) /\ UNCHANGED <<posted, snapshots>>
        /\ fits' = fits \/ fits' = Append(fits, syncs[s].count)
    BY <1>17 DEF SaveFit
  <2>2. Alone'
    BY <2>1, <1>11
  <2>3. FitDue(syncs[s].count) /\ fits \in Seq(Nat)
    BY <1>1, <2>1 DEF Alone, StillDue, LoopTyped
  <2>4. Fitted(Append(fits, syncs[s].count))
    BY <1>2, <1>3, <2>3, NewFit
  <2>5. Fitted(fits')
    BY <1>2, <2>1, <2>4
  <2>6. \A r \in Reels' : Distinct(snapshots'[r])
    BY <1>2, <2>1 DEF Reels
  <2> QED BY <2>2, <2>5, <2>6, <1>4
<1>18. ASSUME NEW s \in DOMAIN syncs, SyncEnds(s) PROVE Alone' /\ Paced'
  BY <1>18, <1>11, <1>5 DEF SyncEnds
<1> QED BY <1>6, <1>7, <1>8, <1>12, <1>13, <1>14, <1>15, <1>16, <1>17, <1>18 DEF LoopNext

-----------------------------------------------------------------------------
LEMMA LoopKept ==
  ASSUME LoopAssumption, LoopInv, LoopNext
  PROVE  LoopInv'
BY TypedKept, RowedKept, LinedKept, PacedKept DEF LoopInv

LEMMA LoopStays ==
  ASSUME LoopInv, UNCHANGED loopVars
  PROVE  LoopInv'
<1>1. /\ UNCHANGED <<clock, posted, row, linked, snapshots, fits, syncs, crowded, broken>>
      /\ Reels' = Reels /\ Known' = Known
  BY DEF loopVars, Reels, Known
<1>2. LoopTyped' /\ Rowed'
  BY <1>1 DEF LoopInv, LoopTyped, Rowed
<1>3. Lined'
  BY <1>1 DEF LoopInv, Lined, Sighted
<1>4. Alone'
  BY <1>1 DEF LoopInv, Alone, StillDue, Due, AgeOf, FitDue
<1>5. Paced'
  BY <1>1 DEF LoopInv, Paced
<1> QED BY <1>2, <1>3, <1>4, <1>5 DEF LoopInv

LEMMA NoLoopInv == ASSUME NoLoop PROVE LoopInv
<1>1. /\ clock = 0 /\ posted = <<>> /\ row = <<>> /\ linked = {} /\ snapshots = <<>>
      /\ fits = <<>> /\ syncs = <<>>
      /\ DOMAIN syncs = {} /\ Reels = {} /\ DOMAIN fits = {}
  BY DEF NoLoop, Reels
<1>2. LoopTyped
  <2>1. row \in [Reels -> Rows] /\ snapshots \in [Reels -> Seq(Nat)]
        /\ syncs \in [DOMAIN syncs -> Syncings]
    BY <1>1
  <2> QED BY <1>1, <2>1 DEF LoopTyped
<1>3. Rowed /\ Alone /\ Paced
  BY <1>1 DEF Rowed, Alone, Paced
<1>4. Lined
  BY <1>1 DEF Lined, Sighted, Known
<1> QED BY <1>2, <1>3, <1>4 DEF LoopInv

LEMMA BeginLoopInv == ASSUME BeginLoop PROVE LoopInv'
<1>1. /\ clock' = 1 /\ posted' = <<0, 1>> /\ row' = <<"none", "none">>
      /\ linked' \in SUBSET {1, 2} /\ snapshots' = <<<<>>, <<>>>> /\ fits' = <<>>
      /\ syncs' = <<NoSync, NoSync>>
  BY DEF BeginLoop
<1>2. DOMAIN syncs' = {1, 2} /\ Reels' = {1, 2} /\ DOMAIN fits' = {}
      /\ \A s \in {1, 2} : syncs'[s] = NoSync
  BY <1>1 DEF Reels
<1>3. NoSync \in Syncings /\ NoSync.step = "off" /\ NoSync.todo = {} /\ NoSync.now = 0
  BY DEF NoSync, Syncings, Strides
<1>4. LoopTyped'
  <2>1. row' \in Seq(Rows) /\ row' \in [{1, 2} -> Rows]
    BY <1>1 DEF Rows
  <2>2. snapshots' \in Seq(Seq(Nat)) /\ snapshots' \in [{1, 2} -> Seq(Nat)]
    <3>1. \A q \in Seq(Nat) : <<q, q>> \in Seq(Seq(Nat)) /\ <<q, q>> \in [{1, 2} -> Seq(Nat)]
      OBVIOUS
    <3>2. <<>> \in Seq(Nat)
      OBVIOUS
    <3> QED BY Zenon, <1>1, <3>1, <3>2
  <2>3. syncs' \in [{1, 2} -> Syncings]
    BY <1>1, <1>2, <1>3
  <2>4. posted' \in Seq(Nat) /\ \A r \in {1, 2} : posted'[r] <= clock'
    BY <1>1
  <2> QED BY <1>1, <1>2, <1>3, <2>1, <2>2, <2>3, <2>4 DEF LoopTyped
<1>5. Rowed' /\ Alone'
  BY <1>2, <1>3 DEF Rowed, Alone, StillDue
<1>6. Known' = {} /\ Sighted' = {}
  <2>1. Known' = {}
    BY <1>1, <1>2 DEF Known
  <2> QED BY <1>2, <1>3, <2>1 DEF Sighted
<1>7. Lined'
  BY <1>2, <1>3, <1>6 DEF Lined
<1>8. Paced'
  BY <1>1, <1>2 DEF Paced
<1> QED BY <1>4, <1>5, <1>7, <1>8 DEF LoopInv

LEMMA LoopIsSound ==
  ASSUME LoopInv
  PROVE  Paced /\ NoLostPosts
<1>1. ASSUME ~broken, \A s \in DOMAIN syncs : syncs[s].step = "off", NEW r \in Reels \ Known
      PROVE  r \in Unseen
  <2>1. Sighted = Known
    BY <1>1 DEF Sighted
  <2>2. ASSUME NEW m \in Known, ~(m < r) PROVE FALSE
    <3>1. m \in Nat /\ r \in Nat /\ m # r
      BY <2>2 DEF Known, Reels, LoopInv, LoopTyped
    <3>2. r < m
      BY <2>2, <3>1
    <3> QED BY <1>1, <2>1, <3>2 DEF LoopInv, Lined
  <2> QED BY <1>1, <2>2 DEF Unseen
<1> QED BY <1>1 DEF LoopInv, NoLostPosts

-----------------------------------------------------------------------------
(***************************************************************************)
(* The detector of events.  FoldLeft in Consume, in steps:                 *)
(***************************************************************************)
\* What the frames in the buffer make of a detector, one after the other.
Framed(g, d, n) ==
  g = [s \in SUBSET (1 .. n) |-> IF s = {} THEN d ELSE Frame(g[s \ {Max(s)}])]

LEMMA FramesExist ==
  ASSUME NEW d, NEW n \in Nat
  PROVE  \E g : Framed(g, d, n)
<1> DEFINE B == {m \in Nat : ~ \E g : Framed(g, d, m)}
<1>1. ASSUME B # {} PROVE FALSE
  <2>1. PICK m \in B : \A k \in B : m <= k
    BY <1>1, MinIsLeast
  <2>2. CASE m = 0
    <3> DEFINE g == [s \in SUBSET (1 .. 0) |-> IF s = {} THEN d ELSE Frame(d)]
    <3>1. \A s \in SUBSET (1 .. 0) : s = {}
      OBVIOUS
    <3>2. Framed(g, d, 0)
      BY <3>1 DEF Framed
    <3> QED BY <2>1, <2>2, <3>2
  <2>3. CASE m # 0
    <3>0. m \in Nat /\ m - 1 \in Nat /\ ~(m <= m - 1)
      BY <2>1, <2>3
    <3>1. PICK g : Framed(g, d, m - 1)
      BY <2>1, <3>0
    <3> DEFINE h == [s \in SUBSET (1 .. m) |-> IF s = {} THEN d ELSE Frame(g[s \ {Max(s)}])]
    <3>2. ASSUME NEW s \in SUBSET (1 .. m), s # {}
          PROVE  s \ {Max(s)} \in SUBSET (1 .. m - 1)
      BY <3>0, <3>2, <2>3, WithoutMax
    <3>3. ASSUME NEW t \in SUBSET (1 .. m - 1) PROVE g[t] = h[t]
      <4>1. t \in SUBSET (1 .. m)
        <5>1. \A x \in 1 .. m - 1 : x \in 1 .. m
          BY <3>0
        <5> QED BY <5>1
      <4>2. g[t] = IF t = {} THEN d ELSE Frame(g[t \ {Max(t)}])
        BY <3>1 DEF Framed
      <4>3. h[t] = IF t = {} THEN d ELSE Frame(g[t \ {Max(t)}])
        BY <4>1
      <4> QED BY <4>2, <4>3
    <3>4. ASSUME NEW s \in SUBSET (1 .. m)
          PROVE  (IF s = {} THEN d ELSE Frame(g[s \ {Max(s)}]))
                   = (IF s = {} THEN d ELSE Frame(h[s \ {Max(s)}]))
      <4> HIDE DEF h
      <4> QED BY <3>2, <3>3
    <3>6. Framed(h, d, m)
      BY <3>4 DEF Framed
    <3> HIDE DEF h
    <3> QED BY <3>6, <2>1
  <2> QED BY <2>2, <2>3
<1>2. n \notin B
  BY <1>1
<1> QED BY <1>2

\* Numbers that come up below, among much else.
LEMMA NumbersAre ==
  /\ \A p, q, z \in Nat : ~(p - q > z) => p - q <= z
  /\ \A p, q \in Nat : (p + 1) - q - 1 = p - q
  /\ \A n, i, k \in Nat : n + (i + 1) - k = n + 1 + i - k
  /\ \A m, n, k, i \in Nat : (m + n - k) + i = m + (n + i) - k
  /\ \A a, b, x, z \in Nat : b > x /\ x - a > z => ~(b - a - 1 <= z)
  /\ \A i, n \in Nat : i \in 1 .. n /\ i # n => i + 1 \in Nat /\ (i + 1) - 1 = i /\ i + 1 \in 1 .. n
  /\ \A y, x \in Nat : y < x => y + 1 \in y + 1 .. x
OBVIOUS

\* Consume in steps, each a frame.
LEMMA ConsumeIs ==
  ASSUME NEW d, NEW n \in Nat, 1 .. (Len(d.buffer) - Width + 1) = 1 .. n
  PROVE  \E h : /\ h[0] = d /\ \A k \in 1 .. n : h[k] = Frame(h[k - 1])
                /\ Consume(d) = h[n]
<1> DEFINE iter == CHOOSE g : Framed(g, d, n)
           h == [k \in 0 .. n |-> iter[1 .. k]]
<1>1. Framed(iter, d, n)
  BY FramesExist
<1>2. Consume(d) = iter[1 .. n]
  BY DEF Consume, FoldLeft, MapThenFoldSet, Framed
<1> HIDE DEF iter
<1>3. iter[1 .. 0] = d
  <2>1. 1 .. 0 = {}
    OBVIOUS
  <2> QED BY <1>1, <2>1 DEF Framed
<1>4. ASSUME NEW k \in 1 .. n PROVE iter[1 .. k] = Frame(iter[1 .. k - 1])
  <2>1. 1 .. k \in SUBSET (1 .. n) /\ 1 .. k # {} /\ (1 .. k) \ {Max(1 .. k)} = 1 .. k - 1
    BY FirstOnes
  <2> QED BY <1>1, <2>1 DEF Framed
<1>5. h[0] = d /\ h[n] = iter[1 .. n] /\ \A k \in 1 .. n : h[k] = Frame(h[k - 1])
  BY <1>3, <1>4
<1> HIDE DEF h
<1> QED BY <1>2, <1>5

(***************************************************************************)
(* What there is in the frames h as a whole, silence around them: the      *)
(* level of a frame, the window around it, its median, and whether there is *)
(* an event at it.                                                         *)
(***************************************************************************)
LevelAt(h, i) == IF i \in DOMAIN h THEN h[i] ELSE Low
Window(h, i) == [j \in 1 .. Width |-> LevelAt(h, i + j - Radius - 1)]
SmoothAt(h, i) == Median(Window(h, i))
EventAt(h, i) == \E j \in 1 .. i : SmoothAt(h, j) >= Enter /\ \A k \in j .. i : SmoothAt(h, k) >= Stay

\* Spans of sound; where the first i end (-1 if there are none).
Sounds == Seq(Nat \X Nat)
Detectors == [buffer : Seq(Levels), next : Nat, inside : BOOLEAN, start : Nat, spans : Sounds]
EndOf(spans, i) == IF i = 0 THEN -1 ELSE spans[i][2]

\* The spans of h that are over by n are exactly its runs of events.
RunAt(spans, h, n, i) ==
  /\ spans[i][1] < spans[i][2] /\ spans[i][2] <= n
  /\ EndOf(spans, i - 1) < spans[i][1]
  /\ \A k \in spans[i][1] + 1 .. spans[i][2] : EventAt(h, k)
  /\ \A k \in EndOf(spans, i - 1) + 1 .. spans[i][1] : ~EventAt(h, k)
Runs(spans, h, n) ==
  /\ spans \in Sounds
  /\ \A i \in 1 .. Len(spans) : RunAt(spans, h, n, i)
  /\ \A k \in EndOf(spans, Len(spans)) + 1 .. n : ~EventAt(h, k)

(***************************************************************************)
(* The detector has seen the frames h: in its buffer is what comes in the  *)
(* window of the next frame and behind, and up to the next frame it has    *)
(* found the events, the last one maybe still open.                        *)
(***************************************************************************)
Scan(d, h) ==
  /\ d \in Detectors
  /\ Len(d.buffer) = Radius + Len(h) - d.next
  /\ \A i \in 1 .. Len(d.buffer) : d.buffer[i] = LevelAt(h, d.next + i - Radius)
  /\ d.inside <=> EventAt(h, d.next)
  /\ d.inside => d.start < d.next /\ \A k \in d.start + 1 .. d.next : EventAt(h, k)
  /\ \E n \in Nat : /\ n = (IF d.inside THEN d.start ELSE d.next)
                    /\ Runs(d.spans, h, n) /\ EndOf(d.spans, Len(d.spans)) < n

LEMMA LevelsAre ==
  ASSUME NEW h \in Seq(Levels), NEW i
  PROVE  LevelAt(h, i) \in Levels
BY DEF LevelAt, Levels, Low

\* A median exists, so that the CHOOSE means it.
LEMMA MedianIsALevel ==
  ASSUME ListeningAssumption, NEW w \in [1 .. Width -> Levels]
  PROVE  Median(w) \in Nat
<1>1. Radius \in Nat /\ Width \in Nat \ {0} /\ Width \div 2 = Radius /\ Width = 2 * Radius + 1
  <2>1. Radius \in Nat
    BY DEF ListeningAssumption
  <2>2. \A n \in Nat : (2 * n + 1) \div 2 = n
    OBVIOUS
  <2> QED BY <2>1, <2>2 DEF Width
<1>2. w \in [1 .. Width -> Nat]
  BY DEF Levels, Low, Stay, Enter
<1>3. PICK g \in {w[k] : k \in 1 .. Width} :
        /\ Cardinality({k \in 1 .. Width : w[k] < g}) <= Width \div 2
        /\ Width \div 2 < Cardinality({k \in 1 .. Width : w[k] <= g})
  BY <1>1, <1>2, MedianExists
<1> DEFINE less == {k \in 1 .. Width : w[k] < g}
           upto == {k \in 1 .. Width : w[k] <= g}
           more == {k \in 1 .. Width : w[k] > g}
<1>4. IsFiniteSet(1 .. Width) /\ Cardinality(1 .. Width) = Width
  BY <1>1, CountTo
<1>5. more = (1 .. Width) \ upto /\ (1 .. Width) \cap upto = upto
  <2>1. g \in Nat /\ \A k \in 1 .. Width : w[k] \in Nat
    BY <1>2, <1>3
  <2> QED BY <2>1
<1>6. Cardinality(more) = Width - Cardinality(upto)
  <2> HIDE DEF more, upto
  <2>1. Cardinality((1 .. Width) \ upto)
          = Cardinality(1 .. Width) - Cardinality((1 .. Width) \cap upto)
    BY <1>4, FS_Difference
  <2> QED BY <1>4, <1>5, <2>1
<1>7. Cardinality(less) \in Nat /\ Cardinality(upto) \in Nat
  <2>1. less \in SUBSET (1 .. Width) /\ upto \in SUBSET (1 .. Width)
    OBVIOUS
  <2> HIDE DEF less, upto
  <2> QED BY <2>1, <1>4, FS_Subset, FS_CardinalityType
<1>8. Cardinality(less) <= Radius /\ Radius < Cardinality(upto)
  BY <1>1, <1>3
<1> HIDE DEF less, upto, more
<1>9. 2 * Cardinality(less) < Width /\ 2 * Cardinality(more) < Width
  BY <1>1, <1>6, <1>7, <1>8
<1>10. Len(w) = Width /\ DOMAIN w = 1 .. Width
  <2>1. w \in Seq(Levels)
    BY <1>1, ListsAre
  <2> QED BY <1>1, <2>1
<1>11. g \in ToSet(w)
  BY <1>3, <1>10 DEF ToSet
<1>12. \E p \in ToSet(w) :
         /\ 2 * Cardinality({i \in DOMAIN w : w[i] < p}) < Len(w)
         /\ 2 * Cardinality({i \in DOMAIN w : w[i] > p}) < Len(w)
  BY <1>9, <1>10, <1>11 DEF less, more
<1>13. Median(w) \in ToSet(w)
  BY <1>12 DEF Median
<1> QED BY <1>2, <1>10, <1>13 DEF ToSet

LEMMA SmoothIsANumber ==
  ASSUME ListeningAssumption, NEW h \in Seq(Levels), NEW i
  PROVE  SmoothAt(h, i) \in Nat
<1>1. Window(h, i) \in [1 .. Width -> Levels]
  BY LevelsAre DEF Window
<1> QED BY <1>1, MedianIsALevel DEF SmoothAt

\* An event opens at the upper threshold and goes on above the lower one.
LEMMA EventGoesOn ==
  ASSUME ListeningAssumption, NEW h \in Seq(Levels), NEW i \in Nat
  PROVE  /\ ~EventAt(h, 0)
         /\ EventAt(h, i + 1) <=> \/ SmoothAt(h, i + 1) >= Enter
                                  \/ EventAt(h, i) /\ SmoothAt(h, i + 1) >= Stay
<1>1. ~EventAt(h, 0)
  BY DEF EventAt
<1>2. ASSUME SmoothAt(h, i + 1) >= Enter PROVE EventAt(h, i + 1)
  <2>1. SmoothAt(h, i + 1) >= Stay
    BY <1>2, SmoothIsANumber DEF Enter, Stay
  <2>2. i + 1 \in 1 .. i + 1 /\ \A k \in i + 1 .. i + 1 : k = i + 1
    OBVIOUS
  <2> QED BY <1>2, <2>1, <2>2 DEF EventAt
<1>3. ASSUME EventAt(h, i), SmoothAt(h, i + 1) >= Stay PROVE EventAt(h, i + 1)
  <2>1. PICK j \in 1 .. i : SmoothAt(h, j) >= Enter /\ \A k \in j .. i : SmoothAt(h, k) >= Stay
    BY <1>3 DEF EventAt
  <2>2. j \in 1 .. i + 1 /\ \A k \in j .. i + 1 : k \in j .. i \/ k = i + 1
    OBVIOUS
  <2>3. \A k \in j .. i + 1 : SmoothAt(h, k) >= Stay
    BY <1>3, <2>1, <2>2
  <2> QED BY <2>1, <2>2, <2>3 DEF EventAt
<1>4. ASSUME EventAt(h, i + 1), ~(SmoothAt(h, i + 1) >= Enter)
      PROVE  EventAt(h, i) /\ SmoothAt(h, i + 1) >= Stay
  <2>1. PICK j \in 1 .. i + 1 : /\ SmoothAt(h, j) >= Enter
                                /\ \A k \in j .. i + 1 : SmoothAt(h, k) >= Stay
    BY <1>4 DEF EventAt
  <2>2. j # i + 1
    BY <1>4, <2>1
  <2>3. j \in 1 .. i /\ i + 1 \in j .. i + 1 /\ \A k \in j .. i : k \in j .. i + 1
    BY <2>2
  <2>4. \A k \in j .. i : SmoothAt(h, k) >= Stay
    BY <2>1, <2>3
  <2> QED BY <2>1, <2>3, <2>4 DEF EventAt
<1> QED BY <1>1, <1>2, <1>3, <1>4

LEMMA SoundsAre ==
  ASSUME NEW spans \in Sounds
  PROVE  /\ Len(spans) \in Nat
         /\ \A i \in 1 .. Len(spans) : spans[i][1] \in Nat /\ spans[i][2] \in Nat
         /\ \A i \in 0 .. Len(spans) : EndOf(spans, i) \in Int /\ -1 <= EndOf(spans, i)
<1>1. Len(spans) \in Nat /\ \A i \in 1 .. Len(spans) : spans[i] \in Nat \X Nat
  BY DEF Sounds
<1>2. \A i \in 1 .. Len(spans) : spans[i][1] \in Nat /\ spans[i][2] \in Nat
  BY <1>1
<1> QED BY <1>1, <1>2 DEF EndOf

\* A frame without an event, and a span that was closed.
LEMMA RunsExtend ==
  ASSUME NEW spans, NEW h, NEW a \in Nat, Runs(spans, h, a), ~EventAt(h, a + 1),
         EndOf(spans, Len(spans)) < a
  PROVE  Runs(spans, h, a + 1) /\ EndOf(spans, Len(spans)) < a + 1
<1>1. spans \in Sounds /\ \A i \in 1 .. Len(spans) : RunAt(spans, h, a, i)
  BY DEF Runs
<1>2. ASSUME NEW i \in 1 .. Len(spans) PROVE RunAt(spans, h, a + 1, i)
  <2>1. spans[i][2] \in Nat
    BY <1>1, SoundsAre
  <2> QED BY <1>1, <2>1 DEF RunAt
<1> DEFINE last == EndOf(spans, Len(spans))
<1>3. last \in Int
  BY <1>1, SoundsAre
<1>4. \A k \in last + 1 .. a : ~EventAt(h, k)
  BY DEF Runs
<1> HIDE DEF last
<1>5. \A k \in last + 1 .. a + 1 : k \in last + 1 .. a \/ k = a + 1
  BY <1>3
<1>6. \A k \in last + 1 .. a + 1 : ~EventAt(h, k)
  BY <1>4, <1>5
<1>7. last < a + 1
  BY <1>3 DEF last
<1> QED BY <1>1, <1>2, <1>6, <1>7 DEF Runs, last

LEMMA ScanIs ==
  ASSUME NEW h, NEW e \in Detectors, NEW n \in Nat,
         Len(e.buffer) = Radius + Len(h) - e.next,
         \A i \in 1 .. Len(e.buffer) : e.buffer[i] = LevelAt(h, e.next + i - Radius),
         e.inside <=> EventAt(h, e.next),
         e.inside => e.start < e.next /\ \A k \in e.start + 1 .. e.next : EventAt(h, k),
         n = (IF e.inside THEN e.start ELSE e.next),
         Runs(e.spans, h, n), EndOf(e.spans, Len(e.spans)) < n
  PROVE  Scan(e, h)
BY Zenon DEF Scan

LEMMA RunsGrow ==
  ASSUME NEW spans, NEW h, NEW a \in Nat, NEW b \in Nat, NEW c \in Nat, a < b, b <= c,
         Runs(spans, h, a), EndOf(spans, Len(spans)) < a,
         \A k \in a + 1 .. b : EventAt(h, k), \A k \in b + 1 .. c : ~EventAt(h, k)
  PROVE  /\ Runs(Append(spans, <<a, b>>), h, c)
         /\ EndOf(Append(spans, <<a, b>>), Len(Append(spans, <<a, b>>))) = b
<1> DEFINE more == Append(spans, <<a, b>>)
           m == Len(spans)
<1>1. /\ spans \in Sounds /\ m \in Nat /\ more \in Sounds /\ Len(more) = m + 1
      /\ more[m + 1] = <<a, b>> /\ \A i \in 1 .. m : more[i] = spans[i]
  BY DEF Runs, Sounds
<1> HIDE DEF more, m
<1>2. \A i \in 0 .. m : EndOf(more, i) = EndOf(spans, i)
  BY <1>1 DEF EndOf
<1>3. EndOf(more, m + 1) = b
  BY <1>1 DEF EndOf
<1>4. ASSUME NEW i \in 1 .. m PROVE RunAt(more, h, c, i)
  <2>1. RunAt(spans, h, a, i)
    BY DEF Runs, m
  <2>2. more[i] = spans[i] /\ EndOf(more, i - 1) = EndOf(spans, i - 1)
    <3>1. i - 1 \in 0 .. m
      BY <1>1
    <3> QED BY <1>1, <1>2, <3>1
  <2>3. spans[i][2] \in Nat
    BY <1>1, SoundsAre DEF m
  <2> QED BY <2>1, <2>2, <2>3 DEF RunAt
<1>5. \A k \in EndOf(spans, m) + 1 .. a : ~EventAt(h, k)
  BY DEF Runs, m
<1>6. EndOf(more, m) = EndOf(spans, m) /\ EndOf(spans, m) < a
  BY <1>1, <1>2 DEF m
<1>7. RunAt(more, h, c, m + 1)
  <2>1. more[m + 1][1] = a /\ more[m + 1][2] = b /\ m + 1 - 1 = m
    BY <1>1
  <2>2. EndOf(more, m + 1 - 1) = EndOf(spans, m) /\ EndOf(spans, m) < a
    BY <2>1, <1>6
  <2>3. PICK j \in Nat : j = m + 1 /\ j - 1 = m
    BY <1>1
  <2>4. /\ more[j][1] = a /\ more[j][2] = b
        /\ EndOf(more, j - 1) = EndOf(spans, m)
    BY <2>1, <2>2, <2>3
  <2>5. /\ more[j][1] < more[j][2] /\ more[j][2] <= c /\ EndOf(more, j - 1) < more[j][1]
        /\ \A k \in more[j][1] + 1 .. more[j][2] : EventAt(h, k)
        /\ \A k \in EndOf(more, j - 1) + 1 .. more[j][1] : ~EventAt(h, k)
    BY <2>2, <2>4, <1>5
  <2>6. RunAt(more, h, c, j)
    BY Zenon, <2>5 DEF RunAt
  <2> QED BY <2>3, <2>6
<1>8. \A i \in 1 .. m + 1 : RunAt(more, h, c, i)
  <2>1. \A i \in 1 .. m + 1 : i \in 1 .. m \/ i = m + 1
    BY <1>1
  <2> QED BY <2>1, <1>4, <1>7
<1>9. Runs(more, h, c)
  <2>1. \A i \in 1 .. Len(more) : RunAt(more, h, c, i)
    BY <1>1, <1>8
  <2>2. EndOf(more, Len(more)) = b
    BY <1>1, <1>3
  <2> QED BY <2>1, <2>2, <1>1 DEF Runs
<1> QED BY <1>1, <1>3, <1>9 DEF more

\* One frame of the detector.
LEMMA FrameKept ==
  ASSUME ListeningAssumption, NEW h \in Seq(Levels), NEW d, Scan(d, h), Len(d.buffer) >= Width
  PROVE  /\ Scan(Frame(d), h) /\ Frame(d).next = d.next + 1
         /\ Len(Frame(d).buffer) = Len(d.buffer) - 1
<1> DEFINE p == Median(SubSeq(d.buffer, 1, Width))
           e == Frame(d)
           goes == (~d.inside /\ p >= Enter) \/ (d.inside /\ ~(d.inside /\ p < Stay))
<1>1. /\ e.buffer = Tail(d.buffer) /\ e.next = d.next + 1 /\ e.inside = goes
      /\ e.start = IF ~d.inside /\ p >= Enter THEN d.next ELSE d.start
      /\ e.spans = IF d.inside /\ p < Stay THEN Append(d.spans, <<d.start, d.next>>) ELSE d.spans
      /\ e = [buffer |-> e.buffer, next |-> e.next, inside |-> e.inside, start |-> e.start,
              spans |-> e.spans]
  BY DEF Frame
<1>21. e.buffer = Tail(d.buffer)
  BY <1>1
<1>22. e.next = d.next + 1
  BY <1>1
<1>23. /\ e.start = IF ~d.inside /\ p >= Enter THEN d.next ELSE d.start
       /\ e.spans = IF d.inside /\ p < Stay THEN Append(d.spans, <<d.start, d.next>>)
                                            ELSE d.spans
  BY <1>1
<1>2. /\ d.buffer \in Seq(Levels) /\ d.next \in Nat /\ d.inside \in BOOLEAN /\ d.start \in Nat
      /\ d.spans \in Sounds
  BY DEF Scan, Detectors
<1>3. Width \in Nat /\ Width > 0 /\ Radius \in Nat /\ Width = 2 * Radius + 1
  BY DEF Width, ListeningAssumption
<1>4. \A i \in 1 .. Len(d.buffer) : d.buffer[i] = LevelAt(h, d.next + i - Radius)
  BY DEF Scan
<1>5. p = SmoothAt(h, d.next + 1)
  <2>1. \A j \in 1 .. Width : d.next + 1 + j - Radius - 1 = d.next + j - Radius
    BY <1>2, <1>3
  <2>2. SubSeq(d.buffer, 1, Width) = [j \in 1 .. Width |-> d.buffer[j]]
    BY <1>2, <1>3
  <2>3. \A j \in 1 .. Width : j \in 1 .. Len(d.buffer)
    BY <1>2, <1>3
  <2>4. \A j \in 1 .. Width : d.buffer[j] = LevelAt(h, d.next + 1 + j - Radius - 1)
    BY <1>4, <2>1, <2>3
  <2> QED BY <2>2, <2>4 DEF SmoothAt, Window
<1>6. p \in Nat
  BY <1>5, SmoothIsANumber
<1> HIDE DEF p
<1>8. e.buffer \in Seq(Levels) /\ Len(e.buffer) = Len(d.buffer) - 1
      /\ \A i \in 1 .. Len(e.buffer) : e.buffer[i] = d.buffer[i + 1]
  BY <1>2, <1>3, <1>21
<1> SUFFICES Scan(e, h)
  BY <1>8, <1>22
<1> HIDE DEF e
<1>24. /\ ~d.inside /\ ~goes => e.spans = d.spans
       /\ ~d.inside /\ goes => e.spans = d.spans /\ e.start = d.next
       /\ d.inside /\ goes => e.spans = d.spans /\ e.start = d.start
       /\ d.inside /\ ~goes => e.spans = Append(d.spans, <<d.start, d.next>>)
  BY <1>6, <1>23
<1>18. e.next \in Nat /\ e.inside \in BOOLEAN /\ e.start \in Nat /\ (e.inside <=> goes)
  <2>1. e.next \in Nat /\ e.start \in Nat
    BY <1>2, <1>22, <1>23
  <2>2. e.inside = goes
    BY <1>1
  <2> QED BY Zenon, <2>1, <2>2
<1>7. (goes <=> EventAt(h, e.next)) /\ (d.inside <=> EventAt(h, d.next))
  <2>1. d.inside <=> EventAt(h, d.next)
    BY DEF Scan
  <2>2. EventAt(h, d.next + 1) <=> p >= Enter \/ (EventAt(h, d.next) /\ p >= Stay)
    BY <1>2, <1>5, EventGoesOn
  <2> QED BY <2>1, <2>2, <1>6, <1>22 DEF Enter, Stay
<1> HIDE DEF goes
<1>9. ASSUME NEW i \in 1 .. Len(e.buffer)
      PROVE  e.buffer[i] = LevelAt(h, e.next + i - Radius)
  <2>1. i + 1 \in 1 .. Len(d.buffer)
    BY <1>2, <1>3, <1>8
  <2>2. d.next + (i + 1) - Radius = d.next + 1 + i - Radius
    <3>1. Radius \in Nat /\ i \in Nat
      BY <1>3
    <3> QED BY SMT, <1>2, <3>1
  <2> QED BY <2>1, <2>2, <1>22, <1>4, <1>8
<1>10. Len(e.buffer) = Radius + Len(h) - e.next
  <2>1. Len(d.buffer) = Radius + Len(h) - d.next
    BY DEF Scan
  <2>2. Len(d.buffer) \in Nat
    BY <1>2
  <2> QED BY <2>1, <2>2, <1>22, <1>2, <1>8
<1>11. PICK n \in Nat : /\ n = (IF d.inside THEN d.start ELSE d.next)
                        /\ Runs(d.spans, h, n) /\ EndOf(d.spans, Len(d.spans)) < n
  BY DEF Scan
<1>12. d.inside => d.start < d.next /\ \A k \in d.start + 1 .. d.next : EventAt(h, k)
  BY DEF Scan
<1>19. ASSUME e.spans \in Sounds PROVE e \in Detectors
  BY <1>1, <1>8, <1>18, <1>19 DEF Detectors
<1>20. ASSUME e.spans \in Sounds, e.inside, e.start < e.next,
              \A k \in e.start + 1 .. e.next : EventAt(h, k),
              Runs(e.spans, h, e.start), EndOf(e.spans, Len(e.spans)) < e.start
       PROVE  Scan(e, h)
  <2>1. e \in Detectors
    BY <1>19, <1>20
  <2>2. e.inside <=> EventAt(h, e.next)
    BY <1>7, <1>18
  <2> QED BY <2>1, <2>2, <1>9, <1>10, <1>18, <1>20, ScanIs
<1>25. ASSUME e.spans \in Sounds, ~e.inside,
              Runs(e.spans, h, e.next), EndOf(e.spans, Len(e.spans)) < e.next
       PROVE  Scan(e, h)
  <2>1. e \in Detectors
    BY <1>19, <1>25
  <2>2. e.inside <=> EventAt(h, e.next)
    BY <1>7, <1>18
  <2> QED BY <2>1, <2>2, <1>9, <1>10, <1>18, <1>25, ScanIs
<1>13. CASE ~d.inside /\ ~goes
  <2>1. e.spans = d.spans /\ ~e.inside /\ n = d.next
    BY <1>18, <1>24, <1>11, <1>13
  <2>2. ~EventAt(h, d.next + 1)
    BY <1>22, <1>7, <1>13
  <2>3. Runs(d.spans, h, d.next + 1) /\ EndOf(d.spans, Len(d.spans)) < d.next + 1
    BY <2>1, <2>2, <1>2, <1>11, RunsExtend
  <2> QED BY <2>1, <2>3, <1>22, <1>2, <1>25
<1>14. CASE ~d.inside /\ goes
  <2>1. e.spans = d.spans /\ e.inside /\ n = d.next /\ e.start = d.next
    BY <1>18, <1>24, <1>11, <1>14
  <2>2. \A k \in e.start + 1 .. e.next : EventAt(h, k)
    <3>1. \A k \in e.start + 1 .. e.next : k = e.next
      BY <2>1, <1>22, <1>2
    <3> QED BY <3>1, <1>7, <1>14
  <2>3. e.start < e.next
    BY <2>1, <1>22, <1>2
  <2> QED BY <2>1, <2>2, <2>3, <1>2, <1>11, <1>20
<1>15. CASE d.inside /\ goes
  <2>1. e.spans = d.spans /\ e.inside /\ n = d.start /\ e.start = d.start
    BY <1>18, <1>24, <1>11, <1>15
  <2>2. \A k \in e.start + 1 .. e.next : EventAt(h, k)
    <3>1. \A k \in d.start + 1 .. e.next : k \in d.start + 1 .. d.next \/ k = e.next
      BY <1>22, <1>2
    <3> QED BY <2>1, <3>1, <1>7, <1>12, <1>15
  <2>3. e.start < e.next
    BY <2>1, <1>22, <1>2, <1>12, <1>15
  <2> QED BY <2>1, <2>2, <2>3, <1>2, <1>11, <1>20
<1>16. CASE d.inside /\ ~goes
  <2>1. e.spans = Append(d.spans, <<d.start, d.next>>) /\ ~e.inside /\ n = d.start
    BY <1>18, <1>24, <1>11, <1>16
  <2>2. ~EventAt(h, d.next + 1)
    BY <1>22, <1>7, <1>16
  <2>3. /\ d.next + 1 \in Nat /\ d.next <= d.next + 1 /\ d.start < d.next
        /\ \A k \in d.next + 1 .. d.next + 1 : ~EventAt(h, k)
        /\ \A k \in d.start + 1 .. d.next : EventAt(h, k)
    <3>1. \A k \in d.next + 1 .. d.next + 1 : k = d.next + 1
      BY <1>2
    <3> QED BY <3>1, <1>2, <1>12, <1>16, <2>2
  <2>4. Runs(d.spans, h, d.start) /\ EndOf(d.spans, Len(d.spans)) < d.start
    BY <2>1, <1>11
  <2>5. /\ Runs(e.spans, h, d.next + 1) /\ EndOf(e.spans, Len(e.spans)) = d.next
    <3> DEFINE more == Append(d.spans, <<d.start, d.next>>)
    <3>1. Runs(more, h, d.next + 1) /\ EndOf(more, Len(more)) = d.next
      <4>1. PICK a \in Nat, b \in Nat, c \in Nat : a = d.start /\ b = d.next /\ c = d.next + 1
        BY <1>2
      <4>2. /\ a < b /\ b <= c /\ Runs(d.spans, h, a)
            /\ EndOf(d.spans, Len(d.spans)) < a /\ \A k \in a + 1 .. b : EventAt(h, k)
            /\ \A k \in b + 1 .. c : ~EventAt(h, k)
        BY <2>3, <2>4, <4>1
      <4>3. /\ Runs(Append(d.spans, <<a, b>>), h, c)
            /\ EndOf(Append(d.spans, <<a, b>>), Len(Append(d.spans, <<a, b>>))) = b
        BY <4>2, RunsGrow
      <4> QED BY <4>1, <4>3
    <3> QED BY <2>1, <3>1
  <2>6. e.spans \in Sounds
    BY <2>5 DEF Runs
  <2>7. EndOf(e.spans, Len(e.spans)) < e.next
    BY <2>5, <1>22, <1>2
  <2> QED BY <2>1, <2>5, <2>6, <2>7, <1>22, <1>25
<1> QED BY <1>13, <1>14, <1>15, <1>16

\* There are so many whole windows in the buffer.
Windows(d, n) ==
  \/ Len(d.buffer) < Width /\ n = 0
  \/ Len(d.buffer) >= Width /\ n = Len(d.buffer) - Width + 1

\* So many frames lie between them.
After(d, e, k) == e.next = d.next + k /\ Len(e.buffer) = Len(d.buffer) - k

LEMMA NextFrame ==
  ASSUME ListeningAssumption, NEW h \in Seq(Levels), NEW d, Scan(d, h),
         NEW n \in Nat, Windows(d, n), NEW k \in Nat, k < n,
         NEW e, Scan(e, h), After(d, e, k), NEW m \in Nat, m = k + 1
  PROVE  Scan(Frame(e), h) /\ After(d, Frame(e), m)
<1>1. /\ d.buffer \in Seq(Levels) /\ d.next \in Nat
      /\ e.buffer \in Seq(Levels) /\ e.next \in Nat
  BY DEF Scan, Detectors
<1>2. Len(d.buffer) \in Nat /\ Len(e.buffer) \in Nat
  BY <1>1
<1>3. Width \in Nat
  BY DEF Width, ListeningAssumption
<1>4. n = Len(d.buffer) - Width + 1
  BY <1>3, <1>2 DEF Windows
<1>10. e.next = d.next + k /\ Len(e.buffer) = Len(d.buffer) - k
  BY DEF After
<1>5. Len(e.buffer) >= Width
  BY <1>2, <1>3, <1>4, <1>10
<1>6. /\ Scan(Frame(e), h) /\ Frame(e).next = e.next + 1
      /\ Len(Frame(e).buffer) = Len(e.buffer) - 1
  BY <1>5, FrameKept
<1>7. Len(Frame(e).buffer) = Len(d.buffer) - m
  BY <1>2, <1>6, <1>10
<1>8. e.next = d.next + k /\ d.next \in Nat
  BY <1>1, <1>10
<1>9. Frame(e).next = d.next + m
  <2>1. PICK f : f = Frame(e).next /\ f = e.next + 1
    BY Zenon, <1>6
  <2>2. PICK a \in Nat : a = d.next /\ e.next = a + k
    BY <1>8
  <2>3. f = (a + k) + 1
    BY Zenon, <2>1, <2>2
  <2>4. (a + k) + 1 = a + m
    OBVIOUS
  <2> QED BY Zenon, <2>1, <2>2, <2>3, <2>4
<1> QED BY <1>6, <1>7, <1>9 DEF After

\* All whole windows of the buffer.
LEMMA ConsumeKept ==
  ASSUME ListeningAssumption, NEW h \in Seq(Levels), NEW d, Scan(d, h),
         NEW n \in Nat, Windows(d, n)
  PROVE  /\ Scan(Consume(d), h) /\ Consume(d).next = d.next + n
         /\ Len(Consume(d).buffer) = Len(d.buffer) - n
<1>1. d.buffer \in Seq(Levels) /\ d.next \in Nat
  BY DEF Scan, Detectors
<1>2. Len(d.buffer) \in Nat
  BY <1>1
<1>3. Width \in Nat
  BY DEF Width, ListeningAssumption
<1>4. 1 .. (Len(d.buffer) - Width + 1) = 1 .. n
  BY <1>2, <1>3 DEF Windows
<1>5. PICK g : g[0] = d /\ (\A k \in 1 .. n : g[k] = Frame(g[k - 1])) /\ Consume(d) = g[n]
  BY <1>4, ConsumeIs
<1> DEFINE Good(k) == Scan(g[k], h) /\ After(d, g[k], k)
<1>6. Good(0)
  BY <1>1, <1>2, <1>5 DEF After
<1>7. ASSUME NEW k \in Nat, NEW m \in Nat, m = k + 1, m - 1 = k, m \in 1 .. n, Good(k)
      PROVE  Good(m)
  <2>1. g[m] = Frame(g[k])
    BY <1>5, <1>7
  <2>2. k < n
    BY <1>7
  <2> QED BY <1>7, <2>1, <2>2, NextFrame
<1> DEFINE B == {k \in 0 .. n : ~Good(k)}
<1> HIDE DEF Good
<1>8. ASSUME B # {} PROVE FALSE
  <2>1. B \in SUBSET Nat
    OBVIOUS
  <2>2. PICK m \in B : \A k \in B : m <= k
    BY <1>8, <2>1, MinIsLeast
  <2>3. m \in 0 .. n /\ ~Good(m) /\ m # 0 /\ \A k \in 0 .. n : k < m => Good(k)
    BY <1>6, <2>2
  <2> HIDE DEF B
  <2>4. PICK k \in Nat : m = k + 1 /\ m - 1 = k
    BY <2>3
  <2>5. k \in 0 .. n /\ k < m /\ m \in 1 .. n /\ m \in Nat
    BY <2>3, <2>4
  <2> QED BY <1>7, <2>3, <2>4, <2>5
<1>9. Good(n)
  BY <1>8
<1> QED BY <1>5, <1>9 DEF Good, After

\* An event depends on the frames up to half a window behind it.
LEMMA EventsAgree ==
  ASSUME ListeningAssumption, NEW h, NEW g, NEW n \in Nat,
         \A i \in Int : i <= n + Radius => LevelAt(h, i) = LevelAt(g, i)
  PROVE  \A i \in 0 .. n : EventAt(h, i) <=> EventAt(g, i)
<1>1. Radius \in Nat /\ Width = 2 * Radius + 1
  BY DEF Width, ListeningAssumption
<1>2. ASSUME NEW i \in 0 .. n PROVE SmoothAt(h, i) = SmoothAt(g, i)
  <2>1. ASSUME NEW j \in 1 .. Width
        PROVE  LevelAt(h, i + j - Radius - 1) = LevelAt(g, i + j - Radius - 1)
    <3>1. PICK k \in Int : k = i + j - Radius - 1 /\ k <= n + Radius
      BY <1>1
    <3> QED BY <3>1
  <2> QED BY <2>1 DEF SmoothAt, Window
<1>3. ASSUME NEW i \in 0 .. n, NEW j \in 1 .. i
      PROVE  j \in 0 .. n /\ \A k \in j .. i : k \in 0 .. n
  BY <1>3
<1>4. ASSUME NEW i \in 0 .. n PROVE EventAt(h, i) <=> EventAt(g, i)
  BY <1>2, <1>3 DEF EventAt
<1> QED BY <1>4

LEMMA RunsAgree ==
  ASSUME NEW spans, NEW h, NEW g, NEW n \in Nat, Runs(spans, h, n),
         \A i \in 0 .. n : EventAt(h, i) <=> EventAt(g, i)
  PROVE  Runs(spans, g, n)
<1>1. spans \in Sounds /\ \A i \in 1 .. Len(spans) : RunAt(spans, h, n, i)
  BY DEF Runs
<1>2. ASSUME NEW i \in 1 .. Len(spans) PROVE RunAt(spans, g, n, i)
  <2>1. spans[i][1] \in Nat /\ spans[i][2] \in Nat /\ spans[i][2] <= n
        /\ EndOf(spans, i - 1) \in Int /\ -1 <= EndOf(spans, i - 1)
        /\ spans[i][1] < spans[i][2]
    <3>1. i - 1 \in 0 .. Len(spans) /\ Len(spans) \in Nat
      BY <1>1, SoundsAre
    <3> QED BY <1>1, <3>1, SoundsAre DEF RunAt
  <2>2. \A k \in spans[i][1] + 1 .. spans[i][2] : k \in 0 .. n
    BY <2>1
  <2>3. \A k \in EndOf(spans, i - 1) + 1 .. spans[i][1] : k \in 0 .. n
    BY <2>1
  <2>4. RunAt(spans, h, n, i)
    BY <1>1
  <2> QED BY Zenon, <2>2, <2>3, <2>4 DEF RunAt
<1>3. \A k \in EndOf(spans, Len(spans)) + 1 .. n : k \in 0 .. n
  <2>1. Len(spans) \in 0 .. Len(spans)
    BY <1>1, SoundsAre
  <2>2. EndOf(spans, Len(spans)) \in Int /\ -1 <= EndOf(spans, Len(spans))
    BY <1>1, <2>1, SoundsAre
  <2> QED BY <2>2
<1>4. \A k \in EndOf(spans, Len(spans)) + 1 .. n : ~EventAt(g, k)
  BY <1>3 DEF Runs
<1> QED BY <1>1, <1>2, <1>4 DEF Runs

\* What has been decided does not depend on what comes.
Settled(d, h) == d.next = 0 \/ d.next + Radius <= Len(h)

LEMMA LevelsAppended ==
  ASSUME NEW h \in Seq(Levels), NEW piece \in Seq(Levels)
  PROVE  /\ h \o piece \in Seq(Levels) /\ Len(h \o piece) = Len(h) + Len(piece)
         /\ \A i \in Int : i <= Len(h) => LevelAt(h \o piece, i) = LevelAt(h, i)
         /\ \A i \in 1 .. Len(piece) : LevelAt(h \o piece, Len(h) + i) = piece[i]
<1>1. /\ h \o piece \in Seq(Levels) /\ Len(h \o piece) = Len(h) + Len(piece)
      /\ Len(h) \in Nat /\ Len(piece) \in Nat
      /\ DOMAIN h = 1 .. Len(h) /\ DOMAIN (h \o piece) = 1 .. Len(h) + Len(piece)
      /\ \A i \in 1 .. Len(h) : (h \o piece)[i] = h[i]
      /\ \A i \in 1 .. Len(piece) : (h \o piece)[Len(h) + i] = piece[i]
  OBVIOUS
<1>2. ASSUME NEW i \in Int, i <= Len(h) PROVE LevelAt(h \o piece, i) = LevelAt(h, i)
  <2>1. i \in 1 .. Len(h) <=> i \in 1 .. Len(h) + Len(piece)
    BY <1>1, <1>2
  <2> QED BY <1>1, <2>1 DEF LevelAt
<1>3. ASSUME NEW i \in 1 .. Len(piece) PROVE LevelAt(h \o piece, Len(h) + i) = piece[i]
  <2>1. Len(h) + i \in 1 .. Len(h) + Len(piece)
    BY <1>1
  <2> QED BY <1>1, <2>1 DEF LevelAt
<1> QED BY <1>1, <1>2, <1>3

\* A piece more, and what the detector makes of it.
LEMMA ScanGrows ==
  ASSUME ListeningAssumption, NEW h \in Seq(Levels), NEW piece \in Seq(Levels),
         NEW d, Scan(d, h), Settled(d, h)
  PROVE  LET e == [d EXCEPT !.buffer = @ \o piece]
             g == h \o piece
         IN Scan(e, g) /\ e.next = d.next /\ Len(e.buffer) = Radius + Len(g) - d.next
<1> DEFINE e == [d EXCEPT !.buffer = @ \o piece]
           g == h \o piece
<1>1. /\ d \in Detectors /\ d.buffer \in Seq(Levels) /\ d.next \in Nat /\ d.start \in Nat
      /\ d.inside \in BOOLEAN
  BY DEF Scan, Detectors
<1>2. Radius \in Nat /\ Len(h) \in Nat /\ Len(piece) \in Nat /\ Len(d.buffer) \in Nat
  <2>1. Radius \in Nat
    BY DEF ListeningAssumption
  <2> QED BY <2>1, <1>1
<1>3. /\ e.buffer = d.buffer \o piece /\ e.next = d.next /\ e.inside = d.inside
      /\ e.start = d.start /\ e.spans = d.spans /\ e \in Detectors
  <2>1. d.buffer \o piece \in Seq(Levels)
    BY <1>1
  <2>2. e \in Detectors
    BY <1>1, <2>1 DEF Detectors
  <2>3. /\ e.buffer = d.buffer \o piece /\ e.next = d.next /\ e.inside = d.inside
        /\ e.start = d.start /\ e.spans = d.spans
    BY <1>1 DEF Detectors
  <2> QED BY <2>2, <2>3
<1>4. /\ g \in Seq(Levels) /\ Len(g) = Len(h) + Len(piece)
      /\ \A i \in Int : i <= Len(h) => LevelAt(g, i) = LevelAt(h, i)
      /\ \A i \in 1 .. Len(piece) : LevelAt(g, Len(h) + i) = piece[i]
  BY LevelsAppended
<1> HIDE DEF e, g
<1>5. Len(e.buffer) = Len(d.buffer) + Len(piece)
  BY <1>1, <1>3
<1>6. Len(d.buffer) = Radius + Len(h) - d.next
  BY DEF Scan
<1>7. Len(e.buffer) = Radius + Len(g) - d.next
  <2>1. Radius \in Nat /\ Len(h) \in Nat /\ Len(piece) \in Nat
    BY <1>1, <1>2
  <2>2. Len(e.buffer) = (Radius + Len(h) - d.next) + Len(piece)
    BY Zenon, <1>5, <1>6
  <2>3. (Radius + Len(h) - d.next) + Len(piece) = Radius + (Len(h) + Len(piece)) - d.next
    BY SMT, <1>1, <2>1
  <2> QED BY Zenon, <1>4, <2>2, <2>3
<1>8. ASSUME NEW i \in 1 .. Len(e.buffer)
      PROVE  e.buffer[i] = LevelAt(g, e.next + i - Radius)
  <2>1. CASE i <= Len(d.buffer)
    <3>1. i \in 1 .. Len(d.buffer) /\ e.buffer[i] = d.buffer[i]
      BY <1>1, <1>2, <1>3, <2>1
    <3>2. d.buffer[i] = LevelAt(h, d.next + i - Radius)
      BY <3>1 DEF Scan
    <3>3. d.next + i - Radius \in Int /\ d.next + i - Radius <= Len(h)
      <4>1. PICK a \in Nat, b \in Nat, c \in Nat : a = d.next /\ b = Radius /\ c = Len(h)
        BY <1>1, <1>2
      <4>2. i \in Nat
        BY <3>1
      <4>3. i <= b + c - a
        BY Zenon, <1>6, <2>1, <4>1
      <4>4. a + i - b \in Int /\ a + i - b <= c
        BY <4>2, <4>3
      <4> QED BY Zenon, <4>1, <4>4
    <3>4. LevelAt(g, d.next + i - Radius) = LevelAt(h, d.next + i - Radius)
      BY <1>4, <3>3
    <3> QED BY <1>3, <3>1, <3>2, <3>4
  <2>2. CASE i > Len(d.buffer)
    <3>1. PICK j \in 1 .. Len(piece) : i = Len(d.buffer) + j
      <4>1. i - Len(d.buffer) \in 1 .. Len(piece) /\ i = Len(d.buffer) + (i - Len(d.buffer))
        BY <1>2, <1>5, <2>2
      <4> QED BY <4>1
    <3>2. e.buffer[i] = piece[j]
      BY <1>1, <1>2, <1>3, <3>1
    <3>3. Len(h) + j = d.next + i - Radius
      <4>1. PICK r \in Nat, b \in Nat, n \in Nat, m \in Nat :
              r = Radius /\ b = Len(d.buffer) /\ n = d.next /\ m = Len(h)
        BY <1>1, <1>2
      <4>2. b = r + m - n
        BY Zenon, <1>6, <4>1
      <4>3. m + j = n + (b + j) - r
        BY <4>2
      <4> QED BY Zenon, <3>1, <4>1, <4>3
    <3> QED BY <1>3, <1>4, <3>2, <3>3
  <2> QED BY <1>2, <1>5, <2>1, <2>2
<1>9. \A i \in 0 .. d.next : EventAt(h, i) <=> EventAt(g, i)
  <2>1. CASE d.next = 0
    <3>1. ~EventAt(h, 0) /\ ~EventAt(g, 0)
      BY <1>4, EventGoesOn
    <3>2. \A i \in 0 .. d.next : i = 0
      BY <2>1
    <3> QED BY <3>1, <3>2
  <2>2. CASE d.next + Radius <= Len(h)
    <3>1. ASSUME NEW i \in Int, i <= d.next + Radius PROVE LevelAt(h, i) = LevelAt(g, i)
      <4>1. i <= Len(h)
        BY <1>1, <1>2, <2>2, <3>1
      <4> QED BY <1>4, <4>1
    <3> QED BY <1>1, <3>1, EventsAgree
  <2> QED BY <2>1, <2>2 DEF Settled
<1>10. d.inside <=> EventAt(h, d.next)
  BY DEF Scan
<1>11. e.inside <=> EventAt(g, e.next)
  <2>1. d.next \in 0 .. d.next
    BY <1>1
  <2>2. EventAt(h, d.next) <=> EventAt(g, d.next)
    BY <1>9, <2>1
  <2> QED BY <1>3, <1>10, <2>2
<1>12. e.inside => e.start < e.next /\ \A k \in e.start + 1 .. e.next : EventAt(g, k)
  <2>1. d.inside => d.start < d.next /\ \A k \in d.start + 1 .. d.next : EventAt(h, k)
    BY DEF Scan
  <2>2. \A k \in d.start + 1 .. d.next : k \in 0 .. d.next
    BY <1>1
  <2> QED BY <1>3, <1>9, <2>1, <2>2
<1>13. PICK n \in Nat : /\ n = (IF d.inside THEN d.start ELSE d.next)
                        /\ Runs(d.spans, h, n) /\ EndOf(d.spans, Len(d.spans)) < n
  BY DEF Scan
<1>14. Runs(d.spans, g, n)
  <2>1. n <= d.next
    <3>1. d.inside => d.start < d.next
      BY DEF Scan
    <3> QED BY <3>1, <1>1, <1>13
  <2>2. \A i \in 0 .. n : i \in 0 .. d.next
    BY <1>1, <2>1
  <2>3. \A i \in 0 .. n : EventAt(h, i) <=> EventAt(g, i)
    BY <1>9, <2>2
  <2> QED BY <1>13, <2>3, RunsAgree
<1>15. n = (IF e.inside THEN e.start ELSE e.next)
  BY <1>3, <1>13
<1>16. Runs(e.spans, g, n) /\ EndOf(e.spans, Len(e.spans)) < n
  BY <1>3, <1>13, <1>14
<1>17. Len(e.buffer) = Radius + Len(g) - e.next
  BY <1>3, <1>7
<1>18. Scan(e, g)
  BY Zenon, <1>3, <1>8, <1>11, <1>12, <1>13, <1>15, <1>16, <1>17 DEF Scan
<1> QED BY <1>3, <1>7, <1>18 DEF e, g

LEMMA TakeKept ==
  ASSUME ListeningAssumption, NEW h \in Seq(Levels), NEW piece \in Seq(Levels),
         NEW d, Scan(d, h), Settled(d, h), NEW t, t = Take(d, piece)
  PROVE  /\ Scan(t, h \o piece) /\ Settled(t, h \o piece)
         /\ \/ t.next = d.next /\ Len(h \o piece) <= d.next + Radius
            \/ t.next + Radius = Len(h \o piece)
<1> DEFINE e == [d EXCEPT !.buffer = @ \o piece]
           g == h \o piece
<1>1. Scan(e, g) /\ e.next = d.next /\ Len(e.buffer) = Radius + Len(g) - d.next
  BY ScanGrows
<1>2. t = Consume(e)
  BY DEF Take
<1>3. /\ g \in Seq(Levels) /\ Len(g) = Len(h) + Len(piece)
  BY LevelsAppended
<1>4. d.next \in Nat /\ Len(h) \in Nat /\ Len(piece) \in Nat
  BY DEF Scan, Detectors
<1> HIDE DEF e, g
<1>5. Len(e.buffer) \in Nat /\ Len(g) \in Nat
  BY <1>1, <1>3 DEF Scan, Detectors
<1>6. Radius \in Nat /\ Width = 2 * Radius + 1
  BY DEF ListeningAssumption, Width
<1>7. PICK n \in Nat : /\ Windows(e, n)
                       /\ (n = 0 /\ Len(g) <= d.next + Radius) \/ d.next + n + Radius = Len(g)
  <2>1. PICK r \in Nat, b \in Nat, m \in Nat, k \in Nat, w \in Nat :
          /\ r = Radius /\ b = Len(e.buffer) /\ k = d.next /\ m = Len(g) /\ w = Width
    <3>1. Width \in Nat
      BY <1>6
    <3> QED BY <1>4, <1>5, <1>6, <3>1
  <2>2. b = r + m - k
    BY Zenon, <1>1, <2>1
  <2>3. w = 2 * r + 1
    BY Zenon, <1>6, <2>1
  <2>4. PICK n \in Nat : /\ (b < w /\ n = 0) \/ (b >= w /\ n = b - w + 1)
                         /\ (n = 0 /\ m <= k + r) \/ k + n + r = m
    <3>1. CASE b < w
      <4>1. 0 \in Nat /\ m <= k + r
        BY <2>2, <2>3, <3>1
      <4> QED BY <3>1, <4>1
    <3>2. CASE b >= w
      <4>1. PICK n \in Nat : n = b - w + 1
        BY <3>2
      <4>2. k + n + r = m
        BY <2>2, <2>3, <4>1
      <4> QED BY <3>2, <4>1, <4>2
    <3> QED BY <3>1, <3>2
  <2>5. Windows(e, n)
    BY Zenon, <2>1, <2>4 DEF Windows
  <2>6. (n = 0 /\ Len(g) <= d.next + Radius) \/ d.next + n + Radius = Len(g)
    BY Zenon, <2>1, <2>4
  <2> QED BY Zenon, <2>5, <2>6
<1>8. Scan(t, g) /\ t.next = e.next + n
  BY <1>1, <1>2, <1>3, <1>7, ConsumeKept
<1>10. \/ t.next = d.next /\ Len(g) <= d.next + Radius
       \/ t.next + Radius = Len(g)
  BY <1>1, <1>4, <1>7, <1>8
<1>11. Settled(t, g)
  <2>1. CASE t.next = d.next
    <3>1. d.next = 0 \/ d.next + Radius <= Len(h)
      BY DEF Settled
    <3> QED BY <1>3, <1>4, <1>6, <2>1, <3>1 DEF Settled
  <2>2. CASE t.next + Radius = Len(g)
    BY <1>5, <2>2 DEF Settled
  <2> QED BY <1>10, <2>1, <2>2
<1> QED BY <1>8, <1>10, <1>11 DEF g

LEMMA SilenceChangesNothing ==
  ASSUME ListeningAssumption, NEW h \in Seq(Levels), NEW piece \in Seq(Levels),
         \A i \in 1 .. Len(piece) : piece[i] = Low
  PROVE  \A n \in Nat : \A i \in 0 .. n : EventAt(h \o piece, i) <=> EventAt(h, i)
<1> DEFINE g == h \o piece
<1>1. ASSUME NEW i \in Int PROVE LevelAt(g, i) = LevelAt(h, i)
  <2>1. CASE i <= Len(h)
    BY <2>1, LevelsAppended
  <2>2. CASE i \in Len(h) + 1 .. Len(h) + Len(piece)
    <3>1. PICK j \in 1 .. Len(piece) : i = Len(h) + j
      <4>1. Len(h) \in Nat /\ Len(piece) \in Nat
        OBVIOUS
      <4>2. i - Len(h) \in 1 .. Len(piece) /\ i = Len(h) + (i - Len(h))
        BY <2>2, <4>1
      <4> QED BY <4>2
    <3>2. LevelAt(g, i) = Low
      BY <3>1, LevelsAppended
    <3>3. i \notin DOMAIN h
      BY <2>2
    <3> QED BY <3>2, <3>3 DEF LevelAt
  <2>3. CASE i > Len(h) + Len(piece)
    <3>1. i \notin DOMAIN h /\ i \notin DOMAIN g
      BY <2>3
    <3> QED BY <3>1 DEF LevelAt
  <2> QED BY <2>1, <2>2, <2>3
<1> HIDE DEF g
<1> QED BY <1>1, EventsAgree DEF g

\* The silence at the end lets the detector decide on all frames.
LEMMA EndedIs ==
  ASSUME ListeningAssumption, NEW h \in Seq(Levels), NEW d, Scan(d, h), Settled(d, h)
  PROVE  Runs(Ended(d), h, Len(h))
<1> DEFINE lows == [i \in 1 .. Radius |-> Low]
           g == h \o lows
           t == Take(d, lows)
<1>1. Radius \in Nat /\ d.next \in Nat /\ Len(h) \in Nat
  BY DEF ListeningAssumption, Scan, Detectors
<1>2. lows \in Seq(Levels) /\ Len(lows) = Radius /\ \A i \in 1 .. Radius : lows[i] = Low
  BY <1>1 DEF Levels
<1> HIDE DEF lows
<1>3. Len(g) = Len(h) + Radius
  BY <1>2, LevelsAppended
<1>4. /\ Scan(t, g)
      /\ \/ t.next = d.next /\ Len(g) <= d.next + Radius
         \/ t.next + Radius = Len(g)
  BY <1>2, TakeKept
<1> HIDE DEF t
<1>5. d.next <= Len(h)
  <2>1. d.next = 0 \/ d.next + Radius <= Len(h)
    BY DEF Settled
  <2> QED BY <1>1, <2>1
<1>6. t.next \in Nat /\ t.start \in Nat /\ t.inside \in BOOLEAN
  BY <1>4 DEF Scan, Detectors
<1>7. t.next = Len(h)
  BY <1>1, <1>3, <1>4, <1>5, <1>6
<1>8. PICK n \in Nat : /\ n = (IF t.inside THEN t.start ELSE t.next)
                       /\ Runs(t.spans, g, n) /\ EndOf(t.spans, Len(t.spans)) < n
  BY <1>4 DEF Scan
<1>9. t.inside => t.start < t.next /\ \A k \in t.start + 1 .. t.next : EventAt(g, k)
  BY <1>4 DEF Scan
<1> DEFINE out == IF t.inside THEN Append(t.spans, <<t.start, t.next>>) ELSE t.spans
<1>10. Runs(out, g, Len(h))
  <2>1. CASE ~t.inside
    BY <1>7, <1>8, <2>1
  <2>2. CASE t.inside
    <3>1. PICK a \in Nat, b \in Nat : a = t.start /\ b = t.next /\ b = Len(h)
      BY <1>6, <1>7
    <3>2. /\ a < b /\ b <= b /\ Runs(t.spans, g, a) /\ EndOf(t.spans, Len(t.spans)) < a
          /\ \A k \in a + 1 .. b : EventAt(g, k)
          /\ \A k \in b + 1 .. b : ~EventAt(g, k)
      BY <1>8, <1>9, <2>2, <3>1
    <3>3. Runs(Append(t.spans, <<a, b>>), g, b)
      BY <3>2, RunsGrow
    <3> QED BY <2>2, <3>1, <3>3
  <2> QED BY <2>1, <2>2
<1>11. out = Ended(d)
  BY DEF Ended, t, lows
<1> HIDE DEF out
<1>12. \A i \in 0 .. Len(h) : EventAt(g, i) <=> EventAt(h, i)
  BY <1>1, <1>2, SilenceChangesNothing
<1>13. Runs(out, h, Len(h))
  BY <1>1, <1>10, <1>12, RunsAgree
<1> QED BY <1>11, <1>13

-----------------------------------------------------------------------------
(***************************************************************************)
(* Close spans are merged.  MergeClose in steps, each a span:              *)
(***************************************************************************)
LEMMA JoinIs ==
  ASSUME ListeningAssumption, NEW m \in Sounds, NEW s \in Nat \X Nat
  PROVE  /\ JoinClose(m, s) \in Sounds
         /\ (m = <<>> \/ s[1] - m[Len(m)][2] > MergeGap) => JoinClose(m, s) = Append(m, s)
         /\ (m # <<>> /\ ~(s[1] - m[Len(m)][2] > MergeGap)) =>
              /\ Len(JoinClose(m, s)) = Len(m)
              /\ JoinClose(m, s)[Len(m)] = <<m[Len(m)][1], s[2]>>
              /\ \A i \in 1 .. Len(m) : i < Len(m) => JoinClose(m, s)[i] = m[i]
<1>1. Append(m, s) \in Sounds /\ MergeGap \in Nat /\ Len(m) \in Nat
  BY DEF Sounds, ListeningAssumption
<1>2. CASE m = <<>>
  BY <1>1, <1>2 DEF JoinClose
<1>3. CASE m # <<>>
  <2>1. Len(m) \in 1 .. Len(m) /\ m[Len(m)] \in Nat \X Nat
    BY <1>3 DEF Sounds
  <2>2. s[1] \in Nat /\ s[2] \in Nat /\ m[Len(m)][1] \in Nat /\ m[Len(m)][2] \in Nat
    BY <2>1
  <2> DEFINE r == Append(Front(m), <<Last(m)[1], s[2]>>)
  <2>3. /\ Front(m) \in Sounds /\ Len(Front(m)) = Len(m) - 1
        /\ \A i \in 1 .. Len(m) - 1 : Front(m)[i] = m[i]
    <3>1. PICK b \in Nat : b = Len(m) - 1
      BY <2>1, <1>1
    <3>2. Front(m) = [i \in 1 .. b |-> m[i]]
      BY <2>1, <1>1, <3>1 DEF Front, Sounds
    <3>3. \A i \in 1 .. b : m[i] \in Nat \X Nat
      <4>1. \A i \in 1 .. b : i \in 1 .. Len(m)
        BY <1>1, <3>1
      <4> QED BY <4>1 DEF Sounds
    <3>4. Front(m) \in Sounds /\ Len(Front(m)) = b
      BY <3>2, <3>3, ListsAre DEF Sounds
    <3> QED BY <3>1, <3>2, <3>4
  <2>4. /\ r \in Sounds /\ Len(r) = Len(m) /\ r[Len(m)] = <<m[Len(m)][1], s[2]>>
        /\ \A i \in 1 .. Len(m) : i < Len(m) => r[i] = m[i]
    <3>1. Last(m) = m[Len(m)]
      BY DEF Last
    <3>2. PICK p \in Nat \X Nat : p = <<Last(m)[1], s[2]>>
      BY <2>2, <3>1
    <3>3. /\ Append(Front(m), p) \in Sounds /\ Len(Append(Front(m), p)) = Len(Front(m)) + 1
          /\ Append(Front(m), p)[Len(Front(m)) + 1] = p
          /\ \A i \in 1 .. Len(Front(m)) : Append(Front(m), p)[i] = Front(m)[i]
      BY <2>3, AppendProperties DEF Sounds
    <3>4. Len(Front(m)) + 1 = Len(m)
      BY <2>3, <1>1
    <3>5. \A i \in 1 .. Len(m) : i < Len(m) => i \in 1 .. Len(m) - 1 /\ i \in 1 .. Len(Front(m))
      BY <2>3, <1>1
    <3> QED BY <2>3, <3>1, <3>2, <3>3, <3>4, <3>5
  <2> HIDE DEF r
  <2>5. (s[1] - m[Len(m)][2] > MergeGap) <=> ~(s[1] - m[Len(m)][2] <= MergeGap)
    <3>1. \A x, y, z \in Nat : (x - y > z) <=> ~(x - y <= z)
      OBVIOUS
    <3> QED BY Zenon, <2>2, <1>1, <3>1
  <2>6. JoinClose(m, s) = IF s[1] - m[Len(m)][2] <= MergeGap THEN r ELSE Append(m, s)
    BY <1>3 DEF JoinClose, r, Last
  <2> QED BY Zenon, <1>1, <1>3, <2>4, <2>5, <2>6
<1> QED BY <1>2, <1>3

LEMMA MergeIs ==
  ASSUME ListeningAssumption, NEW spans \in Sounds, NEW n \in Nat, Len(spans) = n
  PROVE  \E g : /\ g[0] = <<>> /\ \A k \in 1 .. n : g[k] = JoinClose(g[k - 1], spans[k])
                /\ MergeClose(spans) = g[n]
<1> DEFINE Fold(g) == g = [s \in SUBSET (1 .. n) |->
                            IF s = {} THEN <<>> ELSE JoinClose(g[s \ {Max(s)}], spans[Max(s)])]
           f == [p \in Sounds \X (1 .. n) |-> JoinClose(p[1], spans[p[2]])]
           iter == CHOOSE g : Fold(g)
           h == [k \in 0 .. n |-> iter[1 .. k]]
<1>1. \A k \in 1 .. n : spans[k] \in Nat \X Nat
  BY DEF Sounds
<1>2. f \in [Sounds \X (1 .. n) -> Sounds]
  <2>1. ASSUME NEW p \in Sounds \X (1 .. n) PROVE JoinClose(p[1], spans[p[2]]) \in Sounds
    <3>1. p[1] \in Sounds /\ p[2] \in 1 .. n
      OBVIOUS
    <3> QED BY <1>1, <3>1, JoinIs
  <2> QED BY <2>1
<1>3. <<>> \in Sounds
  BY DEF Sounds
<1>4. PICK g : FoldsIn(Sounds, g, f, <<>>, n)
  <2> HIDE DEF f
  <2> QED BY <1>2, <1>3, FoldsWithin
<1>5. Fold(g)
  <2>1. ASSUME NEW s \in SUBSET (1 .. n)
        PROVE  g[s] = IF s = {} THEN <<>> ELSE JoinClose(g[s \ {Max(s)}], spans[Max(s)])
    <3>1. CASE s # {}
      <4>1. <<g[s \ {Max(s)}], Max(s)>> \in Sounds \X (1 .. n)
        BY <1>4, <3>1 DEF FoldsIn
      <4> QED BY <1>4, <3>1, <4>1 DEF FoldsIn
    <3> QED BY <1>4, <3>1 DEF FoldsIn
  <2> QED BY <1>4, <2>1 DEF FoldsIn
<1>6. Fold(iter)
  BY <1>5
<1>7. MergeClose(spans) = iter[1 .. n]
  <2>1. DOMAIN spans = 1 .. n
    BY DEF Sounds
  <2> QED BY <2>1 DEF MergeClose, FoldLeft, MapThenFoldSet
<1> HIDE DEF iter
<1>8. iter[1 .. 0] = <<>>
  <2>1. 1 .. 0 = {} /\ {} \in SUBSET (1 .. n)
    OBVIOUS
  <2> QED BY <1>6, <2>1
<1>9. ASSUME NEW k \in 1 .. n PROVE iter[1 .. k] = JoinClose(iter[1 .. k - 1], spans[k])
  <2>1. /\ 1 .. k \in SUBSET (1 .. n) /\ 1 .. k # {}
        /\ (1 .. k) \ {Max(1 .. k)} = 1 .. k - 1 /\ Max(1 .. k) = k
    BY FirstOnes
  <2> QED BY <1>6, <2>1
<1>10. h[0] = <<>> /\ h[n] = iter[1 .. n] /\ \A k \in 1 .. n : h[k] = JoinClose(h[k - 1], spans[k])
  BY <1>8, <1>9
<1> HIDE DEF h
<1> QED BY <1>7, <1>10

\* A frame is covered by an event, or by two with a short gap between them.
CoveredAt(h, i) ==
  \E a, b \in DOMAIN h :
    a <= i /\ i <= b /\ EventAt(h, a) /\ EventAt(h, b)
      /\ (a = b \/ \A k \in (a + 1) .. (b - 1) : ~EventAt(h, k)) /\ b - a - 1 <= MergeGap

\* A merged span from x to y, behind one that ended at e.
Piece(h, first, e, x, y) ==
  /\ e < x /\ x < y /\ y <= Len(h)
  /\ EventAt(h, x + 1) /\ EventAt(h, y)
  /\ \A k \in x + 1 .. y : CoveredAt(h, k)
  /\ \A k \in e + 1 .. x : ~EventAt(h, k)
  /\ first \/ (x - e > MergeGap /\ e > 0 /\ EventAt(h, e))

\* A piece is covered, and stays so when it is joined with the next run.
LEMMA EventsAreCovered ==
  ASSUME ListeningAssumption, NEW h \in Seq(Levels), NEW k \in Nat, k > 0, k <= Len(h),
         EventAt(h, k)
  PROVE  CoveredAt(h, k)
<1>1. k \in DOMAIN h /\ MergeGap \in Nat /\ k - k - 1 <= MergeGap
  BY DEF ListeningAssumption
<1> QED BY <1>1 DEF CoveredAt

LEMMA GapsAreCovered ==
  ASSUME ListeningAssumption, NEW h \in Seq(Levels), NEW a \in Nat, NEW b \in Nat,
         0 < a, a < b, b <= Len(h), EventAt(h, a), EventAt(h, b),
         \A k \in a + 1 .. b - 1 : ~EventAt(h, k), b - a - 1 <= MergeGap,
         NEW k \in a .. b
  PROVE  CoveredAt(h, k)
<1>1. a \in DOMAIN h /\ b \in DOMAIN h
  OBVIOUS
<1>2. a <= k /\ k <= b
  OBVIOUS
<1> QED BY Zenon, <1>1, <1>2 DEF CoveredAt

LEMMA PieceStarts ==
  ASSUME ListeningAssumption, NEW h \in Seq(Levels), NEW e \in Int, NEW a \in Nat, NEW b \in Nat,
         -1 <= e, e < a, a < b, b <= Len(h),
         \A k \in a + 1 .. b : EventAt(h, k), \A k \in e + 1 .. a : ~EventAt(h, k),
         NEW first, first \/ (a - e > MergeGap /\ e > 0 /\ EventAt(h, e))
  PROVE  Piece(h, first, e, a, b)
<1>1. a + 1 \in a + 1 .. b /\ b \in a + 1 .. b
  OBVIOUS
<1>2. EventAt(h, a + 1) /\ EventAt(h, b)
  BY <1>1
<1>3. ASSUME NEW k \in a + 1 .. b PROVE CoveredAt(h, k)
  <2>1. k \in Nat /\ k > 0 /\ k <= Len(h)
    OBVIOUS
  <2> QED BY <2>1, EventsAreCovered
<1> QED BY Zenon, <1>2, <1>3 DEF Piece

LEMMA PieceJoins ==
  ASSUME ListeningAssumption, NEW h \in Seq(Levels), NEW e \in Int, NEW x \in Nat, NEW y \in Nat,
         NEW first, Piece(h, first, e, x, y),
         NEW a \in Nat, NEW b \in Nat, y < a, a < b, b <= Len(h), ~(a - y > MergeGap),
         \A k \in a + 1 .. b : EventAt(h, k), \A k \in y + 1 .. a : ~EventAt(h, k)
  PROVE  Piece(h, first, e, x, b)
<1>1. e < x /\ x < y /\ EventAt(h, x + 1) /\ EventAt(h, y)
  BY DEF Piece
<1>2. /\ \A k \in x + 1 .. y : CoveredAt(h, k)
      /\ \A k \in e + 1 .. x : ~EventAt(h, k)
      /\ first \/ (x - e > MergeGap /\ e > 0 /\ EventAt(h, e))
  BY DEF Piece
<1>3. MergeGap \in Nat
  BY DEF ListeningAssumption
<1>4. b \in a + 1 .. b /\ a + 1 \in a + 1 .. b
  OBVIOUS
<1>5. EventAt(h, b) /\ EventAt(h, a + 1)
  BY <1>4
<1>6. ASSUME NEW k \in x + 1 .. b PROVE CoveredAt(h, k)
  <2>1. CASE k \in x + 1 .. y
    BY <1>2, <2>1
  <2>2. CASE k \in y .. a + 1
    <3>1. PICK c \in Nat : c = a + 1
      OBVIOUS
    <3>2. 0 < y /\ y < c /\ c <= Len(h) /\ c - y - 1 <= MergeGap
      <4>1. Len(h) \in Nat
        OBVIOUS
      <4>2. a - y <= MergeGap
        BY Zenon, <1>3, NumbersAre
      <4>3. 0 < y /\ y < c /\ c <= Len(h)
        BY <1>1, <3>1, <4>1
      <4>4. c - y - 1 = a - y
        BY SMT, <3>1
      <4> QED BY Zenon, <4>2, <4>3, <4>4
    <3>3. \A j \in y + 1 .. c - 1 : j \in y + 1 .. a
      BY <3>1
    <3>4. k \in y .. c
      BY <2>2, <3>1
    <3>5. EventAt(h, c)
      BY <1>5, <3>1
    <3> QED BY <1>1, <3>2, <3>3, <3>4, <3>5, GapsAreCovered
  <2>3. CASE k \in a + 1 .. b
    <3>1. k \in Nat /\ k > 0 /\ k <= Len(h)
      BY <2>3
    <3> QED BY <2>3, <3>1, EventsAreCovered
  <2>4. k \in x + 1 .. y \/ k \in y .. a + 1 \/ k \in a + 1 .. b
    BY <1>1
  <2> QED BY <2>1, <2>2, <2>3, <2>4
<1>7. x < b
  BY <1>1
<1> QED BY Zenon, <1>1, <1>2, <1>5, <1>6, <1>7 DEF Piece

\* Before a piece nothing is covered.
LEMMA OpenBefore ==
  ASSUME ListeningAssumption, NEW h \in Seq(Levels), NEW e \in Int, NEW x \in Nat, NEW y \in Nat,
         NEW first, first => e = -1, Piece(h, first, e, x, y), NEW p \in e + 1 .. x
  PROVE  ~CoveredAt(h, p)
<1>1. SUFFICES ASSUME CoveredAt(h, p) PROVE FALSE
  OBVIOUS
<1>2. PICK a \in DOMAIN h, b \in DOMAIN h :
        /\ a <= p /\ p <= b /\ EventAt(h, a) /\ EventAt(h, b) /\ b - a - 1 <= MergeGap
        /\ a = b \/ \A k \in (a + 1) .. (b - 1) : ~EventAt(h, k)
  BY <1>1 DEF CoveredAt
<1>3. a \in Nat /\ b \in Nat /\ a > 0 /\ b > 0 /\ MergeGap \in Nat
  BY DEF ListeningAssumption
<1>4. \A k \in e + 1 .. x : ~EventAt(h, k)
  BY DEF Piece
<1>5. a <= e
  <2>1. a \notin e + 1 .. x
    BY <1>2, <1>4
  <2>2. a <= p /\ p <= x /\ p \in Int
    BY <1>2
  <2>3. a <= x
    BY <1>3, <2>2
  <2> QED BY <1>3, <2>1, <2>3
<1>6. b > x
  <2>1. b \notin e + 1 .. x
    BY <1>2, <1>4
  <2>2. p <= b /\ e + 1 <= p /\ p \in Int
    BY <1>2
  <2>3. e + 1 <= b
    BY <1>3, <2>2
  <2> QED BY <1>3, <2>1, <2>3
<1>7. ~first /\ x - e > MergeGap /\ e > 0 /\ EventAt(h, e)
  BY <1>3, <1>5 DEF Piece
<1>8. ~(e \in (a + 1) .. (b - 1))
  <2>1. a # b
    BY <1>2, <1>3, <1>5, <1>6
  <2> QED BY <1>2, <1>7, <2>1
<1>9. e < x
  BY DEF Piece
<1>10. e <= b - 1
  BY <1>3, <1>6, <1>9
<1>11. a = e
  BY <1>3, <1>5, <1>8, <1>10
<1>12. a \in Nat /\ b \in Nat /\ MergeGap \in Nat /\ x - a > MergeGap
  BY Zenon, <1>3, <1>7, <1>11
<1> QED BY Zenon, <1>2, <1>6, <1>12, NumbersAre

\* The pieces that the spans so far are merged to; the last one ended at e.
Merged(m, h, e) ==
  /\ m \in Sounds /\ EndOf(m, Len(m)) = e
  /\ \A i \in 1 .. Len(m), j \in 0 .. Len(m) :
       j + 1 = i => Piece(h, i = 1, EndOf(m, j), m[i][1], m[i][2])

\* One span more, in a piece of its own or joined with the last one.
LEMMA EndsAre ==
  ASSUME NEW m \in Sounds, NEW r \in Sounds, NEW n \in Nat, n <= Len(m), n <= Len(r),
         \A i \in 1 .. n : r[i] = m[i]
  PROVE  \A j \in 0 .. n : EndOf(r, j) = EndOf(m, j)
BY DEF EndOf

LEMMA MergedAppend ==
  ASSUME ListeningAssumption, NEW h \in Seq(Levels), NEW m, NEW e \in Int, Merged(m, h, e),
         NEW a \in Nat, NEW b \in Nat, Piece(h, m = <<>>, e, a, b)
  PROVE  Merged(Append(m, <<a, b>>), h, b)
<1> DEFINE r == Append(m, <<a, b>>)
<1>1. m \in Sounds /\ EndOf(m, Len(m)) = e
  BY DEF Merged
<1>2. /\ Len(m) \in Nat /\ r \in Sounds /\ Len(r) = Len(m) + 1 /\ r[Len(m) + 1] = <<a, b>>
      /\ \A i \in 1 .. Len(m) : r[i] = m[i]
  <2>1. PICK t \in Nat \X Nat : t = <<a, b>>
    OBVIOUS
  <2>2. /\ Append(m, t) \in Sounds /\ Len(Append(m, t)) = Len(m) + 1
        /\ Append(m, t)[Len(m) + 1] = t /\ \A i \in 1 .. Len(m) : Append(m, t)[i] = m[i]
    BY <1>1, AppendProperties DEF Sounds
  <2> QED BY <1>1, <2>1, <2>2, SoundsAre
<1> HIDE DEF r
<1>3. \A j \in 0 .. Len(m) : EndOf(r, j) = EndOf(m, j)
  <2>1. Len(m) <= Len(m) /\ Len(m) <= Len(r)
    BY <1>2
  <2> QED BY <1>1, <1>2, <2>1, EndsAre
<1>4. EndOf(r, Len(r)) = b
  BY <1>2 DEF EndOf
<1>5. ASSUME NEW i \in 1 .. Len(r), NEW j \in 0 .. Len(r), j + 1 = i
      PROVE  Piece(h, i = 1, EndOf(r, j), r[i][1], r[i][2])
  <2>1. CASE i \in 1 .. Len(m)
    <3>1. j \in 0 .. Len(m) /\ r[i] = m[i] /\ EndOf(r, j) = EndOf(m, j)
      BY <1>2, <1>3, <1>5, <2>1
    <3>2. Piece(h, i = 1, EndOf(m, j), m[i][1], m[i][2])
      BY <1>5, <2>1, <3>1 DEF Merged
    <3> QED BY <3>1, <3>2
  <2>2. CASE i \notin 1 .. Len(m)
    <3>1. i = Len(m) + 1 /\ j = Len(m)
      BY <1>2, <1>5, <2>2
    <3>2. r[i][1] = a /\ r[i][2] = b
      BY <1>2, <3>1
    <3>3. EndOf(r, j) = e
      BY <1>1, <1>2, <1>3, <3>1
    <3>4. (i = 1) <=> (m = <<>>)
      <4>1. (i = 1) <=> (Len(m) = 0)
        BY <1>2, <3>1
      <4>2. (Len(m) = 0) <=> (m = <<>>)
        BY <1>1, EmptySeq DEF Sounds
      <4> QED BY Zenon, <4>1, <4>2
    <3>5. (i = 1) = (m = <<>>)
      BY <3>4
    <3> QED BY <3>2, <3>3, <3>5
  <2> QED BY <2>1, <2>2
<1> QED BY <1>2, <1>4, <1>5 DEF Merged, r

LEMMA MergedJoin ==
  ASSUME ListeningAssumption, NEW h \in Seq(Levels), NEW m, NEW e \in Int, Merged(m, h, e),
         m # <<>>, NEW a \in Nat, NEW b \in Nat, e < a, a < b, b <= Len(h), ~(a - e > MergeGap),
         \A k \in a + 1 .. b : EventAt(h, k), \A k \in e + 1 .. a : ~EventAt(h, k),
         NEW r \in Sounds, Len(r) = Len(m), r[Len(m)] = <<m[Len(m)][1], b>>,
         \A i \in 1 .. Len(m) : i < Len(m) => r[i] = m[i]
  PROVE  Merged(r, h, b)
<1>1. m \in Sounds /\ EndOf(m, Len(m)) = e
  BY DEF Merged
<1>2. PICK n \in Nat : Len(m) = n /\ n > 0 /\ n - 1 \in Nat
  BY <1>1 DEF Sounds
<1>3. EndOf(r, n) = b
  BY <1>2 DEF EndOf
<1>4. \A j \in 0 .. n - 1 : EndOf(r, j) = EndOf(m, j)
  <2>1. n - 1 <= Len(m) /\ n - 1 <= Len(r) /\ \A i \in 1 .. n - 1 : r[i] = m[i]
    BY <1>2
  <2> QED BY <1>1, <1>2, <2>1, EndsAre
<1>5. ASSUME NEW i \in 1 .. n, NEW j \in 0 .. n, j + 1 = i
      PROVE  Piece(h, i = 1, EndOf(r, j), r[i][1], r[i][2])
  <2>1. Piece(h, i = 1, EndOf(m, j), m[i][1], m[i][2])
    BY <1>2, <1>5 DEF Merged
  <2>2. j \in 0 .. n - 1 /\ EndOf(r, j) = EndOf(m, j)
    BY <1>2, <1>4, <1>5
  <2>3. CASE i < n
    BY <1>2, <2>1, <2>2, <2>3
  <2>4. CASE i = n
    <3>1. m[i][1] \in Nat /\ m[i][2] \in Nat /\ m[i][2] = e /\ EndOf(m, j) \in Int
      <4>1. i \in 1 .. Len(m) /\ j \in 0 .. Len(m)
        BY <1>2
      <4>2. m[i][2] = e
        BY <1>1, <1>2, <2>4 DEF EndOf
      <4> QED BY <1>1, <4>1, <4>2, SoundsAre
    <3>2. PICK x \in Nat, y \in Nat, c \in Int : x = m[i][1] /\ y = m[i][2] /\ c = EndOf(m, j)
      BY <3>1
    <3>3. Piece(h, i = 1, c, x, y) /\ y = e
      BY <2>1, <3>1, <3>2
    <3>4. Piece(h, i = 1, c, x, b)
      BY <3>3, PieceJoins
    <3>5. r[i][1] = x /\ r[i][2] = b
      <4>1. r[i] = <<m[i][1], b>>
        BY <1>2, <2>4
      <4> QED BY <3>2, <4>1
    <3> QED BY <2>2, <3>2, <3>4, <3>5
  <2> QED BY <2>3, <2>4
<1> QED BY <1>2, <1>3, <1>5 DEF Merged

LEMMA NotEmpty == ASSUME NEW m \in Sounds, NEW s \in Nat \X Nat PROVE Append(m, s) # <<>>
<1>1. Len(Append(m, s)) > 0
  BY DEF Sounds
<1>2. ~(Len(<<>>) > 0)
  OBVIOUS
<1> QED BY Zenon, <1>1, <1>2

LEMMA NothingMerged == ASSUME NEW h PROVE Merged(<<>>, h, -1)
<1>1. <<>> \in Sounds /\ Len(<<>>) = 0
  BY DEF Sounds
<1>2. 1 .. 0 = {}
  OBVIOUS
<1> QED BY <1>1, <1>2 DEF Merged, EndOf

LEMMA OneMerged ==
  ASSUME ListeningAssumption, NEW h \in Seq(Levels), NEW m, NEW e \in Int, Merged(m, h, e),
         -1 <= e, m # <<>> => e > 0 /\ EventAt(h, e),
         NEW a \in Nat, NEW b \in Nat, e < a, a < b, b <= Len(h),
         \A k \in a + 1 .. b : EventAt(h, k), \A k \in e + 1 .. a : ~EventAt(h, k)
  PROVE  Merged(JoinClose(m, <<a, b>>), h, b) /\ JoinClose(m, <<a, b>>) # <<>>
<1> DEFINE s == <<a, b>>
           r == JoinClose(m, s)
<1>1. m \in Sounds /\ EndOf(m, Len(m)) = e /\ s \in Nat \X Nat /\ s[1] = a /\ s[2] = b
  BY DEF Merged
<1>2. m # <<>> => m[Len(m)][2] = e /\ Len(m) # 0 /\ Len(m) \in Nat
  BY <1>1 DEF EndOf, Sounds
<1>3. /\ r \in Sounds
      /\ (m = <<>> \/ a - e > MergeGap) => r = Append(m, s)
      /\ (m # <<>> /\ ~(a - e > MergeGap)) =>
              /\ Len(r) = Len(m) /\ r[Len(m)] = <<m[Len(m)][1], b>>
              /\ \A i \in 1 .. Len(m) : i < Len(m) => r[i] = m[i]
  <2> HIDE DEF s, r
  <2>1. /\ r \in Sounds
        /\ (m = <<>> \/ s[1] - m[Len(m)][2] > MergeGap) => r = Append(m, s)
        /\ (m # <<>> /\ ~(s[1] - m[Len(m)][2] > MergeGap)) =>
              /\ Len(r) = Len(m) /\ r[Len(m)] = <<m[Len(m)][1], s[2]>>
              /\ \A i \in 1 .. Len(m) : i < Len(m) => r[i] = m[i]
    BY <1>1, JoinIs DEF r
  <2> QED BY Zenon, <1>1, <1>2, <2>1
<1> HIDE DEF r
<1>4. CASE m = <<>> \/ a - e > MergeGap
  <2>1. (m = <<>>) \/ (a - e > MergeGap /\ e > 0 /\ EventAt(h, e))
    BY <1>4
  <2>2. Piece(h, m = <<>>, e, a, b)
    BY <2>1, PieceStarts
  <2>3. Merged(Append(m, s), h, b)
    BY <2>2, MergedAppend
  <2>6. Append(m, s) # <<>>
    <3> HIDE DEF s
    <3> QED BY <1>1, NotEmpty
  <2> QED BY <1>3, <1>4, <2>3, <2>6 DEF r
<1>5. CASE m # <<>> /\ ~(a - e > MergeGap)
  <2>1. Merged(r, h, b)
    BY <1>3, <1>5, MergedJoin
  <2>2. r # <<>>
    BY <1>2, <1>3, <1>5 DEF Sounds
  <2> QED BY <2>1, <2>2 DEF r
<1> QED BY <1>4, <1>5

\* What the runs of events are merged to.
LEMMA MergeKept ==
  ASSUME ListeningAssumption, NEW h \in Seq(Levels), NEW sounds, Runs(sounds, h, Len(h))
  PROVE  Merged(MergeClose(sounds), h, EndOf(sounds, Len(sounds)))
<1>1. PICK n \in Nat : Len(sounds) = n /\ sounds \in Sounds
  BY DEF Runs, Sounds
<1>2. PICK g : /\ g[0] = <<>> /\ \A k \in 1 .. n : g[k] = JoinClose(g[k - 1], sounds[k])
               /\ MergeClose(sounds) = g[n]
  BY <1>1, MergeIs
<1> DEFINE Good(k) == Merged(g[k], h, EndOf(sounds, k)) /\ (k = 0 <=> g[k] = <<>>)
<1>3. Good(0)
  BY <1>2, NothingMerged DEF EndOf
<1>4. ASSUME NEW k \in Nat, NEW i \in 1 .. n, i - 1 = k, Good(k) PROVE Good(i)
  <2>1. RunAt(sounds, h, Len(h), i)
    BY <1>1 DEF Runs
  <2>2. PICK a \in Nat, b \in Nat, e \in Int :
          a = sounds[i][1] /\ b = sounds[i][2] /\ e = EndOf(sounds, k) /\ -1 <= e
    <3>1. i \in 1 .. Len(sounds) /\ k \in 0 .. Len(sounds)
      BY <1>1, <1>4
    <3> QED BY <1>1, <3>1, SoundsAre
  <2>3. /\ a < b /\ b <= Len(h) /\ e < a
        /\ \A j \in a + 1 .. b : EventAt(h, j)
        /\ \A j \in e + 1 .. a : ~EventAt(h, j)
    BY <1>4, <2>1, <2>2 DEF RunAt
  <2>4. sounds[i] = <<a, b>>
    <3>1. sounds[i] \in Nat \X Nat
      BY <1>1 DEF Sounds
    <3>2. \A t \in Nat \X Nat : t = <<t[1], t[2]>>
      OBVIOUS
    <3> QED BY Zenon, <2>2, <3>1, <3>2
  <2>5. g[i] = JoinClose(g[k], <<a, b>>)
    BY <1>2, <1>4, <2>4
  <2>6. g[k] # <<>> => e > 0 /\ EventAt(h, e)
    <3>1. SUFFICES ASSUME k # 0 PROVE e > 0 /\ EventAt(h, e)
      BY <1>4
    <3>2. k \in 1 .. n /\ k \in 1 .. Len(sounds)
      BY <1>1, <1>4, <3>1
    <3>3. RunAt(sounds, h, Len(h), k)
      BY <3>2 DEF Runs
    <3>4. sounds[k][1] \in Nat /\ sounds[k][2] \in Nat /\ sounds[k][2] = e
      BY <1>1, <2>2, <3>1, <3>2, SoundsAre DEF EndOf
    <3>5. sounds[k][1] < e /\ \A j \in sounds[k][1] + 1 .. e : EventAt(h, j)
      BY <3>3, <3>4 DEF RunAt
    <3> QED BY <3>4, <3>5
  <2>7. Merged(g[i], h, b) /\ g[i] # <<>>
    <3>1. Merged(g[k], h, e)
      BY <1>4, <2>2
    <3>2. PICK m : m = g[k] /\ Merged(m, h, e) /\ (m # <<>> => e > 0 /\ EventAt(h, e))
      BY <2>6, <3>1
    <3>3. Merged(JoinClose(m, <<a, b>>), h, b) /\ JoinClose(m, <<a, b>>) # <<>>
      <4> HIDE DEF Good
      <4> QED BY <2>2, <2>3, <3>2, OneMerged
    <3> QED BY <2>5, <3>2, <3>3
  <2>8. EndOf(sounds, i) = b /\ i # 0
    BY <2>2 DEF EndOf
  <2> QED BY <2>7, <2>8
<1> DEFINE B == {k \in 0 .. n : ~Good(k)}
<1> HIDE DEF Good
<1>5. ASSUME B # {} PROVE FALSE
  <2>1. B \in SUBSET Nat
    OBVIOUS
  <2>2. PICK m \in B : \A k \in B : m <= k
    BY <1>5, <2>1, MinIsLeast
  <2>3. m \in 0 .. n /\ ~Good(m) /\ m # 0 /\ \A k \in 0 .. n : k < m => Good(k)
    BY <1>3, <2>2
  <2> HIDE DEF B
  <2>4. PICK k \in Nat : m - 1 = k
    BY <2>3
  <2>5. k \in 0 .. n /\ k < m /\ m \in 1 .. n
    BY <2>3, <2>4
  <2> QED BY <1>4, <2>3, <2>4, <2>5
<1>6. Good(n)
  BY <1>5
<1> QED BY <1>1, <1>2, <1>6 DEF Good

\* The long ones of the first n spans.
LongOnes(m, n) == {s \in Nat \X Nat : \E i \in 1 .. n : s = m[i] /\ s[2] - s[1] >= ShortestSpan}

\* DropShort in steps.
LEMMA KeepIs ==
  ASSUME NEW m \in Sounds, NEW s \in Nat \X Nat
  PROVE  /\ KeepLong(m, s) \in Sounds
         /\ ToSet(KeepLong(m, s)) = ToSet(m) \cup {t \in {s} : t[2] - t[1] >= ShortestSpan}
<1>1. CASE s[2] - s[1] >= ShortestSpan
  <2>1. Append(m, s) \in Sounds
    BY DEF Sounds
  <2>2. ToSet(Append(m, s)) = ToSet(m) \cup {s}
    <3> DEFINE r == Append(m, s)
    <3>1. /\ r \in Sounds /\ Len(r) = Len(m) + 1 /\ r[Len(m) + 1] = s
          /\ \A i \in 1 .. Len(m) : r[i] = m[i]
      BY DEF Sounds
    <3>2. DOMAIN m = 1 .. Len(m) /\ Len(m) \in Nat /\ DOMAIN r = 1 .. Len(m) + 1
      BY <3>1 DEF Sounds
    <3> HIDE DEF r
    <3>3. DOMAIN r = DOMAIN m \cup {Len(m) + 1} /\ \A i \in DOMAIN m : r[i] = m[i]
      BY <3>1, <3>2
    <3>4. ToSet(r) = ToSet(m) \cup {s}
      BY <3>1, <3>3 DEF ToSet
    <3> QED BY <3>4 DEF r
  <2>3. {t \in {s} : t[2] - t[1] >= ShortestSpan} = {s}
    BY <1>1
  <2> QED BY Zenon, <1>1, <2>1, <2>2, <2>3 DEF KeepLong
<1>2. CASE ~(s[2] - s[1] >= ShortestSpan)
  <2>1. {t \in {s} : t[2] - t[1] >= ShortestSpan} = {}
    BY <1>2
  <2> QED BY <1>2, <2>1 DEF KeepLong
<1> QED BY <1>1, <1>2

LEMMA DropIs ==
  ASSUME ListeningAssumption, NEW spans \in Sounds, NEW n \in Nat, Len(spans) = n
  PROVE  \E g : /\ g[0] = <<>> /\ \A k \in 1 .. n : g[k] = KeepLong(g[k - 1], spans[k])
                /\ DropShort(spans) = g[n]
<1> DEFINE Fold(g) == g = [s \in SUBSET (1 .. n) |->
                            IF s = {} THEN <<>> ELSE KeepLong(g[s \ {Max(s)}], spans[Max(s)])]
           f == [p \in Sounds \X (1 .. n) |-> KeepLong(p[1], spans[p[2]])]
           iter == CHOOSE g : Fold(g)
           h == [k \in 0 .. n |-> iter[1 .. k]]
<1>1. \A k \in 1 .. n : spans[k] \in Nat \X Nat
  BY DEF Sounds
<1>2. f \in [Sounds \X (1 .. n) -> Sounds]
  <2>1. ASSUME NEW p \in Sounds \X (1 .. n) PROVE KeepLong(p[1], spans[p[2]]) \in Sounds
    <3>1. p[1] \in Sounds /\ p[2] \in 1 .. n
      OBVIOUS
    <3> QED BY <1>1, <3>1, KeepIs
  <2> QED BY <2>1
<1>3. <<>> \in Sounds
  BY DEF Sounds
<1>4. PICK g : FoldsIn(Sounds, g, f, <<>>, n)
  <2> HIDE DEF f
  <2> QED BY <1>2, <1>3, FoldsWithin
<1>5. Fold(g)
  <2>1. ASSUME NEW s \in SUBSET (1 .. n)
        PROVE  g[s] = IF s = {} THEN <<>> ELSE KeepLong(g[s \ {Max(s)}], spans[Max(s)])
    <3>1. CASE s # {}
      <4>1. <<g[s \ {Max(s)}], Max(s)>> \in Sounds \X (1 .. n)
        BY <1>4, <3>1 DEF FoldsIn
      <4> QED BY <1>4, <3>1, <4>1 DEF FoldsIn
    <3> QED BY <1>4, <3>1 DEF FoldsIn
  <2> QED BY <1>4, <2>1 DEF FoldsIn
<1>6. Fold(iter)
  BY <1>5
<1>7. DropShort(spans) = iter[1 .. n]
  <2>1. DOMAIN spans = 1 .. n
    BY DEF Sounds
  <2> QED BY <2>1 DEF DropShort, FoldLeft, MapThenFoldSet
<1> HIDE DEF iter
<1>8. iter[1 .. 0] = <<>>
  <2>1. 1 .. 0 = {} /\ {} \in SUBSET (1 .. n)
    OBVIOUS
  <2> QED BY <1>6, <2>1
<1>9. ASSUME NEW k \in 1 .. n PROVE iter[1 .. k] = KeepLong(iter[1 .. k - 1], spans[k])
  <2>1. /\ 1 .. k \in SUBSET (1 .. n) /\ 1 .. k # {}
        /\ (1 .. k) \ {Max(1 .. k)} = 1 .. k - 1 /\ Max(1 .. k) = k
    BY FirstOnes
  <2> QED BY <1>6, <2>1
<1>10. h[0] = <<>> /\ h[n] = iter[1 .. n] /\ \A k \in 1 .. n : h[k] = KeepLong(h[k - 1], spans[k])
  BY <1>8, <1>9
<1> HIDE DEF h
<1> QED BY <1>7, <1>10

LEMMA DropKeepsLong ==
  ASSUME ListeningAssumption, NEW m \in Sounds
  PROVE  ToSet(DropShort(m)) = LongOnes(m, Len(m))
<1>1. PICK n \in Nat : Len(m) = n
  BY DEF Sounds
<1>2. PICK g : /\ g[0] = <<>> /\ \A k \in 1 .. n : g[k] = KeepLong(g[k - 1], m[k])
               /\ DropShort(m) = g[n]
  BY <1>1, DropIs
<1> DEFINE Good(k) == g[k] \in Sounds /\ ToSet(g[k]) = LongOnes(m, k)
<1>3. Good(0)
  <2>1. 1 .. 0 = {} /\ <<>> \in Sounds
    BY DEF Sounds
  <2>2. ToSet(<<>>) = {}
    BY DEF ToSet
  <2> QED BY <1>2, <2>1, <2>2 DEF LongOnes
<1>4. ASSUME NEW k \in Nat, NEW i \in 1 .. n, i - 1 = k, Good(k) PROVE Good(i)
  <2>1. m[i] \in Nat \X Nat
    BY <1>1 DEF Sounds
  <2>2. g[i] = KeepLong(g[k], m[i])
    BY <1>2, <1>4
  <2>3. PICK q \in Sounds, s \in Nat \X Nat : q = g[k] /\ s = m[i]
    BY <1>4, <2>1
  <2>4. /\ KeepLong(q, s) \in Sounds
        /\ ToSet(KeepLong(q, s)) = ToSet(q) \cup {t \in {s} : t[2] - t[1] >= ShortestSpan}
    <3> HIDE DEF Good
    <3> QED BY <2>3, KeepIs
  <2>5. LongOnes(m, i) = LongOnes(m, k) \cup {t \in {s} : t[2] - t[1] >= ShortestSpan}
    <3>1. \A j : j \in 1 .. i <=> (j \in 1 .. k \/ j = i)
      BY <1>4
    <3> QED BY <2>3, <3>1 DEF LongOnes
  <2> QED BY <1>4, <2>2, <2>3, <2>4, <2>5
<1> DEFINE B == {k \in 0 .. n : ~Good(k)}
<1> HIDE DEF Good
<1>5. ASSUME B # {} PROVE FALSE
  <2>1. B \in SUBSET Nat
    OBVIOUS
  <2>2. PICK j \in B : \A k \in B : j <= k
    BY <1>5, <2>1, MinIsLeast
  <2>3. j \in 0 .. n /\ ~Good(j) /\ j # 0 /\ \A k \in 0 .. n : k < j => Good(k)
    BY <1>3, <2>2
  <2> HIDE DEF B
  <2>4. PICK k \in Nat : j - 1 = k
    BY <2>3
  <2>5. k \in 0 .. n /\ k < j /\ j \in 1 .. n
    BY <2>3, <2>4
  <2> QED BY <1>4, <2>3, <2>4, <2>5
<1>6. Good(n)
  BY <1>5
<1> QED BY <1>1, <1>2, <1>6 DEF Good

\* All sounds in h are in the pieces of m.
HeardAll(m, h, e) ==
  /\ Merged(m, h, e) /\ \A k \in 1 .. Len(h) : k > e => ~EventAt(h, k)

\* WholeSpans, of any frames.
Whole(h) ==
  {s \in (0 .. Len(h)) \X (0 .. Len(h)) :
     /\ s[2] - s[1] >= ShortestSpan /\ s[1] < s[2]
     /\ \A i \in (s[1] + 1) .. s[2] : CoveredAt(h, i)
     /\ ~CoveredAt(h, s[1]) /\ ~CoveredAt(h, s[2] + 1)}

\* A frame is covered exactly within a piece.
LEMMA LastIsOpen ==
  ASSUME NEW h \in Seq(Levels), NEW m, NEW e \in Int, HeardAll(m, h, e), NEW p \in Nat, p > e
  PROVE  ~CoveredAt(h, p)
<1>1. SUFFICES ASSUME CoveredAt(h, p) PROVE FALSE
  OBVIOUS
<1>2. PICK b \in DOMAIN h : p <= b /\ EventAt(h, b)
  BY <1>1 DEF CoveredAt
<1>3. b \in 1 .. Len(h) /\ b > e
  BY <1>2
<1> QED BY <1>2, <1>3 DEF HeardAll

\* The i-th piece.
PieceIs(m, h, i, c, x, y) ==
  /\ m[i] = <<x, y>> /\ EndOf(m, i) = y /\ EndOf(m, i - 1) = c
  /\ -1 <= c /\ (i = 1 => c = -1) /\ Piece(h, i = 1, c, x, y)

LEMMA PiecesAre ==
  ASSUME NEW h \in Seq(Levels), NEW m, NEW e \in Int, Merged(m, h, e), NEW i \in 1 .. Len(m)
  PROVE  \E c \in Int, x \in Nat, y \in Nat : PieceIs(m, h, i, c, x, y)
<1>1. m \in Sounds
  BY DEF Merged
<1>2. PICK j \in Nat : i - 1 = j
  BY <1>1 DEF Sounds
<1>3. j \in 0 .. Len(m) /\ i \in Nat /\ i # 0 /\ j + 1 = i
  BY <1>1, <1>2 DEF Sounds
<1>4. PICK c \in Int : c = EndOf(m, j) /\ -1 <= c
  BY <1>1, <1>3, SoundsAre
<1>5. PICK x \in Nat, y \in Nat : m[i] = <<x, y>>
  <2>1. m[i] \in Nat \X Nat
    BY <1>1 DEF Sounds
  <2> QED BY <2>1
<1>6. EndOf(m, i) = y
  BY <1>3, <1>5 DEF EndOf
<1>7. i = 1 => c = -1
  BY <1>3, <1>4 DEF EndOf
<1>8. Piece(h, i = 1, c, x, y)
  <2>1. Piece(h, i = 1, EndOf(m, j), m[i][1], m[i][2])
    BY <1>3 DEF Merged
  <2>2. m[i][1] = x /\ m[i][2] = y
    BY <1>5
  <2> QED BY <1>4, <2>1, <2>2
<1> QED BY Zenon, <1>2, <1>4, <1>5, <1>6, <1>7, <1>8 DEF PieceIs

LEMMA PieceIsOpen ==
  ASSUME ListeningAssumption, NEW h \in Seq(Levels), NEW m, NEW i \in Nat, NEW c \in Int,
         NEW x \in Nat, NEW y \in Nat, PieceIs(m, h, i, c, x, y), NEW p \in c + 1 .. x
  PROVE  ~CoveredAt(h, p)
<1>1. Piece(h, i = 1, c, x, y) /\ (i = 1 => c = -1)
  BY DEF PieceIs
<1> QED BY <1>1, OpenBefore

LEMMA WhereItIs ==
  ASSUME ListeningAssumption, NEW h \in Seq(Levels), NEW m, NEW e \in Int, HeardAll(m, h, e),
         NEW p \in Nat, CoveredAt(h, p)
  PROVE  \E i \in 1 .. Len(m), c \in Int, x \in Nat, y \in Nat :
           PieceIs(m, h, i, c, x, y) /\ x < p /\ p <= y
<1>1. m \in Sounds /\ EndOf(m, Len(m)) = e /\ Merged(m, h, e)
  BY DEF HeardAll, Merged
<1>2. PICK n \in Nat : Len(m) = n
  BY <1>1, SoundsAre
<1>3. p <= e
  BY LastIsOpen
<1>4. n # 0 /\ n \in 1 .. n
  BY <1>1, <1>2, <1>3 DEF EndOf
<1> DEFINE I == {i \in 1 .. n : p <= EndOf(m, i)}
<1>5. I \in SUBSET Nat /\ I # {}
  BY <1>1, <1>2, <1>3, <1>4
<1>6. PICK i \in I : \A k \in I : i <= k
  BY <1>5, MinIsLeast
<1>7. i \in 1 .. n /\ p <= EndOf(m, i) /\ \A k \in 1 .. n : k < i => ~(p <= EndOf(m, k))
  BY <1>6
<1> HIDE DEF I
<1>8. PICK c \in Int, x \in Nat, y \in Nat : PieceIs(m, h, i, c, x, y)
  BY <1>1, <1>2, <1>7, PiecesAre
<1>9. c < p
  <2>1. CASE i = 1
    BY <1>8, <2>1 DEF PieceIs
  <2>2. CASE i # 1
    <3>1. i - 1 \in 1 .. n /\ i - 1 < i
      BY <1>7, <2>2
    <3>2. ~(p <= EndOf(m, i - 1))
      BY <1>7, <3>1
    <3> QED BY <1>8, <3>2 DEF PieceIs
  <2> QED BY <2>1, <2>2
<1>10. x < p
  <2>1. p \notin c + 1 .. x
    BY <1>7, <1>8, PieceIsOpen
  <2> QED BY <1>9, <2>1
<1>11. p <= y
  BY <1>7, <1>8 DEF PieceIs
<1> QED BY <1>2, <1>7, <1>8, <1>10, <1>11

\* Nothing is covered where a piece starts or right behind its end.
LEMMA PieceIsBounded ==
  ASSUME ListeningAssumption, NEW h \in Seq(Levels), NEW m, NEW e \in Int, HeardAll(m, h, e),
         NEW i \in 1 .. Len(m), NEW c \in Int, NEW x \in Nat, NEW y \in Nat,
         PieceIs(m, h, i, c, x, y)
  PROVE  /\ x < y /\ y <= Len(h)
         /\ \A k \in x + 1 .. y : CoveredAt(h, k)
         /\ ~CoveredAt(h, x) /\ ~CoveredAt(h, y + 1)
<1>0. m \in Sounds /\ EndOf(m, Len(m)) = e /\ Merged(m, h, e)
  BY DEF HeardAll, Merged
<1>1. m \in Sounds /\ EndOf(m, Len(m)) = e /\ Merged(m, h, e) /\ Len(m) \in Nat
  BY <1>0, SoundsAre
<1>2. /\ c < x /\ x < y /\ y <= Len(h)
      /\ \A k \in x + 1 .. y : CoveredAt(h, k)
  BY DEF PieceIs, Piece
<1>3. ~CoveredAt(h, x)
  <2>1. x \in c + 1 .. x
    BY <1>2
  <2> QED BY <2>1, PieceIsOpen
<1>4. EndOf(m, i) = y
  BY DEF PieceIs
<1>5. ~CoveredAt(h, y + 1)
  <2>1. CASE i = Len(m)
    <3>1. y + 1 > e /\ y + 1 \in Nat
      BY <1>1, <1>4, <2>1
    <3> QED BY <3>1, LastIsOpen
  <2>2. CASE i # Len(m)
    <3>1. PICK j \in Nat : j = i + 1 /\ j - 1 = i /\ j \in 1 .. Len(m)
      <4>1. i \in Nat
        BY <1>1
      <4> QED BY Zenon, <1>1, <2>2, <4>1, NumbersAre
    <3>2. PICK c1 \in Int, x1 \in Nat, y1 \in Nat : PieceIs(m, h, j, c1, x1, y1)
      BY <1>1, <3>1, PiecesAre
    <3>3. c1 = y /\ c1 < x1
      BY <1>4, <3>1, <3>2 DEF PieceIs, Piece
    <3>4. y + 1 \in c1 + 1 .. x1
      BY Zenon, <3>3, NumbersAre
    <3> QED BY <3>2, <3>4, PieceIsOpen
  <2> QED BY <2>1, <2>2
<1> QED BY <1>2, <1>3, <1>5

\* The long pieces are the long covered stretches.
LEMMA LongOnesAreWhole ==
  ASSUME ListeningAssumption, NEW h \in Seq(Levels), NEW m, NEW e \in Int, HeardAll(m, h, e)
  PROVE  LongOnes(m, Len(m)) = Whole(h)
<1>1. m \in Sounds /\ Merged(m, h, e)
  BY DEF HeardAll, Merged
<1>2. ASSUME NEW s \in LongOnes(m, Len(m)) PROVE s \in Whole(h)
  <2>1. PICK i \in 1 .. Len(m) : s = m[i] /\ s[2] - s[1] >= ShortestSpan
    BY DEF LongOnes
  <2>2. PICK c \in Int, x \in Nat, y \in Nat : PieceIs(m, h, i, c, x, y)
    BY <1>1, PiecesAre
  <2>3. s = <<x, y>> /\ s[1] = x /\ s[2] = y
    BY <2>1, <2>2 DEF PieceIs
  <2>4. /\ x < y /\ y <= Len(h) /\ \A k \in x + 1 .. y : CoveredAt(h, k)
        /\ ~CoveredAt(h, x) /\ ~CoveredAt(h, y + 1)
    BY <2>2, PieceIsBounded
  <2>5. s \in (0 .. Len(h)) \X (0 .. Len(h))
    BY <2>3, <2>4
  <2>6. /\ s[1] < s[2] /\ \A k \in (s[1] + 1) .. s[2] : CoveredAt(h, k)
        /\ ~CoveredAt(h, s[1]) /\ ~CoveredAt(h, s[2] + 1)
    BY Zenon, <2>3, <2>4
  <2> QED BY Zenon, <2>1, <2>5, <2>6 DEF Whole
<1>3. ASSUME NEW s \in Whole(h) PROVE s \in LongOnes(m, Len(m))
  <2>1. PICK a \in Nat, b \in Nat : s = <<a, b>> /\ a <= Len(h) /\ b <= Len(h)
    BY DEF Whole
  <2>2. s[1] = a /\ s[2] = b
    BY <2>1
  <2>3. /\ s[2] - s[1] >= ShortestSpan /\ s[1] < s[2]
        /\ \A i \in (s[1] + 1) .. s[2] : CoveredAt(h, i)
        /\ ~CoveredAt(h, s[1]) /\ ~CoveredAt(h, s[2] + 1)
    BY DEF Whole
  <2>4. /\ a < b /\ \A i \in (a + 1) .. b : CoveredAt(h, i)
        /\ ~CoveredAt(h, a) /\ ~CoveredAt(h, b + 1)
    BY Zenon, <2>2, <2>3
  <2>5. PICK p \in Nat : p = a + 1 /\ CoveredAt(h, p)
    BY <2>4
  <2>6. PICK i \in 1 .. Len(m), c \in Int, x \in Nat, y \in Nat :
          PieceIs(m, h, i, c, x, y) /\ x < p /\ p <= y
    BY <2>5, WhereItIs
  <2>7. /\ \A k \in x + 1 .. y : CoveredAt(h, k)
        /\ ~CoveredAt(h, y + 1)
    BY <2>6, PieceIsBounded
  <2>8. x = a
    <3>1. a \notin x + 1 .. y
      BY <2>4, <2>7
    <3> QED BY <2>5, <2>6, <3>1
  <2>9. y = b
    <3>1. b + 1 \notin x + 1 .. y
      BY <2>4, <2>7
    <3>2. y + 1 \notin a + 1 .. b
      BY <2>4, <2>7
    <3> QED BY <2>4, <2>5, <2>6, <2>8, <3>1, <3>2
  <2>10. s = m[i] /\ s \in Nat \X Nat
    BY <2>1, <2>6, <2>8, <2>9 DEF PieceIs
  <2> QED BY Zenon, <2>3, <2>10 DEF LongOnes
<1> QED BY <1>2, <1>3

\* What is found in sounds that lie where the events are.
LEMMA FoundIsWhole ==
  ASSUME ListeningAssumption, NEW h \in Seq(Levels), NEW sounds, Runs(sounds, h, Len(h))
  PROVE  ToSet(DropShort(MergeClose(sounds))) = Whole(h)
<1>1. PICK n \in Nat : Len(sounds) = n /\ sounds \in Sounds
  BY DEF Runs, Sounds
<1>2. n \in 0 .. Len(sounds)
  BY <1>1
<1>3. PICK e \in Int : e = EndOf(sounds, Len(sounds)) /\ -1 <= e
  BY <1>1, <1>2, SoundsAre
<1>4. PICK m : m = MergeClose(sounds) /\ Merged(m, h, e)
  BY <1>3, MergeKept
<1>5. m \in Sounds
  BY <1>4 DEF Merged
<1>6. \A k \in 1 .. Len(h) : k > e => ~EventAt(h, k)
  BY <1>3 DEF Runs
<1>7. HeardAll(m, h, e)
  BY <1>4, <1>6 DEF HeardAll
<1> QED BY <1>4, <1>5, <1>7, DropKeepsLong, LongOnesAreWhole

(***************************************************************************)
(* The invariant of the stage: while it listens, what it knows is of the   *)
(* frames it has heard; then its spans are those of the whole.             *)
(***************************************************************************)
HeardSoFar ==
  /\ at = "events" /\ pc = "hear" =>
       heard \in Seq(Levels) /\ Scan(detector, heard) /\ Settled(detector, heard)
  /\ PiecesDoNotMatter

LEMMA WholeIs ==
  ASSUME Len(heard) \in Nat
  PROVE  WholeSpans = Whole(heard)
<1>1. \A i : Smooth(i) = SmoothAt(heard, i)
  BY DEF Smooth, SmoothAt, Window, LevelAt
<1>2. \A i : Event(i) <=> EventAt(heard, i)
  BY <1>1 DEF Event, EventAt
<1>3. \A i : Covered(i) <=> CoveredAt(heard, i)
  BY <1>2 DEF Covered, CoveredAt
<1> DEFINE places == 0 .. Len(heard) + 1
           covered == {i \in places : Covered(i)}
<1>4. \A i \in places : i \in covered <=> CoveredAt(heard, i)
  BY <1>3
<1>5. WholeSpans =
        {s \in (0 .. Len(heard)) \X (0 .. Len(heard)) :
           /\ s[2] - s[1] >= ShortestSpan /\ s[1] < s[2]
           /\ \A i \in (s[1] + 1) .. s[2] : i \in covered
           /\ s[1] \notin covered /\ s[2] + 1 \notin covered}
  BY DEF WholeSpans
<1>6. \A s \in (0 .. Len(heard)) \X (0 .. Len(heard)) :
        /\ s[1] \in places /\ s[2] + 1 \in places
        /\ \A i \in (s[1] + 1) .. s[2] : i \in places
  OBVIOUS
<1> HIDE DEF places, covered
<1> QED BY <1>4, <1>5, <1>6 DEF Whole

LEMMA WholeStays == ASSUME UNCHANGED heard PROVE WholeSpans' = WholeSpans
BY DEF WholeSpans, Covered, Event, Smooth

LEMMA SilenceIsScanned ==
  ASSUME ListeningAssumption
  PROVE  <<>> \in Seq(Levels) /\ Scan(NoFrames, <<>>) /\ Settled(NoFrames, <<>>)
<1> DEFINE lows == [i \in 1 .. Radius |-> Low]
<1>1. Radius \in Nat
  BY DEF ListeningAssumption
<1>2. lows \in Seq(Levels) /\ Len(lows) = Radius /\ \A i \in 1 .. Radius : lows[i] = Low
  BY <1>1 DEF Levels
<1> HIDE DEF lows
<1>3. PICK d : /\ d = NoFrames /\ d.buffer = lows /\ d.next = 0 /\ d.inside = FALSE
               /\ d.start = 0 /\ d.spans = <<>>
  <2>1. /\ NoFrames.buffer = lows /\ NoFrames.next = 0 /\ NoFrames.inside = FALSE
        /\ NoFrames.start = 0 /\ NoFrames.spans = <<>>
    BY DEF NoFrames, lows
  <2> QED BY Zenon, <2>1
<1>4. <<>> \in Sounds /\ Len(<<>>) = 0
  BY DEF Sounds
<1>5. d \in Detectors
  BY <1>2, <1>3, <1>4 DEF NoFrames, Detectors, lows
<1>6. Len(d.buffer) = Radius + Len(<<>>) - d.next
  BY <1>1, <1>2, <1>3, <1>4
<1>7. \A i \in 1 .. Len(d.buffer) : d.buffer[i] = LevelAt(<<>>, d.next + i - Radius)
  BY <1>2, <1>3 DEF LevelAt
<1>8. ~EventAt(<<>>, 0)
  BY DEF EventAt
<1>9. Runs(<<>>, <<>>, 0) /\ EndOf(<<>>, Len(<<>>)) < 0
  <2>1. EndOf(<<>>, 0) = -1
    BY DEF EndOf
  <2>2. \A k \in EndOf(<<>>, Len(<<>>)) + 1 .. 0 : k = 0
    BY <1>4, <2>1
  <2>3. 1 .. 0 = {}
    OBVIOUS
  <2> QED BY <1>4, <1>8, <2>1, <2>2, <2>3 DEF Runs
<1>10. Scan(d, <<>>)
  <2>1. d.inside <=> EventAt(<<>>, d.next)
    BY <1>3, <1>8
  <2>2. 0 \in Nat /\ 0 = (IF d.inside THEN d.start ELSE d.next)
    BY <1>3
  <2>3. Runs(d.spans, <<>>, 0) /\ EndOf(d.spans, Len(d.spans)) < 0
    BY <1>3, <1>9
  <2> QED BY <1>3, <1>5, <1>6, <1>7, <2>1, <2>2, <2>3, ScanIs
<1> QED BY <1>3, <1>10 DEF Settled

LEMMA ListeningKept ==
  ASSUME ListeningAssumption, HeardSoFar, ListeningNext
  PROVE  HeardSoFar'
<1>1. CASE FindWindows \/ Embed \/ Cluster \/ StopDiarize \/ ResumeDiarize
  BY <1>1 DEF FindWindows, Embed, Cluster, StopDiarize, ResumeDiarize, Resumes, Goto, Trouble,
              HeardSoFar, PiecesDoNotMatter
<1>2. CASE Extract
  <2>1. pc' = "hear" /\ heard' = <<>> /\ detector' = NoFrames
    BY <1>2 DEF Extract, Goto
  <2> QED BY <2>1, SilenceIsScanned DEF HeardSoFar, PiecesDoNotMatter
<1>3. CASE HearPiece
  <2>1. pc = "hear" /\ pc' = "hear" /\ UNCHANGED at
    BY <1>3 DEF HearPiece, Goto
  <2>2. SUFFICES ASSUME at = "events"
                 PROVE  heard' \in Seq(Levels) /\ Scan(detector', heard') /\ Settled(detector', heard')
    BY <2>1 DEF HeardSoFar, PiecesDoNotMatter
  <2>3. heard \in Seq(Levels) /\ Scan(detector, heard) /\ Settled(detector, heard)
    BY <2>1, <2>2 DEF HeardSoFar
  <2>7. PICK n \in Nat : \E bit \in [1 .. n -> Levels] :
          heard' = heard \o bit /\ detector' = Take(detector, bit)
    <3>1. \A k \in 1 .. Least(PieceFrames, MaxFrames - Len(heard)) : k \in Nat
      OBVIOUS
    <3> QED BY <1>3, <3>1 DEF HearPiece
  <2>4. PICK bit \in [1 .. n -> Levels] : heard' = heard \o bit /\ detector' = Take(detector, bit)
    BY <2>7
  <2>5. bit \in Seq(Levels) /\ heard \o bit \in Seq(Levels)
    <3>1. bit \in Seq(Levels)
      BY ListsAre
    <3> QED BY <2>3, <3>1
  <2>6. Scan(detector', heard \o bit) /\ Settled(detector', heard \o bit)
    BY <2>3, <2>4, <2>5, TakeKept
  <2> QED BY <2>4, <2>5, <2>6
<1>4. CASE FinishHearing
  <2>1. pc = "hear" /\ pc' = "fuse" /\ UNCHANGED <<at, heard>>
    BY <1>4 DEF FinishHearing, Goto
  <2>2. SUFFICES ASSUME at = "events" PROVE ToSet(detector'.spans) = WholeSpans'
    BY <2>1 DEF HeardSoFar, PiecesDoNotMatter
  <2>3. heard \in Seq(Levels) /\ Scan(detector, heard) /\ Settled(detector, heard)
    BY <2>1, <2>2 DEF HeardSoFar
  <2>4. detector'.spans = DropShort(MergeClose(Ended(detector)))
    <3>1. detector \in Detectors
      BY <2>3 DEF Scan
    <3> QED BY <1>4, <3>1 DEF FinishHearing, Detectors
  <2>5. ToSet(detector'.spans) = Whole(heard)
    BY <2>3, <2>4, EndedIs, FoundIsWhole
  <2>6. Len(heard) \in Nat
    BY <2>3
  <2> QED BY <2>1, <2>5, <2>6, WholeIs, WholeStays
<1>5. CASE Fuse \/ StopEvents \/ ResumeEvents
  BY <1>5 DEF Fuse, StopEvents, ResumeEvents, Resumes, Goto, Trouble, HeardSoFar, PiecesDoNotMatter
<1> QED BY <1>1, <1>2, <1>3, <1>4, <1>5 DEF ListeningNext

LEMMA ListeningStays ==
  ASSUME HeardSoFar, UNCHANGED listeningVars, UNCHANGED <<at, pc>>
  PROVE  HeardSoFar'
<1>1. UNCHANGED <<heard, detector, at, pc>>
  BY DEF listeningVars
<1> QED BY <1>1, WholeStays DEF HeardSoFar, PiecesDoNotMatter

LEMMA NotListening ==
  ASSUME at = "events" => pc \notin {"hear", "fuse"}
  PROVE  HeardSoFar
BY DEF HeardSoFar, PiecesDoNotMatter

LEMMA NotListeningThen ==
  ASSUME at' = "events" => pc' \notin {"hear", "fuse"}
  PROVE  HeardSoFar'
BY DEF HeardSoFar, PiecesDoNotMatter
=============================================================================
