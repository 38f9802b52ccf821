---------------------------- MODULE Creator_proofs -----------------------------
(***************************************************************************)
(* Proofs about the files of a finished job: their types, the titles, the  *)
(* collections of the user, the edited clips, and what a valid render      *)
(* checkpoint describes, whatever attempts, re-renders and commands of the *)
(* editor run and wherever they are cut off.                               *)
(***************************************************************************)
EXTENDS Creator, SequenceTheorems, FiniteSetTheorems, NaturalsInduction, TLAPS

LEMMA BothBounded ==
  ASSUME NEW a \in Nat, NEW b \in Nat
  PROVE  \E m \in Nat : a <= m /\ b <= m
<1>1. a <= a + b /\ b <= a + b /\ a + b \in Nat
  OBVIOUS
<1> QED BY <1>1

(***************************************************************************)
(* The clip counts of finitely many generations have a greatest one: a     *)
(* prefix with no bound would have a shortest one without.                 *)
(***************************************************************************)
LEMMA CountsBounded == \E n \in Nat : \A g \in Gens : ClipCount[g] <= n
<1> DEFINE R == {ss \in Nat \X Nat : ss[1] < ss[2]}
           Boundless(k) == \A n \in Nat : \E g \in 1 .. k : ~(ClipCount[g] <= n)
           B == {k \in Nat : k <= Len(ClipCount) /\ Boundless(k)}
<1>1. IsWellFoundedOn(R, Nat)
  BY Zenon, NatLessThanWellFounded DEF OpToRel
<1>2. Len(ClipCount) \in Nat /\ \A g \in Gens : ClipCount[g] \in Nat
  BY ClipsAssumption DEF Gens
<1>3. SUFFICES ASSUME B # {} PROVE FALSE
  <2>1. Len(ClipCount) \notin B
    BY <1>3
  <2>2. ~Boundless(Len(ClipCount))
    BY <2>1, <1>2
  <2> QED BY <2>2 DEF Gens
<1>4. B \in SUBSET Nat
  OBVIOUS
<1> HIDE DEF R
<1>5. PICK k \in B : \A j \in B : ~(<<j, k>> \in R)
  BY <1>1, <1>3, <1>4, WFMin
<1>6. k \in Nat /\ k <= Len(ClipCount) /\ Boundless(k)
  BY <1>5
<1>7. k # 0
  BY <1>6
<1>8. k - 1 \in Nat /\ <<k - 1, k>> \in R
  <2>1. k - 1 \in Nat /\ k - 1 < k
    BY <1>6, <1>7
  <2>2. <<k - 1, k>> \in Nat \X Nat
    BY <2>1, <1>6
  <2> QED BY <2>1, <2>2 DEF R
<1>9. k - 1 \notin B
  BY <1>5, <1>8
<1>10. ~Boundless(k - 1)
  BY <1>6, <1>8, <1>9, <1>2
<1>11. PICK n \in Nat : \A g \in 1 .. (k - 1) : ClipCount[g] <= n
  BY <1>10
<1>12. k \in Gens /\ ClipCount[k] \in Nat
  BY <1>2, <1>6, <1>7 DEF Gens
<1>13. PICK m \in Nat : n <= m /\ ClipCount[k] <= m
  BY <1>11, <1>12, BothBounded
<1>14. ASSUME NEW g \in 1 .. k PROVE ClipCount[g] <= m
  <2>1. CASE g = k
    BY <2>1, <1>13
  <2>2. CASE g # k
    <3>1. g \in 1 .. (k - 1) /\ g \in Gens
      BY <2>2, <1>2, <1>6 DEF Gens
    <3>2. ClipCount[g] <= n
      BY <3>1, <1>11
    <3>3. ClipCount[g] \in Nat
      BY <3>1, <1>2
    <3> HIDE DEF B
    <3> QED BY <3>2, <3>3, <1>11, <1>13
  <2> QED BY <2>1, <2>2
<1> QED BY <1>6, <1>13, <1>14

LEMMA MostIsGreatest ==
  Most \in Nat \ {0} /\ \A g \in Gens : ClipCount[g] \in 1 .. Most
<1> DEFINE U == {n \in Nat : \A g \in Gens : ClipCount[g] <= n}
           R == {ss \in Nat \X Nat : ss[1] < ss[2]}
<1>1. IsWellFoundedOn(R, Nat)
  BY Zenon, NatLessThanWellFounded DEF OpToRel
<1>2. 1 \in Gens /\ \A g \in Gens : ClipCount[g] \in Nat \ {0}
  BY ClipsAssumption DEF Gens
<1>3. U \in SUBSET Nat /\ U # {}
  BY CountsBounded
<1> HIDE DEF R
<1>4. PICK n \in U : \A m \in U : ~(<<m, n>> \in R)
  BY <1>1, <1>3, WFMin
<1>5. n \in Nat /\ \A g \in Gens : ClipCount[g] <= n
  BY <1>4
<1>6. \E g \in Gens : ClipCount[g] = n
  <2>1. SUFFICES ASSUME \A g \in Gens : ClipCount[g] # n PROVE FALSE
    OBVIOUS
  <2>2. n - 1 \in Nat /\ \A g \in Gens : ClipCount[g] <= n - 1
    BY <2>1, <1>2, <1>5
  <2>3. n - 1 \in U /\ <<n - 1, n>> \in R
    BY <2>2, <1>5 DEF R
  <2> QED BY <2>3, <1>4
<1>7. n \in {ClipCount[g] : g \in Gens}
      /\ \A g \in Gens : ClipCount[g] <= n
  BY <1>5, <1>6
<1>8. Most \in {ClipCount[g] : g \in Gens} /\ \A g \in Gens : ClipCount[g] <= Most
  BY <1>7 DEF Most
<1> QED BY <1>2, <1>8

-----------------------------------------------------------------------------
(***************************************************************************)
(* The order of the stages: while an attempt runs, the checkpoints before  *)
(* its stage are of the generation that is wanted.                         *)
(***************************************************************************)
AttemptSteps == {"idle", "score", "enrich", "collections", "group", "checkpoint",
                 "render", "encode", "manifest"}
EditSteps == {"idle", "encode", "commit", "manifest"}

InStages ==
  /\ wanted \in Gens /\ score \in Gens \cup {0} /\ enrich \in Gens \cup {0}
  /\ DOMAIN att = {"pc", "clip", "rows", "seen"} /\ att.pc \in AttemptSteps
  /\ DOMAIN edit = {"pc", "clip"} /\ edit.pc \in EditSteps
  /\ slot = "attempt" <=> att.pc # "idle"
  /\ slot = "edit" <=> edit.pc # "idle"
  /\ slot \in {"free", "attempt", "edit"}
  /\ att.pc \notin {"idle", "score"} => score = wanted
  /\ att.pc \notin {"idle", "score", "enrich"} => enrich = wanted
  /\ edit.pc # "idle" => score # 0

LEMMA CommandsAside ==
  ASSUME NEW e \in Editors, Command(e)
  PROVE  UNCHANGED <<stages, clipFiles, heavy, faults>>
<1>1. CASE Create(e)
  BY <1>1 DEF Create, Loads, stages, heavy, clipFiles
<1>2. CASE Update(e)
  BY <1>2 DEF Update, Loads, stages, heavy, clipFiles
<1>3. CASE Delete(e)
  BY <1>3 DEF Delete, Loads, stages, heavy, clipFiles
<1>4. CASE Regenerate(e)
  BY <1>4 DEF Regenerate, Loads, stages, heavy, clipFiles
<1>5. CASE Compile(e)
  BY <1>5 DEF Compile, stages, heavy, clipFiles
<1>6. CASE Compiled(e)
  BY <1>6 DEF Compiled, stages, heavy, clipFiles
<1>7. CASE SaveCommand(e)
  BY <1>7 DEF SaveCommand, stages, heavy, clipFiles
<1>8. CASE Retitle(e)
  BY <1>8 DEF Retitle, stages, heavy, clipFiles
<1>9. CASE SaveTitles(e)
  BY <1>9 DEF SaveTitles, stages, heavy, clipFiles
<1>10. CASE Ended(e)
  BY <1>10 DEF Ended, stages, heavy, clipFiles
<1> QED BY <1>1, <1>2, <1>3, <1>4, <1>5, <1>6, <1>7, <1>8, <1>9, <1>10 DEF Command

LEMMA StagesInit == Init => InStages
BY MostIsGreatest, ClipsAssumption DEF Init, InStages, Gens, AttemptSteps, EditSteps

LEMMA StagesStep ==
  ASSUME InStages, [Next]_vars
  PROVE  InStages'
<1> USE DEF InStages, AttemptSteps, EditSteps, stages, heavy
<1>1. CASE Start
  BY <1>1 DEF Start, Busy
<1>2. CASE Score
  BY <1>2 DEF Score
<1>3. CASE Enrich
  BY <1>3 DEF Enrich
<1>4. CASE TakeCollections
  BY <1>4 DEF TakeCollections
<1>5. CASE ReadCollections
  BY <1>5 DEF ReadCollections
<1>6. CASE SaveCollections
  BY <1>6 DEF SaveCollections
<1>7. CASE CheckpointCollections
  BY <1>7 DEF CheckpointCollections
<1>8. CASE TakeRender
  BY <1>8 DEF TakeRender, Release
<1>9. CASE BeginRender
  BY <1>9 DEF BeginRender
<1>10. CASE RenderClip
  BY <1>10 DEF RenderClip
<1>11. CASE WriteRender
  BY <1>11 DEF WriteRender
<1>12. ASSUME NEW i \in Index, EditClip(i) PROVE InStages'
  BY <1>12 DEF EditClip, Busy
<1>13. CASE EditEncoded
  BY <1>13 DEF EditEncoded
<1>14. CASE CommitEdit
  BY <1>14 DEF CommitEdit
<1>15. CASE EditUnrecorded
  BY <1>15 DEF EditUnrecorded, Release
<1>16. CASE WriteManifest
  BY <1>16 DEF WriteManifest, Release
<1>17. CASE Fault
  BY <1>17 DEF Fault, Release
<1>18. ASSUME NEW e \in Editors, Command(e) PROVE InStages'
  BY <1>18, CommandsAside
<1>19. CASE UNCHANGED vars
  BY <1>19 DEF vars
<1> QED BY <1>1, <1>2, <1>3, <1>4, <1>5, <1>6, <1>7, <1>8, <1>9, <1>10, <1>11,
           <1>12, <1>13, <1>14, <1>15, <1>16, <1>17, <1>18, <1>19
        DEF Next, Attempt, EditRender

-----------------------------------------------------------------------------
(***************************************************************************)
(* The clips shown are identified by the generation their bounds are of,   *)
(* and so is every title that is kept or about to be.                      *)
(***************************************************************************)
TitleSet(ts) == ts \subseteq [id : ClipIds, cut : ClipIds] /\ \A t \in ts : t.cut = t.id

TitlesSound ==
  /\ TitleSet(titles)
  /\ \A e \in Editors : ed[e].pc = "title" => TitleSet(ed[e].titles)

LEMMA IdsOfAreIds ==
  ASSUME NEW g \in Gens
  PROVE  IdsOf(g) \subseteq ClipIds /\ 1 .. ClipCount[g] \subseteq Index
<1>1. ClipCount[g] \in Nat /\ ClipCount[g] <= Most /\ Most \in Nat
  BY MostIsGreatest
<1>2. 1 .. ClipCount[g] \subseteq Index
  BY <1>1 DEF Index
<1> QED BY <1>2 DEF IdsOf, ClipIds

LEMMA ShownIsCut ==
  ASSUME InStages, NEW i \in DOMAIN Shown
  PROVE  Shown[i] \in [id : ClipIds, cut : ClipIds] /\ Shown[i].cut = Shown[i].id
<1>1. DOMAIN Shown = IF score = 0 THEN {} ELSE 1 .. ClipCount[score]
  BY DEF Shown, MergedClipStages
<1>2. score \in Gens /\ i \in 1 .. ClipCount[score]
  BY <1>1 DEF InStages
<1>3. i \in Index
  BY <1>2, IdsOfAreIds
<1> DEFINE from == IF enrich # 0 /\ i <= ClipCount[enrich] THEN enrich ELSE score
<1>4. from \in Gens
  BY <1>2 DEF InStages
<1>5. Shown[i] = [id |-> <<i, from>>, cut |-> <<i, from>>]
  BY <1>2 DEF Shown, MergedClipStages
<1> HIDE DEF from
<1>6. <<i, from>> \in ClipIds
  BY <1>3, <1>4 DEF ClipIds
<1> QED BY <1>5, <1>6

LEMMA ValidIdsAreIds == InStages => ValidIds \subseteq ClipIds
<1>1. ASSUME InStages, NEW i \in DOMAIN Shown PROVE Shown[i].id \in ClipIds
  <2>1. Shown[i] \in [id : ClipIds, cut : ClipIds]
    BY <1>1, ShownIsCut
  <2> QED BY <2>1
<1> QED BY <1>1 DEF ValidIds

\* What a command of an editor does not write.
LEMMA EditorsKept ==
  ASSUME Attempt \/ EditRender \/ WriteManifest \/ Fault \/ UNCHANGED vars
  PROVE  ed' = ed /\ titles' = titles
BY DEF Attempt, EditRender, WriteManifest, Fault, vars, Start, Score, Enrich, TakeCollections,
  ReadCollections, SaveCollections, CheckpointCollections, TakeRender, BeginRender, RenderClip,
  WriteRender, EditClip, EditEncoded, CommitEdit, EditUnrecorded, editing

LEMMA TitlesStep ==
  ASSUME InStages, TitlesSound, DOMAIN ed = Editors, [Next]_vars
  PROVE  TitlesSound'
<1>1. CASE Attempt \/ EditRender \/ WriteManifest \/ Fault \/ UNCHANGED vars
  BY <1>1, EditorsKept DEF TitlesSound, TitleSet
<1>2. ASSUME NEW e \in Editors, Command(e) PROVE TitlesSound'
  <2> USE DEF TitlesSound, TitleSet
  <2>0. ASSUME NEW op, NEW target, NEW clips, Loads(e, op, target, clips) PROVE TitlesSound'
    BY <2>0 DEF Loads
  <2>1. CASE Create(e) \/ Update(e) \/ Delete(e) \/ Regenerate(e)
    BY <2>1, <2>0 DEF Create, Update, Delete, Regenerate
  <2>2. CASE Compile(e)
    BY <2>2 DEF Compile
  <2>3. CASE Compiled(e)
    BY <2>3 DEF Compiled
  <2>4. CASE SaveCommand(e) \/ Ended(e)
    BY <2>4 DEF SaveCommand, Ended
  <2>5. CASE Retitle(e)
    <3>1. PICK i \in DOMAIN Shown, reset \in BOOLEAN :
            ed' = [ed EXCEPT ![e] =
              [pc |-> "title",
               titles |-> IF reset THEN {t \in titles : t.id # Shown[i].id}
                          ELSE {t \in titles : t.id # Shown[i].id} \cup {Shown[i]}]]
      BY <2>5 DEF Retitle
    <3> DEFINE ts == IF reset THEN {t \in titles : t.id # Shown[i].id}
                     ELSE {t \in titles : t.id # Shown[i].id} \cup {Shown[i]}
    <3>2. TitleSet(ts)
      BY ShownIsCut
    <3> HIDE DEF ts
    <3>3. ed'[e].titles = ts /\ \A f \in Editors : f # e => ed'[f] = ed[f]
      BY <3>1 DEF ts
    <3> QED BY <3>2, <3>3, <2>5 DEF Retitle
  <2>6. CASE SaveTitles(e)
    BY <2>6 DEF SaveTitles
  <2> QED BY <1>2, <2>1, <2>2, <2>3, <2>4, <2>5, <2>6 DEF Command
<1> QED BY <1>1, <1>2 DEF Next

LEMMA TitlesFollow == ASSUME InStages, TitlesSound PROVE TitlesFollowClips
<1>1. ASSUME NEW i \in DOMAIN Shown PROVE Shown[i].cut = Shown[i].id
  BY ShownIsCut
<1> QED BY <1>1 DEF TitlesFollowClips, TitlesSound, TitleSet

-----------------------------------------------------------------------------
(***************************************************************************)
(* Collections: an id names one collection of a file, and none above the   *)
(* last id made, in the file, in what the attempt works on and in what any *)
(* command loaded.                                                         *)
(***************************************************************************)
RowSet(rows, n) ==
  /\ rows \subseteq Rows /\ \A r \in rows : r.id <= n
  /\ \A r, q \in rows : r.id = q.id => r = q

CommandSound(c, n) ==
  /\ c.pc = "save" => c.clips \subseteq ClipIds /\ c.ids \subseteq ClipIds /\ RowSet(c.seen, n)
  /\ c.pc = "compile" => c.ids \subseteq ClipIds

RowsSound ==
  /\ DOMAIN ed = Editors /\ made \in 0 .. MaxRows
  /\ coll \in [kind : {"none", "list", "checkpoint"}, gen : Gens \cup {0}, rows : SUBSET Rows]
  /\ coll.kind = "none" => coll.rows = {}
  /\ RowSet(coll.rows, made) /\ RowSet(att.rows, made) /\ RowSet(att.seen, made)
  /\ \A e \in Editors : CommandSound(ed[e], made)

LEMMA SomeRows ==
  ASSUME NEW n, NEW rows, RowSet(rows, n), NEW s \in SUBSET rows
  PROVE  RowSet(s, n)
BY DEF RowSet

LEMMA NoRows == ASSUME NEW n PROVE RowSet({}, n)
BY DEF RowSet

LEMMA MoreMade ==
  ASSUME NEW n \in Nat, NEW rows, RowSet(rows, n)
  PROVE  RowSet(rows, n + 1)
<1>1. \A r \in rows : r.id \in Nat
  BY BoundsAssumption DEF RowSet, Rows
<1> QED BY <1>1 DEF RowSet

LEMMA RowAdded ==
  ASSUME NEW n \in Nat, n < MaxRows, NEW rows, RowSet(rows, n),
         NEW c \in SUBSET ClipIds, NEW b \in BOOLEAN
  PROVE  RowSet(rows \cup {[id |-> n + 1, clips |-> c, edited |-> b]}, n + 1)
<1> DEFINE x == [id |-> n + 1, clips |-> c, edited |-> b]
<1>1. x \in Rows /\ x.id = n + 1
  BY BoundsAssumption DEF Rows
<1> HIDE DEF x
<1>2. \A r \in rows : r.id \in Nat /\ r.id <= n
  BY BoundsAssumption DEF RowSet, Rows
<1>3. RowSet(rows, n + 1)
  BY MoreMade
<1>4. rows \cup {x} \subseteq Rows /\ \A r \in rows \cup {x} : r.id <= n + 1
  BY <1>1, <1>3 DEF RowSet
<1>5. \A r \in rows : r.id # x.id
  BY <1>1, <1>2
<1>6. \A r, q \in rows \cup {x} : r.id = q.id => r = q
  BY <1>3, <1>5 DEF RowSet
<1>7. RowSet(rows \cup {x}, n + 1)
  BY <1>4, <1>6 DEF RowSet
<1> QED BY <1>7 DEF x

LEMMA RowReplaced ==
  ASSUME NEW n, NEW rows, RowSet(rows, n), NEW id, NEW cmd, cmd.clips \subseteq ClipIds
  PROVE  RowSet(Replaced(rows, id, [r \in rows |-> Changed(r, cmd)]), n)
<1> DEFINE new(r) == IF r.id = id THEN Changed(r, cmd) ELSE r
<1>1. ASSUME NEW r \in rows
      PROVE  new(r) \in Rows /\ new(r).id = r.id /\ r.id <= n
  <2>1. r \in Rows /\ r.id <= n
    BY DEF RowSet
  <2>2. Changed(r, cmd) \in Rows /\ Changed(r, cmd).id = r.id
    BY <2>1 DEF Changed, Rows
  <2> QED BY <2>1, <2>2
<1>2. Replaced(rows, id, [r \in rows |-> Changed(r, cmd)]) = {new(r) : r \in rows}
  BY DEF Replaced
<1>3. \A r, q \in rows : r.id = q.id => r = q
  BY DEF RowSet
<1> HIDE DEF new
<1>4. RowSet({new(r) : r \in rows}, n)
  BY <1>1, <1>3 DEF RowSet
<1> QED BY <1>2, <1>4

\* A grouping adds one collection at most, and the next id is its own.
LEMMA GroupingIs ==
  ASSUME NEW ids \in SUBSET ClipIds, made \in Nat, NEW new \in Groupings(ids), NEW rows,
         RowSet(rows, made), made <= MaxRows, NEW n, n = made + Cardinality(new)
  PROVE  n \in {made, made + 1} /\ n <= MaxRows /\ RowSet(rows \cup new, n)
<1>1. CASE new = {}
  <2>1. Cardinality(new) = 0 /\ rows \cup new = rows
    BY <1>1, FS_EmptySet
  <2>2. n = made
    BY <2>1
  <2> QED BY <2>1, <2>2
<1>2. CASE new # {}
  <2>1. PICK c \in SUBSET ids :
          made < MaxRows /\ new = {[id |-> made + 1, clips |-> c, edited |-> FALSE]}
    BY <1>2 DEF Groupings
  <2>2. Cardinality(new) = 1
    BY <2>1, FS_Singleton
  <2>3. n = made + 1
    BY <2>2
  <2>4. RowSet(rows \cup new, made + 1)
    BY <2>1, RowAdded
  <2>5. made + 1 <= MaxRows
    BY <2>1, BoundsAssumption
  <2> QED BY <2>3, <2>4, <2>5
<1> QED BY <1>1, <1>2

LEMMA CommandsGrow ==
  ASSUME NEW n \in Nat, NEW c, CommandSound(c, n)
  PROVE  CommandSound(c, n + 1)
BY MoreMade DEF CommandSound

LEMMA Grown ==
  ASSUME NEW n \in Nat, NEW m \in {n, n + 1}
  PROVE  /\ \A rows : RowSet(rows, n) => RowSet(rows, m)
         /\ \A c : CommandSound(c, n) => CommandSound(c, m)
BY MoreMade, CommandsGrow

LEMMA RowsInit == Init => RowsSound
<1> SUFFICES ASSUME Init PROVE RowsSound
  OBVIOUS
<1>1. RowSet({}, 0)
  BY NoRows
<1>2. \A e \in Editors : CommandSound(ed[e], 0)
  BY DEF Init, CommandSound
<1> QED BY <1>1, <1>2, BoundsAssumption DEF Init, RowsSound

\* The steps that leave the collections and those who work on them alone.
RowsAside ==
  /\ UNCHANGED <<coll, ed, made>>
  /\ att'.rows \in {att.rows, {}} /\ att'.seen \in {att.seen, {}}

LEMMA RowsAsideSteps ==
  ASSUME InStages,
         \/ Start \/ Score \/ Enrich \/ TakeRender \/ BeginRender \/ RenderClip \/ WriteRender
         \/ EditRender \/ WriteManifest \/ Fault \/ UNCHANGED vars
  PROVE  RowsAside
<1> USE DEF InStages, RowsAside, editing, heavy
<1>1. CASE Start
  BY <1>1 DEF Start
<1>2. CASE Score
  BY <1>2 DEF Score
<1>3. CASE Enrich
  BY <1>3 DEF Enrich
<1>4. CASE TakeRender
  BY <1>4 DEF TakeRender, Release
<1>5. CASE BeginRender
  BY <1>5 DEF BeginRender
<1>6. CASE RenderClip
  BY <1>6 DEF RenderClip
<1>7. CASE WriteRender
  BY <1>7 DEF WriteRender
<1>8. CASE EditRender
  <2>1. CASE \E i \in Index : EditClip(i)
    BY <2>1 DEF EditClip
  <2>2. CASE EditEncoded
    BY <2>2 DEF EditEncoded
  <2>3. CASE CommitEdit
    BY <2>3 DEF CommitEdit
  <2>4. CASE EditUnrecorded
    BY <2>4 DEF EditUnrecorded, Release
  <2> QED BY <1>8, <2>1, <2>2, <2>3, <2>4 DEF EditRender
<1>9. CASE WriteManifest
  BY <1>9 DEF WriteManifest, Release
<1>10. CASE Fault
  BY <1>10 DEF Fault, Release
<1>11. CASE UNCHANGED vars
  BY <1>11 DEF vars
<1> QED BY <1>1, <1>2, <1>3, <1>4, <1>5, <1>6, <1>7, <1>8, <1>9, <1>10, <1>11

LEMMA LoadsRows ==
  ASSUME InStages, RowsSound, NEW e \in Editors, NEW op, NEW target,
         NEW clips \in SUBSET ClipIds, Loads(e, op, target, clips)
  PROVE  RowsSound'
<1>1. RowSet(Loaded, made)
  BY NoRows DEF Loaded, RowsSound
<1> DEFINE c == [pc |-> "save", op |-> op, target |-> target, clips |-> clips, seen |-> Loaded,
                 ids |-> ValidIds]
<1>2. CommandSound(c, made)
  BY <1>1, ValidIdsAreIds DEF CommandSound
<1>3. ed' = [ed EXCEPT ![e] = c] /\ UNCHANGED <<coll, att, made>>
  BY DEF Loads, heavy
<1> HIDE DEF c
<1> QED BY <1>2, <1>3 DEF RowsSound

LEMMA CommandSaved ==
  ASSUME InStages, RowsSound, NEW e \in Editors, SaveCommand(e)
  PROVE  RowsSound'
<1> DEFINE cmd == ed[e]
<1>1. /\ RowSet(cmd.seen, made) /\ cmd.clips \subseteq ClipIds /\ cmd.ids \subseteq ClipIds
      /\ ed' = [ed EXCEPT ![e] = [pc |-> "idle"]] /\ att' = att
      /\ made \in Nat /\ made <= MaxRows
  BY BoundsAssumption DEF SaveCommand, RowsSound, CommandSound, heavy
<1>2. SUFFICES ASSUME NEW rows, RowSet(rows, made'), Save(rows),
                      made' \in {made, made + 1}, made' <= MaxRows
               PROVE  RowsSound'
  <2>1. CASE /\ cmd.op = "create" /\ made < MaxRows
             /\ Save(cmd.seen \cup {[id |-> made + 1, clips |-> cmd.clips, edited |-> TRUE]})
             /\ made' = made + 1
    <3>1. RowSet(cmd.seen \cup {[id |-> made + 1, clips |-> cmd.clips, edited |-> TRUE]}, made')
      BY <1>1, <2>1, RowAdded
    <3>2. made' <= MaxRows
      BY <1>1, <2>1, BoundsAssumption
    <3> QED BY <1>2, <2>1, <3>1, <3>2
  <2>2. CASE /\ cmd.op = "update" /\ UNCHANGED made
             /\ Save(Replaced(cmd.seen, cmd.target, [r \in cmd.seen |-> Changed(r, cmd)]))
    BY <1>1, <1>2, <2>2, RowReplaced
  <2>3. CASE cmd.op = "film" /\ Save(cmd.seen) /\ UNCHANGED made
    BY <1>1, <1>2, <2>3
  <2>4. CASE /\ cmd.op = "delete" /\ UNCHANGED made
             /\ Save({r \in cmd.seen : r.id # cmd.target})
    BY <1>1, <1>2, <2>4, SomeRows
  <2>5. ASSUME NEW new \in Groupings(cmd.ids), Save(Preserved(cmd.seen) \cup new),
               made' = made + Cardinality(new)
        PROVE  RowsSound'
    <3>1. RowSet(Preserved(cmd.seen), made)
      BY <1>1, SomeRows DEF Preserved
    <3>2. made' \in {made, made + 1} /\ made' <= MaxRows
          /\ RowSet(Preserved(cmd.seen) \cup new, made')
      BY <1>1, <2>5, <3>1, GroupingIs
    <3> QED BY <1>2, <2>5, <3>2
  <2> QED BY <2>1, <2>2, <2>3, <2>4, <2>5 DEF SaveCommand
<1>3. coll' = [kind |-> "list", gen |-> 0, rows |-> rows] /\ rows \in SUBSET Rows
  BY <1>2 DEF Save, RowSet
<1>4. /\ RowSet(att.rows, made') /\ RowSet(att.seen, made')
      /\ \A f \in Editors : CommandSound(ed[f], made')
  BY <1>1, <1>2, Grown DEF RowsSound
<1>5. CommandSound([pc |-> "idle"], made')
  BY DEF CommandSound
<1>6. \A f \in Editors : CommandSound(ed'[f], made')
  BY <1>1, <1>4, <1>5 DEF RowsSound
<1>7. coll' \in [kind : {"none", "list", "checkpoint"}, gen : Gens \cup {0}, rows : SUBSET Rows]
      /\ coll'.kind # "none" /\ coll'.rows = rows
  BY <1>3
<1>8. made' \in 0 .. MaxRows /\ DOMAIN ed' = Editors
  BY <1>1, <1>2, BoundsAssumption DEF RowsSound
<1> QED BY <1>1, <1>2, <1>4, <1>6, <1>7, <1>8 DEF RowsSound

LEMMA AttemptSaved ==
  ASSUME InStages, RowsSound, SaveCollections
  PROVE  RowsSound'
<1>1. PICK new \in Groupings(IdsOf(enrich)) :
        /\ Save(att.rows \cup new) /\ made' = made + Cardinality(new)
        /\ att' = [att EXCEPT !.pc = "checkpoint", !.rows = @ \cup new]
  BY DEF SaveCollections
<1>2. ed' = ed /\ enrich \in Gens /\ made \in Nat /\ made <= MaxRows
  BY BoundsAssumption DEF SaveCollections, InStages, RowsSound
<1>3. IdsOf(enrich) \in SUBSET ClipIds
  BY <1>2, IdsOfAreIds
<1>4. RowSet(att.rows, made) /\ RowSet(att.seen, made)
  BY DEF RowsSound
<1>5. made' \in {made, made + 1} /\ made' <= MaxRows /\ RowSet(att.rows \cup new, made')
  BY <1>1, <1>2, <1>3, <1>4, GroupingIs
<1>6. att'.rows = att.rows \cup new /\ att'.seen = att.seen
  BY <1>1 DEF InStages
<1>7. coll' = [kind |-> "list", gen |-> 0, rows |-> att.rows \cup new]
  BY <1>1 DEF Save
<1>8. RowSet(att.seen, made') /\ \A f \in Editors : CommandSound(ed[f], made')
  BY <1>2, <1>5, Grown DEF RowsSound
<1>9. att.rows \cup new \in SUBSET Rows
  BY <1>5 DEF RowSet
<1>10. coll' \in [kind : {"none", "list", "checkpoint"}, gen : Gens \cup {0}, rows : SUBSET Rows]
       /\ coll'.kind # "none" /\ coll'.rows = att.rows \cup new
  BY <1>7, <1>9
<1>11. made' \in 0 .. MaxRows
  BY <1>2, <1>5, BoundsAssumption
<1> QED BY <1>2, <1>5, <1>6, <1>8, <1>10, <1>11 DEF RowsSound

LEMMA RowsStep ==
  ASSUME InStages, RowsSound, [Next]_vars
  PROVE  RowsSound'
<1>1. CASE \/ Start \/ Score \/ Enrich \/ TakeRender \/ BeginRender \/ RenderClip \/ WriteRender
           \/ EditRender \/ WriteManifest \/ Fault \/ UNCHANGED vars
  <2>1. RowsAside
    BY <1>1, RowsAsideSteps
  <2>2. RowSet({}, made)
    BY NoRows
  <2> QED BY <2>1, <2>2 DEF RowsAside, RowsSound
<1>2. CASE TakeCollections
  <2>1. att'.rows = coll.rows /\ att'.seen = att.seen /\ UNCHANGED <<coll, ed, made>>
    BY <1>2 DEF TakeCollections, InStages, editing
  <2> QED BY <2>1 DEF RowsSound
<1>3. CASE ReadCollections
  <2>1. RowSet(Loaded, made) /\ RowSet({}, made) /\ RowSet(Preserved(Loaded), made)
    BY NoRows, SomeRows DEF Loaded, Preserved, RowsSound
  <2>2. att'.rows \in {Preserved(Loaded), {}} /\ att'.seen \in {Loaded, att.seen}
        /\ UNCHANGED <<coll, ed, made>>
    BY <1>3 DEF ReadCollections, InStages, editing
  <2> QED BY <2>1, <2>2 DEF RowsSound
<1>4. CASE SaveCollections
  BY <1>4, AttemptSaved
<1>5. CASE CheckpointCollections
  <2>1. att'.rows = att.rows /\ att'.seen = {} /\ UNCHANGED <<ed, made>> /\ enrich \in Gens
        /\ coll' = [kind |-> "checkpoint", gen |-> enrich, rows |-> att.rows]
    BY <1>5 DEF CheckpointCollections, InStages, editing
  <2>2. RowSet({}, made) /\ RowSet(att.rows, made) /\ att.rows \in SUBSET Rows
    BY NoRows DEF RowsSound, RowSet
  <2>3. coll' \in [kind : {"none", "list", "checkpoint"}, gen : Gens \cup {0}, rows : SUBSET Rows]
        /\ coll'.kind # "none" /\ coll'.rows = att.rows
    BY <2>1, <2>2
  <2> QED BY <2>1, <2>2, <2>3 DEF RowsSound
<1>6. ASSUME NEW e \in Editors, Command(e) PROVE RowsSound'
  <2>1. CASE Create(e)
    <3>1. \A c \in Requested : c \in SUBSET ClipIds
      BY ValidIdsAreIds DEF Requested
    <3> QED BY <2>1, <3>1, LoadsRows DEF Create
  <2>2. CASE Update(e)
    <3>1. \A r \in Loaded : \A c \in Requested \cup {r.clips} : c \in SUBSET ClipIds
      BY ValidIdsAreIds DEF Requested, Loaded, RowsSound, RowSet, Rows
    <3> QED BY <2>2, <3>1, LoadsRows DEF Update
  <2>3. CASE Delete(e) \/ Regenerate(e)
    BY <2>3, LoadsRows DEF Delete, Regenerate
  <2>4. CASE Compile(e)
    <3>1. PICK id : ed' = [ed EXCEPT ![e] = [pc |-> "compile", target |-> id, ids |-> ValidIds]]
      BY <2>4 DEF Compile
    <3>2. CommandSound([pc |-> "compile", target |-> id, ids |-> ValidIds], made)
      BY ValidIdsAreIds DEF CommandSound
    <3> QED BY <2>4, <3>1, <3>2 DEF Compile, RowsSound, heavy
  <2>5. CASE Compiled(e)
    <3> DEFINE c == [pc |-> "save", op |-> "film", target |-> ed[e].target, clips |-> {},
                     seen |-> Loaded, ids |-> ed[e].ids]
    <3>1. RowSet(Loaded, made)
      BY NoRows DEF Loaded, RowsSound
    <3>2. ed[e].ids \subseteq ClipIds
      BY <2>5 DEF Compiled, RowsSound, CommandSound
    <3>3. CommandSound(c, made) /\ CommandSound([pc |-> "idle"], made)
      BY <3>1, <3>2 DEF CommandSound
    <3>4. ed' = [ed EXCEPT ![e] = c] \/ ed' = [ed EXCEPT ![e] = [pc |-> "idle"]]
      BY <2>5 DEF Compiled
    <3> HIDE DEF c
    <3> QED BY <2>5, <3>3, <3>4 DEF Compiled, RowsSound, heavy
  <2>6. CASE SaveCommand(e)
    BY <2>6, CommandSaved
  <2>7. CASE Retitle(e)
    <3>1. PICK ts : ed' = [ed EXCEPT ![e] = [pc |-> "title", titles |-> ts]]
      BY <2>7 DEF Retitle
    <3>2. CommandSound([pc |-> "title", titles |-> ts], made)
      BY DEF CommandSound
    <3> QED BY <2>7, <3>1, <3>2 DEF Retitle, RowsSound, heavy
  <2>8. CASE SaveTitles(e) \/ Ended(e)
    <3>1. CommandSound([pc |-> "idle"], made)
      BY DEF CommandSound
    <3> QED BY <2>8, <3>1 DEF SaveTitles, Ended, RowsSound, heavy
  <2> QED BY <1>6, <2>1, <2>2, <2>3, <2>4, <2>5, <2>6, <2>7, <2>8 DEF Command
<1> QED BY <1>1, <1>2, <1>3, <1>4, <1>5, <1>6 DEF Next, Attempt

-----------------------------------------------------------------------------
(***************************************************************************)
(* What the attempt holds: between reading the collections and writing     *)
(* their checkpoint, the rows it will write include the user's it read;    *)
(* from then on they are those of the checkpoint, if it is still there.    *)
(***************************************************************************)
Rendering == {"render", "encode", "manifest"}

Holding ==
  /\ att.pc \in {"group", "checkpoint"} => Preserved(att.seen) \subseteq att.rows
  /\ att.pc \notin {"group", "checkpoint"} => att.seen = {}
  /\ att.pc \in Rendering /\ CollectionsCached => coll.rows = att.rows

LEMMA HoldingStep ==
  ASSUME InStages, Holding, [Next]_vars
  PROVE  Holding'
<1> USE DEF Holding, Rendering, Preserved
<1>1. CASE Start \/ Score \/ Enrich
  BY <1>1 DEF Start, Score, Enrich, Busy, InStages
<1>2. CASE TakeCollections
  BY <1>2 DEF TakeCollections, CollectionsCached, InStages
<1>3. CASE ReadCollections
  BY <1>3 DEF ReadCollections, InStages
<1>4. CASE SaveCollections
  <2>1. PICK new : att' = [att EXCEPT !.pc = "checkpoint", !.rows = @ \cup new]
    BY <1>4 DEF SaveCollections
  <2>2. att'.pc = "checkpoint" /\ att'.rows = att.rows \cup new /\ att'.seen = att.seen
    BY <2>1 DEF InStages
  <2> QED BY <1>4, <2>2 DEF SaveCollections
<1>5. CASE CheckpointCollections
  BY <1>5 DEF CheckpointCollections, InStages
<1>6. CASE BeginRender
  BY <1>6 DEF BeginRender, CollectionsCached, InStages, stages
<1>7. CASE RenderClip
  BY <1>7 DEF RenderClip, CollectionsCached, InStages, stages
<1>8. CASE WriteRender
  BY <1>8 DEF WriteRender, CollectionsCached, InStages, stages
<1>9. CASE TakeRender \/ WriteManifest \/ EditUnrecorded \/ Fault
  <2>1. Release
    BY <1>9 DEF TakeRender, WriteManifest, EditUnrecorded, Fault
  <2> QED BY <2>1 DEF Release
<1>10. CASE (\E i \in Index : EditClip(i)) \/ EditEncoded \/ CommitEdit
  <2>1. UNCHANGED <<att, coll, enrich>>
    BY <1>10 DEF EditClip, EditEncoded, CommitEdit, stages
  <2> QED BY <2>1 DEF CollectionsCached
<1>11. ASSUME NEW e \in Editors, Command(e) PROVE Holding'
  <2>1. UNCHANGED <<att, enrich>> /\ (coll' = coll \/ coll'.kind = "list")
    BY <1>11, CommandsAside DEF stages, heavy, Command, Create, Update, Delete, Regenerate, Loads,
       Compile, Compiled, SaveCommand, Save, Retitle, SaveTitles, Ended
  <2> QED BY <2>1 DEF CollectionsCached
<1>12. CASE UNCHANGED vars
  BY <1>12 DEF vars, heavy, stages, CollectionsCached
<1> QED BY <1>1, <1>2, <1>3, <1>4, <1>5, <1>6, <1>7, <1>8, <1>9, <1>10, <1>11, <1>12
        DEF Next, Attempt, EditRender

\* A step that forgets a row of the user had not loaded it, or deletes it.
LEMMA UserRowsStep ==
  ASSUME InStages, RowsSound, Holding, [Next]_vars, NEW r \in Forgotten
  PROVE  \/ att' # att /\ r \notin att.seen
         \/ \E e \in Editors :
              /\ ed'[e] # ed[e] /\ ed[e].pc = "save"
              /\ r \notin ed[e].seen \/ Deletes(e, r.id)
<1>1. r \in coll.rows /\ r.edited /\ r.id \notin IdsIn(coll'.rows) /\ coll' # coll
  BY DEF Forgotten, IdsIn
<1>0. r \in Rows /\ DOMAIN ed = Editors
  BY <1>1 DEF RowsSound, RowSet
<1>2. CASE SaveCollections
  <2>1. PICK new : Save(att.rows \cup new) /\ att' = [att EXCEPT !.pc = "checkpoint", !.rows = @ \cup new]
    BY <1>2 DEF SaveCollections
  <2>2. coll'.rows = att.rows \cup new /\ att'.pc = "checkpoint"
    BY <2>1 DEF Save, InStages
  <2>3. att.pc = "group" /\ Preserved(att.seen) \subseteq att.rows
    BY <1>2 DEF SaveCollections, Holding
  <2>4. r \notin att.seen
    BY <1>1, <2>2, <2>3 DEF IdsIn, Preserved
  <2> QED BY <2>2, <2>3, <2>4
<1>3. CASE CheckpointCollections
  <2>1. coll'.rows = att.rows /\ att'.pc = "render" /\ att.pc = "checkpoint"
        /\ Preserved(att.seen) \subseteq att.rows
    BY <1>3 DEF CheckpointCollections, InStages, Holding
  <2>2. r \notin att.seen
    BY <1>1, <2>1 DEF IdsIn, Preserved
  <2> QED BY <2>1, <2>2
<1>4. ASSUME NEW e \in Editors, SaveCommand(e)
      PROVE  /\ ed'[e] # ed[e] /\ ed[e].pc = "save"
             /\ r \notin ed[e].seen \/ Deletes(e, r.id)
  <2>1. ed[e].pc = "save" /\ ed'[e].pc = "idle"
    BY <1>0, <1>4 DEF SaveCommand
  <2>2. SUFFICES ASSUME r \in ed[e].seen PROVE Deletes(e, r.id)
    BY <2>1
  <2>3. CASE ed[e].op = "create"
    BY <1>1, <1>4, <2>2, <2>3 DEF SaveCommand, Save, IdsIn
  <2>4. CASE ed[e].op = "update"
    <3> DEFINE new == [q \in ed[e].seen |-> Changed(q, ed[e])]
               x == IF r.id = ed[e].target THEN new[r] ELSE r
    <3>1. x \in coll'.rows
      BY <1>4, <2>2, <2>4 DEF SaveCommand, Save, Replaced
    <3>2. Changed(r, ed[e]).id = r.id
      BY <1>0 DEF Changed, Rows
    <3>3. x.id = r.id
      BY <2>2, <3>2
    <3> QED BY <1>1, <3>1, <3>3 DEF IdsIn
  <2>5. CASE ed[e].op = "film"
    BY <1>1, <1>4, <2>2, <2>5 DEF SaveCommand, Save, IdsIn
  <2>6. CASE ed[e].op = "delete"
    BY <1>1, <1>4, <2>2, <2>6 DEF SaveCommand, Save, IdsIn, Deletes
  <2>7. CASE ed[e].op = "regenerate"
    BY <1>1, <1>4, <2>2, <2>7 DEF SaveCommand, Save, IdsIn, Preserved
  <2> QED BY <1>4, <2>3, <2>4, <2>5, <2>6, <2>7 DEF SaveCommand
<1>5. ASSUME NEW e \in Editors, Command(e) PROVE SaveCommand(e)
  BY <1>1, <1>5 DEF Command, Create, Update, Delete, Regenerate, Loads, Compile, Compiled, Retitle,
     SaveTitles, Ended
<1>6. coll' = coll \/ SaveCollections \/ CheckpointCollections \/ \E e \in Editors : Command(e)
  BY DEF Next, Attempt, EditRender, WriteManifest, Fault, vars, Start, Score, Enrich,
     TakeCollections, ReadCollections, TakeRender, BeginRender, RenderClip, WriteRender, EditClip,
     EditEncoded, CommitEdit, EditUnrecorded
<1> QED BY <1>1, <1>2, <1>3, <1>4, <1>5, <1>6

-----------------------------------------------------------------------------
(***************************************************************************)
(* The files of the clips and of render.json.  What the attempt has        *)
(* encoded is whole, and what it has just described is what it encoded.    *)
(***************************************************************************)
RenderJson == {"dep", "outputs", "described"}

FilesSound ==
  /\ DOMAIN mp4 = Index /\ \A i \in Index : mp4[i] = None \/ mp4[i] \in Files
  /\ manifest \in BOOLEAN
  /\ render # None => DOMAIN render = RenderJson /\ render.outputs \subseteq Index
  /\ att.clip \in Nat \ {0} /\ edit.clip \in Index

Encoded ==
  /\ att.pc = "encode" => \A i \in Index : i < att.clip => mp4[i] # None /\ mp4[i].whole
  /\ att.pc = "manifest" =>
       /\ render # None /\ render.dep = RenderDependency
       /\ render.outputs \subseteq render.described
       /\ \A i \in render.outputs : mp4[i].whole

LEMMA RenderIsThere ==
  ASSUME NEW x, DOMAIN x = RenderJson
  PROVE  x # None
<1>1. DOMAIN None = {"kind"}
  BY DEF None
<1>2. "kind" \notin RenderJson
  BY DEF RenderJson
<1> QED BY <1>1, <1>2

LEMMA FileIsThere ==
  ASSUME NEW x \in Files
  PROVE  x # None
<1>1. DOMAIN None = {"kind"}
  BY DEF None
<1>2. DOMAIN x = {"gen", "edited", "whole"}
  BY DEF Files
<1> QED BY <1>1, <1>2

\* What the rewriting of a clip does to the files and to render.json.
LEMMA RewriteIs ==
  ASSUME FilesSound, score \in Gens, NEW i \in Index, NEW isEdit \in BOOLEAN, NEW isWhole \in BOOLEAN,
         Rewrite(i, isEdit, isWhole)
  PROVE  /\ DOMAIN mp4' = Index /\ \A j \in Index : j # i => mp4'[j] = mp4[j]
         /\ mp4'[i] \in Files /\ mp4'[i] # None
         /\ mp4'[i].edited = isEdit /\ mp4'[i].whole = isWhole
         /\ render = None => render' = None
         /\ render # None =>
              /\ render' # None /\ DOMAIN render' = RenderJson
              /\ render'.dep = render.dep /\ render'.outputs = render.outputs
              /\ render'.described = render.described \ {i}
<1> DEFINE f == [gen |-> score, edited |-> isEdit, whole |-> isWhole]
<1>1. f \in Files /\ f.edited = isEdit /\ f.whole = isWhole
  BY DEF Files
<1>2. f # None
  BY <1>1, FileIsThere
<1>3. mp4' = [mp4 EXCEPT ![i] = f]
  BY DEF Rewrite
<1> HIDE DEF f
<1>4. /\ DOMAIN mp4' = Index /\ \A j \in Index : j # i => mp4'[j] = mp4[j]
      /\ mp4'[i] = f
  BY <1>3 DEF FilesSound
<1>5. ASSUME render # None
      PROVE  /\ render' # None /\ DOMAIN render' = RenderJson
             /\ render'.dep = render.dep /\ render'.outputs = render.outputs
             /\ render'.described = render.described \ {i}
  <2>1. DOMAIN render = RenderJson
    BY <1>5 DEF FilesSound
  <2>2. render' = [render EXCEPT !.described = @ \ {i}]
    BY <1>5 DEF Rewrite
  <2>3. /\ DOMAIN render' = RenderJson
        /\ render'.dep = render.dep /\ render'.outputs = render.outputs
        /\ render'.described = render.described \ {i}
    BY <2>1, <2>2 DEF RenderJson
  <2> QED BY <2>3, RenderIsThere
<1> QED BY <1>1, <1>2, <1>4, <1>5 DEF Rewrite

LEMMA FilesInit == Init => FilesSound /\ Encoded
<1> SUFFICES ASSUME Init PROVE FilesSound /\ Encoded
  OBVIOUS
<1>1. 1 \in Index
  BY MostIsGreatest DEF Index
<1>2. DOMAIN mp4 = Index /\ \A i \in Index : mp4[i] = None
  BY DEF Init
<1>3. render = None /\ manifest = FALSE /\ att.clip = 1 /\ edit.clip = 1 /\ att.pc = "idle"
  BY DEF Init
<1>4. manifest \in BOOLEAN
  BY DEF Init
<1>5. FilesSound
  BY <1>1, <1>2, <1>3, <1>4 DEF FilesSound
<1> QED BY <1>3, <1>5 DEF Encoded

\* The steps of which none rewrites a clip or render.json.
FilesAside == \/ Start \/ Score \/ Enrich \/ TakeCollections \/ ReadCollections \/ SaveCollections
              \/ CheckpointCollections \/ BeginRender \/ TakeRender \/ EditUnrecorded
              \/ (\E i \in Index : EditClip(i)) \/ (\E e \in Editors : Command(e))
              \/ UNCHANGED vars

LEMMA FilesAsideSteps ==
  ASSUME InStages, FilesSound, FilesAside
  PROVE  /\ UNCHANGED clipFiles
         /\ att'.clip \in {att.clip, 1} /\ edit'.clip \in Index
         /\ att'.pc = "encode" => att'.clip = 1 \/ (att.pc = "encode" /\ att'.clip = att.clip)
         /\ att'.pc = "manifest" => att.pc = "manifest" /\ UNCHANGED <<att, score>>
<1> USE DEF InStages, clipFiles, stages, heavy
<1>0. 1 \in Index
  BY MostIsGreatest DEF Index
<1>1. CASE Start \/ Score \/ Enrich
  BY <1>1 DEF Start, Score, Enrich, FilesSound
<1>2. CASE TakeCollections \/ ReadCollections
  BY <1>2 DEF TakeCollections, ReadCollections, FilesSound
<1>3. CASE SaveCollections
  <2>1. PICK new : att' = [att EXCEPT !.pc = "checkpoint", !.rows = @ \cup new]
    BY <1>3 DEF SaveCollections
  <2> QED BY <1>3, <2>1 DEF SaveCollections, FilesSound
<1>4. CASE CheckpointCollections \/ BeginRender
  BY <1>4 DEF CheckpointCollections, BeginRender, FilesSound
<1>5. CASE TakeRender \/ EditUnrecorded
  BY <1>0, <1>5 DEF TakeRender, EditUnrecorded, Release
<1>6. CASE \E i \in Index : EditClip(i)
  BY <1>6 DEF EditClip
<1>7. CASE (\E e \in Editors : Command(e)) \/ UNCHANGED vars
  BY <1>7, CommandsAside DEF vars, FilesSound
<1> QED BY <1>1, <1>2, <1>3, <1>4, <1>5, <1>6, <1>7 DEF FilesAside

\* Every other step writes a clip, render.json or the manifest.
Wrote(i, isEdit, isWhole) ==
  /\ Rewrite(i, isEdit, isWhole) /\ manifest' = manifest /\ score \in Gens

LEMMA EncodesListed ==
  ASSUME InStages, FilesSound, att.pc = "encode", att.clip <= ClipCount[score]
  PROVE  score \in Gens /\ att.clip \in Index
<1>1. score \in Gens
  BY DEF InStages
<1>2. ClipCount[score] \in 1 .. Most /\ Most \in Nat
  BY <1>1, MostIsGreatest
<1> QED BY <1>1, <1>2 DEF FilesSound, Index

LEMMA FilesSteps ==
  ASSUME InStages, FilesSound, [Next]_vars
  PROVE  \/ FilesAside \/ WriteRender \/ CommitEdit \/ WriteManifest
         \/ RenderClip /\ att.clip \in Index /\ Wrote(att.clip, FALSE, TRUE)
         \/ EditEncoded /\ Wrote(edit.clip, TRUE, TRUE)
         \/ Fault /\ UNCHANGED clipFiles
         \/ Fault /\ att.pc = "encode" /\ att.clip \in Index /\ Wrote(att.clip, FALSE, FALSE)
         \/ Fault /\ Wrote(edit.clip, TRUE, FALSE)
<1>1. att.pc = "encode" /\ att.clip <= ClipCount[score] => score \in Gens /\ att.clip \in Index
  BY EncodesListed
<1>2. edit.pc # "idle" => score \in Gens
  BY DEF InStages
<1>3. CASE RenderClip
  BY <1>1, <1>3 DEF RenderClip, Wrote
<1>4. CASE EditEncoded
  BY <1>2, <1>4 DEF EditEncoded, Wrote
<1>5. CASE Fault
  BY <1>1, <1>2, <1>5 DEF Fault, Wrote
<1> QED BY <1>3, <1>4, <1>5 DEF Next, Attempt, EditRender, FilesAside

LEMMA RecordStep ==
  ASSUME InStages, FilesSound, WriteRender \/ CommitEdit
  PROVE  /\ mp4' = mp4 /\ manifest' = FALSE
         /\ render' # None /\ DOMAIN render' = RenderJson
         /\ render'.outputs \subseteq Index /\ render'.outputs \subseteq render'.described
<1>1. CASE WriteRender
  <2>1. score \in Gens
    BY <1>1 DEF WriteRender, InStages
  <2>2. 1 .. ClipCount[score] \subseteq Index
    BY <2>1, IdsOfAreIds
  <2>3. render' = [dep |-> RenderDependency, outputs |-> 1 .. ClipCount[score],
                   described |-> 1 .. ClipCount[score]]
    BY <1>1 DEF WriteRender
  <2>4. /\ DOMAIN render' = RenderJson /\ render'.outputs = 1 .. ClipCount[score]
        /\ render'.described = render'.outputs
    BY <2>3 DEF RenderJson
  <2> QED BY <1>1, <2>2, <2>4, RenderIsThere DEF WriteRender
<1>2. CASE CommitEdit
  <2>1. render # None /\ render' = Committed
    BY <1>2 DEF CommitEdit
  <2>2. DOMAIN render = RenderJson /\ render.outputs \cup {edit.clip} \subseteq Index
    BY <2>1 DEF FilesSound
  <2>3. /\ DOMAIN render' = RenderJson /\ render'.outputs = render.outputs \cup {edit.clip}
        /\ render'.described = render'.outputs
    BY <2>1, <2>2 DEF Committed, RenderJson
  <2> QED BY <1>2, <2>2, <2>3, RenderIsThere DEF CommitEdit
<1> QED BY <1>1, <1>2

LEMMA FilesStep ==
  ASSUME InStages, FilesSound, [Next]_vars
  PROVE  FilesSound'
<1>1. CASE FilesAside
  BY <1>1, FilesAsideSteps DEF FilesSound, clipFiles
<1>2. CASE WriteRender \/ CommitEdit
  <2>1. att'.clip \in {att.clip, 1} /\ edit'.clip = edit.clip
    BY <1>2 DEF WriteRender, CommitEdit, InStages
  <2>2. manifest' \in BOOLEAN
    BY <1>2 DEF WriteRender, CommitEdit
  <2>3. att'.clip \in Nat \ {0} /\ edit'.clip \in Index
    BY <2>1 DEF FilesSound
  <2>4. mp4' = mp4 /\ DOMAIN render' = RenderJson /\ render'.outputs \subseteq Index
    BY <1>2, RecordStep
  <2> QED BY <2>2, <2>3, <2>4 DEF FilesSound
<1>0. 1 \in Index
  BY MostIsGreatest DEF Index
<1>3. CASE WriteManifest
  <2>1. att'.clip = 1 /\ edit'.clip = 1 /\ manifest' \in BOOLEAN /\ UNCHANGED <<mp4, render>>
    BY <1>3 DEF WriteManifest, Release
  <2> QED BY <1>0, <2>1 DEF FilesSound
<1>4. ASSUME NEW i \in Index, NEW isEdit \in BOOLEAN, NEW isWhole \in BOOLEAN,
             Wrote(i, isEdit, isWhole), att'.clip \in Nat \ {0}, edit'.clip \in Index
      PROVE  FilesSound'
  <2>1. Rewrite(i, isEdit, isWhole) /\ manifest' = manifest /\ score \in Gens
    BY <1>4 DEF Wrote
  <2>2. /\ DOMAIN mp4' = Index /\ \A j \in Index : j # i => mp4'[j] = mp4[j]
        /\ mp4'[i] \in Files
        /\ render' # None => render # None /\ DOMAIN render' = RenderJson
                             /\ render'.outputs = render.outputs
    BY <2>1, RewriteIs
  <2> QED BY <1>4, <2>1, <2>2 DEF FilesSound
<1>5. CASE RenderClip /\ att.clip \in Index /\ Wrote(att.clip, FALSE, TRUE)
  <2>1. att'.clip = att.clip + 1 /\ edit'.clip = edit.clip
    BY <1>5 DEF RenderClip, InStages
  <2>2. att'.clip \in Nat \ {0}
    BY <2>1 DEF FilesSound
  <2> QED BY <1>4, <1>5, <2>1, <2>2 DEF FilesSound
<1>6. CASE EditEncoded /\ Wrote(edit.clip, TRUE, TRUE)
  <2>1. att'.clip = att.clip /\ edit'.clip = edit.clip
    BY <1>6 DEF EditEncoded, InStages
  <2> QED BY <1>4, <1>6, <2>1 DEF FilesSound
<1>7. Fault => att'.clip \in Nat \ {0} /\ edit'.clip \in Index
  BY <1>0 DEF Fault, Release
<1>11. edit.clip \in Index
  BY DEF FilesSound
<1>8. CASE Fault /\ UNCHANGED clipFiles
  BY <1>7, <1>8 DEF FilesSound, clipFiles
<1>9. CASE Fault /\ att.clip \in Index /\ Wrote(att.clip, FALSE, FALSE)
  BY <1>4, <1>7, <1>9
<1>10. CASE Fault /\ Wrote(edit.clip, TRUE, FALSE)
  BY <1>4, <1>7, <1>10, <1>11
<1> QED BY <1>1, <1>2, <1>3, <1>5, <1>6, <1>8, <1>9, <1>10, FilesSteps

LEMMA EncodedStep ==
  ASSUME InStages, FilesSound, Encoded, [Next]_vars
  PROVE  Encoded'
<1>1. CASE FilesAside
  <2>1. /\ UNCHANGED clipFiles
        /\ att'.pc = "encode" => att'.clip = 1 \/ (att.pc = "encode" /\ att'.clip = att.clip)
        /\ att'.pc = "manifest" => att.pc = "manifest" /\ UNCHANGED <<att, score>>
    BY <1>1, FilesAsideSteps
  <2>2. \A i \in Index : ~(i < 1)
    BY MostIsGreatest DEF Index
  <2> QED BY <2>1, <2>2 DEF Encoded, RenderDependency, clipFiles
<1>2. CASE WriteRender
  <2>1. /\ mp4' = mp4 /\ render' # None /\ render'.outputs \subseteq render'.described
    BY <1>2, RecordStep
  <2>2. score \in Gens /\ att.pc = "encode" /\ att.clip > ClipCount[score] /\ score' = score
        /\ att'.pc = "manifest" /\ att'.rows = att.rows
    BY <1>2 DEF WriteRender, InStages, stages
  <2>3. render'.outputs = 1 .. ClipCount[score] /\ render'.dep = RenderDependency
    BY <1>2 DEF WriteRender
  <2>4. RenderDependency' = RenderDependency
    BY <2>2 DEF RenderDependency
  <2>5. ASSUME NEW i \in 1 .. ClipCount[score] PROVE mp4[i].whole
    <3>1. i \in Index
      BY <2>2, IdsOfAreIds
    <3>2. ClipCount[score] \in Nat
      BY <2>2, MostIsGreatest
    <3>3. i < att.clip
      BY <2>2, <3>2 DEF FilesSound
    <3> QED BY <2>2, <3>1, <3>3 DEF Encoded
  <2> QED BY <2>1, <2>2, <2>3, <2>4, <2>5 DEF Encoded
<1>3. CASE CommitEdit \/ EditEncoded
  <2>1. att'.pc = "idle"
    BY <1>3 DEF CommitEdit, EditEncoded, InStages
  <2> QED BY <2>1 DEF Encoded
<1>4. CASE WriteManifest \/ Fault
  <2>0. Release
    BY <1>4 DEF WriteManifest, Fault
  <2>1. att'.pc = "idle"
    BY <2>0 DEF Release
  <2> QED BY <2>1 DEF Encoded
<1>5. CASE RenderClip /\ att.clip \in Index /\ Wrote(att.clip, FALSE, TRUE)
  <2>1. att.pc = "encode" /\ att'.pc = "encode" /\ att'.clip = att.clip + 1
    BY <1>5 DEF RenderClip, InStages
  <2>2. /\ \A j \in Index : j # att.clip => mp4'[j] = mp4[j]
        /\ mp4'[att.clip] # None /\ mp4'[att.clip].whole
    BY <1>5, RewriteIs DEF Wrote
  <2>3. \A i \in Index : i < att.clip + 1 => i = att.clip \/ i < att.clip
    BY MostIsGreatest DEF Index, FilesSound
  <2> QED BY <2>1, <2>2, <2>3 DEF Encoded
<1> QED BY <1>1, <1>2, <1>3, <1>4, <1>5, FilesSteps

\* A rewritten clip that is listed is not described: the checkpoint is not valid.
LEMMA TornStep ==
  ASSUME InStages, FilesSound, Encoded, [Next]_vars, TornTrusted', ~TornTrusted
  PROVE  edit.pc = "manifest"
<1> USE DEF TornTrusted, RenderValidates
<1>1. CASE UNCHANGED clipFiles
  BY <1>1 DEF clipFiles
<1>2. CASE WriteRender \/ CommitEdit
  BY <1>2 DEF WriteRender, CommitEdit
<1>3. CASE WriteManifest
  <2>1. UNCHANGED <<mp4, render>>
    BY <1>3 DEF WriteManifest
  <2>2. att.pc = "manifest" => \A i \in render.outputs : mp4[i].whole
    BY DEF Encoded
  <2> QED BY <1>3, <2>1, <2>2 DEF WriteManifest
<1>4. ASSUME NEW i \in Index, NEW isEdit \in BOOLEAN, NEW isWhole \in BOOLEAN,
             Wrote(i, isEdit, isWhole)
      PROVE  FALSE
  <2>1. Rewrite(i, isEdit, isWhole) /\ manifest' = manifest /\ score \in Gens
    BY <1>4 DEF Wrote
  <2>2. /\ \A j \in Index : j # i => mp4'[j] = mp4[j]
        /\ render' # None => render # None /\ render'.outputs = render.outputs
                             /\ render'.described = render.described \ {i}
    BY <2>1, RewriteIs
  <2>3. render # None => render.outputs \subseteq Index
    BY DEF FilesSound
  <2>4. render # None /\ i \notin render.outputs /\ render.outputs \subseteq render.described
        /\ render'.outputs = render.outputs
    BY <2>2
  <2> QED BY <2>1, <2>2, <2>3, <2>4
<1>5. edit.clip \in Index
  BY DEF FilesSound
<1>6. FilesAside => UNCHANGED clipFiles
  BY FilesAsideSteps
<1> QED BY <1>1, <1>2, <1>3, <1>4, <1>5, <1>6, FilesSteps

-----------------------------------------------------------------------------
(***************************************************************************)
(* While nothing has happened that may cost an edit (~hurt), the job is as *)
(* its last complete attempt left it, but for what a re-render is about to *)
(* put right: either every checkpoint holds, or no clip is edited.         *)
(***************************************************************************)
NoEdits == \A i \in Index : mp4[i] # None => ~mp4[i].edited
Agree ==
  /\ score = wanted /\ enrich = wanted /\ CollectionsCached
  /\ render # None /\ render.dep = [gen |-> score, rows |-> coll.rows]
AllDescribed == render.outputs \subseteq render.described
Settled == Agree /\ manifest /\ AllDescribed

KeptFree == Settled \/ (score = 0 /\ NoEdits)
KeptAttempt ==
  \/ NoEdits
  \/ /\ Settled /\ att.pc \in {"score", "enrich", "collections", "render"}
     /\ att.pc = "render" => att.rows = coll.rows
KeptEdit ==
  /\ edit.pc = "encode" => Settled
  /\ edit.pc = "commit" => Agree
  /\ edit.pc = "manifest" => Agree /\ AllDescribed

Kept ==
  ~hurt => /\ slot = "free" => KeptFree
           /\ slot = "attempt" => KeptAttempt
           /\ slot = "edit" => KeptEdit

LEMMA KeptStart ==
  ASSUME InStages, Kept, Start
  PROVE  Kept'
<1>1. SUFFICES ASSUME ~hurt' PROVE KeptAttempt'
  BY DEF Start, Kept
<1>2. ~hurt /\ wanted' = wanted /\ slot = "free" /\ att'.pc = "score"
      /\ UNCHANGED <<score, enrich, coll, clipFiles>>
  BY <1>1 DEF Start, Busy, InStages
<1> QED BY <1>2 DEF Kept, KeptFree, KeptAttempt, NoEdits, Settled, Agree, AllDescribed,
           CollectionsCached, clipFiles

\* A stage whose checkpoint holds leaves everything as it was.
LEMMA KeptStages ==
  ASSUME InStages, Holding, Kept,
         \/ Score \/ Enrich \/ TakeCollections \/ ReadCollections \/ SaveCollections
         \/ CheckpointCollections \/ BeginRender
  PROVE  Kept'
<1>1. slot' = "attempt" /\ slot = "attempt" /\ hurt' = hurt /\ UNCHANGED clipFiles
  BY DEF Score, Enrich, TakeCollections, ReadCollections, SaveCollections, CheckpointCollections,
     BeginRender, InStages
<1>2. SUFFICES ASSUME ~hurt, KeptAttempt PROVE KeptAttempt'
  BY <1>1 DEF Kept
<1>3. NoEdits => NoEdits'
  BY <1>1 DEF NoEdits, clipFiles
<1>4. SUFFICES ASSUME Settled, att.pc \in {"score", "enrich", "collections", "render"},
                      att.pc = "render" => att.rows = coll.rows
               PROVE  KeptAttempt'
  BY <1>2, <1>3 DEF KeptAttempt
<1> USE DEF KeptAttempt, Settled, Agree, AllDescribed, CollectionsCached, clipFiles
<1>5. CASE Score \/ Enrich
  BY <1>1, <1>4, <1>5 DEF Score, Enrich, InStages
<1>6. CASE TakeCollections
  BY <1>1, <1>4, <1>6 DEF TakeCollections, InStages, stages
<1>7. CASE ReadCollections \/ SaveCollections \/ CheckpointCollections
  BY <1>4, <1>7 DEF ReadCollections, SaveCollections, CheckpointCollections
<1>8. CASE BeginRender
  BY <1>4, <1>8 DEF BeginRender, RenderCached, RenderValidates, RenderDependency
<1> QED BY <1>5, <1>6, <1>7, <1>8

LEMMA KeptRendering ==
  ASSUME InStages, FilesSound, Holding, Encoded, Kept,
         TakeRender \/ RenderClip \/ WriteRender \/ WriteManifest
  PROVE  Kept'
<1>1. CASE TakeRender
  <2>1. /\ slot' = "free" /\ hurt' = ~CollectionsCached /\ RenderCached /\ att.pc = "render"
        /\ UNCHANGED <<stages, coll, clipFiles>>
    BY <1>1 DEF TakeRender, Release
  <2>2. SUFFICES ASSUME CollectionsCached PROVE Settled'
    BY <2>1 DEF Kept, KeptFree
  <2>3. score = wanted /\ enrich = wanted /\ coll.rows = att.rows
    BY <2>1, <2>2 DEF InStages, Holding, Rendering
  <2>4. Settled
    BY <2>1, <2>2, <2>3 DEF Settled, Agree, AllDescribed, RenderCached, RenderValidates,
       RenderDependency
  <2> QED BY <2>1, <2>4 DEF Settled, Agree, AllDescribed, CollectionsCached, stages, clipFiles
<1>2. CASE WriteManifest /\ slot = "attempt"
  <2>1. /\ slot' = "free" /\ hurt' = ~CollectionsCached /\ manifest' = TRUE
        /\ UNCHANGED <<stages, coll, mp4, render>> /\ att.pc = "manifest"
    BY <1>2 DEF WriteManifest, Release, InStages
  <2>2. SUFFICES ASSUME CollectionsCached PROVE Settled'
    BY <2>1 DEF Kept, KeptFree
  <2>3. /\ score = wanted /\ enrich = wanted /\ coll.rows = att.rows
        /\ render # None /\ render.dep = RenderDependency /\ AllDescribed
    BY <2>1, <2>2 DEF InStages, Holding, Rendering, Encoded, AllDescribed
  <2> QED BY <2>1, <2>2, <2>3 DEF Settled, Agree, AllDescribed, CollectionsCached, RenderDependency,
             stages
<1>3. CASE WriteManifest /\ slot # "attempt"
  <2>1. /\ slot' = "free" /\ hurt' = hurt /\ manifest' = TRUE /\ slot = "edit"
        /\ UNCHANGED <<stages, coll, mp4, render>> /\ edit.pc = "manifest"
    BY <1>3 DEF WriteManifest, Release, InStages
  <2> QED BY <2>1 DEF Kept, KeptFree, KeptEdit, Settled, Agree, AllDescribed, CollectionsCached,
             stages
<1>4. CASE RenderClip \/ WriteRender
  <2>1. slot = "attempt" /\ slot' = slot /\ hurt' = hurt /\ att.pc = "encode"
    BY <1>4 DEF RenderClip, WriteRender, InStages
  <2>2. SUFFICES ASSUME NoEdits PROVE NoEdits'
    BY <2>1 DEF Kept, KeptAttempt
  <2>3. CASE WriteRender
    BY <2>2, <2>3 DEF WriteRender, NoEdits
  <2>4. CASE RenderClip
    <3>1. att.clip \in Index /\ Rewrite(att.clip, FALSE, TRUE) /\ score \in Gens
      BY <2>4, EncodesListed DEF RenderClip
    <3> QED BY <2>2, <3>1, RewriteIs DEF NoEdits
  <2> QED BY <1>4, <2>3, <2>4
<1> QED BY <1>1, <1>2, <1>3, <1>4

LEMMA KeptEditing ==
  ASSUME InStages, FilesSound, Kept, EditRender
  PROVE  Kept'
<1>1. CASE \E i \in Index : EditClip(i)
  <2>1. /\ slot = "free" /\ score # 0 /\ slot' = "edit" /\ edit'.pc = "encode" /\ hurt' = hurt
        /\ UNCHANGED <<stages, coll, clipFiles>>
    BY <1>1 DEF EditClip, Busy, InStages
  <2> QED BY <2>1 DEF Kept, KeptFree, KeptEdit, Settled, Agree, AllDescribed, CollectionsCached,
             stages, clipFiles
<1>2. CASE EditEncoded
  <2>1. /\ slot = "edit" /\ slot' = "edit" /\ edit.pc = "encode" /\ edit'.pc = "commit"
        /\ hurt' = hurt /\ score \in Gens /\ Rewrite(edit.clip, TRUE, TRUE)
        /\ UNCHANGED <<stages, coll>>
    BY <1>2 DEF EditEncoded, InStages
  <2>2. edit.clip \in Index
    BY DEF FilesSound
  <2>3. render # None => render' # None /\ render'.dep = render.dep
    BY <2>1, <2>2, RewriteIs
  <2> QED BY <2>1, <2>3 DEF Kept, KeptEdit, Settled, Agree, CollectionsCached, stages
<1>3. CASE CommitEdit
  <2>1. /\ slot = "edit" /\ slot' = "edit" /\ edit.pc = "commit" /\ edit'.pc = "manifest"
        /\ hurt' = hurt /\ render # None /\ render' = Committed /\ UNCHANGED <<stages, coll>>
    BY <1>3 DEF CommitEdit, InStages
  <2>2. render' # None /\ AllDescribed'
    BY <1>3, RecordStep DEF AllDescribed
  <2>3. DOMAIN render = RenderJson
    BY <2>1 DEF FilesSound
  <2>4. render'.dep = render.dep
    BY <2>1, <2>3 DEF Committed, RenderJson
  <2> QED BY <2>1, <2>2, <2>4 DEF Kept, KeptEdit, Agree, CollectionsCached, stages
<1>4. CASE EditUnrecorded
  BY <1>4 DEF EditUnrecorded, Kept
<1> QED BY <1>1, <1>2, <1>3, <1>4 DEF EditRender

LEMMA KeptBeside ==
  ASSUME Kept, NEW e \in Editors, Command(e)
  PROVE  Kept'
<1>1. UNCHANGED <<stages, clipFiles, heavy>>
  BY CommandsAside
<1>2. hurt' = TRUE \/ (hurt' = hurt /\ coll' = coll)
  BY DEF Command, Create, Update, Delete, Regenerate, Loads, Compile, Compiled, SaveCommand,
     Retitle, SaveTitles, Ended
<1> QED BY <1>1, <1>2 DEF Kept, KeptFree, KeptAttempt, KeptEdit, NoEdits, Settled, Agree,
           AllDescribed, CollectionsCached, stages, clipFiles, heavy

LEMMA KeptStep ==
  ASSUME InStages, FilesSound, Encoded, Holding, Kept, [Next]_vars
  PROVE  Kept'
<1>1. CASE Fault
  BY <1>1 DEF Fault, Kept
<1>2. CASE UNCHANGED vars
  BY <1>2 DEF vars, Kept, KeptFree, KeptAttempt, KeptEdit, NoEdits, Settled, Agree, AllDescribed,
     CollectionsCached, stages, clipFiles, heavy
<1> QED BY <1>1, <1>2, KeptStart, KeptStages, KeptRendering, KeptEditing, KeptBeside
        DEF Next, Attempt

\* The only step that renders over an edited clip unhurt would contradict Kept.
LEMMA EditKeptStep ==
  ASSUME InStages, FilesSound, Kept, [Next]_vars, ~hurt,
         NEW i \in Index, mp4[i] # None, mp4[i].edited
  PROVE  mp4'[i].edited
<1>1. CASE UNCHANGED clipFiles
  BY <1>1 DEF clipFiles
<1>2. CASE WriteRender \/ CommitEdit \/ WriteManifest
  BY <1>2 DEF WriteRender, CommitEdit, WriteManifest
<1>3. ASSUME NEW j \in Index, NEW isWhole \in BOOLEAN, Wrote(j, TRUE, isWhole)
      PROVE  mp4'[i].edited
  <2>1. /\ \A k \in Index : k # j => mp4'[k] = mp4[k]
        /\ mp4'[j].edited
    BY <1>3, RewriteIs DEF Wrote
  <2> QED BY <2>1
<1>4. CASE RenderClip \/ (Fault /\ att.pc = "encode")
  <2>1. slot = "attempt" /\ att.pc = "encode"
    BY <1>4 DEF RenderClip, InStages
  <2> QED BY <2>1 DEF Kept, KeptAttempt, NoEdits
<1>5. edit.clip \in Index
  BY DEF FilesSound
<1>6. FilesAside => UNCHANGED clipFiles
  BY FilesAsideSteps
<1> QED BY <1>1, <1>2, <1>3, <1>4, <1>5, <1>6, FilesSteps

-----------------------------------------------------------------------------
(***************************************************************************)
(* All of it is inductive.                                                 *)
(***************************************************************************)
Counted == faults \in 0 .. MaxFaults /\ hurt \in BOOLEAN

CreatorInv == /\ InStages /\ RowsSound /\ TitlesSound /\ Holding /\ FilesSound /\ Encoded /\ Kept
              /\ Counted

LEMMA CountedStep ==
  ASSUME Counted, [Next]_vars
  PROVE  Counted'
<1>1. CASE Fault
  BY <1>1, BoundsAssumption DEF Fault, Counted
<1>2. CASE Start
  BY <1>2 DEF Start, Counted
<1>3. CASE TakeRender \/ WriteManifest
  BY <1>3 DEF TakeRender, WriteManifest, Counted
<1>4. CASE \E e \in Editors : Command(e)
  <2>1. faults' = faults
    BY <1>4, CommandsAside
  <2>2. hurt' = hurt \/ hurt' = TRUE
    BY <1>4 DEF Command, Create, Update, Delete, Regenerate, Loads, Compile, Compiled, SaveCommand,
       Retitle, SaveTitles, Ended
  <2> QED BY <2>1, <2>2 DEF Counted
<1>5. CASE EditRender
  BY <1>5 DEF EditRender, EditClip, EditEncoded, CommitEdit, EditUnrecorded, Counted
<1>6. CASE \/ Score \/ Enrich \/ TakeCollections \/ ReadCollections \/ SaveCollections
           \/ CheckpointCollections \/ BeginRender \/ RenderClip \/ WriteRender \/ UNCHANGED vars
  <2>1. UNCHANGED <<faults, hurt>>
    BY <1>6 DEF Score, Enrich, TakeCollections, ReadCollections, SaveCollections,
       CheckpointCollections, BeginRender, RenderClip, WriteRender, vars
  <2> QED BY <2>1 DEF Counted
<1> QED BY <1>1, <1>2, <1>3, <1>4, <1>5, <1>6 DEF Next, Attempt

LEMMA CreatorInit == Init => CreatorInv
<1> SUFFICES ASSUME Init PROVE CreatorInv
  OBVIOUS
<1>1. Holding /\ TitlesSound
  BY DEF Init, Holding, Rendering, Preserved, TitlesSound, TitleSet
<1>2. Kept
  <2>1. slot = "free" /\ score = 0 /\ NoEdits
    BY DEF Init, NoEdits
  <2> QED BY <2>1 DEF Kept, KeptFree
<1>3. Counted
  <2>1. hurt \in BOOLEAN
    BY DEF Init
  <2>2. faults = 0 /\ 0 \in 0 .. MaxFaults
    BY BoundsAssumption DEF Init
  <2> QED BY <2>1, <2>2 DEF Counted
<1> QED BY <1>1, <1>2, <1>3, StagesInit, RowsInit, FilesInit DEF CreatorInv

LEMMA CreatorNext == CreatorInv /\ [Next]_vars => CreatorInv'
<1> SUFFICES ASSUME CreatorInv, [Next]_vars PROVE CreatorInv'
  OBVIOUS
<1>1. InStages' /\ RowsSound' /\ Holding' /\ Counted'
  BY StagesStep, RowsStep, HoldingStep, CountedStep DEF CreatorInv
<1>2. TitlesSound'
  BY TitlesStep DEF CreatorInv, RowsSound
<1>3. FilesSound' /\ Encoded' /\ Kept'
  BY FilesStep, EncodedStep, KeptStep DEF CreatorInv
<1> QED BY <1>1, <1>2, <1>3 DEF CreatorInv

LEMMA CreatorAlways == Spec => []CreatorInv
BY CreatorInit, CreatorNext, PTL DEF Spec

(***************************************************************************)
(* The files always have the form their readers expect, and an id names    *)
(* one collection of the file.                                             *)
(***************************************************************************)
THEOREM FilesAreTyped == Spec => []TypeOK
<1>1. CreatorInv => TypeOK
  <2> SUFFICES ASSUME CreatorInv PROVE TypeOK
    OBVIOUS
  <2>1. wanted \in Gens /\ {score, enrich} \subseteq Gens \cup {0}
        /\ (slot = "attempt" <=> att.pc # "idle") /\ (slot = "edit" <=> edit.pc # "idle")
    BY DEF CreatorInv, InStages
  <2>2. /\ coll \in [kind : {"none", "list", "checkpoint"}, gen : Gens \cup {0},
                     rows : SUBSET Rows]
        /\ made \in 0 .. MaxRows /\ \A r, q \in coll.rows : r.id = q.id => r = q
    BY DEF CreatorInv, RowsSound, RowSet
  <2>3. titles \subseteq [id : ClipIds, cut : ClipIds]
    BY DEF CreatorInv, TitlesSound, TitleSet
  <2>4. \A i \in Index : mp4[i] = None \/ mp4[i] \in Files
    BY DEF CreatorInv, FilesSound
  <2>5. faults \in 0 .. MaxFaults /\ hurt \in BOOLEAN
    BY DEF CreatorInv, Counted
  <2> QED BY <2>1, <2>2, <2>3, <2>4, <2>5 DEF TypeOK
<1> QED BY <1>1, CreatorAlways, PTL

(***************************************************************************)
(* A title is shown only on the clip whose bounds it was typed for         *)
(* (creator_clips_for_job and set_title_override).                         *)
(***************************************************************************)
THEOREM TitlesAreOfTheirClips == Spec => []TitlesFollowClips
<1>1. CreatorInv => TitlesFollowClips
  BY TitlesFollow DEF CreatorInv
<1> QED BY <1>1, CreatorAlways, PTL

(***************************************************************************)
(* A collection of the user leaves collections.json only as UserRowsKept   *)
(* says, however attempts and commands overlap.                            *)
(***************************************************************************)
THEOREM UserRowsAreKept == Spec => UserRowsKept
<1> DEFINE A == \A r \in Forgotten :
                  \/ att' # att /\ r \notin att.seen
                  \/ \E e \in Editors :
                       /\ ed'[e] # ed[e] /\ ed[e].pc = "save"
                       /\ r \notin ed[e].seen \/ Deletes(e, r.id)
<1>1. CreatorInv /\ [Next]_vars => [A]_vars
  BY UserRowsStep DEF CreatorInv
<1>2. Spec => [][A]_vars
  BY <1>1, CreatorAlways, PTL DEF Spec
<1> QED BY <1>2 DEF UserRowsKept

(***************************************************************************)
(* An attempt renders over an edited clip only after a change or a cut off *)
(* operation (EditKept).                                                   *)
(***************************************************************************)
THEOREM EditsAreKept == Spec => EditKept
<1> DEFINE A == \A i \in Index :
                  mp4[i] # None /\ mp4[i].edited /\ ~mp4'[i].edited => hurt
<1>1. CreatorInv /\ [Next]_vars => [A]_vars
  BY EditKeptStep DEF CreatorInv
<1>2. Spec => [][A]_vars
  BY <1>1, CreatorAlways, PTL DEF Spec
<1> QED BY <1>2 DEF EditKept

(***************************************************************************)
(* Only the commit of a re-render may make a render checkpoint valid over  *)
(* a clip ffmpeg did not finish (ValidRenderIsWhole).                      *)
(***************************************************************************)
THEOREM RendersAreWhole == Spec => ValidRenderIsWhole
<1> DEFINE A == TornTrusted' /\ ~TornTrusted => edit.pc = "manifest"
<1>1. CreatorInv /\ [Next]_vars => [A]_vars
  BY TornStep DEF CreatorInv
<1>2. Spec => [][A]_vars
  BY <1>1, CreatorAlways, PTL DEF Spec
<1> QED BY <1>2 DEF ValidRenderIsWhole

=============================================================================
