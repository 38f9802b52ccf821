------------------------------- MODULE Creator --------------------------------
(***************************************************************************)
(* The files of a finished job that several commands write: the clips and  *)
(* render.json (render/stage.py, edits/render_clip.py), collections.json   *)
(* (collections/stage.py and service.py) and the title overrides           *)
(* (creator_state.py).                                                     *)
(*                                                                         *)
(* An attempt runs the stages from score to render; a clip is rendered     *)
(* again with its edit by one heavy operation that excludes the attempt;   *)
(* the commands of the editor on collections and titles are sidecar        *)
(* processes beside both.  Each of them reads a whole JSON file, works on  *)
(* it and replaces it, without a lock.                                     *)
(*                                                                         *)
(* A generation is one outcome of the score stage.  A clip is identified   *)
(* by its index and its bounds (stable_clip_id), here <<index, generation  *)
(* that chose the bounds>>.  A stage whose checkpoint holds is not         *)
(* distinguished from one that runs and answers the same: JobQueue does.   *)
(***************************************************************************)
EXTENDS Naturals, Sequences, FiniteSets

CONSTANTS
  ClipCount,    \* the number of clips of each generation
  Editors,      \* editor sidecars that may be alive together
  MaxRows,      \* bound: collections ever made
  MaxTitles,    \* bound: titles kept together
  MaxFaults     \* bound: processes killed or failed

Gens == 1 .. Len(ClipCount)
Most == CHOOSE n \in {ClipCount[g] : g \in Gens} :
          \A g \in Gens : ClipCount[g] <= n
Index == 1 .. Most
ClipIds == Index \X Gens

ASSUME ClipsAssumption ==
  ClipCount \in Seq(Nat \ {0}) /\ Len(ClipCount) > 0
ASSUME BoundsAssumption ==
  MaxRows \in Nat /\ MaxTitles \in Nat /\ MaxFaults \in Nat /\ IsFiniteSet(Editors)

(***************************************************************************)
(* A clip file: what it was rendered from, and whether ffmpeg finished it. *)
(* render.json: its dependency fingerprint, the clips it lists, and those  *)
(* whose descriptor is still the one of the file, which is a new one after *)
(* every rewriting (size, modification time, digest).  A collection: its   *)
(* id, its clips and user_edited; its render_path is left out.  The file   *)
(* collections.json is a list the service wrote or the envelope of the     *)
(* stage's checkpoint, made for a generation of enriched clips.            *)
(***************************************************************************)
Files == [gen : Gens, edited : BOOLEAN, whole : BOOLEAN]
Rows == [id : 1 .. MaxRows, clips : SUBSET ClipIds, edited : BOOLEAN]
None == [kind |-> "none"]

VARIABLES
  wanted,             \* the generation jobs.settings_json asks for
  score, enrich,      \* the generation of each checkpoint, 0 if absent
  coll,               \* collections.json
  titles,             \* creator-overrides.json: the clip ids with a title, and,
                      \* as history, the bounds each title was typed for
  mp4,                \* clips/clip_NN.mp4, None if absent
  render,             \* render.json
  manifest,           \* whether artifact-manifest.json has its descriptors
  slot,               \* which heavy operation runs
  att,                \* the attempt: stage, clip, and the collections data
  edit,               \* the re-render: step and clip
  ed,                 \* the command of each editor sidecar
  made,               \* collections made so far: the ids are 1 .. made
  faults,
  hurt                \* history: what may cost an edit since the last attempt

clipFiles == <<mp4, render, manifest>>
stages == <<wanted, score, enrich>>
heavy == <<slot, att, edit>>
editing == <<ed, made>>
vars == <<stages, coll, titles, clipFiles, heavy, editing, faults, hurt>>

-----------------------------------------------------------------------------
(***************************************************************************)
(* creator_clips_for_job: the clips shown to the editor.  The clips of     *)
(* score.json have no id; those of enrich.json replace them by position.   *)
(***************************************************************************)
\* A variant that takes the id of the enriched clip and the bounds scored.
MergedByPosition(s, e) ==
  [i \in IF s = 0 THEN {} ELSE 1 .. ClipCount[s] |->
     [id |-> <<i, IF e # 0 /\ i <= ClipCount[e] THEN e ELSE s>>,
      cut |-> <<i, s>>]]

MergedClipStages(s, e) ==
  [i \in IF s = 0 THEN {} ELSE 1 .. ClipCount[s] |->
     LET from == IF e # 0 /\ i <= ClipCount[e] THEN e ELSE s
     IN [id |-> <<i, from>>, cut |-> <<i, from>>]]

Shown == MergedClipStages(score, enrich)
ValidIds == {Shown[i].id : i \in DOMAIN Shown}
IdsOf(g) == {<<i, g>> : i \in 1 .. ClipCount[g]}

\* _load: the file is a list of the service, and knows only these clips.
Readable(ids) ==
  \/ coll.kind = "none"
  \/ coll.kind = "list" /\ \A r \in coll.rows : r.clips \subseteq ids

Loaded == IF coll.kind = "none" THEN {} ELSE coll.rows

Save(rows) == coll' = [kind |-> "list", gen |-> 0, rows |-> rows]

\* A variant of the regeneration that drops what it does not suggest itself.
PreservedNone(rows) == {r \in rows : ~r.edited}
Preserved(rows) == {r \in rows : r.edited}

\* A variant that gives a group the id of the last collection.
GroupingsReused(ids) ==
  {{}} \cup {{[id |-> made, clips |-> c, edited |-> FALSE]}
             : c \in {s \in SUBSET ids : Cardinality(s) >= 2 /\ made < MaxRows}}

(***************************************************************************)
(* What a grouping adds: nothing, or a group of at least two of the clips; *)
(* the fallback groups them all.  One group stands for up to eight.        *)
(***************************************************************************)
Groupings(ids) ==
  {{}} \cup {{[id |-> made + 1, clips |-> c, edited |-> FALSE]}
             : c \in {s \in SUBSET ids : Cardinality(s) >= 2 /\ made < MaxRows}}

Busy == slot # "free"
Release ==
  /\ slot' = "free"
  /\ att' = [pc |-> "idle", clip |-> 1, rows |-> {}, seen |-> {}]
  /\ edit' = [pc |-> "idle", clip |-> 1]

Init ==
  /\ wanted = 1 /\ score = 0 /\ enrich = 0
  /\ coll = [kind |-> "none", gen |-> 0, rows |-> {}]
  /\ titles = {}
  /\ mp4 = [i \in Index |-> None] /\ render = None /\ manifest = FALSE
  /\ slot = "free"
  /\ att = [pc |-> "idle", clip |-> 1, rows |-> {}, seen |-> {}]
  /\ edit = [pc |-> "idle", clip |-> 1]
  /\ ed = [e \in Editors |-> [pc |-> "idle"]]
  /\ made = 0 /\ faults = 0 /\ hurt = FALSE

-----------------------------------------------------------------------------
(***************************************************************************)
(* The attempt.  A resume may first ask for another scoring.               *)
(***************************************************************************)
Start ==
  /\ ~Busy
  /\ slot' = "attempt" /\ att' = [att EXCEPT !.pc = "score"]
  /\ \E g \in {wanted, wanted + 1} \cap Gens :
       wanted' = g /\ hurt' = (hurt \/ g # wanted)
  /\ UNCHANGED <<score, enrich, coll, titles, clipFiles, edit, editing, faults>>

Score ==
  /\ att.pc = "score"
  /\ score' = wanted /\ att' = [att EXCEPT !.pc = "enrich"]
  /\ UNCHANGED <<wanted, enrich, coll, titles, clipFiles, slot, edit, editing,
                 faults, hurt>>

Enrich ==
  /\ att.pc = "enrich"
  /\ enrich' = score /\ att' = [att EXCEPT !.pc = "collections"]
  /\ UNCHANGED <<wanted, score, coll, titles, clipFiles, slot, edit, editing,
                 faults, hurt>>

CollectionsCached == coll.kind = "checkpoint" /\ coll.gen = enrich

TakeCollections ==
  /\ att.pc = "collections" /\ CollectionsCached
  /\ att' = [att EXCEPT !.pc = "render", !.rows = coll.rows]
  /\ UNCHANGED <<stages, coll, titles, clipFiles, slot, edit, editing, faults, hurt>>

(***************************************************************************)
(* CollectionsStage.run reads the file and asks the provider.  A file it   *)
(* cannot read fails both of its tries: the answer is empty.  With fewer   *)
(* than two clips nothing is saved.                                        *)
(***************************************************************************)
ReadCollections ==
  /\ att.pc = "collections" /\ ~CollectionsCached
  /\ att' = IF Readable(IdsOf(enrich))
              THEN [att EXCEPT !.seen = Loaded, !.rows = Preserved(Loaded),
                               !.pc = IF ClipCount[enrich] < 2
                                        THEN "checkpoint" ELSE "group"]
              ELSE [att EXCEPT !.rows = {}, !.pc = "checkpoint"]
  /\ UNCHANGED <<stages, coll, titles, clipFiles, slot, edit, editing, faults, hurt>>

SaveCollections ==
  /\ att.pc = "group"
  /\ \E new \in Groupings(IdsOf(enrich)) :
       /\ Save(att.rows \cup new) /\ made' = made + Cardinality(new)
       /\ att' = [att EXCEPT !.pc = "checkpoint", !.rows = @ \cup new]
  /\ UNCHANGED <<stages, titles, clipFiles, slot, edit, ed, faults, hurt>>

\* write_checkpoint: the envelope replaces the list, in the same file.
CheckpointCollections ==
  /\ att.pc = "checkpoint"
  /\ coll' = [kind |-> "checkpoint", gen |-> enrich, rows |-> att.rows]
  /\ att' = [att EXCEPT !.pc = "render", !.seen = {}]
  /\ UNCHANGED <<stages, titles, clipFiles, slot, edit, editing, faults, hurt>>

-----------------------------------------------------------------------------
(***************************************************************************)
(* RenderStage: ffmpeg writes each clip in place, then write_checkpoint    *)
(* writes render.json and the manifest, one after the other.               *)
(***************************************************************************)
Rewrite(i, isEdit, isWhole) ==
  /\ mp4' = [mp4 EXCEPT ![i] = [gen |-> score, edited |-> isEdit,
                                whole |-> isWhole]]
  /\ render' = IF render = None THEN None
               ELSE [render EXCEPT !.described = @ \ {i}]

RenderDependency == [gen |-> score, rows |-> att.rows]
\* A variant that trusts the manifest without looking at the files.
ValidatesManifest == render # None /\ manifest
RenderValidates ==
  render # None /\ manifest /\ render.outputs \subseteq render.described
RenderCached == RenderValidates /\ render.dep = RenderDependency

TakeRender ==
  /\ att.pc = "render" /\ RenderCached
  /\ Release /\ hurt' = ~CollectionsCached
  /\ UNCHANGED <<stages, coll, titles, clipFiles, editing, faults>>

BeginRender ==
  /\ att.pc = "render" /\ ~RenderCached
  /\ att' = [att EXCEPT !.pc = "encode", !.clip = 1]
  /\ UNCHANGED <<stages, coll, titles, clipFiles, slot, edit, editing, faults,
                 hurt>>

RenderClip ==
  /\ att.pc = "encode" /\ att.clip <= ClipCount[score]
  /\ Rewrite(att.clip, FALSE, TRUE)
  /\ att' = [att EXCEPT !.clip = @ + 1]
  /\ UNCHANGED <<stages, coll, titles, manifest, slot, edit, editing, faults,
                 hurt>>

WriteRender ==
  /\ att.pc = "encode" /\ att.clip > ClipCount[score]
  /\ render' = [dep |-> RenderDependency, outputs |-> 1 .. ClipCount[score],
                described |-> 1 .. ClipCount[score]]
  /\ manifest' = FALSE
  /\ att' = [att EXCEPT !.pc = "manifest", !.clip = 1]
  /\ UNCHANGED <<stages, coll, titles, mp4, slot, edit, editing, faults, hurt>>

WriteManifest ==
  /\ att.pc = "manifest" \/ edit.pc = "manifest"
  /\ manifest' = TRUE
  /\ hurt' = IF slot = "attempt" THEN ~CollectionsCached ELSE hurt
  /\ Release
  /\ UNCHANGED <<stages, coll, titles, mp4, render, editing, faults>>

(***************************************************************************)
(* render_clip_edit: the clip is rendered in place, then its entry of      *)
(* render.json is replaced and write_checkpoint describes every listed     *)
(* clip anew, whoever wrote it.  The dependency fingerprint in the data is *)
(* kept.                                                                   *)
(***************************************************************************)
EditClip(i) ==
  /\ ~Busy /\ score # 0 /\ i <= ClipCount[score]
  /\ slot' = "edit" /\ edit' = [pc |-> "encode", clip |-> i]
  /\ UNCHANGED <<stages, coll, titles, clipFiles, att, editing, faults, hurt>>

EditEncoded ==
  /\ edit.pc = "encode" /\ Rewrite(edit.clip, TRUE, TRUE)
  /\ edit' = [edit EXCEPT !.pc = "commit"]
  /\ UNCHANGED <<stages, coll, titles, manifest, slot, att, editing, faults,
                 hurt>>

\* A variant that replaces the entry and keeps the descriptors it read.
CommitEntry == [render EXCEPT !.outputs = @ \cup {edit.clip}]

Committed == LET outputs == render.outputs \cup {edit.clip}
             IN [render EXCEPT !.outputs = outputs, !.described = outputs]

CommitEdit ==
  /\ edit.pc = "commit" /\ render # None
  /\ render' = Committed /\ manifest' = FALSE
  /\ edit' = [edit EXCEPT !.pc = "manifest"]
  /\ UNCHANGED <<stages, coll, titles, mp4, slot, att, editing, faults, hurt>>

\* Without a render.json the edited file is all there is.
EditUnrecorded ==
  /\ edit.pc = "commit" /\ render = None
  /\ Release /\ hurt' = TRUE
  /\ UNCHANGED <<stages, coll, titles, clipFiles, editing, faults>>

(***************************************************************************)
(* The process of the heavy operation is killed, or its stage or ffmpeg    *)
(* fails: a clip it was encoding may be left partly written.               *)
(***************************************************************************)
Fault ==
  /\ Busy /\ faults < MaxFaults
  /\ \/ UNCHANGED clipFiles
     \/ /\ att.pc = "encode" /\ att.clip <= ClipCount[score]
        /\ Rewrite(att.clip, FALSE, FALSE) /\ UNCHANGED manifest
     \/ /\ edit.pc = "encode"
        /\ Rewrite(edit.clip, TRUE, FALSE) /\ UNCHANGED manifest
  /\ faults' = faults + 1 /\ hurt' = TRUE /\ Release
  /\ UNCHANGED <<stages, coll, titles, editing>>

-----------------------------------------------------------------------------
(***************************************************************************)
(* The editor's commands (cmd_creator).  A command computes the clips, then*)
(* loads its file; an answer it cannot load or a clip or a collection it   *)
(* does not know ends it without a write, which is no step here.           *)
(***************************************************************************)
Loads(e, op, target, clips) ==
  /\ ed[e].pc = "idle" /\ Readable(ValidIds)
  /\ ed' = [ed EXCEPT ![e] = [pc |-> "save", op |-> op, target |-> target,
                              clips |-> clips, seen |-> Loaded,
                              ids |-> ValidIds]]
  /\ UNCHANGED <<stages, coll, titles, clipFiles, heavy, made, faults, hurt>>

Requested == {c \in SUBSET ValidIds : Cardinality(c) >= 2}
IdsIn(rows) == {r.id : r \in rows}

Create(e) == \E c \in Requested : Loads(e, "create", 0, c)
\* update_collection and reorder_collection: a title, or other clips
Update(e) ==
  \E r \in Loaded : \E c \in Requested \cup {r.clips} :
    Loads(e, "update", r.id, c)
Delete(e) == \E id \in IdsIn(Loaded) : Loads(e, "delete", id, {})
Regenerate(e) == Cardinality(ValidIds) >= 2 /\ Loads(e, "regenerate", 0, {})

\* render_collection finds the collection, compiles it, and loads again.
Compile(e) ==
  /\ ed[e].pc = "idle" /\ Readable(ValidIds)
  /\ \E id \in IdsIn(Loaded) :
       ed' = [ed EXCEPT ![e] = [pc |-> "compile", target |-> id,
                                ids |-> ValidIds]]
  /\ UNCHANGED <<stages, coll, titles, clipFiles, heavy, made, faults, hurt>>

Compiled(e) ==
  /\ ed[e].pc = "compile"
  /\ ed' = [ed EXCEPT ![e] =
       IF Readable(ed[e].ids) /\ ed[e].target \in IdsIn(Loaded)
         THEN [pc |-> "save", op |-> "film", target |-> ed[e].target,
               clips |-> {}, seen |-> Loaded, ids |-> ed[e].ids]
         ELSE [pc |-> "idle"]]
  /\ UNCHANGED <<stages, coll, titles, clipFiles, heavy, made, faults, hurt>>

\* update_collection: the row becomes the user's.
Changed(r, cmd) == [r EXCEPT !.clips = cmd.clips, !.edited = TRUE]
Replaced(rows, id, new) == {IF r.id = id THEN new[r] ELSE r : r \in rows}

(***************************************************************************)
(* The write of each command: the rows it loaded with its change.          *)
(***************************************************************************)
SaveCommand(e) ==
  LET cmd == ed[e] IN
  /\ ed[e].pc = "save" /\ ed' = [ed EXCEPT ![e] = [pc |-> "idle"]]
  /\ \/ /\ cmd.op = "create" /\ made < MaxRows
        /\ Save(cmd.seen \cup {[id |-> made + 1, clips |-> cmd.clips,
                                edited |-> TRUE]})
        /\ made' = made + 1
     \/ /\ cmd.op = "update"
        /\ Save(Replaced(cmd.seen, cmd.target,
                         [r \in cmd.seen |-> Changed(r, cmd)]))
        /\ UNCHANGED made
     \/ /\ cmd.op = "film"
        /\ Save(cmd.seen)
        /\ UNCHANGED made
     \/ /\ cmd.op = "delete"
        /\ Save({r \in cmd.seen : r.id # cmd.target})
        /\ UNCHANGED made
     \/ /\ cmd.op = "regenerate"
        /\ \E new \in Groupings(cmd.ids) :
             /\ Save(Preserved(cmd.seen) \cup new)
             /\ made' = made + Cardinality(new)
  /\ hurt' = TRUE
  /\ UNCHANGED <<stages, titles, clipFiles, heavy, faults>>

(***************************************************************************)
(* set_title_override and reset_title_override.                            *)
(***************************************************************************)
Retitle(e) ==
  /\ ed[e].pc = "idle"
  /\ \E i \in DOMAIN Shown, reset \in BOOLEAN :
       LET others == {t \in titles : t.id # Shown[i].id} IN
       /\ reset \/ Cardinality(others) < MaxTitles
       /\ ed' = [ed EXCEPT ![e] =
            [pc |-> "title",
             titles |-> IF reset THEN others ELSE others \cup {Shown[i]}]]
  /\ UNCHANGED <<stages, coll, titles, clipFiles, heavy, made, faults, hurt>>

SaveTitles(e) ==
  /\ ed[e].pc = "title" /\ titles' = ed[e].titles
  /\ ed' = [ed EXCEPT ![e] = [pc |-> "idle"]]
  /\ UNCHANGED <<stages, coll, clipFiles, heavy, made, faults, hurt>>

\* A sidecar may end before its write.
Ended(e) ==
  /\ ed[e].pc # "idle" /\ ed' = [ed EXCEPT ![e] = [pc |-> "idle"]]
  /\ UNCHANGED <<stages, coll, titles, clipFiles, heavy, made, faults, hurt>>

Attempt == \/ Start \/ Score \/ Enrich \/ TakeCollections \/ ReadCollections
           \/ SaveCollections \/ CheckpointCollections \/ TakeRender
           \/ BeginRender \/ RenderClip \/ WriteRender
EditRender == \/ (\E i \in Index : EditClip(i)) \/ EditEncoded \/ CommitEdit
              \/ EditUnrecorded
Command(e) == \/ Create(e) \/ Update(e) \/ Delete(e) \/ Regenerate(e)
              \/ Compile(e) \/ Compiled(e) \/ SaveCommand(e)
              \/ Retitle(e) \/ SaveTitles(e) \/ Ended(e)

Next == Attempt \/ EditRender \/ WriteManifest \/ Fault
        \/ \E e \in Editors : Command(e)
Spec == Init /\ [][Next]_vars

-----------------------------------------------------------------------------
TypeOK ==
  /\ wanted \in Gens /\ {score, enrich} \subseteq Gens \cup {0}
  /\ coll \in [kind : {"none", "list", "checkpoint"}, gen : Gens \cup {0},
               rows : SUBSET Rows]
  /\ titles \subseteq [id : ClipIds, cut : ClipIds]
  /\ \A i \in Index : mp4[i] = None \/ mp4[i] \in Files
  /\ slot = "attempt" <=> att.pc # "idle"
  /\ slot = "edit" <=> edit.pc # "idle"
  /\ made \in 0 .. MaxRows
  /\ faults \in 0 .. MaxFaults /\ hurt \in BOOLEAN
  /\ \A r, q \in coll.rows : r.id = q.id => r = q

(***************************************************************************)
(* A title the user typed is shown only on a clip whose bounds it was      *)
(* given to, also while score.json and enrich.json are of two generations. *)
(***************************************************************************)
TitlesFollowClips ==
  \A i \in DOMAIN Shown, t \in titles :
    t.id = Shown[i].id => t.cut = Shown[i].cut

(***************************************************************************)
(* What the last write of collections.json forgot: a collection the user   *)
(* made or changed leaves the file only by its deletion, by a write of one *)
(* who had not loaded it as it was, or by a stage that could not read it.  *)
(***************************************************************************)
Forgotten ==
  {r \in coll.rows : r.edited /\ r.id \notin IdsIn(coll'.rows)}
Deletes(e, id) == ed[e].op = "delete" /\ ed[e].target = id
UserRowsKept ==
  [][\A r \in Forgotten :
       \/ att' # att /\ r \notin att.seen
       \/ \E e \in Editors :
            /\ ed'[e] # ed[e] /\ ed[e].pc = "save"
            /\ r \notin ed[e].seen \/ Deletes(e, r.id)]_vars

(***************************************************************************)
(* A clip the user rendered again is rendered over by an attempt only if   *)
(* since the last complete attempt the scoring or the collections changed, *)
(* or an operation was cut off: resuming a job as it is keeps the edit.    *)
(***************************************************************************)
EditKept ==
  [][\A i \in Index :
       mp4[i] # None /\ mp4[i].edited /\ ~mp4'[i].edited => hurt]_vars

(***************************************************************************)
(* A collections file the user has a collection in can be read             *)
(* (docs/superpowers/specs/2026-09-20-v060-capability-suite.md:79).        *)
(***************************************************************************)
UserCollectionsReadable ==
  (\E r \in coll.rows : r.edited) => Readable(ValidIds)

(***************************************************************************)
(* A render checkpoint that validates over a clip ffmpeg did not finish is *)
(* never made by the render stage, whatever is killed: only the commit of  *)
(* a re-render, which describes every listed clip anew, makes one.         *)
(***************************************************************************)
TornTrusted == RenderValidates /\ \E i \in render.outputs : ~mp4[i].whole
ValidRenderIsWhole ==
  [][TornTrusted' /\ ~TornTrusted => edit.pc = "manifest"]_vars
=============================================================================
