-------------------------------- MODULE Editing -------------------------------
(***************************************************************************)
(* The editing of one clip.  ClipEditor.tsx shows the context the pipeline *)
(* computed when it was opened, changes its own copy of the edit and saves *)
(* that to clip_edits.json through the application, which checks it        *)
(* against the clip as it is scored now (edit_schema.rs); suggested        *)
(* visuals are added to the same file by a sidecar (cmd_edit); and a       *)
(* re-render reads the file, finds the silences again and cuts them out    *)
(* (edits/timeline.py).  An attempt may score the clips anew meanwhile:    *)
(* the file knows a clip by its index only.                                *)
(*                                                                         *)
(* Times are integers.  The caption preset, the camera mode, the place and *)
(* the image of a visual are left out; how the clip file itself is written *)
(* and committed is Creator's subject.                                     *)
(***************************************************************************)
EXTENDS Attempt, FiniteSetsExt, SequencesExt

CONSTANTS
  Talks,          \* what may be said: words in order, and the reactions heard
  Cuttings,       \* the bounds the successive scorings give the clip
  Marks,          \* where the user may put a bound
  MinCutGap, BreathPad, EventProtect, NaturalPause, MinKeep,
  FrameTime,      \* the time between two frames of a trajectory
  ShortestClip, LongestVisual,
  MaxClicks       \* bound: what the user does in the editor

ASSUME TimesAssumption ==
  /\ {MinCutGap, BreathPad, EventProtect, NaturalPause, MinKeep} \subseteq Nat
  /\ {FrameTime, ShortestClip, LongestVisual} \subseteq Nat \ {0} /\ MaxClicks \in Nat
  /\ MinCutGap > 2 * BreathPad /\ MinKeep <= MinCutGap
ASSUME TalksAssumption ==
  /\ \A t \in Talks :
       /\ t.words \in Seq([start : Nat, end : Nat, closing : BOOLEAN])
       /\ \A i \in DOMAIN t.words :
            /\ t.words[i].start < t.words[i].end
            /\ i > 1 => t.words[i - 1].end <= t.words[i].start
       /\ t.reactions \subseteq {r \in Nat \X Nat : r[1] <= r[2]}
  /\ Cuttings \in Seq(Nat \X Nat) /\ Len(Cuttings) > 0 /\ Marks \subseteq Nat

(***************************************************************************)
(* An edit: the bounds, whether silences are removed, the numbers of those *)
(* that stay, and until when a visual is shown (0: there is none).         *)
(***************************************************************************)
VARIABLES
  talk,       \* the words and reactions of the source
  take,       \* which scoring score.json is of
  stored,     \* the clip's entry of clip_edits.json, NoEdit if there is none
  shown,      \* the open editor: its edit, the bounds and silences it loaded
  helper,     \* the sidecar that suggests visuals
  cutOut,     \* the last re-render: the editor it was asked in, the edit it
              \* read, of which scoring, and whether others wrote meanwhile
  clicks

editingVars == <<talk, take, stored, shown, helper, cutOut, clicks>>

NoEdit == [start |-> 0, end |-> 0, remove |-> FALSE, off |-> {}, visual |-> 0]
NoEditor == [edit |-> NoEdit, start |-> 0, end |-> 0, silences |-> <<>>]
NoHelper == [pc |-> "none", edit |-> NoEdit, mine |-> FALSE]
NoCutOut == [asked |-> NoEditor, edit |-> NoEdit, take |-> 0, late |-> FALSE]

NoEditing ==
  /\ talk = [words |-> <<>>, reactions |-> {}] /\ take = 1 /\ stored = NoEdit
  /\ shown = NoEditor /\ helper = NoHelper /\ cutOut = NoCutOut /\ clicks = 0

BeginEditing == talk' \in Talks /\ UNCHANGED <<take, stored, shown, helper, cutOut, clicks>>

-----------------------------------------------------------------------------
\* The places from 1 to n that are in I, in order, and what a list has at places.
WithPlace(I, places, i) == IF i \in I THEN Append(places, i) ELSE places
InOrder(I, n) ==
  FoldLeft(LAMBDA places, i : WithPlace(I, places, i), <<>>, [i \in 1 .. n |-> i])
AtPlaces(list, places) == [j \in DOMAIN places |-> list[places[j]]]
Those(list, I) == AtPlaces(list, InOrder(I, Len(list)))

(***************************************************************************)
(* detect_dead_space: the silences before, between and after the words     *)
(* that begin in the clip.  One near a reaction, or short after a          *)
(* sentence, is listed but kept; of the others a breath stays on each side.*)
(***************************************************************************)
Inside(a, b) ==
  Those(talk.words, {i \in DOMAIN talk.words :
                       a <= talk.words[i].start /\ talk.words[i].start < b})

PausesAround(ws, a, b) ==
  IF ws = <<>> THEN <<>>
  ELSE [i \in 1 .. Len(ws) + 1 |->
          [start |-> IF i = 1 THEN a ELSE ws[i - 1].end,
           end |-> IF i > Len(ws) THEN b ELSE ws[i].start,
           closing |-> i > 1 /\ ws[i - 1].closing]]
Pauses(a, b) == PausesAround(Inside(a, b), a, b)

NearReaction(p) ==
  \E r \in talk.reactions : p.start < r[2] + EventProtect /\ p.end + EventProtect > r[1]
Stays(p) == NearReaction(p) \/ (p.closing /\ p.end <= p.start + NaturalPause)

Silence(p) ==
  IF Stays(p) THEN [start |-> p.start, end |-> p.end, kept |-> TRUE]
  ELSE [start |-> p.start + BreathPad, end |-> p.end - BreathPad, kept |-> FALSE]

DetectDeadSpace(a, b) ==
  LET all == Pauses(a, b)
      long == Those(all, {i \in DOMAIN all : all[i].end >= all[i].start + MinCutGap})
  IN [i \in DOMAIN long |-> Silence(long[i])]

\* A variant of Removed that numbers the silences without those kept.
RemovedAnew(e) ==
  LET all == DetectDeadSpace(e.start, e.end)
      some == Those(all, {i \in DOMAIN all : ~all[i].kept})
  IN Those(some, {i \in DOMAIN some : i \notin e.off})

(***************************************************************************)
(* keep_ranges: the clip without the silences that are neither kept nor    *)
(* switched off, which are in order and in the clip; what is left before,  *)
(* between or behind them is dropped if it is shorter than MinKeep.        *)
(***************************************************************************)
Removed(e) ==
  LET all == DetectDeadSpace(e.start, e.end)
  IN Those(all, {i \in DOMAIN all : ~all[i].kept /\ i \notin e.off})

Between(cuts, a, b) ==
  [i \in 1 .. Len(cuts) + 1 |->
     <<IF i = 1 THEN a ELSE cuts[i - 1].end,
       IF i > Len(cuts) THEN b ELSE cuts[i].start>>]

PartsKept(parts, e) ==
  LET all == Those(parts, {i \in DOMAIN parts : parts[i][2] >= parts[i][1] + MinKeep})
  IN IF ~e.remove \/ all = <<>> THEN <<<<e.start, e.end>>>> ELSE all
KeepRanges(e) == PartsKept(Between(Removed(e), e.start, e.end), e)

-----------------------------------------------------------------------------
(***************************************************************************)
(* TimeRemap: the time in the output of a time in the source, the captions *)
(* and the frames.                                                         *)
(***************************************************************************)
WithOffset(offsets, r) == Append(offsets, Last(offsets) + (r[2] - r[1]))
\* Where each range begins in the output, and at last where the output ends.
Offsets(ranges) == FoldLeft(WithOffset, <<0>>, ranges)
Offset(ranges, i) == Offsets(ranges)[i]
LengthOf(ranges) == Offset(ranges, Len(ranges) + 1)

ToOutput(ranges, t) ==
  LET later == {i \in DOMAIN ranges : t <= ranges[i][2]} IN
  IF later = {} THEN LengthOf(ranges)
  ELSE LET i == Min(later)
       IN Offset(ranges, i) + (IF t < ranges[i][1] THEN 0 ELSE t - ranges[i][1])

\* A word is shown if its middle is heard.
Heard(ranges, w) ==
  \E i \in DOMAIN ranges : 2 * ranges[i][1] <= w.start + w.end
                           /\ w.start + w.end <= 2 * ranges[i][2]
RemapWords(ranges, e) ==
  LET all == Inside(e.start, e.end)
      ws == Those(all, {i \in DOMAIN all : Heard(ranges, all[i])})
  IN [i \in DOMAIN ws |-> <<ToOutput(ranges, ws[i].start), ToOutput(ranges, ws[i].end)>>]

\* What is heard at a time of the output: at a cut, the range behind it.
SourceAt(ranges, t) ==
  LET i == Max({j \in DOMAIN ranges : Offset(ranges, j) <= t})
  IN ranges[i][1] + (t - Offset(ranges, i))

\* A variant of RemapTrajectory that takes the frame of the output's time.
RemapTrajectoryUncut(ranges, e, t) ==
  Least(t \div FrameTime, (e.end - e.start - 1) \div FrameTime)

\* The frame of the clip's own trajectory shown with it.
RemapTrajectory(ranges, e, t) ==
  Least((SourceAt(ranges, t) - e.start) \div FrameTime,
        (e.end - e.start - 1) \div FrameTime)

-----------------------------------------------------------------------------
(***************************************************************************)
(* The editor.  edit_for_clip: the stored edit, or the clip as scored.     *)
(***************************************************************************)
EditForClip ==
  IF stored = NoEdit
    THEN [NoEdit EXCEPT !.start = Cuttings[take][1], !.end = Cuttings[take][2]]
    ELSE stored

OpenEditor ==
  /\ at = "edit" /\ pc = "start" /\ Goto("open")
  /\ shown' = [edit |-> EditForClip, start |-> EditForClip.start,
               end |-> EditForClip.end,
               silences |-> DetectDeadSpace(EditForClip.start, EditForClip.end)]
  /\ cutOut' = NoCutOut
  /\ UNCHANGED <<talk, take, stored, helper, clicks>>

\* A variant of Valid that forgets the bounds of the clip as it is scored.
ValidAnywhere(e) == e.start < e.end /\ e.start + e.visual <= e.end

\* edit_schema::validate, against score.json as it is.
Valid(e) ==
  /\ Cuttings[take][1] <= e.start /\ e.end <= Cuttings[take][2] /\ e.start < e.end
  /\ e.start + e.visual <= e.end

\* A re-render that was asked for has not read the file yet.
Overtake == cutOut' = IF pc = "asked" THEN [cutOut EXCEPT !.late = TRUE] ELSE cutOut

Click ==
  /\ pc \in {"open", "asked"} /\ clicks < MaxClicks /\ clicks' = clicks + 1
  /\ UNCHANGED <<talk, take>>

\* persist: the editor keeps the change also when it cannot be saved.
Persist(e) ==
  /\ Click /\ UNCHANGED <<attempt, helper>>
  /\ shown' = [shown EXCEPT !.edit = e]
  /\ IF Valid(e) THEN stored' = e /\ Overtake ELSE UNCHANGED <<stored, cutOut>>

\* A bound is dragged, and saved with the next change.
Drag ==
  /\ Click /\ UNCHANGED <<attempt, stored, helper, cutOut>>
  /\ \E t \in Marks :
       \/ shown' = [shown EXCEPT !.edit.start = Least(t, shown.edit.end - ShortestClip)]
       \/ shown' = [shown EXCEPT !.edit.end = Max({t, shown.edit.start + ShortestClip})]

RemoveOrNot == Persist([shown.edit EXCEPT !.remove = ~@])

SwitchSilence ==
  /\ shown.edit.remove
  /\ \E i \in DOMAIN shown.silences :
       /\ ~shown.silences[i].kept
       /\ Persist([shown.edit EXCEPT !.off = SymDiff(@, {i})])

DeleteVisual == shown.edit.visual > 0 /\ Persist([shown.edit EXCEPT !.visual = 0])

(***************************************************************************)
(* doRender saves first; the pipeline process then reads the file.  The    *)
(* button waits for the end, everything else in the editor does not.       *)
(***************************************************************************)
AskRender ==
  /\ pc = "open" /\ Valid(shown.edit) /\ Click /\ Goto("asked")
  /\ stored' = shown.edit
  /\ cutOut' = [NoCutOut EXCEPT !.asked = shown]
  /\ UNCHANGED <<shown, helper>>

\* The editor is opened anew behind it.
Rerender ==
  /\ pc = "asked" /\ Goto("start")
  /\ cutOut' = [cutOut EXCEPT !.edit = stored, !.take = take]
  /\ helper' = [helper EXCEPT !.mine = FALSE]
  /\ UNCHANGED <<talk, take, stored, shown, clicks>>

RerenderFails ==
  /\ pc = "asked" /\ Trouble("open") /\ cutOut' = NoCutOut
  /\ UNCHANGED <<talk, take, stored, shown, helper, clicks>>

(***************************************************************************)
(* doSuggest: the editor saves and waits, the sidecar plans visuals from a *)
(* word on, reads the file once more, adds them and replaces the file.     *)
(***************************************************************************)
Suggest ==
  /\ helper = NoHelper /\ Valid(shown.edit) /\ Click
  /\ stored' = shown.edit /\ Overtake
  /\ helper' = [pc |-> "plans", edit |-> shown.edit, mine |-> TRUE]
  /\ UNCHANGED <<attempt, shown>>

SuggestReads ==
  /\ helper.pc = "plans"
  /\ LET ws == Inside(helper.edit.start, helper.edit.end) IN
     \E i \in DOMAIN ws :
       LET until == ws[i].start + LongestVisual - helper.edit.start
       IN helper' = [helper EXCEPT !.pc = "writes",
                       !.edit = [stored EXCEPT !.visual = Max({@, until})]]
  /\ UNCHANGED <<attempt, talk, take, stored, shown, cutOut, clicks>>

SuggestFails ==
  /\ helper.pc = "plans" /\ helper' = NoHelper
  /\ UNCHANGED <<attempt, talk, take, stored, shown, cutOut, clicks>>

SuggestWrites ==
  /\ helper.pc = "writes" /\ helper' = [helper EXCEPT !.pc = "answers"]
  /\ stored' = helper.edit /\ Overtake
  /\ UNCHANGED <<attempt, talk, take, shown, clicks>>

SuggestAnswers ==
  /\ helper.pc = "answers" /\ helper' = NoHelper
  /\ shown' = IF helper.mine THEN [shown EXCEPT !.edit = helper.edit] ELSE shown
  /\ UNCHANGED <<attempt, talk, take, stored, cutOut, clicks>>

\* An attempt with other settings scores the clips again; one heavy operation
\* excludes the other.
ScoreAgain ==
  /\ pc # "asked" /\ take < Len(Cuttings) /\ take' = take + 1
  /\ UNCHANGED <<attempt, talk, stored, shown, helper, cutOut, clicks>>

CloseEditor ==
  /\ pc \in {"start", "open"} /\ helper = NoHelper /\ Goto("done")
  /\ UNCHANGED editingVars

EditingNext ==
  \/ OpenEditor \/ Drag \/ RemoveOrNot \/ SwitchSilence \/ DeleteVisual
  \/ AskRender \/ Rerender \/ RerenderFails
  \/ Suggest \/ SuggestReads \/ SuggestFails \/ SuggestWrites \/ SuggestAnswers
  \/ (pc # "done" /\ ScoreAgain) \/ CloseEditor

-----------------------------------------------------------------------------
(***************************************************************************)
(* The clip that was cut out.  Every word and reaction inside its bounds,  *)
(* but for words shorter than MinKeep less a breath, is heard whole; the   *)
(* captions follow each other within it, each when its word is heard; and  *)
(* the picture is of the moment that is heard.                             *)
(***************************************************************************)
HeardWhole(ranges, a, b) == \E i \in DOMAIN ranges : ranges[i][1] <= a /\ b <= ranges[i][2]

NothingSaidIsCut(ranges, e) ==
  /\ \A w \in Range(talk.words) :
       e.start <= w.start /\ w.end <= e.end /\ w.end + BreathPad >= w.start + MinKeep
         => HeardWhole(ranges, w.start, w.end)
  /\ \A r \in talk.reactions :
       e.start <= r[1] /\ r[2] <= e.end /\ MinKeep <= EventProtect
         => HeardWhole(ranges, r[1], r[2])

CaptionsInStep(ranges, e) ==
  LET c == RemapWords(ranges, e)
  IN \A i \in DOMAIN c :
       /\ c[i][1] < c[i][2] /\ c[i][2] <= LengthOf(ranges)
       /\ i > 1 => c[i - 1][2] <= c[i][1]
       /\ \E w \in Range(talk.words) :
            \/ SourceAt(ranges, c[i][1]) = w.start
            \/ ~HeardWhole(ranges, w.start, w.end)

PictureInStep(ranges, e) ==
  \A k \in 0 .. (LengthOf(ranges) - 1) \div FrameTime :
    LET heard == SourceAt(ranges, k * FrameTime)
        from == e.start + RemapTrajectory(ranges, e, k * FrameTime) * FrameTime
    IN from <= heard /\ heard < from + FrameTime

CutInStep ==
  LET e == cutOut.edit
      ranges == KeepRanges(e)
  IN e # NoEdit => /\ NothingSaidIsCut(ranges, e)
                   /\ CaptionsInStep(ranges, e)
                   /\ PictureInStep(ranges, e)

(***************************************************************************)
(* What the user saw is what is rendered, unless something was saved after *)
(* the request: an edit made for an earlier scoring is never applied to a  *)
(* clip with other bounds, and while the bounds are those of the context,  *)
(* a silence the user switched off is heard.                               *)
(***************************************************************************)
RenderedWithin ==
  cutOut.edit # NoEdit /\ ~cutOut.late =>
    Cuttings[cutOut.take][1] <= cutOut.edit.start /\ cutOut.edit.end <= Cuttings[cutOut.take][2]

SwitchedOffHeard ==
  LET e == cutOut.edit
      seen == cutOut.asked
      ranges == KeepRanges(e)
  IN e # NoEdit /\ ~cutOut.late /\ e.start = seen.start /\ e.end = seen.end =>
       \A i \in e.off \cap DOMAIN seen.silences :
         HeardWhole(ranges, seen.silences[i].start, seen.silences[i].end)

EditHonoured == RenderedWithin /\ SwitchedOffHeard
=============================================================================
