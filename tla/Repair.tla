--------------------------------- MODULE Repair -------------------------------
(***************************************************************************)
(* The repair of the clips' bounds in ScoreStage.run, by which each scored *)
(* entry is moved before the entries are ranked: what the judgment (T1)    *)
(* recommends, what the candidate's evidence preserves of it, whole words, *)
(* and the end of a segment (short_quality.refine_boundaries).  A repair   *)
(* depends on no other entry; those of the clips that are recommended, of  *)
(* which assess asks an ending, are followed here.  A kill in it is one of *)
(* the scoring (Scoring).                                                  *)
(*                                                                         *)
(* Times are integers.  Of a word it matters whether it ends a sentence    *)
(* and whether a sentence cannot end with it, of a segment whether its     *)
(* text tells of a setup or of an outcome; the scores assess computes are  *)
(* left open.                                                              *)
(***************************************************************************)
EXTENDS Attempt, FiniteSetsExt, SequencesExt

CONSTANTS
  Scripts,      \* what may have been transcribed
  Moments,      \* the scored entries: bounds, payoff (or Never), evidence
  Answers,      \* what T1 may answer of an entry
  Reach,        \* max_extension
  ShortReach,   \* that of a capped tail
  TailLimit,    \* MAX_PAYOFF_REACTION_TAIL_SECONDS
  OutcomeReach, \* how far before a clip its outcome is looked for
  NearEnd,      \* how close to a segment's end is at its end
  PauseReach, TurnReach, \* how close a pause or another segment is
  MostOffset    \* the maximum of recommended_start_offset in T1_SCHEMA

Never == 0

ASSUME ReachAssumption ==
  /\ {Reach, ShortReach, TailLimit, OutcomeReach} \subseteq Nat
  /\ {NearEnd, PauseReach, TurnReach, MostOffset} \subseteq Nat
  /\ MostOffset < TailLimit

\* Words do not overlap, and none goes on after the end of a segment.
ASSUME ScriptsAssumption ==
  \A s \in Scripts :
    /\ s.words \in Seq([start : Nat, end : Nat, closes : BOOLEAN, dangles : BOOLEAN])
    /\ s.segments \in Seq([start : Nat, end : Nat, setup : BOOLEAN, outcome : BOOLEAN])
    /\ s.pauses \subseteq Nat
    /\ \A i \in DOMAIN s.words : s.words[i].start < s.words[i].end
    /\ \A i, j \in DOMAIN s.words : i < j => s.words[i].end <= s.words[j].start
    /\ \A j \in DOMAIN s.segments : s.segments[j].start <= s.segments[j].end
    /\ \A i \in DOMAIN s.words, j \in DOMAIN s.segments :
         s.words[i].end <= s.segments[j].end \/ s.segments[j].end <= s.words[i].start

(***************************************************************************)
(* A candidate that ends with the source is preserved like one with a      *)
(* payoff; a payoff lies in its candidate.                                 *)
(***************************************************************************)
ASSUME MomentsAssumption ==
  \A m \in Moments :
    /\ m \in [start : Nat, end : Nat, payoff : Nat, opening : BOOLEAN,
              kept : BOOLEAN, final : BOOLEAN]
    /\ m.start < m.end /\ (m.final => m.kept)
    /\ m.payoff # Never => m.start <= m.payoff /\ m.payoff <= m.end

ASSUME AnswersAssumption ==
  Answers \subseteq [from : Nat, to : Nat, context : BOOLEAN, story : BOOLEAN,
                     ends : BOOLEAN]

VARIABLES
  script,  \* the transcript
  due,     \* clips that are still to be repaired
  wanted,  \* the clips that are recommended
  entry    \* the last one repaired: the moment, T1's answer, and its bounds

repairVars == <<script, due, wanted, entry>>

NoScript == [words |-> <<>>, segments |-> <<>>, pauses |-> {}]
NoEntry ==
  [of |-> [start |-> 0, end |-> 1, payoff |-> Never, opening |-> FALSE,
           kept |-> FALSE, final |-> FALSE],
   answer |-> [from |-> 0, to |-> 0, context |-> FALSE, story |-> FALSE, ends |-> FALSE],
   from |-> 0, to |-> 0]

NoRepair == script = NoScript /\ due = 0 /\ wanted = 0 /\ entry = NoEntry
ForgetRepair == script' = NoScript /\ due' = 0 /\ wanted' = 0 /\ entry' = NoEntry
BeginRepair(n) == script' \in Scripts /\ due' = n /\ wanted' = n /\ UNCHANGED entry

-----------------------------------------------------------------------------
Earlier(m, n) == IF m < n THEN m ELSE n
Later(m, n) == IF m < n THEN n ELSE m

Segments == DOMAIN script.segments
SegStart(i) == script.segments[i].start
SegEnd(i) == script.segments[i].end
Words == DOMAIN script.words
WordStart(i) == script.words[i].start
WordEnd(i) == script.words[i].end

\* The offsets T1 recommends, if both lie in the clip and in order.
InClip(m, a) == a.from <= m.end - m.start
Asked(m, a) ==
  LET s == IF InClip(m, a) THEN m.start + a.from ELSE m.start
      e == IF 0 < a.to /\ a.to <= m.end - m.start THEN m.start + a.to ELSE m.end
  IN IF s < e THEN [start |-> s, end |-> e] ELSE [start |-> m.start, end |-> m.end]

PaysOff(m) == m.kept /\ m.payoff # Never
\* Segments that end before the clip, and not long before.
Before(m, reach) ==
  {i \in Segments : SegEnd(i) <= m.start /\ m.start - SegEnd(i) <= reach}

\* The last of those that tell of the outcome.
OutcomeStart(m) ==
  LET told == {i \in Before(m, OutcomeReach) : script.segments[i].outcome}
  IN IF PaysOff(m) /\ told # {} THEN Earlier(m.start, SegStart(Max(told))) ELSE m.start

Opened(m, s) == IF m.opening THEN Earlier(s, OutcomeStart(m)) ELSE s

\* A start T1 moved, although the setup is strong: its segment is whole.
AtPremise(m, a, s) ==
  LET here == {i \in Segments : SegStart(i) <= m.start /\ m.start < SegEnd(i)}
  IN IF s > m.start /\ a.context /\ here # {} THEN Earlier(s, SegStart(Min(here))) ELSE s

\* A story with a payoff and a setup: the setup just before it.
WithSetup(m, a, s) ==
  LET told == {i \in Before(m, Reach) : script.segments[i].setup}
      late == {i \in told : \A j \in told : SegStart(j) <= SegStart(i)}
  IN IF ~m.opening /\ s <= m.start /\ a.story /\ told # {}
       THEN Earlier(s, SegStart(Min(late))) ELSE s

\* The end of the payoff's segment.
PayoffEnd(m) ==
  LET at_ == {i \in Segments : SegStart(i) <= m.payoff /\ m.payoff <= SegEnd(i)}
  IN IF at_ = {} THEN m.payoff ELSE Later(m.payoff, SegEnd(Min(at_)))

Preserved(m, e) ==
  IF m.final \/ (m.kept /\ m.payoff = Never) THEN Later(e, m.end)
  ELSE IF m.kept THEN Later(e, PayoffEnd(m)) ELSE e

TailEnds(m) == PaysOff(m) /\ ~m.final
Capped(m, e) == TailEnds(m) /\ e > m.payoff + TailLimit

\* A variant that does not cap the tail.
Uncapped(m, e) == e
CappedEnd(m, e) == IF Capped(m, e) THEN m.payoff + TailLimit ELSE e

(***************************************************************************)
(* smart_boundaries: the words that are spoken, extended to both sides by  *)
(* words within reach, but not across the end of a sentence.               *)
(***************************************************************************)
Spoken(s, e) == {i \in Words : WordEnd(i) > s /\ WordStart(i) < e}
Completes(i) == script.words[i].closes

FirstWord(s, e, reach) ==
  Min({i \in Words :
         \E f \in Spoken(s, e) : i <= f /\ \A k \in i .. f - 1 :
           s - WordStart(k) <= reach /\ ~Completes(k)})

LastWord(s, e, reach) ==
  Max({i \in Words :
         \E f \in Spoken(s, e) : f <= i /\ (\A g \in Spoken(s, e) : g <= f) /\
           \A k \in f + 1 .. i : WordEnd(k) - e <= reach /\ ~Completes(k - 1)})

Smart(s, e, reach) ==
  IF Spoken(s, e) = {} THEN [start |-> s, end |-> e]
  ELSE [start |-> WordStart(FirstWord(s, e, reach)),
        end |-> WordEnd(LastWord(s, e, reach))]

\* refine_boundaries.
Refined(m, a) ==
  LET asked_ == Asked(m, a)
      s == WithSetup(m, a, AtPremise(m, a, Opened(m, asked_.start)))
      e == Preserved(m, asked_.end)
  IN Smart(s, CappedEnd(m, e),
           IF Capped(m, e) THEN Earlier(Reach, ShortReach) ELSE Reach)

(***************************************************************************)
(* _repair_to_segment_boundary: the first segment the clip ends in, if its *)
(* end is near, or within reach, to which the clip is extended.            *)
(***************************************************************************)
EndingIn(e) ==
  {i \in Segments : /\ SegStart(i) <= e /\ e <= SegEnd(i)
                    /\ SegEnd(i) - e <= NearEnd \/ (e < SegEnd(i) /\ SegEnd(i) - e <= Reach)}

AtSegmentEnd(e) ==
  IF EndingIn(e) = {} THEN e
  ELSE LET i == Min(EndingIn(e)) IN IF SegEnd(i) - e <= NearEnd THEN e ELSE SegEnd(i)

Near(x, y, reach) == x - y <= reach /\ y - x <= reach

\* assess: complete_ending, without which an entry is rejected.
CompleteEnding(s, e, a) ==
  LET text == {i \in Words : s <= WordStart(i) /\ WordStart(i) < AtSegmentEnd(e)} IN
  /\ text # {} /\ ~script.words[Max(text)].dangles
  /\ \/ Completes(Max(text)) \/ EndingIn(e) # {} \/ a.ends
     \/ \E p \in script.pauses : Near(p, AtSegmentEnd(e), PauseReach)
     \/ \E i \in Segments : Near(SegStart(i), AtSegmentEnd(e), TurnReach)

-----------------------------------------------------------------------------
StartRepair ==
  at = "repair" /\ pc = "start" /\ Goto("entry") /\ UNCHANGED repairVars

RepairEntry ==
  /\ at = "repair" /\ pc = "entry" /\ due > 0 /\ Goto("entry")
  /\ due' = due - 1
  /\ \E m \in Moments, a \in Answers : \E cut \in {Refined(m, a)} :
       /\ CompleteEnding(cut.start, cut.end, a)
       /\ entry' = [of |-> m, answer |-> a, from |-> cut.start,
                    to |-> AtSegmentEnd(cut.end)]
  /\ UNCHANGED <<script, wanted>>

EndRepair ==
  at = "repair" /\ pc = "entry" /\ due = 0 /\ Goto("done") /\ UNCHANGED repairVars

RepairNext == StartRepair \/ RepairEntry \/ EndRepair

-----------------------------------------------------------------------------
(***************************************************************************)
(* No bound is in the middle of a word.                                    *)
(***************************************************************************)
WordsWhole ==
  \A i \in Words, t \in {entry.from, entry.to} : ~(WordStart(i) < t /\ t < WordEnd(i))

(***************************************************************************)
(* An opening that is trusted is heard, from its first word.               *)
(***************************************************************************)
OpeningKept ==
  entry.of.opening =>
    \A i \in Words : WordEnd(i) > entry.of.start => entry.from <= WordStart(i)

(***************************************************************************)
(* So is the end that is trusted, to its last word: of the clip, or of the *)
(* segment with the payoff, as far as the tail's limit.                    *)
(***************************************************************************)
KeptEnd(m) ==
  IF TailEnds(m) THEN Earlier(PayoffEnd(m), m.payoff + TailLimit) ELSE m.end

EndKept ==
  entry.of.kept =>
    \A i \in Words : WordStart(i) < KeptEnd(entry.of) => WordEnd(i) <= entry.to

(***************************************************************************)
(* After its payoff a clip goes on for the tail's limit and what whole     *)
(* words and the end of a segment need, if no word is longer than that.    *)
(***************************************************************************)
TailLimited ==
  TailEnds(entry.of) /\ (\A i \in Words : WordEnd(i) - WordStart(i) <= Reach) =>
    entry.to <= entry.of.payoff + TailLimit + 2 * Reach

(***************************************************************************)
(* Wherever the judgment, the evidence and the words move a clip's bounds, *)
(* no word is cut, what is trusted is heard, and the tail is limited;      *)
(* unless T1's offset is beyond the one its schema allows, which           *)
(* validate_json_schema lets through.                                      *)
(***************************************************************************)
RepairSound ==
  entry.answer.from <= MostOffset =>
    WordsWhole /\ OpeningKept /\ EndKept /\ TailLimited
=============================================================================
