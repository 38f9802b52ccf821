------------------------------- MODULE MCStages -------------------------------
(***************************************************************************)
(* A small instance of the stages.                                         *)
(***************************************************************************)
EXTENDS Stages

(***************************************************************************)
(* What is proposed from, in seconds: nine sentences on four topics, three *)
(* short ones on two, and nothing at all.                                  *)
(***************************************************************************)
Sentence(a, b, shift, strength, pays, marks) ==
  [start |-> a, end |-> b, shift |-> shift, strength |-> strength, words |-> 6,
   pays |-> pays, asks |-> "asks" \in marks, tells |-> "tells" \in marks,
   whole |-> "open" \notin marks, reacts |-> "reacts" \in marks]

MCSources ==
  {<<Sentence(0, 10, 0, 40, "none", {"asks"}), Sentence(10, 18, 10, 60, "answer", {}),
     Sentence(20, 30, 70, 90, "itself", {"tells"}), Sentence(30, 42, 0, 30, "none", {"open"}),
     Sentence(42, 50, 80, 110, "outcome", {"reacts"}), Sentence(52, 60, 20, 20, "none", {}),
     Sentence(62, 70, 75, 99, "none", {"tells"}), Sentence(70, 78, 5, 105, "reaction", {"reacts"}),
     Sentence(80, 90, 10, 125, "outcome", {})>>,
   <<Sentence(0, 4, 0, 50, "none", {"asks"}), Sentence(5, 10, 70, 70, "answer", {}),
     Sentence(11, 20, 10, 60, "outcome", {})>>,
   <<>>}

(***************************************************************************)
(* What is edited, in hundredths of a second: with three pauses, the       *)
(* second after a sentence, and a word too short to be kept at the start   *)
(* of the clip; and with a laugh in a pause and words on both sides of the *)
(* clip's bounds.                                                          *)
(***************************************************************************)
Word(a, b, closes) == [start |-> a, end |-> b, closing |-> closes]

MCTalks ==
  {[words |-> <<Word(100, 120, FALSE), Word(190, 230, TRUE), Word(300, 325, FALSE),
                Word(400, 440, FALSE)>>,
    reactions |-> {}],
   [words |-> <<Word(40, 70, FALSE), Word(160, 190, FALSE), Word(420, 448, TRUE)>>,
    reactions |-> {<<150, 170>>}]}

\* The second scoring moves the clip.
MCCuttings == <<<<100, 450>>, <<60, 390>>>>

(***************************************************************************)
(* What is repaired, in units of 1.5 s: four segments, the first telling   *)
(* of a setup and an outcome, the third without punctuation, and after the *)
(* last word of the second one that cannot end a sentence.                 *)
(***************************************************************************)
Said(a, b, closes, dangles) ==
  [start |-> a, end |-> b, closes |-> closes, dangles |-> dangles]
Segment(a, b, tells) == [start |-> a, end |-> b, setup |-> tells, outcome |-> tells]

MCScripts ==
  {[words |-> <<Said(1, 2, FALSE, FALSE), Said(3, 4, TRUE, FALSE),
                Said(5, 7, FALSE, FALSE), Said(8, 9, FALSE, TRUE),
                Said(10, 12, FALSE, FALSE), Said(13, 14, FALSE, FALSE),
                Said(15, 16, FALSE, FALSE), Said(17, 19, FALSE, FALSE),
                Said(20, 21, TRUE, FALSE), Said(23, 24, TRUE, FALSE)>>,
    segments |-> <<Segment(1, 4, TRUE), Segment(5, 9, FALSE), Segment(10, 14, FALSE),
                   Segment(15, 24, FALSE)>>,
    pauses |-> {4}]}

Moment(s, e, p, opening, keep, final) ==
  [start |-> s, end |-> e, payoff |-> p, opening |-> opening, kept |-> keep,
   final |-> final]

MCMoments ==
  {Moment(6, 13, Never, FALSE, FALSE, FALSE), Moment(6, 18, 11, TRUE, TRUE, FALSE),
   Moment(5, 24, 6, FALSE, TRUE, FALSE), Moment(10, 24, 23, TRUE, TRUE, TRUE)}

Answer(from, to, yes) ==
  [from |-> from, to |-> to, context |-> yes, story |-> yes, ends |-> yes]

\* The fourth is beyond what the schema allows.
MCAnswers ==
  {Answer(0, 0, FALSE), Answer(0, 6, TRUE), Answer(5, 13, TRUE), Answer(12, 0, FALSE)}
===============================================================================
