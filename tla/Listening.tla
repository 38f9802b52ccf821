-------------------------------- MODULE Listening -----------------------------
(***************************************************************************)
(* The two stages that listen to the audio: DiarizeStage.run, which embeds *)
(* the windows of speech and clusters them, and EventsStage.run, which     *)
(* finds audio events in a second extraction of the sound.                 *)
(*                                                                         *)
(* The detector of one type of event is modelled as the streaming program  *)
(* it is (panns_channel._StreamingPostprocessor): it sees the frames in    *)
(* pieces, smooths them by a median and opens and closes spans, and never  *)
(* has all of them at once.  A frame is above both thresholds, above the   *)
(* lower one, or below them.  Vectors and curves are left out.             *)
(***************************************************************************)
EXTENDS Attempt, SequencesExt

CONSTANTS
  MaxFrames,   \* bound: frames of audio
  PieceFrames, \* the most frames in a piece
  Radius,      \* frames on each side of the median's middle
  MergeGap,    \* MERGE_GAP_SEC, in frames
  ShortestSpan \* MIN_DURATION_SEC, in frames

ASSUME ListeningAssumption ==
  {MaxFrames, PieceFrames, Radius, MergeGap, ShortestSpan} \subseteq Nat

VARIABLES
  wav32,       \* audio32k.wav: none, torn or whole
  heard,       \* history: the frames the detector was given
  detector     \* the detector's state

listeningVars == <<wav32, heard, detector>>

Low == 0
Stay == 1
Enter == 2
Levels == {Low, Stay, Enter}

\* Half a window of silence stands before the first frame.
NoFrames ==
  [buffer |-> [i \in 1 .. Radius |-> Low], next |-> 0, inside |-> FALSE,
   start |-> 0, spans |-> <<>>]

NoListening == wav32 = "none" /\ heard = <<>> /\ detector = NoFrames
ForgetListening == wav32' = "none" /\ heard' = <<>> /\ detector' = NoFrames

-----------------------------------------------------------------------------
(***************************************************************************)
(* The speakers, if there are windows of speech.  The embeddings are       *)
(* written before they are clustered, and a later attempt uses them if     *)
(* they are as many as its windows.                                        *)
(***************************************************************************)
FindWindows ==
  /\ at = "diarize" /\ pc = "start" /\ \E p \in {"embed", "done"} : Goto(p)
  /\ UNCHANGED listeningVars

Embed == pc = "embed" /\ Goto("cluster") /\ UNCHANGED listeningVars
Cluster == pc = "cluster" /\ Goto("done") /\ UNCHANGED listeningVars

StopDiarize == Working("diarize") /\ Trouble("stopped") /\ UNCHANGED listeningVars
ResumeDiarize == Resumes("diarize") /\ UNCHANGED listeningVars

-----------------------------------------------------------------------------
(***************************************************************************)
(* The events.  The sound is extracted in place, used if it is there, and  *)
(* removed when all of it was heard.                                       *)
(***************************************************************************)
Extract ==
  /\ at = "events" /\ pc = "start" /\ Goto("hear")
  /\ wav32' = IF wav32 = "none" THEN "whole" ELSE wav32
  /\ heard' = <<>> /\ detector' = NoFrames

Width == 2 * Radius + 1
\* The middle one of the levels in order.
Median(s) ==
  CHOOSE p \in ToSet(s) :
    /\ 2 * Cardinality({i \in DOMAIN s : s[i] < p}) < Len(s)
    /\ 2 * Cardinality({i \in DOMAIN s : s[i] > p}) < Len(s)

\* One frame: the median of the window decides whether a span opens or closes.
Frame(d) ==
  LET p == Median(SubSeq(d.buffer, 1, Width))
      opens == ~d.inside /\ p >= Enter
      closes == d.inside /\ p < Stay
  IN [buffer |-> Tail(d.buffer), next |-> d.next + 1,
      inside |-> opens \/ (d.inside /\ ~closes),
      start |-> IF opens THEN d.next ELSE d.start,
      spans |-> IF closes THEN Append(d.spans, <<d.start, d.next>>) ELSE d.spans]

\* _consume_ready: as many frames as there are whole windows in the buffer.
Consume(d) ==
  FoldLeft(LAMBDA e, i : Frame(e), d,
           [i \in 1 .. (Len(d.buffer) - Width + 1) |-> i])

\* A variant that begins every piece with silence of its own.
TakeAnew(d, frames) == Consume([d EXCEPT !.buffer = NoFrames.buffer \o frames])
Take(d, frames) == Consume([d EXCEPT !.buffer = @ \o frames])

HearPiece ==
  /\ pc = "hear" /\ Goto("hear")
  /\ \E n \in 1 .. Least(PieceFrames, MaxFrames - Len(heard)) :
     \E piece \in [1 .. n -> Levels] :
       heard' = heard \o piece /\ detector' = Take(detector, piece)
  /\ UNCHANGED wav32

\* finish: silence behind the last frame, and an open span ends with it; then
\* close spans are merged and short ones dropped.
JoinClose(m, s) ==
  IF m # <<>> /\ s[1] - Last(m)[2] <= MergeGap
    THEN Append(Front(m), <<Last(m)[1], s[2]>>) ELSE Append(m, s)
MergeClose(spans) == FoldLeft(JoinClose, <<>>, spans)

KeepLong(m, s) == IF s[2] - s[1] >= ShortestSpan THEN Append(m, s) ELSE m
DropShort(spans) == FoldLeft(KeepLong, <<>>, spans)

Ended(d) ==
  LET e == Take(d, [i \in 1 .. Radius |-> Low])
  IN IF e.inside THEN Append(e.spans, <<e.start, e.next>>) ELSE e.spans

FinishHearing ==
  /\ pc = "hear" /\ Goto("fuse") /\ wav32' = "none"
  /\ detector' = [detector EXCEPT !.spans = DropShort(MergeClose(Ended(detector)))]
  /\ UNCHANGED heard

\* The events are fused, and curves.json is written in one piece.
Fuse ==
  /\ pc = "fuse" /\ Goto("done") /\ heard' = <<>> /\ detector' = NoFrames
  /\ UNCHANGED wav32

\* An error or a kill; the extraction may have been cut off.
StopEvents ==
  /\ Working("events") /\ Trouble("stopped")
  /\ wav32' \in IF pc = "start" /\ wav32 = "none" THEN {"none", "torn"} ELSE {wav32}
  /\ heard' = <<>> /\ detector' = NoFrames

ResumeEvents == Resumes("events") /\ UNCHANGED listeningVars

ListeningNext ==
  \/ FindWindows \/ Embed \/ Cluster \/ StopDiarize \/ ResumeDiarize
  \/ Extract \/ HearPiece \/ FinishHearing \/ Fuse \/ StopEvents \/ ResumeEvents

-----------------------------------------------------------------------------
(***************************************************************************)
(* What the detector finds in the pieces is what there is in the sound as  *)
(* a whole: the frames, smoothed with silence around them, that are above  *)
(* the lower threshold and were so ever since one above the upper one; the *)
(* short gaps between them closed; of the runs of these, the long ones.    *)
(***************************************************************************)
Smooth(i) ==
  Median([j \in 1 .. Width |->
            LET k == i + j - Radius - 1 IN IF k \in DOMAIN heard THEN heard[k] ELSE Low])
Event(i) == \E j \in 1 .. i : Smooth(j) >= Enter /\ \A k \in j .. i : Smooth(k) >= Stay
Covered(i) ==
  \E a, b \in DOMAIN heard :
    a <= i /\ i <= b /\ Event(a) /\ Event(b)
      /\ (a = b \/ \A k \in (a + 1) .. (b - 1) : ~Event(k)) /\ b - a - 1 <= MergeGap
WholeSpans ==
  LET covered == {i \in 0 .. Len(heard) + 1 : Covered(i)} IN
  {s \in (0 .. Len(heard)) \X (0 .. Len(heard)) :
     /\ s[2] - s[1] >= ShortestSpan /\ s[1] < s[2]
     /\ \A i \in (s[1] + 1) .. s[2] : i \in covered
     /\ s[1] \notin covered /\ s[2] + 1 \notin covered}

PiecesDoNotMatter ==
  at = "events" /\ pc = "fuse" => ToSet(detector.spans) = WholeSpans
=============================================================================
