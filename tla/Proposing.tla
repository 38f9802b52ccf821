------------------------------- MODULE Proposing ------------------------------
(***************************************************************************)
(* The spans CandidatesStage proposes (build_sentence_units and synthesize *)
(* of story_units): sentences are grouped into topics, anchors are chosen  *)
(* among them, and of every anchor spans are proposed that start up to     *)
(* half a minute before it and end with a complete sentence.  The stage    *)
(* passes no boundary_proposer, so the model is asked for none.            *)
(*                                                                         *)
(* Times are seconds, what confidence and strength measure is in           *)
(* hundredths; how they are computed from the words is left open.          *)
(***************************************************************************)
EXTENDS Attempt, FiniteSetsExt, SequencesExt

CONSTANTS
  Sources,      \* what may have been said: sequences of sentences
  AnchorLimit,  \* ANCHOR_LIMIT
  ShortSource,  \* up to so many sentences every one may start a topic
  TopicUnits,   \* MIN_TOPIC_UNITS
  PayoffEnds, CompleteEnds \* how many of the first and the last ends are tried

ASSUME LimitsAssumption ==
  /\ {AnchorLimit, TopicUnits, PayoffEnds, CompleteEnds} \subseteq Nat \ {0}
  /\ ShortSource \in Nat

Payings == {"none", "answer", "reaction", "itself", "outcome"}

\* Segments come in the order of their starts, those without a length are left out.
ASSUME SourcesAssumption ==
  \A s \in Sources :
    /\ s \in Seq([start : Nat, end : Nat, shift : Nat, strength : Nat, words : Nat,
                  pays : Payings, asks : BOOLEAN, tells : BOOLEAN, whole : BOOLEAN,
                  reacts : BOOLEAN])
    /\ \A i \in DOMAIN s : s[i].start < s[i].end
    /\ \A i, j \in DOMAIN s : i < j => s[i].start < s[j].start

VARIABLES
  units,   \* the sentences
  topic,   \* topic_id: the sentence with which the topic of each begins
  anchors, \* selected
  rest,    \* the sentences the present loop has still to look at
  raw      \* the spans proposed

proposingVars == <<units, topic, anchors, rest, raw>>

NoProposals == units = <<>> /\ topic = <<>> /\ anchors = {} /\ rest = {} /\ raw = {}
ForgetProposals ==
  units' = <<>> /\ topic' = <<>> /\ anchors' = {} /\ rest' = {} /\ raw' = {}

Units == DOMAIN units
Start(i) == units[i].start
Strength(i) == units[i].strength
Outcome(i) == units[i].pays = "outcome"
Distance(i, j) == IF i < j THEN Start(j) - Start(i) ELSE Start(i) - Start(j)
Stronger(i, j) ==
  Strength(i) > Strength(j) \/ (Strength(i) = Strength(j) /\ Start(i) > Start(j))
\* The nth of S, from 1.
Nth(S, n) == CHOOSE i \in S : Cardinality({j \in S : j < i}) = n - 1

-----------------------------------------------------------------------------
(***************************************************************************)
(* A topic begins where the words change, but not too soon after another.  *)
(***************************************************************************)
TopicsOf(s) ==
  LET least == IF Len(s) <= ShortSource THEN 1 ELSE TopicUnits
      begins[i \in DOMAIN s] ==
        IF i = 1 \/ (s[i].shift >= 62 /\ i - begins[i - 1] >= least) THEN i
        ELSE begins[i - 1]
  IN begins

\* topic_best: the strongest sentence of each topic, of equals the first.
Best ==
  {i \in Units : \A j \in Units : topic[i] = topic[j] =>
     Strength(j) < Strength(i) \/ (Strength(j) = Strength(i) /\ i <= j)}

\* minimum_anchor_gap: the median distance of the best of adjacent topics.
Gap ==
  LET n == Cardinality(Best) - 1
      gap[k \in 1 .. n] == Distance(Nth(Best, k), Nth(Best, k + 1))
      median == CHOOSE g \in {gap[k] : k \in 1 .. n} :
                  /\ Cardinality({k \in 1 .. n : gap[k] < g}) <= n \div 2
                  /\ n \div 2 < Cardinality({k \in 1 .. n : gap[k] <= g})
      most == Max({units[i].end : i \in Units})
  IN Least(15, IF n > 0 THEN median
               ELSE (most - Start(1)) \div Max({1, AnchorLimit - 1}))

\* Every topic when it fits, or topics from all over the source.
Seeds ==
  IF Cardinality(Best) <= AnchorLimit THEN Best
  ELSE {Nth(Best, 1 + (slot * (Cardinality(Best) - 1)) \div Max({1, AnchorLimit - 1})) :
          slot \in 0 .. AnchorLimit - 1}

StartProposing ==
  /\ at = "candidates" /\ pc = "start"
  /\ units' \in Sources /\ topic' = TopicsOf(units')
  /\ Goto("seed") /\ UNCHANGED <<anchors, rest, raw>>

SeedAnchors ==
  /\ at = "candidates" /\ pc = "seed" /\ Goto("best")
  /\ anchors' = Seeds /\ rest' = Best
  /\ UNCHANGED <<units, topic, raw>>

-----------------------------------------------------------------------------
(***************************************************************************)
(* The strongest sentences become anchors too, if they are not near one:   *)
(* while there is room, and then in the place of the weakest.              *)
(***************************************************************************)
Strong(i) == Outcome(i) \/ units[i].shift >= 75
Room(i) == IF Strong(i) THEN 8 ELSE Gap
Apart(i, distance) == \A a \in anchors : a # i /\ Distance(a, i) >= distance

WeakestAnchor == CHOOSE a \in anchors : \A b \in anchors \ {a} : Stronger(b, a)

Replaces(i, old) ==
  \/ Outcome(i) /\ ~Outcome(old)
  \/ Strength(i) > Strength(old) + (IF Strong(i) THEN 8 ELSE 15)

AddAnchor(i) ==
  IF Cardinality(anchors) < AnchorLimit THEN anchors \cup {i}
  ELSE IF Replaces(i, WeakestAnchor) THEN (anchors \ {WeakestAnchor}) \cup {i}
  ELSE anchors

Strongest == CHOOSE i \in rest : \A j \in rest \ {i} : Stronger(i, j)

\* First the best of the topics, then all.
Consider ==
  /\ at = "candidates" /\ pc \in {"best", "anchors"} /\ rest # {} /\ Goto(pc)
  /\ rest' = rest \ {Strongest}
  /\ anchors' = IF Apart(Strongest, Room(Strongest)) THEN AddAnchor(Strongest) ELSE anchors
  /\ UNCHANGED <<units, topic, raw>>

EndBest ==
  /\ at = "candidates" /\ pc = "best" /\ rest = {} /\ Goto("anchors")
  /\ rest' = Units /\ UNCHANGED <<units, topic, anchors, raw>>

EndConsider ==
  /\ at = "candidates" /\ pc = "anchors" /\ rest = {} /\ Goto("fill")
  /\ rest' = IF Cardinality(anchors) < AnchorLimit THEN Units ELSE {}
  /\ UNCHANGED <<units, topic, anchors, raw>>

Fill ==
  /\ at = "candidates" /\ pc = "fill" /\ rest # {} /\ Goto("fill")
  /\ anchors' = IF Cardinality(anchors) < AnchorLimit /\ Apart(Strongest, Gap)
                  THEN anchors \cup {Strongest} ELSE anchors
  /\ rest' = rest \ {Strongest}
  /\ UNCHANGED <<units, topic, raw>>

EndFill ==
  /\ at = "candidates" /\ pc = "fill" /\ rest = {} /\ Goto("propose")
  /\ rest' = anchors /\ UNCHANGED <<units, topic, anchors, raw>>

-----------------------------------------------------------------------------
(***************************************************************************)
(* A sentence pays off by itself, or because one of the two before it in   *)
(* the span asks, or tells of something to react to.                       *)
(***************************************************************************)
Evident(i, first) ==
  LET before == {j \in first .. i - 1 : j >= i - 2} IN
  \/ units[i].pays \in {"itself", "outcome"}
  \/ units[i].pays = "answer" /\ \E j \in before : units[j].asks
  \/ units[i].pays = "reaction" /\ \E j \in before : units[j].tells

\* The complete sentences near the anchor a that do not end before it.
\* A variant that takes all of them.
AnyEnds(a) ==
  {i \in Units : /\ units[i].whole /\ Start(a) <= Start(i) + 45
                 /\ Start(i) <= Start(a) + 75}
Ends(a) ==
  {i \in Units : /\ units[i].whole /\ Start(a) <= Start(i) + 45
                 /\ Start(i) <= Start(a) + 75 /\ units[i].end >= Start(a)}

PaidEnds(a) == {i \in Ends(a) : Evident(i, i)}
\* The first n of S, and the last n.
Outer(S, n) ==
  {i \in S : Cardinality({j \in S : j < i}) < n \/ Cardinality({j \in S : i < j}) < n}
TriedEnds(a) ==
  Outer(PaidEnds(a), PayoffEnds) \cup Outer(Ends(a), CompleteEnds)
    \cup {i \in Ends(a) : units[i].reacts}

\* An outcome just before the anchor belongs to its story.
EarlierOutcomes(a) == {i \in 1 .. a - 1 : Outcome(i) /\ Start(a) - Start(i) <= 15}
InContext(a) == PaidEnds(a) # {} /\ \E i \in EarlierOutcomes(a) : a - i <= 6

\* _candidate_start_indices, and the anchor.
Setups(a) ==
  {i \in 1 .. a - 1 :
     /\ Start(a) - Start(i) <= 35
     /\ \/ a - i <= (IF InContext(a) THEN 6 ELSE 3)
        \/ units[i].shift >= 62 \/ units[i].asks \/ units[i].tells}
Openings(a) ==
  {a} \cup Setups(a) \cup IF InContext(a) THEN {Max(EarlierOutcomes(a))} ELSE {}

\* The payoff is the last evident one (0: there is none).
PayoffIn(first, last) == Max({i \in first .. last : Evident(i, first)} \cup {0})

\* _story_candidate.
Fits(first, last) ==
  LET duration == units[last].end - Start(first) IN
  /\ first <= last /\ 8 <= duration /\ duration <= 75
  /\ MapThenSumSet(LAMBDA i : units[i].words, first .. last) >= 8

Story(a, first, last) ==
  [anchor |-> a, first |-> first, last |-> last, payoff |-> PayoffIn(first, last),
   final |-> units[last].end >= units[Len(units)].end]

Propose ==
  /\ at = "candidates" /\ pc = "propose" /\ rest # {} /\ Goto("propose")
  /\ LET a == Min(rest) IN
       /\ raw' = raw \cup {Story(a, p[1], p[2]) :
                          p \in {q \in Openings(a) \X TriedEnds(a) : Fits(q[1], q[2])}}
       /\ rest' = rest \ {a}
  /\ UNCHANGED <<units, topic, anchors>>

EndProposing ==
  /\ at = "candidates" /\ pc = "propose" /\ rest = {} /\ Goto("eligible")
  /\ UNCHANGED proposingVars

ProposingNext ==
  \/ StartProposing \/ SeedAnchors \/ Consider \/ EndBest \/ EndConsider
  \/ Fill \/ EndFill \/ Propose \/ EndProposing

-----------------------------------------------------------------------------
(***************************************************************************)
(* There are no more anchors than the limit, and of two that are nearer    *)
(* than the least distance asked for, both are the best of their topics.   *)
(***************************************************************************)
AnchorsSpread ==
  /\ Cardinality(anchors) <= AnchorLimit
  /\ \A a, b \in anchors :
       a # b /\ Distance(a, b) < Least(8, Gap) => {a, b} \subseteq Seeds

(***************************************************************************)
(* Every span proposed has a legal length, ends with a complete sentence,  *)
(* and reaches from before its anchor to it: peak_time lies in the span,   *)
(* and so does the payoff, with whatever makes it one.                     *)
(***************************************************************************)
SpansReachAnchors ==
  \A c \in raw :
    /\ c.first <= c.anchor /\ c.anchor \in anchors
    /\ Start(c.anchor) <= units[c.last].end /\ units[c.last].whole
    /\ 8 <= units[c.last].end - Start(c.first)
    /\ units[c.last].end - Start(c.first) <= 75
    /\ c.payoff # 0 => c.payoff \in c.first .. c.last /\ Evident(c.payoff, c.first)
=============================================================================
