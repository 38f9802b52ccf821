------------------------------- MODULE Shortlist ------------------------------
(***************************************************************************)
(* CandidatesStage.run: of the spans that are proposed (Proposing), the    *)
(* shortlist that is scored (cheap_filter_and_dedupe).  Eligible spans come in the   *)
(* order of their quality; each is kept, dropped, or put in the place of   *)
(* one kept before it.  The best ones kept make the shortlist, in which    *)
(* six passes then exchange entries one for one, each for a reason of its  *)
(* own: an earlier opening, a later payoff, a longer span, a minute of the *)
(* source without a clip, the source's end, an explicit payoff.            *)
(*                                                                         *)
(* What the passes compare of two spans, their times, topics, anchors and  *)
(* words, is left open; what kind of payoff a span has is not, for the     *)
(* passes treat the kinds differently.  A span is its place in the order   *)
(* of quality.                                                             *)
(***************************************************************************)
EXTENDS Proposing

CONSTANTS
  MaxSpans,       \* bound: eligible spans
  ShortlistLimit  \* SHORTLIST_LIMIT

ASSUME ShortlistAssumption ==
  MaxSpans \in Nat \ {0} /\ ShortlistLimit \in Nat /\ ShortlistLimit > 2

VARIABLES
  spans,     \* the kind of payoff of every eligible span
  ahead,     \* the spans the present pass has still to look at
  kept,      \* the spans kept, in their order
  list,      \* the shortlist
  ids,       \* selected_ids
  guarded,   \* protected_ids
  rejected,  \* the spans the audit lists as rejected
  recovered, \* recovered_payoffs
  doubled    \* history: a span on the list was put on it again

choice == <<list, ids, guarded, rejected>>
passVars == <<spans, ahead, kept, choice, recovered, doubled>>
shortlistVars == <<passVars, proposingVars>>

\* closing: an explicit payoff in a span that reaches the end of the source.
Kinds == {"plain", "payoff", "explicit", "closing"}
HasPayoff(c) == spans[c] # "plain"
Explicit(c) == spans[c] \in {"explicit", "closing"}
Closing(c) == spans[c] = "closing"
All == DOMAIN spans
Listed == ToSet(list)

NoShortlist ==
  /\ NoProposals
  /\ spans = <<>> /\ ahead = {} /\ kept = <<>> /\ list = <<>> /\ ids = {}
  /\ guarded = {} /\ rejected = {} /\ recovered = 0 /\ doubled = FALSE

ForgetShortlist ==
  /\ ForgetProposals
  /\ spans' = <<>> /\ ahead' = {} /\ kept' = <<>> /\ list' = <<>> /\ ids' = {}
  /\ guarded' = {} /\ rejected' = {} /\ recovered' = 0 /\ doubled' = FALSE

\* A pass is over, the next one looks at the spans of s.
Pass(p, s) == Goto(p) /\ ahead' = s

\* What kind of payoff a span proposed has.
KindOf(c) ==
  IF c.payoff = 0 THEN "plain"
  ELSE IF ~Outcome(c.payoff) THEN "payoff"
  ELSE IF c.final THEN "closing" ELSE "explicit"

\* Some of the spans proposed are eligible.
Beginning ==
  /\ at = "candidates" /\ pc = "eligible"
  /\ \E n \in 0 .. Least(MaxSpans, Cardinality(raw)) :
       \E k \in [1 .. n -> {KindOf(c) : c \in raw}] :
         spans' = k /\ Pass("filter", 1 .. n)
  /\ ForgetProposals /\ UNCHANGED <<kept, choice, recovered, doubled>>

-----------------------------------------------------------------------------
(***************************************************************************)
(* The first pass: the next span is one more, or it is a duplicate of one  *)
(* kept, overlaps it, is near it, or starts in a minute that has enough.   *)
(* Then it is dropped, or takes the place of that one.                     *)
(***************************************************************************)
Span == Min(ahead)

KeepSpan == kept' = Append(kept, Span) /\ UNCHANGED rejected
Drop == kept # <<>> /\ rejected' = rejected \cup {Span} /\ UNCHANGED kept
TakePlace ==
  \E i \in DOMAIN kept :
    kept' = [kept EXCEPT ![i] = Span] /\ rejected' = rejected \cup {kept[i]}

\* The same story; it may open earlier or pay off later than the one kept.
Duplicate == Drop \/ (HasPayoff(Span) /\ TakePlace)
\* A similar story at much the same time, and again one that starts nearby.
Overlap == Drop \/ (HasPayoff(Span) /\ TakePlace)
Neighbour == Drop \/ (Explicit(Span) /\ TakePlace)
\* Enough spans start in this minute; a new topic may take a place anyhow.
FullMinute == Drop \/ TakePlace

Filter ==
  /\ pc = "filter" /\ ahead # {}
  /\ KeepSpan \/ Duplicate \/ Overlap \/ Neighbour \/ FullMinute
  /\ Pass("filter", ahead \ {Span})
  /\ UNCHANGED <<spans, list, ids, guarded, recovered, doubled>>

Cut ==
  /\ pc = "filter" /\ ahead = {}
  /\ list' = SubSeq(kept, 1, Least(ShortlistLimit, Len(kept)))
  /\ ids' = ToSet(list') /\ Pass("lead", {})
  /\ UNCHANGED <<spans, kept, guarded, rejected, recovered, doubled>>

-----------------------------------------------------------------------------
(***************************************************************************)
(* The exchanges.  The list gets the span at the place of the entry that   *)
(* gives way (list.index finds the first such place), selected_ids its id  *)
(* for that of the entry.  To remove an id that is not there is an error:  *)
(* the stage fails, and again whenever the job is resumed.                 *)
(***************************************************************************)
PlaceOf(old) == Min({i \in DOMAIN list : list[i] = old})

\* A variant that forgets to add the one put in.
ExchangeHalf(i, new) ==
  /\ list' = [list EXCEPT ![i] = new] /\ ids' = ids \ {list[i]}
Exchange(i, new) ==
  /\ list' = [list EXCEPT ![i] = new]
  /\ ids' = (ids \ {list[i]}) \cup {new}

Then(old, p) == Goto(IF old \in ids THEN p ELSE "stopped")
Record(old, new) == rejected' = (rejected \ {new}) \cup {old}
\* The protection of an entry goes over to what takes its place.
Guard(old, new) ==
  guarded' = IF old \in guarded THEN (guarded \ {old}) \cup {new} ELSE guarded

Weakest(s) == Max(s)
Open(s) == s \ guarded
Plainer(s) == {c \in s : ~Explicit(c)}
CutOff == ToSet(SubSeq(kept, ShortlistLimit + 1, Len(kept)))

(***************************************************************************)
(* A span that was cut off and starts before all entries takes the place   *)
(* of the weakest, and is protected from here on.                          *)
(***************************************************************************)
Lead ==
  /\ pc = "lead" /\ Pass("boundary", {c \in CutOff : HasPayoff(c)})
  /\ \/ UNCHANGED <<list, ids, guarded>>
     \/ \E c \in CutOff :
          Exchange(PlaceOf(Weakest(Listed)), c) /\ guarded' = {c}
  /\ UNCHANGED <<spans, kept, rejected, recovered, doubled>>

(***************************************************************************)
(* A span that was cut off continues an entry, and pays off later.         *)
(***************************************************************************)
Boundary ==
  /\ pc = "boundary"
  /\ \E c \in ahead : \E other \in Listed \ {c} :
       /\ ahead' = ahead \ {c}
       /\ Then(other, "boundary") /\ Exchange(PlaceOf(other), c)
       /\ Record(other, c) /\ doubled' = (doubled \/ c \in Listed)
  /\ UNCHANGED <<spans, kept, guarded, recovered>>

BoundaryOver ==
  /\ pc = "boundary"
  /\ Pass("variants", IF Len(list) >= ShortlistLimit THEN DOMAIN list ELSE {})
  /\ UNCHANGED <<spans, kept, choice, recovered, doubled>>

(***************************************************************************)
(* For each place, a longer span with the same anchor and payoff; an entry *)
(* that closes the source gives way to one that reaches its end too.       *)
(***************************************************************************)
Longer(old) ==
  {v \in ToSet(kept) \ ids :
     HasPayoff(v) /\ (Closing(old) => spans[v] # "explicit")}

Variants ==
  /\ pc = "variants"
  /\ \E i \in ahead : \E v \in Longer(list[i]) :
       /\ ahead' = {j \in ahead : j > i}
       /\ Then(list[i], "variants") /\ Exchange(i, v)
       /\ Record(list[i], v) /\ Guard(list[i], v)
  /\ UNCHANGED <<spans, kept, recovered, doubled>>

VariantsOver ==
  /\ pc = "variants"
  /\ Pass("minutes", IF Len(list) >= ShortlistLimit THEN ToSet(kept) ELSE {})
  /\ UNCHANGED <<spans, kept, choice, recovered, doubled>>

(***************************************************************************)
(* The best span of a minute without an entry, for one without an explicit *)
(* payoff; failing these, one that pays off explicitly after all entries,  *)
(* for any that is not protected.  The audit is not told.                  *)
(***************************************************************************)
Minutes ==
  /\ pc = "minutes"
  /\ \E v \in ahead \ ids :
       /\ ahead' = ahead \ {v}
       /\ LET weak == Plainer(Open(Listed)) IN
            \/ \E old \in weak : Then(old, "minutes") /\ Exchange(PlaceOf(old), v)
            \/ /\ weak = {} /\ Explicit(v)
               /\ IF Open(Listed) = {} THEN Goto("stopped") /\ UNCHANGED <<list, ids>>
                  ELSE LET old == Weakest(Open(Listed)) IN
                         Then(old, "minutes") /\ Exchange(PlaceOf(old), v)
  /\ UNCHANGED <<spans, kept, guarded, rejected, recovered, doubled>>

MinutesOver ==
  /\ pc = "minutes" /\ Pass("closing", {c \in All : Closing(c)})
  /\ UNCHANGED <<spans, kept, choice, recovered, doubled>>

-----------------------------------------------------------------------------
(***************************************************************************)
(* The last passes look at all eligible spans, also at those dropped.      *)
(* First the longest that closes the source, if no entry does.             *)
(***************************************************************************)
Closes == \E e \in Listed : Closing(e)

EndOfSource ==
  /\ pc = "closing"
  /\ ahead' = {c \in All : Explicit(c)} /\ UNCHANGED at
  /\ IF ahead = {} \/ Closes \/ Open(Listed) = {}
       THEN Goto("payoffs") /\ UNCHANGED choice
       ELSE \E c \in ahead :
              LET old == Weakest(Open(Listed)) IN
              IF c \in ids THEN Goto("payoffs") /\ UNCHANGED choice
              ELSE /\ Then(old, "payoffs") /\ Exchange(PlaceOf(old), c)
                   /\ Record(old, c) /\ UNCHANGED guarded
  /\ UNCHANGED <<spans, kept, recovered, doubled>>

(***************************************************************************)
(* Then the best span of each explicit payoff: for the entry with the same *)
(* payoff if it is better placed, or else, a few times, for an entry       *)
(* without an explicit payoff.                                             *)
(***************************************************************************)
MostRecovered == Max({1, Least(8, Len(list) \div 3)})
\* A variant that compares the openings before the ends.
BetterOpening(v, e) == TRUE
Better(v, e) == Closing(e) => Closing(v)

Payoffs ==
  /\ pc = "payoffs"
  /\ \E v \in ahead \ ids :
       /\ ahead' = ahead \ {v} /\ recovered' = recovered + 1
       /\ \/ \E e \in {e \in Listed : Explicit(e)} :
               /\ e # v /\ Better(v, e)
               /\ Then(e, "payoffs") /\ Exchange(PlaceOf(e), v)
               /\ Record(e, v) /\ Guard(e, v)
          \/ /\ recovered < MostRecovered /\ Plainer(Open(Listed)) # {}
             /\ LET old == Weakest(Plainer(Open(Listed))) IN
                  /\ Then(old, "payoffs") /\ Exchange(PlaceOf(old), v)
                  /\ Record(old, v) /\ UNCHANGED guarded
  /\ UNCHANGED <<spans, kept, doubled>>

\* What was kept and is not selected is past the limit.
Finish ==
  /\ pc = "payoffs" /\ Goto("done")
  /\ rejected' = rejected \cup (ToSet(kept) \ ids)
  /\ ahead' = {} /\ guarded' = {} /\ recovered' = 0
  /\ UNCHANGED <<spans, kept, list, ids, doubled>>

Passes ==
  \/ Filter \/ Cut \/ Lead \/ Boundary \/ BoundaryOver
  \/ Variants \/ VariantsOver \/ Minutes \/ MinutesOver
  \/ EndOfSource \/ Payoffs \/ Finish

ShortlistNext ==
  \/ ProposingNext /\ UNCHANGED passVars
  \/ Beginning
  \/ Passes /\ UNCHANGED proposingVars

-----------------------------------------------------------------------------
(***************************************************************************)
(* No span is on the shortlist twice, selected_ids names exactly what is   *)
(* on it, and so no exchange fails; with one exception: the leading span   *)
(* is one of those cut off, and the pass after it may choose it again.     *)
(***************************************************************************)
NoSecondPlace ==
  at = "candidates" /\ ~doubled =>
    IsInjective(list) /\ ids = Listed /\ pc # "stopped"

(***************************************************************************)
(* If a span closes the source with an explicit payoff, the shortlist has  *)
(* one that does, whatever the other passes exchanged.                     *)
(***************************************************************************)
SourceEndKept ==
  at = "candidates" /\ pc = "done" /\ (\E c \in All : Closing(c)) => Closes

(***************************************************************************)
(* The list has the length it was cut to, and every eligible span that is  *)
(* not on it is rejected in the audit.                                     *)
(***************************************************************************)
DiscardsExplained ==
  at = "candidates" /\ pc = "done" =>
    /\ Len(list) = Least(ShortlistLimit, Len(kept))
    /\ All \ Listed \subseteq rejected
=============================================================================
