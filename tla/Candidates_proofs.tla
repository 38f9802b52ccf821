--------------------------- MODULE Candidates_proofs ---------------------------
(***************************************************************************)
(* Proofs about the candidates (Proposing, Shortlist), for every value of  *)
(* their constants: what the steps of the stage keep true.                 *)
(***************************************************************************)
EXTENDS Shortlist, Clips_proofs, SequenceTheorems

-----------------------------------------------------------------------------
(***************************************************************************)
(* What the passes keep true of the shortlist.                             *)
(***************************************************************************)
ProposingPlaces == {"start", "seed", "best", "anchors", "fill", "propose", "eligible"}
PassPlaces ==
  {"filter", "lead", "boundary", "variants", "minutes", "closing", "payoffs",
   "stopped", "done"}

\* Before the passes begin nothing is kept or selected.
Untouched ==
  /\ spans = <<>> /\ ahead = {} /\ kept = <<>> /\ list = <<>> /\ ids = {}
  /\ guarded = {} /\ doubled = FALSE

Numbered ==
  /\ spans \in Seq(Kinds) /\ kept \in Seq(All) /\ list \in Seq(All)
  /\ guarded \subseteq All /\ ids \subseteq Listed

\* Every span is to be looked at, or kept, or on the list, or rejected.
Accounted ==
  \A c \in All : \/ c \in ToSet(kept) \/ c \in Listed \/ c \in rejected
                 \/ pc = "filter" /\ c \in ahead

\* No span is kept twice; the first one is kept.
KeptOnce ==
  /\ IsInjective(kept)
  /\ pc = "filter" =>
       /\ list = <<>> /\ ids = {} /\ guarded = {} /\ ~doubled
       /\ ToSet(kept) \cap ahead = {} /\ (kept = <<>> => ahead = All)
  /\ pc # "filter" /\ kept = <<>> => All = {}

(***************************************************************************)
(* The list is as long as it was cut to; selected_ids has an id for every  *)
(* place, one less when a span was put on it again.  Only a list that is   *)
(* full has a protected entry, and one at most.                            *)
(***************************************************************************)
Selected ==
  pc # "filter" =>
    /\ Len(list) = Least(ShortlistLimit, Len(kept))
    /\ Cardinality(ids) >= Len(list) - (IF doubled THEN 1 ELSE 0)
    /\ ~doubled => IsInjective(list) /\ Listed \subseteq ids
    /\ \A c, d \in guarded : c = d
    /\ guarded # {} \/ doubled => Len(list) = ShortlistLimit
    /\ pc = "stopped" => doubled

\* What a pass has still to look at.
Looking ==
  /\ pc \notin {"variants", "stopped"} => ahead \subseteq All
  /\ pc = "variants" => ahead \subseteq DOMAIN list
  /\ pc \in {"boundary", "minutes"} => ahead \subseteq ToSet(kept)
  /\ pc \in {"boundary", "variants", "minutes"} /\ ahead # {} => Len(list) = ShortlistLimit
  /\ pc = "closing" => ahead = {c \in All : Closing(c)}

(***************************************************************************)
(* The passes up to the minutes choose among what is kept.  The second may *)
(* choose a span that is on the list, but only the one the first put there.*)
(* The last keep the source's end, and the audit is complete.              *)
(***************************************************************************)
Chosen ==
  /\ pc = "lead" =>
       /\ list = SubSeq(kept, 1, Least(ShortlistLimit, Len(kept)))
       /\ guarded = {} /\ ~doubled
  /\ pc = "boundary" =>
       ahead \cap Listed \subseteq guarded /\ (doubled => ahead \cap Listed = {})
  /\ pc \in {"lead", "boundary", "variants", "minutes"} => Listed \subseteq ToSet(kept)
  /\ pc \in {"payoffs", "done"} /\ (\E c \in All : Closing(c)) => Closes
  /\ pc = "done" => All \ Listed \subseteq rejected

Passing ==
  /\ at = "candidates" /\ pc \in PassPlaces /\ doubled \in BOOLEAN
  /\ Numbered /\ Accounted /\ KeptOnce /\ Selected /\ Looking /\ Chosen
PassesInv ==
  \/ Passing
  \/ (at = "candidates" => pc \in ProposingPlaces) /\ Untouched

-----------------------------------------------------------------------------
(***************************************************************************)
(* Lemmas about a list in which one place gets another entry.              *)
(***************************************************************************)
Replaced(q, r, i, c) ==
  /\ Len(r) = Len(q) /\ DOMAIN r = DOMAIN q /\ c \in ToSet(r)
  /\ ToSet(r) \subseteq ToSet(q) \cup {c} /\ ToSet(q) \subseteq ToSet(r) \cup {q[i]}
  /\ IsInjective(q) /\ c \notin ToSet(q) =>
       IsInjective(r) /\ ToSet(r) = (ToSet(q) \ {q[i]}) \cup {c}

LEMMA ReplacedAt ==
  ASSUME NEW S, NEW q \in Seq(S), NEW i \in DOMAIN q, NEW c \in S
  PROVE  [q EXCEPT ![i] = c] \in Seq(S) /\ Replaced(q, [q EXCEPT ![i] = c], i, c)
<1> DEFINE r == [q EXCEPT ![i] = c]
<1>1. DOMAIN q = 1 .. Len(q)
  OBVIOUS
<1>2. /\ r \in Seq(S) /\ Len(r) = Len(q)
      /\ \A j \in DOMAIN q : r[j] = IF j = i THEN c ELSE q[j]
  BY <1>1, ExceptSeq
<1>3. DOMAIN r = DOMAIN q
  BY <1>1, <1>2
<1> HIDE DEF r
<1>4. c \in ToSet(r) /\ ToSet(r) \subseteq ToSet(q) \cup {c}
      /\ ToSet(q) \subseteq ToSet(r) \cup {q[i]}
  BY <1>2, <1>3 DEF ToSet
<1>5. ASSUME IsInjective(q), c \notin ToSet(q)
      PROVE  IsInjective(r) /\ ToSet(r) = (ToSet(q) \ {q[i]}) \cup {c}
  <2>1. \A j \in DOMAIN q : q[j] # c
    BY <1>5 DEF ToSet
  <2>2. IsInjective(r)
    BY <1>2, <1>3, <1>5, <2>1 DEF IsInjective
  <2>3. q[i] \notin ToSet(r)
    <3>1. ASSUME NEW j \in DOMAIN r PROVE r[j] # q[i]
      BY <1>2, <1>3, <1>5, <2>1 DEF IsInjective
    <3> QED BY <3>1 DEF ToSet
  <2> QED BY <1>4, <2>2, <2>3
<1>6. Replaced(q, r, i, c)
  BY <1>2, <1>3, <1>4, <1>5 DEF Replaced
<1> QED BY <1>2, <1>6 DEF r

LEMMA ListedIsFinite ==
  ASSUME NEW S, NEW q \in Seq(S)
  PROVE  /\ IsFiniteSet(ToSet(q)) /\ Len(q) \in Nat
         /\ ToSet(q) \subseteq S /\ (q # <<>> => ToSet(q) # {})
<1>1. DOMAIN q = 1 .. Len(q) /\ Len(q) \in Nat
  OBVIOUS
<1>2. IsFiniteSet(DOMAIN q)
  BY <1>1, CountTo
<1>3. q \in Surjection(DOMAIN q, ToSet(q))
  BY DEF Surjection, ToSet
<1>4. IsFiniteSet(ToSet(q))
  BY <1>2, <1>3, FS_Surjection
<1>5. ASSUME q # <<>> PROVE 1 \in DOMAIN q
  BY <1>1, <1>5
<1> QED BY <1>1, <1>4, <1>5 DEF ToSet

\* A list without repetitions has as many entries as places.
LEMMA InjectiveCount ==
  ASSUME NEW S, NEW q \in Seq(S), IsInjective(q)
  PROVE  Cardinality(ToSet(q)) = Len(q)
<1>1. DOMAIN q = 1 .. Len(q) /\ Len(q) \in Nat
  OBVIOUS
<1>2. IsFiniteSet(DOMAIN q) /\ Cardinality(DOMAIN q) = Len(q)
  BY <1>1, CountTo
<1>3. q \in Surjection(DOMAIN q, ToSet(q)) /\ q \in Injection(DOMAIN q, ToSet(q))
  BY DEF Surjection, Injection, ToSet
<1> QED BY <1>2, <1>3, FS_Surjection

LEMMA PlaceIsOf ==
  ASSUME Numbered, NEW old \in Listed
  PROVE  PlaceOf(old) \in DOMAIN list /\ list[PlaceOf(old)] = old
<1> DEFINE places == {i \in DOMAIN list : list[i] = old}
<1>1. DOMAIN list = 1 .. Len(list)
  BY DEF Numbered
<1>2. places \in SUBSET Nat /\ places # {}
  BY <1>1 DEF Listed, ToSet
<1>3. Min(places) \in places
  BY <1>2, MinIsLeast
<1> QED BY <1>3 DEF PlaceOf

LEMMA WeakestIsOne ==
  ASSUME Numbered, NEW some \in SUBSET Listed, some # {}
  PROVE  Weakest(some) \in some
<1>1. DOMAIN spans = 1 .. Len(spans) /\ Len(spans) \in Nat
  BY DEF Numbered
<1>2. Listed \subseteq 1 .. Len(spans)
  BY <1>1, ListedIsFinite DEF Numbered, Listed, All
<1>3. some \in SUBSET Nat /\ \A c \in some : c <= Len(spans)
  BY <1>2
<1> QED BY <1>1, <1>3, MaxIsGreatest DEF Weakest

-----------------------------------------------------------------------------
(***************************************************************************)
(* What an exchange keeps true, of an entry for a span that is not on the  *)
(* list by its id.                                                         *)
(***************************************************************************)
LEMMA IdsAreFinite ==
  ASSUME Numbered
  PROVE  IsFiniteSet(ids) /\ Cardinality(ids) \in Nat /\ Len(list) \in Nat
<1>1. IsFiniteSet(Listed) /\ Len(list) \in Nat
  BY ListedIsFinite DEF Numbered, Listed
<1>2. IsFiniteSet(ids)
  BY <1>1, FS_Subset DEF Numbered
<1> QED BY <1>1, <1>2, FS_CardinalityType

LEMMA ExchangeLists ==
  ASSUME Numbered, NEW i \in DOMAIN list, NEW c \in All, Exchange(i, c),
         UNCHANGED <<spans, kept>>, guarded' \subseteq All
  PROVE  Replaced(list, list', i, c) /\ Numbered'
<1>1. list' \in Seq(All) /\ Replaced(list, list', i, c)
  BY ReplacedAt DEF Numbered, Exchange
<1>2. ids' \subseteq Listed'
  BY <1>1 DEF Numbered, Exchange, Replaced, Listed
<1> QED BY <1>1, <1>2 DEF Numbered, All

LEMMA ExchangeCounts ==
  ASSUME Numbered, Selected, pc # "filter", NEW i \in DOMAIN list, NEW c \in All,
         c \notin ids, Exchange(i, c), UNCHANGED <<spans, kept, doubled>>,
         guarded' \subseteq All
  PROVE  /\ Len(list') = Least(ShortlistLimit, Len(kept))
         /\ Cardinality(ids') >= Len(list') - (IF doubled THEN 1 ELSE 0)
         /\ ~doubled => IsInjective(list') /\ Listed' \subseteq ids'
<1>1. Replaced(list, list', i, c)
  BY ExchangeLists
<1>2. /\ IsFiniteSet(ids) /\ Cardinality(ids) \in Nat /\ Len(list) \in Nat
      /\ Cardinality(ids) >= Len(list) - (IF doubled THEN 1 ELSE 0)
  BY IdsAreFinite DEF Selected
<1>3. /\ IsFiniteSet(ids \ {list[i]})
      /\ Cardinality(ids \ {list[i]}) >= Cardinality(ids) - 1
      /\ Cardinality(ids \ {list[i]}) \in Nat
  <2>1. /\ IsFiniteSet(ids \ {list[i]})
        /\ Cardinality(ids \ {list[i]}) =
             IF list[i] \in ids THEN Cardinality(ids) - 1 ELSE Cardinality(ids)
    BY <1>2, FS_RemoveElement
  <2>2. Cardinality(ids \ {list[i]}) \in Nat
    BY <2>1, FS_CardinalityType
  <2> QED BY <1>2, <2>1, <2>2
<1>4. ids' = (ids \ {list[i]}) \cup {c} /\ c \notin ids \ {list[i]}
  BY DEF Exchange
<1>5. Cardinality(ids') = Cardinality(ids \ {list[i]}) + 1
  BY <1>3, <1>4, FS_AddElement
<1>6. Cardinality(ids') >= Cardinality(ids) /\ Cardinality(ids') \in Nat
  BY <1>2, <1>3, <1>5
<1>7. Cardinality(ids') >= Len(list') - (IF doubled THEN 1 ELSE 0)
  BY <1>1, <1>2, <1>6 DEF Replaced
<1>8. ASSUME ~doubled PROVE IsInjective(list') /\ Listed' \subseteq ids'
  <2>1. IsInjective(list) /\ Listed = ids
    BY <1>8 DEF Selected, Numbered
  <2>2. IsInjective(list') /\ Listed' = (Listed \ {list[i]}) \cup {c}
    BY <1>1, <2>1 DEF Replaced, Listed
  <2> QED BY <2>1, <2>2, <1>4
<1> QED BY <1>1, <1>7, <1>8 DEF Selected, Replaced

\* The protected entry stays one.
LEMMA GuardKeepsOne ==
  ASSUME Numbered, Selected, pc # "filter", NEW old, NEW new \in All,
         Guard(old, new) \/ UNCHANGED guarded
  PROVE  /\ guarded' \subseteq All /\ (\A c, d \in guarded' : c = d)
         /\ guarded' # {} => guarded # {}
BY DEF Numbered, Selected, Guard

LEMMA ExchangeSelects ==
  ASSUME Numbered, Selected, pc # "filter", pc' # "filter", NEW i \in DOMAIN list,
         NEW c \in All, c \notin ids, Exchange(i, c), UNCHANGED <<spans, kept, doubled>>,
         Guard(list[i], c) \/ UNCHANGED guarded, NEW p, p # "stopped", Then(list[i], p)
  PROVE  Selected'
<1>1. /\ guarded' \subseteq All /\ (\A d, e \in guarded' : d = e)
      /\ guarded' # {} => guarded # {}
  BY GuardKeepsOne
<1>2. Len(list') = Len(list) /\ Len(list) = Least(ShortlistLimit, Len(kept))
  BY <1>1, ExchangeLists DEF Replaced, Selected
<1>3. pc' = "stopped" => doubled
  <2>1. list[i] \in Listed
    BY DEF Listed, ToSet
  <2>2. ~doubled => list[i] \in ids
    BY <2>1 DEF Selected
  <2> QED BY <2>2 DEF Then, Goto
<1>4. /\ Cardinality(ids') >= Len(list') - (IF doubled THEN 1 ELSE 0)
      /\ ~doubled => IsInjective(list') /\ Listed' \subseteq ids'
  BY <1>1, ExchangeCounts
<1>5. guarded' # {} \/ doubled => Len(list') = ShortlistLimit
  BY <1>1, <1>2 DEF Selected
<1> QED BY <1>1, <1>2, <1>3, <1>4, <1>5 DEF Selected

LEMMA ExchangeAccounts ==
  ASSUME Numbered, Accounted, pc # "filter", NEW i \in DOMAIN list, NEW c \in All,
         Exchange(i, c), UNCHANGED <<spans, kept>>,
         Record(list[i], c) \/ (UNCHANGED rejected /\ list[i] \in ToSet(kept))
  PROVE  Accounted'
<1>1. Replaced(list, list', i, c)
  BY ReplacedAt DEF Numbered, Exchange
<1>2. c \in Listed' /\ Listed \subseteq Listed' \cup {list[i]}
  BY <1>1 DEF Replaced, Listed
<1>3. ASSUME NEW d \in All PROVE d \in ToSet(kept) \/ d \in Listed' \/ d \in rejected'
  BY <1>2 DEF Accounted, Record
<1> QED BY <1>3 DEF Accounted, All

\* Whatever is protected, two more entries are not all protected.
LEMMA OneIsOpen ==
  ASSUME ShortlistAssumption, Numbered, Selected, pc # "filter", Listed # {}
  PROVE  Open(Listed) # {}
<1>1. CASE guarded = {}
  BY <1>1 DEF Open
<1>2. ASSUME guarded # {}, Listed \subseteq guarded PROVE FALSE
  <2>1. PICK g \in guarded : guarded = {g}
    BY <1>2 DEF Selected
  <2>2. Listed = {g}
    BY <1>2, <2>1
  <2>3. Cardinality(Listed) = 1 /\ IsFiniteSet(Listed)
    BY <2>2, FS_Singleton
  <2>4. Cardinality(ids) <= 1 /\ Cardinality(ids) \in Nat /\ Len(list) \in Nat
    BY <2>3, FS_Subset, IdsAreFinite DEF Numbered
  <2>5. Len(list) = ShortlistLimit
    BY <1>2 DEF Selected
  <2>6. Cardinality(ids) >= Len(list) - 1
    <3>1. Cardinality(ids) >= Len(list) - (IF doubled THEN 1 ELSE 0)
      BY DEF Selected
    <3> QED BY <2>4, <3>1
  <2> QED BY <2>4, <2>5, <2>6 DEF ShortlistAssumption
<1> QED BY <1>1, <1>2 DEF Open

-----------------------------------------------------------------------------
(***************************************************************************)
(* The filter keeps no span twice and drops none unseen.                   *)
(***************************************************************************)
Dropped == UNCHANGED kept /\ kept # <<>> /\ rejected' = rejected \cup {Span}

LEMMA FilterCases ==
  ASSUME Filter
  PROVE  KeepSpan \/ Dropped \/ TakePlace
BY DEF Filter, KeepSpan, Dropped, Duplicate, Overlap, Neighbour, FullMinute, Drop

LEMMA AppendOnce ==
  ASSUME NEW S, NEW q \in Seq(S), NEW c \in S, c \notin ToSet(q), IsInjective(q)
  PROVE  /\ Append(q, c) \in Seq(S) /\ Append(q, c) # <<>>
         /\ ToSet(Append(q, c)) = ToSet(q) \cup {c} /\ IsInjective(Append(q, c))
<1> DEFINE r == Append(q, c)
<1>1. /\ r \in Seq(S) /\ r # <<>> /\ Len(r) = Len(q) + 1 /\ r[Len(q) + 1] = c
      /\ \A i \in 1 .. Len(q) : r[i] = q[i]
  BY AppendProperties
<1>2. DOMAIN q = 1 .. Len(q) /\ Len(q) \in Nat /\ DOMAIN r = 1 .. Len(q) + 1
  BY <1>1
<1> HIDE DEF r
<1>3. DOMAIN r = DOMAIN q \cup {Len(q) + 1} /\ \A i \in DOMAIN q : r[i] = q[i]
  BY <1>1, <1>2
<1>4. ToSet(r) = ToSet(q) \cup {c}
  BY <1>1, <1>3 DEF ToSet
<1>5. \A i \in DOMAIN q : q[i] # c
  BY DEF ToSet
<1>6. IsInjective(r)
  BY <1>1, <1>3, <1>5 DEF IsInjective
<1> QED BY <1>1, <1>4, <1>6 DEF r

LEMMA SpanIsAhead ==
  ASSUME Numbered, Looking, pc = "filter", ahead # {}
  PROVE  Span \in ahead /\ Span \in All
<1>1. All = 1 .. Len(spans) /\ Len(spans) \in Nat
  BY DEF Numbered, All
<1>2. ahead \in SUBSET Nat
  BY <1>1 DEF Looking
<1> QED BY <1>2, MinIsLeast DEF Span, Looking

LEMMA FilterKept ==
  ASSUME Passing, Filter
  PROVE  Passing'
<1>1. /\ pc = "filter" /\ pc' = "filter" /\ at' = at /\ ahead' = ahead \ {Span}
      /\ UNCHANGED <<spans, list, ids, guarded, doubled>>
  BY DEF Filter, Pass, Goto
<1>2. Span \in ahead /\ Span \in All /\ ahead \subseteq All
  BY <1>1, SpanIsAhead DEF Passing, Filter, Looking
<1>3. /\ kept \in Seq(All) /\ IsInjective(kept) /\ ToSet(kept) \cap ahead = {}
      /\ list = <<>> /\ ids = {} /\ guarded = {} /\ ~doubled
      /\ Span \notin ToSet(kept)
  BY <1>1, <1>2 DEF Passing, KeptOnce, Numbered
<1>4. /\ kept' \in Seq(All) /\ IsInjective(kept') /\ kept' # <<>>
      /\ ToSet(kept') \subseteq ToSet(kept) \cup {Span}
      /\ ToSet(kept) \cup {Span} \subseteq ToSet(kept') \cup rejected'
      /\ rejected \subseteq rejected'
  <2>1. CASE KeepSpan
    BY <1>2, <1>3, <2>1, AppendOnce DEF KeepSpan
  <2>2. CASE Dropped
    BY <1>2, <1>3, <2>2 DEF Dropped
  <2>3. CASE TakePlace
    <3>1. PICK i \in DOMAIN kept : kept' = [kept EXCEPT ![i] = Span]
                                   /\ rejected' = rejected \cup {kept[i]}
      BY <2>3 DEF TakePlace
    <3>2. kept' \in Seq(All) /\ Replaced(kept, kept', i, Span)
      BY <1>2, <1>3, <3>1, ReplacedAt
    <3>3. kept' # <<>>
      BY <3>2 DEF Replaced
    <3> QED BY <1>3, <3>1, <3>2, <3>3 DEF Replaced
  <2> QED BY <2>1, <2>2, <2>3, FilterCases
<1>5. All' = All /\ Listed' = Listed /\ Listed = {}
  BY <1>1, <1>3 DEF All, Listed, ToSet
<1>6. Numbered'
  BY <1>1, <1>3, <1>4, <1>5 DEF Passing, Numbered
<1>7. Accounted'
  BY <1>1, <1>4, <1>5 DEF Passing, Accounted
<1>8. KeptOnce'
  BY <1>1, <1>2, <1>3, <1>4, <1>5 DEF KeptOnce
<1>9. Looking'
  BY <1>1, <1>2, <1>5 DEF Looking
<1> QED BY <1>1, <1>6, <1>7, <1>8, <1>9 DEF Passing, Selected, Chosen

LEMMA CutKept ==
  ASSUME ShortlistAssumption, Passing, Cut
  PROVE  Passing'
<1> DEFINE n == Least(ShortlistLimit, Len(kept))
<1>1. /\ pc = "filter" /\ pc' = "lead" /\ at' = at /\ ahead' = {} /\ ahead = {}
      /\ UNCHANGED <<spans, kept, guarded, rejected, doubled>>
      /\ list' = SubSeq(kept, 1, n) /\ ids' = ToSet(list')
  BY DEF Cut, Pass, Goto
<1>2. /\ kept \in Seq(All) /\ IsInjective(kept) /\ guarded = {} /\ ~doubled
      /\ list = <<>> /\ spans \in Seq(Kinds) /\ (kept = <<>> => ahead = All)
  BY <1>1 DEF Passing, Numbered, KeptOnce
<1>3. Len(kept) \in Nat /\ n \in 0 .. Len(kept) /\ DOMAIN kept = 1 .. Len(kept)
  BY <1>2 DEF ShortlistAssumption, Least
<1> HIDE DEF n
<1>4. /\ list' \in Seq(All) /\ Len(list') = n
      /\ \A i \in 1 .. n : list'[i] = kept[i]
  <2>1. \A i \in 1 .. n : kept[i] \in All
    BY <1>2, <1>3
  <2>2. /\ SubSeq(kept, 1, n) \in Seq(All)
        /\ Len(SubSeq(kept, 1, n)) = IF 1 <= n THEN n - 1 + 1 ELSE 0
        /\ \A i \in 1 .. n - 1 + 1 : SubSeq(kept, 1, n)[i] = kept[1 + i - 1]
    BY <1>3, <2>1, SubSeqProperties
  <2>3. ASSUME NEW i \in 1 .. n PROVE SubSeq(kept, 1, n)[i] = kept[i]
    BY <1>3, <2>2
  <2> QED BY <1>1, <1>3, <2>2, <2>3
<1>5. DOMAIN list' = 1 .. n /\ 1 .. n \subseteq DOMAIN kept
  BY <1>3, <1>4
<1>6. IsInjective(list') /\ Listed' \subseteq ToSet(kept)
  BY <1>2, <1>4, <1>5 DEF IsInjective, Listed, ToSet
<1>7. Cardinality(ids') = Len(list')
  BY <1>1, <1>4, <1>6, InjectiveCount
<1>8. All' = All /\ Listed = {}
  BY <1>1, <1>2 DEF All, Listed, ToSet
<1>9. Numbered'
  BY <1>1, <1>2, <1>4, <1>8 DEF Numbered, Listed
<1>10. Accounted'
  BY <1>1, <1>8 DEF Passing, Accounted
<1>11. KeptOnce'
  BY <1>1, <1>2, <1>8 DEF KeptOnce
<1>12. Selected'
  <2>1. Len(list') = Least(ShortlistLimit, Len(kept))
    BY <1>4 DEF n
  <2>2. Cardinality(ids') >= Len(list') - 0
    BY <1>3, <1>4, <1>7
  <2> QED BY <1>1, <1>2, <1>6, <2>1, <2>2 DEF Selected, Listed
<1>13. Looking'
  BY <1>1 DEF Looking
<1>14. Chosen'
  BY <1>1, <1>2, <1>6 DEF Chosen, n
<1> QED BY <1>1, <1>9, <1>10, <1>11, <1>12, <1>13, <1>14 DEF Passing, PassPlaces

-----------------------------------------------------------------------------
(***************************************************************************)
(* The other passes: what all their steps keep.                            *)
(***************************************************************************)
SlotsKept == doubled \in BOOLEAN /\ Numbered /\ Accounted /\ KeptOnce /\ Selected

LEMMA NothingExchanged ==
  ASSUME Passing, pc # "filter", pc' \notin {"filter", "stopped"},
         UNCHANGED <<spans, kept, list, ids, guarded, doubled>>, rejected \subseteq rejected'
  PROVE  SlotsKept' /\ All' = All /\ Listed' = Listed
<1>1. All' = All /\ Listed' = Listed
  BY DEF All, Listed
<1>2. Numbered' /\ Accounted'
  BY <1>1 DEF Passing, Numbered, Accounted
<1>3. KeptOnce' /\ Selected'
  BY <1>1 DEF Passing, KeptOnce, Selected
<1>4. doubled' \in BOOLEAN
  BY DEF Passing
<1> QED BY <1>1, <1>2, <1>3, <1>4 DEF SlotsKept

LEMMA Exchanged ==
  ASSUME Passing, pc # "filter", NEW p \in PassPlaces \ {"filter", "stopped"},
         NEW i \in DOMAIN list, NEW c \in All, c \notin ids, Exchange(i, c),
         Then(list[i], p), UNCHANGED <<spans, kept, doubled>>,
         Guard(list[i], c) \/ UNCHANGED guarded,
         Record(list[i], c) \/ (UNCHANGED rejected /\ list[i] \in ToSet(kept))
  PROVE  /\ SlotsKept' /\ All' = All /\ Replaced(list, list', i, c)
         /\ at' = at /\ pc' \in {p, "stopped"}
<1>1. at' = at /\ pc' \in {p, "stopped"} /\ All' = All
  BY DEF Then, Goto, All
<1>2. guarded' \subseteq All
  BY GuardKeepsOne DEF Passing
<1>3. Numbered' /\ Replaced(list, list', i, c)
  BY <1>2, ExchangeLists DEF Passing
<1>4. Accounted'
  BY ExchangeAccounts DEF Passing
<1>5. Selected'
  BY <1>1, ExchangeSelects DEF Passing
<1>6. KeptOnce' /\ doubled' \in BOOLEAN
  BY <1>1 DEF Passing, KeptOnce
<1> QED BY <1>1, <1>3, <1>4, <1>5, <1>6 DEF SlotsKept

(***************************************************************************)
(* The first pass: what was cut off is not on the list.                    *)
(***************************************************************************)
LEMMA CutOffIsApart ==
  ASSUME ShortlistAssumption, Passing, pc = "lead"
  PROVE  /\ CutOff \subseteq ToSet(kept) \ Listed
         /\ CutOff # {} => Len(list) = ShortlistLimit
         /\ CutOff # {} => Listed # {}
<1> DEFINE n == Least(ShortlistLimit, Len(kept))
           m == Len(kept)
<1>1. kept \in Seq(All) /\ IsInjective(kept) /\ list = SubSeq(kept, 1, n)
      /\ list \in Seq(All)
  BY DEF Passing, Numbered, KeptOnce, Chosen
<1>2. /\ m \in Nat /\ DOMAIN kept = 1 .. m /\ n \in 0 .. m
      /\ ShortlistLimit \in Nat /\ n <= ShortlistLimit
      /\ ShortlistLimit < m => n = ShortlistLimit
  BY <1>1 DEF ShortlistAssumption, Least
<1>3. Len(list) = n /\ \A i \in 1 .. n : list[i] = kept[i]
  <2>1. /\ Len(SubSeq(kept, 1, n)) = IF 1 <= n THEN n - 1 + 1 ELSE 0
        /\ \A i \in 1 .. n - 1 + 1 : SubSeq(kept, 1, n)[i] = kept[1 + i - 1]
    BY <1>1, <1>2, SubSeqProperties
  <2>2. ASSUME NEW i \in 1 .. n PROVE SubSeq(kept, 1, n)[i] = kept[i]
    BY <1>2, <2>1
  <2> QED BY <1>1, <1>2, <2>1, <2>2
<1>4. DOMAIN list = 1 .. n
  BY <1>1, <1>3
<1> HIDE DEF n, m
<1>5. ASSUME NEW c \in CutOff
      PROVE  ShortlistLimit < m /\ \E j \in ShortlistLimit + 1 .. m : c = kept[j]
  <2> DEFINE q == SubSeq(kept, ShortlistLimit + 1, m)
  <2>1. \A i \in ShortlistLimit + 1 .. m : kept[i] \in All
    BY <1>1, <1>2
  <2>2. /\ q \in Seq(All)
        /\ Len(q) = IF ShortlistLimit + 1 <= m THEN m - (ShortlistLimit + 1) + 1 ELSE 0
        /\ \A i \in 1 .. m - (ShortlistLimit + 1) + 1 : q[i] = kept[ShortlistLimit + 1 + i - 1]
    BY <1>2, <2>1, SubSeqProperties
  <2>3. DOMAIN q = 1 .. Len(q)
    BY <2>2
  <2>4. PICK i \in DOMAIN q : c = q[i]
    BY DEF CutOff, ToSet, m
  <2> HIDE DEF q
  <2>5. ShortlistLimit < m /\ i \in 1 .. m - (ShortlistLimit + 1) + 1
    <3>1. i \in 1 .. Len(q)
      BY <2>3, <2>4
    <3>2. ShortlistLimit + 1 <= m
      BY <1>2, <2>2, <3>1
    <3> QED BY <1>2, <2>2, <3>1, <3>2
  <2>6. ShortlistLimit + 1 + i - 1 \in ShortlistLimit + 1 .. m
    BY <1>2, <2>5
  <2> QED BY <2>2, <2>4, <2>5, <2>6
<1>6. ASSUME NEW c \in CutOff PROVE c \in ToSet(kept) /\ c \notin Listed
  <2>1. PICK j \in ShortlistLimit + 1 .. m : c = kept[j]
    BY <1>5
  <2>2. j \in DOMAIN kept
    BY <1>2, <2>1
  <2>3. ASSUME NEW i \in 1 .. n PROVE list[i] # c
    BY <1>1, <1>2, <1>3, <2>1, <2>2 DEF IsInjective
  <2> QED BY <1>4, <2>1, <2>2, <2>3 DEF ToSet, Listed
<1>7. ASSUME CutOff # {} PROVE Len(list) = ShortlistLimit /\ Listed # {}
  <2>1. Len(list) = ShortlistLimit
    BY <1>2, <1>3, <1>5, <1>7
  <2>2. 1 \in DOMAIN list
    BY <1>2, <1>3, <1>4, <2>1 DEF ShortlistAssumption
  <2> QED BY <2>1, <2>2 DEF Listed, ToSet
<1> QED BY <1>6, <1>7

LEMMA LeadKept ==
  ASSUME ShortlistAssumption, Passing, Lead
  PROVE  Passing'
<1>1. /\ pc = "lead" /\ pc' = "boundary" /\ at' = at
      /\ ahead' = {c \in CutOff : HasPayoff(c)}
      /\ UNCHANGED <<spans, kept, rejected, doubled>>
  BY DEF Lead, Pass, Goto
<1>2. /\ CutOff \subseteq ToSet(kept) \ Listed
      /\ CutOff # {} => Len(list) = ShortlistLimit /\ Listed # {}
  BY <1>1, CutOffIsApart
<1>3. ToSet(kept) \subseteq All /\ Listed \subseteq ToSet(kept) /\ ~doubled /\ guarded = {}
      /\ ids \subseteq Listed
  BY <1>1, ListedIsFinite DEF Passing, Numbered, Chosen
<1>4. CASE UNCHANGED <<list, ids, guarded>>
  <2>1. SlotsKept' /\ All' = All /\ Listed' = Listed
    BY <1>1, <1>4, NothingExchanged
  <2>2. Looking'
    BY <1>1, <1>2, <1>3, <1>4, <2>1 DEF Looking
  <2>3. Chosen'
    BY <1>1, <1>2, <1>3, <1>4, <2>1 DEF Chosen
  <2> QED BY <1>1, <2>1, <2>2, <2>3 DEF Passing, PassPlaces, SlotsKept
<1>5. ASSUME NEW c \in CutOff, Exchange(PlaceOf(Weakest(Listed)), c), guarded' = {c}
      PROVE  Passing'
  <2> DEFINE i == PlaceOf(Weakest(Listed))
  <2>1. i \in DOMAIN list /\ list[i] \in Listed
    BY <1>2, <1>5, WeakestIsOne, PlaceIsOf DEF Passing
  <2>2. c \in All /\ c \notin ids /\ c \notin Listed
    BY <1>2, <1>3, <1>5
  <2> HIDE DEF i
  <2>3. Exchange(i, c)
    BY <1>5 DEF i
  <2>4. guarded' \subseteq All
    BY <1>5, <2>2
  <2>5. Replaced(list, list', i, c) /\ Numbered'
    BY <1>1, <2>1, <2>2, <2>3, <2>4, ExchangeLists DEF Passing
  <2>6. /\ Len(list') = Least(ShortlistLimit, Len(kept))
        /\ Cardinality(ids') >= Len(list') - (IF doubled THEN 1 ELSE 0)
        /\ ~doubled => IsInjective(list') /\ Listed' \subseteq ids'
    BY <1>1, <2>1, <2>2, <2>3, <2>4, ExchangeCounts DEF Passing
  <2>7. Accounted'
    BY <1>1, <1>3, <2>1, <2>2, <2>3, ExchangeAccounts DEF Passing
  <2>8. All' = All /\ Listed' \subseteq Listed \cup {c} /\ Len(list') = Len(list)
    BY <1>1, <2>5 DEF All, Replaced, Listed
  <2>9. KeptOnce' /\ Selected'
    BY <1>1, <1>2, <1>3, <1>5, <2>6, <2>8 DEF Passing, KeptOnce, Selected
  <2>10. Looking'
    BY <1>1, <1>2, <1>3, <1>5, <2>8 DEF Looking
  <2>11. Chosen'
    BY <1>1, <1>2, <1>3, <1>5, <2>8 DEF Chosen
  <2> QED BY <1>1, <2>5, <2>7, <2>9, <2>10, <2>11 DEF Passing, PassPlaces, SlotsKept
<1> QED BY <1>4, <1>5 DEF Lead

(***************************************************************************)
(* The second pass, the only one that may put a span on the list again.    *)
(***************************************************************************)
LEMMA BoundaryKept ==
  ASSUME ShortlistAssumption, Passing, Boundary
  PROVE  Passing'
<1>1. pc = "boundary" /\ UNCHANGED <<spans, kept, guarded>>
  BY DEF Boundary
<1>2. PICK c \in ahead, other \in Listed :
        /\ other # c /\ ahead' = ahead \ {c} /\ Then(other, "boundary") /\ Exchange(PlaceOf(other), c)
        /\ Record(other, c) /\ doubled' = (doubled \/ c \in Listed)
  BY DEF Boundary
<1> DEFINE i == PlaceOf(other)
<1>3. i \in DOMAIN list /\ list[i] = other
  BY PlaceIsOf DEF Passing
<1>4. /\ ahead \subseteq ToSet(kept) /\ ToSet(kept) \subseteq All /\ ids \subseteq Listed
      /\ Listed \subseteq ToSet(kept) /\ Len(list) = ShortlistLimit
      /\ ahead \cap Listed \subseteq guarded /\ (doubled => ahead \cap Listed = {})
  BY <1>1, <1>2, ListedIsFinite DEF Passing, Numbered, Looking, Chosen
<1> HIDE DEF i
<1>5. Exchange(i, c) /\ Then(list[i], "boundary") /\ Record(list[i], c) /\ c \in All
  BY <1>2, <1>3, <1>4 DEF i
<1>6. CASE c \notin Listed
  <2>1. c \notin ids /\ doubled' = doubled
    <3>1. doubled \in BOOLEAN => (doubled' = doubled)
      BY <1>2, <1>6
    <3>2. doubled \in BOOLEAN
      BY DEF Passing
    <3> QED BY <1>4, <1>6, <3>1, <3>2
  <2>2. /\ SlotsKept' /\ All' = All /\ Replaced(list, list', i, c)
        /\ at' = at /\ pc' \in {"boundary", "stopped"}
    BY <1>1, <1>3, <1>5, <2>1, Exchanged DEF PassPlaces
  <2>3. Listed' \subseteq Listed \cup {c} /\ Len(list') = Len(list)
    BY <2>2 DEF Replaced, Listed
  <2>4. Looking' /\ Chosen'
    BY <1>1, <1>2, <1>4, <2>1, <2>2, <2>3 DEF Looking, Chosen
  <2> QED BY <2>2, <2>4 DEF Passing, PassPlaces, SlotsKept
<1>7. CASE c \in Listed
  <2>1. ~doubled /\ doubled' = TRUE /\ Listed \subseteq ids
    BY <1>1, <1>2, <1>4, <1>7 DEF Passing, Selected
  <2>2. other \in ids /\ c \in ids /\ pc' = "boundary" /\ at' = at
    BY <1>2, <1>7, <2>1 DEF Then, Goto
  <2>3. Replaced(list, list', i, c) /\ Numbered' /\ Accounted'
    BY <1>1, <1>3, <1>5, ExchangeLists, ExchangeAccounts DEF Passing, Numbered
  <2>4. ids' = ids \ {other} /\ Cardinality(ids') = Cardinality(ids) - 1
    <3>1. ids' = ids \ {other}
      BY <1>2, <1>3, <1>5, <2>2 DEF Exchange
    <3> QED BY <2>2, <3>1, IdsAreFinite, FS_RemoveElement DEF Passing
  <2>5. All' = All /\ Listed' \subseteq Listed /\ Len(list') = Len(list)
    BY <1>1, <1>7, <2>3 DEF All, Replaced, Listed
  <2>6. Cardinality(ids') >= Len(list') - 1
    <3>1. Cardinality(ids) >= Len(list) - 0
      BY <1>1, <2>1 DEF Passing, Selected
    <3> QED BY <2>4, <2>5, <3>1, IdsAreFinite DEF Passing
  <2>7. KeptOnce' /\ Selected'
    BY <1>1, <1>4, <2>1, <2>2, <2>5, <2>6 DEF Passing, KeptOnce, Selected
  <2>8. Looking'
    BY <1>1, <1>2, <1>4, <2>2, <2>5 DEF Looking
  <2>9. ahead' \cap Listed' = {}
    <3>1. ahead \cap Listed \subseteq {c}
      BY <1>1, <1>4, <1>7 DEF Passing, Selected
    <3> QED BY <1>2, <2>5, <3>1
  <2>10. Chosen'
    BY <1>1, <1>4, <2>2, <2>5, <2>9 DEF Chosen
  <2> QED BY <2>1, <2>2, <2>3, <2>7, <2>8, <2>10 DEF Passing, PassPlaces, SlotsKept
<1> QED BY <1>6, <1>7

LEMMA BoundaryOverKept ==
  ASSUME ShortlistAssumption, Passing, BoundaryOver
  PROVE  Passing'
<1>1. /\ pc = "boundary" /\ pc' = "variants" /\ at' = at
      /\ ahead' = IF Len(list) >= ShortlistLimit THEN DOMAIN list ELSE {}
      /\ UNCHANGED <<spans, kept, choice, doubled>>
  BY DEF BoundaryOver, Pass, Goto
<1>2. UNCHANGED <<spans, kept, list, ids, guarded, rejected, doubled>>
  BY <1>1 DEF choice
<1>3. SlotsKept' /\ All' = All /\ Listed' = Listed
  BY <1>1, <1>2, NothingExchanged
<1>4. Len(list) <= ShortlistLimit /\ Len(list) \in Nat
  <2>1. Len(list) = Least(ShortlistLimit, Len(kept)) /\ Len(kept) \in Nat
    BY <1>1, ListedIsFinite DEF Passing, Selected, Numbered
  <2> QED BY <2>1 DEF ShortlistAssumption, Least
<1>5. Looking' /\ Chosen'
  BY <1>1, <1>2, <1>3, <1>4 DEF ShortlistAssumption, Passing, Looking, Chosen
<1> QED BY <1>1, <1>3, <1>5 DEF Passing, PassPlaces, SlotsKept

LEMMA VariantsKept ==
  ASSUME Passing, Variants
  PROVE  Passing'
<1>1. pc = "variants" /\ UNCHANGED <<spans, kept, doubled>>
  BY DEF Variants
<1>2. PICK i \in ahead : \E v \in Longer(list[i]) :
        /\ ahead' = {j \in ahead : j > i}
        /\ Then(list[i], "variants") /\ Exchange(i, v)
        /\ Record(list[i], v) /\ Guard(list[i], v)
  BY DEF Variants
<1>3. PICK v \in Longer(list[i]) :
        /\ ahead' = {j \in ahead : j > i}
        /\ Then(list[i], "variants") /\ Exchange(i, v)
        /\ Record(list[i], v) /\ Guard(list[i], v)
  BY <1>2
<1>4. /\ i \in DOMAIN list /\ ahead \subseteq DOMAIN list /\ v \in ToSet(kept) /\ v \notin ids
      /\ ToSet(kept) \subseteq All /\ Listed \subseteq ToSet(kept)
      /\ Len(list) = ShortlistLimit
  BY <1>1, <1>2, <1>3, ListedIsFinite DEF Passing, Numbered, Looking, Chosen, Longer
<1>5. /\ SlotsKept' /\ All' = All /\ Replaced(list, list', i, v)
      /\ at' = at /\ pc' \in {"variants", "stopped"}
  BY <1>1, <1>3, <1>4, Exchanged DEF PassPlaces
<1>6. /\ Listed' \subseteq Listed \cup {v} /\ Len(list') = Len(list)
      /\ DOMAIN list' = DOMAIN list
  BY <1>5 DEF Replaced, Listed
<1>7. Looking' /\ Chosen'
  BY <1>1, <1>3, <1>4, <1>5, <1>6 DEF Looking, Chosen
<1> QED BY <1>5, <1>7 DEF Passing, PassPlaces, SlotsKept

LEMMA VariantsOverKept ==
  ASSUME ShortlistAssumption, Passing, VariantsOver
  PROVE  Passing'
<1>1. /\ pc = "variants" /\ pc' = "minutes" /\ at' = at
      /\ ahead' = IF Len(list) >= ShortlistLimit THEN ToSet(kept) ELSE {}
      /\ UNCHANGED <<spans, kept, choice, doubled>>
  BY DEF VariantsOver, Pass, Goto
<1>2. UNCHANGED <<spans, kept, list, ids, guarded, rejected, doubled>>
  BY <1>1 DEF choice
<1>3. SlotsKept' /\ All' = All /\ Listed' = Listed
  BY <1>1, <1>2, NothingExchanged
<1>4. Len(list) <= ShortlistLimit /\ Len(list) \in Nat /\ ToSet(kept) \subseteq All
  <2>1. /\ Len(list) = Least(ShortlistLimit, Len(kept)) /\ Len(kept) \in Nat
        /\ ToSet(kept) \subseteq All
    BY <1>1, ListedIsFinite DEF Passing, Selected, Numbered
  <2> QED BY <2>1 DEF ShortlistAssumption, Least
<1>5. Looking' /\ Chosen'
  BY <1>1, <1>2, <1>3, <1>4 DEF ShortlistAssumption, Passing, Looking, Chosen
<1> QED BY <1>1, <1>3, <1>5 DEF Passing, PassPlaces, SlotsKept

(***************************************************************************)
(* The pass over the minutes finds an entry to give way: of a full list    *)
(* one at most is protected.                                               *)
(***************************************************************************)
LEMMA MinutesKept ==
  ASSUME ShortlistAssumption, Passing, Minutes
  PROVE  Passing'
<1>1. pc = "minutes" /\ UNCHANGED <<spans, kept, guarded, rejected, doubled>>
  BY DEF Minutes
<1> DEFINE weak == Plainer(Open(Listed))
<1>2. PICK v \in ahead \ ids :
        /\ ahead' = ahead \ {v}
        /\ \/ \E old \in weak : Then(old, "minutes") /\ Exchange(PlaceOf(old), v)
           \/ /\ weak = {} /\ Explicit(v)
              /\ IF Open(Listed) = {} THEN Goto("stopped") /\ UNCHANGED <<list, ids>>
                 ELSE LET old == Weakest(Open(Listed)) IN
                        Then(old, "minutes") /\ Exchange(PlaceOf(old), v)
  BY DEF Minutes
<1>3. /\ v \in All /\ v \notin ids /\ ahead \subseteq ToSet(kept) /\ ToSet(kept) \subseteq All
      /\ Listed \subseteq ToSet(kept) /\ Len(list) = ShortlistLimit
  BY <1>1, <1>2, ListedIsFinite DEF Passing, Numbered, Looking, Chosen
<1>4. Listed # {} /\ Open(Listed) # {} /\ Open(Listed) \subseteq Listed
  <2>1. list # <<>>
    BY <1>3 DEF ShortlistAssumption
  <2>2. Listed # {}
    BY <2>1, ListedIsFinite DEF Passing, Numbered, Listed
  <2> QED BY <1>1, <2>2, OneIsOpen DEF Passing, Open
<1>5. PICK old \in Listed : Then(old, "minutes") /\ Exchange(PlaceOf(old), v)
  <2>1. weak \subseteq Listed
    BY DEF Plainer, Open
  <2>2. Weakest(Open(Listed)) \in Listed
    BY <1>4, WeakestIsOne DEF Passing
  <2> QED BY <1>2, <1>4, <2>1, <2>2
<1> DEFINE i == PlaceOf(old)
<1>6. i \in DOMAIN list /\ list[i] = old
  BY PlaceIsOf DEF Passing
<1> HIDE DEF weak, i
<1>7. Exchange(i, v) /\ Then(list[i], "minutes") /\ list[i] \in ToSet(kept)
  BY <1>3, <1>5, <1>6 DEF i
<1>8. /\ SlotsKept' /\ All' = All /\ Replaced(list, list', i, v)
      /\ at' = at /\ pc' \in {"minutes", "stopped"}
  BY <1>1, <1>3, <1>6, <1>7, Exchanged DEF PassPlaces
<1>9. Listed' \subseteq Listed \cup {v} /\ Len(list') = Len(list)
  BY <1>8 DEF Replaced, Listed
<1>10. Looking' /\ Chosen'
  BY <1>1, <1>2, <1>3, <1>8, <1>9 DEF Looking, Chosen
<1> QED BY <1>8, <1>10 DEF Passing, PassPlaces, SlotsKept

LEMMA MinutesOverKept ==
  ASSUME Passing, MinutesOver
  PROVE  Passing'
<1>1. /\ pc = "minutes" /\ pc' = "closing" /\ at' = at
      /\ ahead' = {c \in All : Closing(c)}
      /\ UNCHANGED <<spans, kept, choice, doubled>>
  BY DEF MinutesOver, Pass, Goto
<1>2. UNCHANGED <<spans, kept, list, ids, guarded, rejected, doubled>>
  BY <1>1 DEF choice
<1>3. SlotsKept' /\ All' = All /\ Listed' = Listed
  BY <1>1, <1>2, NothingExchanged
<1>4. Looking' /\ Chosen'
  BY <1>1, <1>2, <1>3 DEF Looking, Chosen, Closing
<1> QED BY <1>1, <1>3, <1>4 DEF Passing, PassPlaces, SlotsKept

(***************************************************************************)
(* The last passes: what closes the source comes on the list, and is only  *)
(* exchanged for another that does.                                        *)
(***************************************************************************)
LEMMA EndOfSourceKept ==
  ASSUME ShortlistAssumption, Passing, EndOfSource
  PROVE  Passing'
<1>1. /\ pc = "closing" /\ ahead' = {c \in All : Explicit(c)} /\ at' = at
      /\ UNCHANGED <<spans, kept, doubled>>
  BY DEF EndOfSource
<1>2. ahead = {c \in All : Closing(c)}
  BY <1>1 DEF Passing, Looking
<1>3. ahead # {} => Listed # {}
  <2>1. ahead # {} => kept # <<>>
    BY <1>1, <1>2 DEF Passing, KeptOnce
  <2>2. kept # <<>> => list # <<>>
    <3>1. Len(list) = Least(ShortlistLimit, Len(kept)) /\ kept \in Seq(All)
      BY <1>1 DEF Passing, Selected, Numbered
    <3> QED BY <3>1 DEF ShortlistAssumption, Least
  <2> QED BY <2>1, <2>2, ListedIsFinite DEF Passing, Numbered, Listed
<1>4. ahead # {} => Open(Listed) # {} /\ Open(Listed) \subseteq Listed
  BY <1>1, <1>3, OneIsOpen DEF Passing, Open
<1>5. CASE /\ Goto("payoffs") /\ UNCHANGED choice
           /\ ahead = {} \/ Closes \/ Open(Listed) = {}
  <2>1. UNCHANGED <<spans, kept, list, ids, guarded, rejected, doubled>> /\ pc' = "payoffs"
    BY <1>1, <1>5 DEF choice, Goto
  <2>2. SlotsKept' /\ All' = All /\ Listed' = Listed
    BY <1>1, <2>1, NothingExchanged
  <2>3. (\E c \in All : Closing(c)) => Closes
    BY <1>2, <1>4, <1>5
  <2>4. Looking' /\ Chosen'
    BY <1>1, <2>1, <2>2, <2>3 DEF Looking, Chosen, Closes, Closing, Explicit
  <2> QED BY <1>1, <2>1, <2>2, <2>4 DEF Passing, PassPlaces, SlotsKept
<1>6. ASSUME NEW c \in ahead, c \in ids, Goto("payoffs"), UNCHANGED choice
      PROVE  Passing'
  <2>1. Closes
    BY <1>2, <1>6 DEF Closes, Passing, Numbered
  <2> QED BY <1>5, <1>6, <2>1
<1>7. ASSUME NEW c \in ahead, c \notin ids, NEW old \in Listed,
             Then(old, "payoffs"), Exchange(PlaceOf(old), c), Record(old, c),
             UNCHANGED guarded
      PROVE  Passing'
  <2> DEFINE i == PlaceOf(old)
  <2>1. i \in DOMAIN list /\ list[i] = old
    BY PlaceIsOf DEF Passing
  <2>2. c \in All /\ Closing(c)
    BY <1>2
  <2> HIDE DEF i
  <2>3. Exchange(i, c) /\ Then(list[i], "payoffs") /\ Record(list[i], c)
    BY <1>7, <2>1 DEF i
  <2>4. /\ SlotsKept' /\ All' = All /\ Replaced(list, list', i, c)
        /\ at' = at /\ pc' \in {"payoffs", "stopped"}
    BY <1>1, <1>7, <2>1, <2>2, <2>3, Exchanged DEF PassPlaces
  <2>5. c \in Listed' /\ spans' = spans
    BY <1>1, <2>4 DEF Replaced, Listed
  <2>6. Looking' /\ Chosen'
    BY <1>1, <2>2, <2>4, <2>5 DEF Looking, Chosen, Closes, Closing, Explicit
  <2> QED BY <2>4, <2>6 DEF Passing, PassPlaces, SlotsKept
<1>8. CASE ahead = {} \/ Closes \/ Open(Listed) = {}
  BY <1>5, <1>8 DEF EndOfSource
<1>9. CASE ~(ahead = {} \/ Closes \/ Open(Listed) = {})
  <2> DEFINE old == Weakest(Open(Listed))
  <2>1. PICK c \in ahead :
          IF c \in ids THEN Goto("payoffs") /\ UNCHANGED choice
          ELSE /\ Then(old, "payoffs") /\ Exchange(PlaceOf(old), c)
               /\ Record(old, c) /\ UNCHANGED guarded
    BY <1>9 DEF EndOfSource
  <2>2. old \in Listed
    BY <1>4, <1>9, WeakestIsOne DEF Passing
  <2> QED BY <1>6, <1>7, <2>1, <2>2
<1> QED BY <1>8, <1>9

LEMMA PayoffsKept ==
  ASSUME Passing, Payoffs
  PROVE  Passing'
<1>1. pc = "payoffs" /\ UNCHANGED <<spans, kept, doubled>>
  BY DEF Payoffs
<1>2. PICK v \in ahead \ ids :
        /\ ahead' = ahead \ {v}
        /\ \/ \E e \in {e \in Listed : Explicit(e)} :
                /\ e # v /\ Better(v, e)
                /\ Then(e, "payoffs") /\ Exchange(PlaceOf(e), v)
                /\ Record(e, v) /\ Guard(e, v)
           \/ /\ Plainer(Open(Listed)) # {}
              /\ LET old == Weakest(Plainer(Open(Listed))) IN
                   /\ Then(old, "payoffs") /\ Exchange(PlaceOf(old), v)
                   /\ Record(old, v) /\ UNCHANGED guarded
  BY DEF Payoffs
<1>3. PICK e \in Listed :
        /\ Closing(e) => Closing(v)
        /\ Then(e, "payoffs") /\ Exchange(PlaceOf(e), v) /\ Record(e, v)
        /\ Guard(e, v) \/ UNCHANGED guarded
  <2>1. ASSUME Plainer(Open(Listed)) # {}
        PROVE  /\ Weakest(Plainer(Open(Listed))) \in Listed
               /\ ~Closing(Weakest(Plainer(Open(Listed))))
    <3>1. Plainer(Open(Listed)) \in SUBSET Listed
      BY DEF Plainer, Open
    <3>2. Weakest(Plainer(Open(Listed))) \in Plainer(Open(Listed))
      BY <2>1, <3>1, WeakestIsOne DEF Passing
    <3> QED BY <3>1, <3>2 DEF Plainer, Explicit, Closing
  <2> QED BY <1>2, <2>1 DEF Better
<1> DEFINE i == PlaceOf(e)
<1>4. i \in DOMAIN list /\ list[i] = e
  BY PlaceIsOf DEF Passing
<1>5. v \in All /\ v \notin ids /\ ahead \subseteq All
  BY <1>1, <1>2 DEF Passing, Looking
<1> HIDE DEF i
<1>6. Exchange(i, v) /\ Then(list[i], "payoffs") /\ Record(list[i], v)
      /\ (Guard(list[i], v) \/ UNCHANGED guarded)
  BY <1>3, <1>4 DEF i
<1>7. /\ SlotsKept' /\ All' = All /\ Replaced(list, list', i, v)
      /\ at' = at /\ pc' \in {"payoffs", "stopped"}
  BY <1>1, <1>4, <1>5, <1>6, Exchanged DEF PassPlaces
<1>8. v \in Listed' /\ Listed \subseteq Listed' \cup {e}
  BY <1>4, <1>7 DEF Replaced, Listed
<1>9. (\E c \in All : Closing(c)) => \E c \in Listed' : Closing(c)
  BY <1>1, <1>3, <1>8 DEF Passing, Chosen, Closes
<1>10. Looking' /\ Chosen'
  BY <1>1, <1>2, <1>5, <1>7, <1>9 DEF Looking, Chosen, Closes, Closing
<1> QED BY <1>7, <1>10 DEF Passing, PassPlaces, SlotsKept

LEMMA FinishKept ==
  ASSUME Passing, Finish
  PROVE  Passing'
<1>1. /\ pc = "payoffs" /\ pc' = "done" /\ at' = at /\ ahead' = {} /\ guarded' = {}
      /\ rejected' = rejected \cup (ToSet(kept) \ ids)
      /\ UNCHANGED <<spans, kept, list, ids, doubled>>
  BY DEF Finish, Goto
<1>2. All' = All /\ Listed' = Listed
  BY <1>1 DEF All, Listed
<1>3. Numbered' /\ Accounted' /\ (All' \ Listed' \subseteq rejected')
  BY <1>1, <1>2 DEF Passing, Numbered, Accounted
<1>4. KeptOnce' /\ Selected'
  BY <1>1, <1>2 DEF Passing, KeptOnce, Selected
<1>5. Looking' /\ Chosen'
  BY <1>1, <1>2, <1>3 DEF Passing, Looking, Chosen, Closes, Closing
<1> QED BY <1>1, <1>3, <1>4, <1>5 DEF Passing, PassPlaces

-----------------------------------------------------------------------------
(***************************************************************************)
(* The passes as a whole.                                                  *)
(***************************************************************************)
LEMMA UntouchedKept ==
  ASSUME Untouched, UNCHANGED passVars, at' = "candidates" => pc' \in ProposingPlaces
  PROVE  PassesInv'
<1>1. UNCHANGED <<spans, ahead, kept, list, ids, guarded, rejected, doubled>>
  BY DEF passVars, choice
<1> QED BY <1>1 DEF Untouched, PassesInv

LEMMA NoShortlistInv ==
  ASSUME NoShortlist, at # "candidates"
  PROVE  PassesInv
BY DEF NoShortlist, Untouched, PassesInv

LEMMA ForgottenShortlistInv ==
  ASSUME ForgetShortlist, at' # "candidates"
  PROVE  PassesInv'
BY DEF ForgetShortlist, Untouched, PassesInv

LEMMA BeginningStarts ==
  ASSUME ShortlistAssumption, PassesInv, Beginning
  PROVE  PassesInv'
<1>1. /\ at = "candidates" /\ pc = "eligible"
      /\ UNCHANGED <<kept, list, ids, guarded, rejected, doubled>>
  BY DEF Beginning, choice
<1>2. Untouched
  BY <1>1 DEF PassesInv, Passing, PassPlaces
<1>0. PICK n \in 0 .. Least(MaxSpans, Cardinality(raw)) :
        \E k \in [1 .. n -> {KindOf(c) : c \in raw}] :
          spans' = k /\ Pass("filter", 1 .. n)
  BY DEF Beginning
<1>3. PICK k \in [1 .. n -> {KindOf(c) : c \in raw}] :
        spans' = k /\ Pass("filter", 1 .. n)
  BY <1>0
<1>4. /\ pc' = "filter" /\ at' = "candidates" /\ ahead' = 1 .. n /\ spans' = k
      /\ kept' = <<>> /\ list' = <<>> /\ ids' = {} /\ guarded' = {} /\ doubled' = FALSE
  BY <1>1, <1>2, <1>3 DEF Pass, Goto, Untouched
<1>5. {KindOf(c) : c \in raw} \subseteq Kinds
  BY DEF KindOf, Kinds
<1>6. n \in Nat
  OBVIOUS
<1>7. k \in Seq(Kinds) /\ DOMAIN k = 1 .. n
  BY <1>5, <1>6
<1>8. All' = 1 .. n /\ Listed' = {} /\ ToSet(kept') = {}
  BY <1>4, <1>7 DEF All, Listed, ToSet
<1>9. Numbered' /\ Accounted'
  BY <1>4, <1>7, <1>8 DEF Numbered, Accounted
<1>10. KeptOnce' /\ Selected' /\ Looking' /\ Chosen'
  BY <1>4, <1>8 DEF KeptOnce, IsInjective, Selected, Looking, Chosen
<1> QED BY <1>4, <1>9, <1>10 DEF PassesInv, Passing, PassPlaces

LEMMA PassesKept ==
  ASSUME ShortlistAssumption, PassesInv, at = "candidates", ShortlistNext
  PROVE  PassesInv'
<1>1. CASE ProposingNext /\ UNCHANGED passVars
  <2>1. pc \in ProposingPlaces /\ pc' \in ProposingPlaces
    BY <1>1 DEF ProposingNext, StartProposing, SeedAnchors, Consider, EndBest, EndConsider,
                Fill, EndFill, Propose, EndProposing, Goto, ProposingPlaces
  <2>2. Untouched
    BY <2>1 DEF PassesInv, Passing, PassPlaces, ProposingPlaces
  <2> QED BY <1>1, <2>1, <2>2, UntouchedKept
<1>2. CASE Beginning
  BY <1>2, BeginningStarts
<1>3. CASE Passes
  <2>1. pc \in PassPlaces
    BY <1>3 DEF Passes, Filter, Cut, Lead, Boundary, BoundaryOver, Variants, VariantsOver,
                Minutes, MinutesOver, EndOfSource, Payoffs, Finish, PassPlaces
  <2>2. Passing
    BY <2>1 DEF PassesInv, PassPlaces, ProposingPlaces
  <2>3. CASE Filter \/ Cut \/ Lead \/ Boundary \/ BoundaryOver
    BY <2>2, <2>3, FilterKept, CutKept, LeadKept, BoundaryKept, BoundaryOverKept
       DEF PassesInv
  <2>4. CASE Variants \/ VariantsOver \/ Minutes \/ MinutesOver
    BY <2>2, <2>4, VariantsKept, VariantsOverKept, MinutesKept, MinutesOverKept
       DEF PassesInv
  <2>5. CASE EndOfSource \/ Payoffs \/ Finish
    BY <2>2, <2>5, EndOfSourceKept, PayoffsKept, FinishKept DEF PassesInv
  <2> QED BY <1>3, <2>3, <2>4, <2>5 DEF Passes
<1> QED BY <1>1, <1>2, <1>3 DEF ShortlistNext

LEMMA PassesAreSound ==
  ASSUME PassesInv
  PROVE  NoSecondPlace /\ SourceEndKept /\ DiscardsExplained
<1>1. CASE Passing
  <2>1. pc # "filter" \/ (list = <<>> /\ ids = {} /\ ~doubled)
    BY <1>1 DEF Passing, KeptOnce
  <2>2. NoSecondPlace
    BY <1>1, <2>1 DEF Passing, Numbered, Selected, NoSecondPlace, IsInjective, Listed, ToSet
  <2> QED BY <1>1, <2>2
          DEF Passing, Selected, Chosen, SourceEndKept, DiscardsExplained
<1>2. CASE (at = "candidates" => pc \in ProposingPlaces) /\ Untouched
  BY <1>2 DEF Untouched, ProposingPlaces, NoSecondPlace, SourceEndKept, DiscardsExplained,
              IsInjective, Listed, ToSet
<1> QED BY <1>1, <1>2 DEF PassesInv

-----------------------------------------------------------------------------
(***************************************************************************)
(* The spans proposed.                                                     *)
(***************************************************************************)
LEMMA SameSource ==
  ASSUME UNCHANGED <<units, topic>>
  PROVE  Units' = Units /\ Best' = Best /\ Gap' = Gap /\ Seeds' = Seeds
<1>1. Units' = Units
  BY DEF Units
<1>2. Best' = Best
  BY DEF Best, Units, Strength
<1>3. Gap' = Gap
  BY <1>2 DEF Gap, Distance, Start, Units, Nth
<1>4. Seeds' = Seeds
  BY <1>2 DEF Seeds, Nth
<1> QED BY <1>1, <1>2, <1>3, <1>4

-----------------------------------------------------------------------------
(***************************************************************************)
(* The nth of finitely many numbers.                                       *)
(***************************************************************************)
LEMMA NthIsIn ==
  ASSUME NEW S \in SUBSET Nat, IsFiniteSet(S), NEW n \in 1 .. Cardinality(S)
  PROVE  Nth(S, n) \in S
<1> DEFINE below(x) == {j \in S : j < x}
           some == {x \in S : n - 1 <= Cardinality(below(x))}
<1>1. \A x, y : y \in below(x) <=> y \in S /\ y < x
  OBVIOUS
<1>2. \A x : IsFiniteSet(below(x)) /\ Cardinality(below(x)) \in Nat
  <2>1. \A x : below(x) \in SUBSET S
    OBVIOUS
  <2> QED BY <2>1, FS_Subset, FS_CardinalityType
<1>3. Nth(S, n) = CHOOSE x \in S : Cardinality(below(x)) = n - 1
  BY DEF Nth
<1> HIDE DEF below
<1>4. S # {} /\ Cardinality(S) \in Nat
  BY FS_EmptySet, FS_CardinalityType
<1>5. PICK last \in S : \A x \in S : x <= last
  BY <1>4, FiniteMax
<1>6. below(last) = S \ {last}
  <2>1. ASSUME NEW y PROVE y \in below(last) <=> y \in S \ {last}
    <3>1. CASE y \in S
      <4>1. y < last <=> y # last
        BY <1>5, <3>1
      <4> QED BY <1>1, <3>1, <4>1
    <3>2. CASE y \notin S
      BY <1>1, <3>2
    <3> QED BY <3>1, <3>2
  <2> QED BY <2>1
<1>7. Cardinality(below(last)) = Cardinality(S) - 1
  BY <1>5, <1>6, FS_RemoveElement
<1>8. some \in SUBSET Nat /\ some # {}
  <2>1. last \in some
    BY <1>4, <1>5, <1>7
  <2> QED BY <2>1
<1>9. PICK x \in some : \A y \in some : x <= y
  BY <1>8, MinIsLeast
<1>10. ASSUME n - 1 # Cardinality(below(x)) PROVE FALSE
  <2>1. Cardinality(below(x)) \in Nat /\ n - 1 < Cardinality(below(x))
    BY <1>2, <1>9, <1>10
  <2>2. below(x) # {}
    BY <2>1, FS_EmptySet
  <2>3. below(x) \in SUBSET Nat /\ IsFiniteSet(below(x))
    BY <1>1, <1>2
  <2>4. PICK y \in below(x) : \A z \in below(x) : z <= y
    BY <2>2, <2>3, FiniteMax
  <2>5. y \in S /\ y < x /\ x \in S
    BY <1>1, <1>9, <2>4
  <2>6. \A z : z \in below(y) <=> z \in below(x) \ {y}
    <3>1. ASSUME NEW z PROVE z \in below(y) <=> z \in below(x) \ {y}
      <4>1. CASE z \in S
        BY <1>1, <2>4, <2>5, <4>1
      <4>2. CASE z \notin S
        BY <1>1, <4>2
      <4> QED BY <4>1, <4>2
    <3> QED BY <3>1
  <2>7. below(y) = below(x) \ {y}
    BY <2>6
  <2>8. Cardinality(below(y)) = Cardinality(below(x)) - 1
    <3>1. Cardinality(below(x) \ {y}) =
            IF y \in below(x) THEN Cardinality(below(x)) - 1 ELSE Cardinality(below(x))
      BY <2>3, FS_RemoveElement
    <3> QED BY <2>4, <2>7, <3>1
  <2>9. y \in some
    BY <2>1, <2>5, <2>8
  <2> QED BY <1>9, <2>5, <2>9
<1> QED BY <1>3, <1>9, <1>10

-----------------------------------------------------------------------------
(***************************************************************************)
(* Sentences, topics and anchors.                                          *)
(***************************************************************************)
Sentenced ==
  /\ Len(units) \in Nat /\ Units = 1 .. Len(units)
  /\ \A i \in Units : Start(i) \in Nat /\ Strength(i) \in Nat /\ units[i].end \in Nat
  /\ \A i, j \in Units : i < j => Start(i) < Start(j)

LEMMA SourceIsSentenced ==
  ASSUME SourcesAssumption, units \in Sources
  PROVE  Sentenced
<1> DEFINE Sentence ==
             [start : Nat, end : Nat, shift : Nat, strength : Nat, words : Nat,
              pays : Payings, asks : BOOLEAN, tells : BOOLEAN, whole : BOOLEAN,
              reacts : BOOLEAN]
<1>1. /\ units \in Seq(Sentence)
      /\ \A i, j \in DOMAIN units : i < j => units[i].start < units[j].start
  BY DEF SourcesAssumption
<1>2. \A s \in Sentence : s.start \in Nat /\ s.end \in Nat /\ s.strength \in Nat
  OBVIOUS
<1> HIDE DEF Sentence
<1>3. Len(units) \in Nat /\ DOMAIN units = 1 .. Len(units)
      /\ \A i \in DOMAIN units : units[i] \in Sentence
  BY <1>1
<1> QED BY <1>1, <1>2, <1>3 DEF Sentenced, Units, Start, Strength

LEMMA UnitsAreFinite ==
  ASSUME Sentenced, NEW S \in SUBSET Units
  PROVE  S \in SUBSET Nat /\ IsFiniteSet(S) /\ Cardinality(S) \in Nat
<1>1. Units \in SUBSET Nat /\ IsFiniteSet(Units)
  BY FS_Interval DEF Sentenced
<1>2. S \in SUBSET Nat
  BY <1>1
<1>3. IsFiniteSet(S)
  BY <1>1, FS_Subset
<1>4. Cardinality(S) \in Nat
  BY <1>3, FS_CardinalityType
<1> QED BY <1>2, <1>3, <1>4

LEMMA DistanceIsNumber ==
  ASSUME Sentenced, NEW i \in Units, NEW j \in Units
  PROVE  Distance(i, j) \in Nat /\ Distance(i, j) = Distance(j, i)
BY DEF Sentenced, Distance

\* The strongest and the weakest of some sentences.
LEMMA StrongestExists ==
  ASSUME Sentenced, NEW S \in SUBSET Units, S # {}
  PROVE  /\ \E i \in S : \A j \in S \ {i} : Stronger(i, j)
         /\ \E i \in S : \A j \in S \ {i} : Stronger(j, i)
<1> DEFINE strengths == {Strength(i) : i \in S}
<1>1. S \in SUBSET Nat /\ IsFiniteSet(S)
  BY UnitsAreFinite
<1>2. strengths \in SUBSET Nat /\ strengths # {}
  BY DEF Sentenced
<1>3. IsFiniteSet(strengths)
  <2> DEFINE f == [i \in S |-> Strength(i)]
  <2>1. f \in Surjection(S, strengths)
    BY DEF Surjection
  <2> QED BY <1>1, <2>1, FS_Surjection
<1>4. /\ \A i \in S : Strength(i) \in strengths /\ Strength(i) \in Nat /\ Start(i) \in Nat
      /\ \A g \in strengths : \E i \in S : Strength(i) = g
      /\ \A i, j \in S : i < j => Start(i) < Start(j)
  BY DEF Sentenced
<1> HIDE DEF strengths
<1>5. \E i \in S : \A j \in S \ {i} : Stronger(i, j)
  <2>1. PICK most \in strengths : \A g \in strengths : g <= most
    BY <1>2, <1>3, FiniteMax
  <2> DEFINE top == {i \in S : Strength(i) = most}
  <2>2. top \in SUBSET Nat /\ top # {} /\ IsFiniteSet(top)
    BY <1>1, <1>4, FS_Subset
  <2>3. PICK i \in top : \A j \in top : j <= i
    BY <2>2, FiniteMax
  <2>4. ASSUME NEW j \in S \ {i} PROVE Stronger(i, j)
    <3>1. CASE j \in top
      <4>1. j < i
        BY <1>1, <2>3, <2>4, <3>1
      <4> QED BY <1>4, <3>1, <4>1 DEF Stronger
    <3>2. CASE j \notin top
      <4>1. Strength(j) <= most /\ Strength(j) # most /\ most \in Nat
        BY <1>2, <1>4, <2>1, <3>2
      <4> QED BY <1>4, <4>1 DEF Stronger
    <3> QED BY <3>1, <3>2
  <2> QED BY <2>4
<1>6. \E i \in S : \A j \in S \ {i} : Stronger(j, i)
  <2>1. PICK few \in strengths : \A g \in strengths : few <= g
    BY <1>2, MinIsLeast
  <2> DEFINE low == {i \in S : Strength(i) = few}
  <2>2. low \in SUBSET Nat /\ low # {}
    BY <1>1, <1>4
  <2>3. PICK i \in low : \A j \in low : i <= j
    BY <2>2, MinIsLeast
  <2>4. ASSUME NEW j \in S \ {i} PROVE Stronger(j, i)
    <3>1. CASE j \in low
      <4>1. i < j
        BY <1>1, <2>3, <2>4, <3>1
      <4> QED BY <1>4, <3>1, <4>1 DEF Stronger
    <3>2. CASE j \notin low
      <4>1. few <= Strength(j) /\ Strength(j) # few /\ few \in Nat
        BY <1>2, <1>4, <2>1, <3>2
      <4> QED BY <1>4, <4>1 DEF Stronger
    <3> QED BY <3>1, <3>2
  <2> QED BY <2>4
<1> QED BY <1>5, <1>6

LEMMA GapIsNumber ==
  ASSUME LimitsAssumption, Sentenced, Units # {}
  PROVE  Gap \in Int
<1> DEFINE n == Cardinality(Best) - 1
           gap == [k \in 1 .. n |-> Distance(Nth(Best, k), Nth(Best, k + 1))]
           median == CHOOSE g \in {gap[k] : k \in 1 .. n} :
                       /\ Cardinality({k \in 1 .. n : gap[k] < g}) <= n \div 2
                       /\ n \div 2 < Cardinality({k \in 1 .. n : gap[k] <= g})
           ends == {units[i].end : i \in Units}
           most == Max(ends)
           step == (most - Start(1)) \div Max({1, AnchorLimit - 1})
<1>1. Gap = Least(15, IF n > 0 THEN median ELSE step)
  BY DEF Gap
<1>2. Best \in SUBSET Units
  BY DEF Best
<1>3. Best \in SUBSET Nat /\ IsFiniteSet(Best) /\ n \in Int /\ n + 1 = Cardinality(Best)
  BY <1>2, UnitsAreFinite
<1>4. gap \in [1 .. n -> Nat]
  <2>1. ASSUME NEW k \in 1 .. n PROVE Distance(Nth(Best, k), Nth(Best, k + 1)) \in Nat
    <3>1. Nth(Best, k) \in Units /\ Nth(Best, k + 1) \in Units
      <4>1. k \in 1 .. Cardinality(Best) /\ k + 1 \in 1 .. Cardinality(Best)
        BY <1>3
      <4> QED BY <1>2, <1>3, <4>1, NthIsIn
    <3> QED BY <3>1, DistanceIsNumber
  <2> QED BY <2>1
<1>5. most \in Nat
  <2> DEFINE f == [i \in Units |-> units[i].end]
  <2>1. ends \in SUBSET Nat /\ ends # {}
    BY DEF Sentenced
  <2>2. f \in Surjection(Units, ends)
    BY DEF Surjection
  <2>3. IsFiniteSet(ends)
    BY <2>2, FS_Surjection, UnitsAreFinite
  <2> HIDE DEF ends
  <2> QED BY <2>1, <2>3, FiniteMax
<1>6. Start(1) \in Nat
  BY DEF Sentenced
<1>7. Max({1, AnchorLimit - 1}) \in Nat /\ Max({1, AnchorLimit - 1}) > 0
  <2> DEFINE two == {1, AnchorLimit - 1}
  <2>1. /\ two \in SUBSET Nat /\ two # {} /\ 1 \in two /\ AnchorLimit \in Nat
        /\ \A x \in two : x <= AnchorLimit
    BY DEF LimitsAssumption
  <2> HIDE DEF two
  <2>2. Max(two) \in two /\ \A x \in two : x <= Max(two)
    BY <2>1, MaxIsGreatest
  <2>3. Max(two) \in Nat /\ 1 <= Max(two)
    BY <2>1, <2>2
  <2> QED BY <2>3 DEF two
<1>8. step \in Int
  <2> HIDE DEF most
  <2> QED BY <1>5, <1>6, <1>7
<1> HIDE DEF gap, n, step
<1>9. ASSUME n > 0 PROVE median \in Nat
  <2>1. n \in Nat \ {0}
    BY <1>3, <1>9
  <2>2. median \in {gap[k] : k \in 1 .. n}
    BY <1>4, <2>1, MedianExists
  <2> QED BY <1>4, <2>2
<1> HIDE DEF median
<1> QED BY <1>1, <1>8, <1>9 DEF Least

-----------------------------------------------------------------------------
(***************************************************************************)
(* There is room for the seeds, and each sentence that is added keeps the  *)
(* distance.                                                               *)
(***************************************************************************)
LEMMA ShareIsBounded ==
  ASSUME NEW b \in Nat, NEW l \in Nat \ {0}, NEW s \in 0 .. l
  PROVE  (s * b) \div l \in 0 .. b
<1>1. PICK m \in Nat : m = s * b
  OBVIOUS
<1>2. m <= l * b
  <2>1. s * b <= l * b
    OBVIOUS
  <2> QED BY <1>1, <2>1
<1>3. PICK q \in Nat : q = m \div l /\ l * q <= m
  <2>1. m \div l \in Nat /\ l * (m \div l) <= m
    OBVIOUS
  <2> QED BY <2>1
<1>4. ASSUME b < q PROVE FALSE
  <2>1. l * (b + 1) <= l * q
    BY <1>4
  <2>2. l * (b + 1) = l * b + l
    OBVIOUS
  <2> QED BY <1>2, <1>3, <2>1, <2>2
<1> QED BY <1>1, <1>3, <1>4

LEMMA SeedsAreFew ==
  ASSUME LimitsAssumption, Sentenced
  PROVE  Seeds \in SUBSET Units /\ Cardinality(Seeds) <= AnchorLimit
<1>1. Best \in SUBSET Units
  BY DEF Best
<1>2. Best \in SUBSET Nat /\ IsFiniteSet(Best) /\ Cardinality(Best) \in Nat
  BY <1>1, UnitsAreFinite
<1>3. CASE Cardinality(Best) <= AnchorLimit
  BY <1>1, <1>3 DEF Seeds
<1>4. CASE ~(Cardinality(Best) <= AnchorLimit)
  <2> DEFINE l == Max({1, AnchorLimit - 1})
             b == Cardinality(Best) - 1
             place(slot) == 1 + (slot * b) \div l
             f == [slot \in 0 .. AnchorLimit - 1 |-> Nth(Best, place(slot))]
  <2>1. AnchorLimit \in Nat \ {0} /\ b \in Nat /\ b + 1 = Cardinality(Best)
    BY <1>2, <1>4 DEF LimitsAssumption
  <2>2. l \in Nat \ {0} /\ AnchorLimit - 1 <= l
    <3> DEFINE two == {1, AnchorLimit - 1}
    <3>1. /\ two \in SUBSET Nat /\ two # {} /\ 1 \in two /\ AnchorLimit - 1 \in two
          /\ \A x \in two : x <= AnchorLimit
      BY <2>1
    <3> HIDE DEF two
    <3>2. Max(two) \in two /\ \A x \in two : x <= Max(two)
      BY <2>1, <3>1, MaxIsGreatest
    <3>3. Max(two) \in Nat /\ 1 <= Max(two) /\ AnchorLimit - 1 <= Max(two)
      BY <3>1, <3>2
    <3>4. Max(two) \in Nat \ {0}
      BY <3>3
    <3> QED BY <3>3, <3>4 DEF two
  <2> HIDE DEF l, b
  <2>3. ASSUME NEW slot \in 0 .. AnchorLimit - 1 PROVE Nth(Best, place(slot)) \in Units
    <3>1. slot \in 0 .. l
      BY <2>1, <2>2
    <3>2. (slot * b) \div l \in 0 .. b
      BY <2>1, <2>2, <3>1, ShareIsBounded
    <3>3. place(slot) \in 1 .. Cardinality(Best)
      BY <2>1, <3>2
    <3> QED BY <1>1, <1>2, <3>3, NthIsIn
  <2>4. Seeds = {Nth(Best, place(slot)) : slot \in 0 .. AnchorLimit - 1}
    BY <1>4 DEF Seeds, b, l
  <2> HIDE DEF place
  <2>5. f \in Surjection(0 .. AnchorLimit - 1, Seeds)
    BY <2>4 DEF Surjection
  <2>6. IsFiniteSet(0 .. AnchorLimit - 1) /\ Cardinality(0 .. AnchorLimit - 1) = AnchorLimit
    <3>1. AnchorLimit \in Nat
      BY <2>1
    <3> QED BY <3>1, CountTo
  <2>7. Cardinality(Seeds) <= AnchorLimit
    BY <2>5, <2>6, FS_Surjection
  <2> QED BY <2>3, <2>4, <2>7
<1> QED BY <1>3, <1>4

LEMMA StrongestIsOne ==
  ASSUME Sentenced, rest \in SUBSET Units, rest # {}
  PROVE  Strongest \in rest
BY StrongestExists DEF Strongest

LEMMA AnchorsStayFew ==
  ASSUME LimitsAssumption, Sentenced, anchors \in SUBSET Units,
         Cardinality(anchors) <= AnchorLimit, NEW i \in Units
  PROVE  /\ Cardinality(AddAnchor(i)) <= AnchorLimit
         /\ AddAnchor(i) \subseteq anchors \cup {i}
<1>1. IsFiniteSet(anchors) /\ Cardinality(anchors) \in Nat
  BY UnitsAreFinite
<1>2. AnchorLimit \in Nat \ {0}
  BY DEF LimitsAssumption
<1>3. CASE Cardinality(anchors) < AnchorLimit
  <2>1. Cardinality(anchors \cup {i}) <= Cardinality(anchors) + 1
    <3>1. Cardinality(anchors \cup {i}) =
            IF i \in anchors THEN Cardinality(anchors) ELSE Cardinality(anchors) + 1
      BY <1>1, FS_AddElement
    <3> QED BY <1>1, <3>1
  <2>2. Cardinality(anchors \cup {i}) \in Nat
    BY <1>1, FS_AddElement, FS_CardinalityType
  <2>3. Cardinality(anchors \cup {i}) <= AnchorLimit
    BY <1>1, <1>2, <1>3, <2>1, <2>2
  <2> QED BY <1>3, <2>3 DEF AddAnchor
<1>4. CASE ~(Cardinality(anchors) < AnchorLimit)
  <2>1. anchors # {}
    BY <1>2, <1>4, FS_EmptySet
  <2>2. WeakestAnchor \in anchors
    BY <2>1, StrongestExists DEF WeakestAnchor
  <2> DEFINE fewer == anchors \ {WeakestAnchor}
  <2>3. IsFiniteSet(fewer) /\ Cardinality(fewer) = Cardinality(anchors) - 1
    BY <1>1, <2>2, FS_RemoveElement
  <2> HIDE DEF fewer
  <2>4. Cardinality(fewer \cup {i}) =
          IF i \in fewer THEN Cardinality(fewer) ELSE Cardinality(fewer) + 1
    BY <2>3, FS_AddElement
  <2>5. Cardinality(fewer \cup {i}) <= AnchorLimit
    BY <1>1, <1>2, <2>3, <2>4
  <2> QED BY <1>4, <2>5 DEF AddAnchor, fewer
<1> QED BY <1>3, <1>4

LEMMA AnchorsStaySpread ==
  ASSUME LimitsAssumption, Sentenced, anchors \in SUBSET Units, AnchorsSpread,
         NEW i \in Units, NEW d \in {8, Gap}, Apart(i, d), UNCHANGED <<units, topic>>,
         anchors' \subseteq anchors \cup {i}, Cardinality(anchors') <= AnchorLimit
  PROVE  AnchorsSpread'
<1>1. Gap \in Int
  BY GapIsNumber
<1>2. ASSUME NEW a \in anchors PROVE ~(Distance(a, i) < Least(8, Gap))
  <2>1. Distance(a, i) \in Nat /\ Distance(a, i) >= d
    BY DistanceIsNumber DEF Apart
  <2> QED BY <1>1, <2>1 DEF Least
<1>3. ASSUME NEW a \in anchors', NEW b \in anchors', a # b, Distance(a, b) < Least(8, Gap)
      PROVE  {a, b} \subseteq Seeds
  <2>1. CASE a \in anchors /\ b \in anchors
    BY <1>3, <2>1 DEF AnchorsSpread
  <2>2. CASE a \in anchors /\ b = i
    BY <1>2, <1>3, <2>2
  <2>3. CASE a = i /\ b \in anchors
    <3>1. Distance(a, b) = Distance(b, i)
      BY <2>3, DistanceIsNumber
    <3> QED BY <1>2, <1>3, <2>3, <3>1
  <2> QED BY <1>3, <2>1, <2>2, <2>3
<1>4. Gap' = Gap /\ Seeds' = Seeds
  BY SameSource
<1> QED BY <1>3, <1>4 DEF AnchorsSpread, Distance, Start

-----------------------------------------------------------------------------
(***************************************************************************)
(* What the steps that propose keep true.                                  *)
(***************************************************************************)
Proposed ==
  /\ at = "candidates" /\ pc \in ProposingPlaces \ {"start"}
  /\ units \in Sources /\ anchors \in SUBSET Units /\ rest \in SUBSET Units
  /\ pc = "seed" => anchors = {}
  /\ pc = "propose" => rest \subseteq anchors
  /\ pc \notin {"propose", "eligible"} => raw = {}
  /\ AnchorsSpread /\ SpansReachAnchors
ProposingInv ==
  \/ Proposed
  \/ (at = "candidates" => pc \notin ProposingPlaces \ {"start"}) /\ NoProposals

ProposingAssumptions == LimitsAssumption /\ SourcesAssumption

\* Of no anchors and no spans all is true.
LEMMA NothingProposed ==
  ASSUME LimitsAssumption
  PROVE  /\ (anchors = {} => AnchorsSpread) /\ (raw = {} => SpansReachAnchors)
         /\ (anchors' = {} => AnchorsSpread') /\ (raw' = {} => SpansReachAnchors')
<1>1. Cardinality({}) <= AnchorLimit
  BY FS_EmptySet DEF LimitsAssumption
<1> QED BY <1>1 DEF AnchorsSpread, SpansReachAnchors

LEMMA StartProposingKept ==
  ASSUME ProposingAssumptions, ProposingInv, StartProposing
  PROVE  ProposingInv'
<1>1. NoProposals
  BY DEF StartProposing, ProposingInv, Proposed, ProposingPlaces
<1>2. /\ at' = "candidates" /\ pc' = "seed" /\ units' \in Sources
      /\ anchors' = {} /\ rest' = {} /\ raw' = {}
  BY <1>1 DEF StartProposing, NoProposals, Goto
<1>3. AnchorsSpread' /\ SpansReachAnchors'
  BY <1>2, NothingProposed DEF ProposingAssumptions
<1> QED BY <1>2, <1>3 DEF ProposingInv, Proposed, ProposingPlaces

LEMMA SeedAnchorsKept ==
  ASSUME ProposingAssumptions, Proposed, SeedAnchors
  PROVE  Proposed'
<1>1. /\ pc = "seed" /\ pc' = "best" /\ at' = at /\ anchors' = Seeds /\ rest' = Best
      /\ UNCHANGED <<units, topic, raw>>
  BY DEF SeedAnchors, Goto
<1>2. Seeds \in SUBSET Units /\ Cardinality(Seeds) <= AnchorLimit
  BY SourceIsSentenced, SeedsAreFew DEF Proposed, ProposingAssumptions
<1>3. Units' = Units /\ Seeds' = Seeds /\ Best \in SUBSET Units
  BY <1>1, SameSource DEF Best
<1>4. AnchorsSpread'
  BY <1>1, <1>2, <1>3 DEF AnchorsSpread
<1>5. raw' = {} /\ SpansReachAnchors'
  BY <1>1, NothingProposed DEF Proposed, ProposingAssumptions
<1> QED BY <1>1, <1>2, <1>3, <1>4, <1>5 DEF Proposed, ProposingPlaces

\* A step that goes on to another sentence, and adds this one or does not.
LEMMA SentenceConsidered ==
  ASSUME ProposingAssumptions, Proposed, pc \in {"best", "anchors", "fill"}, pc' = pc,
         at' = at, UNCHANGED <<units, topic, raw>>, rest # {}, rest' \subseteq rest,
         \/ UNCHANGED anchors
         \/ /\ Apart(Strongest, Room(Strongest)) \/ Apart(Strongest, Gap)
            /\ Cardinality(anchors') <= AnchorLimit
            /\ anchors' \subseteq anchors \cup {Strongest}
  PROVE  Proposed'
<1>1. Sentenced /\ Strongest \in Units
  BY SourceIsSentenced, StrongestIsOne DEF Proposed, ProposingAssumptions
<1>2. Room(Strongest) \in {8, Gap}
  BY DEF Room
<1>3. Units' = Units /\ Gap' = Gap /\ Seeds' = Seeds
  BY SameSource
<1>4. anchors' \in SUBSET Units
  BY <1>1 DEF Proposed
<1>5. AnchorsSpread'
  <2>1. CASE UNCHANGED anchors
    BY <1>3, <2>1 DEF Proposed, AnchorsSpread, Distance, Start
  <2>2. CASE /\ Apart(Strongest, Room(Strongest)) \/ Apart(Strongest, Gap)
             /\ Cardinality(anchors') <= AnchorLimit
             /\ anchors' \subseteq anchors \cup {Strongest}
    BY <1>1, <1>2, <2>2, AnchorsStaySpread DEF Proposed, ProposingAssumptions
  <2> QED BY <2>1, <2>2
<1>6. raw' = {} /\ SpansReachAnchors'
  BY NothingProposed DEF Proposed, ProposingAssumptions
<1> QED BY <1>3, <1>4, <1>5, <1>6 DEF Proposed

LEMMA ConsiderKept ==
  ASSUME ProposingAssumptions, Proposed, Consider
  PROVE  Proposed'
<1>1. /\ pc \in {"best", "anchors"} /\ pc' = pc /\ at' = at /\ rest # {}
      /\ rest' \subseteq rest /\ UNCHANGED <<units, topic, raw>>
      /\ anchors' = IF Apart(Strongest, Room(Strongest)) THEN AddAnchor(Strongest)
                    ELSE anchors
  BY DEF Consider, Goto
<1>2. Strongest \in Units /\ Sentenced
  BY <1>1, SourceIsSentenced, StrongestIsOne DEF Proposed, ProposingAssumptions
<1>3. /\ Cardinality(AddAnchor(Strongest)) <= AnchorLimit
      /\ AddAnchor(Strongest) \subseteq anchors \cup {Strongest}
  BY <1>2, AnchorsStayFew DEF Proposed, ProposingAssumptions, AnchorsSpread
<1> QED BY <1>1, <1>3, SentenceConsidered

LEMMA FillKept ==
  ASSUME ProposingAssumptions, Proposed, Fill
  PROVE  Proposed'
<1>1. /\ pc = "fill" /\ pc' = pc /\ at' = at /\ rest # {}
      /\ rest' \subseteq rest /\ UNCHANGED <<units, topic, raw>>
      /\ anchors' = IF Cardinality(anchors) < AnchorLimit /\ Apart(Strongest, Gap)
                      THEN anchors \cup {Strongest} ELSE anchors
  BY DEF Fill, Goto
<1>2. Strongest \in Units /\ Sentenced
  BY <1>1, SourceIsSentenced, StrongestIsOne DEF Proposed, ProposingAssumptions
<1>3. /\ Cardinality(AddAnchor(Strongest)) <= AnchorLimit
      /\ Cardinality(anchors) < AnchorLimit =>
           AddAnchor(Strongest) = anchors \cup {Strongest}
  BY <1>2, AnchorsStayFew DEF Proposed, ProposingAssumptions, AnchorsSpread, AddAnchor
<1> QED BY <1>1, <1>3, SentenceConsidered

\* The steps between the loops.
LEMMA LoopEndKept ==
  ASSUME ProposingAssumptions, Proposed, EndBest \/ EndConsider \/ EndFill \/ EndProposing
  PROVE  Proposed'
<1>1. /\ at' = at /\ UNCHANGED <<units, topic, anchors, raw>>
      /\ rest' \in SUBSET Units /\ pc \in {"best", "anchors", "fill", "propose"}
      /\ pc' \in {"anchors", "fill", "propose", "eligible"}
      /\ pc' = "propose" => rest' = anchors
      /\ pc' \in {"anchors", "fill", "propose"} => pc # "propose"
  BY DEF EndBest, EndConsider, EndFill, EndProposing, Goto, Proposed, proposingVars
<1>2. Units' = Units /\ Gap' = Gap /\ Seeds' = Seeds
  BY <1>1, SameSource
<1>3. AnchorsSpread'
  BY <1>1, <1>2 DEF Proposed, AnchorsSpread, Distance, Start
<1>4. SpansReachAnchors'
  BY <1>1 DEF Proposed, SpansReachAnchors, Start, Evident
<1> QED BY <1>1, <1>2, <1>3, <1>4 DEF Proposed, ProposingPlaces

(***************************************************************************)
(* The spans proposed of an anchor reach it.                               *)
(***************************************************************************)
LEMMA OpeningsComeFirst ==
  ASSUME Sentenced, NEW a \in Units, NEW i \in Openings(a)
  PROVE  i \in Units /\ i <= a
<1>1. Len(units) \in Nat /\ Units = 1 .. Len(units)
  BY DEF Sentenced
<1>2. Setups(a) \subseteq 1 .. a - 1 /\ EarlierOutcomes(a) \subseteq 1 .. a - 1
  BY DEF Setups, EarlierOutcomes
<1>3. InContext(a) => Max(EarlierOutcomes(a)) \in EarlierOutcomes(a)
  <2>1. /\ a \in Nat /\ EarlierOutcomes(a) \in SUBSET Nat
        /\ \A x \in EarlierOutcomes(a) : x <= a
    <3>1. a \in Nat /\ \A x \in 1 .. a - 1 : x \in Nat /\ x <= a
      BY <1>1
    <3> QED BY <1>2, <3>1
  <2>2. InContext(a) => EarlierOutcomes(a) # {}
    BY DEF InContext
  <2> QED BY <2>1, <2>2, MaxIsGreatest
<1>4. i = a \/ i \in 1 .. a - 1
  BY <1>2, <1>3 DEF Openings
<1> QED BY <1>1, <1>4

LEMMA TriedEndsAreEnds ==
  ASSUME NEW a
  PROVE  TriedEnds(a) \subseteq Ends(a)
BY DEF TriedEnds, Outer, PaidEnds

LEMMA PayoffIsEvident ==
  ASSUME Sentenced, NEW f \in Units, NEW l \in Units, PayoffIn(f, l) # 0
  PROVE  PayoffIn(f, l) \in f .. l /\ Evident(PayoffIn(f, l), f)
<1> DEFINE evident == {i \in f .. l : Evident(i, f)}
           some == evident \cup {0}
<1>1. Len(units) \in Nat /\ Units = 1 .. Len(units)
  BY DEF Sentenced
<1>2. some \in SUBSET Nat /\ some # {} /\ \A x \in some : x <= l
  BY <1>1
<1>3. Max(some) \in some
  <2> HIDE DEF some
  <2>1. l \in Nat
    BY <1>1
  <2> QED BY <1>2, <2>1, MaxIsGreatest
<1>4. PayoffIn(f, l) = Max(some)
  BY DEF PayoffIn
<1> QED BY <1>3, <1>4

LEMMA ProposeKept ==
  ASSUME ProposingAssumptions, Proposed, Propose
  PROVE  Proposed'
<1> DEFINE a == Min(rest)
           chosen == {q \in Openings(a) \X TriedEnds(a) : Fits(q[1], q[2])}
<1>1. /\ pc = "propose" /\ pc' = "propose" /\ at' = at /\ rest # {}
      /\ rest' = rest \ {a} /\ UNCHANGED <<units, topic, anchors>>
      /\ raw' = raw \cup {Story(a, p[1], p[2]) : p \in chosen}
  BY DEF Propose, Goto
<1>2. Sentenced
  BY SourceIsSentenced DEF Proposed, ProposingAssumptions
<1>3. rest \in SUBSET Nat /\ rest \subseteq anchors /\ rest \subseteq Units
  BY <1>1, <1>2 DEF Proposed, Sentenced
<1>4. a \in rest
  BY <1>1, <1>3, MinIsLeast
<1> HIDE DEF a
<1>5. ASSUME NEW p \in chosen, NEW c, c = Story(a, p[1], p[2])
      PROVE  /\ c.first <= c.anchor /\ c.anchor \in anchors
             /\ Start(c.anchor) <= units[c.last].end /\ units[c.last].whole
             /\ 8 <= units[c.last].end - Start(c.first)
             /\ units[c.last].end - Start(c.first) <= 75
             /\ c.payoff # 0 => c.payoff \in c.first .. c.last /\ Evident(c.payoff, c.first)
  <2>1. p[1] \in Openings(a) /\ p[2] \in TriedEnds(a) /\ Fits(p[1], p[2])
    OBVIOUS
  <2>2. p[1] \in Units /\ p[1] <= a /\ a \in Units
    BY <1>2, <1>3, <1>4, <2>1, OpeningsComeFirst
  <2>3. p[2] \in Units /\ units[p[2]].whole /\ units[p[2]].end >= Start(a)
    BY <2>1, TriedEndsAreEnds DEF Ends
  <2>4. /\ c.anchor = a /\ c.first = p[1] /\ c.last = p[2]
        /\ c.payoff = PayoffIn(p[1], p[2])
    BY <1>5 DEF Story
  <2>5. Start(a) \in Nat /\ Start(p[1]) \in Nat /\ units[p[2]].end \in Nat
    BY <1>2, <2>2, <2>3 DEF Sentenced
  <2>6. /\ 8 <= units[p[2]].end - Start(p[1])
        /\ units[p[2]].end - Start(p[1]) <= 75
    BY <2>1 DEF Fits
  <2>7. c.payoff # 0 => c.payoff \in c.first .. c.last /\ Evident(c.payoff, c.first)
    BY <1>2, <2>2, <2>3, <2>4, PayoffIsEvident
  <2> QED BY <1>3, <1>4, <2>2, <2>3, <2>4, <2>5, <2>6, <2>7
<1> HIDE DEF chosen
<1>6. Units' = Units /\ Gap' = Gap /\ Seeds' = Seeds
  BY <1>1, SameSource
<1>7. AnchorsSpread'
  BY <1>1, <1>6 DEF Proposed, AnchorsSpread, Distance, Start
<1>8. SpansReachAnchors'
  <2>1. ASSUME NEW c \in raw'
        PROVE  /\ c.first <= c.anchor /\ c.anchor \in anchors
               /\ Start(c.anchor) <= units[c.last].end /\ units[c.last].whole
               /\ 8 <= units[c.last].end - Start(c.first)
               /\ units[c.last].end - Start(c.first) <= 75
               /\ c.payoff # 0 =>
                    c.payoff \in c.first .. c.last /\ Evident(c.payoff, c.first)
    BY <1>1, <1>5, <2>1 DEF Proposed, SpansReachAnchors
  <2> QED BY <1>1, <2>1 DEF SpansReachAnchors, Start, Evident
<1> QED BY <1>1, <1>6, <1>7, <1>8 DEF Proposed, ProposingPlaces

LEMMA NoProposalsInv ==
  ASSUME NoProposals, at # "candidates"
  PROVE  ProposingInv
BY DEF ProposingInv

LEMMA ForgottenProposalsInv ==
  ASSUME ForgetProposals, at' = "candidates" => pc' \notin ProposingPlaces \ {"start"}
  PROVE  ProposingInv'
BY DEF ProposingInv, ForgetProposals, NoProposals

LEMMA ProposingKept ==
  ASSUME ProposingAssumptions, ProposingInv, at = "candidates", ShortlistNext
  PROVE  ProposingInv'
<1>1. CASE ProposingNext
  <2>1. CASE StartProposing
    BY <2>1, StartProposingKept
  <2>2. CASE \/ SeedAnchors \/ Consider \/ EndBest \/ EndConsider
             \/ Fill \/ EndFill \/ Propose \/ EndProposing
    <3>1. Proposed
      BY <2>2 DEF SeedAnchors, Consider, EndBest, EndConsider, Fill, EndFill, Propose,
                  EndProposing, ProposingInv, ProposingPlaces
    <3> QED BY <2>2, <3>1, SeedAnchorsKept, ConsiderKept, FillKept, LoopEndKept,
               ProposeKept DEF ProposingInv
  <2> QED BY <1>1, <2>1, <2>2 DEF ProposingNext
<1>2. CASE Beginning
  <2>1. ForgetProposals /\ pc' = "filter"
    BY <1>2 DEF Beginning, Pass, Goto
  <2> QED BY <2>1, ForgottenProposalsInv DEF ProposingPlaces
<1>3. CASE Passes /\ UNCHANGED proposingVars
  <2>1. pc \in PassPlaces /\ pc' \in PassPlaces /\ at' = at
    <3>1. CASE Filter \/ Cut \/ Lead \/ BoundaryOver \/ VariantsOver \/ MinutesOver \/ Finish
      BY <3>1 DEF Filter, Cut, Lead, BoundaryOver, VariantsOver, MinutesOver, Finish, Pass,
                  Goto, PassPlaces
    <3>2. CASE Boundary \/ Variants
      BY <3>2 DEF Boundary, Variants, Then, Goto, PassPlaces
    <3>3. CASE Minutes \/ EndOfSource \/ Payoffs
      BY <3>3 DEF Minutes, EndOfSource, Payoffs, Then, Goto, PassPlaces
    <3> QED BY <1>3, <3>1, <3>2, <3>3 DEF Passes
  <2>2. NoProposals
    BY <2>1 DEF ProposingInv, Proposed, PassPlaces, ProposingPlaces
  <2>3. NoProposals'
    BY <1>3, <2>2 DEF NoProposals, proposingVars
  <2> QED BY <2>1, <2>3 DEF ProposingInv, PassPlaces, ProposingPlaces
<1> QED BY <1>1, <1>2, <1>3 DEF ShortlistNext

-----------------------------------------------------------------------------
(***************************************************************************)
(* The candidates as a whole.                                              *)
(***************************************************************************)
CandidatesAssumptions == ProposingAssumptions /\ ShortlistAssumption
CandidatesInv == ProposingInv /\ PassesInv

LEMMA CandidatesKept ==
  ASSUME CandidatesAssumptions, CandidatesInv, at = "candidates", ShortlistNext
  PROVE  CandidatesInv'
BY ProposingKept, PassesKept DEF CandidatesAssumptions, CandidatesInv

LEMMA NoCandidatesInv ==
  ASSUME NoShortlist, at # "candidates"
  PROVE  CandidatesInv
BY NoShortlistInv, NoProposalsInv DEF NoShortlist, CandidatesInv

LEMMA ForgottenCandidatesInv ==
  ASSUME ForgetShortlist, at' # "candidates"
  PROVE  CandidatesInv'
BY ForgottenShortlistInv, ForgottenProposalsInv DEF ForgetShortlist, CandidatesInv

\* Also when the stage is entered.
LEMMA CandidatesStay ==
  ASSUME CandidatesInv, UNCHANGED shortlistVars, at # "candidates",
         at' = "candidates" => pc' = "start"
  PROVE  CandidatesInv'
<1>1. UNCHANGED passVars /\ UNCHANGED proposingVars
  BY DEF shortlistVars
<1>2. Untouched /\ NoProposals
  BY DEF CandidatesInv, PassesInv, Passing, ProposingInv, Proposed
<1>3. PassesInv'
  BY <1>1, <1>2, UntouchedKept DEF ProposingPlaces
<1>4. NoProposals'
  BY <1>1, <1>2 DEF NoProposals, proposingVars
<1> QED BY <1>3, <1>4 DEF CandidatesInv, ProposingInv

\* And by a step that leaves the stage where it is.
LEMMA CandidatesStill ==
  ASSUME CandidatesInv, UNCHANGED <<at, pc>>, UNCHANGED shortlistVars
  PROVE  CandidatesInv'
<1>1. /\ UNCHANGED <<spans, ahead, kept, list, ids, guarded, rejected, doubled>>
      /\ UNCHANGED <<units, topic, anchors, rest, raw>>
  BY DEF shortlistVars, passVars, choice, proposingVars
<1>2. All' = All /\ Listed' = Listed /\ Units' = Units /\ Gap' = Gap /\ Seeds' = Seeds
  BY <1>1, SameSource DEF All, Listed
<1>6. \A c : Closing(c)' = Closing(c)
  BY <1>1 DEF Closing
<1>7. Closes' = Closes /\ (\E c \in All : Closing(c))' = (\E c \in All : Closing(c))
      /\ {c \in All : Closing(c)}' = {c \in All : Closing(c)}
  BY <1>2, <1>6 DEF Closes
<1>3. PassesInv'
  <2>1. CASE Passing
    <3>1. Numbered' /\ Accounted' /\ KeptOnce' /\ Selected'
      BY <1>1, <1>2, <2>1 DEF Passing, Numbered, Accounted, KeptOnce, Selected
    <3>2. Looking' /\ Chosen'
      BY <1>1, <1>2, <1>7, <2>1 DEF Passing, Looking, Chosen
    <3> QED BY <1>1, <2>1, <3>1, <3>2 DEF Passing, PassesInv
  <2>2. CASE ~Passing
    BY <1>1, <2>2 DEF PassesInv, Untouched, CandidatesInv
  <2> QED BY <2>1, <2>2
<1>4. (AnchorsSpread => AnchorsSpread') /\ (SpansReachAnchors => SpansReachAnchors')
  BY <1>1, <1>2 DEF AnchorsSpread, Distance, SpansReachAnchors, Start, Evident
<1>5. ProposingInv'
  BY <1>1, <1>2, <1>4 DEF CandidatesInv, ProposingInv, Proposed, NoProposals
<1> QED BY <1>3, <1>5 DEF CandidatesInv

LEMMA CandidatesHold ==
  ASSUME CandidatesAssumptions, CandidatesInv
  PROVE  /\ AnchorsSpread /\ SpansReachAnchors
         /\ NoSecondPlace /\ SourceEndKept /\ DiscardsExplained
<1>1. AnchorsSpread /\ SpansReachAnchors
  BY NothingProposed DEF CandidatesAssumptions, ProposingAssumptions, CandidatesInv,
                         ProposingInv, Proposed, NoProposals
<1> QED BY <1>1, PassesAreSound DEF CandidatesInv
================================================================================
