------------------------------ MODULE Clips_proofs -----------------------------
(***************************************************************************)
(* Proofs about the stages that work on one clip at a time (Repair, Camera,*)
(* Editing), for every value of their constants.                           *)
(***************************************************************************)
EXTENDS Repair, Camera, Editing, FiniteSetTheorems, SequenceTheorems, WellFoundedInduction,
        TLAPS

-----------------------------------------------------------------------------
\* Places: how many there are from the first on, and what is a list.
LEMMA CountTo ==
  ASSUME NEW n \in Nat
  PROVE  /\ IsFiniteSet(1 .. n) /\ Cardinality(1 .. n) = n
         /\ IsFiniteSet(0 .. n - 1) /\ Cardinality(0 .. n - 1) = n
<1>1. IsFiniteSet(1 .. n) /\ Cardinality(1 .. n) = IF 1 > n THEN 0 ELSE n - 1 + 1
  BY FS_Interval
<1>2. n - 1 \in Int
  OBVIOUS
<1>3. /\ IsFiniteSet(0 .. n - 1)
      /\ Cardinality(0 .. n - 1) = IF 0 > n - 1 THEN 0 ELSE (n - 1) - 0 + 1
  BY <1>2, FS_Interval
<1> QED BY <1>1, <1>3

LEMMA ListsAre ==
  ASSUME NEW T, NEW n \in Nat, NEW f \in [1 .. n -> T]
  PROVE  f \in Seq(T)
OBVIOUS

(***************************************************************************)
(* The least and the greatest of a set of naturals.                        *)
(***************************************************************************)
LEMMA MinIsLeast ==
  ASSUME NEW S \in SUBSET Nat, S # {}
  PROVE  Min(S) \in S /\ \A x \in S : Min(S) <= x
<1> DEFINE R == {ss \in Nat \X Nat : ss[1] < ss[2]}
<1>1. IsWellFoundedOn(R, Nat)
  BY Zenon, NatLessThanWellFounded DEF OpToRel
<1> HIDE DEF R
<1>2. PICK x \in S : \A y \in S : ~(<<y, x>> \in R)
  BY <1>1, WFMin
<1>3. ASSUME NEW y \in S PROVE x <= y
  <2>1. y < x => <<y, x>> \in R
    BY DEF R
  <2> QED BY <2>1, <1>2
<1> QED BY <1>3 DEF Min

LEMMA MaxIsGreatest ==
  ASSUME NEW S \in SUBSET Nat, S # {}, NEW n \in Nat, \A x \in S : x <= n
  PROVE  Max(S) \in S /\ \A x \in S : x <= Max(S)
<1> DEFINE T == {n - x : x \in S}
<1>5. ASSUME NEW x \in S PROVE n - x \in Nat
  OBVIOUS
<1>1. T \in SUBSET Nat /\ T # {}
  BY <1>5
<1>2. Min(T) \in T /\ \A y \in T : Min(T) <= y
  BY <1>1, MinIsLeast
<1>3. PICK x \in S : Min(T) = n - x
  BY <1>2
<1>4. ASSUME NEW y \in S PROVE y <= x
  <2>1. n - y \in T
    OBVIOUS
  <2>2. n - x <= n - y
    BY <1>2, <1>3, <2>1
  <2> QED BY <2>2
<1> QED BY <1>4 DEF Max

(***************************************************************************)
(* The last and the median of finitely many numbers.                       *)
(***************************************************************************)
LEMMA FiniteMax ==
  ASSUME NEW S \in SUBSET Nat, IsFiniteSet(S), S # {}
  PROVE  Max(S) \in S /\ \A x \in S : x <= Max(S)
<1> DEFINE above(x) == {y \in S : x < y}
           counts == {Cardinality(above(x)) : x \in S}
<1>1. \A x, y : y \in above(x) <=> y \in S /\ x < y
  OBVIOUS
<1>2. \A x : IsFiniteSet(above(x)) /\ Cardinality(above(x)) \in Nat
  <2>1. \A x : above(x) \in SUBSET S
    OBVIOUS
  <2> QED BY <2>1, FS_Subset, FS_CardinalityType
<1> HIDE DEF above
<1>3. counts \in SUBSET Nat /\ counts # {}
  BY <1>2
<1>4. Min(counts) \in counts /\ \A c \in counts : Min(counts) <= c
  BY <1>3, MinIsLeast
<1>5. PICK x \in S : Cardinality(above(x)) = Min(counts)
  BY <1>4
<1>6. ASSUME NEW y \in S, x < y PROVE FALSE
  <2>1. y \in above(x) /\ y \notin above(y) /\ above(y) \subseteq above(x)
    <3>1. y \in above(x) /\ y \notin above(y)
      BY <1>1, <1>6
    <3>2. ASSUME NEW z \in above(y) PROVE z \in above(x)
      <4>1. z \in S /\ y < z
        BY <1>1, <3>2
      <4>2. x < z
        BY <1>6, <4>1
      <4> QED BY <1>1, <4>1, <4>2
    <3> QED BY <3>1, <3>2
  <2>2. /\ Cardinality(above(y)) <= Cardinality(above(x))
        /\ Cardinality(above(x)) = Cardinality(above(y)) => above(x) = above(y)
    BY <1>2, <2>1, FS_Subset
  <2>3. Cardinality(above(y)) < Cardinality(above(x))
    BY <1>2, <2>1, <2>2
  <2>4. Min(counts) <= Cardinality(above(y))
    BY <1>4
  <2> QED BY <1>2, <1>5, <2>3, <2>4
<1>7. \A y \in S : y <= x
  BY <1>6
<1> QED BY <1>7 DEF Max

LEMMA MedianExists ==
  ASSUME NEW n \in Nat \ {0}, NEW gap \in [1 .. n -> Nat]
  PROVE  \E g \in {gap[k] : k \in 1 .. n} :
           /\ Cardinality({k \in 1 .. n : gap[k] < g}) <= n \div 2
           /\ n \div 2 < Cardinality({k \in 1 .. n : gap[k] <= g})
<1> DEFINE G == {gap[k] : k \in 1 .. n}
           least(g) == {k \in 1 .. n : gap[k] < g}
           upto(g) == {k \in 1 .. n : gap[k] <= g}
           some == {g \in G : n \div 2 < Cardinality(upto(g))}
<1>1. IsFiniteSet(1 .. n) /\ Cardinality(1 .. n) = n
  BY CountTo
<1>2. /\ \A g, k : k \in least(g) <=> k \in 1 .. n /\ gap[k] < g
      /\ \A g, k : k \in upto(g) <=> k \in 1 .. n /\ gap[k] <= g
  OBVIOUS
<1>3. \A g : /\ IsFiniteSet(least(g)) /\ Cardinality(least(g)) \in Nat
             /\ IsFiniteSet(upto(g)) /\ Cardinality(upto(g)) \in Nat
  <2>1. \A g : least(g) \in SUBSET (1 .. n) /\ upto(g) \in SUBSET (1 .. n)
    OBVIOUS
  <2> QED BY <1>1, <2>1, FS_Subset, FS_CardinalityType
<1>4. G \in SUBSET Nat /\ gap[1] \in G /\ \A k \in 1 .. n : gap[k] \in G
  OBVIOUS
<1>5. IsFiniteSet(G)
  <2>1. gap \in Surjection(1 .. n, G)
    BY DEF Surjection
  <2> QED BY <1>1, <2>1, FS_Surjection
<1> SUFFICES \E g \in G : /\ Cardinality(least(g)) <= n \div 2
                          /\ n \div 2 < Cardinality(upto(g))
  OBVIOUS
<1> HIDE DEF G, least, upto
<1>6. PICK half \in Nat : half = n \div 2 /\ half < n
  OBVIOUS
<1>7. some # {} /\ some \in SUBSET Nat
  <2>1. PICK g \in G : \A h \in G : h <= g
    BY <1>4, <1>5, FiniteMax
  <2>2. \A k : k \in upto(g) <=> k \in 1 .. n
    BY <1>2, <1>4, <2>1
  <2>3. upto(g) = 1 .. n
    BY <2>2
  <2> QED BY <1>1, <1>4, <1>6, <2>3
<1>8. PICK g \in some : \A h \in some : g <= h
  BY <1>7, MinIsLeast
<1>9. ASSUME ~(Cardinality(least(g)) <= half) PROVE FALSE
  <2> DEFINE B == {h \in G : h < g}
  <2>1. Cardinality(least(g)) \in Nat /\ half < Cardinality(least(g))
    BY <1>3, <1>9
  <2>2. least(g) # {}
    <3>1. Cardinality({}) = 0
      BY FS_EmptySet
    <3>2. ~(half < 0)
      OBVIOUS
    <3> QED BY Zenon, <2>1, <3>1, <3>2
  <2>3. PICK k \in 1 .. n : gap[k] < g
    BY <1>2, <2>2
  <2>4. gap[k] \in B /\ B \in SUBSET Nat /\ IsFiniteSet(B)
    BY <1>4, <1>5, <2>3, FS_Subset
  <2>5. PICK h \in B : \A b \in B : b <= h
    BY <2>4, FiniteMax
  <2>6. g \in Nat /\ h \in Nat /\ h < g /\ h \in G
    BY <1>7, <1>8, <2>4, <2>5
  <2>7. ASSUME NEW j \in 1 .. n PROVE gap[j] < g <=> gap[j] <= h
    <3>1. gap[j] \in G /\ gap[j] \in Nat
      BY <1>4
    <3> QED BY <2>5, <2>6, <3>1
  <2>8. \A j : j \in upto(h) <=> j \in least(g)
    BY <1>2, <2>7
  <2>9. upto(h) = least(g)
    BY <2>8
  <2>10. h \in some
    BY <1>6, <2>1, <2>6, <2>9
  <2> QED BY <1>8, <2>6, <2>10
<1> QED BY <1>6, <1>8, <1>9

-----------------------------------------------------------------------------
(***************************************************************************)
(* Folds: FoldLeft takes the places of a sequence from the greatest down.  *)
(***************************************************************************)
LEMMA WithoutMax ==
  ASSUME NEW m \in Nat, m # 0, NEW s \in SUBSET (1 .. m), s # {}
  PROVE  /\ Max(s) \in s /\ Max(s) \in 1 .. m
         /\ s \ {Max(s)} \in SUBSET (1 .. m) /\ s \ {Max(s)} \in SUBSET (1 .. m - 1)
<1>1. s \in SUBSET Nat /\ \A x \in s : x \in Nat /\ 1 <= x /\ x <= m
  OBVIOUS
<1>2. Max(s) \in s /\ \A x \in s : x <= Max(s)
  BY <1>1, MaxIsGreatest
<1>3. ASSUME NEW x \in s, x # Max(s) PROVE x \in 1 .. m - 1
  <2>1. x \in Nat /\ 1 <= x
    BY <1>1
  <2>3. Max(s) \in Nat /\ Max(s) <= m /\ x <= Max(s)
    BY <1>1, <1>2
  <2>2. x <= m - 1
    BY <1>3, <2>1, <2>3
  <2> QED BY <2>1, <2>2
<1> QED BY <1>2, <1>3

LEMMA FirstOnes ==
  ASSUME NEW n \in Nat, NEW k \in 1 .. n
  PROVE  /\ 1 .. k \in SUBSET (1 .. n) /\ 1 .. k # {} /\ Max(1 .. k) = k
         /\ (1 .. k) \ {k} = 1 .. k - 1 /\ 1 .. k - 1 \in SUBSET (1 .. n)
<1>1. k \in Nat /\ k >= 1 /\ k <= n /\ k \in 1 .. k
  OBVIOUS
<1>2. 1 .. k \in SUBSET Nat /\ \A x \in 1 .. k : x <= k
  BY <1>1
<1>3. PICK x : x = Max(1 .. k) /\ x \in 1 .. k /\ \A y \in 1 .. k : y <= x
  BY <1>1, <1>2, MaxIsGreatest
<1>4. \A y \in 1 .. k : y \in 1 .. n
  BY <1>1
<1>5. \A y : y \in (1 .. k) \ {k} <=> y \in 1 .. k - 1
  BY <1>1
<1>6. x = k
  BY <1>1, <1>3
<1> QED BY <1>1, <1>3, <1>4, <1>5, <1>6

\* What a fold over n elements computes for every set of their places; it
\* exists (FoldsExist), so that the CHOOSE in FoldLeft means it.
Folds(g, f, d, n) ==
  g = [s \in SUBSET (1 .. n) |-> IF s = {} THEN d ELSE f[<<g[s \ {Max(s)}], Max(s)>>]]

LEMMA FoldsExist ==
  ASSUME NEW f, NEW d, NEW n \in Nat
  PROVE  \E g : Folds(g, f, d, n)
<1> DEFINE B == {m \in Nat : ~ \E g : Folds(g, f, d, m)}
<1>1. ASSUME B # {} PROVE FALSE
  <2>1. PICK m \in B : \A k \in B : m <= k
    BY <1>1, MinIsLeast
  <2>2. CASE m = 0
    <3> DEFINE g == [s \in SUBSET (1 .. 0) |-> d]
    <3>1. \A s \in SUBSET (1 .. 0) : s = {}
      OBVIOUS
    <3>2. Folds(g, f, d, 0)
      BY <3>1 DEF Folds
    <3> QED BY <2>1, <2>2, <3>2
  <2>3. CASE m # 0
    <3>0. m \in Nat /\ m - 1 \in Nat /\ ~(m <= m - 1)
      BY <2>1, <2>3
    <3>1. PICK g : Folds(g, f, d, m - 1)
      BY <2>1, <3>0
    <3> DEFINE h == [s \in SUBSET (1 .. m) |->
                       IF s = {} THEN d ELSE f[<<g[s \ {Max(s)}], Max(s)>>]]
    <3>3. ASSUME NEW t \in SUBSET (1 .. m - 1) PROVE g[t] = h[t]
      <4>1. t \in SUBSET (1 .. m)
        <5>1. \A x \in 1 .. m - 1 : x \in 1 .. m
          BY <3>0
        <5> QED BY <5>1
      <4>2. g[t] = IF t = {} THEN d ELSE f[<<g[t \ {Max(t)}], Max(t)>>]
        BY <3>1 DEF Folds
      <4>3. h[t] = IF t = {} THEN d ELSE f[<<g[t \ {Max(t)}], Max(t)>>]
        BY <4>1
      <4> QED BY <4>2, <4>3
    <3>4. ASSUME NEW s \in SUBSET (1 .. m)
          PROVE  (IF s = {} THEN d ELSE f[<<g[s \ {Max(s)}], Max(s)>>])
                   = (IF s = {} THEN d ELSE f[<<h[s \ {Max(s)}], Max(s)>>])
      <4> HIDE DEF h
      <4>1. CASE s # {}
        <5>1. s \ {Max(s)} \in SUBSET (1 .. m - 1)
          BY <3>0, <2>3, <4>1, WithoutMax
        <5>2. g[s \ {Max(s)}] = h[s \ {Max(s)}]
          BY <5>1, <3>3
        <5> QED BY <5>2
      <4> QED BY <4>1
    <3>6. Folds(h, f, d, m)
      BY <3>4 DEF Folds
    <3> HIDE DEF h
    <3> QED BY <3>6, <2>1
  <2> QED BY <2>2, <2>3
<1>2. n \notin B
  BY <1>1
<1> QED BY <1>2

\* A fold that stays within a set can be computed there.
FoldsIn(X, g, f, d, n) ==
  /\ g \in [SUBSET (1 .. n) -> X] /\ g[{}] = d
  /\ \A s \in SUBSET (1 .. n) : s # {} =>
       /\ Max(s) \in 1 .. n /\ g[s \ {Max(s)}] \in X
       /\ g[s] = f[<<g[s \ {Max(s)}], Max(s)>>]

LEMMA FoldsWithin ==
  ASSUME NEW X, NEW n \in Nat, NEW f \in [X \X (1 .. n) -> X], NEW d \in X
  PROVE  \E g : FoldsIn(X, g, f, d, n)
<1>1. PICK g : Folds(g, f, d, n)
  BY FoldsExist
<1>2. /\ DOMAIN g = SUBSET (1 .. n) /\ g[{}] = d
      /\ \A s \in SUBSET (1 .. n) : s # {} => g[s] = f[<<g[s \ {Max(s)}], Max(s)>>]
  <2>1. {} \in SUBSET (1 .. n)
    OBVIOUS
  <2> QED BY <1>1, <2>1 DEF Folds
<1>3. g = [s \in SUBSET (1 .. n) |-> g[s]]
  BY <1>1 DEF Folds
<1>9. ASSUME NEW s \in SUBSET (1 .. n), s # {}
      PROVE  Max(s) \in 1 .. n /\ s \ {Max(s)} \in SUBSET (1 .. n)
  <2>1. n # 0
    <3>1. n = 0 => 1 .. n = {}
      OBVIOUS
    <3> QED BY <1>9, <3>1
  <2> QED BY <1>9, <2>1, WithoutMax
<1> DEFINE B == {m \in 0 .. n : \E s \in SUBSET (1 .. m) : g[s] \notin X}
<1>4. ASSUME B # {} PROVE FALSE
  <2>0. B \in SUBSET Nat
    OBVIOUS
  <2>1. PICK m \in B : \A k \in B : m <= k
    BY <1>4, <2>0, MinIsLeast
  <2>2. PICK s \in SUBSET (1 .. m) : g[s] \notin X
    BY <2>1
  <2>3. m \in Nat /\ m <= n /\ s \in SUBSET (1 .. n) /\ s # {} /\ m # 0
    <3>1. \A x \in 1 .. m : x \in 1 .. n
      BY <2>1
    <3>2. s # {}
      BY <1>2, <2>2
    <3>3. m # 0
      <4>1. m = 0 => 1 .. m = {}
        OBVIOUS
      <4> QED BY <3>2, <4>1
    <3> QED BY <3>1, <3>2, <3>3, <2>1
  <2>4. s \ {Max(s)} \in SUBSET (1 .. m - 1)
    BY <2>3, WithoutMax
  <2>5. m - 1 \in 0 .. n /\ ~(m <= m - 1)
    BY <2>3
  <2>6. g[s \ {Max(s)}] \in X
    BY <2>1, <2>4, <2>5
  <2>7. g[s] = f[<<g[s \ {Max(s)}], Max(s)>>] /\ Max(s) \in 1 .. n
    BY <1>2, <1>9, <2>3
  <2> QED BY <2>2, <2>6, <2>7
<1>5. n \in 0 .. n
  OBVIOUS
<1>6. \A s \in SUBSET (1 .. n) : g[s] \in X
  <2>1. n \notin B
    BY <1>4
  <2> HIDE DEF B
  <2> QED BY <1>5, <2>1 DEF B
<1>7. g \in [SUBSET (1 .. n) -> X]
  BY <1>3, <1>6
<1>8. \A s \in SUBSET (1 .. n) : s # {} =>
         /\ Max(s) \in 1 .. n /\ g[s \ {Max(s)}] \in X
         /\ g[s] = f[<<g[s \ {Max(s)}], Max(s)>>]
  BY <1>2, <1>6, <1>9
<1> QED BY <1>2, <1>7, <1>8 DEF FoldsIn

-----------------------------------------------------------------------------
(***************************************************************************)
(* The repair of a clip's bounds.  What is known of a transcript:          *)
(***************************************************************************)
Spoke ==
  /\ Words \in SUBSET Nat /\ Len(script.words) \in Nat
  /\ \A i \in Words : i <= Len(script.words)
  /\ \A i \in Words : /\ WordStart(i) \in Nat /\ WordEnd(i) \in Nat
                      /\ WordStart(i) < WordEnd(i)
  /\ \A i, j \in Words : i < j => WordEnd(i) <= WordStart(j)

Segmented ==
  /\ Segments \in SUBSET Nat /\ Len(script.segments) \in Nat
  /\ \A i \in Segments : i <= Len(script.segments)
  /\ \A i \in Segments : /\ SegStart(i) \in Nat /\ SegEnd(i) \in Nat
                         /\ SegStart(i) <= SegEnd(i)
  /\ \A i \in Words, j \in Segments :
       WordEnd(i) <= SegEnd(j) \/ SegEnd(j) <= WordStart(i)

LEMMA OfScripts ==
  ASSUME ScriptsAssumption, script \in Scripts
  PROVE  Spoke /\ Segmented
<1> DEFINE W == [start : Nat, end : Nat, closes : BOOLEAN, dangles : BOOLEAN]
           G == [start : Nat, end : Nat, setup : BOOLEAN, outcome : BOOLEAN]
<1>1. /\ script.words \in Seq(W) /\ script.segments \in Seq(G)
      /\ \A i \in Words : script.words[i].start < script.words[i].end
      /\ \A i, j \in Words : i < j => script.words[i].end <= script.words[j].start
      /\ \A i \in Words, j \in Segments :
           script.words[i].end <= script.segments[j].end
           \/ script.segments[j].end <= script.words[i].start
      /\ \A j \in Segments : script.segments[j].start <= script.segments[j].end
  BY DEF ScriptsAssumption, Words, Segments
<1> HIDE DEF W, G
<1>2. /\ Len(script.words) \in Nat /\ Words = 1 .. Len(script.words)
      /\ \A i \in Words : script.words[i] \in W
  BY <1>1 DEF Words
<1>3. /\ Len(script.segments) \in Nat /\ Segments = 1 .. Len(script.segments)
      /\ \A i \in Segments : script.segments[i] \in G
  BY <1>1 DEF Segments
<1>4. /\ \A i \in Words : script.words[i].start \in Nat /\ script.words[i].end \in Nat
      /\ \A i \in Segments : script.segments[i].start \in Nat /\ script.segments[i].end \in Nat
  BY <1>2, <1>3 DEF W, G
<1>5. Spoke
  BY <1>1, <1>2, <1>4 DEF Spoke, WordStart, WordEnd
<1>6. Segmented
  BY <1>1, <1>3, <1>4 DEF Segmented, WordStart, WordEnd, SegStart, SegEnd
<1> QED BY <1>5, <1>6

(***************************************************************************)
(* The words of a clip are whole and hers whatever the extension.          *)
(***************************************************************************)
Uncut(t) == \A i \in Words : ~(WordStart(i) < t /\ t < WordEnd(i))

LEMMA SmartIsWhole ==
  ASSUME Spoke, NEW s \in Nat, NEW e \in Nat, s < e, NEW reach \in Nat
  PROVE  /\ Smart(s, e, reach).start \in Nat /\ Smart(s, e, reach).end \in Nat
         /\ Uncut(Smart(s, e, reach).start) /\ Uncut(Smart(s, e, reach).end)
         /\ \A i \in Words : WordEnd(i) > s => Smart(s, e, reach).start <= WordStart(i)
         /\ \A i \in Words : WordStart(i) < e => WordEnd(i) <= Smart(s, e, reach).end
         /\ \A n \in Nat : reach <= n /\ (\A i \in Words : WordEnd(i) - WordStart(i) <= n)
              => Smart(s, e, reach).end <= e + n
<1> DEFINE A == {i \in Words : \E f \in Spoken(s, e) : i <= f /\ \A k \in i .. f - 1 :
                   s - WordStart(k) <= reach /\ ~Completes(k)}
           B == {i \in Words :
                   \E f \in Spoken(s, e) : f <= i /\ (\A g \in Spoken(s, e) : g <= f) /\
                     \A k \in f + 1 .. i : WordEnd(k) - e <= reach /\ ~Completes(k - 1)}
           first == FirstWord(s, e, reach)
           last == LastWord(s, e, reach)
<1>0. Spoken(s, e) \subseteq Words /\ Spoken(s, e) \in SUBSET Nat
      /\ \A i \in Words : i \in Spoken(s, e) <=> WordEnd(i) > s /\ WordStart(i) < e
  BY DEF Spoken, Spoke
<1>1. CASE Spoken(s, e) = {}
  <2>1. Smart(s, e, reach).start = s /\ Smart(s, e, reach).end = e
    BY <1>1 DEF Smart
  <2>2. \A i \in Words : WordEnd(i) <= s \/ e <= WordStart(i)
    BY <1>0, <1>1 DEF Spoke
  <2> QED BY <2>1, <2>2, <1>1 DEF Spoke, Uncut
<1>2. CASE Spoken(s, e) # {}
  <2>1. Smart(s, e, reach).start = WordStart(first) /\ Smart(s, e, reach).end = WordEnd(last)
    BY <1>2 DEF Smart
  <2>2. \A f \in Spoken(s, e) : f \in A
    BY <1>0 DEF Spoke
  <2>3. A \in SUBSET Nat /\ A # {}
    BY <1>2, <2>2 DEF Spoke
  <2>4. first \in A /\ \A i \in A : first <= i
    BY <2>3, MinIsLeast DEF FirstWord
  <2>5. PICK final \in Spoken(s, e) : \A g \in Spoken(s, e) : g <= final
    BY <1>0, <1>2, MaxIsGreatest DEF Spoke
  <2>6. final \in B
    BY <2>5, <1>0 DEF Spoke
  <2>7. B \in SUBSET Nat /\ B # {} /\ \A i \in B : i <= Len(script.words)
    BY <2>6 DEF Spoke
  <2>8. last \in B /\ \A i \in B : i <= last
    BY <2>7, MaxIsGreatest DEF LastWord, Spoke
  <2>9. first \in Words /\ last \in Words /\ first \in Nat /\ last \in Nat
    BY <2>4, <2>8 DEF Spoke
  <2> HIDE DEF A, B, first, last
  <2>10. ASSUME NEW f \in Spoken(s, e) PROVE first <= f /\ f <= last
    <3>1. first <= f /\ f <= final /\ final <= last
      BY <2>2, <2>4, <2>5, <2>6, <2>8
    <3> QED BY <3>1, <2>9, <1>0
  <2>11. Uncut(WordStart(first))
    BY <2>9 DEF Uncut, Spoke
  <2>12. Uncut(WordEnd(last))
    BY <2>9 DEF Uncut, Spoke
  <2>13. PICK f \in Spoken(s, e) : TRUE
    BY <1>2
  <2>14. \A i, j \in Words : i <= j => WordStart(i) <= WordStart(j) /\ WordEnd(i) <= WordEnd(j)
    BY DEF Spoke
  <2>24. f \in Words /\ first <= f /\ f <= last /\ WordEnd(f) > s /\ WordStart(f) < e
    BY <2>10, <2>13, <1>0
  <2>15. ASSUME NEW i \in Words, WordEnd(i) > s PROVE WordStart(first) <= WordStart(i)
    <3>1. CASE i \in Spoken(s, e)
      BY <3>1, <2>9, <2>10, <2>14
    <3>2. CASE i \notin Spoken(s, e)
      <4>2. WordStart(f) < e /\ f \in Words /\ first <= f
        BY <2>24
      <4>3. ~(WordStart(i) < e)
        BY <3>2, <2>15, <1>0
      <4>4. WordStart(first) <= WordStart(f)
        BY <4>2, <2>9, <2>14
      <4>5. WordStart(i) \in Nat /\ WordStart(f) \in Nat /\ WordStart(first) \in Nat
        BY <4>2, <2>9 DEF Spoke
      <4>1. WordStart(first) <= WordStart(f) /\ WordStart(f) < e /\ e <= WordStart(i)
        BY <4>2, <4>3, <4>4, <4>5
      <4> QED BY <4>1, <4>5
    <3> QED BY <3>1, <3>2
  <2>16. ASSUME NEW i \in Words, WordStart(i) < e PROVE WordEnd(i) <= WordEnd(last)
    <3>1. CASE i \in Spoken(s, e)
      BY <3>1, <2>9, <2>10, <2>14
    <3>2. CASE i \notin Spoken(s, e)
      <4>2. WordEnd(f) > s /\ f \in Words /\ f <= last
        BY <2>24
      <4>3. ~(WordEnd(i) > s)
        BY <3>2, <2>16, <1>0
      <4>4. WordEnd(f) <= WordEnd(last)
        BY <4>2, <2>9, <2>14
      <4>5. WordEnd(i) \in Nat /\ WordEnd(f) \in Nat /\ WordEnd(last) \in Nat
        BY <4>2, <2>9 DEF Spoke
      <4>1. WordEnd(i) <= s /\ s < WordEnd(f) /\ WordEnd(f) <= WordEnd(last)
        BY <4>2, <4>3, <4>4, <4>5
      <4> QED BY <4>1, <4>5
    <3> QED BY <3>1, <3>2
  <2>17. ASSUME NEW n \in Nat, reach <= n, \A i \in Words : WordEnd(i) - WordStart(i) <= n
         PROVE  WordEnd(last) <= e + n
    <3>1. PICK g \in Spoken(s, e) : g <= last /\ \A k \in g + 1 .. last : WordEnd(k) - e <= reach
      BY <2>8 DEF B
    <3>2. g \in Words /\ WordStart(g) < e /\ g \in Nat
      BY <1>0
    <3>3. CASE g = last
      BY <3>2, <3>3, <2>9, <2>17 DEF Spoke
    <3>4. CASE g # last
      <4>1. last \in g + 1 .. last
        BY <3>1, <3>2, <3>4, <2>9
      <4> QED BY <4>1, <3>1, <2>9, <2>17 DEF Spoke
    <3> QED BY <3>3, <3>4
  <2>18. WordStart(first) \in Nat /\ WordEnd(last) \in Nat
    BY <2>9 DEF Spoke
  <2>19. \A n \in Nat : reach <= n /\ (\A i \in Words : WordEnd(i) - WordStart(i) <= n)
           => WordEnd(last) <= e + n
    BY <2>17
  <2> DEFINE cut == Smart(s, e, reach)
  <2>20. cut.start \in Nat /\ cut.end \in Nat /\ Uncut(cut.start) /\ Uncut(cut.end)
    BY <2>1, <2>11, <2>12, <2>18
  <2>21. \A i \in Words : WordEnd(i) > s => cut.start <= WordStart(i)
    BY <2>1, <2>15
  <2>22. \A i \in Words : WordStart(i) < e => WordEnd(i) <= cut.end
    BY <2>1, <2>16
  <2>23. \A n \in Nat : reach <= n /\ (\A i \in Words : WordEnd(i) - WordStart(i) <= n)
           => cut.end <= e + n
    BY <2>1, <2>19
  <2> HIDE DEF cut
  <2> QED BY Zenon, <2>20, <2>21, <2>22, <2>23 DEF cut
<1> QED BY <1>1, <1>2

LEMMA SegmentEndIsWhole ==
  ASSUME Spoke, Segmented, NEW e \in Nat, Uncut(e), Reach \in Nat
  PROVE  /\ AtSegmentEnd(e) \in Nat /\ Uncut(AtSegmentEnd(e))
         /\ e <= AtSegmentEnd(e) /\ AtSegmentEnd(e) <= e + Reach
<1>1. CASE EndingIn(e) = {}
  BY <1>1 DEF AtSegmentEnd
<1>2. CASE EndingIn(e) # {}
  <2> DEFINE i == Min(EndingIn(e))
  <2>1. EndingIn(e) \in SUBSET Nat /\ EndingIn(e) \subseteq Segments
    BY DEF EndingIn, Segmented
  <2>2. i \in EndingIn(e)
    BY <2>1, <1>2, MinIsLeast
  <2> HIDE DEF i
  <2>3. i \in Segments /\ e <= SegEnd(i)
        /\ (SegEnd(i) - e <= NearEnd \/ SegEnd(i) - e <= Reach)
    BY <2>2 DEF EndingIn
  <2>4. AtSegmentEnd(e) = IF SegEnd(i) - e <= NearEnd THEN e ELSE SegEnd(i)
    BY <1>2 DEF AtSegmentEnd, i
  <2>5. SegEnd(i) \in Nat /\ Uncut(SegEnd(i))
    BY <2>3 DEF Segmented, Uncut, Spoke
  <2>6. CASE SegEnd(i) - e <= NearEnd
    BY <2>6, <2>4
  <2>7. CASE ~(SegEnd(i) - e <= NearEnd)
    BY <2>7, <2>3, <2>4, <2>5
  <2> QED BY <2>6, <2>7
<1> QED BY <1>1, <1>2

(***************************************************************************)
(* A moment of the scoring and what T1 may answer of it.                   *)
(***************************************************************************)
Scored(m) ==
  /\ m.start \in Nat /\ m.end \in Nat /\ m.payoff \in Nat
  /\ m.opening \in BOOLEAN /\ m.kept \in BOOLEAN /\ m.final \in BOOLEAN
  /\ m.start < m.end /\ (m.final => m.kept)
  /\ m.payoff # Never => m.start <= m.payoff /\ m.payoff <= m.end

LEMMA OfMoments ==
  ASSUME MomentsAssumption, NEW m \in Moments
  PROVE  Scored(m)
BY DEF MomentsAssumption, Scored

LEMMA OfAnswers ==
  ASSUME AnswersAssumption, NEW a \in Answers
  PROVE  a.from \in Nat /\ a.to \in Nat
BY DEF AnswersAssumption

LEMMA AskedIsOrdered ==
  ASSUME NEW m, Scored(m), NEW a, a.from \in Nat, a.to \in Nat
  PROVE  /\ Asked(m, a).start \in Nat /\ Asked(m, a).end \in Nat
         /\ Asked(m, a).start < Asked(m, a).end
         /\ Asked(m, a).start <= m.start + a.from
<1> DEFINE s == IF InClip(m, a) THEN m.start + a.from ELSE m.start
           e == IF 0 < a.to /\ a.to <= m.end - m.start THEN m.start + a.to ELSE m.end
<1>1. s \in Nat /\ e \in Nat /\ s <= m.start + a.from
  BY DEF Scored
<1>2. Asked(m, a) = IF s < e THEN [start |-> s, end |-> e]
                    ELSE [start |-> m.start, end |-> m.end]
  BY DEF Asked
<1> HIDE DEF s, e
<1>3. CASE s < e
  <2>1. Asked(m, a).start = s /\ Asked(m, a).end = e
    BY <1>2, <1>3
  <2> QED BY <2>1, <1>1, <1>3
<1>4. CASE ~(s < e)
  <2>1. Asked(m, a).start = m.start /\ Asked(m, a).end = m.end
    BY <1>2, <1>4
  <2> QED BY <2>1 DEF Scored
<1> QED BY <1>3, <1>4

LEMMA EarlierIs ==
  ASSUME NEW x \in Nat, NEW y \in Nat
  PROVE  Earlier(x, y) \in Nat /\ Earlier(x, y) <= x /\ Earlier(x, y) <= y
BY DEF Earlier

LEMMA LaterIs ==
  ASSUME NEW x \in Nat, NEW y \in Nat
  PROVE  Later(x, y) \in Nat /\ x <= Later(x, y) /\ y <= Later(x, y)
BY DEF Later

\* A start is only moved to be earlier; one that is trusted, to the clip's at least.
LEMMA OpeningMoves ==
  ASSUME Segmented, NEW m, Scored(m), NEW a, NEW s \in Nat
  PROVE  LET t == WithSetup(m, a, AtPremise(m, a, Opened(m, s)))
         IN t \in Nat /\ t <= s /\ (m.opening => t <= m.start)
<1>1. OutcomeStart(m) \in Nat /\ OutcomeStart(m) <= m.start
  <2> DEFINE told == {i \in Before(m, OutcomeReach) : script.segments[i].outcome}
  <2>1. told \in SUBSET Nat /\ told \subseteq Segments
        /\ \A i \in told : i <= Len(script.segments)
    BY DEF Before, Segmented
  <2>2. told # {} => Max(told) \in Segments
    BY <2>1, MaxIsGreatest DEF Segmented
  <2>3. told # {} => Earlier(m.start, SegStart(Max(told))) \in Nat
                     /\ Earlier(m.start, SegStart(Max(told))) <= m.start
    BY <2>2, EarlierIs DEF Segmented, Scored
  <2> HIDE DEF told
  <2> QED BY <2>3 DEF OutcomeStart, told, Scored
<1>2. Opened(m, s) \in Nat /\ Opened(m, s) <= s /\ (m.opening => Opened(m, s) <= m.start)
  <2>1. /\ Earlier(s, OutcomeStart(m)) \in Nat /\ Earlier(s, OutcomeStart(m)) <= s
        /\ Earlier(s, OutcomeStart(m)) <= OutcomeStart(m)
    BY <1>1, EarlierIs
  <2> QED BY <1>1, <2>1 DEF Opened, Scored
<1>3. ASSUME NEW u \in Nat
      PROVE  AtPremise(m, a, u) \in Nat /\ AtPremise(m, a, u) <= u
  <2> DEFINE here == {i \in Segments : SegStart(i) <= m.start /\ m.start < SegEnd(i)}
  <2>1. here \in SUBSET Nat /\ here \subseteq Segments
    BY DEF Segmented
  <2>2. here # {} => Min(here) \in Segments
    BY <2>1, MinIsLeast
  <2>3. here # {} => Earlier(u, SegStart(Min(here))) \in Nat
                     /\ Earlier(u, SegStart(Min(here))) <= u
    BY <2>2, EarlierIs DEF Segmented
  <2> HIDE DEF here
  <2> QED BY <2>3 DEF AtPremise, here
<1>4. ASSUME NEW u \in Nat
      PROVE  WithSetup(m, a, u) \in Nat /\ WithSetup(m, a, u) <= u
  <2> DEFINE told == {i \in Before(m, Reach) : script.segments[i].setup}
             late == {i \in told : \A j \in told : SegStart(j) <= SegStart(i)}
  <2>1. told \in SUBSET Nat /\ told \subseteq Segments
    BY DEF Before, Segmented
  <2>2. told # {} => late # {}
    <3> DEFINE starts == {SegStart(i) : i \in told}
    <3>1. \A i \in told : SegStart(i) \in Nat /\ SegStart(i) <= m.start
      BY <2>1 DEF Before, Segmented, Scored
    <3>2. starts \in SUBSET Nat /\ \A x \in starts : x <= m.start
      BY <3>1
    <3> HIDE DEF told
    <3>3. told # {} => Max(starts) \in starts /\ \A x \in starts : x <= Max(starts)
      BY <3>2, MaxIsGreatest DEF Scored
    <3>4. told # {} => \E i \in told : \A j \in told : SegStart(j) <= SegStart(i)
      BY <3>3
    <3> QED BY <3>4
  <2>3. late # {} => Min(late) \in Segments
    BY <2>1, MinIsLeast
  <2>4. late # {} => Earlier(u, SegStart(Min(late))) \in Nat
                     /\ Earlier(u, SegStart(Min(late))) <= u
    BY <2>3, EarlierIs DEF Segmented
  <2> HIDE DEF told, late
  <2> QED BY <2>2, <2>4 DEF WithSetup, told, late
<1>5. /\ AtPremise(m, a, Opened(m, s)) \in Nat
      /\ AtPremise(m, a, Opened(m, s)) <= Opened(m, s)
  BY <1>2, <1>3
<1>6. /\ WithSetup(m, a, AtPremise(m, a, Opened(m, s))) \in Nat
      /\ WithSetup(m, a, AtPremise(m, a, Opened(m, s))) <= AtPremise(m, a, Opened(m, s))
  BY <1>4, <1>5
<1> QED BY <1>2, <1>5, <1>6 DEF Scored

\* An end is only moved to be later, to the one that is trusted at least, unless the
\* tail after the payoff is too long.
LEMMA EndMoves ==
  ASSUME Segmented, NEW m, Scored(m), NEW e \in Nat, TailLimit \in Nat
  PROVE  LET t == CappedEnd(m, Preserved(m, e))
         IN /\ t \in Nat /\ (e <= t \/ (PaysOff(m) /\ t = m.payoff + TailLimit))
            /\ KeptEnd(m) \in Nat /\ (m.kept => KeptEnd(m) <= t)
            /\ (TailEnds(m) => t <= m.payoff + TailLimit)
<1>1. PayoffEnd(m) \in Nat
  <2> DEFINE there == {i \in Segments : SegStart(i) <= m.payoff /\ m.payoff <= SegEnd(i)}
  <2>1. there \in SUBSET Nat /\ there \subseteq Segments
    BY DEF Segmented
  <2>2. there # {} => Min(there) \in Segments
    BY <2>1, MinIsLeast
  <2>3. there # {} => Later(m.payoff, SegEnd(Min(there))) \in Nat
    BY <2>2, LaterIs DEF Segmented, Scored
  <2> HIDE DEF there
  <2> QED BY <2>3 DEF PayoffEnd, there, Scored
<1>2. /\ Preserved(m, e) \in Nat /\ e <= Preserved(m, e)
      /\ TailEnds(m) => PayoffEnd(m) <= Preserved(m, e)
      /\ m.kept /\ ~TailEnds(m) => m.end <= Preserved(m, e)
  <2>1. /\ Later(e, m.end) \in Nat /\ e <= Later(e, m.end) /\ m.end <= Later(e, m.end)
        /\ Later(e, PayoffEnd(m)) \in Nat /\ e <= Later(e, PayoffEnd(m))
        /\ PayoffEnd(m) <= Later(e, PayoffEnd(m))
    BY <1>1, LaterIs DEF Scored
  <2> QED BY <1>1, <2>1 DEF Preserved, TailEnds, PaysOff, Scored
<1>3. TailEnds(m) => /\ KeptEnd(m) \in Nat /\ KeptEnd(m) <= PayoffEnd(m)
                     /\ KeptEnd(m) <= m.payoff + TailLimit
  <2>1. m.payoff + TailLimit \in Nat
    BY DEF Scored
  <2> QED BY <1>1, <2>1, EarlierIs DEF KeptEnd
<1>4. ~TailEnds(m) => KeptEnd(m) = m.end
  BY DEF KeptEnd
<1>5. m.end \in Nat /\ m.payoff \in Nat
  BY DEF Scored
<1>6. TailEnds(m) => PaysOff(m)
  BY DEF TailEnds
<1>7. CASE Capped(m, Preserved(m, e))
  <2>1. /\ CappedEnd(m, Preserved(m, e)) = m.payoff + TailLimit /\ TailEnds(m)
    BY <1>7 DEF CappedEnd, Capped
  <2> QED BY <2>1, <1>3, <1>5, <1>6
<1>8. CASE ~Capped(m, Preserved(m, e))
  <2>1. CappedEnd(m, Preserved(m, e)) = Preserved(m, e)
    BY <1>8 DEF CappedEnd
  <2>2. TailEnds(m) => Preserved(m, e) <= m.payoff + TailLimit
    BY <1>2, <1>5, <1>8 DEF Capped
  <2> QED BY <2>1, <2>2, <1>1, <1>2, <1>3, <1>4, <1>5
<1> QED BY <1>7, <1>8

(***************************************************************************)
(* Repairing an entry keeps what RepairSound says.                         *)
(***************************************************************************)
RepairAssumptions ==
  ReachAssumption /\ ScriptsAssumption /\ MomentsAssumption /\ AnswersAssumption

LEMMA RepairKept ==
  ASSUME RepairAssumptions, script \in Scripts, RepairSound, RepairNext
  PROVE  RepairSound'
<1>1. CASE StartRepair \/ EndRepair
  BY <1>1 DEF StartRepair, EndRepair, repairVars, RepairSound, WordsWhole, OpeningKept,
    EndKept, TailLimited, Words, WordStart, WordEnd, TailEnds, PaysOff, KeptEnd,
    PayoffEnd, Segments, SegStart, SegEnd
<1>2. CASE RepairEntry
  <2>1. PICK m \in Moments, a \in Answers :
          entry' = [of |-> m, answer |-> a, from |-> Refined(m, a).start,
                    to |-> AtSegmentEnd(Refined(m, a).end)]
    BY <1>2 DEF RepairEntry
  <2>2. script' = script
    BY <1>2 DEF RepairEntry
  <2> DEFINE cut == Refined(m, a)
             p == WithSetup(m, a, AtPremise(m, a, Opened(m, Asked(m, a).start)))
             q == CappedEnd(m, Preserved(m, Asked(m, a).end))
             most == IF Capped(m, Preserved(m, Asked(m, a).end))
                       THEN Earlier(Reach, ShortReach) ELSE Reach
  <2>3. SUFFICES ASSUME a.from <= MostOffset
        PROVE  WordsWhole' /\ OpeningKept' /\ EndKept' /\ TailLimited'
    BY <2>1 DEF RepairSound
  <2>4. Spoke /\ Segmented /\ Scored(m) /\ a.from \in Nat /\ a.to \in Nat
    BY OfScripts, OfMoments, OfAnswers DEF RepairAssumptions
  <2>5. Reach \in Nat /\ ShortReach \in Nat /\ TailLimit \in Nat /\ MostOffset \in Nat
        /\ MostOffset < TailLimit
    BY DEF RepairAssumptions, ReachAssumption
  <2>6. most \in Nat /\ most <= Reach
    BY <2>5, EarlierIs
  <2>7. p \in Nat /\ p <= Asked(m, a).start /\ (m.opening => p <= m.start)
    BY <2>4, AskedIsOrdered, OpeningMoves
  <2>8. /\ q \in Nat /\ (Asked(m, a).end <= q \/ (PaysOff(m) /\ q = m.payoff + TailLimit))
        /\ KeptEnd(m) \in Nat /\ (m.kept => KeptEnd(m) <= q) /\ (TailEnds(m) => q <= m.payoff + TailLimit)
    BY <2>4, <2>5, AskedIsOrdered, EndMoves
  <2>9. p < q
    <3>1. /\ Asked(m, a).start \in Nat /\ Asked(m, a).end \in Nat
          /\ Asked(m, a).start < Asked(m, a).end /\ Asked(m, a).start <= m.start + a.from
      BY <2>4, AskedIsOrdered
    <3>2. CASE Asked(m, a).end <= q
      BY <3>1, <3>2, <2>7, <2>8
    <3>3. CASE PaysOff(m) /\ q = m.payoff + TailLimit
      <4>1. m.start <= m.payoff /\ m.start \in Nat /\ m.payoff \in Nat
        BY <2>4, <3>3 DEF Scored, PaysOff
      <4> QED BY <4>1, <3>1, <3>3, <2>3, <2>4, <2>5, <2>7
    <3> QED BY <3>2, <3>3, <2>8
  <2>10. cut = Smart(p, q, most)
    BY DEF Refined
  <2> HIDE DEF cut, p, q, most
  <2>11. /\ cut.start \in Nat /\ cut.end \in Nat /\ Uncut(cut.start) /\ Uncut(cut.end)
         /\ \A i \in Words : WordEnd(i) > p => cut.start <= WordStart(i)
         /\ \A i \in Words : WordStart(i) < q => WordEnd(i) <= cut.end
         /\ (\A i \in Words : WordEnd(i) - WordStart(i) <= Reach) => cut.end <= q + Reach
    BY <2>4, <2>5, <2>6, <2>7, <2>8, <2>9, <2>10, SmartIsWhole
  <2> DEFINE end == AtSegmentEnd(cut.end)
  <2>12. end \in Nat /\ Uncut(end) /\ cut.end <= end /\ end <= cut.end + Reach
    BY <2>4, <2>5, <2>11, SegmentEndIsWhole
  <2> HIDE DEF end
  <2>13. /\ entry'.of = m /\ entry'.answer = a /\ entry'.from = cut.start /\ entry'.to = end
    BY <2>1 DEF cut, end
  <2>14. /\ Words' = Words /\ KeptEnd(m)' = KeptEnd(m)
         /\ \A i : WordStart(i)' = WordStart(i) /\ WordEnd(i)' = WordEnd(i)
    BY <2>2 DEF Words, WordStart, WordEnd, KeptEnd, PayoffEnd, Segments, SegStart, SegEnd
  <2>15. WordsWhole'
    BY <2>11, <2>12, <2>13, <2>14 DEF WordsWhole, Uncut
  <2>16. OpeningKept'
    BY <2>4, <2>7, <2>11, <2>13, <2>14 DEF OpeningKept, Spoke, Scored
  <2>17. EndKept'
    <3>1. SUFFICES ASSUME m.kept, NEW i \in Words, WordStart(i) < KeptEnd(m)
                   PROVE  WordEnd(i) <= end
      BY <2>13, <2>14 DEF EndKept
    <3>2. KeptEnd(m) <= q
      BY <3>1, <2>8
    <3>3. WordStart(i) < q
      BY <3>1, <3>2, <2>4, <2>8 DEF Spoke
    <3>4. WordEnd(i) <= cut.end
      BY <3>3, <2>11
    <3> QED BY <3>4, <2>4, <2>11, <2>12 DEF Spoke
  <2>18. TailLimited'
    BY <2>5, <2>8, <2>11, <2>12, <2>13, <2>14, <2>4 DEF TailLimited, Scored, TailEnds, PaysOff
  <2> QED BY <2>15, <2>16, <2>17, <2>18
<1> QED BY <1>1, <1>2 DEF RepairNext

-----------------------------------------------------------------------------
(***************************************************************************)
(* The direction of a clip: what the switch machine remembers is what the  *)
(* last frames show.                                                       *)
(***************************************************************************)
Directors ==
  [shown : Nat, challenger : Nat, confirm : Nat, frame : Nat, since : Nat]
Pictures == [shown : Nat, left : BOOLEAN, beaten : Nat]

\* The challenger beat the face shown in as many frames as were counted.
Confirmed ==
  /\ director.confirm < ConfirmFrames /\ director.confirm <= Len(film)
  /\ \A j \in 1 .. Len(film) :
       j > Len(film) - director.confirm => film[j].beaten = director.challenger

\* Since the last turn the frames were counted, as far as the cooldown.
Cooling ==
  /\ director.since <= CooldownFrames
  /\ \A j \in 1 .. Len(film) : TurnsTo(j) => j + director.since <= Len(film) + 1

SteadyFilm ==
  \A i \in 1 .. Len(film) :
    TurnsTo(i) /\ ~film[i].left =>
      /\ \A j \in 1 .. i : j > i - ConfirmFrames => film[j].beaten = film[i].shown
      /\ \A j \in 1 .. (i - 1) : j > i - CooldownFrames => ~TurnsTo(j)
SteadyPunches == \A m, n \in punches : m < n => n - m >= PunchGap

DirectorInv ==
  /\ director \in Directors /\ film \in Seq(Pictures) /\ Len(film) <= FilmLength
  /\ Len(film) > 0 => film[Len(film)].shown = director.shown
  /\ Confirmed /\ Cooling /\ SteadyFilm /\ SteadyPunches

LEMMA SteadyIs ==
  ASSUME film \in Seq(Pictures)
  PROVE  CameraSteady <=> SteadyFilm /\ SteadyPunches
<1>1. DOMAIN film = 1 .. Len(film)
  OBVIOUS
<1> QED BY <1>1 DEF CameraSteady, SteadyFilm, SteadyPunches

LEMMA FilmLengthIs ==
  ASSUME CameraAssumption
  PROVE  FilmLength \in Nat /\ ConfirmFrames <= FilmLength /\ CooldownFrames < FilmLength
<1> DEFINE S == {ConfirmFrames, CooldownFrames + 1}
<1>1. ConfirmFrames \in Nat /\ CooldownFrames + 1 \in Nat
  BY DEF CameraAssumption
<1>2. S \in SUBSET Nat /\ S # {} /\ \A x \in S : x <= ConfirmFrames + CooldownFrames + 1
  BY <1>1 DEF CameraAssumption
<1>3. Max(S) \in S /\ \A x \in S : x <= Max(S)
  BY <1>1, <1>2, MaxIsGreatest DEF CameraAssumption
<1>4. FilmLength = Max(S)
  BY DEF FilmLength
<1> QED BY <1>1, <1>3, <1>4 DEF CameraAssumption

\* The last frames are those before, but perhaps the first, and the new one.
Shifted(f, x, g) ==
  /\ g \in Seq(Pictures) /\ Len(g) <= FilmLength
  /\ \E k \in {0, 1} :
       /\ Len(g) + k = Len(f) + 1 /\ (k = 1 => Len(g) = FilmLength)
       /\ \A i \in 1 .. Len(g) : g[i] = IF i = Len(g) THEN x ELSE f[i + k]
LEMMA FilmMoves ==
  ASSUME CameraAssumption, NEW f \in Seq(Pictures), Len(f) <= FilmLength, NEW x \in Pictures
  PROVE  Shifted(f, x, LastFrames(Append(f, x)))
<1> DEFINE s == Append(f, x)
           k == Len(s) - Least(Len(s), FilmLength)
           g == LastFrames(s)
<1>1. /\ s \in Seq(Pictures) /\ Len(s) = Len(f) + 1 /\ Len(f) \in Nat
      /\ \A i \in 1 .. Len(f) : s[i] = f[i]
      /\ s[Len(f) + 1] = x
  OBVIOUS
<1>2. FilmLength \in Nat /\ 0 < FilmLength
  BY FilmLengthIs DEF CameraAssumption
<1>3. k \in {0, 1} /\ (k = 1 => Len(s) = FilmLength + 1) /\ (k = 0 => Len(s) <= FilmLength)
  BY <1>1, <1>2 DEF Least
<1>4. g = SubSeq(s, 1 + k, Len(s))
  BY <1>1, <1>2 DEF LastFrames, Least, g
<1> HIDE DEF s, k, g
<1>5. g \in Seq(Pictures) /\ Len(g) = Len(s) - k /\ \A i \in 1 .. Len(g) : g[i] = s[i + k]
  <2> DEFINE h == SubSeq(s, 1 + k, Len(s))
  <2>1. 1 + k \in 1 .. Len(s) + 1 /\ Len(s) \in Nat /\ s \in Seq(Pictures)
    BY <1>1, <1>3
  <2>2. h \in Seq(Pictures) /\ Len(h) = Len(s) - k /\ \A i \in 1 .. Len(h) : h[i] = s[i + k]
    BY <2>1, <1>3
  <2>3. g = h
    BY <1>4
  <2> HIDE DEF h
  <2> QED BY <2>2, <2>3
<1>6. \A i \in 1 .. Len(g) : g[i] = IF i = Len(g) THEN x ELSE f[i + k]
  <2> TAKE i \in 1 .. Len(g)
  <2>1. /\ Len(g) \in Nat /\ i \in Nat /\ g[i] = s[i + k]
        /\ (i = Len(g) => i + k = Len(f) + 1) /\ (i # Len(g) => i + k \in 1 .. Len(f))
    BY <1>1, <1>3, <1>5
  <2> QED BY <2>1, <1>1
<1>7. /\ Len(g) <= FilmLength /\ Len(g) + k = Len(f) + 1 /\ (k = 1 => Len(g) = FilmLength)
  BY <1>1, <1>2, <1>3, <1>5
<1>8. \E l \in {0, 1} :
        /\ Len(g) + l = Len(f) + 1 /\ (l = 1 => Len(g) = FilmLength)
        /\ \A i \in 1 .. Len(g) : g[i] = IF i = Len(g) THEN x ELSE f[i + l]
  BY <1>3, <1>6, <1>7
<1>9. Shifted(f, x, g)
  BY <1>5, <1>7, <1>8 DEF Shifted
<1> QED BY <1>9 DEF g, s

LEMMA PassedIs ==
  ASSUME CameraAssumption, NEW d \in Directors, NEW m \in Directors, d.since <= CooldownFrames
  PROVE  /\ Passed(d, m) \in Directors
         /\ Passed(d, m).shown = m.shown /\ Passed(d, m).challenger = m.challenger
         /\ Passed(d, m).confirm = m.confirm
         /\ Passed(d, m).since <= CooldownFrames /\ Passed(d, m).since <= d.since + 1
<1>1. Least(CooldownFrames, d.since + 1) \in Nat
      /\ Least(CooldownFrames, d.since + 1) <= CooldownFrames
      /\ Least(CooldownFrames, d.since + 1) <= d.since + 1
  BY DEF Least, CameraAssumption, Directors
<1> DEFINE one == [m EXCEPT !.frame = m.frame + 1]
<1>2. one \in Directors /\ one.shown = m.shown /\ one.challenger = m.challenger
      /\ one.confirm = m.confirm
  BY DEF Directors
<1>3. Passed(d, m) = [one EXCEPT !.since = Least(CooldownFrames, d.since + 1)]
  BY Zenon DEF Passed
<1> HIDE DEF one
<1> QED BY <1>1, <1>2, <1>3 DEF Directors

LEMMA SwitchedIs ==
  ASSUME CameraAssumption, NEW d \in Directors, NEW t \in Nat, d.since <= CooldownFrames
  PROVE  /\ Unchallenged(d) \in Directors /\ Switched(d, t) \in Directors
         /\ Unchallenged(d).shown = d.shown /\ Unchallenged(d).confirm = 0
         /\ Unchallenged(d).since <= CooldownFrames /\ Unchallenged(d).since <= d.since + 1
         /\ Switched(d, t).shown = t /\ Switched(d, t).confirm = 0
         /\ Switched(d, t).since = 1
<1> DEFINE m == [d EXCEPT !.challenger = NoFace, !.confirm = 0]
<1>1. m \in Directors /\ m.shown = d.shown /\ m.confirm = 0
  <2> DEFINE one == [d EXCEPT !.challenger = NoFace]
  <2>1. one \in Directors /\ one.shown = d.shown
    BY DEF Directors, NoFace
  <2>2. m = [one EXCEPT !.confirm = 0]
    OBVIOUS
  <2> HIDE DEF one, m
  <2> QED BY <2>1, <2>2 DEF Directors
<1>2. Unchallenged(d) = Passed(d, m)
  BY DEF Unchallenged
<1> HIDE DEF m
<1>3. /\ Unchallenged(d) \in Directors
      /\ Unchallenged(d).shown = d.shown /\ Unchallenged(d).confirm = 0
      /\ Unchallenged(d).since <= CooldownFrames /\ Unchallenged(d).since <= d.since + 1
  BY <1>1, <1>2, PassedIs
<1>4. Least(CooldownFrames, 1) = 1
  BY DEF Least, CameraAssumption
<1>5. /\ Switched(d, t) \in Directors /\ Switched(d, t).shown = t
      /\ Switched(d, t).confirm = Unchallenged(d).confirm /\ Switched(d, t).since = 1
  <2> DEFINE one == [Unchallenged(d) EXCEPT !.shown = t]
  <2>1. one \in Directors /\ one.shown = t /\ one.confirm = Unchallenged(d).confirm
    BY <1>3 DEF Directors
  <2>2. Switched(d, t) = [one EXCEPT !.since = 1]
    BY <1>4 DEF Switched
  <2> HIDE DEF one
  <2> QED BY <2>1, <2>2 DEF Directors
<1> QED BY <1>3, <1>5

\* What the switch machine may do with a frame.
CountOf(d, f) == IF d.challenger = f.best THEN d.confirm + 1 ELSE 1
Follows(d, f, g) ==
  \/ f.left /\ g.confirm = 0 /\ g.since = 1
  \/ /\ ~f.left /\ f.beats /\ d.since = CooldownFrames /\ CountOf(d, f) >= ConfirmFrames
     /\ g.shown = f.best /\ g.confirm = 0 /\ g.since = 1
  \/ /\ ~f.left /\ f.beats /\ CountOf(d, f) < ConfirmFrames
     /\ g.shown = d.shown /\ g.challenger = f.best /\ g.confirm = CountOf(d, f)
     /\ g.since <= CooldownFrames /\ g.since <= d.since + 1
  \/ /\ ~f.left /\ g.shown = d.shown /\ g.confirm = 0
     /\ g.since <= CooldownFrames /\ g.since <= d.since + 1

LEMMA FollowedIs ==
  ASSUME CameraAssumption, NEW d \in Directors, d.since <= CooldownFrames,
         NEW f \in Frames(d.shown)
  PROVE  /\ Followed(d, f) \in Directors
         /\ f.best \in Nat /\ f.left \in BOOLEAN /\ f.beats \in BOOLEAN
         /\ Follows(d, f, Followed(d, f))
<1> DEFINE g == Followed(d, f)
           n == CountOf(d, f)
<1>1. f.best \in Nat /\ f.left \in BOOLEAN /\ f.beats \in BOOLEAN
  <2>1. CASE f = [best |-> NoFace, left |-> FALSE, beats |-> FALSE]
    BY <2>1 DEF NoFace
  <2>2. CASE f \in [best : Tracks, left : BOOLEAN, beats : BOOLEAN]
    BY <2>2 DEF Tracks, CameraAssumption
  <2> QED BY <2>1, <2>2 DEF Frames
<1>2. CASE f.left
  BY <1>1, <1>2, SwitchedIs DEF Followed, Follows
<1>3. CASE ~f.left /\ f.beats /\ d.since >= CooldownFrames
  <2>1. g = Challenged(d, f.best) /\ n \in Nat /\ d.since = CooldownFrames
    BY <1>1, <1>3 DEF Followed, Directors, CameraAssumption, CountOf
  <2>2. CASE n >= ConfirmFrames
    <3>1. g = Switched(d, f.best)
      BY <2>1, <2>2 DEF Challenged, CountOf
    <3> HIDE DEF g, n
    <3>2. g \in Directors /\ g.shown = f.best /\ g.confirm = 0 /\ g.since = 1
      BY <3>1, <1>1, SwitchedIs
    <3> QED BY <3>2, <2>1, <2>2, <1>1, <1>3 DEF Follows, g, n
  <2>3. CASE ~(n >= ConfirmFrames)
    <3> DEFINE m == [d EXCEPT !.challenger = f.best, !.confirm = n]
    <3>1. m \in Directors /\ m.shown = d.shown /\ m.challenger = f.best /\ m.confirm = n
      <4> DEFINE one == [d EXCEPT !.challenger = f.best]
      <4>1. one \in Directors /\ one.shown = d.shown /\ one.challenger = f.best
        BY <1>1 DEF Directors
      <4>2. m = [one EXCEPT !.confirm = n]
        OBVIOUS
      <4> HIDE DEF one, m, n
      <4> QED BY <4>1, <4>2, <2>1 DEF Directors
    <3>2. g = Passed(d, m)
      BY <2>1, <2>3 DEF Challenged, CountOf
    <3>3. n < ConfirmFrames
      BY <2>1, <2>3 DEF CameraAssumption
    <3> HIDE DEF m, g, n
    <3>4. /\ g \in Directors /\ g.shown = d.shown /\ g.challenger = f.best /\ g.confirm = n
          /\ g.since <= CooldownFrames /\ g.since <= d.since + 1
      BY <3>1, <3>2, PassedIs
    <3> QED BY <3>4, <3>3, <1>1, <1>3 DEF g, n, Follows
  <2> QED BY <2>2, <2>3
<1>4. CASE ~f.left /\ ~(f.beats /\ d.since >= CooldownFrames)
  <2>1. g = Unchallenged(d)
    BY <1>4 DEF Followed
  <2> HIDE DEF g
  <2>2. /\ g \in Directors /\ g.shown = d.shown /\ g.confirm = 0
        /\ g.since <= CooldownFrames /\ g.since <= d.since + 1
    BY <2>1, SwitchedIs
  <2> QED BY <2>2, <1>1, <1>4 DEF g, Follows
<1> QED BY <1>1, <1>2, <1>3, <1>4

Turning(f, i) == i > 1 /\ f[i].shown # f[i - 1].shown

LEMMA DirectKept ==
  ASSUME CameraAssumption, DirectorInv, Direct
  PROVE  DirectorInv'
<1> DEFINE L == Len(film)
           M == Len(film')
<1>1. PICK f \in Frames(director.shown) :
        /\ director' = Followed(director, f)
        /\ film' = LastFrames(Append(film,
             [shown |-> director'.shown, left |-> f.left,
              beaten |-> IF f.beats THEN f.best ELSE NoFace]))
  BY DEF Direct
<1> DEFINE new == [shown |-> director'.shown, left |-> f.left,
                   beaten |-> IF f.beats THEN f.best ELSE NoFace]
<1>2. /\ director \in Directors /\ director.since <= CooldownFrames
      /\ director.confirm \in Nat /\ director.since \in Nat /\ director.shown \in Nat
  BY DEF DirectorInv, Cooling, Directors
<1>3. /\ director' \in Directors
      /\ f.best \in Nat /\ f.left \in BOOLEAN /\ f.beats \in BOOLEAN
      /\ Follows(director, f, director')
  BY <1>1, <1>2, FollowedIs
<1>4. new \in Pictures
  <2>1. director'.shown \in Nat /\ f.left \in BOOLEAN
        /\ (IF f.beats THEN f.best ELSE NoFace) \in Nat
    BY <1>3 DEF Directors, NoFace
  <2> QED BY <2>1 DEF Pictures
<1>16. film' = LastFrames(Append(film, new)) /\ film \in Seq(Pictures) /\ Len(film) <= FilmLength
  BY <1>1 DEF DirectorInv
<1> HIDE DEF new
<1>5. /\ film' \in Seq(Pictures) /\ Len(film') <= FilmLength
      /\ \E k \in {0, 1} :
           /\ Len(film') + k = Len(film) + 1 /\ (k = 1 => Len(film') = FilmLength)
           /\ \A i \in 1 .. Len(film') :
                film'[i] = IF i = Len(film') THEN new ELSE film[i + k]
  <2>1. Shifted(film, new, LastFrames(Append(film, new)))
    BY <1>16, <1>4, FilmMoves
  <2> QED BY <2>1, <1>16 DEF Shifted
<1>6. PICK k \in {0, 1} :
        /\ M + k = L + 1 /\ (k = 1 => M = FilmLength)
        /\ \A i \in 1 .. M : film'[i] = IF i = M THEN new ELSE film[i + k]
  BY <1>5
<1>7. /\ L \in Nat /\ M \in Nat /\ M > 0 /\ film'[M] = new
      /\ \A i \in 1 .. M : i # M => i + k \in 1 .. L /\ film'[i] = film[i + k]
  <2>1. L \in Nat /\ M \in Nat
    BY <1>5 DEF DirectorInv
  <2>2. M > 0
    BY <2>1, <1>6, FilmLengthIs DEF CameraAssumption
  <2> QED BY <2>1, <2>2, <1>6
<1>8. /\ new.shown = director'.shown /\ new.left = f.left
      /\ new.beaten = IF f.beats THEN f.best ELSE NoFace
  BY DEF new
<1>9. FilmLength \in Nat /\ ConfirmFrames <= FilmLength /\ CooldownFrames < FilmLength
      /\ ConfirmFrames \in Nat /\ ConfirmFrames > 0 /\ CooldownFrames \in Nat
      /\ CooldownFrames > 0
  BY FilmLengthIs DEF CameraAssumption
\* Whether one of the frames before turns is known already.
<1>17. \A i : (TurnsTo(i) <=> Turning(film, i)) /\ (TurnsTo(i)' <=> Turning(film', i))
  BY DEF TurnsTo, Turning
<1>10. ASSUME NEW i \in 1 .. M, i # M, Turning(film', i)
       PROVE  Turning(film, i + k)
  <2>3. i > 1 /\ film'[i] = film[i + k]
    BY <1>10, <1>7 DEF Turning
  <2>4. i - 1 \in 1 .. M /\ i - 1 # M
    BY <2>3, <1>7
  <2>5. film'[i - 1] = film[(i - 1) + k]
    BY <2>4, <1>7
  <2>1. i > 1 /\ film'[i] = film[i + k] /\ film'[i - 1] = film[i - 1 + k]
    BY <2>3, <2>5
  <2>2. i + k > 1 /\ i + k - 1 = i - 1 + k
    BY <2>1, <1>6, <1>7
  <2> QED BY <2>1, <2>2, <1>10 DEF Turning
<1>11. ASSUME Turning(film', M) PROVE director.shown # director'.shown
  <2>2. M > 1 /\ film'[M].shown # film'[M - 1].shown
    BY <1>11 DEF Turning
  <2>3. M - 1 \in 1 .. M /\ M - 1 # M /\ M - 1 + k = L /\ L > 0
    BY <2>2, <1>6, <1>7
  <2>4. film'[M - 1] = film[L]
    BY <2>3, <1>7
  <2> QED BY <2>2, <2>3, <2>4, <1>7, <1>8 DEF DirectorInv
<1>18. /\ director.confirm < ConfirmFrames /\ director.confirm <= L
       /\ \A j \in 1 .. L : j > L - director.confirm => film[j].beaten = director.challenger
       /\ \A j \in 1 .. L : Turning(film, j) => j + director.since <= L + 1
       /\ director.challenger \in Nat
  BY <1>17 DEF DirectorInv, Confirmed, Cooling, Directors
<1>19. /\ director'.confirm \in Nat /\ director'.since \in Nat /\ director'.shown \in Nat
       /\ director'.challenger \in Nat
  BY <1>3 DEF Directors
<1> DEFINE n == CountOf(director, f)
<1>20. n \in Nat /\ n > 0
       /\ (n = 1 \/ (director.challenger = f.best /\ n = director.confirm + 1))
  BY <1>2 DEF CountOf
<1> HIDE DEF L, M, n
\* The frames that were counted: the best face beat the one shown in them.
<1>21. ASSUME f.beats, ~f.left, NEW j \in 1 .. M, j > M - n
       PROVE  film'[j].beaten = f.best
  <2>1. CASE j = M
    BY <2>1, <1>7, <1>8, <1>21
  <2>2. CASE j # M
    <3>1. j + k \in 1 .. L /\ film'[j] = film[j + k]
      BY <2>2, <1>7
    <3>2. n = director.confirm + 1 /\ director.challenger = f.best
      BY <2>2, <1>7, <1>20, <1>21
    <3>3. j + k > L - director.confirm
      BY <3>2, <1>2, <1>6, <1>7, <1>21
    <3> QED BY <3>1, <3>2, <3>3, <1>18
  <2> QED BY <2>1, <2>2
<1>12. Confirmed'
  <2>1. /\ director'.confirm < ConfirmFrames /\ director'.confirm <= M
        /\ \A j \in 1 .. M : j > M - director'.confirm => film'[j].beaten = director'.challenger
    <3>1. CASE director'.confirm = 0
      BY <3>1, <1>7, <1>9
    <3>2. CASE /\ ~f.left /\ f.beats /\ n < ConfirmFrames
               /\ director'.challenger = f.best /\ director'.confirm = n
      <4>1. n <= M
        BY <3>2, <1>2, <1>6, <1>7, <1>9, <1>18, <1>20
      <4> QED BY <4>1, <3>2, <1>21
    <3> QED BY <3>1, <3>2, <1>3 DEF Follows, n
  <2> QED BY <2>1 DEF Confirmed, M
<1>13. Cooling'
  <2>1. director'.since <= CooldownFrames
    BY <1>3, <1>9 DEF Follows
  <2>2. ASSUME NEW j \in 1 .. M, Turning(film', j) PROVE j + director'.since <= M + 1
    <3>1. CASE director'.since = 1
      BY <3>1, <1>7
    <3>2. CASE director'.shown = director.shown /\ director'.since <= director.since + 1
      <4>1. j # M
        BY <2>2, <3>2, <1>11
      <4>2. Turning(film, j + k) /\ j + k \in 1 .. L
        BY <4>1, <2>2, <1>7, <1>10
      <4>3. j + k + director.since <= L + 1
        BY <4>2, <1>18
      <4> QED BY <4>3, <3>2, <1>2, <1>6, <1>7, <1>19
    <3> QED BY <3>1, <3>2, <1>3 DEF Follows
  <2> QED BY <2>1, <2>2, <1>17 DEF Cooling, M
<1>22. ASSUME NEW m \in 1 .. L, Turning(film, m), ~film[m].left
       PROVE  /\ \A j \in 1 .. m : j > m - ConfirmFrames => film[j].beaten = film[m].shown
              /\ \A j \in 1 .. (m - 1) : j > m - CooldownFrames => ~Turning(film, j)
  BY <1>17, <1>22 DEF DirectorInv, SteadyFilm, L
<1>14. SteadyFilm'
  <2>1. ASSUME NEW i \in 1 .. M, Turning(film', i), ~film'[i].left
        PROVE  /\ \A j \in 1 .. i : j > i - ConfirmFrames => film'[j].beaten = film'[i].shown
               /\ \A j \in 1 .. (i - 1) : j > i - CooldownFrames => ~Turning(film', j)
    <3>1. CASE i # M
      <4>1. /\ Turning(film, i + k) /\ i + k \in 1 .. L /\ film'[i] = film[i + k]
        BY <3>1, <2>1, <1>7, <1>10
      <4>2. /\ \A j \in 1 .. (i + k) : j > i + k - ConfirmFrames
                 => film[j].beaten = film[i + k].shown
            /\ \A j \in 1 .. (i + k - 1) : j > i + k - CooldownFrames => ~Turning(film, j)
        <5>1. ~film[i + k].left
          BY <4>1, <2>1
        <5> QED BY <4>1, <5>1, <1>22
      <4>3. ASSUME NEW j \in 1 .. i, j > i - ConfirmFrames
            PROVE  film'[j].beaten = film'[i].shown
        <5>1. j \in 1 .. M /\ j # M /\ j + k \in 1 .. (i + k) /\ j + k > i + k - ConfirmFrames
          BY <3>1, <4>3, <1>6, <1>7, <1>9
        <5>2. film'[j] = film[j + k]
          BY <5>1, <1>7
        <5> QED BY <5>1, <5>2, <4>1, <4>2
      <4>4. ASSUME NEW j \in 1 .. (i - 1), j > i - CooldownFrames, Turning(film', j)
            PROVE  FALSE
        <5>1. j \in 1 .. M /\ j # M /\ j + k \in 1 .. (i + k - 1)
              /\ j + k > i + k - CooldownFrames
          BY <3>1, <4>4, <1>6, <1>7, <1>9
        <5>2. Turning(film, j + k)
          BY <5>1, <4>4, <1>10
        <5> QED BY <5>1, <5>2, <4>2
      <4> QED BY <4>3, <4>4
    <3>2. CASE i = M
      <4>1. ~f.left /\ director'.shown # director.shown
        BY <3>2, <2>1, <1>7, <1>8, <1>11
      <4>2. /\ f.beats /\ director.since = CooldownFrames /\ n >= ConfirmFrames
            /\ director'.shown = f.best
        BY <4>1, <1>3 DEF Follows, n
      <4>3. ASSUME NEW j \in 1 .. i, j > i - ConfirmFrames
            PROVE  film'[j].beaten = film'[i].shown
        <5>1. j \in 1 .. M /\ j > M - n
          BY <3>2, <4>2, <4>3, <1>7, <1>9, <1>20
        <5> QED BY <5>1, <3>2, <4>1, <4>2, <1>7, <1>8, <1>21
      <4>4. ASSUME NEW j \in 1 .. (i - 1), j > i - CooldownFrames, Turning(film', j)
            PROVE  FALSE
        <5>1. j \in 1 .. M /\ j # M
          BY <3>2, <4>4, <1>7
        <5>2. Turning(film, j + k) /\ j + k \in 1 .. L
          BY <5>1, <4>4, <1>7, <1>10
        <5>3. j + k + CooldownFrames <= L + 1
          BY <5>2, <4>2, <1>18
        <5> QED BY <5>3, <3>2, <4>4, <1>6, <1>7, <1>9
      <4> QED BY <4>3, <4>4
    <3> QED BY <3>1, <3>2
  <2>2. \A i : film'[i] = film[i]' /\ film'[i].left = film[i].left'
    OBVIOUS
  <2> QED BY <2>1, <1>17 DEF SteadyFilm, M
<1>15. SteadyPunches'
  BY DEF Direct, DirectorInv, SteadyPunches
<1> QED BY <1>3, <1>5, <1>7, <1>8, <1>12, <1>13, <1>14, <1>15 DEF DirectorInv, M

\* Of moments that are given there are some that are as far apart as the punch-ins.
FarApart(ms, kk) == \A m \in ms : m \in kk <=> \A j \in kk : j < m => m - j >= PunchGap

LEMMA FarApartExists ==
  ASSUME CameraAssumption, NEW n \in Nat, NEW ms \in SUBSET (1 .. n)
  PROVE  \E kk \in SUBSET ms : FarApart(ms, kk)
<1> DEFINE Some(b) == \A xs \in SUBSET (1 .. b) : \E kk \in SUBSET xs : FarApart(xs, kk)
           Bad == {b \in Nat : ~Some(b)}
<1>1. Bad = {}
  <2> SUFFICES ASSUME Bad # {} PROVE FALSE
    OBVIOUS
  <2> DEFINE b == Min(Bad)
  <2>1. b \in Bad /\ \A x \in Bad : b <= x
    <3>1. Bad \in SUBSET Nat
      OBVIOUS
    <3> HIDE DEF Bad
    <3> QED BY <3>1, MinIsLeast
  <2>2. b \in Nat /\ ~Some(b)
    BY <2>1
  <2> HIDE DEF b
  <2>3. PICK xs \in SUBSET (1 .. b) : ~\E kk \in SUBSET xs : FarApart(xs, kk)
    BY <2>2
  <2>4. b > 0
    <3>1. CASE b = 0
      <4>1. xs = {} /\ FarApart({}, {})
        BY <2>2, <3>1 DEF FarApart
      <4> QED BY <4>1, <2>3
    <3> QED BY <3>1, <2>2
  <2>5. Some(b - 1)
    <3>1. b - 1 \in Nat /\ ~(b <= b - 1)
      BY <2>2, <2>4
    <3>2. b - 1 \notin Bad
      BY <3>1, <2>1
    <3> QED BY <3>1, <3>2
  <2> DEFINE old == xs \ {b}
  <2>6. old \in SUBSET (1 .. (b - 1))
    <3>1. \A m \in 1 .. b : m # b => m \in 1 .. (b - 1)
      BY <2>2
    <3> QED BY <3>1
  <2>7. PICK kk \in SUBSET old : FarApart(old, kk)
    <3> HIDE DEF old
    <3> QED BY <2>5, <2>6
  <2>8. /\ \A j \in kk : j \in Nat /\ j < b
        /\ \A j \in old : j \in Nat /\ j < b
    BY <2>2, <2>6
  <2>9. CASE b \in xs /\ \A j \in kk : b - j >= PunchGap
    <3>1. kk \cup {b} \in SUBSET xs
      BY <2>7, <2>9
    <3>2. ASSUME NEW m \in xs
          PROVE  m \in kk \cup {b} <=> \A j \in kk \cup {b} : j < m => m - j >= PunchGap
      <4>1. CASE m = b
        BY <4>1, <2>2, <2>9
      <4>2. CASE m # b
        <5>1. m \in old /\ m \in Nat /\ m < b
          BY <4>2, <2>8
        <5>2. m \in kk <=> \A j \in kk : j < m => m - j >= PunchGap
          BY <5>1, <2>7 DEF FarApart
        <5> QED BY <5>1, <5>2, <4>2, <2>2
      <4> QED BY <4>1, <4>2
    <3>3. FarApart(xs, kk \cup {b})
      BY <3>2 DEF FarApart
    <3> QED BY <3>1, <3>3, <2>3
  <2>10. CASE ~(b \in xs /\ \A j \in kk : b - j >= PunchGap)
    <3>1. kk \in SUBSET xs
      BY <2>7
    <3>2. ASSUME NEW m \in xs
          PROVE  m \in kk <=> \A j \in kk : j < m => m - j >= PunchGap
      <4>1. CASE m = b
        BY <4>1, <3>2, <2>8, <2>10
      <4>2. CASE m # b
        BY <4>2, <3>2, <2>7 DEF FarApart
      <4> QED BY <4>1, <4>2
    <3>3. FarApart(xs, kk)
      BY <3>2 DEF FarApart
    <3> QED BY <3>1, <3>3, <2>3
  <2> QED BY <2>9, <2>10
<1>2. Some(n)
  <2> HIDE DEF Some
  <2> QED BY <1>1
<1> QED BY <1>2

LEMMA ScheduleIsApart ==
  ASSUME CameraAssumption, NEW n \in Nat, NEW ms \in SUBSET (1 .. n)
  PROVE  \A i, j \in PunchSchedule(ms) : i < j => j - i >= PunchGap
<1> DEFINE kk == Spaced(ms)
<1>1. kk \in SUBSET ms /\ FarApart(ms, kk)
  <2>1. kk = CHOOSE k \in SUBSET ms : FarApart(ms, k)
    BY Zenon DEF Spaced, FarApart
  <2>2. \E k \in SUBSET ms : FarApart(ms, k)
    BY FarApartExists
  <2> HIDE DEF kk
  <2> QED BY Zenon, <2>1, <2>2
<1>2. PunchSchedule(ms) \subseteq kk
  BY DEF PunchSchedule
<1> HIDE DEF kk
<1> QED BY <1>1, <1>2 DEF FarApart

\* Before the first clip.
LEMMA NoCameraInv == ASSUME CameraAssumption, NoCamera PROVE DirectorInv
<1>1. director = ColdStart /\ film = <<>> /\ punches = {} /\ Len(film) = 0
  BY DEF NoCamera
<1>2. /\ director \in Directors /\ director.confirm = 0 /\ director.since = CooldownFrames
  BY <1>1 DEF ColdStart, Directors, NoFace, CameraAssumption
<1>3. FilmLength \in Nat /\ 0 < ConfirmFrames /\ CooldownFrames \in Nat
  BY FilmLengthIs DEF CameraAssumption
<1>4. SteadyPunches /\ SteadyFilm /\ Cooling /\ Confirmed
  BY <1>1, <1>2, <1>3 DEF SteadyPunches, SteadyFilm, Cooling, Confirmed
<1> QED BY <1>1, <1>2, <1>3, <1>4 DEF DirectorInv

LEMMA NewClipInv == ASSUME CameraAssumption, NewClip PROVE DirectorInv'
<1>1. director' = ColdStart /\ film' = <<>> /\ punches' = {} /\ Len(film') = 0
  BY DEF NewClip
<1>2. /\ director' \in Directors /\ director'.confirm = 0 /\ director'.since = CooldownFrames
  BY <1>1 DEF ColdStart, Directors, NoFace, CameraAssumption
<1>3. FilmLength \in Nat /\ 0 < ConfirmFrames /\ CooldownFrames \in Nat
  BY FilmLengthIs DEF CameraAssumption
<1>4. SteadyPunches' /\ SteadyFilm' /\ Cooling' /\ Confirmed'
  BY <1>1, <1>2, <1>3 DEF SteadyPunches, SteadyFilm, Cooling, Confirmed
<1> QED BY <1>1, <1>2, <1>3, <1>4 DEF DirectorInv

LEMMA CameraKept ==
  ASSUME CameraAssumption, DirectorInv, CameraNext
  PROVE  DirectorInv'
<1>1. CASE LoadVision \/ WriteTrajectory \/ StopCamera
  BY <1>1, NewClipInv DEF LoadVision, WriteTrajectory, StopCamera
<1>2. CASE Direct
  BY <1>2, DirectKept
<1>3. CASE EndShot
  <2>1. /\ director' = [ColdStart EXCEPT !.frame = director.frame] /\ film' = <<>>
        /\ punches' = punches /\ Len(film') = 0 /\ director.frame \in Nat
    BY <1>3 DEF EndShot, DirectorInv, Directors
  <2>2. /\ director' \in Directors /\ director'.confirm = 0
        /\ director'.since = CooldownFrames
    BY <2>1 DEF ColdStart, Directors, NoFace, CameraAssumption
  <2>3. FilmLength \in Nat /\ 0 < ConfirmFrames /\ CooldownFrames \in Nat
    BY FilmLengthIs DEF CameraAssumption
  <2>4. SteadyFilm' /\ Cooling' /\ Confirmed'
    BY <2>1, <2>2, <2>3 DEF SteadyFilm, Cooling, Confirmed
  <2>5. SteadyPunches'
    BY <2>1 DEF DirectorInv, SteadyPunches
  <2> QED BY <2>1, <2>2, <2>3, <2>4, <2>5 DEF DirectorInv
<1>4. CASE Punch
  <2>1. /\ director' = director /\ film' = film /\ director.frame \in Nat
        /\ \E ms \in SUBSET (1 .. director.frame) : punches' = PunchSchedule(ms)
    BY <1>4 DEF Punch, DirectorInv, Directors
  <2>2. SteadyPunches'
    BY <2>1, ScheduleIsApart DEF SteadyPunches
  <2> QED BY <2>1, <2>2 DEF DirectorInv, Confirmed, Cooling, SteadyFilm, TurnsTo
<1>5. CASE ResumeCamera
  BY <1>5 DEF ResumeCamera, cameraVars, DirectorInv, Confirmed, Cooling, SteadyFilm,
              SteadyPunches, TurnsTo
<1> QED BY <1>1, <1>2, <1>3, <1>4, <1>5 DEF CameraNext

-----------------------------------------------------------------------------
(***************************************************************************)
(* The editing of a clip.  First the selections from a list.               *)
(***************************************************************************)
LEMMA Stepwise ==
  ASSUME NEW T, 0 \in T, \A k \in Nat : k \in T => k + 1 \in T, NEW n \in Nat
  PROVE  n \in T
<1> DEFINE B == {m \in Nat : m \notin T}
<1>1. ASSUME B # {} PROVE FALSE
  <2>1. PICK m \in B : \A k \in B : m <= k
    BY <1>1, MinIsLeast
  <2>2. m \in Nat /\ m # 0
    BY <2>1
  <2>3. PICK k \in Nat : k + 1 = m /\ ~(m <= k)
    BY <2>2
  <2>4. k \in T
    BY <2>1, <2>3
  <2> QED BY <2>1, <2>3, <2>4
<1> QED BY <1>1

\* q has the places from 1 to n that are in I, in order.
Picks(q, I, n) ==
  /\ q \in Seq(Nat)
  /\ \A j \in 1 .. Len(q) : q[j] \in 1 .. n /\ q[j] \in I
  /\ \A j, k \in 1 .. Len(q) : j < k => q[j] < q[k]
  /\ \A i \in 1 .. n : i \in I => \E j \in 1 .. Len(q) : q[j] = i

LEMMA PlaceAdded ==
  ASSUME NEW I, NEW q, NEW n \in Nat, Picks(q, I, n)
  PROVE  Picks(WithPlace(I, q, n + 1), I, n + 1)
<1>1. /\ q \in Seq(Nat) /\ Len(q) \in Nat
      /\ \A j \in 1 .. Len(q) : q[j] \in 1 .. n /\ q[j] \in I
      /\ \A j, k \in 1 .. Len(q) : j < k => q[j] < q[k]
      /\ \A i \in 1 .. n : i \in I => \E j \in 1 .. Len(q) : q[j] = i
  BY DEF Picks
<1>2. PICK m \in Nat : m = n + 1
  OBVIOUS
<1>3. \A i \in 1 .. n : i \in 1 .. m /\ i < m
  BY <1>2
<1>4. CASE m \notin I
  <2>1. \A i \in 1 .. m : i \in I => i \in 1 .. n
    BY <1>2, <1>4
  <2>2. Picks(q, I, m)
    BY <1>1, <1>3, <2>1 DEF Picks
  <2> QED BY <1>2, <1>4, <2>2 DEF WithPlace
<1>5. CASE m \in I
  <2>1. PICK l \in Nat : l = Len(q) + 1
    BY <1>1
  <2> DEFINE r == Append(q, m)
  <2>2. /\ r \in Seq(Nat) /\ Len(r) = l /\ r[l] = m
        /\ \A j \in 1 .. Len(q) : r[j] = q[j]
    BY <1>1, <2>1, AppendProperties
  <2> HIDE DEF r
  <2>3. \A j \in 1 .. l : j = l \/ j \in 1 .. Len(q)
    BY <1>1, <2>1
  <2>4. l \in 1 .. l /\ m \in 1 .. m /\ \A j \in 1 .. Len(q) : j \in 1 .. l /\ ~(l < j)
    BY <1>1, <1>2, <2>1
  <2>5. ASSUME NEW j \in 1 .. l PROVE r[j] \in 1 .. m /\ r[j] \in I
    BY <1>1, <1>3, <1>5, <2>2, <2>3, <2>4
  <2>6. ASSUME NEW j \in 1 .. l, NEW k \in 1 .. l, j < k PROVE r[j] < r[k]
    <3>1. j \in 1 .. Len(q)
      BY <2>3, <2>4, <2>6
    <3> QED BY <1>1, <1>3, <2>2, <2>3, <2>6, <3>1
  <2>7. ASSUME NEW i \in 1 .. m, i \in I PROVE \E j \in 1 .. l : r[j] = i
    <3>1. CASE i = m
      BY <2>2, <2>4, <3>1
    <3>2. CASE i # m
      <4>1. i \in 1 .. n
        BY <1>2, <3>2
      <4>2. PICK j \in 1 .. Len(q) : q[j] = i
        BY <1>1, <2>7, <4>1
      <4> QED BY <2>2, <2>4, <4>2
    <3> QED BY <3>1, <3>2
  <2>8. Picks(r, I, m)
    BY <2>2, <2>5, <2>6, <2>7 DEF Picks
  <2> QED BY <1>2, <1>5, <2>8 DEF WithPlace, r
<1> QED BY <1>4, <1>5

LEMMA InOrderIs ==
  ASSUME NEW I, NEW n \in Nat
  PROVE  \E g : /\ g[0] = <<>> /\ \A k \in 1 .. n : g[k] = WithPlace(I, g[k - 1], k)
                /\ InOrder(I, n) = g[n]
<1> DEFINE X == Seq(Nat)
           list == [i \in 1 .. n |-> i]
           Fold(g) == g = [s \in SUBSET (1 .. n) |->
                       IF s = {} THEN <<>> ELSE WithPlace(I, g[s \ {Max(s)}], list[Max(s)])]
           f == [p \in X \X (1 .. n) |-> WithPlace(I, p[1], p[2])]
           iter == CHOOSE g : Fold(g)
           h == [k \in 0 .. n |-> iter[1 .. k]]
<1>1. f \in [X \X (1 .. n) -> X]
  <2>1. ASSUME NEW p \in X \X (1 .. n) PROVE WithPlace(I, p[1], p[2]) \in X
    <3>1. p[1] \in Seq(Nat) /\ p[2] \in Nat
      OBVIOUS
    <3> QED BY <3>1 DEF WithPlace
  <2> QED BY <2>1
<1>2. <<>> \in X
  OBVIOUS
<1> HIDE DEF X
<1>3. PICK g : FoldsIn(X, g, f, <<>>, n)
  <2> HIDE DEF f
  <2> QED BY <1>1, <1>2, FoldsWithin
<1>4. Fold(g)
  <2>1. ASSUME NEW s \in SUBSET (1 .. n)
        PROVE  g[s] = IF s = {} THEN <<>> ELSE WithPlace(I, g[s \ {Max(s)}], list[Max(s)])
    <3>1. CASE s # {}
      <4>1. <<g[s \ {Max(s)}], Max(s)>> \in X \X (1 .. n) /\ list[Max(s)] = Max(s)
        BY <1>3, <3>1 DEF FoldsIn
      <4> HIDE DEF list
      <4> QED BY <1>3, <3>1, <4>1 DEF FoldsIn
    <3> QED BY <1>3, <3>1 DEF FoldsIn
  <2> HIDE DEF list
  <2> QED BY <1>3, <2>1 DEF FoldsIn
<1>5. Fold(iter)
  BY <1>4
<1>6. InOrder(I, n) = iter[1 .. n]
  BY DEF InOrder, FoldLeft, MapThenFoldSet
<1> HIDE DEF iter
<1>7. iter[1 .. 0] = <<>>
  <2>1. 1 .. 0 = {} /\ {} \in SUBSET (1 .. n)
    OBVIOUS
  <2> QED BY <1>5, <2>1
<1>8. ASSUME NEW k \in 1 .. n PROVE iter[1 .. k] = WithPlace(I, iter[1 .. k - 1], k)
  <2>1. /\ 1 .. k \in SUBSET (1 .. n) /\ 1 .. k # {}
        /\ (1 .. k) \ {Max(1 .. k)} = 1 .. k - 1 /\ Max(1 .. k) = k
    BY FirstOnes
  <2> QED BY <1>5, <2>1
<1>9. h[0] = <<>> /\ h[n] = iter[1 .. n] /\ \A k \in 1 .. n : h[k] = WithPlace(I, h[k - 1], k)
  BY <1>7, <1>8
<1> HIDE DEF h
<1> QED BY <1>6, <1>9

LEMMA InOrderPicks ==
  ASSUME NEW I, NEW n \in Nat
  PROVE  Picks(InOrder(I, n), I, n)
<1>1. PICK g : /\ g[0] = <<>> /\ \A k \in 1 .. n : g[k] = WithPlace(I, g[k - 1], k)
               /\ InOrder(I, n) = g[n]
  BY InOrderIs
<1> DEFINE T == {k \in Nat : k <= n => Picks(g[k], I, k)}
<1>2. 0 \in T
  <2>1. Picks(<<>>, I, 0)
    BY DEF Picks
  <2> QED BY <1>1, <2>1
<1>3. ASSUME NEW k \in Nat, k \in T PROVE k + 1 \in T
  <2>1. CASE k + 1 <= n
    <3>1. k <= n /\ k + 1 \in 1 .. n /\ (k + 1) - 1 = k
      BY <2>1
    <3>2. Picks(g[k], I, k) /\ g[k + 1] = WithPlace(I, g[k], k + 1)
      BY <1>1, <1>3, <3>1
    <3>3. Picks(g[k + 1], I, k + 1)
      BY <3>2, PlaceAdded
    <3> QED BY <3>3
  <2> QED BY <2>1
<1> HIDE DEF T
<1>4. n \in T
  BY <1>2, <1>3, Stepwise
<1> QED BY <1>1, <1>4 DEF T

LEMMA LengthIs ==
  ASSUME NEW n \in Nat, NEW f, f = [i \in 1 .. n |-> f[i]]
  PROVE  Len(f) = n /\ DOMAIN f = 1 .. n /\ f \in Seq({f[i] : i \in 1 .. n})
<1> DEFINE T == {f[i] : i \in 1 .. n}
<1>1. f \in [1 .. n -> T]
  OBVIOUS
<1>2. f \in Seq(T)
  <2> HIDE DEF T
  <2> QED BY <1>1, ListsAre
<1>3. DOMAIN f = 1 .. n
  BY <1>1
<1> HIDE DEF T
<1>4. Len(f) = n
  BY <1>2, <1>3, LenProperties
<1> QED BY <1>2, <1>3, <1>4 DEF T

\* s is what a list of n has at the places in q, which are those in I.
PickedBy(q, s, list, I, n) ==
  /\ Picks(q, I, n) /\ DOMAIN s = 1 .. Len(q) /\ Len(s) = Len(q)
  /\ \A j \in 1 .. Len(q) : s[j] = list[q[j]]

\* What those of a list are: the members at some of its places, in order.
LEMMA ThoseAre ==
  ASSUME NEW list, NEW I, NEW n \in Nat, Len(list) = n
  PROVE  \E q : PickedBy(q, Those(list, I), list, I, n)
<1>1. PICK q : q = InOrder(I, n) /\ Picks(q, I, n)
  BY InOrderPicks
<1>2. DOMAIN q = 1 .. Len(q) /\ Len(q) \in Nat
  BY <1>1 DEF Picks
<1>3. Those(list, I) = [j \in 1 .. Len(q) |-> list[q[j]]]
  BY <1>1, <1>2 DEF Those, AtPlaces
<1>4. Len(Those(list, I)) = Len(q)
  BY <1>2, <1>3, LengthIs
<1>5. \A j \in 1 .. Len(q) : Those(list, I)[j] = list[q[j]]
  BY <1>3
<1>6. DOMAIN Those(list, I) = 1 .. Len(q)
  BY <1>3
<1>7. PickedBy(q, Those(list, I), list, I, n)
  BY <1>1, <1>4, <1>5, <1>6 DEF PickedBy
<1> QED BY <1>7

-----------------------------------------------------------------------------
(***************************************************************************)
(* The words and reactions of a source, and the words in a clip.           *)
(***************************************************************************)
Word == [start : Nat, end : Nat, closing : BOOLEAN]

Told ==
  /\ talk.words \in Seq(Word)
  /\ \A i \in DOMAIN talk.words : talk.words[i].start < talk.words[i].end
  /\ \A i, j \in DOMAIN talk.words : i < j => talk.words[i].end <= talk.words[j].start
  /\ \A r \in talk.reactions : r[1] \in Nat /\ r[2] \in Nat /\ r[1] <= r[2]

WordsIn(ws, a, b) ==
  /\ Len(ws) \in Nat /\ DOMAIN ws = 1 .. Len(ws)
  /\ \A i \in 1 .. Len(ws) :
       /\ ws[i] \in Word /\ ws[i].start < ws[i].end /\ a <= ws[i].start /\ ws[i].start < b
       /\ ws[i] \in Range(talk.words)
  /\ \A i, j \in 1 .. Len(ws) : i < j => ws[i].end <= ws[j].start
  /\ \A w \in Range(talk.words) : a <= w.start /\ w.start < b =>
       \E i \in 1 .. Len(ws) : ws[i] = w

LEMMA InsideIs ==
  ASSUME Told, NEW a \in Int, NEW b \in Int
  PROVE  WordsIn(Inside(a, b), a, b)
<1> DEFINE all == talk.words
           I == {i \in DOMAIN all : a <= all[i].start /\ all[i].start < b}
           ws == Inside(a, b)
<1>1. PICK n \in Nat : Len(all) = n /\ DOMAIN all = 1 .. n
  BY DEF Told
<1>2. PICK q : /\ Picks(q, I, n) /\ DOMAIN ws = 1 .. Len(q) /\ Len(ws) = Len(q)
               /\ \A j \in 1 .. Len(q) : ws[j] = all[q[j]]
  <2>1. ws = Those(all, I)
    BY DEF Inside
  <2> HIDE DEF I, all, ws
  <2>2. PICK q : PickedBy(q, Those(all, I), all, I, n)
    BY <1>1, ThoseAre
  <2>3. PickedBy(q, ws, all, I, n)
    BY <2>1, <2>2
  <2> QED BY <2>3 DEF PickedBy
<1>3. \A i \in 1 .. n : all[i] \in Word /\ all[i].start < all[i].end /\ all[i] \in Range(all)
  BY <1>1 DEF Told, Range
<1>4. \A i, j \in 1 .. n : i < j => all[i].end <= all[j].start
  BY <1>1 DEF Told
<1>5. /\ Len(q) \in Nat
      /\ \A j \in 1 .. Len(q) : q[j] \in 1 .. n /\ a <= all[q[j]].start /\ all[q[j]].start < b
      /\ \A j, k \in 1 .. Len(q) : j < k => q[j] < q[k]
      /\ \A i \in 1 .. n : a <= all[i].start /\ all[i].start < b =>
           \E j \in 1 .. Len(q) : q[j] = i
  <2>1. \A i : i \in I <=> i \in 1 .. n /\ a <= all[i].start /\ all[i].start < b
    BY <1>1
  <2> HIDE DEF I, all, ws
  <2>2. /\ q \in Seq(Nat) /\ \A j \in 1 .. Len(q) : q[j] \in 1 .. n /\ q[j] \in I
        /\ \A j, k \in 1 .. Len(q) : j < k => q[j] < q[k]
        /\ \A i \in 1 .. n : i \in I => \E j \in 1 .. Len(q) : q[j] = i
    BY <1>2 DEF Picks
  <2>3. Len(q) \in Nat
    BY <2>2
  <2>4. \A j \in 1 .. Len(q) : q[j] \in 1 .. n /\ a <= all[q[j]].start /\ all[q[j]].start < b
    BY <2>1, <2>2
  <2>5. \A i \in 1 .. n : a <= all[i].start /\ all[i].start < b =>
          \E j \in 1 .. Len(q) : q[j] = i
    BY <2>1, <2>2
  <2> QED BY <2>2, <2>3, <2>4, <2>5
<1>6. \A w \in Range(all) : \E i \in 1 .. n : w = all[i]
  BY <1>1 DEF Range
<1> HIDE DEF all, I, ws
<1>7. WordsIn(ws, a, b)
  <2>1. \A i \in 1 .. Len(ws) :
          /\ ws[i] \in Word /\ ws[i].start < ws[i].end /\ a <= ws[i].start /\ ws[i].start < b
          /\ ws[i] \in Range(all)
    BY <1>2, <1>3, <1>5
  <2>2. \A i, j \in 1 .. Len(ws) : i < j => ws[i].end <= ws[j].start
    BY <1>2, <1>4, <1>5
  <2>3. \A w \in Range(all) : a <= w.start /\ w.start < b => \E i \in 1 .. Len(ws) : ws[i] = w
    <3>1. ASSUME NEW w \in Range(all), a <= w.start, w.start < b
          PROVE  \E i \in 1 .. Len(ws) : ws[i] = w
      <4>1. PICK i \in 1 .. n : w = all[i]
        BY <1>6
      <4>2. PICK j \in 1 .. Len(q) : q[j] = i
        BY <1>5, <3>1, <4>1
      <4> QED BY <1>2, <4>1, <4>2
    <3> QED BY <3>1
  <2> QED BY <1>2, <1>5, <2>1, <2>2, <2>3 DEF WordsIn, all
<1> QED BY <1>7 DEF ws

-----------------------------------------------------------------------------
(***************************************************************************)
(* The silences found in a clip are pauses between its words, in order.    *)
(***************************************************************************)
Pause(p, ws, a, b) ==
  /\ p.start \in Int /\ p.end \in Int /\ a <= p.start /\ p.end <= b
  /\ \A k \in 1 .. Len(ws) : p.end <= ws[k].start \/ ws[k].end <= p.start

LEMMA PausesAre ==
  ASSUME NEW a \in Int, NEW b \in Int, NEW ws, ws = Inside(a, b), WordsIn(ws, a, b)
  PROVE  \E n \in Nat :
           /\ Len(Pauses(a, b)) = n /\ DOMAIN Pauses(a, b) = 1 .. n
           /\ \A i \in 1 .. n : Pause(Pauses(a, b)[i], ws, a, b)
           /\ \A i, j \in 1 .. n : i < j => Pauses(a, b)[i].end <= Pauses(a, b)[j].start
<1> DEFINE P == Pauses(a, b)
<1>1. CASE ws = <<>>
  <2>1. P = <<>>
    BY <1>1 DEF Pauses, PausesAround
  <2>2. Len(P) = 0 /\ DOMAIN P = 1 .. 0
    BY <2>1
  <2> QED BY <2>2
<1>2. CASE ws # <<>>
  <2>1. PICK n \in Nat : n = Len(ws)
    BY DEF WordsIn
  <2>2. PICK m \in Nat : m = n + 1
    OBVIOUS
  <2>3. P = [i \in 1 .. m |->
               [start |-> IF i = 1 THEN a ELSE ws[i - 1].end,
                end |-> IF i > n THEN b ELSE ws[i].start,
                closing |-> i > 1 /\ ws[i - 1].closing]]
    BY <1>2, <2>1, <2>2 DEF Pauses, PausesAround
  <2>4. Len(P) = m /\ DOMAIN P = 1 .. m
    <3>1. P = [i \in 1 .. m |-> P[i]]
      BY <2>3
    <3> HIDE DEF P
    <3> QED BY <3>1, LengthIs
  <2>5. \A i \in 1 .. m : /\ P[i].start = IF i = 1 THEN a ELSE ws[i - 1].end
                          /\ P[i].end = IF i > n THEN b ELSE ws[i].start
    BY <2>3
  <2> HIDE DEF P
  <2>6. \A i \in 1 .. n : /\ ws[i].start \in Int /\ ws[i].end \in Int /\ a <= ws[i].start
                          /\ ws[i].start < ws[i].end /\ ws[i].start < b
    BY <2>1 DEF WordsIn, Word
  <2>7. \A i, j \in 1 .. n : i < j => ws[i].end <= ws[j].start
    BY <2>1 DEF WordsIn
  <2>8. ASSUME NEW i \in 1 .. m PROVE Pause(P[i], ws, a, b)
    <3>1. /\ P[i].start = IF i = 1 THEN a ELSE ws[i - 1].end
          /\ P[i].end = IF i > n THEN b ELSE ws[i].start
      BY <2>5
    <3>2. (i # 1 => i - 1 \in 1 .. n) /\ (~(i > n) => i \in 1 .. n)
      BY <2>2
    <3>3. P[i].start \in Int /\ a <= P[i].start
      BY <2>6, <3>1, <3>2
    <3>4. P[i].end \in Int /\ P[i].end <= b
      BY <2>6, <3>1, <3>2
    <3>5. ASSUME NEW k \in 1 .. n PROVE P[i].end <= ws[k].start \/ ws[k].end <= P[i].start
      <4>1. CASE i <= k
        <5>1. P[i].end = ws[i].start /\ i \in 1 .. n
          BY <3>1, <4>1
        <5>2. ws[i].start <= ws[k].start
          <6>1. CASE i = k
            BY <2>6, <6>1
          <6>2. CASE i < k
            BY <2>6, <2>7, <5>1, <6>2
          <6> QED BY <4>1, <6>1, <6>2
        <5> QED BY <5>1, <5>2
      <4>2. CASE ~(i <= k)
        <5>1. PICK j \in 1 .. n : j = i - 1 /\ k <= j /\ P[i].start = ws[j].end
          BY <2>2, <3>1, <4>2
        <5>2. ws[k].end <= ws[j].end
          <6>1. CASE j = k
            BY <2>6, <6>1
          <6>2. CASE k < j
            BY <2>6, <2>7, <5>1, <6>2
          <6> QED BY <5>1, <6>1, <6>2
        <5> QED BY <5>1, <5>2
      <4> QED BY <4>1, <4>2
    <3> QED BY <2>1, <3>3, <3>4, <3>5 DEF Pause
  <2>9. ASSUME NEW i \in 1 .. m, NEW j \in 1 .. m, i < j PROVE P[i].end <= P[j].start
    <3>1. PICK k \in 1 .. n : k = j - 1 /\ i <= k /\ P[j].start = ws[k].end
      BY <2>2, <2>5, <2>9
    <3>2. P[i].end = ws[i].start /\ i \in 1 .. n
      BY <2>5, <3>1
    <3>3. ws[i].start <= ws[k].end
      <4>1. CASE i = k
        BY <2>6, <4>1
      <4>2. CASE i < k
        BY <2>6, <2>7, <3>2, <4>2
      <4> QED BY <3>1, <4>1, <4>2
    <3> QED BY <3>1, <3>2, <3>3
  <2> QED BY <2>4, <2>8, <2>9 DEF P
<1> QED BY <1>1, <1>2

\* D has the silences of the m pauses in P.
SilencesOf(P, D, ws, a, b, m) ==
  /\ Len(D) = m /\ DOMAIN D = 1 .. m
  /\ \A i \in 1 .. m : /\ Pause(P[i], ws, a, b) /\ P[i].end >= P[i].start + MinCutGap
                       /\ D[i] = Silence(P[i])
  /\ \A i, j \in 1 .. m : i < j => P[i].end <= P[j].start

LEMMA SilencesAre ==
  ASSUME NEW a \in Int, NEW b \in Int, NEW ws, ws = Inside(a, b), WordsIn(ws, a, b)
  PROVE  \E P : \E m \in Nat : SilencesOf(P, DetectDeadSpace(a, b), ws, a, b, m)
<1> DEFINE all == Pauses(a, b)
           I == {i \in DOMAIN all : all[i].end >= all[i].start + MinCutGap}
           long == Those(all, I)
           D == DetectDeadSpace(a, b)
<1>1. PICK n \in Nat : /\ Len(all) = n /\ DOMAIN all = 1 .. n
                       /\ \A i \in 1 .. n : Pause(all[i], ws, a, b)
                       /\ \A i, j \in 1 .. n : i < j => all[i].end <= all[j].start
  BY PausesAre
<1>2. \A i : i \in I <=> i \in 1 .. n /\ all[i].end >= all[i].start + MinCutGap
  BY <1>1
<1>3. D = [i \in DOMAIN long |-> Silence(long[i])]
  BY DEF DetectDeadSpace
<1> HIDE DEF all, I, D
<1>4. PICK q : /\ Picks(q, I, n) /\ DOMAIN long = 1 .. Len(q) /\ Len(long) = Len(q)
               /\ \A j \in 1 .. Len(q) : long[j] = all[q[j]]
  <2>1. PICK q : PickedBy(q, Those(all, I), all, I, n)
    BY <1>1, ThoseAre
  <2> QED BY <2>1 DEF PickedBy
<1> HIDE DEF long
<1>5. PICK m \in Nat : m = Len(q)
  <2>1. q \in Seq(Nat)
    BY <1>4 DEF Picks
  <2> QED BY <2>1
<1>6. D = [i \in 1 .. m |-> Silence(long[i])]
  BY <1>3, <1>4, <1>5
<1>7. Len(D) = m /\ DOMAIN D = 1 .. m
  <2>1. D = [i \in 1 .. m |-> D[i]]
    BY <1>6
  <2> QED BY <2>1, LengthIs
<1>8. /\ \A j \in 1 .. m : q[j] \in 1 .. n /\ all[q[j]].end >= all[q[j]].start + MinCutGap
      /\ \A j, k \in 1 .. m : j < k => q[j] < q[k]
  BY <1>2, <1>4, <1>5 DEF Picks
<1>9. \A i \in 1 .. m : /\ Pause(long[i], ws, a, b) /\ long[i].end >= long[i].start + MinCutGap
                        /\ D[i] = Silence(long[i])
  BY <1>1, <1>4, <1>5, <1>6, <1>8
<1>10. \A i, j \in 1 .. m : i < j => long[i].end <= long[j].start
  BY <1>1, <1>4, <1>5, <1>8
<1>11. SilencesOf(long, D, ws, a, b, m)
  BY <1>7, <1>9, <1>10 DEF SilencesOf
<1> QED BY <1>11 DEF D

-----------------------------------------------------------------------------
(***************************************************************************)
(* What is cut out of a clip from a to b, and what stays clear of it.      *)
(***************************************************************************)
CutsIn(cuts, a, b) ==
  /\ Len(cuts) \in Nat /\ DOMAIN cuts = 1 .. Len(cuts)
  /\ \A j \in 1 .. Len(cuts) : /\ cuts[j].start \in Int /\ cuts[j].end \in Int
                               /\ a <= cuts[j].start /\ cuts[j].start < cuts[j].end
                               /\ cuts[j].end <= b
  /\ \A j, k \in 1 .. Len(cuts) : j < k => cuts[j].end <= cuts[k].start

Clear(cuts, x, y, d) ==
  \A j \in 1 .. Len(cuts) : cuts[j].end + d <= x \/ y + d <= cuts[j].start

\* A silence lies within a pause that is clear.
ClearPause(cuts, s, a, b) ==
  \E x, y \in Int :
    /\ a <= x /\ x + MinCutGap <= y /\ y <= b /\ x <= s.start /\ s.end <= y
    /\ s.start \in Int /\ s.end \in Int /\ Clear(cuts, x, y, 0)

Silences(D, e) == D = DetectDeadSpace(e.start, e.end)

\* What e removes are the silences of D at the places in q.
RemovedAt(q, e, D, m) ==
  /\ Len(Removed(e)) = Len(q) /\ DOMAIN Removed(e) = 1 .. Len(q) /\ Len(q) \in Nat
  /\ \A j \in 1 .. Len(q) : /\ q[j] \in 1 .. m /\ q[j] \notin e.off
                            /\ ~D[q[j]].kept /\ Removed(e)[j] = D[q[j]]
  /\ \A j, k \in 1 .. Len(q) : j < k => q[j] < q[k]

LEMMA RemovedFrom ==
  ASSUME NEW e, NEW m \in Nat, NEW D, Silences(D, e), Len(D) = m, DOMAIN D = 1 .. m
  PROVE  \E q : RemovedAt(q, e, D, m)
<1> DEFINE I == {i \in DOMAIN D : ~D[i].kept /\ i \notin e.off}
<1>1. Removed(e) = Those(D, I)
  BY DEF Removed, Silences
<1>2. \A i : i \in I <=> i \in 1 .. m /\ ~D[i].kept /\ i \notin e.off
  OBVIOUS
<1> HIDE DEF I
<1>3. PICK q : /\ Picks(q, I, m) /\ DOMAIN Those(D, I) = 1 .. Len(q)
               /\ Len(Those(D, I)) = Len(q)
               /\ \A j \in 1 .. Len(q) : Those(D, I)[j] = D[q[j]]
  <2>1. PICK q : PickedBy(q, Those(D, I), D, I, m)
    BY ThoseAre
  <2> QED BY <2>1 DEF PickedBy
<1>4. Len(q) \in Nat /\ \A j, k \in 1 .. Len(q) : j < k => q[j] < q[k]
  BY <1>3 DEF Picks
<1>5. \A j \in 1 .. Len(q) : q[j] \in 1 .. m /\ q[j] \notin e.off /\ ~D[q[j]].kept
  BY <1>2, <1>3 DEF Picks
<1>6. RemovedAt(q, e, D, m)
  BY Zenon, <1>1, <1>3, <1>4, <1>5 DEF RemovedAt
<1> QED BY <1>6

LEMMA CutIs ==
  ASSUME TimesAssumption, NEW p, NEW ws, NEW a \in Int, NEW b \in Int, Pause(p, ws, a, b),
         p.end >= p.start + MinCutGap
  PROVE  /\ Silence(p).start \in Int /\ Silence(p).end \in Int
         /\ p.start <= Silence(p).start /\ Silence(p).start <= Silence(p).end
         /\ Silence(p).end <= p.end
         /\ ~Silence(p).kept => /\ Silence(p).start = p.start + BreathPad
                                /\ Silence(p).end = p.end - BreathPad
                                /\ Silence(p).start < Silence(p).end
                                /\ ~NearReaction(p)
<1>1. p.start \in Int /\ p.end \in Int
  BY DEF Pause
<1>2. MinCutGap \in Nat /\ BreathPad \in Nat /\ MinCutGap > 2 * BreathPad
  BY DEF TimesAssumption
<1>3. CASE Stays(p)
  BY <1>1, <1>2, <1>3 DEF Silence
<1>4. CASE ~Stays(p)
  <2>1. ~NearReaction(p)
    BY <1>4 DEF Stays
  <2>2. /\ Silence(p).start = p.start + BreathPad /\ Silence(p).end = p.end - BreathPad
    BY <1>4 DEF Silence
  <2>3. p.start + BreathPad < p.end - BreathPad
    BY <1>1, <1>2
  <2> QED BY <1>1, <1>2, <2>1, <2>2, <2>3
<1> QED BY <1>3, <1>4

LEMMA CutsAre ==
  ASSUME TimesAssumption, Told, NEW e, NEW a \in Int, NEW b \in Int, e.start = a, e.end = b
  PROVE  /\ CutsIn(Removed(e), a, b)
         /\ \A k \in 1 .. Len(Inside(a, b)) :
              Clear(Removed(e), Inside(a, b)[k].start, Inside(a, b)[k].end, BreathPad)
         /\ \A r \in talk.reactions : Clear(Removed(e), r[1], r[2], EventProtect)
         /\ \A i \in e.off \cap DOMAIN DetectDeadSpace(a, b) :
              ClearPause(Removed(e), DetectDeadSpace(a, b)[i], a, b)
<1> DEFINE cuts == Removed(e)
           D == DetectDeadSpace(a, b)
<1>1. PICK ws : ws = Inside(a, b) /\ WordsIn(ws, a, b)
  BY InsideIs
<1>2. PICK P : \E m \in Nat : SilencesOf(P, D, ws, a, b, m)
  BY <1>1, SilencesAre
<1>3. PICK m \in Nat : SilencesOf(P, D, ws, a, b, m)
  BY <1>2
<1> HIDE DEF D
<1>4. /\ Len(D) = m /\ DOMAIN D = 1 .. m
      /\ \A i \in 1 .. m : /\ Pause(P[i], ws, a, b) /\ P[i].end >= P[i].start + MinCutGap
                           /\ D[i] = Silence(P[i])
      /\ \A i, j \in 1 .. m : i < j => P[i].end <= P[j].start
  BY <1>3 DEF SilencesOf
<1>5. PICK q : RemovedAt(q, e, D, m)
  <2>1. Silences(D, e)
    BY DEF D, Silences
  <2> QED BY <1>4, <2>1, RemovedFrom
<1>14. /\ Len(cuts) = Len(q) /\ DOMAIN cuts = 1 .. Len(q) /\ Len(q) \in Nat
       /\ \A j \in 1 .. Len(q) : /\ q[j] \in 1 .. m /\ q[j] \notin e.off
                                 /\ ~D[q[j]].kept /\ cuts[j] = D[q[j]]
       /\ \A j, k \in 1 .. Len(q) : j < k => q[j] < q[k]
  BY <1>5 DEF RemovedAt
<1> HIDE DEF cuts
<1>6. PICK n \in Nat : n = Len(q) /\ n = Len(cuts) /\ DOMAIN cuts = 1 .. n
  BY <1>14
<1>7. BreathPad \in Nat /\ EventProtect \in Nat /\ MinCutGap \in Nat
  BY DEF TimesAssumption
<1>8. \A i \in 1 .. m : P[i].start \in Int /\ P[i].end \in Int /\ a <= P[i].start /\ P[i].end <= b
  BY <1>4 DEF Pause
<1>9. ASSUME NEW j \in 1 .. n
      PROVE  /\ q[j] \in 1 .. m /\ q[j] \notin e.off
             /\ cuts[j].start = P[q[j]].start + BreathPad
             /\ cuts[j].end = P[q[j]].end - BreathPad
             /\ cuts[j].start \in Int /\ cuts[j].end \in Int
             /\ cuts[j].start < cuts[j].end /\ ~NearReaction(P[q[j]])
  <2>1. q[j] \in 1 .. m /\ q[j] \notin e.off /\ cuts[j] = Silence(P[q[j]]) /\ ~cuts[j].kept
    BY <1>4, <1>14, <1>6
  <2>2. Pause(P[q[j]], ws, a, b) /\ P[q[j]].end >= P[q[j]].start + MinCutGap
    BY <1>4, <2>1
  <2> QED BY <2>1, <2>2, CutIs
<1>10. CutsIn(cuts, a, b)
  <2>1. ASSUME NEW j \in 1 .. n PROVE a <= cuts[j].start /\ cuts[j].end <= b
    BY <1>7, <1>8, <1>9
  <2>2. ASSUME NEW j \in 1 .. n, NEW k \in 1 .. n, j < k PROVE cuts[j].end <= cuts[k].start
    <3>1. P[q[j]].end <= P[q[k]].start
      BY <1>4, <1>14, <1>6, <1>9, <2>2
    <3> QED BY <1>7, <1>8, <1>9, <3>1
  <2> QED BY <1>6, <1>9, <2>1, <2>2 DEF CutsIn
<1>11. ASSUME NEW k \in 1 .. Len(ws) PROVE Clear(cuts, ws[k].start, ws[k].end, BreathPad)
  <2>1. ws[k].start \in Int /\ ws[k].end \in Int
    BY <1>1 DEF WordsIn, Word
  <2>2. ASSUME NEW j \in 1 .. n
        PROVE  cuts[j].end + BreathPad <= ws[k].start \/ ws[k].end + BreathPad <= cuts[j].start
    <3>1. P[q[j]].end <= ws[k].start \/ ws[k].end <= P[q[j]].start
      BY <1>4, <1>9 DEF Pause
    <3>2. P[q[j]].start \in Int /\ P[q[j]].end \in Int
      BY <1>8, <1>9
    <3>3. /\ cuts[j].start = P[q[j]].start + BreathPad
          /\ cuts[j].end = P[q[j]].end - BreathPad
      BY <1>9
    <3>4. PICK x \in Int, y \in Int : x = P[q[j]].start /\ y = P[q[j]].end
      BY <3>2
    <3>5. PICK u \in Int, v \in Int : u = ws[k].start /\ v = ws[k].end
      BY <2>1
    <3>6. (y - BreathPad) + BreathPad = y
      BY <1>7
    <3>7. v <= x => v + BreathPad <= x + BreathPad
      BY <1>7
    <3> QED BY <3>1, <3>3, <3>4, <3>5, <3>6, <3>7
  <2> QED BY <1>6, <2>2 DEF Clear
<1>12. ASSUME NEW r \in talk.reactions PROVE Clear(cuts, r[1], r[2], EventProtect)
  <2>1. r[1] \in Int /\ r[2] \in Int
    BY DEF Told
  <2>2. ASSUME NEW j \in 1 .. n
        PROVE  cuts[j].end + EventProtect <= r[1] \/ r[2] + EventProtect <= cuts[j].start
    <3>1. ~(P[q[j]].start < r[2] + EventProtect /\ P[q[j]].end + EventProtect > r[1])
      BY <1>9 DEF NearReaction
    <3> QED BY <1>7, <1>8, <1>9, <2>1, <3>1
  <2> QED BY <1>6, <2>2 DEF Clear
<1>13. ASSUME NEW i \in e.off \cap DOMAIN D PROVE ClearPause(cuts, D[i], a, b)
  <2>1. i \in 1 .. m /\ i \in e.off
    BY <1>4
  <2>2. PICK x \in Int, y \in Int : x = P[i].start /\ y = P[i].end
    BY <1>8, <2>1
  <2>3. a <= x /\ y <= b /\ x + MinCutGap <= y
    BY <1>4, <1>7, <1>8, <2>1, <2>2
  <2>4. D[i].start \in Int /\ D[i].end \in Int /\ x <= D[i].start /\ D[i].end <= y
    BY <1>4, <2>1, <2>2, CutIs
  <2>5. ASSUME NEW j \in 1 .. n
        PROVE  cuts[j].end + 0 <= x \/ y + 0 <= cuts[j].start
    <3>1. q[j] \in 1 .. m /\ q[j] # i
      BY <1>9, <2>1
    <3>2. q[j] < i \/ i < q[j]
      BY <2>1, <3>1
    <3>3. P[q[j]].end <= x \/ y <= P[q[j]].start
      BY <1>4, <2>1, <2>2, <3>1, <3>2
    <3> QED BY <1>7, <1>8, <1>9, <3>1, <3>3
  <2>6. Clear(cuts, x, y, 0)
    BY <1>6, <2>5 DEF Clear
  <2> QED BY Zenon, <2>3, <2>4, <2>6 DEF ClearPause
<1> QED BY <1>1, <1>10, <1>11, <1>12, <1>13 DEF cuts, D

-----------------------------------------------------------------------------
(***************************************************************************)
(* The ranges that are kept: parts of the clip between its cuts.           *)
(***************************************************************************)
PartsOf(r, cuts, a, b) ==
  /\ Len(r) \in Nat /\ DOMAIN r = 1 .. Len(r)
  /\ \A k \in 1 .. Len(r) :
       /\ r[k][1] \in Int /\ r[k][2] \in Int
       /\ a <= r[k][1] /\ r[k][1] <= r[k][2] /\ r[k][2] <= b
       /\ r[k][1] = a \/ \E j \in 1 .. Len(cuts) : r[k][1] = cuts[j].end
       /\ r[k][2] = b \/ \E j \in 1 .. Len(cuts) : r[k][2] = cuts[j].start
  /\ \A i, k \in 1 .. Len(r) : i < k => r[i][2] < r[k][1]

\* n cuts, and m parts of the clip between them.
PartsAre(r, cuts, a, b, n, m) ==
  /\ n = Len(cuts) /\ m = n + 1 /\ Len(r) = m /\ DOMAIN r = 1 .. m
  /\ PartsOf(r, cuts, a, b)
  /\ \A i \in 1 .. m : /\ r[i][1] = IF i = 1 THEN a ELSE cuts[i - 1].end
                       /\ r[i][2] = IF i > n THEN b ELSE cuts[i].start

LEMMA BetweenIs ==
  ASSUME NEW a \in Int, NEW b \in Int, a < b, NEW cuts, CutsIn(cuts, a, b)
  PROVE  \E n, m \in Nat : PartsAre(Between(cuts, a, b), cuts, a, b, n, m)
<1> DEFINE r == Between(cuts, a, b)
<1>9. PICK n \in Nat : n = Len(cuts)
  BY DEF CutsIn
<1>10. PICK m \in Nat : m = n + 1
  OBVIOUS
<1>1. r = [i \in 1 .. m |-> <<IF i = 1 THEN a ELSE cuts[i - 1].end,
                             IF i > n THEN b ELSE cuts[i].start>>]
  BY <1>9, <1>10 DEF Between
<1>2. Len(r) = m /\ DOMAIN r = 1 .. m
  <2>1. r = [i \in 1 .. m |-> r[i]]
    BY <1>1
  <2> HIDE DEF r
  <2> QED BY <2>1, LengthIs
<1>3. \A i \in 1 .. m : /\ r[i][1] = IF i = 1 THEN a ELSE cuts[i - 1].end
                       /\ r[i][2] = IF i > n THEN b ELSE cuts[i].start
  BY <1>1
<1> HIDE DEF r
<1>4. \A j \in 1 .. n : /\ cuts[j].start \in Int /\ cuts[j].end \in Int
                       /\ a <= cuts[j].start /\ cuts[j].start < cuts[j].end
                       /\ cuts[j].end <= b
  BY <1>9 DEF CutsIn
<1>5. \A j, k \in 1 .. n : j < k => cuts[j].end <= cuts[k].start
  BY <1>9 DEF CutsIn
<1>6. ASSUME NEW i \in 1 .. m
      PROVE  /\ r[i][1] \in Int /\ r[i][2] \in Int
             /\ a <= r[i][1] /\ r[i][1] <= r[i][2] /\ r[i][2] <= b
             /\ r[i][1] = a \/ \E j \in 1 .. n : r[i][1] = cuts[j].end
             /\ r[i][2] = b \/ \E j \in 1 .. n : r[i][2] = cuts[j].start
  <2>1. i = 1 \/ \E j \in 1 .. n : j + 1 = i /\ j = i - 1 /\ r[i][1] = cuts[j].end
    BY <1>3, <1>10
  <2>2. i > n \/ (i \in 1 .. n /\ r[i][2] = cuts[i].start)
    BY <1>3, <1>10
  <2>3. (i = 1 => r[i][1] = a) /\ (i > n => r[i][2] = b)
    BY <1>3, <1>10
  <2>4. /\ r[i][1] \in Int /\ a <= r[i][1] /\ r[i][1] <= b
        /\ r[i][1] = a \/ \E j \in 1 .. n : r[i][1] = cuts[j].end
    BY <1>4, <2>1, <2>3
  <2>5. /\ r[i][2] \in Int /\ a <= r[i][2] /\ r[i][2] <= b
        /\ r[i][2] = b \/ \E j \in 1 .. n : r[i][2] = cuts[j].start
    BY <1>4, <2>2, <2>3
  <2>6. r[i][1] <= r[i][2]
    <3>1. CASE i = 1
      BY <2>3, <2>5, <3>1
    <3>2. CASE i > n
      BY <2>3, <2>4, <3>2
    <3>3. CASE i # 1 /\ i \in 1 .. n
      <4>1. PICK j \in 1 .. n : j < i /\ r[i][1] = cuts[j].end
        BY <2>1, <3>3
      <4> QED BY <1>5, <2>2, <3>3, <4>1
    <3> QED BY <2>2, <3>1, <3>2, <3>3
  <2> QED BY <2>4, <2>5, <2>6
<1>7. ASSUME NEW i \in 1 .. m, NEW k \in 1 .. m, i < k PROVE r[i][2] < r[k][1]
  <2>1. i \in 1 .. n /\ r[i][2] = cuts[i].start
    BY <1>3, <1>7, <1>10
  <2>2. PICK j \in 1 .. n : j = k - 1 /\ i <= j /\ r[k][1] = cuts[j].end
    BY <1>3, <1>7, <1>10
  <2>3. CASE i = j
    BY <1>4, <2>1, <2>2, <2>3
  <2>4. CASE i < j
    BY <1>4, <1>5, <2>1, <2>2, <2>4
  <2> QED BY <2>2, <2>3, <2>4
<1>8. PartsOf(r, cuts, a, b)
  BY <1>2, <1>6, <1>7, <1>9 DEF PartsOf
<1>11. PartsAre(r, cuts, a, b, n, m)
  BY <1>2, <1>3, <1>8, <1>9, <1>10 DEF PartsAre
<1> QED BY <1>11 DEF r

\* KeepRanges: the whole clip, or the parts that are long enough.
LongParts(e) ==
  LET parts == Between(Removed(e), e.start, e.end)
  IN Those(parts, {i \in DOMAIN parts : parts[i][2] >= parts[i][1] + MinKeep})

LEMMA KeptIs ==
  ASSUME NEW e
  PROVE  \/ KeepRanges(e) = <<<<e.start, e.end>>>>
         \/ KeepRanges(e) = LongParts(e) /\ LongParts(e) # <<>>
<1> DEFINE all == LongParts(e)
<1>1. KeepRanges(e) = IF ~e.remove \/ all = <<>> THEN <<<<e.start, e.end>>>> ELSE all
  BY DEF KeepRanges, PartsKept, LongParts
<1> HIDE DEF all
<1> QED BY Zenon, <1>1 DEF all

Parts(parts, e) == parts = Between(Removed(e), e.start, e.end)

LongAt(q, e, parts, m) ==
  /\ Len(LongParts(e)) = Len(q) /\ DOMAIN LongParts(e) = 1 .. Len(q) /\ Len(q) \in Nat
  /\ \A j \in 1 .. Len(q) : q[j] \in 1 .. m /\ LongParts(e)[j] = parts[q[j]]
  /\ \A j, k \in 1 .. Len(q) : j < k => q[j] < q[k]
  /\ \A i \in 1 .. m : parts[i][2] >= parts[i][1] + MinKeep
                        => \E j \in 1 .. Len(q) : q[j] = i

LEMMA LongPartsAre ==
  ASSUME NEW e, NEW parts, Parts(parts, e), NEW m \in Nat, Len(parts) = m,
         DOMAIN parts = 1 .. m
  PROVE  \E q : LongAt(q, e, parts, m)
<1> DEFINE I == {i \in DOMAIN parts : parts[i][2] >= parts[i][1] + MinKeep}
<1>1. LongParts(e) = Those(parts, I)
  BY DEF LongParts, Parts
<1>2. \A i : i \in I <=> i \in 1 .. m /\ parts[i][2] >= parts[i][1] + MinKeep
  OBVIOUS
<1> HIDE DEF I
<1>4. PICK q : /\ Picks(q, I, m) /\ DOMAIN Those(parts, I) = 1 .. Len(q)
               /\ Len(Those(parts, I)) = Len(q)
               /\ \A j \in 1 .. Len(q) : Those(parts, I)[j] = parts[q[j]]
  <2>1. PICK q : PickedBy(q, Those(parts, I), parts, I, m)
    BY ThoseAre
  <2> QED BY <2>1 DEF PickedBy
<1>5. /\ Len(q) \in Nat /\ \A j, k \in 1 .. Len(q) : j < k => q[j] < q[k]
      /\ \A j \in 1 .. Len(q) : q[j] \in 1 .. m
  BY <1>4 DEF Picks
<1>6. \A i \in 1 .. m : parts[i][2] >= parts[i][1] + MinKeep
                         => \E j \in 1 .. Len(q) : q[j] = i
  BY <1>2, <1>4 DEF Picks
<1>7. LongAt(q, e, parts, m)
  BY Zenon, <1>1, <1>4, <1>5, <1>6 DEF LongAt
<1> QED BY <1>7

LEMMA KeptAreParts ==
  ASSUME NEW e, NEW a \in Int, NEW b \in Int, a < b, e.start = a, e.end = b,
         CutsIn(Removed(e), a, b)
  PROVE  PartsOf(KeepRanges(e), Removed(e), a, b) /\ Len(KeepRanges(e)) > 0
<1> DEFINE cuts == Removed(e)
           r == KeepRanges(e)
<1>1. PICK parts : parts = Between(cuts, a, b)
  OBVIOUS
<1>2. Parts(parts, e)
  BY <1>1 DEF Parts
<1>3. PICK n \in Nat, m \in Nat : PartsAre(parts, cuts, a, b, n, m)
  BY <1>1, BetweenIs
<1>4. CASE r = <<<<a, b>>>>
  <2>1. Len(r) = 1 /\ DOMAIN r = 1 .. 1 /\ r[1] = <<a, b>>
    BY <1>4
  <2>2. r[1][1] = a /\ r[1][2] = b
    BY <2>1
  <2> HIDE DEF r, cuts
  <2>3. \A k \in 1 .. 1 : k = 1
    OBVIOUS
  <2>4. PartsOf(r, cuts, a, b)
    BY <2>1, <2>2, <2>3 DEF PartsOf
  <2> QED BY <2>1, <2>4 DEF r, cuts
<1>5. CASE r = LongParts(e) /\ LongParts(e) # <<>>
  <2>1. PICK q : LongAt(q, e, parts, m)
    BY <1>2, <1>3, LongPartsAre DEF PartsAre
  <2>2. /\ Len(r) = Len(q) /\ DOMAIN r = 1 .. Len(q) /\ Len(q) \in Nat
        /\ \A j \in 1 .. Len(q) : q[j] \in 1 .. m /\ r[j] = parts[q[j]]
        /\ \A j, k \in 1 .. Len(q) : j < k => q[j] < q[k]
    BY <1>5, <2>1 DEF LongAt
  <2>3. Len(r) > 0
    <3>1. CASE Len(q) = 0
      <4>1. r = [i \in DOMAIN r |-> r[i]]
        BY <1>5 DEF LongParts, Those, AtPlaces
      <4> HIDE DEF r
      <4>2. r = <<>>
        BY <2>2, <3>1, <4>1
      <4> QED BY <1>5, <4>2
    <3> HIDE DEF r
    <3> QED BY <2>2, <3>1
  <2> HIDE DEF r, cuts
  <2>4. PartsOf(r, cuts, a, b)
    <3>1. \A k \in 1 .. m :
            /\ parts[k][1] \in Int /\ parts[k][2] \in Int
            /\ a <= parts[k][1] /\ parts[k][1] <= parts[k][2] /\ parts[k][2] <= b
            /\ parts[k][1] = a \/ \E j \in 1 .. Len(cuts) : parts[k][1] = cuts[j].end
            /\ parts[k][2] = b \/ \E j \in 1 .. Len(cuts) : parts[k][2] = cuts[j].start
      BY <1>3 DEF PartsOf, PartsAre
    <3>2. \A i, k \in 1 .. m : i < k => parts[i][2] < parts[k][1]
      BY <1>3 DEF PartsOf, PartsAre
    <3>3. \A i, k \in 1 .. Len(r) : i < k => r[i][2] < r[k][1]
      BY <2>2, <3>2
    <3>4. \A k \in 1 .. Len(r) :
            /\ r[k][1] \in Int /\ r[k][2] \in Int
            /\ a <= r[k][1] /\ r[k][1] <= r[k][2] /\ r[k][2] <= b
            /\ r[k][1] = a \/ \E j \in 1 .. Len(cuts) : r[k][1] = cuts[j].end
            /\ r[k][2] = b \/ \E j \in 1 .. Len(cuts) : r[k][2] = cuts[j].start
      BY <2>2, <3>1
    <3> QED BY <2>2, <3>3, <3>4 DEF PartsOf
  <2> QED BY <2>3, <2>4 DEF r, cuts
<1>6. r = <<<<a, b>>>> \/ (r = LongParts(e) /\ LongParts(e) # <<>>)
  BY KeptIs
<1> QED BY <1>4, <1>5, <1>6

(***************************************************************************)
(* What is clear of the cuts is heard whole, if it is not too short.       *)
(***************************************************************************)
LEMMA ClearIsHeard ==
  ASSUME TimesAssumption, NEW e, NEW a \in Int, NEW b \in Int, a < b, e.start = a, e.end = b,
         CutsIn(Removed(e), a, b),
         NEW x \in Int, NEW y \in Int, a <= x, x <= y, y <= b,
         NEW d \in Nat, Clear(Removed(e), x, y, d), y + d >= x + MinKeep
  PROVE  HeardWhole(KeepRanges(e), x, y)
<1> DEFINE cuts == Removed(e)
           r == KeepRanges(e)
<1>0. MinKeep \in Nat
  BY DEF TimesAssumption
<1>1. PICK parts : parts = Between(cuts, a, b)
  OBVIOUS
<1>2. Parts(parts, e)
  BY <1>1 DEF Parts
<1>3. PICK n \in Nat, m \in Nat : PartsAre(parts, cuts, a, b, n, m)
  BY <1>1, BetweenIs
<1>7. /\ n = Len(cuts) /\ m = n + 1
      /\ \A i \in 1 .. m : /\ parts[i][1] = IF i = 1 THEN a ELSE cuts[i - 1].end
                           /\ parts[i][2] = IF i > n THEN b ELSE cuts[i].start
  BY <1>3 DEF PartsAre
<1>4. CASE r = <<<<a, b>>>>
  <2>1. DOMAIN r = 1 .. 1 /\ r[1][1] = a /\ r[1][2] = b
    BY <1>4
  <2> HIDE DEF r
  <2>2. HeardWhole(r, x, y)
    BY <2>1 DEF HeardWhole
  <2> QED BY <2>2 DEF r
<1>5. CASE r = LongParts(e) /\ LongParts(e) # <<>>
  <2>1. PICK q : LongAt(q, e, parts, m)
    BY <1>2, <1>3, LongPartsAre DEF PartsAre
  <2>2. /\ DOMAIN r = 1 .. Len(q) /\ Len(q) \in Nat /\ Len(r) = Len(q)
        /\ \A j \in 1 .. Len(q) : q[j] \in 1 .. m /\ r[j] = parts[q[j]]
        /\ \A i \in 1 .. m : parts[i][2] >= parts[i][1] + MinKeep
                               => \E j \in 1 .. Len(q) : q[j] = i
    BY <1>5, <2>1 DEF LongAt
  <2>3. Len(r) > 0
    BY KeptAreParts
  <2>4. \A j \in 1 .. n :
          /\ cuts[j].start \in Int /\ cuts[j].end \in Int
          /\ cuts[j].start < cuts[j].end
          /\ cuts[j].end + d <= x \/ y + d <= cuts[j].start
    BY <1>7 DEF CutsIn, Clear
  <2> HIDE DEF r, cuts
  <2> SUFFICES HeardWhole(r, x, y)
    BY DEF r
  <2>5. ASSUME NEW i \in 1 .. m, \E j \in 1 .. Len(q) : q[j] = i,
               parts[i][1] <= x, y <= parts[i][2]
        PROVE  HeardWhole(r, x, y)
    <3>1. PICK j \in 1 .. Len(q) : q[j] = i
      BY <2>5
    <3> QED BY <2>2, <2>5, <3>1 DEF HeardWhole
  <2>6. CASE n = 0
    <3>1. 1 \in 1 .. Len(q) /\ q[1] = 1 /\ 1 \in 1 .. m
      <4>1. 1 \in 1 .. Len(q)
        BY <2>2, <2>3
      <4>2. q[1] \in 1 .. 1 /\ 1 \in 1 .. m
        BY <1>7, <2>2, <2>6, <4>1
      <4> QED BY <4>1, <4>2
    <3>2. parts[1][1] = a /\ parts[1][2] = b
      BY <1>7, <2>6, <3>1
    <3> QED BY <2>5, <3>1, <3>2
  <2>7. CASE n # 0
    <3> DEFINE S == {j \in 1 .. n : cuts[j].end + d <= x}
    <3>1. PICK k \in 0 .. n : /\ k # 0 => cuts[k].end + d <= x
                              /\ \A j \in 1 .. n : k < j => y + d <= cuts[j].start
      <4>1. CASE S = {}
        <5>1. 0 \in 0 .. n /\ \A j \in 1 .. n : y + d <= cuts[j].start
          BY <2>4, <4>1
        <5> QED BY <5>1
      <4>2. CASE S # {}
        <5>1. S \in SUBSET Nat /\ \A j \in S : j <= n
          OBVIOUS
        <5>2. PICK k : k = Max(S) /\ k \in S /\ \A j \in S : j <= k
          BY <4>2, <5>1, MaxIsGreatest
        <5>3. k \in 0 .. n /\ k \in 1 .. n /\ cuts[k].end + d <= x
          BY <5>2
        <5>4. ASSUME NEW j \in 1 .. n, k < j PROVE y + d <= cuts[j].start
          <6>1. j \notin S
            BY <5>2, <5>3, <5>4
          <6> QED BY <2>4, <6>1
        <5> QED BY <5>3, <5>4
      <4> QED BY <4>1, <4>2
    <3>2. PICK i \in 1 .. m : i = k + 1
      <4>1. k + 1 \in 1 .. n + 1
        OBVIOUS
      <4> QED BY <1>7, <4>1
    <3>3. parts[i][1] = IF k = 0 THEN a ELSE cuts[k].end
      BY <1>7, <3>1, <3>2
    <3>4. parts[i][2] = IF k = n THEN b ELSE cuts[i].start
      <4>1. i > n <=> k = n
        BY <3>1, <3>2
      <4> QED BY <1>7, <3>2, <4>1
    <3>5. (k # 0 => k \in 1 .. n) /\ (k # n => i \in 1 .. n /\ k < i)
      BY <3>2
    <3>6. PICK u \in Int : u = parts[i][1] /\ u <= x /\ (k # 0 => u + d <= x)
      <4>1. CASE k = 0
        BY <3>3, <4>1
      <4>2. CASE k # 0
        BY <2>4, <3>1, <3>3, <3>5, <4>2
      <4> QED BY <4>1, <4>2
    <3>7. PICK v \in Int : v = parts[i][2] /\ y <= v /\ (k # n => y + d <= v)
      <4>1. CASE k = n
        BY <3>4, <4>1
      <4>2. CASE k # n
        BY <2>4, <3>1, <3>4, <3>5, <4>2
      <4> QED BY <4>1, <4>2
    <3>8. v >= u + MinKeep
      <4>1. k # 0 \/ k # n
        BY <2>7
      <4> QED BY <1>0, <3>6, <3>7, <4>1
    <3>9. \E j \in 1 .. Len(q) : q[j] = i
      BY <2>2, <3>6, <3>7, <3>8
    <3> QED BY <2>5, <3>6, <3>7, <3>9
  <2> QED BY <2>6, <2>7
<1>6. r = <<<<a, b>>>> \/ (r = LongParts(e) /\ LongParts(e) # <<>>)
  BY KeptIs
<1> QED BY <1>4, <1>5, <1>6

LEMMA SaidIsHeard ==
  ASSUME TimesAssumption, Told, NEW e, e.start \in Int, e.end \in Int, e.start < e.end
  PROVE  NothingSaidIsCut(KeepRanges(e), e)
<1>1. PICK a \in Int, b \in Int : e.start = a /\ e.end = b /\ a < b
  OBVIOUS
<1>2. /\ CutsIn(Removed(e), a, b)
      /\ \A k \in 1 .. Len(Inside(a, b)) :
           Clear(Removed(e), Inside(a, b)[k].start, Inside(a, b)[k].end, BreathPad)
      /\ \A r \in talk.reactions : Clear(Removed(e), r[1], r[2], EventProtect)
  BY <1>1, CutsAre
<1>3. BreathPad \in Nat /\ EventProtect \in Nat /\ MinKeep \in Nat
  BY DEF TimesAssumption
<1>4. ASSUME NEW w \in Range(talk.words), a <= w.start, w.end <= b,
             w.end + BreathPad >= w.start + MinKeep
      PROVE  HeardWhole(KeepRanges(e), w.start, w.end)
  <2>1. w.start \in Int /\ w.end \in Int /\ w.start < w.end
    <3>1. PICK i \in DOMAIN talk.words : w = talk.words[i]
      BY DEF Range
    <3>2. talk.words[i] \in Word /\ talk.words[i].start < talk.words[i].end
      BY DEF Told
    <3> QED BY <3>1, <3>2 DEF Word
  <2>2. w.start < b
    BY <1>4, <2>1
  <2>3. PICK k \in 1 .. Len(Inside(a, b)) : Inside(a, b)[k] = w
    <3>1. WordsIn(Inside(a, b), a, b)
      BY InsideIs
    <3> QED BY <1>4, <2>2, <3>1 DEF WordsIn
  <2>4. Clear(Removed(e), w.start, w.end, BreathPad)
    BY <1>2, <2>3
  <2>5. PICK x \in Int, y \in Int : x = w.start /\ y = w.end
    BY <2>1
  <2>6. a <= x /\ x < y /\ y <= b /\ y + BreathPad >= x + MinKeep
    BY <1>4, <2>1, <2>5
  <2>7. x <= y
    BY <2>6
  <2>8. Clear(Removed(e), x, y, BreathPad) /\ CutsIn(Removed(e), a, b)
    BY <1>2, <2>4, <2>5
  <2>9. HeardWhole(KeepRanges(e), x, y)
    BY <1>1, <1>3, <2>6, <2>7, <2>8, ClearIsHeard
  <2> QED BY <2>5, <2>9
<1>5. ASSUME NEW r \in talk.reactions, a <= r[1], r[2] <= b, MinKeep <= EventProtect
      PROVE  HeardWhole(KeepRanges(e), r[1], r[2])
  <2>1. PICK x \in Int, y \in Int : x = r[1] /\ y = r[2] /\ x <= y
    <3>1. r[1] \in Nat /\ r[2] \in Nat /\ r[1] <= r[2]
      BY DEF Told
    <3> QED BY <3>1
  <2>2. a <= x /\ y <= b /\ y + EventProtect >= x + MinKeep
    BY <1>3, <1>5, <2>1
  <2>3. Clear(Removed(e), x, y, EventProtect)
    BY <1>2, <2>1
  <2> QED BY <1>1, <1>2, <1>3, <2>1, <2>2, <2>3, ClearIsHeard
<1> QED BY <1>1, <1>4, <1>5 DEF NothingSaidIsCut

LEMMA OffIsHeard ==
  ASSUME TimesAssumption, Told, NEW e, e.start \in Int, e.end \in Int, e.start < e.end,
         NEW i \in e.off \cap DOMAIN DetectDeadSpace(e.start, e.end)
  PROVE  HeardWhole(KeepRanges(e), DetectDeadSpace(e.start, e.end)[i].start,
                    DetectDeadSpace(e.start, e.end)[i].end)
<1>1. PICK a \in Int, b \in Int : e.start = a /\ e.end = b /\ a < b
  OBVIOUS
<1>2. PICK s : s = DetectDeadSpace(e.start, e.end)[i]
  OBVIOUS
<1>3. CutsIn(Removed(e), a, b) /\ ClearPause(Removed(e), s, a, b)
  BY <1>1, <1>2, CutsAre
<1>4. PICK x \in Int, y \in Int :
        /\ a <= x /\ x + MinCutGap <= y /\ y <= b /\ x <= s.start /\ s.end <= y
        /\ s.start \in Int /\ s.end \in Int /\ Clear(Removed(e), x, y, 0)
  BY <1>3 DEF ClearPause
<1>5. MinCutGap \in Nat /\ MinKeep \in Nat /\ MinKeep <= MinCutGap
  BY DEF TimesAssumption
<1>6. x <= y /\ y + 0 >= x + MinKeep /\ 0 \in Nat
  BY <1>4, <1>5
<1>7. HeardWhole(KeepRanges(e), x, y)
  BY <1>1, <1>3, <1>4, <1>6, ClearIsHeard
<1>8. PartsOf(KeepRanges(e), Removed(e), a, b)
  BY <1>1, <1>3, KeptAreParts
<1>9. HeardWhole(KeepRanges(e), s.start, s.end)
  <2>1. PICK r : r = KeepRanges(e)
    OBVIOUS
  <2>2. PICK k \in 1 .. Len(r) : k \in DOMAIN r /\ r[k][1] <= x /\ y <= r[k][2]
    BY <1>7, <1>8, <2>1 DEF HeardWhole, PartsOf
  <2>3. r[k][1] \in Int /\ r[k][2] \in Int
    BY <1>8, <2>1, <2>2 DEF PartsOf
  <2>4. r[k][1] <= s.start /\ s.end <= r[k][2]
    <3>1. x <= s.start /\ s.end <= y /\ s.start \in Int /\ s.end \in Int
      BY <1>4
    <3>2. PICK u \in Int, v \in Int : u = r[k][1] /\ v = r[k][2]
      BY <2>3
    <3>3. PICK f \in Int, t \in Int : f = s.start /\ t = s.end
      BY <3>1
    <3>4. u <= x /\ y <= v /\ x <= f /\ t <= y
      BY <2>2, <3>1, <3>2, <3>3
    <3>5. u <= f /\ t <= v
      BY <3>4
    <3> QED BY <3>2, <3>3, <3>5
  <2> QED BY <2>1, <2>2, <2>4 DEF HeardWhole
<1> QED BY <1>2, <1>9

-----------------------------------------------------------------------------
(***************************************************************************)
(* Where the ranges begin in the output.                                   *)
(***************************************************************************)
\* O has where each of n ranges begins, and where the last one ends.
OffsetsOf(O, r, n) ==
  /\ \A k \in 1 .. n + 1 : O[k] \in Int
  /\ O[1] = 0 /\ \A k \in 1 .. n : O[k + 1] = O[k] + (r[k][2] - r[k][1])

RangesOf(r, n) ==
  Len(r) = n /\ DOMAIN r = 1 .. n /\ \A k \in 1 .. n : r[k][1] \in Int /\ r[k][2] \in Int

Beginnings == Seq(Int) \ {<<>>}

LEMMA OffsetAdded ==
  ASSUME NEW O \in Beginnings, NEW p, p[1] \in Int, p[2] \in Int
  PROVE  /\ WithOffset(O, p) \in Beginnings /\ Len(O) \in Nat /\ Len(O) > 0
         /\ Len(WithOffset(O, p)) = Len(O) + 1
         /\ \A k \in 1 .. Len(O) : WithOffset(O, p)[k] = O[k]
         /\ WithOffset(O, p)[Len(O) + 1] = O[Len(O)] + (p[2] - p[1])
<1>1. O \in Seq(Int) /\ Len(O) \in Nat /\ Len(O) > 0 /\ Len(O) \in 1 .. Len(O)
  BY DEF Beginnings
<1>2. O[Len(O)] \in Int
  BY <1>1
<1>3. PICK t \in Int : t = O[Len(O)] + (p[2] - p[1])
  BY <1>2
<1>4. WithOffset(O, p) = Append(O, t)
  BY <1>3 DEF WithOffset, Last
<1>5. /\ Append(O, t) \in Seq(Int) /\ Len(Append(O, t)) = Len(O) + 1
      /\ \A k \in 1 .. Len(O) : Append(O, t)[k] = O[k]
      /\ Append(O, t)[Len(O) + 1] = t
  BY <1>1, AppendProperties
<1>6. Append(O, t) # <<>>
  BY <1>1, <1>5
<1> QED BY <1>1, <1>3, <1>4, <1>5, <1>6 DEF Beginnings

LEMMA OffsetsFold ==
  ASSUME NEW n \in Nat, NEW r, RangesOf(r, n)
  PROVE  \E g : /\ g[0] = <<0>> /\ \A k \in 1 .. n : g[k] = WithOffset(g[k - 1], r[k])
                /\ Offsets(r) = g[n]
<1> DEFINE X == Beginnings
           Fold(g) == g = [s \in SUBSET (1 .. n) |->
                            IF s = {} THEN <<0>> ELSE WithOffset(g[s \ {Max(s)}], r[Max(s)])]
           f == [p \in X \X (1 .. n) |-> WithOffset(p[1], r[p[2]])]
           iter == CHOOSE g : Fold(g)
           h == [k \in 0 .. n |-> iter[1 .. k]]
<1>1. f \in [X \X (1 .. n) -> X]
  <2>1. ASSUME NEW p \in X \X (1 .. n) PROVE WithOffset(p[1], r[p[2]]) \in X
    <3>1. p[1] \in Beginnings /\ p[2] \in 1 .. n
      OBVIOUS
    <3>2. r[p[2]][1] \in Int /\ r[p[2]][2] \in Int
      BY <3>1 DEF RangesOf
    <3> QED BY <3>1, <3>2, OffsetAdded
  <2> QED BY <2>1
<1>2. <<0>> \in X
  BY DEF Beginnings
<1> HIDE DEF X
<1>3. PICK g : FoldsIn(X, g, f, <<0>>, n)
  <2> HIDE DEF f
  <2> QED BY <1>1, <1>2, FoldsWithin
<1>4. Fold(g)
  <2>1. ASSUME NEW s \in SUBSET (1 .. n)
        PROVE  g[s] = IF s = {} THEN <<0>> ELSE WithOffset(g[s \ {Max(s)}], r[Max(s)])
    <3>1. CASE s # {}
      <4>1. <<g[s \ {Max(s)}], Max(s)>> \in X \X (1 .. n)
        BY <1>3, <3>1 DEF FoldsIn
      <4> QED BY <1>3, <3>1, <4>1 DEF FoldsIn
    <3> QED BY <1>3, <3>1 DEF FoldsIn
  <2> QED BY <1>3, <2>1 DEF FoldsIn
<1>5. Fold(iter)
  BY <1>4
<1>6. Offsets(r) = iter[1 .. n]
  <2>1. DOMAIN r = 1 .. n
    BY DEF RangesOf
  <2> QED BY <2>1 DEF Offsets, FoldLeft, MapThenFoldSet
<1> HIDE DEF iter
<1>7. iter[1 .. 0] = <<0>>
  <2>1. 1 .. 0 = {} /\ {} \in SUBSET (1 .. n)
    OBVIOUS
  <2> QED BY <1>5, <2>1
<1>8. ASSUME NEW k \in 1 .. n PROVE iter[1 .. k] = WithOffset(iter[1 .. k - 1], r[k])
  <2>1. /\ 1 .. k \in SUBSET (1 .. n) /\ 1 .. k # {}
        /\ (1 .. k) \ {Max(1 .. k)} = 1 .. k - 1 /\ Max(1 .. k) = k
    BY FirstOnes
  <2> QED BY <1>5, <2>1
<1>9. h[0] = <<0>> /\ h[n] = iter[1 .. n] /\ \A k \in 1 .. n : h[k] = WithOffset(h[k - 1], r[k])
  BY <1>7, <1>8
<1> HIDE DEF h
<1> QED BY <1>6, <1>9

LEMMA OffsetsAre ==
  ASSUME NEW n \in Nat, NEW r, RangesOf(r, n)
  PROVE  OffsetsOf(Offsets(r), r, n)
<1>1. PICK g : /\ g[0] = <<0>> /\ \A k \in 1 .. n : g[k] = WithOffset(g[k - 1], r[k])
               /\ Offsets(r) = g[n]
  BY OffsetsFold
<1> DEFINE Good(k) == g[k] \in Beginnings /\ Len(g[k]) = k + 1 /\ OffsetsOf(g[k], r, k)
           T == {k \in Nat : k <= n => Good(k)}
<1>2. 0 \in T
  <2>1. <<0>> \in Beginnings /\ Len(<<0>>) = 1
    BY DEF Beginnings
  <2>2. OffsetsOf(<<0>>, r, 0)
    BY DEF OffsetsOf
  <2> QED BY <1>1, <2>1, <2>2
<1>3. ASSUME NEW k \in Nat, k \in T PROVE k + 1 \in T
  <2>1. CASE k + 1 <= n
    <3>1. PICK l \in 1 .. n : l = k + 1
      BY <2>1
    <3>2. k <= n /\ l - 1 = k
      BY <3>1
    <3>3. Good(k) /\ g[l] = WithOffset(g[k], r[l])
      BY <1>1, <1>3, <3>1, <3>2
    <3>4. r[l][1] \in Int /\ r[l][2] \in Int
      BY DEF RangesOf
    <3>5. PICK O \in Beginnings : O = g[k] /\ Len(O) = l /\ OffsetsOf(O, r, k)
      BY <3>1, <3>3
    <3>6. PICK Q : Q = g[l]
      OBVIOUS
    <3>7. /\ Q \in Beginnings /\ Len(Q) = l + 1
          /\ \A j \in 1 .. l : Q[j] = O[j]
          /\ Q[l + 1] = O[l] + (r[l][2] - r[l][1])
      <4>1. /\ WithOffset(O, r[l]) \in Beginnings
            /\ Len(WithOffset(O, r[l])) = Len(O) + 1
            /\ \A j \in 1 .. Len(O) : WithOffset(O, r[l])[j] = O[j]
            /\ WithOffset(O, r[l])[Len(O) + 1] = O[Len(O)] + (r[l][2] - r[l][1])
        BY <3>4, OffsetAdded
      <4>2. Q = WithOffset(O, r[l]) /\ Len(O) = l
        BY <3>3, <3>5, <3>6
      <4> QED BY <4>1, <4>2
    <3>8. /\ \A j \in 1 .. l : O[j] \in Int
          /\ O[1] = 0 /\ \A j \in 1 .. k : O[j + 1] = O[j] + (r[j][2] - r[j][1])
      BY <3>1, <3>5 DEF OffsetsOf
    <3>9. \A j \in 1 .. l + 1 : j \in 1 .. l \/ j = l + 1
      BY <3>1
    <3>10. \A j \in 1 .. l : j = l \/ (j \in 1 .. k /\ j + 1 \in 1 .. l)
      BY <3>1
    <3>11. l \in 1 .. l /\ 1 \in 1 .. l
      BY <3>1
    <3>12. \A j \in 1 .. l + 1 : Q[j] \in Int
      BY <3>4, <3>7, <3>8, <3>9, <3>11
    <3>13. \A j \in 1 .. l : Q[j + 1] = Q[j] + (r[j][2] - r[j][1])
      BY <3>7, <3>8, <3>10
    <3>14. OffsetsOf(Q, r, l)
      BY <3>7, <3>8, <3>11, <3>12, <3>13 DEF OffsetsOf
    <3> QED BY <3>1, <3>6, <3>7, <3>14
  <2> QED BY <2>1
<1> HIDE DEF T
<1>4. n \in T
  BY <1>2, <1>3, Stepwise
<1> QED BY <1>1, <1>4 DEF T

(***************************************************************************)
(* What is known of the ranges r of a clip from a to b, which begin in the *)
(* output where O says, and of a word of it.                               *)
(***************************************************************************)
Shown(r, O, n, a, b) ==
  /\ n \in Nat /\ n > 0 /\ DOMAIN r = 1 .. n /\ Len(r) = n
  /\ \A k \in 1 .. n : /\ r[k][1] \in Int /\ r[k][2] \in Int
                       /\ a <= r[k][1] /\ r[k][1] <= r[k][2] /\ r[k][2] <= b
  /\ \A i, k \in 1 .. n : i < k => r[i][2] < r[k][1]
  /\ O = Offsets(r) /\ OffsetsOf(O, r, n)

LEMMA KeptAreShown ==
  ASSUME TimesAssumption, Told, NEW e, NEW a \in Int, NEW b \in Int, a < b,
         e.start = a, e.end = b
  PROVE  \E n \in Nat : Shown(KeepRanges(e), Offsets(KeepRanges(e)), n, a, b)
<1>1. CutsIn(Removed(e), a, b)
  BY CutsAre
<1>2. PICK r : r = KeepRanges(e)
  OBVIOUS
<1>3. PartsOf(r, Removed(e), a, b) /\ Len(r) > 0
  BY <1>1, <1>2, KeptAreParts
<1>4. PICK n \in Nat : n = Len(r) /\ n > 0
  BY <1>3 DEF PartsOf
<1>5. /\ DOMAIN r = 1 .. n
      /\ \A k \in 1 .. n : /\ r[k][1] \in Int /\ r[k][2] \in Int
                           /\ a <= r[k][1] /\ r[k][1] <= r[k][2] /\ r[k][2] <= b
      /\ \A i, k \in 1 .. n : i < k => r[i][2] < r[k][1]
  BY <1>3, <1>4 DEF PartsOf
<1>6. OffsetsOf(Offsets(r), r, n)
  BY <1>4, <1>5, OffsetsAre DEF RangesOf
<1>7. Shown(r, Offsets(r), n, a, b)
  BY <1>4, <1>5, <1>6 DEF Shown
<1> QED BY <1>2, <1>7

LEMMA OffsetsGrow ==
  ASSUME NEW a \in Int, NEW b \in Int, NEW r, NEW O, NEW n, Shown(r, O, n, a, b),
         NEW i \in 1 .. n + 1, NEW k \in 1 .. n + 1, i <= k
  PROVE  O[i] <= O[k]
<1>1. /\ n \in Nat /\ \A j \in 1 .. n + 1 : O[j] \in Int
      /\ \A j \in 1 .. n : O[j + 1] = O[j] + (r[j][2] - r[j][1])
      /\ \A j \in 1 .. n : r[j][1] \in Int /\ r[j][2] \in Int /\ r[j][1] <= r[j][2]
  BY DEF Shown, OffsetsOf
<1>2. ASSUME NEW j \in 1 .. n PROVE O[j] <= O[j + 1]
  <2>1. PICK x \in Int, u \in Int, v \in Int : x = O[j] /\ u = r[j][1] /\ v = r[j][2] /\ u <= v
    BY <1>1
  <2>2. O[j + 1] = x + (v - u)
    BY <1>1, <2>1
  <2> QED BY <2>1, <2>2
<1> DEFINE T == {m \in Nat : i + m <= n + 1 => O[i] <= O[i + m]}
<1>3. 0 \in T
  <2>1. i + 0 = i /\ O[i] \in Int
    BY <1>1
  <2> QED BY <2>1
<1>4. ASSUME NEW m \in Nat, m \in T PROVE m + 1 \in T
  <2>1. CASE i + (m + 1) <= n + 1
    <3>1. PICK j \in 1 .. n : j = i + m /\ j + 1 = i + (m + 1) /\ j \in 1 .. n + 1
                             /\ j + 1 \in 1 .. n + 1
      BY <1>1, <2>1
    <3>2. O[i] <= O[j]
      BY <1>1, <1>4, <3>1
    <3>3. O[j] <= O[j + 1]
      BY <1>2
    <3>4. O[i] \in Int /\ O[j] \in Int /\ O[j + 1] \in Int
      BY <1>1, <3>1
    <3>5. O[i] <= O[j + 1]
      BY <3>2, <3>3, <3>4
    <3> QED BY <3>1, <3>5
  <2> QED BY <2>1
<1>5. PICK m \in Nat : i + m = k
  <2>1. i \in Int /\ k \in Int
    BY <1>1
  <2>2. k - i \in Nat /\ i + (k - i) = k
    BY <2>1
  <2> QED BY <2>2
<1> HIDE DEF T
<1>6. m \in T
  BY <1>3, <1>4, Stepwise
<1> QED BY <1>5, <1>6 DEF T

\* The output time of what is heard, and of what is later than all that is.
LEMMA ToOutputIs ==
  ASSUME NEW a \in Int, NEW b \in Int, NEW r, NEW O, NEW n, Shown(r, O, n, a, b),
         NEW t \in Int
  PROVE  /\ \A k \in 1 .. n : r[k][1] <= t /\ t <= r[k][2] =>
              ToOutput(r, t) = O[k] + (t - r[k][1])
         /\ (\A k \in 1 .. n : r[k][2] < t) => ToOutput(r, t) = O[n + 1]
         /\ LengthOf(r) = O[n + 1]
<1>1. /\ n \in Nat /\ n > 0 /\ DOMAIN r = 1 .. n /\ Len(r) = n /\ O = Offsets(r)
      /\ \A k \in 1 .. n : r[k][1] \in Int /\ r[k][2] \in Int /\ r[k][1] <= r[k][2]
      /\ \A i, k \in 1 .. n : i < k => r[i][2] < r[k][1]
      /\ \A k \in 1 .. n + 1 : O[k] \in Int
  BY DEF Shown, OffsetsOf
<1>2. LengthOf(r) = O[n + 1]
  BY <1>1 DEF LengthOf, Offset
<1> DEFINE later == {i \in DOMAIN r : t <= r[i][2]}
<1>3. ASSUME NEW k \in 1 .. n, r[k][1] <= t, t <= r[k][2]
      PROVE  ToOutput(r, t) = O[k] + (t - r[k][1])
  <2>1. k \in later /\ later # {} /\ later \in SUBSET Nat
    <3>1. \A i : i \in later <=> i \in 1 .. n /\ t <= r[i][2]
      BY <1>1
    <3> HIDE DEF later
    <3> QED BY <1>1, <1>3, <3>1
  <2>2. PICK i : i = Min(later) /\ i \in later /\ \A j \in later : i <= j
    BY <2>1, MinIsLeast
  <2>3. i \in 1 .. n /\ t <= r[i][2] /\ i <= k
    BY <1>1, <2>1, <2>2
  <2>4. i = k
    <3>1. ASSUME i < k PROVE FALSE
      <4>1. r[i][2] < r[k][1]
        BY <1>1, <2>3, <3>1
      <4>2. r[i][2] \in Int /\ r[k][1] \in Int
        BY <1>1, <2>3
      <4> QED BY <1>3, <2>3, <4>1, <4>2
    <3> QED BY <2>3, <3>1
  <2>5. ToOutput(r, t) = Offset(r, i) + (IF t < r[i][1] THEN 0 ELSE t - r[i][1])
    BY <2>1, <2>2 DEF ToOutput
  <2>6. ~(t < r[k][1])
    BY <1>1, <1>3
  <2> QED BY <1>1, <2>4, <2>5, <2>6 DEF Offset
<1>4. ASSUME \A k \in 1 .. n : r[k][2] < t PROVE ToOutput(r, t) = O[n + 1]
  <2>1. later = {}
    <3>1. ASSUME NEW i \in later PROVE FALSE
      <4>1. i \in 1 .. n /\ t <= r[i][2]
        BY <1>1, <3>1
      <4>2. r[i][2] < t /\ r[i][2] \in Int
        BY <1>1, <1>4, <4>1
      <4> QED BY <4>1, <4>2
    <3> QED BY <3>1
  <2> QED BY <1>2, <2>1 DEF ToOutput
<1> QED BY <1>2, <1>3, <1>4

\* What is heard at a time of the output.
LEMMA SourceIs ==
  ASSUME NEW a \in Int, NEW b \in Int, NEW r, NEW O, NEW n, Shown(r, O, n, a, b),
         NEW t \in Int, NEW k \in 1 .. n, O[k] <= t, t < O[k + 1]
  PROVE  SourceAt(r, t) = r[k][1] + (t - O[k])
<1>1. /\ n \in Nat /\ DOMAIN r = 1 .. n /\ O = Offsets(r)
      /\ \A j \in 1 .. n + 1 : O[j] \in Int
  BY DEF Shown, OffsetsOf
<1> DEFINE S == {j \in DOMAIN r : Offset(r, j) <= t}
<1>2. \A j : j \in S <=> j \in 1 .. n /\ O[j] <= t
  BY <1>1 DEF Offset
<1>3. SourceAt(r, t) = r[Max(S)][1] + (t - Offset(r, Max(S)))
  BY DEF SourceAt
<1> HIDE DEF S
<1>4. k \in S /\ S # {} /\ S \in SUBSET Nat /\ \A j \in S : j <= n
  BY <1>1, <1>2
<1>5. PICK i : i = Max(S) /\ i \in S /\ \A j \in S : j <= i
  BY <1>1, <1>4, MaxIsGreatest
<1>6. i \in 1 .. n /\ O[i] <= t /\ k <= i
  BY <1>2, <1>4, <1>5
<1>7. i = k
  <2>1. ASSUME k < i PROVE FALSE
    <3>1. k + 1 \in 1 .. n + 1 /\ i \in 1 .. n + 1 /\ k + 1 <= i
      BY <1>1, <1>6, <2>1
    <3>2. O[k + 1] <= O[i]
      BY <3>1, OffsetsGrow
    <3>3. O[k + 1] \in Int /\ O[i] \in Int
      BY <1>1, <3>1
    <3> QED BY <1>6, <3>2, <3>3
  <2> QED BY <1>6, <2>1
<1> QED BY <1>1, <1>3, <1>5, <1>7 DEF Offset

-----------------------------------------------------------------------------
(***************************************************************************)
(* The captions.  A word whose middle is heard begins in that range, and   *)
(* its caption is within what the range is in the output.                  *)
(***************************************************************************)
CaptionAt(c1, c2, r, O, x, y, i) ==
  /\ c1 \in Int /\ c2 \in Int /\ O[i] <= c1 /\ c1 < c2 /\ c2 <= O[i + 1]
  /\ c1 = O[i] + (x - r[i][1]) /\ c2 <= O[i] + (y - r[i][1])
  /\ r[i][1] <= x /\ x < r[i][2]

LEMMA WordIsShown ==
  ASSUME NEW a \in Int, NEW b \in Int, NEW r, NEW O, NEW n, Shown(r, O, n, a, b),
         NEW cuts, PartsOf(r, cuts, a, b), CutsIn(cuts, a, b),
         NEW x \in Int, NEW y \in Int, a <= x, x < b, x < y,
         NEW d \in Nat, Clear(cuts, x, y, d),
         NEW i \in 1 .. n, 2 * r[i][1] <= x + y, x + y <= 2 * r[i][2]
  PROVE  CaptionAt(ToOutput(r, x), ToOutput(r, y), r, O, x, y, i)
<1>1. /\ n \in Nat /\ Len(r) = n
      /\ \A k \in 1 .. n : r[k][1] \in Int /\ r[k][2] \in Int /\ r[k][1] <= r[k][2]
      /\ \A k \in 1 .. n : r[k][2] <= b
      /\ \A j, k \in 1 .. n : j < k => r[j][2] < r[k][1]
  BY DEF Shown
<1>2. /\ \A k \in 1 .. n + 1 : O[k] \in Int
      /\ \A k \in 1 .. n : O[k + 1] = O[k] + (r[k][2] - r[k][1])
  BY DEF Shown, OffsetsOf
<1>3. PICK u \in Int, v \in Int : u = r[i][1] /\ v = r[i][2]
  BY <1>1
<1>4. 2 * u <= x + y /\ x + y <= 2 * v
  BY <1>3
<1>5. u <= x
  <2>1. CASE u = a
    BY <2>1
  <2>2. CASE \E j \in 1 .. Len(cuts) : u = cuts[j].end
    <3>1. PICK j \in 1 .. Len(cuts) : u = cuts[j].end
      BY <2>2
    <3>2. PICK s \in Int : s = cuts[j].start /\ s < u
      BY <3>1 DEF CutsIn
    <3>3. u + d <= x \/ y + d <= s
      BY <3>1, <3>2 DEF Clear
    <3> QED BY <1>4, <3>2, <3>3
  <2>3. u = a \/ \E j \in 1 .. Len(cuts) : u = cuts[j].end
    BY <1>1, <1>3 DEF PartsOf
  <2> QED BY <2>1, <2>2, <2>3
<1>6. x < v /\ (y <= v \/ v = b)
  <2>1. CASE v = b
    BY <2>1
  <2>2. CASE \E j \in 1 .. Len(cuts) : v = cuts[j].start
    <3>1. PICK j \in 1 .. Len(cuts) : v = cuts[j].start
      BY <2>2
    <3>2. PICK t \in Int : t = cuts[j].end /\ v < t
      BY <3>1 DEF CutsIn
    <3>3. t + d <= x \/ y + d <= v
      BY <3>1, <3>2 DEF Clear
    <3> QED BY <1>4, <3>2, <3>3
  <2>3. v = b \/ \E j \in 1 .. Len(cuts) : v = cuts[j].start
    BY <1>1, <1>3 DEF PartsOf
  <2> QED BY <2>1, <2>2, <2>3
<1>7. PICK o \in Int : o = O[i] /\ O[i + 1] = o + (v - u)
  <2>1. i \in 1 .. n + 1
    BY <1>1
  <2>2. O[i] \in Int /\ O[i + 1] = O[i] + (r[i][2] - r[i][1])
    BY <1>2, <2>1
  <2> QED BY <1>3, <2>2
<1>8. ToOutput(r, x) = o + (x - u)
  BY <1>3, <1>5, <1>6, <1>7, ToOutputIs
<1>9. PICK c \in Int : c = ToOutput(r, y) /\ o + (x - u) < c /\ c <= o + (v - u)
                       /\ c <= o + (y - u)
  <2>1. CASE y <= v
    <3>1. u <= y
      BY <1>5
    <3>2. ToOutput(r, y) = o + (y - u)
      BY <1>3, <1>7, <2>1, <3>1, ToOutputIs
    <3> QED BY <2>1, <3>2
  <2>2. CASE v < y
    <3>1. v = b
      BY <1>6, <2>2
    <3>2. i = n
      <4>1. ASSUME i < n PROVE FALSE
        <5>1. n \in 1 .. n
          BY <1>1
        <5>2. r[i][2] < r[n][1] /\ r[n][1] <= r[n][2] /\ r[n][2] <= b
              /\ r[n][1] \in Int /\ r[n][2] \in Int
          BY <1>1, <4>1, <5>1
        <5> QED BY <1>3, <3>1, <5>2
      <4> QED BY <1>1, <4>1
    <3>3. \A k \in 1 .. n : r[k][2] < y
      <4>1. ASSUME NEW k \in 1 .. n PROVE r[k][2] < y
        <5>1. r[k][2] \in Int /\ r[k][2] <= b
          BY <1>1
        <5> QED BY <2>2, <3>1, <5>1
      <4> QED BY <4>1
    <3>4. ToOutput(r, y) = O[n + 1]
      BY <3>3, ToOutputIs
    <3>5. ToOutput(r, y) = o + (v - u)
      BY <1>7, <3>2, <3>4
    <3> QED BY <1>6, <2>2, <3>5
  <2> QED BY <2>1, <2>2
<1>10. PICK c0 \in Int : c0 = ToOutput(r, x) /\ c0 = o + (x - u)
  BY <1>8
<1>11. /\ o <= c0 /\ c0 < c /\ c <= O[i + 1] /\ c0 = O[i] + (x - r[i][1])
       /\ c <= O[i] + (y - r[i][1]) /\ r[i][1] <= x /\ x < r[i][2] /\ O[i] <= c0
  BY <1>3, <1>5, <1>6, <1>7, <1>9, <1>10
<1> QED BY <1>9, <1>10, <1>11 DEF CaptionAt

\* The captions c are of the m words ws of a clip from a to b.
CaptionsOf(c, ws, m, r, cuts, a, b) ==
  /\ m \in Nat /\ DOMAIN c = 1 .. m
  /\ \A j \in 1 .. m :
       /\ ws[j] \in Range(talk.words) /\ ws[j].start \in Int /\ ws[j].end \in Int
       /\ ws[j].start < ws[j].end /\ a <= ws[j].start /\ ws[j].start < b
       /\ Heard(r, ws[j]) /\ Clear(cuts, ws[j].start, ws[j].end, BreathPad)
       /\ c[j][1] = ToOutput(r, ws[j].start) /\ c[j][2] = ToOutput(r, ws[j].end)
  /\ \A i, j \in 1 .. m : i < j => ws[i].end <= ws[j].start

LEMMA CaptionsAre ==
  ASSUME TimesAssumption, Told, NEW e, NEW a \in Int, NEW b \in Int,
         e.start = a, e.end = b, NEW r
  PROVE  \E ws : \E m \in Nat : CaptionsOf(RemapWords(r, e), ws, m, r, Removed(e), a, b)
<1> DEFINE all == Inside(e.start, e.end)
           I == {i \in DOMAIN all : Heard(r, all[i])}
           ws == Those(all, I)
           c == RemapWords(r, e)
<1>1. WordsIn(all, a, b)
  BY InsideIs
<1>2. \A k \in 1 .. Len(all) : Clear(Removed(e), all[k].start, all[k].end, BreathPad)
  BY CutsAre
<1>3. PICK n \in Nat : Len(all) = n /\ DOMAIN all = 1 .. n
  BY <1>1 DEF WordsIn
<1>4. \A i : i \in I <=> i \in 1 .. n /\ Heard(r, all[i])
  BY <1>3
<1>5. c = [i \in DOMAIN ws |-> <<ToOutput(r, ws[i].start), ToOutput(r, ws[i].end)>>]
  BY DEF RemapWords
<1>6. \E q : PickedBy(q, ws, all, I, n)
  <2> HIDE DEF all, I
  <2> QED BY <1>3, ThoseAre
<1>7. /\ \A i \in 1 .. n :
           /\ all[i] \in Word /\ all[i].start < all[i].end /\ a <= all[i].start
           /\ all[i].start < b /\ all[i] \in Range(talk.words)
      /\ \A i, j \in 1 .. n : i < j => all[i].end <= all[j].start
  BY <1>1, <1>3 DEF WordsIn
<1> HIDE DEF all, I, ws, c
<1>8. PICK q : /\ Picks(q, I, n) /\ DOMAIN ws = 1 .. Len(q)
               /\ \A j \in 1 .. Len(q) : ws[j] = all[q[j]]
  BY <1>6 DEF PickedBy
<1>9. PICK m \in Nat : m = Len(q)
  BY <1>8 DEF Picks
<1>10. \A j \in 1 .. m : q[j] \in 1 .. n /\ Heard(r, all[q[j]])
  BY <1>4, <1>8, <1>9 DEF Picks
<1>11. \A i, j \in 1 .. m : i < j => q[i] < q[j]
  BY <1>8, <1>9 DEF Picks
<1>12. /\ DOMAIN c = 1 .. m
       /\ \A j \in 1 .. m :
            c[j][1] = ToOutput(r, ws[j].start) /\ c[j][2] = ToOutput(r, ws[j].end)
  BY <1>5, <1>8, <1>9
<1>13. \A j \in 1 .. m :
         /\ ws[j] \in Range(talk.words) /\ ws[j] \in Word
         /\ ws[j].start < ws[j].end /\ a <= ws[j].start /\ ws[j].start < b
         /\ Heard(r, ws[j]) /\ Clear(Removed(e), ws[j].start, ws[j].end, BreathPad)
  BY <1>2, <1>3, <1>7, <1>8, <1>9, <1>10
<1>14. \A j \in 1 .. m : ws[j].start \in Int /\ ws[j].end \in Int
  <2>1. \A w \in Word : w.start \in Int /\ w.end \in Int
    BY DEF Word
  <2> QED BY <1>13, <2>1
<1>15. \A i, j \in 1 .. m : i < j => ws[i].end <= ws[j].start
  BY <1>7, <1>8, <1>9, <1>10, <1>11
<1>16. CaptionsOf(c, ws, m, r, Removed(e), a, b)
  BY <1>12, <1>13, <1>14, <1>15 DEF CaptionsOf
<1> QED BY <1>16 DEF c

LEMMA CaptionsFollow ==
  ASSUME TimesAssumption, Told, NEW e, e.start \in Int, e.end \in Int, e.start < e.end
  PROVE  CaptionsInStep(KeepRanges(e), e)
<1>1. PICK a \in Int, b \in Int : e.start = a /\ e.end = b /\ a < b
  OBVIOUS
<1>2. PICK r : r = KeepRanges(e)
  OBVIOUS
<1>3. PICK cuts : cuts = Removed(e) /\ CutsIn(cuts, a, b)
  BY <1>1, CutsAre
<1>4. PartsOf(r, cuts, a, b)
  BY <1>1, <1>2, <1>3, KeptAreParts
<1>5. PICK O : \E n \in Nat : Shown(r, O, n, a, b)
  BY <1>1, <1>2, KeptAreShown
<1>6. PICK n \in Nat : Shown(r, O, n, a, b)
  BY <1>5
<1>7. PICK c : c = RemapWords(r, e)
  OBVIOUS
<1>8. PICK ws : \E m \in Nat : CaptionsOf(c, ws, m, r, cuts, a, b)
  BY <1>1, <1>3, <1>7, CaptionsAre
<1>9. PICK m \in Nat : CaptionsOf(c, ws, m, r, cuts, a, b)
  BY <1>8
<1>10. BreathPad \in Nat
  BY DEF TimesAssumption
<1>11. /\ n \in Nat /\ DOMAIN r = 1 .. n
       /\ \A k \in 1 .. n : r[k][1] \in Int /\ r[k][2] \in Int /\ r[k][1] <= r[k][2]
       /\ \A j, k \in 1 .. n : j < k => r[j][2] < r[k][1]
  BY <1>6 DEF Shown
<1>12. \A k \in 1 .. n + 1 : O[k] \in Int
  BY <1>6 DEF Shown, OffsetsOf
<1>13. \A k \in 1 .. n : r[k][1] \in Int
  BY <1>6 DEF Shown
<1>14. /\ DOMAIN c = 1 .. m
       /\ \A j \in 1 .. m :
            ws[j] \in Range(talk.words) /\ ws[j].start \in Int /\ ws[j].end \in Int
       /\ \A j \in 1 .. m : ws[j].start < ws[j].end
       /\ \A i, j \in 1 .. m : i < j => ws[i].end <= ws[j].start
  BY <1>9 DEF CaptionsOf
<1>15. ASSUME NEW j \in 1 .. m
       PROVE  \E i \in 1 .. n :
                CaptionAt(c[j][1], c[j][2], r, O, ws[j].start, ws[j].end, i)
  <2>1. PICK x \in Int, y \in Int : x = ws[j].start /\ y = ws[j].end
    BY <1>14
  <2>2. /\ x < y /\ a <= x /\ x < b /\ Heard(r, ws[j]) /\ Clear(cuts, x, y, BreathPad)
        /\ c[j][1] = ToOutput(r, x) /\ c[j][2] = ToOutput(r, y)
    BY <1>9, <2>1 DEF CaptionsOf
  <2>3. PICK i \in 1 .. n : 2 * r[i][1] <= x + y /\ x + y <= 2 * r[i][2]
    BY <1>11, <2>1, <2>2 DEF Heard
  <2>4. CaptionAt(ToOutput(r, x), ToOutput(r, y), r, O, x, y, i)
    BY <1>3, <1>4, <1>6, <1>10, <2>2, <2>3, WordIsShown
  <2> QED BY <2>1, <2>2, <2>4
<1>16. ASSUME NEW j \in 1 .. m
       PROVE  /\ c[j][1] < c[j][2] /\ c[j][2] <= LengthOf(r)
              /\ SourceAt(r, c[j][1]) = ws[j].start
  <2>1. PICK i \in 1 .. n :
          CaptionAt(c[j][1], c[j][2], r, O, ws[j].start, ws[j].end, i)
    BY <1>15
  <2>2. PICK x \in Int, c1 \in Int, c2 \in Int :
          x = ws[j].start /\ c1 = c[j][1] /\ c2 = c[j][2]
    BY <1>14, <2>1 DEF CaptionAt
  <2>3. /\ O[i] <= c1 /\ c1 < c2 /\ c2 <= O[i + 1] /\ c1 = O[i] + (x - r[i][1])
    BY <2>1, <2>2 DEF CaptionAt
  <2>4. i \in 1 .. n + 1 /\ i + 1 \in 1 .. n + 1 /\ n + 1 \in 1 .. n + 1 /\ i + 1 <= n + 1
    <3>1. i \in Nat /\ 1 <= i /\ i <= n
      OBVIOUS
    <3> QED BY <3>1
  <2>5. O[i + 1] <= O[n + 1]
    BY <1>6, <2>4, OffsetsGrow
  <2>6. PICK o \in Int, p \in Int, l \in Int : o = O[i] /\ p = O[i + 1] /\ l = O[n + 1]
    <3>1. O[i] \in Int /\ O[i + 1] \in Int /\ O[n + 1] \in Int
      BY <1>12, <2>4
    <3> QED BY <3>1
  <2>7. c1 < p /\ c2 <= l
    BY <2>3, <2>5, <2>6
  <2>8. SourceAt(r, c1) = r[i][1] + (c1 - O[i])
    BY <1>6, <2>3, <2>6, <2>7, SourceIs
  <2>9. SourceAt(r, c1) = x
    <3>1. PICK u \in Int : u = r[i][1]
      BY <1>11
    <3>2. c1 = o + (x - u) /\ SourceAt(r, c1) = u + (c1 - o)
      BY <2>3, <2>6, <2>8, <3>1
    <3> QED BY <3>2
  <2>10. LengthOf(r) = l
    BY <1>6, <2>6, ToOutputIs
  <2> QED BY <2>2, <2>3, <2>7, <2>9, <2>10
<1>17. ASSUME NEW j \in 1 .. m, NEW k \in 1 .. m, j < k
       PROVE  c[j][2] <= c[k][1]
  <2>1. PICK f \in 1 .. n :
          CaptionAt(c[j][1], c[j][2], r, O, ws[j].start, ws[j].end, f)
    BY <1>15
  <2>2. PICK g \in 1 .. n :
          CaptionAt(c[k][1], c[k][2], r, O, ws[k].start, ws[k].end, g)
    BY <1>15
  <2>3. PICK x \in Int, y \in Int, t \in Int :
          x = ws[j].start /\ y = ws[j].end /\ t = ws[k].start /\ x < y /\ y <= t
    BY <1>14, <1>17
  <2>4. PICK p \in Int, q \in Int : p = c[j][2] /\ q = c[k][1]
    BY <2>1, <2>2 DEF CaptionAt
  <2>5. p <= O[f + 1] /\ p <= O[f] + (y - r[f][1]) /\ r[f][1] <= x
    BY <2>1, <2>3, <2>4 DEF CaptionAt
  <2>6. O[g] <= q /\ q = O[g] + (t - r[g][1]) /\ t < r[g][2]
    BY <2>2, <2>3, <2>4 DEF CaptionAt
  <2>7. CASE g < f
    <3>1. r[g][2] < r[f][1] /\ r[g][2] \in Int /\ r[f][1] \in Int
      BY <1>11, <2>7
    <3> QED BY <2>3, <2>5, <2>6, <3>1
  <2>8. CASE g = f
    <3>1. PICK o \in Int, u \in Int : o = O[f] /\ u = r[f][1]
      <4>1. f \in 1 .. n + 1
        BY <1>11
      <4>2. O[f] \in Int /\ r[f][1] \in Int
        BY <1>12, <1>13, <4>1
      <4> QED BY <4>2
    <3>2. p <= o + (y - u) /\ q = o + (t - u)
      BY <2>5, <2>6, <2>8, <3>1
    <3>3. p <= q
      BY <2>3, <3>2
    <3> QED BY <2>4, <3>3
  <2>9. CASE f < g
    <3>1. f + 1 \in 1 .. n + 1 /\ g \in 1 .. n + 1 /\ f + 1 <= g
      BY <1>11, <2>9
    <3>2. O[f + 1] <= O[g]
      BY <1>6, <3>1, OffsetsGrow
    <3>3. O[f + 1] \in Int /\ O[g] \in Int
      BY <1>12, <3>1
    <3>4. p <= q
      BY <2>5, <2>6, <3>2, <3>3
    <3> QED BY <2>4, <3>4
  <2> QED BY <2>7, <2>8, <2>9
<1>18. ASSUME NEW i \in DOMAIN c
       PROVE  /\ c[i][1] < c[i][2] /\ c[i][2] <= LengthOf(r)
              /\ i > 1 => c[i - 1][2] <= c[i][1]
              /\ \E w \in Range(talk.words) : SourceAt(r, c[i][1]) = w.start
  <2>1. i \in 1 .. m
    BY <1>14
  <2>2. i > 1 => i - 1 \in 1 .. m /\ i - 1 < i
    BY <2>1
  <2>3. i > 1 => c[i - 1][2] <= c[i][1]
    BY <1>17, <2>1, <2>2
  <2> QED BY <1>14, <1>16, <2>1, <2>3
<1>19. CaptionsInStep(r, e)
  BY <1>7, <1>18 DEF CaptionsInStep
<1> QED BY <1>2, <1>19
-----------------------------------------------------------------------------
(***************************************************************************)
(* The picture.  Each time of the output is within one range.              *)
(***************************************************************************)
LEMMA TimeIsShown ==
  ASSUME NEW a \in Int, NEW b \in Int, NEW r, NEW O, NEW n, Shown(r, O, n, a, b),
         NEW t \in Int, 0 <= t, t < O[n + 1]
  PROVE  \E k \in 1 .. n : O[k] <= t /\ t < O[k + 1]
<1>1. /\ n \in Nat /\ n > 0 /\ O[1] = 0 /\ \A j \in 1 .. n + 1 : O[j] \in Int
  BY DEF Shown, OffsetsOf
<1> DEFINE S == {j \in 1 .. n : O[j] <= t}
<1>2. 1 \in S /\ S # {} /\ S \in SUBSET Nat /\ \A j \in S : j <= n
  BY <1>1
<1>3. PICK k : k = Max(S) /\ k \in S /\ \A j \in S : j <= k
  <2> HIDE DEF S
  <2> QED BY <1>1, <1>2, MaxIsGreatest
<1>4. k \in 1 .. n /\ O[k] <= t
  BY <1>3
<1>5. t < O[k + 1]
  <2>1. CASE k = n
    BY <2>1
  <2>2. CASE k # n
    <3>1. k + 1 \in 1 .. n /\ k + 1 \in 1 .. n + 1 /\ ~(k + 1 <= k)
      BY <1>1, <1>4, <2>2
    <3>2. k + 1 \notin S
      BY <1>3, <3>1
    <3>3. O[k + 1] \in Int /\ ~(O[k + 1] <= t)
      BY <1>1, <3>1, <3>2
    <3> QED BY <3>3
  <2> QED BY <2>1, <2>2
<1> QED BY <1>4, <1>5

LEMMA DivisionIs ==
  ASSUME NEW d \in Nat \ {0}, NEW m \in Nat
  PROVE  \E q \in Nat : q = m \div d /\ d * q <= m /\ m < d * q + d
<1>1. PICK q \in Nat : q = m \div d /\ d * q <= m /\ m < d * (q + 1)
  <2>1. m \div d \in Nat /\ d * (m \div d) <= m /\ m < d * ((m \div d) + 1)
    OBVIOUS
  <2> QED BY <2>1
<1>2. d * (q + 1) = d * q + d
  OBVIOUS
<1> QED BY <1>1, <1>2

LEMMA DivisionGrows ==
  ASSUME NEW d \in Nat \ {0}, NEW m \in Nat, NEW l \in Nat, m <= l
  PROVE  m \div d <= l \div d
<1>1. PICK q \in Nat : q = m \div d /\ d * q <= m
  BY DivisionIs
<1>2. PICK p \in Nat : p = l \div d /\ l < d * p + d
  BY DivisionIs
<1>3. ASSUME p < q PROVE FALSE
  <2>1. d * (p + 1) <= d * q
    BY <1>3
  <2>2. d * (p + 1) = d * p + d
    OBVIOUS
  <2>3. PICK x \in Nat, y \in Nat : x = d * p /\ y = d * q
    OBVIOUS
  <2> QED BY <1>1, <1>2, <2>1, <2>2, <2>3
<1> QED BY <1>1, <1>2, <1>3

\* A frame of the output begins within it.
LEMMA FrameBegins ==
  ASSUME NEW d \in Nat \ {0}, NEW l \in Nat, NEW k \in 0 .. (l - 1) \div d
  PROVE  k * d \in Nat /\ k * d < l
<1>1. CASE l = 0
  <2>1. (0 - 1) \div d < 0
    OBVIOUS
  <2> QED BY <1>1, <2>1
<1>2. CASE l # 0
  <2>1. PICK m \in Nat : m = l - 1
    BY <1>2
  <2>2. PICK q \in Nat : q = m \div d /\ d * q <= m
    BY DivisionIs
  <2>3. k \in Nat /\ k <= q
    BY <2>1, <2>2
  <2>4. d * k <= d * q
    BY <2>3
  <2>5. PICK x \in Nat, y \in Nat : x = d * k /\ y = d * q /\ x = k * d
    BY <2>3
  <2> QED BY <2>1, <2>2, <2>4, <2>5
<1> QED BY <1>1, <1>2

LEMMA PictureFollows ==
  ASSUME TimesAssumption, Told, NEW e, e.start \in Int, e.end \in Int, e.start < e.end
  PROVE  PictureInStep(KeepRanges(e), e)
<1>1. PICK a \in Int, b \in Int : e.start = a /\ e.end = b /\ a < b
  OBVIOUS
<1>2. PICK r : r = KeepRanges(e)
  OBVIOUS
<1>3. PICK O : \E n \in Nat : Shown(r, O, n, a, b)
  BY <1>1, <1>2, KeptAreShown
<1>4. PICK n \in Nat : Shown(r, O, n, a, b)
  BY <1>3
<1>5. PICK d \in Nat \ {0} : d = FrameTime
  BY DEF TimesAssumption
<1>6. /\ O[1] = 0 /\ \A k \in 1 .. n + 1 : O[k] \in Int
      /\ \A k \in 1 .. n : O[k + 1] = O[k] + (r[k][2] - r[k][1])
      /\ \A k \in 1 .. n : /\ r[k][1] \in Int /\ r[k][2] \in Int
                           /\ a <= r[k][1] /\ r[k][2] <= b
  BY <1>4 DEF Shown, OffsetsOf
<1>7. PICK l \in Nat : l = O[n + 1] /\ l = LengthOf(r)
  <2>1. 1 \in 1 .. n + 1 /\ n + 1 \in 1 .. n + 1 /\ 1 <= n + 1
    OBVIOUS
  <2>2. O[1] <= O[n + 1] /\ O[n + 1] \in Int
    BY <1>4, <1>6, <2>1, OffsetsGrow
  <2>3. LengthOf(r) = O[n + 1]
    BY <1>4, ToOutputIs
  <2> QED BY <1>6, <2>2, <2>3
<1>8. ASSUME NEW k \in 0 .. (l - 1) \div d
      PROVE  LET heard == SourceAt(r, k * d)
                 from == a + RemapTrajectory(r, e, k * d) * d
             IN from <= heard /\ heard < from + d
  <2>1. PICK t \in Nat : t = k * d /\ t < l
    BY FrameBegins
  <2>2. PICK i \in 1 .. n : O[i] <= t /\ t < O[i + 1]
    <3>1. t \in Int /\ 0 <= t /\ t < O[n + 1]
      BY <1>7, <2>1
    <3> QED BY <1>4, <3>1, TimeIsShown
  <2>3. SourceAt(r, t) = r[i][1] + (t - O[i])
    BY <1>4, <2>2, SourceIs
  <2>4. PICK u \in Int, v \in Int, o \in Int :
          u = r[i][1] /\ v = r[i][2] /\ o = O[i] /\ a <= u /\ v <= b
    <3>1. i \in 1 .. n + 1
      OBVIOUS
    <3> QED BY <1>6, <3>1
  <2>5. o <= t /\ t < o + (v - u)
    BY <1>6, <2>2, <2>4
  <2>6. PICK h \in Int : h = SourceAt(r, t) /\ a <= h /\ h < b
    <3>1. SourceAt(r, t) = u + (t - o)
      BY <2>3, <2>4
    <3> QED BY <2>4, <2>5, <3>1
  <2>7. PICK x \in Nat, y \in Nat : x = h - a /\ y = b - a - 1 /\ x <= y
    BY <2>6
  <2>8. x \div d <= y \div d
    BY <2>7, DivisionGrows
  <2>9. PICK p \in Nat : p = x \div d /\ d * p <= x /\ x < d * p + d
    BY DivisionIs
  <2>10. PICK q \in Nat : q = y \div d
    BY DivisionIs
  <2>11. RemapTrajectory(r, e, t) = Least(p, q)
    BY <1>1, <1>5, <2>6, <2>7, <2>9, <2>10 DEF RemapTrajectory
  <2>12. Least(p, q) = p
    BY <2>8, <2>9, <2>10 DEF Least
  <2>13. PICK z \in Nat : z = d * p /\ z = p * d
    OBVIOUS
  <2>14. a + z <= h /\ h < (a + z) + d
    BY <2>7, <2>9, <2>13
  <2>15. a + RemapTrajectory(r, e, t) * d = a + z
    BY <2>11, <2>12, <2>13
  <2> QED BY <2>1, <2>6, <2>14, <2>15
<1>9. PictureInStep(r, e)
  BY <1>1, <1>5, <1>7, <1>8 DEF PictureInStep
<1> QED BY <1>2, <1>9

-----------------------------------------------------------------------------
(***************************************************************************)
(* The editor.  What it keeps true, while the words do not change: edits   *)
(* that were saved last for a time, and the silences of an editor are      *)
(* those of the bounds it was opened with.                                 *)
(***************************************************************************)
IsEdit(e) ==
  DOMAIN e = {"start", "end", "remove", "off", "visual"} /\ e.start \in Int /\ e.end \in Int
Lasts(e) == e.start < e.end

Detected == [c \in Int \X Int |-> DetectDeadSpace(c[1], c[2])]
SilencesKnown(s) ==
  s.start \in Int /\ s.end \in Int /\ s.silences = Detected[<<s.start, s.end>>]

EditsShaped ==
  /\ talk \in Talks /\ take \in 1 .. Len(Cuttings)
  /\ DOMAIN shown = {"edit", "start", "end", "silences"}
  /\ DOMAIN helper = {"pc", "edit", "mine"}
  /\ DOMAIN cutOut = {"asked", "edit", "take", "late"}
  /\ IsEdit(stored) /\ IsEdit(shown.edit) /\ IsEdit(helper.edit)
EditsLast ==
  /\ stored # NoEdit => Lasts(stored)
  /\ helper.pc \in {"writes", "answers"} => Lasts(helper.edit)
  /\ helper.pc # "none" \/ pc = "asked" => stored # NoEdit
  /\ cutOut.edit # NoEdit => IsEdit(cutOut.edit) /\ Lasts(cutOut.edit)
EditorsKnow ==
  /\ pc \in {"open", "asked"} => SilencesKnown(shown)
  /\ pc = "asked" \/ cutOut.edit # NoEdit => SilencesKnown(cutOut.asked)
EditsInv == EditsShaped /\ EditsLast /\ EditorsKnow

LEMMA DetectedStays ==
  ASSUME talk' = talk
  PROVE  Detected' = Detected
<1>1. \A a, b : Inside(a, b)' = Inside(a, b)
  BY DEF Inside
<1>2. \A p : Silence(p)' = Silence(p)
  <2>1. \A p : NearReaction(p)' = NearReaction(p)
    BY DEF NearReaction
  <2> QED BY <2>1 DEF Silence, Stays
<1>3. \A a, b : Pauses(a, b)' = Pauses(a, b)
  <2>1. ASSUME NEW a, NEW b PROVE Pauses(a, b)' = Pauses(a, b)
    <3>1. Inside(a, b)' = Inside(a, b)
      BY <1>1
    <3> QED BY <3>1 DEF Pauses, PausesAround
  <2> QED BY <2>1
<1>4. \A a, b : DetectDeadSpace(a, b)' = DetectDeadSpace(a, b)
  BY <1>2, <1>3 DEF DetectDeadSpace
<1> QED BY <1>4 DEF Detected

LEMMA ValidLasts == ASSUME NEW e, Valid(e) PROVE Lasts(e) /\ e # NoEdit
<1>1. e.start < e.end /\ ~(NoEdit.start < NoEdit.end)
  BY DEF Valid, NoEdit
<1> QED BY <1>1 DEF Lasts

\* What an editor is opened with.
LEMMA OpenedWith ==
  ASSUME TalksAssumption, EditsShaped
  PROVE  IsEdit(EditForClip)
<1>1. PICK c : c = Cuttings[take] /\ c[1] \in Int /\ c[2] \in Int
  <2>1. Cuttings \in Seq(Nat \X Nat) /\ take \in 1 .. Len(Cuttings)
    BY DEF TalksAssumption, EditsShaped
  <2>2. Cuttings[take] \in Nat \X Nat
    BY <2>1
  <2> QED BY <2>2
<1>2. IsEdit([NoEdit EXCEPT !.start = c[1], !.end = c[2]])
  BY <1>1 DEF NoEdit, IsEdit
<1> QED BY <1>1, <1>2 DEF EditForClip, EditsShaped

\* A change of one of the other parts of an edit.
LEMMA ChangedEdit ==
  ASSUME NEW e, IsEdit(e), NEW x
  PROVE  /\ IsEdit([e EXCEPT !.remove = x]) /\ IsEdit([e EXCEPT !.off = x])
         /\ IsEdit([e EXCEPT !.visual = x])
         /\ Lasts(e) => Lasts([e EXCEPT !.visual = x])
BY DEF IsEdit, Lasts

\* What becomes of the editor and of the last re-render as others write.
LEMMA OvertakeKeeps ==
  ASSUME EditsShaped, Overtake
  PROVE  /\ DOMAIN cutOut' = {"asked", "edit", "take", "late"}
         /\ cutOut'.edit = cutOut.edit /\ cutOut'.asked = cutOut.asked
BY DEF EditsShaped, Overtake

LEMMA EditorChanges ==
  ASSUME EditsShaped, NEW e, shown' = [shown EXCEPT !.edit = e]
  PROVE  /\ DOMAIN shown' = {"edit", "start", "end", "silences"} /\ shown'.edit = e
         /\ shown'.start = shown.start /\ shown'.end = shown.end
         /\ shown'.silences = shown.silences
BY DEF EditsShaped

\* Nothing becomes of what is known, if neither bounds nor silences change.
LEMMA EditorsKeep ==
  ASSUME EditorsKnow, talk' = talk, pc' = pc \/ pc' \notin {"open", "asked"},
         shown'.start = shown.start, shown'.end = shown.end,
         shown'.silences = shown.silences,
         cutOut'.edit = cutOut.edit, cutOut'.asked = cutOut.asked
  PROVE  EditorsKnow'
<1>1. Detected' = Detected
  BY DetectedStays
<1> QED BY <1>1 DEF EditorsKnow, SilencesKnown

LEMMA EditSaved ==
  ASSUME EditsInv, NEW e, IsEdit(e), Persist(e)
  PROVE  EditsInv'
<1>1. /\ talk' = talk /\ take' = take /\ pc' = pc /\ helper' = helper
      /\ shown' = [shown EXCEPT !.edit = e]
      /\ (stored' = stored /\ cutOut' = cutOut) \/ (Valid(e) /\ stored' = e /\ Overtake)
  BY DEF Persist, Click, attempt
<1>2. /\ DOMAIN shown' = {"edit", "start", "end", "silences"} /\ shown'.edit = e
      /\ shown'.start = shown.start /\ shown'.end = shown.end
      /\ shown'.silences = shown.silences
  BY <1>1, EditorChanges DEF EditsInv
<1>3. /\ DOMAIN cutOut' = {"asked", "edit", "take", "late"}
      /\ cutOut'.edit = cutOut.edit /\ cutOut'.asked = cutOut.asked
  BY <1>1, OvertakeKeeps DEF EditsInv, EditsShaped
<1>4. stored' = stored \/ (stored' = e /\ Lasts(e) /\ e # NoEdit)
  BY <1>1, ValidLasts
<1>5. EditsShaped'
  BY <1>1, <1>2, <1>3, <1>4 DEF EditsInv, EditsShaped, IsEdit
<1>6. EditsLast'
  BY <1>1, <1>3, <1>4 DEF EditsInv, EditsLast, IsEdit, Lasts
<1>7. EditorsKnow'
  BY <1>1, <1>2, <1>3, EditorsKeep DEF EditsInv
<1> QED BY <1>5, <1>6, <1>7 DEF EditsInv

LEMMA BoundDragged ==
  ASSUME TimesAssumption, TalksAssumption, EditsInv, Drag
  PROVE  EditsInv'
<1>1. /\ talk' = talk /\ take' = take /\ pc' = pc /\ helper' = helper
      /\ stored' = stored /\ cutOut' = cutOut
  BY DEF Drag, Click, attempt
<1>2. PICK u \in Int, v \in Int : u = shown.edit.start /\ v = shown.edit.end
  BY DEF EditsInv, EditsShaped, IsEdit
<1>3. ShortestClip \in Nat
  BY DEF TimesAssumption
<1>4. \E e : IsEdit(e) /\ shown' = [shown EXCEPT !.edit = e]
  <2>1. PICK t \in Marks :
          \/ shown' = [shown EXCEPT !.edit.start = Least(t, v - ShortestClip)]
          \/ shown' = [shown EXCEPT !.edit.end = Max({t, u + ShortestClip})]
    BY <1>2 DEF Drag
  <2>2. t \in Int
    BY DEF TalksAssumption
  <2>3. Least(t, v - ShortestClip) \in Int
    BY <1>3, <2>2 DEF Least
  <2>4. Max({t, u + ShortestClip}) \in Int
    <3>1. PICK w \in Int : w = u + ShortestClip
      BY <1>3
    <3>2. \E x \in {t, w} : \A y \in {t, w} : x >= y
      <4>1. w >= t \/ t >= w
        BY <2>2
      <4>2. t >= t /\ w >= w
        BY <2>2
      <4> QED BY <4>1, <4>2
    <3>3. Max({t, w}) \in {t, w}
      BY <3>2 DEF Max
    <3> QED BY <2>2, <3>1, <3>3
  <2>5. /\ DOMAIN shown = {"edit", "start", "end", "silences"} /\ IsEdit(shown.edit)
    BY DEF EditsInv, EditsShaped
  <2>6. CASE shown' = [shown EXCEPT !.edit.start = Least(t, v - ShortestClip)]
    <3>1. PICK w \in Int : w = Least(t, v - ShortestClip)
      BY <2>3
    <3>2. IsEdit([shown.edit EXCEPT !.start = w])
      BY <2>5 DEF IsEdit
    <3>3. shown' = [shown EXCEPT !.edit = [shown.edit EXCEPT !.start = w]]
      BY <2>6, <3>1
    <3> QED BY <3>2, <3>3
  <2>7. CASE shown' = [shown EXCEPT !.edit.end = Max({t, u + ShortestClip})]
    <3>1. PICK w \in Int : w = Max({t, u + ShortestClip})
      BY <2>4
    <3>2. IsEdit([shown.edit EXCEPT !.end = w])
      BY <2>5 DEF IsEdit
    <3>3. shown' = [shown EXCEPT !.edit = [shown.edit EXCEPT !.end = w]]
      BY <2>7, <3>1
    <3> QED BY <3>2, <3>3
  <2> QED BY <2>1, <2>6, <2>7
<1>5. PICK e : IsEdit(e) /\ shown' = [shown EXCEPT !.edit = e]
  BY <1>4
<1>6. /\ DOMAIN shown' = {"edit", "start", "end", "silences"} /\ shown'.edit = e
      /\ shown'.start = shown.start /\ shown'.end = shown.end
      /\ shown'.silences = shown.silences
  BY <1>5, EditorChanges DEF EditsInv
<1>7. EditsShaped'
  BY <1>1, <1>5, <1>6 DEF EditsInv, EditsShaped, IsEdit
<1>8. EditsLast'
  BY <1>1 DEF EditsInv, EditsLast, IsEdit, Lasts
<1>9. EditorsKnow'
  BY <1>1, <1>6, EditorsKeep DEF EditsInv
<1> QED BY <1>7, <1>8, <1>9 DEF EditsInv
LEMMA EditorOpened ==
  ASSUME TalksAssumption, EditsInv, OpenEditor
  PROVE  EditsInv'
<1>1. /\ talk' = talk /\ take' = take /\ pc' = "open" /\ helper' = helper
      /\ stored' = stored /\ cutOut' = NoCutOut /\ pc = "start"
  BY DEF OpenEditor, Goto
<1>2. PICK e : e = EditForClip /\ IsEdit(e)
  BY OpenedWith DEF EditsInv
<1>3. PICK a \in Int, b \in Int : a = e.start /\ b = e.end
  BY <1>2 DEF IsEdit
<1>4. PICK D : D = DetectDeadSpace(a, b) /\ D = Detected[<<a, b>>]
  BY <1>3 DEF Detected
<1>5. shown' = [edit |-> e, start |-> a, end |-> b, silences |-> D]
  BY <1>2, <1>3, <1>4 DEF OpenEditor
<1>6. /\ DOMAIN NoCutOut = {"asked", "edit", "take", "late"} /\ NoCutOut.edit = NoEdit
  BY DEF NoCutOut
<1>7. EditsShaped'
  BY <1>1, <1>2, <1>5, <1>6 DEF EditsInv, EditsShaped, IsEdit
<1>8. EditsLast'
  BY <1>1, <1>6 DEF EditsInv, EditsLast, Lasts
<1>9. EditorsKnow'
  <2>1. Detected' = Detected
    BY <1>1, DetectedStays
  <2>2. shown'.start \in Int /\ shown'.end \in Int /\ shown'.silences = Detected[<<a, b>>]
        /\ shown'.start = a /\ shown'.end = b
    BY <1>4, <1>5
  <2> QED BY <1>1, <1>6, <2>1, <2>2 DEF EditorsKnow, SilencesKnown
<1> QED BY <1>7, <1>8, <1>9 DEF EditsInv

LEMMA RenderAsked ==
  ASSUME EditsInv, AskRender
  PROVE  EditsInv'
<1>1. /\ talk' = talk /\ take' = take /\ pc = "open" /\ pc' = "asked" /\ helper' = helper
      /\ shown' = shown /\ stored' = shown.edit /\ Lasts(shown.edit)
      /\ shown.edit # NoEdit /\ cutOut' = [NoCutOut EXCEPT !.asked = shown]
  BY ValidLasts DEF AskRender, Click, Goto
<1>2. /\ DOMAIN cutOut' = {"asked", "edit", "take", "late"} /\ cutOut'.edit = NoEdit
      /\ cutOut'.asked = shown
  BY <1>1 DEF NoCutOut
<1>3. EditsShaped'
  BY <1>1, <1>2 DEF EditsInv, EditsShaped, IsEdit
<1>4. EditsLast'
  BY <1>1, <1>2 DEF EditsInv, EditsLast, Lasts
<1>5. EditorsKnow'
  <2>1. Detected' = Detected
    BY <1>1, DetectedStays
  <2>2. SilencesKnown(shown)
    BY <1>1 DEF EditsInv, EditorsKnow
  <2> QED BY <1>1, <1>2, <2>1, <2>2 DEF EditorsKnow, SilencesKnown
<1> QED BY <1>3, <1>4, <1>5 DEF EditsInv

LEMMA Rerendered ==
  ASSUME EditsInv, Rerender
  PROVE  EditsInv'
<1>1. /\ talk' = talk /\ take' = take /\ pc = "asked" /\ pc' = "start" /\ stored' = stored
      /\ shown' = shown /\ helper' = [helper EXCEPT !.mine = FALSE]
      /\ cutOut' = [cutOut EXCEPT !.edit = stored, !.take = take]
  BY DEF Rerender, Goto
<1>2. /\ DOMAIN cutOut' = {"asked", "edit", "take", "late"} /\ cutOut'.edit = stored
      /\ cutOut'.asked = cutOut.asked
  BY <1>1 DEF EditsInv, EditsShaped
<1>3. /\ DOMAIN helper' = {"pc", "edit", "mine"} /\ helper'.pc = helper.pc
      /\ helper'.edit = helper.edit
  BY <1>1 DEF EditsInv, EditsShaped
<1>4. EditsShaped'
  BY <1>1, <1>2, <1>3 DEF EditsInv, EditsShaped, IsEdit
<1>5. EditsLast'
  BY <1>1, <1>2, <1>3 DEF EditsInv, EditsShaped, EditsLast, IsEdit, Lasts
<1>6. EditorsKnow'
  <2>1. Detected' = Detected
    BY <1>1, DetectedStays
  <2>2. SilencesKnown(cutOut.asked)
    BY <1>1 DEF EditsInv, EditorsKnow
  <2> QED BY <1>1, <1>2, <2>1, <2>2 DEF EditorsKnow, SilencesKnown
<1> QED BY <1>4, <1>5, <1>6 DEF EditsInv

LEMMA EditorLeft ==
  ASSUME EditsInv, RerenderFails \/ CloseEditor
  PROVE  EditsInv'
<1>1. CASE RerenderFails
  <2>1. /\ talk' = talk /\ take' = take /\ pc = "asked" /\ pc' = "open" /\ stored' = stored
        /\ shown' = shown /\ helper' = helper /\ cutOut' = NoCutOut
    BY <1>1 DEF RerenderFails, Trouble
  <2>2. /\ DOMAIN NoCutOut = {"asked", "edit", "take", "late"} /\ NoCutOut.edit = NoEdit
    BY DEF NoCutOut
  <2>3. Detected' = Detected
    BY <2>1, DetectedStays
  <2>4. EditsShaped'
    BY <2>1, <2>2 DEF EditsInv, EditsShaped, IsEdit
  <2>5. EditsLast'
    BY <2>1, <2>2 DEF EditsInv, EditsLast, Lasts
  <2>6. EditorsKnow'
    BY <2>1, <2>2, <2>3 DEF EditsInv, EditorsKnow, SilencesKnown
  <2> QED BY <2>4, <2>5, <2>6 DEF EditsInv
<1>2. CASE CloseEditor
  <2>1. /\ talk' = talk /\ take' = take /\ pc # "asked" /\ pc' = "done" /\ stored' = stored
        /\ shown' = shown /\ helper' = helper /\ cutOut' = cutOut
    BY <1>2 DEF CloseEditor, Goto, editingVars
  <2>2. EditsShaped'
    BY <2>1 DEF EditsInv, EditsShaped, IsEdit
  <2>3. EditsLast'
    BY <2>1 DEF EditsInv, EditsLast, IsEdit, Lasts
  <2>4. EditorsKnow'
    BY <2>1, EditorsKeep DEF EditsInv
  <2> QED BY <2>2, <2>3, <2>4 DEF EditsInv
<1> QED BY <1>1, <1>2

LEMMA ScoredAnew ==
  ASSUME TalksAssumption, EditsInv, ScoreAgain
  PROVE  EditsInv'
<1>1. /\ talk' = talk /\ take < Len(Cuttings) /\ take' = take + 1 /\ pc' = pc
      /\ stored' = stored /\ shown' = shown /\ helper' = helper /\ cutOut' = cutOut
  BY DEF ScoreAgain, attempt
<1>2. take' \in 1 .. Len(Cuttings)
  <2>1. Len(Cuttings) \in Nat /\ take \in 1 .. Len(Cuttings)
    BY DEF TalksAssumption, EditsInv, EditsShaped
  <2> QED BY <1>1, <2>1
<1>3. EditsShaped'
  BY <1>1, <1>2 DEF EditsInv, EditsShaped, IsEdit
<1>4. EditsLast'
  BY <1>1 DEF EditsInv, EditsLast, IsEdit, Lasts
<1>5. EditorsKnow'
  BY <1>1, EditorsKeep DEF EditsInv
<1> QED BY <1>3, <1>4, <1>5 DEF EditsInv

LEMMA Suggested ==
  ASSUME EditsInv, Suggest \/ SuggestWrites
  PROVE  EditsInv'
<1>1. /\ talk' = talk /\ take' = take /\ pc' = pc /\ shown' = shown /\ Overtake
      /\ \E e : /\ stored' = e /\ IsEdit(e) /\ Lasts(e) /\ e # NoEdit
               /\ DOMAIN helper' = {"pc", "edit", "mine"} /\ helper'.edit = e
  <2>1. CASE Suggest
    <3>1. /\ talk' = talk /\ take' = take /\ pc' = pc /\ shown' = shown /\ Overtake
          /\ stored' = shown.edit /\ Valid(shown.edit)
          /\ helper' = [pc |-> "plans", edit |-> shown.edit, mine |-> TRUE]
      BY <2>1 DEF Suggest, Click, attempt
    <3>2. IsEdit(shown.edit)
      BY DEF EditsInv, EditsShaped
    <3> QED BY <3>1, <3>2, ValidLasts
  <2>2. CASE SuggestWrites
    <3>1. /\ talk' = talk /\ take' = take /\ pc' = pc /\ shown' = shown /\ Overtake
          /\ stored' = helper.edit /\ helper.pc = "writes"
          /\ helper' = [helper EXCEPT !.pc = "answers"]
      BY <2>2 DEF SuggestWrites, attempt
    <3>2. /\ DOMAIN helper' = {"pc", "edit", "mine"} /\ helper'.edit = helper.edit
          /\ IsEdit(helper.edit)
      BY <3>1 DEF EditsInv, EditsShaped
    <3>3. Lasts(helper.edit)
      BY <3>1 DEF EditsInv, EditsLast
    <3>4. ~Lasts(NoEdit)
      BY DEF NoEdit, Lasts
    <3> QED BY <3>1, <3>2, <3>3, <3>4
  <2> QED BY <2>1, <2>2
<1>2. /\ DOMAIN cutOut' = {"asked", "edit", "take", "late"}
      /\ cutOut'.edit = cutOut.edit /\ cutOut'.asked = cutOut.asked
  BY <1>1, OvertakeKeeps DEF EditsInv
<1>3. PICK e : /\ stored' = e /\ IsEdit(e) /\ Lasts(e) /\ e # NoEdit
               /\ DOMAIN helper' = {"pc", "edit", "mine"} /\ helper'.edit = e
  BY <1>1
<1>4. EditsShaped'
  BY <1>1, <1>2, <1>3 DEF EditsInv, EditsShaped, IsEdit
<1>5. EditsLast'
  BY <1>1, <1>2, <1>3 DEF EditsInv, EditsLast, IsEdit, Lasts
<1>6. EditorsKnow'
  BY <1>1, <1>2, EditorsKeep DEF EditsInv
<1> QED BY <1>4, <1>5, <1>6 DEF EditsInv

LEMMA SuggestionRead ==
  ASSUME EditsInv, SuggestReads
  PROVE  EditsInv'
<1>1. /\ talk' = talk /\ take' = take /\ pc' = pc /\ shown' = shown /\ cutOut' = cutOut
      /\ stored' = stored /\ helper.pc = "plans"
  BY DEF SuggestReads, attempt
<1>2. PICK x : helper' = [helper EXCEPT !.pc = "writes", !.edit = [stored EXCEPT !.visual = x]]
  BY DEF SuggestReads
<1>3. IsEdit(stored) /\ Lasts(stored) /\ stored # NoEdit
  BY <1>1 DEF EditsInv, EditsShaped, EditsLast
<1>4. PICK e : e = [stored EXCEPT !.visual = x] /\ IsEdit(e) /\ Lasts(e)
  BY <1>3, ChangedEdit
<1>5. DOMAIN helper' = {"pc", "edit", "mine"} /\ helper'.edit = e
  BY <1>2, <1>4 DEF EditsInv, EditsShaped
<1>6. EditsShaped'
  BY <1>1, <1>4, <1>5 DEF EditsInv, EditsShaped, IsEdit
<1>7. EditsLast'
  BY <1>1, <1>3, <1>4, <1>5 DEF EditsInv, EditsLast, IsEdit, Lasts
<1>8. EditorsKnow'
  BY <1>1, EditorsKeep DEF EditsInv
<1> QED BY <1>6, <1>7, <1>8 DEF EditsInv

LEMMA SuggestionEnds ==
  ASSUME EditsInv, SuggestFails \/ SuggestAnswers
  PROVE  EditsInv'
<1>1. /\ talk' = talk /\ take' = take /\ pc' = pc /\ cutOut' = cutOut
      /\ stored' = stored /\ helper' = NoHelper
      /\ shown' = shown \/ shown' = [shown EXCEPT !.edit = helper.edit]
  BY DEF SuggestFails, SuggestAnswers, attempt
<1>2. /\ DOMAIN NoHelper = {"pc", "edit", "mine"} /\ NoHelper.pc = "none"
      /\ NoHelper.edit = NoEdit /\ IsEdit(NoEdit)
  BY DEF NoHelper, NoEdit, IsEdit
<1>3. /\ DOMAIN shown' = {"edit", "start", "end", "silences"} /\ IsEdit(shown'.edit)
      /\ shown'.start = shown.start /\ shown'.end = shown.end
      /\ shown'.silences = shown.silences
  BY <1>1 DEF EditsInv, EditsShaped
<1>4. EditsShaped'
  BY <1>1, <1>2, <1>3 DEF EditsInv, EditsShaped, IsEdit
<1>5. EditsLast'
  BY <1>1, <1>2 DEF EditsInv, EditsLast, IsEdit, Lasts
<1>6. EditorsKnow'
  BY <1>1, <1>3, EditorsKeep DEF EditsInv
<1> QED BY <1>4, <1>5, <1>6 DEF EditsInv

\* The editing keeps it true.
LEMMA EditsKept ==
  ASSUME TimesAssumption, TalksAssumption, EditsInv, EditingNext
  PROVE  EditsInv'
<1>1. CASE RemoveOrNot \/ SwitchSilence \/ DeleteVisual
  <2>1. IsEdit(shown.edit)
    BY DEF EditsInv, EditsShaped
  <2>2. \E e : IsEdit(e) /\ Persist(e)
    BY Zenon, <1>1, <2>1, ChangedEdit DEF RemoveOrNot, SwitchSilence, DeleteVisual
  <2> QED BY <2>2, EditSaved
<1>2. CASE Drag \/ OpenEditor \/ ScoreAgain
  BY <1>2, BoundDragged, EditorOpened, ScoredAnew
<1>3. CASE AskRender \/ Rerender \/ RerenderFails \/ CloseEditor
  BY <1>3, RenderAsked, Rerendered, EditorLeft
<1>4. CASE Suggest \/ SuggestReads \/ SuggestFails \/ SuggestWrites \/ SuggestAnswers
  BY <1>4, Suggested, SuggestionRead, SuggestionEnds
<1> QED BY <1>1, <1>2, <1>3, <1>4 DEF EditingNext

LEMMA EditsStill ==
  ASSUME EditsInv, UNCHANGED editingVars, pc' = pc
  PROVE  EditsInv'
<1>1. /\ talk' = talk /\ take' = take /\ stored' = stored /\ shown' = shown
      /\ helper' = helper /\ cutOut' = cutOut
  BY DEF editingVars
<1>2. EditsShaped'
  BY <1>1 DEF EditsInv, EditsShaped, IsEdit
<1>3. EditsLast'
  BY <1>1 DEF EditsInv, EditsLast, IsEdit, Lasts
<1>4. EditorsKnow'
  BY <1>1, EditorsKeep DEF EditsInv
<1> QED BY <1>2, <1>3, <1>4 DEF EditsInv
-----------------------------------------------------------------------------
(***************************************************************************)
(* What is cut out is sound.                                               *)
(***************************************************************************)
LEMMA TalksAreTold ==
  ASSUME TalksAssumption, talk \in Talks
  PROVE  Told
<1>1. PICK ws : ws = talk.words
  OBVIOUS
<1>2. /\ ws \in Seq(Word)
      /\ \A i \in DOMAIN ws :
           /\ ws[i].start < ws[i].end
           /\ i > 1 => ws[i - 1].end <= ws[i].start
      /\ talk.reactions \subseteq {r \in Nat \X Nat : r[1] <= r[2]}
  BY <1>1 DEF TalksAssumption, Word
<1>3. PICK n \in Nat : n = Len(ws) /\ DOMAIN ws = 1 .. n
  BY <1>2
<1>4. \A i \in DOMAIN ws : ws[i].start < ws[i].end
  BY <1>2
<1>5. \A i \in DOMAIN ws : i > 1 => ws[i - 1].end <= ws[i].start
  BY <1>2
<1>6. \A i \in 1 .. n : ws[i].start \in Int /\ ws[i].end \in Int
  <2>1. \A i \in 1 .. n : ws[i] \in Word
    BY <1>2, <1>3
  <2> QED BY <2>1 DEF Word
<1> DEFINE T == {k \in Nat : \A i \in 1 .. n : i < k /\ k <= n => ws[i].end <= ws[k].start}
<1>7. 0 \in T
  OBVIOUS
<1>8. ASSUME NEW k \in Nat, k \in T PROVE k + 1 \in T
  <2>1. ASSUME NEW i \in 1 .. n, i < k + 1, k + 1 <= n
        PROVE  ws[i].end <= ws[k + 1].start
    <3>1. PICK l \in 1 .. n : l = k + 1 /\ l > 1 /\ l - 1 = k
      BY <2>1
    <3>2. k \in 1 .. n /\ (i = k \/ i < k)
      BY <2>1
    <3>3. ws[k].end <= ws[l].start
      <4>1. l \in DOMAIN ws
        BY <1>3
      <4>2. ws[l - 1].end <= ws[l].start
        BY <1>5, <3>1, <4>1
      <4> QED BY <3>1, <4>2
    <3>4. i < k => ws[i].end <= ws[k].start
      BY <1>8, <2>1, <3>2
    <3>5. PICK x \in Int, y \in Int : x = ws[k].start /\ y = ws[k].end /\ x < y
      <4>1. ws[k].start \in Int /\ ws[k].end \in Int
        BY <1>6, <3>2
      <4>2. k \in DOMAIN ws
        BY <1>3, <3>2
      <4>3. ws[k].start < ws[k].end
        BY <1>4, <4>2
      <4> QED BY <4>1, <4>3
    <3>6. PICK u \in Int, v \in Int : u = ws[i].end /\ v = ws[l].start
      BY <1>6
    <3>7. u <= v
      <4>1. y <= v
        BY <3>3, <3>5, <3>6
      <4>2. CASE i = k
        <5>1. u = y
          BY <3>5, <3>6, <4>2
        <5> QED BY <4>1, <5>1
      <4>3. CASE i < k
        <5>1. u <= x
          BY <3>4, <3>5, <3>6, <4>3
        <5>2. x < y
          BY <3>5
        <5> QED BY SMT, <4>1, <5>1, <5>2
      <4> QED BY <3>2, <4>2, <4>3
    <3> QED BY <3>1, <3>6, <3>7
  <2> QED BY <2>1
<1> HIDE DEF T
<1>9. \A i, j \in 1 .. n : i < j => ws[i].end <= ws[j].start
  <2>1. ASSUME NEW i \in 1 .. n, NEW j \in 1 .. n, i < j
        PROVE  ws[i].end <= ws[j].start
    <3>1. j \in Nat /\ j <= n
      OBVIOUS
    <3>2. j \in T
      BY <1>7, <1>8, <3>1, Stepwise
    <3> QED BY <2>1, <3>1, <3>2 DEF T
  <2> QED BY <2>1
<1>10. \A r \in talk.reactions : r[1] \in Nat /\ r[2] \in Nat /\ r[1] <= r[2]
  BY <1>2
<1> QED BY <1>1, <1>2, <1>3, <1>9, <1>10 DEF Told

LEMMA EditIsInStep ==
  ASSUME TimesAssumption, TalksAssumption, EditsInv
  PROVE  CutInStep /\ SwitchedOffHeard
<1>1. Told
  BY TalksAreTold DEF EditsInv, EditsShaped
<1>2. PICK e : e = cutOut.edit
  OBVIOUS
<1>3. e # NoEdit => e.start \in Int /\ e.end \in Int /\ e.start < e.end
  BY <1>2 DEF EditsInv, EditsLast, IsEdit, Lasts
<1>4. CutInStep
  <2>1. ASSUME e # NoEdit
        PROVE  /\ NothingSaidIsCut(KeepRanges(e), e) /\ CaptionsInStep(KeepRanges(e), e)
               /\ PictureInStep(KeepRanges(e), e)
    BY <1>1, <1>3, <2>1, SaidIsHeard, CaptionsFollow, PictureFollows
  <2> QED BY <1>2, <2>1 DEF CutInStep
<1>5. SwitchedOffHeard
  <2>1. PICK s : s = cutOut.asked
    OBVIOUS
  <2>2. ASSUME e # NoEdit, e.start = s.start, e.end = s.end,
               NEW i \in e.off \cap DOMAIN s.silences
        PROVE  HeardWhole(KeepRanges(e), s.silences[i].start, s.silences[i].end)
    <3>1. SilencesKnown(s)
      BY <1>2, <2>1, <2>2 DEF EditsInv, EditorsKnow
    <3>2. s.silences = DetectDeadSpace(e.start, e.end)
      <4>1. PICK a \in Int, b \in Int : a = e.start /\ b = e.end
        BY <1>3, <2>2
      <4>2. Detected[<<a, b>>] = DetectDeadSpace(a, b)
        BY DEF Detected
      <4> QED BY <2>2, <3>1, <4>1, <4>2 DEF SilencesKnown
    <3> QED BY <1>1, <1>3, <2>2, <3>2, OffIsHeard
  <2> QED BY <1>2, <2>1, <2>2 DEF SwitchedOffHeard
<1> QED BY <1>4, <1>5
===============================================================================
