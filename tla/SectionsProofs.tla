--------------------------- MODULE SectionsProofs ---------------------------
(***************************************************************************)
(* The duplicate-section test of the handler is exact for journeys that    *)
(* run in the direction of their train; and facts about the lowest of a    *)
(* set of numbered places, which seats are chosen by.                      *)
(***************************************************************************)
EXTENDS Sections, FiniteSetTheorems, TLAPS

(* Going up or down, two journeys in the train's direction share a segment *)
(* exactly when each starts before the other ends.                         *)
LEMMA OverlapByEnds ==
  ASSUME NEW up \in BOOLEAN,
         NEW from \in Int, NEW to \in Int, NEW rfrom \in Int, NEW rto \in Int,
         Forward(up, from, to), Forward(up, rfrom, rto)
  PROVE  Overlap(from, to, rfrom, rto)
           <=> IF up THEN to < rfrom /\ rto < from ELSE from < rto /\ rfrom < to
<1>1. CASE up
  <2>1. Segments(from, to) = to .. (from - 1) /\ Segments(rfrom, rto) = rto .. (rfrom - 1)
    BY <1>1 DEF Segments, Forward
  <2>2. ASSUME to < rfrom, rto < from  PROVE Overlap(from, to, rfrom, rto)
    <3>1. CASE to <= rto
      <4>1. rto \in Segments(from, to) \cap Segments(rfrom, rto)
        BY <1>1, <2>1, <2>2, <3>1 DEF Forward
      <4> QED BY <4>1 DEF Overlap
    <3>2. CASE rto < to
      <4>1. to \in Segments(from, to) \cap Segments(rfrom, rto)
        BY <1>1, <2>1, <2>2, <3>2 DEF Forward
      <4> QED BY <4>1 DEF Overlap
    <3> QED BY <3>1, <3>2
  <2>3. ASSUME Overlap(from, to, rfrom, rto)  PROVE to < rfrom /\ rto < from
    <3>1. PICK s : s \in Segments(from, to) /\ s \in Segments(rfrom, rto)
      BY <2>3 DEF Overlap
    <3>2. s \in to .. (from - 1) /\ s \in rto .. (rfrom - 1)
      BY <2>1, <3>1
    <3> QED BY <3>2
  <2> QED BY <1>1, <2>2, <2>3
<1>2. CASE ~up
  <2>1. Segments(from, to) = from .. (to - 1) /\ Segments(rfrom, rto) = rfrom .. (rto - 1)
    BY <1>2 DEF Segments, Forward
  <2>2. ASSUME from < rto, rfrom < to  PROVE Overlap(from, to, rfrom, rto)
    <3>1. CASE from <= rfrom
      <4>1. rfrom \in Segments(from, to) \cap Segments(rfrom, rto)
        BY <1>2, <2>1, <2>2, <3>1 DEF Forward
      <4> QED BY <4>1 DEF Overlap
    <3>2. CASE rfrom < from
      <4>1. from \in Segments(from, to) \cap Segments(rfrom, rto)
        BY <1>2, <2>1, <2>2, <3>2 DEF Forward
      <4> QED BY <4>1 DEF Overlap
    <3> QED BY <3>1, <3>2
  <2>3. ASSUME Overlap(from, to, rfrom, rto)  PROVE from < rto /\ rfrom < to
    <3>1. PICK s : s \in Segments(from, to) /\ s \in Segments(rfrom, rto)
      BY <2>3 DEF Overlap
    <3>2. s \in from .. (to - 1) /\ s \in rfrom .. (rto - 1)
      BY <2>1, <3>1
    <3> QED BY <3>2
  <2> QED BY <1>2, <2>2, <2>3
<1> QED BY <1>1, <1>2

(* For journeys in the direction of the train the handler's two "pass"     *)
(* branches refuse exactly the overlapping ones (main.go, secdup).         *)
THEOREM SectionDupExact ==
  ASSUME NEW up \in BOOLEAN,
         NEW from \in Int, NEW to \in Int, NEW rfrom \in Int, NEW rto \in Int,
         Forward(up, from, to), Forward(up, rfrom, rto)
  PROVE  SectionDup(up, from, to, rfrom, rto) <=> Overlap(from, to, rfrom, rto)
<1>1. Overlap(from, to, rfrom, rto)
        <=> IF up THEN to < rfrom /\ rto < from ELSE from < rto /\ rfrom < to
  BY OverlapByEnds
<1>2. CASE up
  BY <1>1, <1>2 DEF SectionDup, Forward
<1>3. CASE ~up
  BY <1>1, <1>3 DEF SectionDup, Forward
<1> QED BY <1>2, <1>3

-----------------------------------------------------------------------------
(* Places and reservations are numbered; both sides look for the lowest.   *)

(* A set of numbers that is not empty has a least one: numbers are well-   *)
(* founded.                                                                *)
LEMMA LeastNumber ==
  ASSUME NEW T, T \subseteq Nat, T # {}  PROVE \E x \in T : \A y \in T : x <= y
<1> DEFINE Less == {ss \in Nat \X Nat : ss[1] < ss[2]}
<1>1. IsWellFoundedOn(Less, Nat)
  BY NatLessThanWellFounded DEF OpToRel
<1>2. PICK x \in T : \A y \in T : ~ (<<y, x>> \in Less)
  BY <1>1, WFMin
<1>3. ASSUME NEW y \in T  PROVE x <= y
  <2>1. x \in Nat /\ y \in Nat
    OBVIOUS
  <2>2. ~ (<<y, x>> \in Less)
    BY <1>2
  <2> QED BY <2>1, <2>2
<1> QED BY <1>3

(* The k lowest of a finite set of numbers are k at most: each has a rank  *)
(* below k of its own.                                                     *)
LEMMA LowestAreFew ==
  ASSUME NEW S, S \subseteq Nat, IsFiniteSet(S), NEW k \in Nat
  PROVE  LET F == {s \in S : Cardinality({t \in S : t < s}) < k}
         IN  /\ F \subseteq S /\ IsFiniteSet(F)
             /\ Cardinality(F) \in Nat /\ Cardinality(F) <= k
<1> DEFINE F == {s \in S : Cardinality({t \in S : t < s}) < k}
           Before(s) == {t \in S : t < s}
           rank == [s \in F |-> Cardinality(Before(s))]
<1>1. F \subseteq S /\ \A s \in F : Cardinality(Before(s)) < k
  OBVIOUS
<1>2. IsFiniteSet(F) /\ Cardinality(F) \in Nat
  BY <1>1, FS_Subset, FS_CardinalityType
<1>3. \A s \in S : IsFiniteSet(Before(s)) /\ Cardinality(Before(s)) \in Nat
  BY FS_Subset, FS_CardinalityType
<1>4. ASSUME NEW s \in S, NEW t \in S, s < t
      PROVE  Cardinality(Before(s)) # Cardinality(Before(t))
  <2>1. /\ Before(s) \in SUBSET Before(t)
        /\ s \in Before(t) /\ s \notin Before(s)
    <3>1. s \in Nat /\ t \in Nat /\ ~ (s < s)
      OBVIOUS
    <3>2. \A x \in S : x < s => x < t
      BY <1>4, <3>1
    <3> QED BY <1>4, <3>1, <3>2
  <2>2. IsFiniteSet(Before(t))
    BY <1>3
  <2> HIDE DEF Before
  <2>3. Cardinality(Before(t)) = Cardinality(Before(s)) => Before(t) = Before(s)
    BY <2>1, <2>2, FS_Subset, Zenon
  <2> QED BY <2>1, <2>3
<1>5. rank \in [F -> 0 .. (k - 1)]
  <2>1. ASSUME NEW s \in F  PROVE Cardinality(Before(s)) \in 0 .. (k - 1)
    <3>1. s \in S /\ Cardinality(Before(s)) \in Nat /\ Cardinality(Before(s)) < k
      BY <1>1, <1>3
    <3> HIDE DEF F, Before
    <3> QED BY <3>1
  <2> HIDE DEF F, Before
  <2> QED BY <2>1
<1>6. IsFiniteSet(0 .. (k - 1)) /\ Cardinality(0 .. (k - 1)) = k
  BY FS_Interval
<1>7. ASSUME NEW s \in F, NEW t \in F, s # t  PROVE rank[s] # rank[t]
  <2>1. s \in S /\ t \in S /\ s \in Nat /\ t \in Nat
    BY <1>1
  <2>2. s < t \/ t < s
    BY <1>7, <2>1
  <2> QED BY <1>4, <2>1, <2>2
<1> HIDE DEF F, rank
<1>8. ~ (Cardinality(0 .. (k - 1)) < Cardinality(F))
  BY <1>2, <1>5, <1>6, <1>7, FS_PigeonHole
<1> QED BY <1>1, <1>2, <1>6, <1>8 DEF F

=============================================================================
