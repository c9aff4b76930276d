--------------------------- MODULE CsrDeltaProofs ---------------------------
(***************************************************************************)
(* Topic 51's CSR plus delta, for every finite set of edges, every number  *)
(* of vertices and every threshold: the three invariants of the delta      *)
(* matrix hold, scans, lookups and counts agree, and the store implements  *)
(* a plain edge set; and the arrays of CsrDeltaMC, of the flush, the two   *)
(* scans and the stores that write at once, are those of the edge set that *)
(* each of them should leave.                                              *)
(*                                                                         *)
(* A fold over a sequence is a recursive function that tlapm cannot        *)
(* unfold; FoldExists and RunsTo get its states one by one, and every loop *)
(* of the code is then an induction over what it has done so far.          *)
(***************************************************************************)
EXTENDS CsrDeltaMC, FiniteSetTheorems, WellFoundedInduction, SequenceTheorems, TLAPS

\* The counters count what their maps hold: without this neither the edge
\* count nor the flush threshold means anything.
CountersCount == dpN = Cardinality(dp) /\ dmN = Cardinality(dm)

IInv == TypeOK /\ DeltasAreDisjoint /\ CountersCount /\ PendingIsBounded

-----------------------------------------------------------------------------
\* Every set of edges is finite, and has a number of elements.
LEMMA EdgeSetsAreFinite ==
  ASSUME NEW S \in SUBSET Edges
  PROVE  IsFiniteSet(S) /\ Cardinality(S) \in Nat
BY EdgesAreFinite, FS_Subset, FS_CardinalityType

\* What a reader sees, as a set: M without the tombstones, and DP.
LEMMA GraphIsTheFold ==
  ASSUME TypeOK, DeltasAreDisjoint
  PROVE  Graph = Fold(dp, dm)
BY DEF TypeOK, DeltasAreDisjoint, Graph, ContainsEdge, Fold

\* The invariant holds initially: nothing is pending.
LEMMA InitIInv == ASSUME Init PROVE IInv
BY FS_EmptySet, ThresholdsAreNat
   DEF Init, IInv, TypeOK, DeltasAreDisjoint, CountersCount, PendingIsBounded

\* A write that leaves disjoint deltas with exact counters keeps the
\* invariant, whether it flushes or not.
LEMMA FlushKeepsIInv ==
  ASSUME IInv,
         NEW add \in SUBSET Edges, NEW del \in SUBSET m,
         add \cap m = {}, add \cap del = {},
         NEW addN, NEW delN,
         addN = Cardinality(add), delN = Cardinality(del),
         MaybeFlush(add, del, addN, delN), threshold' = threshold, reply' \in BOOLEAN
  PROVE  IInv'
<1> USE DEF IInv, TypeOK
<1>1. addN \in Nat /\ delN \in Nat
  BY EdgeSetsAreFinite
<1>2. CASE addN + delN >= threshold
  <2>1. /\ m' = Fold(add, del)
        /\ dp' = {} /\ dm' = {} /\ dpN' = 0 /\ dmN' = 0
    BY <1>2 DEF MaybeFlush
  <2>2. m' \subseteq Edges
    BY <2>1 DEF Fold
  <2> QED BY <2>1, <2>2, FS_EmptySet
          DEF DeltasAreDisjoint, CountersCount, PendingIsBounded
<1>3. CASE ~ (addN + delN >= threshold)
  <2>1. m' = m /\ dp' = add /\ dm' = del /\ dpN' = addN /\ dmN' = delN
    BY <1>3 DEF MaybeFlush
  <2>2. threshold \in Nat
    BY ThresholdsAreNat
  <2>3. TypeOK'
    BY <1>1, <2>1
  <2>4. DeltasAreDisjoint'
    BY <2>1 DEF DeltasAreDisjoint
  <2>5. CountersCount'
    BY <2>1 DEF CountersCount
  <2>6. PendingIsBounded'
    BY <1>1, <1>3, <2>1, <2>2 DEF PendingIsBounded
  <2> QED BY <2>3, <2>4, <2>5, <2>6
<1> QED BY <1>2, <1>3

\* Every insert keeps the invariant.
LEMMA InsertKeepsIInv ==
  ASSUME IInv, NEW e \in Edges, Insert(e)
  PROVE  IInv'
<1> USE DEF IInv, TypeOK
<1>1. /\ IsFiniteSet(dp) /\ Cardinality(dp) \in Nat
      /\ IsFiniteSet(dm) /\ Cardinality(dm) \in Nat
  BY EdgeSetsAreFinite
<1>2. threshold \in Nat
  BY ThresholdsAreNat
<1>3. CASE Resurrect(e)
  <2>1. /\ e \in dm /\ dm' = dm \ {e} /\ dmN' = dmN - 1
        /\ reply' = TRUE
        /\ m' = m /\ dp' = dp /\ dpN' = dpN /\ threshold' = threshold
    BY <1>3 DEF Resurrect
  <2>2. dmN' = Cardinality(dm') /\ dmN' \in Nat
    <3>1. /\ IsFiniteSet(dm \ {e})
          /\ Cardinality(dm \ {e}) = Cardinality(dm) - 1
      BY <1>1, <2>1, FS_RemoveElement, Zenon
    <3>2. Cardinality(dm \ {e}) \in Nat
      BY <3>1, FS_CardinalityType
    <3> QED BY <2>1, <3>1, <3>2 DEF CountersCount
  <2>3. PendingIsBounded'
    BY <1>2, <2>1 DEF PendingIsBounded
  <2>4. TypeOK'
    BY <2>1, <2>2
  <2>5. DeltasAreDisjoint'
    BY <2>1 DEF DeltasAreDisjoint
  <2>6. CountersCount'
    BY <2>1, <2>2 DEF CountersCount
  <2> QED BY <2>3, <2>4, <2>5, <2>6
<1>4. CASE InsertPresent(e)
  BY <1>4 DEF InsertPresent, DeltasAreDisjoint, CountersCount, PendingIsBounded
<1>5. CASE InsertPending(e)
  <2>1. /\ e \notin dm /\ e \notin m /\ e \notin dp
        /\ reply' = TRUE /\ threshold' = threshold
        /\ MaybeFlush(dp \cup {e}, dm, dpN + 1, dmN)
    BY <1>5 DEF InsertPending
  <2>2. dpN + 1 = Cardinality(dp \cup {e}) /\ dmN = Cardinality(dm)
    BY <1>1, <2>1, FS_AddElement DEF CountersCount
  <2>3. /\ dp \cup {e} \in SUBSET Edges /\ dm \in SUBSET m
        /\ (dp \cup {e}) \cap m = {} /\ (dp \cup {e}) \cap dm = {}
    BY <2>1 DEF DeltasAreDisjoint
  <2> QED BY <2>1, <2>2, <2>3, FlushKeepsIInv
<1> QED BY <1>3, <1>4, <1>5 DEF Insert

\* So does every delete.
LEMMA DeleteKeepsIInv ==
  ASSUME IInv, NEW e \in Edges, Delete(e)
  PROVE  IInv'
<1> USE DEF IInv, TypeOK
<1>1. /\ IsFiniteSet(dp) /\ Cardinality(dp) \in Nat
      /\ IsFiniteSet(dm) /\ Cardinality(dm) \in Nat
  BY EdgeSetsAreFinite DEF DeltasAreDisjoint
<1>2. threshold \in Nat
  BY ThresholdsAreNat
<1>3. CASE Retract(e)
  <2>1. /\ e \in dp /\ dp' = dp \ {e} /\ dpN' = dpN - 1
        /\ reply' = TRUE
        /\ m' = m /\ dm' = dm /\ dmN' = dmN /\ threshold' = threshold
    BY <1>3 DEF Retract
  <2>2. dpN' = Cardinality(dp') /\ dpN' \in Nat
    <3>1. /\ IsFiniteSet(dp \ {e})
          /\ Cardinality(dp \ {e}) = Cardinality(dp) - 1
      BY <1>1, <2>1, FS_RemoveElement, Zenon
    <3>2. Cardinality(dp \ {e}) \in Nat
      BY <3>1, FS_CardinalityType
    <3> QED BY <2>1, <3>1, <3>2 DEF CountersCount
  <2>3. PendingIsBounded'
    BY <1>2, <2>1 DEF PendingIsBounded
  <2>4. TypeOK'
    BY <2>1, <2>2
  <2>5. DeltasAreDisjoint'
    BY <2>1 DEF DeltasAreDisjoint
  <2>6. CountersCount'
    BY <2>1, <2>2 DEF CountersCount
  <2> QED BY <2>3, <2>4, <2>5, <2>6
<1>4. CASE DeleteAbsent(e)
  BY <1>4 DEF DeleteAbsent, DeltasAreDisjoint, CountersCount, PendingIsBounded
<1>5. CASE DeleteSettled(e)
  <2>1. /\ e \notin dp /\ e \in m /\ e \notin dm
        /\ reply' = TRUE /\ threshold' = threshold
        /\ MaybeFlush(dp, dm \cup {e}, dpN, dmN + 1)
    BY <1>5 DEF DeleteSettled
  <2>2. dmN + 1 = Cardinality(dm \cup {e}) /\ dpN = Cardinality(dp)
    BY <1>1, <2>1, FS_AddElement DEF CountersCount
  <2>3. /\ dp \in SUBSET Edges /\ dm \cup {e} \in SUBSET m
        /\ dp \cap m = {} /\ dp \cap (dm \cup {e}) = {}
    BY <2>1 DEF DeltasAreDisjoint
  <2> QED BY <2>1, <2>2, <2>3, FlushKeepsIInv
<1> QED BY <1>3, <1>4, <1>5 DEF Delete

\* The invariant is inductive.
LEMMA StepIInv == ASSUME IInv, [Next]_vars PROVE IInv'
<1>1. CASE \E e \in Edges : Insert(e) \/ Delete(e)
  BY <1>1, InsertKeepsIInv, DeleteKeepsIInv
<1>2. CASE Flush
  BY <1>2, FS_EmptySet
     DEF Flush, Fold, IInv, TypeOK, DeltasAreDisjoint, CountersCount, PendingIsBounded
<1>3. CASE UNCHANGED vars
  BY <1>3 DEF vars, IInv, TypeOK, DeltasAreDisjoint, CountersCount, PendingIsBounded
<1> QED BY <1>1, <1>2, <1>3 DEF Next

\* The inductive invariant holds in every reachable state.
THEOREM Invariance == Spec => []IInv
<1>1. Init => IInv
  BY InitIInv
<1>2. IInv /\ [Next]_vars => IInv'
  BY StepIInv
<1> QED BY <1>1, <1>2, PTL DEF Spec

\* The three delta-matrix invariants of delta.rs's header, always.
THEOREM DeltaInvariants == Spec => [](TypeOK /\ DeltasAreDisjoint)
BY Invariance, PTL DEF IInv

\* What is pending never reaches the threshold between two writes.
THEOREM PendingBounded == Spec => []PendingIsBounded
BY Invariance, PTL DEF IInv

\* The edge count kept by counters is the size of the graph.
LEMMA CountIsExact ==
  ASSUME IInv
  PROVE  NumEdges = Cardinality(Graph)
<1> USE DEF IInv, TypeOK
<1>1. /\ IsFiniteSet(m) /\ Cardinality(m) \in Nat
      /\ IsFiniteSet(dp) /\ Cardinality(dp) \in Nat
      /\ IsFiniteSet(dm) /\ Cardinality(dm) \in Nat
  BY EdgeSetsAreFinite
<1>2. m \cap dm = dm /\ (m \ dm) \cap dp = {}
  BY DEF DeltasAreDisjoint
<1>3. IsFiniteSet(m \ dm) /\ Cardinality(m \ dm) = Cardinality(m) - Cardinality(dm)
  BY <1>1, <1>2, FS_Difference
<1>4. Cardinality((m \ dm) \cup dp) = Cardinality(m \ dm) + Cardinality(dp) - 0
  <2>1. Cardinality((m \ dm) \cup dp)
          = Cardinality(m \ dm) + Cardinality(dp) - Cardinality((m \ dm) \cap dp)
    BY <1>1, <1>3, FS_Union, Zenon
  <2>2. Cardinality((m \ dm) \cap dp) = 0
    BY <1>2, FS_EmptySet
  <2> QED BY <2>1, <2>2
<1>5. Graph = (m \ dm) \cup dp
  BY GraphIsTheFold DEF Fold
<1> QED BY <1>1, <1>3, <1>4, <1>5 DEF NumEdges, CountersCount

\* A scan visits exactly the edges a lookup finds, each once, and the count
\* kept by counters is the number of them.
THEOREM ScansMatchLookups == Spec => []ScanMatchesLookup
<1>1. ASSUME IInv PROVE ScanMatchesLookup
  <2>1. \A e \in Edges : Visits(e) = (IF ContainsEdge(e) THEN 1 ELSE 0)
    BY <1>1 DEF IInv, TypeOK, DeltasAreDisjoint, Visits, ContainsEdge
  <2> QED BY <1>1, <2>1, CountIsExact DEF ScanMatchesLookup
<1> QED BY <1>1, Invariance, PTL

-----------------------------------------------------------------------------
\* The store implements the plain edge set: every insert and delete has the
\* effect and the answer of the set's, and a flush cannot be seen.
THEOREM Refinement == Spec => ImplementsGraphStore
<1>1. Init => Abstract!Init
  BY DEF Init, Abstract!Init, Graph
<1>2. IInv /\ IInv' /\ [Next]_vars => [Abstract!Next]_(Abstract!vars)
  <2> SUFFICES ASSUME IInv, IInv', [Next]_vars
               PROVE  Abstract!Next \/ UNCHANGED Abstract!vars
    OBVIOUS
  <2>1. Graph = (m \ dm) \cup dp /\ Graph' = (m' \ dm') \cup dp'
    BY DEF IInv, Graph, ContainsEdge, TypeOK, DeltasAreDisjoint
  <2>2. dp \cap m = {} /\ dm \subseteq m /\ dp \cap dm = {}
    BY DEF IInv, DeltasAreDisjoint
  <2>3. ASSUME NEW e \in Edges, Insert(e) PROVE Abstract!Insert(e)
    <3>1. CASE Resurrect(e)
      BY <2>1, <2>2, <3>1 DEF Resurrect, Abstract!Insert
    <3>2. CASE InsertPresent(e)
      BY <2>1, <2>2, <3>2 DEF InsertPresent, Abstract!Insert
    <3>3. CASE InsertPending(e)
      <4>1. (m' \ dm') \cup dp' = Fold(dp \cup {e}, dm)
        BY <3>3 DEF InsertPending, MaybeFlush, Fold
      <4> QED BY <2>1, <2>2, <3>3, <4>1 DEF InsertPending, Fold, Abstract!Insert
    <3> QED BY <2>3, <3>1, <3>2, <3>3 DEF Insert
  <2>4. ASSUME NEW e \in Edges, Delete(e) PROVE Abstract!Delete(e)
    <3>1. CASE Retract(e)
      BY <2>1, <2>2, <3>1 DEF Retract, Abstract!Delete
    <3>2. CASE DeleteAbsent(e)
      <4>1. e \notin Graph /\ Graph' = Graph
        BY <2>1, <2>2, <3>2 DEF DeleteAbsent
      <4>2. reply' = (e \in Graph)
        <5>1. (e \in Graph) = FALSE
          BY <4>1
        <5>2. reply' = FALSE
          BY <3>2 DEF DeleteAbsent
        <5> QED BY <5>1, <5>2, Zenon
      <4>3. Graph' = Graph \ {e}
        BY <4>1
      <4> QED BY <4>2, <4>3 DEF Abstract!Delete
    <3>3. CASE DeleteSettled(e)
      <4>1. (m' \ dm') \cup dp' = Fold(dp, dm \cup {e})
        BY <3>3 DEF DeleteSettled, MaybeFlush, Fold
      <4> QED BY <2>1, <2>2, <3>3, <4>1 DEF DeleteSettled, Fold, Abstract!Delete
    <3> QED BY <2>4, <3>1, <3>2, <3>3 DEF Delete
  <2>5. CASE Flush
    <3>1. Graph' = Graph
      BY <2>1, <2>5 DEF Flush, Fold
    <3> QED BY <2>5, <3>1 DEF Flush, Abstract!vars
  <2>6. CASE UNCHANGED vars
    BY <2>6, <2>1 DEF vars, Abstract!vars
  <2> QED BY <2>3, <2>4, <2>5, <2>6 DEF Next, Abstract!Next
<1> QED BY <1>1, <1>2, Invariance, PTL DEF Spec, ImplementsGraphStore, Abstract!Spec
-----------------------------------------------------------------------------
(* Numbers and sorted sequences of them *)

\* A nonempty set of naturals has a least one.
LEMMA MinExists ==
  ASSUME NEW T, T \subseteq Nat, T # {}
  PROVE  \E x \in T : \A y \in T : x <= y
<1> DEFINE R == OpToRel(<, Nat)
<1>1. \A x, y \in Nat : <<y, x>> \in R <=> y < x
  BY DEF OpToRel
<1>2. PICK x \in T : \A y \in T : ~ (<<y, x>> \in R)
  <2>1. IsWellFoundedOn(R, Nat)
    BY NatLessThanWellFounded DEF R
  <2> HIDE DEF R
  <2> QED BY <2>1, WFMin
<1>3. \A y \in T : ~ (y < x)
  <2> HIDE DEF R
  <2> QED BY <1>1, <1>2
<1> HIDE DEF R
<1> QED BY <1>3

\* A strictly increasing sequence, and one that lists a set in this way.
Increasing(s) == s \in Seq(Nat) /\ \A i, j \in 1..Len(s) : i < j => s[i] < s[j]
Lists(s, S) == Increasing(s) /\ S = {s[i] : i \in 1..Len(s)}

\* There is one order: where two such sequences would differ first, the smaller
\* number is missing from the other one.
LEMMA OrderIsUnique ==
  ASSUME NEW S, NEW s, NEW t, Lists(s, S), Lists(t, S)
  PROVE  s = t
<1>1. /\ s \in Seq(Nat) /\ t \in Seq(Nat) /\ Len(s) \in Nat /\ Len(t) \in Nat
      /\ \A i \in 1..Len(s) : s[i] \in Nat
      /\ \A i \in 1..Len(t) : t[i] \in Nat
  BY DEF Lists, Increasing
<1> DEFINE differ == {k \in Nat : k >= 1 /\ (k > Len(s) \/ k > Len(t) \/ s[k] # t[k])}
           end == IF Len(s) < Len(t) THEN Len(t) + 1 ELSE Len(s) + 1
<1>2. end \in differ
  BY <1>1
<1>3. PICK k \in differ : \A j \in differ : k <= j
  <2>1. differ \subseteq Nat
    OBVIOUS
  <2> HIDE DEF differ
  <2> QED BY <1>2, <2>1, MinExists
<1>4. k \in Nat /\ k >= 1 /\ (k > Len(s) \/ k > Len(t) \/ s[k] # t[k])
  OBVIOUS
<1>5. ASSUME NEW i \in Nat, 1 <= i, i < k PROVE i \in 1..Len(s) /\ i \in 1..Len(t) /\ s[i] = t[i]
  <2>1. i \notin differ
    <3> HIDE DEF differ
    <3> QED BY <1>3, <1>4, <1>5
  <2> QED BY <1>1, <1>5, <2>1
<1> HIDE DEF differ
<1>6. ASSUME NEW a, NEW b, Lists(a, S), Lists(b, S), k \in 1..Len(a),
             \A i \in Nat : 1 <= i /\ i < k => i \in 1..Len(a) /\ a[i] = b[i],
             k > Len(b) \/ a[k] < b[k]
      PROVE  FALSE
  <2>1. PICK i \in 1..Len(b) : b[i] = a[k]
    BY <1>6 DEF Lists
  <2>2. /\ a \in Seq(Nat) /\ b \in Seq(Nat) /\ Len(b) \in Nat /\ Len(a) \in Nat
        /\ a[k] \in Nat /\ i \in Nat /\ 1 <= i
    BY <1>6, <2>1 DEF Lists, Increasing
  <2>3. CASE i < k
    <3>1. i \in 1..Len(a) /\ a[i] = b[i]
      BY <1>6, <2>2, <2>3
    <3>2. a[i] < a[k]
      BY <1>6, <2>3, <3>1 DEF Lists, Increasing
    <3> QED BY <2>1, <2>2, <3>1, <3>2
  <2>4. CASE ~ (i < k)
    <3>1. k \in 1..Len(b) /\ a[k] < b[k] /\ b[k] \in Nat
      BY <1>4, <1>6, <2>1, <2>2, <2>4
    <3>2. i = k \/ b[k] < b[i]
      BY <1>4, <1>6, <2>1, <2>2, <2>4, <3>1 DEF Lists, Increasing
    <3> QED BY <2>1, <2>2, <3>1, <3>2
  <2> QED BY <2>3, <2>4
<1>7. CASE k \in 1..Len(s) /\ k \in 1..Len(t)
  <2>1. s[k] # t[k] /\ s[k] \in Nat /\ t[k] \in Nat
    BY <1>1, <1>4, <1>7
  <2>2. s[k] < t[k] \/ t[k] < s[k]
    BY <2>1
  <2> QED BY <1>5, <1>6, <1>7, <2>2
<1>8. CASE k \in 1..Len(s) /\ k > Len(t)
  BY <1>5, <1>6, <1>8
<1>9. CASE k > Len(s) /\ k \in 1..Len(t)
  BY <1>5, <1>6, <1>9
<1>10. CASE k > Len(s) /\ k > Len(t)
  <2>1. Len(s) = Len(t)
    <3>1. CASE Len(s) < Len(t)
      <4>1. Len(s) + 1 \in Nat /\ 1 <= Len(s) + 1 /\ Len(s) + 1 < k
        BY <1>1, <1>4, <1>10, <3>1
      <4> QED BY <1>1, <1>5, <4>1
    <3>2. CASE Len(t) < Len(s)
      <4>1. Len(t) + 1 \in Nat /\ 1 <= Len(t) + 1 /\ Len(t) + 1 < k
        BY <1>1, <1>4, <1>10, <3>2
      <4> QED BY <1>1, <1>5, <4>1
    <3> QED BY <1>1, <3>1, <3>2
  <2>2. ASSUME NEW i \in 1..Len(s) PROVE s[i] = t[i]
    <3>1. i \in Nat /\ 1 <= i /\ i < k
      BY <1>1, <1>4, <1>10
    <3> QED BY <1>5, <3>1
  <2>3. s = [i \in 1..Len(s) |-> s[i]] /\ t = [i \in 1..Len(t) |-> t[i]]
    BY <1>1
  <2> QED BY <2>1, <2>2, <2>3
<1> QED BY <1>1, <1>4, <1>7, <1>8, <1>9, <1>10

\* There are n numbers from 1 to n.
LEMMA UpToIsFinite == ASSUME NEW n \in Nat PROVE IsFiniteSet(1..n) /\ Cardinality(1..n) = n
BY FS_Interval

\* What a slice of a sequence is.
LEMMA SliceOfSeq ==
  ASSUME NEW V, NEW s \in Seq(V), NEW a \in Nat, NEW b \in Nat, a <= b, b <= Len(s)
  PROVE  /\ SubSeq(s, a + 1, b) \in Seq(V) /\ Len(SubSeq(s, a + 1, b)) = b - a
         /\ \A j \in 1..(b - a) : SubSeq(s, a + 1, b)[j] = s[a + j]
<1>1. \A i \in (a + 1)..b : s[i] \in V
  OBVIOUS
<1>2. a + 1 \in Int /\ b \in Int
  OBVIOUS
<1>3. /\ SubSeq(s, a + 1, b) \in Seq(V)
      /\ Len(SubSeq(s, a + 1, b)) = IF a + 1 <= b THEN b - (a + 1) + 1 ELSE 0
      /\ \A i \in 1..(b - (a + 1) + 1) : SubSeq(s, a + 1, b)[i] = s[(a + 1) + i - 1]
  BY <1>1, <1>2, SubSeqProperties
<1>4. b - (a + 1) + 1 = b - a /\ \A i \in 1..(b - a) : (a + 1) + i - 1 = a + i
  OBVIOUS
<1> QED BY <1>3, <1>4

\* The set of a sorted sequence is finite, and as large as the sequence is long.
LEMMA ListedIsFinite ==
  ASSUME NEW S, NEW s, Lists(s, S)
  PROVE  /\ IsFiniteSet(S) /\ S \subseteq Nat /\ Len(s) = Cardinality(S) /\ Len(s) \in Nat
         /\ s \in Seq(Nat) /\ DOMAIN s = 1..Len(s)
<1> DEFINE n == Len(s)
<1>1. n \in Nat /\ s \in [1..n -> Nat] /\ \A i \in 1..n : s[i] \in Nat
  BY DEF Lists, Increasing
<1>2. s \in Bijection(1..n, S)
  <2>1. s \in [1..n -> S]
    BY <1>1 DEF Lists
  <2>2. ASSUME NEW i \in 1..n, NEW j \in 1..n, s[i] = s[j] PROVE i = j
    <3>1. ~ (s[i] < s[j]) /\ ~ (s[j] < s[i])
      BY <1>1, <2>2
    <3>2. ~ (i < j) /\ ~ (j < i)
      BY <3>1 DEF Lists, Increasing
    <3> QED BY <1>1, <3>2
  <2>3. \A x \in S : \E i \in 1..n : s[i] = x
    BY DEF Lists
  <2> QED BY <2>1, <2>2, <2>3 DEF Bijection, Injection, IsInjective, Surjection
<1>3. IsFiniteSet(1..n) /\ Cardinality(1..n) = n
  <2> HIDE DEF n
  <2> QED BY <1>1, UpToIsFinite
<1>4. ExistsBijection(1..n, S)
  BY <1>2 DEF ExistsBijection
<1>5. IsFiniteSet(S) /\ Cardinality(S) = n
  BY <1>3, <1>4, FS_Bijection
<1> QED BY <1>1, <1>5 DEF Lists, Increasing

\* How many elements of a set come before one of them tells them apart, and takes
\* every value below the size of the set.
Rank(S, R, x) == Cardinality({y \in S : <<y, x>> \in R})
Orders(S, R) ==
  /\ \A x, y \in S : x = y \/ <<x, y>> \in R \/ <<y, x>> \in R
  /\ \A x \in S : <<x, x>> \notin R
  /\ \A x, y, z \in S : <<x, y>> \in R /\ <<y, z>> \in R => <<x, z>> \in R
RanksAreTaken(S, R) == \A k \in 1..Cardinality(S) : \E x \in S : Rank(S, R, x) = k - 1

\* A rank tells an element from every other, and is below the size of the
\* set.
LEMMA RanksAreExact ==
  ASSUME NEW S, IsFiniteSet(S), NEW R, Orders(S, R)
  PROVE  /\ \A x \in S : Rank(S, R, x) \in Nat /\ Rank(S, R, x) + 1 \in 1..Cardinality(S)
         /\ \A x, y \in S : <<x, y>> \in R <=> Rank(S, R, x) < Rank(S, R, y)
         /\ \A x, y \in S : Rank(S, R, x) = Rank(S, R, y) => x = y
         /\ RanksAreTaken(S, R)
<1> DEFINE n == Cardinality(S)
           Below(x) == {y \in S : <<y, x>> \in R}
           rank(x) == Rank(S, R, x)
<1>1. n \in Nat
  BY FS_CardinalityType
<1>2. \A x : rank(x) = Cardinality(Below(x))
  BY DEF Rank
<1>3. ASSUME NEW x \in S
      PROVE  IsFiniteSet(Below(x)) /\ rank(x) \in Nat /\ rank(x) < n
  <2>1. Below(x) \in SUBSET S /\ x \notin Below(x)
    BY DEF Orders
  <2> HIDE DEF Below, n, rank
  <2>2. IsFiniteSet(Below(x)) /\ Cardinality(Below(x)) <= n /\ Cardinality(Below(x)) # n
    BY <2>1, FS_Subset DEF n
  <2>3. Cardinality(Below(x)) \in Nat
    BY <2>2, FS_CardinalityType
  <2> QED BY <1>1, <1>2, <2>2, <2>3
<1>4. ASSUME NEW x \in S, NEW y \in S, <<x, y>> \in R PROVE rank(x) < rank(y)
  <2>1. Below(x) \in SUBSET Below(y) /\ x \in Below(y) /\ x \notin Below(x)
    BY <1>4 DEF Orders
  <2> HIDE DEF Below, rank
  <2>2. Cardinality(Below(x)) <= Cardinality(Below(y)) /\ Cardinality(Below(x)) # Cardinality(Below(y))
    BY <1>3, <2>1, FS_Subset
  <2> QED BY <1>2, <1>3, <2>2
<1> HIDE DEF rank, Below
<1>5. \A x, y \in S : <<x, y>> \in R <=> rank(x) < rank(y)
  <2> SUFFICES ASSUME NEW x \in S, NEW y \in S, rank(x) < rank(y) PROVE <<x, y>> \in R
    BY <1>4
  <2>1. x # y /\ ~ (rank(y) < rank(x))
    BY <1>3
  <2> QED BY <1>4, <2>1 DEF Orders
<1>6. \A x, y \in S : rank(x) = rank(y) => x = y
  <2> SUFFICES ASSUME NEW x \in S, NEW y \in S, rank(x) = rank(y) PROVE x = y
    OBVIOUS
  <2>1. ~ (rank(y) < rank(x)) /\ ~ (rank(x) < rank(y))
    BY <1>3
  <2> QED BY <1>4, <2>1 DEF Orders
<1> DEFINE place == [x \in S |-> rank(x) + 1]
<1> HIDE DEF n
<1>7. \A x \in S : rank(x) + 1 \in 1..n
  BY <1>1, <1>3
<1>8. place \in Injection(S, 1..n)
  <2>1. place \in [S -> 1..n]
    BY <1>7
  <2>2. ASSUME NEW x \in S, NEW y \in S, place[x] = place[y] PROVE x = y
    <3>1. rank(x) = rank(y)
      BY <1>3, <2>2
    <3> QED BY <1>6, <3>1
  <2> HIDE DEF place
  <2> QED BY <2>1, <2>2 DEF Injection, IsInjective
<1>9. place \in Surjection(S, 1..n)
  <2>1. IsFiniteSet(1..n) /\ Cardinality(1..n) = n
    BY <1>1, FS_Interval
  <2> HIDE DEF place
  <2> QED BY <1>8, <2>1, FS_Injection DEF n
<1>10. ASSUME NEW k \in 1..n PROVE \E x \in S : rank(x) = k - 1
  <2>1. PICK x \in S : place[x] = k
    <3> HIDE DEF place
    <3> QED BY <1>9 DEF Surjection
  <2>2. rank(x) + 1 = k
    BY <2>1
  <2> QED BY <1>1, <1>3, <2>2
<1> QED BY <1>3, <1>5, <1>6, <1>7, <1>10 DEF rank, n, RanksAreTaken

\* InOrder lists every finite set of numbers.
LEMMA InOrderLists ==
  ASSUME NEW S, S \subseteq Nat, IsFiniteSet(S)
  PROVE  Lists(InOrder(S), S) /\ Len(InOrder(S)) = Cardinality(S)
<1> DEFINE R == {p \in S \X S : p[1] < p[2]}
           n == Cardinality(S)
           s == InOrder(S)
<1>1. n \in Nat
  BY FS_CardinalityType
<1>2. \A x, y \in S : <<x, y>> \in R <=> x < y
  OBVIOUS
<1>3. \A x \in S : Rank(S, R, x) = Cardinality({y \in S : y < x})
  <2> TAKE x \in S
  <2>1. {y \in S : <<y, x>> \in R} = {y \in S : y < x}
    OBVIOUS
  <2> HIDE DEF R
  <2> QED BY <2>1 DEF Rank
<1> HIDE DEF R
<1>4. Orders(S, R)
  <2>1. \A x \in S : x \in Nat
    OBVIOUS
  <2> QED BY <1>2, <2>1 DEF Orders
<1>0. \A k \in 1..n : \E x \in S : Rank(S, R, x) = k - 1
  <2>1. RanksAreTaken(S, R)
    BY <1>4, RanksAreExact
  <2> QED BY <2>1 DEF RanksAreTaken
<1>5. ASSUME NEW k \in 1..n PROVE s[k] \in S /\ Rank(S, R, s[k]) = k - 1
  <2>1. s[k] = CHOOSE x \in S : Cardinality({y \in S : y < x}) = k - 1
    BY DEF InOrder
  <2>2. PICK x \in S : Rank(S, R, x) = k - 1
    <3> HIDE DEF n
    <3> QED BY <1>0
  <2>3. Cardinality({y \in S : y < x}) = k - 1
    BY <1>3, <2>2
  <2> HIDE DEF s
  <2>4. s[k] \in S /\ Cardinality({y \in S : y < s[k]}) = k - 1
    BY <2>1, <2>3
  <2> QED BY <1>3, <2>4
<1>6. s = [k \in 1..n |-> s[k]]
  <2> DEFINE nth(k) == CHOOSE x \in S : Cardinality({y \in S : y < x}) = k - 1
  <2>1. s = [k \in 1..n |-> nth(k)]
    BY DEF InOrder
  <2> HIDE DEF s, n, nth
  <2> QED BY <2>1
<1> HIDE DEF s
<1>7. s \in [1..n -> Nat]
  BY <1>5, <1>6
<1>8. ASSUME NEW i \in 1..n, NEW j \in 1..n, i < j PROVE s[i] < s[j]
  <2>1. Rank(S, R, s[i]) < Rank(S, R, s[j]) /\ s[i] \in S /\ s[j] \in S
    <3> HIDE DEF n
    <3> QED BY <1>1, <1>5, <1>8
  <2> QED BY <1>2, <1>4, <2>1, RanksAreExact
<1>9. ASSUME NEW x \in S PROVE \E i \in 1..n : s[i] = x
  <2>1. Rank(S, R, x) \in Nat /\ Rank(S, R, x) + 1 \in 1..n
    BY <1>4, RanksAreExact
  <2> DEFINE i == Rank(S, R, x) + 1
  <2>2. s[i] \in S /\ Rank(S, R, s[i]) = i - 1
    <3> HIDE DEF i
    <3> QED BY <1>5, <2>1 DEF i
  <2>3. i - 1 = Rank(S, R, x)
    BY <2>1
  <2>4. s[i] = x
    <3> HIDE DEF i
    <3> QED BY <1>4, <2>2, <2>3, RanksAreExact
  <2> QED BY <2>1, <2>4
<1> HIDE DEF n
<1>10. s \in Seq(Nat) /\ Len(s) = n
  BY <1>1, <1>7
<1>11. S = {s[i] : i \in 1..n}
  BY <1>5, <1>9
<1>12. Lists(s, S)
  BY <1>8, <1>10, <1>11 DEF Lists, Increasing
<1> QED BY <1>10, <1>12 DEF n, s

\* So what lists a set is the set in order.
LEMMA OrderIs ==
  ASSUME NEW S, NEW s, Lists(s, S)
  PROVE  s = InOrder(S)
BY ListedIsFinite, InOrderLists, OrderIsUnique

-----------------------------------------------------------------------------
(* Rows and offsets *)

Dests(es, u) == {e[2] : e \in {x \in es : x[1] = u}}
OffsetOf(es, u) == Cardinality({e \in es : e[1] < u})

\* Sets of edges are finite, and sets of pairs of vertices.
LEMMA EdgeSets ==
  ASSUME NEW es \in SUBSET Edges
  PROVE  /\ IsFiniteSet(es) /\ Cardinality(es) \in Nat
         /\ \A e \in es : e = <<e[1], e[2]>> /\ e[1] \in Vertices /\ e[2] \in Vertices
         /\ \A e \in es : e[1] \in Nat /\ e[2] \in Nat /\ e[1] < N
<1>1. IsFiniteSet(es)
  BY EdgesAreFinite, FS_Subset
<1>2. es \subseteq Vertices \X Vertices
  BY EdgesAreOfVertices
<1>3. \A e \in es : e = <<e[1], e[2]>> /\ e[1] \in Vertices /\ e[2] \in Vertices
  BY <1>2
<1>4. \A v \in Vertices : v \in Nat /\ v < N
  BY NumberOfVerticesIsNat DEF Vertices
<1> QED BY <1>1, <1>3, <1>4, FS_CardinalityType

\* A row of the set is its destinations in order.
LEMMA RowLists ==
  ASSUME NEW es \in SUBSET Edges, NEW u
  PROVE  /\ Lists(RowOf(es, u), Dests(es, u))
         /\ Len(RowOf(es, u)) = Cardinality({e \in es : e[1] = u})
         /\ Len(RowOf(es, u)) \in Nat
<1> DEFINE row == {e \in es : e[1] = u}
           to == [e \in row |-> e[2]]
<1>1. IsFiniteSet(row)
  BY EdgeSets, FS_Subset
<1>2. to \in Bijection(row, Dests(es, u))
  <2>1. \A e, d \in row : to[e] = to[d] => e = d
    BY EdgeSets
  <2>2. to \in [row -> Dests(es, u)] /\ \A v \in Dests(es, u) : \E e \in row : to[e] = v
    BY DEF Dests
  <2> QED BY <2>1, <2>2 DEF Bijection, Injection, IsInjective, Surjection
<1>3. IsFiniteSet(Dests(es, u)) /\ Cardinality(Dests(es, u)) = Cardinality(row)
  BY <1>1, <1>2, FS_Bijection DEF ExistsBijection
<1>4. Dests(es, u) \subseteq Nat
  BY EdgeSets DEF Dests
<1>5. RowOf(es, u) = InOrder(Dests(es, u))
  BY DEF RowOf, Dests
<1> QED BY <1>1, <1>3, <1>4, <1>5, InOrderLists, FS_CardinalityType

\* What lists the destinations of a row is the row.
LEMMA RowIs ==
  ASSUME NEW es, NEW u, NEW s, Lists(s, Dests(es, u))
  PROVE  s = RowOf(es, u)
BY OrderIs DEF RowOf, Dests

\* Offsets add up the lengths of the rows before.
LEMMA OffsetsAddUp ==
  ASSUME NEW es \in SUBSET Edges
  PROVE  /\ OffsetOf(es, 0) = 0 /\ OffsetOf(es, N) = Cardinality(es)
         /\ \A u \in Vertices : OffsetOf(es, u + 1) = OffsetOf(es, u) + Len(RowOf(es, u))
         /\ \A u \in 0..N : OffsetOf(es, u) \in Nat /\ OffsetOf(es, u) <= Cardinality(es)
         /\ \A u, w \in 0..N : u <= w => OffsetOf(es, u) <= OffsetOf(es, w)
<1> DEFINE low(u) == {e \in es : e[1] < u}
<1>1. \A e \in es : e[1] \in Nat /\ e[1] < N
  BY EdgeSets
<1>2. low(0) = {} /\ low(N) = es
  BY <1>1
<1>3. ASSUME NEW u PROVE IsFiniteSet(low(u)) /\ Cardinality(low(u)) \in Nat
                         /\ Cardinality(low(u)) <= Cardinality(es)
  <2>1. low(u) \in SUBSET es
    OBVIOUS
  <2> HIDE DEF low
  <2> QED BY <2>1, EdgeSets, FS_Subset, FS_CardinalityType
<1>4. ASSUME NEW u \in 0..N, NEW w \in 0..N, u <= w
      PROVE  Cardinality(low(u)) <= Cardinality(low(w))
  <2>1. low(u) \in SUBSET low(w)
    BY <1>1, <1>4, NumberOfVerticesIsNat
  <2> HIDE DEF low
  <2> QED BY <1>3, <2>1, FS_Subset
<1>5. ASSUME NEW u \in Vertices
      PROVE  Cardinality(low(u + 1)) = Cardinality(low(u)) + Len(RowOf(es, u))
  <2> DEFINE row == {e \in es : e[1] = u}
  <2>1. u \in Nat
    BY NumberOfVerticesIsNat DEF Vertices
  <2>2. low(u + 1) = low(u) \cup row /\ low(u) \cap row = {}
    BY <1>1, <2>1
  <2>3. IsFiniteSet(row) /\ Cardinality(row) \in Nat /\ Cardinality(row) = Len(RowOf(es, u))
    BY EdgeSets, FS_Subset, RowLists, FS_CardinalityType
  <2> HIDE DEF low, row
  <2>4. Cardinality(low(u) \cup row)
          = Cardinality(low(u)) + Cardinality(row) - Cardinality(low(u) \cap row)
    BY <1>3, <2>3, FS_Union
  <2>5. Cardinality(low(u) \cap row) = 0
    BY <2>2, FS_EmptySet
  <2>6. Cardinality(low(u)) \in Nat
    BY <1>3
  <2>7. Cardinality(low(u + 1)) = Cardinality(low(u) \cup row)
    BY <2>2, Zenon
  <2> QED BY <2>3, <2>4, <2>5, <2>6, <2>7
<1> HIDE DEF low
<1>6. \A u : OffsetOf(es, u) = Cardinality(low(u))
  BY DEF OffsetOf, low
<1> QED BY <1>2, <1>3, <1>4, <1>5, <1>6, FS_EmptySet

\* Every place in the array of edges is in one row.
LEMMA PlaceIsInRow ==
  ASSUME NEW es \in SUBSET Edges, NEW k \in 1..Cardinality(es)
  PROVE  \E u \in Vertices : \E j \in 1..Len(RowOf(es, u)) : k = OffsetOf(es, u) + j
<1> DEFINE past == {w \in 0..N : k <= OffsetOf(es, w)}
<1>1. N \in past
  BY OffsetsAddUp, EdgeSets, NumberOfVerticesIsNat
<1>2. PICK w \in past : \A x \in past : w <= x
  <2>1. past \subseteq Nat
    BY NumberOfVerticesIsNat
  <2> HIDE DEF past
  <2> QED BY <1>1, <2>1, MinExists
<1>3. w \in 0..N /\ k <= OffsetOf(es, w)
  OBVIOUS
<1>4. k \in Nat /\ k >= 1
  BY EdgeSets
<1>5. w # 0
  BY <1>3, <1>4, OffsetsAddUp
<1> DEFINE u == w - 1
<1>6. u \in Vertices /\ u \in 0..N /\ u + 1 = w /\ ~ (w <= u)
  BY <1>3, <1>5, NumberOfVerticesIsNat DEF Vertices
<1>7. ~ (k <= OffsetOf(es, u))
  <2>1. u \notin past
    <3> HIDE DEF past, u
    <3> QED BY <1>2, <1>6
  <2> QED BY <1>6, <2>1
<1>8. OffsetOf(es, w) = OffsetOf(es, u) + Len(RowOf(es, u)) /\ OffsetOf(es, u) \in Nat
  <2> HIDE DEF u
  <2> QED BY <1>6, OffsetsAddUp
<1>9. Len(RowOf(es, u)) \in Nat
  <2> HIDE DEF u
  <2> QED BY RowLists
<1> HIDE DEF past, u
<1>10. k - OffsetOf(es, u) \in 1..Len(RowOf(es, u)) /\ k = OffsetOf(es, u) + (k - OffsetOf(es, u))
  BY <1>3, <1>4, <1>7, <1>8, <1>9
<1> QED BY <1>6, <1>10

\* The arrays of a set of edges: the offsets, and row after row.
IsCsr(c, es) ==
  /\ c = [offsets |-> [u \in 0..N |-> OffsetOf(es, u)], edges |-> c.edges]
  /\ c.edges \in Seq(Nat) /\ Len(c.edges) = Cardinality(es)
  /\ \A u \in Vertices : \A j \in 1..Len(RowOf(es, u)) :
        c.edges[OffsetOf(es, u) + j] = RowOf(es, u)[j]

\* Its offsets, one by one.
LEMMA CsrOffsets ==
  ASSUME NEW c, NEW es, IsCsr(c, es), NEW u \in 0..N
  PROVE  c.offsets[u] = OffsetOf(es, u)
<1>1. c.offsets = [w \in 0..N |-> OffsetOf(es, w)]
  BY DEF IsCsr
<1> QED BY <1>1

\* There is one way to lay out a set of edges.
LEMMA CsrIsUnique ==
  ASSUME NEW es \in SUBSET Edges, NEW c, NEW d, IsCsr(c, es), IsCsr(d, es)
  PROVE  c = d
<1>1. ASSUME NEW k \in 1..Cardinality(es) PROVE c.edges[k] = d.edges[k]
  <2>1. PICK u \in Vertices : \E j \in 1..Len(RowOf(es, u)) : k = OffsetOf(es, u) + j
    BY PlaceIsInRow
  <2> QED BY <2>1 DEF IsCsr
<1>2. /\ c.edges = [k \in 1..Cardinality(es) |-> c.edges[k]]
      /\ d.edges = [k \in 1..Cardinality(es) |-> d.edges[k]]
  BY DEF IsCsr
<1>3. c.edges = d.edges
  BY <1>1, <1>2
<1> QED BY <1>3 DEF IsCsr

\* The j-th edge of a row has all edges of the rows before it, and j - 1 of its own,
\* before it.
LEMMA RankOfEdge ==
  ASSUME NEW es \in SUBSET Edges, NEW u \in Vertices, NEW j \in 1..Len(RowOf(es, u)),
         NEW e, e = <<u, RowOf(es, u)[j]>>
  PROVE  /\ e \in es
         /\ Cardinality({d \in es : Before(d, e)}) = OffsetOf(es, u) + (j - 1)
<1> DEFINE row == RowOf(es, u)
           low == {d \in es : d[1] < u}
           left == {d \in es : d[1] = u /\ d[2] < row[j]}
           to == [i \in 1..(j - 1) |-> <<u, row[i]>>]
<1>1. Lists(row, Dests(es, u)) /\ Len(row) \in Nat
  BY RowLists
<1>2. \A i \in 1..Len(row) : row[i] \in Nat /\ <<u, row[i]>> \in es
  <2> TAKE i \in 1..Len(row)
  <2>1. row[i] \in Dests(es, u) /\ row[i] \in Nat
    <3> HIDE DEF row
    <3> QED BY <1>1 DEF Lists, Increasing
  <2>2. PICK d \in es : d[1] = u /\ d[2] = row[i]
    BY <2>1 DEF Dests
  <2>3. d = <<d[1], d[2]>>
    BY EdgeSets
  <2> QED BY <2>1, <2>2, <2>3
<1>3. j \in 1..Len(row) /\ j \in Nat /\ e = <<u, row[j]>> /\ u \in Nat
  BY <1>1, NumberOfVerticesIsNat DEF Vertices
<1>4. \A i, k \in 1..Len(row) : i < k => row[i] < row[k]
  BY <1>1 DEF Lists, Increasing
<1>5. \A d \in left : \E i \in 1..Len(row) : d = <<u, row[i]>>
  <2> TAKE d \in left
  <2>1. d \in es /\ d[1] = u /\ d = <<d[1], d[2]>>
    BY EdgeSets
  <2>2. d[2] \in Dests(es, u)
    BY <2>1 DEF Dests
  <2>3. PICK i \in 1..Len(row) : row[i] = d[2]
    <3> HIDE DEF row
    <3> QED BY <1>1, <2>2 DEF Lists
  <2> QED BY <2>1, <2>3
<1> HIDE DEF row
<1>6. to \in Bijection(1..(j - 1), left)
  <2>1. \A i \in 1..(j - 1) : i \in 1..Len(row) /\ i < j /\ row[i] < row[j] /\ to[i] \in left
    BY <1>1, <1>2, <1>3, <1>4
  <2>2. to \in [1..(j - 1) -> left]
    BY <2>1
  <2>3. ASSUME NEW i \in 1..(j - 1), NEW k \in 1..(j - 1), to[i] = to[k] PROVE i = k
    <3>1. i \in 1..Len(row) /\ k \in 1..Len(row) /\ row[i] = row[k] /\ row[i] \in Nat
      BY <1>2, <2>1, <2>3
    <3>2. ~ (row[i] < row[k]) /\ ~ (row[k] < row[i])
      BY <3>1
    <3>3. ~ (i < k) /\ ~ (k < i)
      BY <1>4, <3>1, <3>2
    <3> QED BY <3>3
  <2>4. ASSUME NEW d \in left PROVE \E i \in 1..(j - 1) : to[i] = d
    <3>1. PICK i \in 1..Len(row) : d = <<u, row[i]>>
      BY <1>5
    <3>2. row[i] < row[j] /\ row[i] \in Nat /\ row[j] \in Nat
      BY <1>2, <1>3, <3>1
    <3>3. ~ (row[j] < row[i]) /\ row[j] # row[i]
      BY <3>2
    <3>4. ~ (j < i) /\ j # i
      BY <1>3, <1>4, <3>3
    <3>5. i \in 1..(j - 1)
      BY <1>1, <1>3, <3>4
    <3> QED BY <3>1, <3>5
  <2> HIDE DEF to, left
  <2> QED BY <2>2, <2>3, <2>4 DEF Bijection, Injection, IsInjective, Surjection
<1>7. IsFiniteSet(left) /\ Cardinality(left) = j - 1
  <2>1. IsFiniteSet(1..(j - 1)) /\ Cardinality(1..(j - 1)) = j - 1
    BY <1>3, UpToIsFinite
  <2> HIDE DEF to, left
  <2> QED BY <1>6, <2>1, FS_Bijection DEF ExistsBijection
<1>8. {d \in es : Before(d, e)} = low \cup left /\ low \cap left = {}
  <2>1. \A d \in es : d[1] \in Nat
    BY EdgeSets
  <2> QED BY <1>3, <2>1 DEF Before
<1>9. IsFiniteSet(low) /\ Cardinality(low) = OffsetOf(es, u) /\ Cardinality(low) \in Nat
  BY EdgeSets, FS_Subset, FS_CardinalityType DEF OffsetOf
<1> HIDE DEF low, left
<1>10. Cardinality(low \cup left) = Cardinality(low) + Cardinality(left) - Cardinality(low \cap left)
  BY <1>7, <1>9, FS_Union
<1>11. Cardinality(low \cap left) = 0
  BY <1>8, FS_EmptySet
<1>12. Cardinality({d \in es : Before(d, e)}) = Cardinality(low \cup left)
  BY <1>8, Zenon
<1>13. e \in es
  BY <1>2, <1>3
<1> QED BY <1>3, <1>7, <1>9, <1>10, <1>11, <1>12, <1>13

\* from_edges makes the arrays of the edges.
LEMMA FromEdgesIsCsr == ASSUME NEW es \in SUBSET Edges PROVE IsCsr(FromEdges(es), es)
<1> DEFINE R == {p \in es \X es : Before(p[1], p[2])}
           nth(k) == CHOOSE e \in es : Cardinality({d \in es : Before(d, e)}) = k - 1
           c == FromEdges(es)
           n == Cardinality(es)
<1>1. IsFiniteSet(es) /\ n \in Nat
  BY EdgeSets
<1>2. \A d, e \in es : <<d, e>> \in R <=> Before(d, e)
  OBVIOUS
<1>3. \A e \in es : Rank(es, R, e) = Cardinality({d \in es : Before(d, e)})
  <2> TAKE e \in es
  <2>1. {d \in es : <<d, e>> \in R} = {d \in es : Before(d, e)}
    BY <1>2
  <2> HIDE DEF R
  <2> QED BY <2>1 DEF Rank
<1> HIDE DEF R
<1>4. Orders(es, R)
  <2>1. \A e \in es : e[1] \in Nat /\ e[2] \in Nat
    BY EdgeSets
  <2>2. \A d, e \in es : d[1] = e[1] /\ d[2] = e[2] => d = e
    BY EdgeSets
  <2>3. \A d, e \in es : d = e \/ Before(d, e) \/ Before(e, d)
    BY <2>1, <2>2 DEF Before
  <2>4. \A e \in es : ~ Before(e, e)
    BY <2>1 DEF Before
  <2>5. \A d, e, f \in es : Before(d, e) /\ Before(e, f) => Before(d, f)
    BY <2>1 DEF Before
  <2> QED BY <1>2, <2>3, <2>4, <2>5 DEF Orders
<1>5. /\ c = [offsets |-> [u \in 0..N |-> OffsetOf(es, u)], edges |-> c.edges]
      /\ c.edges = [k \in 1..n |-> nth(k)[2]]
  BY DEF FromEdges, OffsetOf
<1> HIDE DEF c
<1>6. ASSUME NEW e \in es, NEW k, Cardinality({d \in es : Before(d, e)}) = k - 1
      PROVE  nth(k) = e
  <2>1. nth(k) \in es /\ Cardinality({d \in es : Before(d, nth(k))}) = k - 1
    BY <1>6
  <2> HIDE DEF nth
  <2>2. Rank(es, R, nth(k)) = Rank(es, R, e)
    BY <1>3, <1>6, <2>1
  <2> QED BY <1>1, <1>4, <2>1, <2>2, RanksAreExact
<1>7. ASSUME NEW k \in 1..n PROVE nth(k)[2] \in Nat
  <2>1. RanksAreTaken(es, R)
    BY <1>1, <1>4, RanksAreExact
  <2>2. PICK e \in es : Rank(es, R, e) = k - 1
    BY <2>1 DEF RanksAreTaken
  <2>3. nth(k) = e
    <3> HIDE DEF nth
    <3> QED BY <1>3, <1>6, <2>2
  <2> HIDE DEF nth
  <2> QED BY <2>3, EdgeSets
<1> HIDE DEF nth
<1>8. c.edges \in Seq(Nat) /\ Len(c.edges) = n
  <2> HIDE DEF n
  <2> QED BY <1>1, <1>5, <1>7
<1>9. ASSUME NEW u \in Vertices, NEW j \in 1..Len(RowOf(es, u))
      PROVE  c.edges[OffsetOf(es, u) + j] = RowOf(es, u)[j]
  <2> DEFINE e == <<u, RowOf(es, u)[j]>>
             k == OffsetOf(es, u) + j
  <2>1. e \in es /\ Cardinality({d \in es : Before(d, e)}) = OffsetOf(es, u) + (j - 1)
    BY RankOfEdge
  <2>2. /\ OffsetOf(es, u) \in Nat /\ Len(RowOf(es, u)) \in Nat
        /\ OffsetOf(es, u) + Len(RowOf(es, u)) = OffsetOf(es, u + 1)
        /\ OffsetOf(es, u + 1) <= n
    <3>1. u \in 0..N /\ u + 1 \in 0..N
      BY NumberOfVerticesIsNat DEF Vertices
    <3> QED BY <3>1, RowLists, OffsetsAddUp
  <2> HIDE DEF n
  <2>3. k \in 1..n /\ OffsetOf(es, u) + (j - 1) = k - 1
    BY <1>1, <2>2
  <2>4. e[2] = RowOf(es, u)[j]
    OBVIOUS
  <2> HIDE DEF e, k
  <2>5. nth(k) = e
    BY <1>6, <2>1, <2>3
  <2>6. c.edges[k] = e[2]
    BY <1>5, <2>3, <2>5
  <2> QED BY <2>4, <2>6 DEF k
<1> QED BY <1>5, <1>8, <1>9 DEF IsCsr, c, n

\* So the arrays of a set of edges are what from_edges makes of them.
LEMMA CsrIs ==
  ASSUME NEW es \in SUBSET Edges, NEW c, IsCsr(c, es)
  PROVE  c = FromEdges(es)
BY FromEdgesIsCsr, CsrIsUnique

\* A slice between two offsets is a row.
LEMMA SliceIsRow ==
  ASSUME NEW es \in SUBSET Edges, NEW c, IsCsr(c, es), NEW u \in Vertices
  PROVE  CsrRow(c, u) = RowOf(es, u)
<1> DEFINE a == OffsetOf(es, u)
           row == RowOf(es, u)
<1>1. u \in 0..N /\ u + 1 \in 0..N
  BY NumberOfVerticesIsNat DEF Vertices
<1>2. /\ a \in Nat /\ Len(row) \in Nat /\ row \in Seq(Nat)
      /\ a + Len(row) = OffsetOf(es, u + 1) /\ OffsetOf(es, u + 1) <= Cardinality(es)
      /\ Cardinality(es) \in Nat
  BY <1>1, RowLists, ListedIsFinite, OffsetsAddUp, EdgeSets
<1>3. c.offsets[u] = a /\ c.offsets[u + 1] = a + Len(row)
  <2>1. c.offsets[u] = OffsetOf(es, u) /\ c.offsets[u + 1] = OffsetOf(es, u + 1)
    BY <1>1, CsrOffsets
  <2> QED BY <1>2, <2>1
<1>4. /\ c.edges \in Seq(Nat) /\ Len(c.edges) = Cardinality(es)
      /\ \A j \in 1..Len(row) : c.edges[a + j] = row[j]
  BY DEF IsCsr
<1>5. CsrRow(c, u) = SubSeq(c.edges, a + 1, a + Len(row))
  BY <1>3 DEF CsrRow
<1> HIDE DEF a, row
<1>6. SubSeq(c.edges, a + 1, a + Len(row)) = [j \in 1..Len(row) |-> c.edges[a + j]]
  <2>1. /\ SubSeq(c.edges, a + 1, a + Len(row)) \in Seq(Nat)
        /\ Len(SubSeq(c.edges, a + 1, a + Len(row))) = Len(row)
        /\ \A j \in 1..Len(row) :
             SubSeq(c.edges, a + 1, a + Len(row))[j] = c.edges[a + j]
    BY <1>2, <1>4, SliceOfSeq
  <2> QED BY <1>2, <2>1
<1>7. row = [j \in 1..Len(row) |-> row[j]]
  BY <1>2
<1> QED BY <1>4, <1>5, <1>6, <1>7 DEF row

-----------------------------------------------------------------------------
(* Inserting into a row and removing from it *)

\* Binary search splits what is left of a sorted row.
LEMMA PartitionPointSplits ==
  ASSUME NEW row, Increasing(row), NEW from \in 0..Len(row), NEW v \in Nat
  PROVE  /\ PartitionPoint(row, from, v) \in from..Len(row)
         /\ \A i \in (from + 1)..PartitionPoint(row, from, v) : row[i] < v
         /\ \A i \in (PartitionPoint(row, from, v) + 1)..Len(row) : ~ (row[i] < v)
<1> DEFINE below == {i \in from + 1..Len(row) : row[i] < v}
           missing == {i \in (from + 1)..(Len(row) + 1) : i \notin below}
<1>1. /\ Len(row) \in Nat /\ from \in Nat /\ from <= Len(row)
      /\ \A i \in 1..Len(row) : row[i] \in Nat
      /\ \A i, j \in 1..Len(row) : i < j => row[i] < row[j]
  BY DEF Increasing
<1>2. Len(row) + 1 \in missing
  BY <1>1
<1>3. PICK q \in missing : \A i \in missing : q <= i
  <2>1. missing \subseteq Nat
    BY <1>1
  <2> HIDE DEF missing
  <2> QED BY <1>2, <2>1, MinExists
<1>4. q \in (from + 1)..(Len(row) + 1) /\ q \notin below
  OBVIOUS
<1>5. \A i \in (from + 1)..(q - 1) : i \in below
  <2> TAKE i \in (from + 1)..(q - 1)
  <2>1. i \in (from + 1)..(Len(row) + 1) /\ ~ (q <= i)
    BY <1>1, <1>4
  <2>2. i \notin missing
    <3> HIDE DEF missing
    <3> QED BY <1>3, <2>1
  <2> QED BY <2>1, <2>2
<1> HIDE DEF missing
<1>6. ASSUME NEW i \in q..Len(row) PROVE ~ (row[i] < v)
  <2>1. q \in 1..Len(row) /\ i \in 1..Len(row) /\ ~ (row[q] < v)
    BY <1>1, <1>4
  <2>2. q = i \/ row[q] < row[i]
    BY <1>1, <2>1
  <2> QED BY <1>1, <2>1, <2>2
<1>7. below = (from + 1)..(q - 1)
  <2>1. \A i \in below : i \in (from + 1)..(q - 1)
    BY <1>1, <1>4, <1>6
  <2> HIDE DEF below
  <2> QED BY <1>5, <2>1
<1>8. Cardinality((from + 1)..(q - 1)) = (q - 1) - from
  <2>1. from + 1 \in Int /\ q - 1 \in Int
    BY <1>1, <1>4
  <2>2. Cardinality((from + 1)..(q - 1)) =
          IF from + 1 > q - 1 THEN 0 ELSE (q - 1) - (from + 1) + 1
    BY <2>1, FS_Interval
  <2> QED BY <1>1, <1>4, <2>2
<1>9. PartitionPoint(row, from, v) = from + Cardinality(below)
  BY DEF PartitionPoint
<1>10. Cardinality(below) = (q - 1) - from
  <2> HIDE DEF below
  <2> QED BY <1>7, <1>8
<1> HIDE DEF below
<1>11. PartitionPoint(row, from, v) = q - 1
  BY <1>1, <1>4, <1>9, <1>10
<1>12. q - 1 \in from..Len(row) /\ (q - 1) + 1 = q
  BY <1>1, <1>4
<1>13. \A i \in (from + 1)..(q - 1) : row[i] < v
  BY <1>5 DEF below
<1> QED BY <1>6, <1>11, <1>12, <1>13

\* Where a number belongs in a sorted row.
LEMMA PositionSplits ==
  ASSUME NEW row, Increasing(row), NEW v \in Nat
  PROVE  /\ Position(row, v) \in 1..(Len(row) + 1)
         /\ \A i \in 1..(Position(row, v) - 1) : row[i] < v
         /\ \A i \in Position(row, v)..Len(row) : ~ (row[i] < v)
<1> DEFINE p == PartitionPoint(row, 0, v)
<1>1. Len(row) \in Nat /\ DOMAIN row = 0 + 1..Len(row)
  BY DEF Increasing
<1>2. 0 \in 0..Len(row)
  BY <1>1
<1>3. /\ p \in 0..Len(row)
      /\ \A i \in (0 + 1)..p : row[i] < v
      /\ \A i \in (p + 1)..Len(row) : ~ (row[i] < v)
  BY <1>2, PartitionPointSplits
<1>4. Cardinality({i \in DOMAIN row : row[i] < v}) = Cardinality({i \in 0 + 1..Len(row) : row[i] < v})
  BY <1>1
<1>5. Position(row, v) = p + 1
  <2> DEFINE n == Cardinality({i \in 0 + 1..Len(row) : row[i] < v})
  <2>1. p = 0 + n /\ Position(row, v) = 1 + n
    BY <1>4 DEF Position, PartitionPoint
  <2> HIDE DEF n, p
  <2>2. n \in Nat
    <3>1. IsFiniteSet(0 + 1..Len(row))
      BY <1>1, FS_Interval
    <3>2. {i \in 0 + 1..Len(row) : row[i] < v} \in SUBSET (0 + 1..Len(row))
      OBVIOUS
    <3>3. IsFiniteSet({i \in 0 + 1..Len(row) : row[i] < v})
      BY <3>1, <3>2, FS_Subset
    <3> QED BY <3>3, FS_CardinalityType DEF n
  <2> QED BY <2>1, <2>2
<1> HIDE DEF p
<1>6. p \in Nat /\ (p + 1) - 1 = p
  BY <1>1, <1>3
<1> QED BY <1>1, <1>3, <1>5, <1>6

\* What one sequence after the other is.
Joins(s, t, r) ==
  /\ Len(r) = Len(s) + Len(t)
  /\ \A k \in 1..Len(s) : r[k] = s[k]
  /\ \A k \in 1..Len(t) : r[Len(s) + k] = t[k]

\* The joined sequence, place by place.
LEMMA JoinOfSeqs ==
  ASSUME NEW V, NEW s \in Seq(V), NEW t \in Seq(V)
  PROVE  s \o t \in Seq(V) /\ Joins(s, t, s \o t)
<1>1. /\ s \o t \in Seq(V) /\ Len(s \o t) = Len(s) + Len(t)
      /\ \A k \in 1..(Len(s) + Len(t)) : (s \o t)[k] = IF k <= Len(s) THEN s[k] ELSE t[k - Len(s)]
  BY ConcatProperties
<1>2. \A k \in 1..Len(s) : k \in 1..(Len(s) + Len(t)) /\ k <= Len(s)
  OBVIOUS
<1>3. \A k \in 1..Len(t) : /\ Len(s) + k \in 1..(Len(s) + Len(t)) /\ ~ (Len(s) + k <= Len(s))
                           /\ Len(s) + k - Len(s) = k
  OBVIOUS
<1> QED BY <1>1, <1>2, <1>3 DEF Joins

\* What a sequence is after an insertion.
Inserts(s, i, x, r) ==
  /\ Len(r) = Len(s) + 1 /\ r[i] = x
  /\ \A k \in 1..(i - 1) : r[k] = s[k]
  /\ \A k \in i..Len(s) : r[k + 1] = s[k]

\* Vec::insert, place by place.
LEMMA InsertedSeq ==
  ASSUME NEW V, NEW s \in Seq(V), NEW i \in 1..(Len(s) + 1), NEW x \in V
  PROVE  InsertAt(s, i, x) \in Seq(V) /\ Inserts(s, i, x, InsertAt(s, i, x))
<1> DEFINE a == SubSeq(s, 1, i - 1)
           b == SubSeq(s, i, Len(s))
<1>1. Len(s) \in Nat /\ i \in Nat /\ i - 1 \in Nat /\ i - 1 <= Len(s)
  OBVIOUS
<1>2. /\ a \in Seq(V) /\ Len(a) = i - 1
      /\ \A k \in 1..(i - 1) : a[k] = s[k]
  <2>1. /\ SubSeq(s, 0 + 1, i - 1) \in Seq(V) /\ Len(SubSeq(s, 0 + 1, i - 1)) = (i - 1) - 0
        /\ \A k \in 1..((i - 1) - 0) : SubSeq(s, 0 + 1, i - 1)[k] = s[0 + k]
    BY <1>1, SliceOfSeq
  <2>2. 0 + 1 = 1 /\ (i - 1) - 0 = i - 1 /\ \A k \in 1..(i - 1) : 0 + k = k
    BY <1>1
  <2> QED BY <2>1, <2>2
<1>3. /\ b \in Seq(V) /\ Len(b) = Len(s) - (i - 1)
      /\ \A k \in 1..(Len(s) - (i - 1)) : b[k] = s[(i - 1) + k]
  <2>1. /\ SubSeq(s, (i - 1) + 1, Len(s)) \in Seq(V)
        /\ Len(SubSeq(s, (i - 1) + 1, Len(s))) = Len(s) - (i - 1)
        /\ \A k \in 1..(Len(s) - (i - 1)) : SubSeq(s, (i - 1) + 1, Len(s))[k] = s[(i - 1) + k]
    BY <1>1, SliceOfSeq
  <2>2. (i - 1) + 1 = i
    BY <1>1
  <2> QED BY <2>1, <2>2
<1>4. InsertAt(s, i, x) = a \o <<x>> \o b
  BY DEF InsertAt
<1> HIDE DEF a, b
<1>5. /\ a \o <<x>> \o b \in Seq(V) /\ Len(a \o <<x>> \o b) = Len(s) + 1
      /\ \A k \in 1..(i - 1) : (a \o <<x>> \o b)[k] = a[k]
      /\ (a \o <<x>> \o b)[i] = x
      /\ \A k \in i..Len(s) : (a \o <<x>> \o b)[k + 1] = b[k - (i - 1)]
  <2> DEFINE ax == a \o <<x>>
  <2>1. /\ ax \in Seq(V) /\ Len(ax) = i /\ ax[i] = x
        /\ \A k \in 1..(i - 1) : ax[k] = a[k]
    <3>1. <<x>> \in Seq(V) /\ Len(<<x>>) = 1 /\ <<x>>[1] = x
      OBVIOUS
    <3> QED BY <1>1, <1>2, <3>1
  <2> HIDE DEF ax
  <2>2. /\ ax \o b \in Seq(V) /\ Len(ax \o b) = Len(s) + 1
        /\ \A k \in 1..i : (ax \o b)[k] = ax[k]
        /\ \A k \in 1..Len(b) : (ax \o b)[i + k] = b[k]
    <3>1. /\ ax \o b \in Seq(V) /\ Len(ax \o b) = Len(ax) + Len(b)
          /\ \A k \in 1..Len(ax) : (ax \o b)[k] = ax[k]
          /\ \A k \in 1..Len(b) : (ax \o b)[Len(ax) + k] = b[k]
      BY <1>3, <2>1, JoinOfSeqs DEF Joins
    <3>2. Len(ax) = i /\ i + Len(b) = Len(s) + 1
      BY <1>1, <1>3, <2>1
    <3> QED BY <3>1, <3>2
  <2>3. \A k \in i..Len(s) : (ax \o b)[k + 1] = b[k - (i - 1)]
    <3> TAKE k \in i..Len(s)
    <3>1. k - (i - 1) \in 1..Len(b) /\ i + (k - (i - 1)) = k + 1
      BY <1>1, <1>3
    <3> QED BY <2>2, <3>1
  <2>4. i \in 1..i /\ \A k \in 1..(i - 1) : k \in 1..i
    BY <1>1
  <2> QED BY <2>1, <2>2, <2>3, <2>4 DEF ax
<1>6. \A k \in i..Len(s) : b[k - (i - 1)] = s[k]
  <2> TAKE k \in i..Len(s)
  <2>1. k - (i - 1) \in 1..(Len(s) - (i - 1)) /\ (i - 1) + (k - (i - 1)) = k
    BY <1>1
  <2> QED BY <1>3, <2>1
<1> QED BY <1>2, <1>4, <1>5, <1>6 DEF Inserts

\* And what it is after a removal.
Removes(s, i, r) ==
  /\ Len(r) = Len(s) - 1
  /\ \A k \in 1..(i - 1) : r[k] = s[k]
  /\ \A k \in i..(Len(s) - 1) : r[k] = s[k + 1]

\* Vec::remove, place by place.
LEMMA RemovedSeq ==
  ASSUME NEW V, NEW s \in Seq(V), NEW i \in 1..Len(s)
  PROVE  RemoveAt(s, i) \in Seq(V) /\ Removes(s, i, RemoveAt(s, i))
<1> DEFINE a == SubSeq(s, 1, i - 1)
           b == SubSeq(s, i + 1, Len(s))
<1>1. Len(s) \in Nat /\ i \in Nat /\ i - 1 \in Nat /\ i - 1 <= Len(s) /\ i <= Len(s)
  OBVIOUS
<1>2. /\ a \in Seq(V) /\ Len(a) = i - 1
      /\ \A k \in 1..(i - 1) : a[k] = s[k]
  <2>1. /\ SubSeq(s, 0 + 1, i - 1) \in Seq(V) /\ Len(SubSeq(s, 0 + 1, i - 1)) = (i - 1) - 0
        /\ \A k \in 1..((i - 1) - 0) : SubSeq(s, 0 + 1, i - 1)[k] = s[0 + k]
    BY <1>1, SliceOfSeq
  <2>2. 0 + 1 = 1 /\ (i - 1) - 0 = i - 1 /\ \A k \in 1..(i - 1) : 0 + k = k
    BY <1>1
  <2> QED BY <2>1, <2>2
<1>3. /\ b \in Seq(V) /\ Len(b) = Len(s) - i
      /\ \A k \in 1..(Len(s) - i) : b[k] = s[i + k]
  BY <1>1, SliceOfSeq
<1>4. RemoveAt(s, i) = a \o b
  BY DEF RemoveAt
<1> HIDE DEF a, b
<1>5. /\ a \o b \in Seq(V) /\ Len(a \o b) = Len(s) - 1
      /\ \A k \in 1..(i - 1) : (a \o b)[k] = a[k]
      /\ \A k \in i..(Len(s) - 1) : (a \o b)[k] = b[k - (i - 1)]
  <2>1. /\ a \o b \in Seq(V) /\ Len(a \o b) = Len(s) - 1
        /\ \A k \in 1..(i - 1) : (a \o b)[k] = a[k]
        /\ \A k \in 1..Len(b) : (a \o b)[(i - 1) + k] = b[k]
    <3>1. /\ a \o b \in Seq(V) /\ Len(a \o b) = Len(a) + Len(b)
          /\ \A k \in 1..Len(a) : (a \o b)[k] = a[k]
          /\ \A k \in 1..Len(b) : (a \o b)[Len(a) + k] = b[k]
      <4>1. a \in Seq(V) /\ b \in Seq(V)
        BY <1>2, <1>3
      <4>2. a \o b \in Seq(V) /\ Joins(a, b, a \o b)
        BY <4>1, JoinOfSeqs
      <4> QED BY <4>2 DEF Joins
    <3>2. Len(a) = i - 1 /\ Len(b) = Len(s) - i
      BY <1>2, <1>3
    <3>3. Len(a) + Len(b) = Len(s) - 1
      BY <1>1, <3>2
    <3> QED BY <1>2, <3>1, <3>2, <3>3
  <2>2. \A k \in i..(Len(s) - 1) : (a \o b)[k] = b[k - (i - 1)]
    <3> TAKE k \in i..(Len(s) - 1)
    <3>1. k - (i - 1) \in 1..Len(b) /\ (i - 1) + (k - (i - 1)) = k
      BY <1>1, <1>3
    <3> QED BY <2>1, <3>1
  <2> QED BY <2>1, <2>2
<1>6. \A k \in i..(Len(s) - 1) : b[k - (i - 1)] = s[k + 1]
  <2> TAKE k \in i..(Len(s) - 1)
  <2>1. k - (i - 1) \in 1..(Len(s) - i) /\ i + (k - (i - 1)) = k + 1
    BY <1>1
  <2> QED BY <1>3, <2>1
<1> QED BY <1>2, <1>4, <1>5, <1>6 DEF Removes

\* What it means to list a set, spelled out.
Listing(S, row, n) ==
  /\ n \in Nat /\ Len(row) = n /\ row \in Seq(Nat) /\ \A i \in 1..n : row[i] \in Nat
  /\ \A i, j \in 1..n : i < j => row[i] < row[j]
  /\ S = {row[i] : i \in 1..n}

\* Every sorted list of a set has these facts.
LEMMA ListsMeans ==
  ASSUME NEW S, NEW row, Lists(row, S)
  PROVE  Listing(S, row, Len(row))
<1>1. row \in Seq(Nat) /\ \A i, j \in 1..Len(row) : i < j => row[i] < row[j]
  BY DEF Lists, Increasing
<1>2. S = {row[i] : i \in 1..Len(row)}
  BY DEF Lists
<1> QED BY <1>1, <1>2 DEF Listing

\* An insertion where binary search says keeps a row sorted.
LEMMA InsertedRow ==
  ASSUME NEW S, NEW row, Lists(row, S), NEW v \in Nat \ S
  PROVE  Lists(InsertAt(row, Position(row, v), v), S \cup {v})
<1> DEFINE p == Position(row, v)
           new == InsertAt(row, p, v)
           n == Len(row)
<1>1. /\ n \in Nat /\ row \in Seq(Nat) /\ \A i \in 1..n : row[i] \in Nat
      /\ \A i, j \in 1..n : i < j => row[i] < row[j]
      /\ S = {row[i] : i \in 1..n}
  BY ListsMeans DEF Listing, n
<1>2. /\ p \in 1..(n + 1)
      /\ \A i \in 1..(p - 1) : row[i] < v
      /\ \A i \in p..n : ~ (row[i] < v)
  BY PositionSplits DEF Lists
<1> HIDE DEF p
<1>3. /\ new \in Seq(Nat) /\ Len(new) = n + 1 /\ new[p] = v
      /\ \A k \in 1..(p - 1) : new[k] = row[k]
      /\ \A k \in p..n : new[k + 1] = row[k]
  <2>1. v \in Nat
    OBVIOUS
  <2>2. new \in Seq(Nat) /\ Inserts(row, p, v, new)
    BY <1>1, <1>2, <2>1, InsertedSeq DEF n, new
  <2> HIDE DEF new
  <2> QED BY <2>2 DEF Inserts, n
<1> HIDE DEF new, n
<1>4. \A i \in p..n : v < row[i]
  <2> TAKE i \in p..n
  <2>1. i \in 1..n
    BY <1>1, <1>2
  <2>2. row[i] \in S /\ row[i] \in Nat
    BY <1>1, <2>1
  <2> QED BY <1>2, <2>2
<1>5. ASSUME NEW i \in 1..(n + 1)
      PROVE  \/ i \in 1..(p - 1) /\ i \in 1..n
             \/ i = p
             \/ i - 1 \in p..n /\ i - 1 \in 1..n /\ new[i] = row[i - 1]
  <2>1. CASE i > p
    <3>1. i - 1 \in p..n /\ i - 1 \in 1..n /\ (i - 1) + 1 = i
      BY <1>1, <1>2, <2>1
    <3> QED BY <1>3, <3>1
  <2>2. CASE i < p
    BY <1>1, <1>2, <2>2
  <2> QED BY <1>1, <1>2, <2>1, <2>2
<1>6. ASSUME NEW i \in 1..(n + 1), NEW j \in 1..(n + 1), i < j PROVE new[i] < new[j]
  <2>1. CASE i \in 1..(p - 1) /\ i \in 1..n
    <3>1. CASE j \in 1..(p - 1) /\ j \in 1..n
      BY <1>1, <1>3, <1>6, <2>1, <3>1
    <3>2. CASE j = p
      BY <1>2, <1>3, <2>1, <3>2
    <3>3. CASE j - 1 \in p..n /\ j - 1 \in 1..n /\ new[j] = row[j - 1]
      <4>1. i < j - 1
        BY <1>1, <1>2, <2>1, <3>3
      <4> QED BY <1>1, <1>3, <2>1, <3>3, <4>1
    <3> QED BY <1>5, <3>1, <3>2, <3>3
  <2>2. CASE i = p
    <3>1. j - 1 \in p..n /\ new[j] = row[j - 1]
      BY <1>2, <1>5, <1>6, <2>2
    <3> QED BY <1>3, <1>4, <2>2, <3>1
  <2>3. CASE i - 1 \in p..n /\ i - 1 \in 1..n /\ new[i] = row[i - 1]
    <3>1. j - 1 \in p..n /\ j - 1 \in 1..n /\ new[j] = row[j - 1] /\ i - 1 < j - 1
      BY <1>1, <1>2, <1>5, <1>6, <2>3
    <3> QED BY <1>1, <2>3, <3>1
  <2> QED BY <1>5, <2>1, <2>2, <2>3
<1>7. ASSUME NEW x PROVE x \in S \cup {v} <=> \E i \in 1..(n + 1) : new[i] = x
  <2>1. ASSUME NEW i \in 1..n PROVE \E j \in 1..(n + 1) : new[j] = row[i]
    <3>1. CASE i < p
      <4>1. i \in 1..(p - 1) /\ i \in 1..(n + 1)
        BY <1>1, <1>2, <3>1
      <4> QED BY <1>3, <4>1
    <3>2. CASE ~ (i < p)
      <4>1. i \in p..n /\ i + 1 \in 1..(n + 1)
        BY <1>1, <1>2, <3>2
      <4> QED BY <1>3, <4>1
    <3> QED BY <3>1, <3>2
  <2>2. ASSUME NEW i \in 1..(n + 1) PROVE new[i] \in S \cup {v}
    BY <1>1, <1>3, <1>5
  <2>3. ASSUME x \in S \cup {v} PROVE \E i \in 1..(n + 1) : new[i] = x
    <3>1. CASE x = v
      BY <1>2, <1>3, <3>1
    <3>2. CASE x \in S
      <4>1. PICK i \in 1..n : row[i] = x
        BY <1>1, <3>2
      <4> QED BY <2>1, <4>1
    <3> QED BY <2>3, <3>1, <3>2
  <2> QED BY <2>2, <2>3
<1>8. S \cup {v} = {new[i] : i \in 1..(n + 1)}
  BY <1>7
<1> QED BY <1>3, <1>6, <1>8 DEF Lists, Increasing, new, p, n

\* And so does a removal.
LEMMA RemovedRow ==
  ASSUME NEW S, NEW row, Lists(row, S), NEW v \in S
  PROVE  /\ Position(row, v) \in 1..Len(row) /\ row[Position(row, v)] = v
         /\ Lists(RemoveAt(row, Position(row, v)), S \ {v})
<1> DEFINE p == Position(row, v)
           new == RemoveAt(row, p)
           n == Len(row)
<1>1. /\ n \in Nat /\ row \in Seq(Nat) /\ \A i \in 1..n : row[i] \in Nat
      /\ \A i, j \in 1..n : i < j => row[i] < row[j]
      /\ S = {row[i] : i \in 1..n}
  BY ListsMeans DEF Listing, n
<1>2. v \in Nat
  BY <1>1
<1>3. /\ p \in 1..(n + 1)
      /\ \A i \in 1..(p - 1) : row[i] < v
      /\ \A i \in p..n : ~ (row[i] < v)
  BY <1>2, PositionSplits DEF Lists
<1> HIDE DEF p, n
<1>4. p \in 1..n /\ row[p] = v
  <2>1. PICK i \in 1..n : row[i] = v
    BY <1>1
  <2>2. ~ (i < p)
    BY <1>1, <1>2, <1>3, <2>1
  <2>3. p \in 1..n /\ ~ (row[p] < v) /\ row[p] \in Nat
    BY <1>1, <1>3, <2>2
  <2>4. ~ (p < i)
    BY <1>1, <2>1, <2>3
  <2> QED BY <1>3, <2>1, <2>2, <2>4
<1>5. /\ new \in Seq(Nat) /\ Len(new) = n - 1
      /\ \A k \in 1..(p - 1) : new[k] = row[k]
      /\ \A k \in p..(n - 1) : new[k] = row[k + 1]
  BY <1>1, <1>4, RemovedSeq DEF n, new, Removes
<1> HIDE DEF new
<1>6. ASSUME NEW i \in 1..(n - 1)
      PROVE  \/ i \in 1..(p - 1) /\ i \in 1..n /\ new[i] = row[i]
             \/ i \in p..(n - 1) /\ i + 1 \in 1..n /\ new[i] = row[i + 1]
  <2>1. CASE i < p
    <3>1. i \in 1..(p - 1) /\ i \in 1..n
      BY <1>1, <1>4, <2>1
    <3> QED BY <1>5, <3>1
  <2>2. CASE ~ (i < p)
    <3>1. i \in p..(n - 1) /\ i + 1 \in 1..n
      BY <1>1, <1>4, <2>2
    <3> QED BY <1>5, <3>1
  <2> QED BY <2>1, <2>2
<1>7. ASSUME NEW i \in 1..(n - 1), NEW j \in 1..(n - 1), i < j PROVE new[i] < new[j]
  <2> DEFINE a == IF i < p THEN i ELSE i + 1
             b == IF j < p THEN j ELSE j + 1
  <2>1. a \in 1..n /\ b \in 1..n /\ a < b /\ new[i] = row[a] /\ new[j] = row[b]
    BY <1>1, <1>4, <1>6, <1>7
  <2> HIDE DEF a, b
  <2> QED BY <1>1, <2>1
<1>8. ASSUME NEW x PROVE x \in S \ {v} <=> \E i \in 1..(n - 1) : new[i] = x
  <2>1. ASSUME NEW i \in 1..n, row[i] # v PROVE \E j \in 1..(n - 1) : new[j] = row[i]
    <3>1. CASE i < p
      <4>1. i \in 1..(p - 1) /\ i \in 1..(n - 1)
        BY <1>1, <1>4, <3>1
      <4> QED BY <1>5, <4>1
    <3>2. CASE ~ (i < p)
      <4>1. i # p
        BY <1>4, <2>1
      <4>2. i - 1 \in p..(n - 1) /\ i - 1 \in 1..(n - 1) /\ (i - 1) + 1 = i
        BY <1>1, <1>4, <3>2, <4>1
      <4> QED BY <1>5, <4>2
    <3> QED BY <3>1, <3>2
  <2>2. ASSUME NEW i \in 1..(n - 1) PROVE new[i] \in S /\ new[i] # v
    <3>1. CASE i \in 1..(p - 1) /\ i \in 1..n /\ new[i] = row[i]
      <4>1. row[i] < row[p]
        BY <1>1, <1>4, <3>1
      <4> QED BY <1>1, <1>4, <3>1, <4>1
    <3>2. CASE i \in p..(n - 1) /\ i + 1 \in 1..n /\ new[i] = row[i + 1]
      <4>1. row[p] < row[i + 1]
        BY <1>1, <1>4, <3>2
      <4> QED BY <1>1, <1>4, <3>2, <4>1
    <3> QED BY <1>6, <3>1, <3>2
  <2> QED BY <1>1, <2>1, <2>2
<1>9. S \ {v} = {new[i] : i \in 1..(n - 1)}
  BY <1>8
<1>10. Increasing(new)
  BY <1>5, <1>7 DEF Increasing
<1> QED BY <1>4, <1>5, <1>9, <1>10 DEF Lists, new, p, n

-----------------------------------------------------------------------------
(* Loops over a sequence: a fold is the last state of a run *)

\* Counting up from 0.
LEMMA CountUp ==
  ASSUME NEW len \in Nat, NEW S, 0 \in S, \A k \in 1..len : k - 1 \in S => k \in S
  PROVE  0..len \subseteq S
<1> DEFINE bad == {k \in 0..len : k \notin S}
<1>1. bad = {}
  <2> SUFFICES ASSUME bad # {} PROVE FALSE
    OBVIOUS
  <2>1. PICK k \in bad : \A j \in bad : k <= j
    <3>1. bad \subseteq Nat
      OBVIOUS
    <3> HIDE DEF bad
    <3> QED BY <3>1, MinExists
  <2>2. k # 0 /\ k \in 0..len /\ k \notin S
    OBVIOUS
  <2>3. k \in 1..len /\ k - 1 \in 0..len /\ ~ (k <= k - 1)
    BY <2>2
  <2>4. k - 1 \in S
    BY <2>1, <2>3
  <2> QED BY <2>2, <2>3, <2>4
<1> QED BY <1>1

\* The recursion behind a fold over len positions, which takes the greatest
\* position last, has a solution.
SolvesFold(g, len, base, step) ==
  \A s \in SUBSET (1..len) :
    g[s] = IF s = {} THEN base ELSE step[<<g[s \ {Max(s)}], Max(s)>>]

\* It exists: by the smallest length for which it would not.
LEMMA FoldExists ==
  ASSUME NEW len \in Nat, NEW A, NEW base \in A, NEW step \in [A \X (1..len) -> A]
  PROVE  \E g \in [SUBSET (1..len) -> A] : SolvesFold(g, len, base, step)
<1> DEFINE S == {n \in 0..len : \E g \in [SUBSET (1..n) -> A] : SolvesFold(g, n, base, step)}
<1>1. 0 \in S
  <2>1. SUBSET (1..0) = {{}}
    OBVIOUS
  <2>2. [s \in SUBSET (1..0) |-> base] \in [SUBSET (1..0) -> A]
    OBVIOUS
  <2>3. SolvesFold([s \in SUBSET (1..0) |-> base], 0, base, step)
    BY <2>1 DEF SolvesFold
  <2> QED BY <2>2, <2>3
<1>2. ASSUME NEW n \in 1..len, n - 1 \in S PROVE n \in S
  <2>1. PICK g \in [SUBSET (1..(n - 1)) -> A] : SolvesFold(g, n - 1, base, step)
    BY <1>2
  <2> DEFINE h == [s \in SUBSET (1..n) |-> IF n \in s THEN step[<<g[s \ {n}], n>>] ELSE g[s]]
  <2>2. \A s \in SUBSET (1..n) :
           /\ s \ {n} \in SUBSET (1..(n - 1))
           /\ n \notin s => s \in SUBSET (1..(n - 1))
    <3>1. 1..n = (1..(n - 1)) \cup {n}
      OBVIOUS
    <3> QED BY <3>1
  <2>3. h \in [SUBSET (1..n) -> A]
    BY <2>2
  <2>4. ASSUME NEW s \in SUBSET (1..n)
        PROVE  h[s] = IF s = {} THEN base ELSE step[<<h[s \ {Max(s)}], Max(s)>>]
    <3>1. CASE n \in s
      <4>1. Max(s) = n
        <5>1. \A x \in s : x \in Int /\ n >= x
          OBVIOUS
        <5>2. \A x \in s : (\A y \in s : x >= y) => x = n
          BY <3>1, <5>1
        <5> QED BY <3>1, <5>1, <5>2 DEF Max
      <4>2. h[s \ {n}] = g[s \ {n}]
        BY <2>2
      <4> QED BY <3>1, <4>1, <4>2
    <3>2. CASE n \notin s
      <4>1. h[s] = g[s] /\ h[s \ {Max(s)}] = g[s \ {Max(s)}]
        BY <3>2
      <4>2. g[s] = IF s = {} THEN base ELSE step[<<g[s \ {Max(s)}], Max(s)>>]
        BY <2>1, <2>2, <3>2 DEF SolvesFold
      <4> QED BY <4>1, <4>2
    <3> QED BY <3>1, <3>2
  <2> HIDE DEF h
  <2>5. SolvesFold(h, n, base, step)
    BY <2>4 DEF SolvesFold
  <2> QED BY <2>3, <2>5
<1>3. 0..len \subseteq S
  <2> HIDE DEF S
  <2> QED BY <1>1, <1>2, CountUp
<1>4. len \in 0..len
  OBVIOUS
<1>5. len \in S
  <2> HIDE DEF S
  <2> QED BY <1>3, <1>4
<1> QED BY <1>5

\* The sets 1..k are those a fold goes through.
LEMMA InitialSegments ==
  ASSUME NEW len \in Nat, NEW k \in 1..len
  PROVE  /\ 1..k \in SUBSET (1..len) /\ 1..k # {}
         /\ Max(1..k) = k /\ (1..k) \ {k} = 1..(k - 1)
<1>1. k \in 1..k /\ \A x \in 1..k : k >= x
  OBVIOUS
<1>2. \A x \in 1..k : (\A y \in 1..k : x >= y) => x = k
  BY <1>1
<1>3. Max(1..k) = k
  BY <1>1, <1>2 DEF Max
<1>4. 1..k \in SUBSET (1..len) /\ 1..k # {}
  BY <1>1
<1>5. (1..k) \ {k} = 1..(k - 1)
  <2>1. \A x : x \in (1..k) \ {k} <=> x \in 1..(k - 1)
    OBVIOUS
  <2> QED BY <2>1
<1> QED BY <1>3, <1>4, <1>5

\* A nonempty set of positions has a greatest one.
LEMMA SubsetHasMax ==
  ASSUME NEW len \in Nat, NEW s \in SUBSET (1..len), s # {}
  PROVE  Max(s) \in s
<1> DEFINE T == {len - i : i \in s}
<1>1. T \subseteq Nat /\ T # {}
  <2>1. ASSUME NEW i \in 1..len PROVE len - i \in Nat
    OBVIOUS
  <2> QED BY <2>1
<1>2. PICK x \in T : \A y \in T : x <= y
  <2> HIDE DEF T
  <2> QED BY <1>1, MinExists
<1>3. PICK i \in s : x = len - i
  OBVIOUS
<1>4. ASSUME NEW j \in s PROVE i >= j
  <2>1. len - i <= len - j
    BY <1>2, <1>3
  <2>2. i \in 1..len /\ j \in 1..len
    OBVIOUS
  <2> HIDE DEF T
  <2> QED BY <2>1, <2>2
<1> QED BY <1>4 DEF Max

\* A run of a loop: its states, from the first to the last.
RunsTo(base, step, A, len, end) ==
  \E r \in [0..len -> A] :
    r[0] = base /\ r[len] = end /\ \A k \in 1..len : r[k] = step[<<r[k - 1], k>>]

\* What solves the recursion of a fold is a run on the sets 1..k.
LEMMA FoldIsRun ==
  ASSUME NEW len \in Nat, NEW A, NEW base \in A, NEW step \in [A \X (1..len) -> A],
         NEW fold, fold[{}] = base,
         \A s \in SUBSET (1..len) :
            s # {} /\ fold[s \ {Max(s)}] \in A => fold[s] = step[<<fold[s \ {Max(s)}], Max(s)>>]
  PROVE  RunsTo(base, step, A, len, fold[1..len])
<1> DEFINE r == [k \in 0..len |-> fold[1..k]]
           S == {k \in 0..len : r[k] \in A}
<1>1. r[0] = base
  <2>1. 1..0 = {} /\ r[0] = fold[1..0]
    OBVIOUS
  <2> QED BY <2>1
<1>2. ASSUME NEW k \in 1..len, r[k - 1] \in A
      PROVE  r[k] = step[<<r[k - 1], k>>] /\ r[k] \in A
  <2>1. 1..k \in SUBSET (1..len) /\ 1..k # {} /\ Max(1..k) = k /\ (1..k) \ {k} = 1..(k - 1)
    BY InitialSegments
  <2>2. r[k] = fold[1..k] /\ r[k - 1] = fold[1..(k - 1)]
    OBVIOUS
  <2>3. <<r[k - 1], k>> \in A \X (1..len)
    BY <1>2
  <2> HIDE DEF r
  <2>4. r[k] = step[<<r[k - 1], k>>]
    BY <1>2, <2>1, <2>2
  <2> QED BY <2>3, <2>4
<1>3. 0..len \subseteq S
  <2>1. 0 \in S
    BY <1>1
  <2>2. \A k \in 1..len : k - 1 \in S => k \in S
    <3> TAKE k \in 1..len
    <3> HAVE k - 1 \in S
    <3>1. r[k - 1] \in A
      OBVIOUS
    <3>2. r[k] \in A
      <4> HIDE DEF r
      <4> QED BY <1>2, <3>1
    <3> QED BY <3>2
  <2> HIDE DEF S
  <2> QED BY <2>1, <2>2, CountUp
<1>4. r = [k \in 0..len |-> r[k]] /\ r[len] = fold[1..len]
  OBVIOUS
<1>5. \A k \in 0..len : r[k] \in A
  <2> HIDE DEF r
  <2> QED BY <1>3
<1>6. \A k \in 1..len : r[k] = step[<<r[k - 1], k>>]
  <2>1. \A k \in 1..len : k - 1 \in 0..len
    OBVIOUS
  <2> HIDE DEF r, S
  <2> QED BY <1>2, <1>5, <2>1
<1> HIDE DEF r, S
<1>7. r \in [0..len -> A]
  BY <1>4, <1>5
<1> QED BY <1>1, <1>4, <1>6, <1>7 DEF RunsTo

-----------------------------------------------------------------------------
(* Building a sorted sequence from parts *)

\* The empty sequence lists the empty set.
LEMMA NothingIsListed == Lists(<<>>, {})
<1>1. <<>> \in Seq(Nat) /\ Len(<<>>) = 0
  OBVIOUS
<1>2. {<<>>[i] : i \in 1..Len(<<>>)} = {}
  BY <1>1
<1> QED BY <1>1, <1>2 DEF Lists, Increasing

\* One sorted sequence after another, if all of it is greater.
LEMMA JoinLists ==
  ASSUME NEW S, NEW s, Lists(s, S), NEW T, NEW t, Lists(t, T), \A x \in S, y \in T : x < y
  PROVE  Lists(s \o t, S \cup T)
<1> DEFINE n == Len(s)
           l == Len(t)
           r == s \o t
<1>1. /\ n \in Nat /\ s \in Seq(Nat) /\ \A i \in 1..n : s[i] \in Nat
      /\ \A i, j \in 1..n : i < j => s[i] < s[j]
      /\ S = {s[i] : i \in 1..n}
  BY ListsMeans DEF Listing
<1>2. /\ l \in Nat /\ t \in Seq(Nat) /\ \A i \in 1..l : t[i] \in Nat
      /\ \A i, j \in 1..l : i < j => t[i] < t[j]
      /\ T = {t[i] : i \in 1..l}
  BY ListsMeans DEF Listing
<1>3. r \in Seq(Nat) /\ Joins(s, t, r)
  BY <1>1, <1>2, JoinOfSeqs
<1> HIDE DEF r
<1>4. /\ Len(r) = n + l /\ \A k \in 1..n : r[k] = s[k]
      /\ \A k \in 1..l : r[n + k] = t[k]
  BY <1>3 DEF Joins
<1> HIDE DEF n, l
<1>5. ASSUME NEW i \in 1..(n + l)
      PROVE  \/ i \in 1..n /\ r[i] = s[i] /\ s[i] \in S
             \/ i - n \in 1..l /\ r[i] = t[i - n] /\ t[i - n] \in T
  <2>1. CASE i <= n
    <3>1. i \in 1..n
      BY <1>1, <1>2, <2>1
    <3> QED BY <1>1, <1>4, <3>1
  <2>2. CASE ~ (i <= n)
    <3>1. i - n \in 1..l /\ n + (i - n) = i
      BY <1>1, <1>2, <2>2
    <3>2. r[i] = t[i - n]
      BY <1>4, <3>1
    <3> QED BY <1>2, <3>1, <3>2
  <2> QED BY <2>1, <2>2
<1>6. ASSUME NEW i \in 1..(n + l), NEW j \in 1..(n + l), i < j PROVE r[i] < r[j]
  <2>1. CASE i \in 1..n /\ r[i] = s[i] /\ s[i] \in S
    <3>1. CASE j \in 1..n /\ r[j] = s[j]
      BY <1>1, <1>6, <2>1, <3>1
    <3>2. CASE r[j] = t[j - n] /\ t[j - n] \in T
      BY <2>1, <3>2
    <3> QED BY <1>5, <3>1, <3>2
  <2>2. CASE i - n \in 1..l /\ r[i] = t[i - n] /\ t[i - n] \in T
    <3>1. j \notin 1..n
      BY <1>1, <1>2, <1>6, <2>2
    <3>2. j - n \in 1..l /\ r[j] = t[j - n] /\ i - n < j - n
      BY <1>1, <1>2, <1>5, <1>6, <3>1
    <3> QED BY <1>2, <2>2, <3>2
  <2> QED BY <1>5, <2>1, <2>2
<1>7. S \cup T = {r[i] : i \in 1..(n + l)}
  <2>1. ASSUME NEW x \in S PROVE \E i \in 1..(n + l) : r[i] = x
    <3>1. PICK i \in 1..n : s[i] = x
      BY <1>1
    <3>2. i \in 1..(n + l)
      BY <1>1, <1>2
    <3> QED BY <1>4, <3>1, <3>2
  <2>2. ASSUME NEW x \in T PROVE \E i \in 1..(n + l) : r[i] = x
    <3>1. PICK i \in 1..l : t[i] = x
      BY <1>2
    <3>2. n + i \in 1..(n + l)
      BY <1>1, <1>2
    <3> QED BY <1>4, <3>1, <3>2
  <2>3. ASSUME NEW i \in 1..(n + l) PROVE r[i] \in S \cup T
    BY <1>5
  <2> QED BY <2>1, <2>2, <2>3
<1>8. Increasing(r)
  BY <1>3, <1>4, <1>6 DEF Increasing
<1> QED BY <1>4, <1>7, <1>8 DEF Lists, r

\* One greater number after a sorted sequence.
LEMMA AppendLists ==
  ASSUME NEW S, NEW s, Lists(s, S), NEW x \in Nat, \A y \in S : y < x
  PROVE  Lists(Append(s, x), S \cup {x})
<1>1. s \in Seq(Nat)
  BY DEF Lists, Increasing
<1>2. <<x>> \in Seq(Nat) /\ Len(<<x>>) = 1 /\ <<x>>[1] = x
  OBVIOUS
<1>3. Lists(<<x>>, {x})
  <2>1. 1..1 = {1}
    OBVIOUS
  <2>2. {<<x>>[i] : i \in 1..Len(<<x>>)} = {x}
    BY <1>2, <2>1
  <2>3. \A i, j \in 1..1 : ~ (i < j)
    BY <2>1
  <2> QED BY <1>2, <2>2, <2>3 DEF Lists, Increasing
<1>4. Lists(s \o <<x>>, S \cup {x})
  <2>1. \A y \in S, z \in {x} : y < z
    OBVIOUS
  <2> QED BY <1>3, <2>1, JoinLists
<1>5. Append(s, x) = s \o <<x>>
  BY <1>1
<1> QED BY <1>4, <1>5

\* A slice of a sorted sequence.
Values(row, a, b) == {row[i] : i \in (a + 1)..b}

\* It is sorted too, and lists the values at its places.
LEMMA SliceLists ==
  ASSUME NEW S, NEW row, Lists(row, S), NEW a \in Nat, NEW b \in Nat, a <= b, b <= Len(row)
  PROVE  Lists(SubSeq(row, a + 1, b), Values(row, a, b))
<1> DEFINE s == SubSeq(row, a + 1, b)
           n == Len(row)
<1>1. /\ n \in Nat /\ row \in Seq(Nat) /\ \A i \in 1..n : row[i] \in Nat
      /\ \A i, j \in 1..n : i < j => row[i] < row[j]
  BY ListsMeans DEF Listing
<1>2. s \in Seq(Nat) /\ Len(s) = b - a /\ \A j \in 1..(b - a) : s[j] = row[a + j]
  BY <1>1, SliceOfSeq
<1> HIDE DEF s
<1>3. \A i \in 1..(b - a) : a + i \in 1..n /\ a + i \in (a + 1)..b
  BY <1>1
<1> HIDE DEF n
<1>4. ASSUME NEW i \in 1..(b - a), NEW j \in 1..(b - a), i < j PROVE s[i] < s[j]
  <2>1. a + i < a + j
    BY <1>4
  <2> QED BY <1>1, <1>2, <1>3, <2>1
<1>5. {s[i] : i \in 1..(b - a)} = Values(row, a, b)
  <2>1. \A i \in (a + 1)..b : i - a \in 1..(b - a) /\ a + (i - a) = i
    OBVIOUS
  <2>2. ASSUME NEW i \in (a + 1)..b PROVE \E j \in 1..(b - a) : s[j] = row[i]
    BY <1>2, <2>1
  <2>3. ASSUME NEW j \in 1..(b - a) PROVE s[j] \in Values(row, a, b)
    BY <1>2, <1>3 DEF Values
  <2>4. ASSUME NEW x \in Values(row, a, b) PROVE \E j \in 1..(b - a) : s[j] = x
    BY <2>2 DEF Values
  <2> QED BY <2>3, <2>4
<1>6. Increasing(s)
  BY <1>2, <1>4 DEF Increasing
<1> QED BY <1>2, <1>5, <1>6 DEF Lists, s

\* Values one further, all of a row, and none of it.
LEMMA ValuesGrow ==
  ASSUME NEW row, NEW a \in Nat, NEW b \in Nat, a <= b
  PROVE  /\ Values(row, a, a) = {}
         /\ Values(row, a, b + 1) = Values(row, a, b) \cup {row[b + 1]}
         /\ Values(row, 0, b) = Values(row, 0, a) \cup Values(row, a, b)
<1>1. \A i : i \in (a + 1)..(b + 1) <=> i \in (a + 1)..b \/ i = b + 1
  OBVIOUS
<1>2. \A i : i \in (0 + 1)..b <=> i \in (0 + 1)..a \/ i \in (a + 1)..b
  OBVIOUS
<1>3. (a + 1)..a = {}
  OBVIOUS
<1>4. Values(row, a, b + 1) = Values(row, a, b) \cup {row[b + 1]}
  BY <1>1 DEF Values
<1>5. Values(row, 0, b) = Values(row, 0, a) \cup Values(row, a, b)
  BY <1>2 DEF Values
<1> QED BY <1>3, <1>4, <1>5 DEF Values

-----------------------------------------------------------------------------
(* Skipping tombstones *)

\* In a sorted sequence places follow values.
LEMMA PlacesFollowValues ==
  ASSUME NEW S, NEW row, Lists(row, S), NEW i \in 1..Len(row), NEW j \in 1..Len(row)
  PROVE  (row[i] < row[j] => i < j) /\ (row[i] = row[j] => i = j)
<1>1. /\ Len(row) \in Nat /\ \A k \in 1..Len(row) : row[k] \in Nat
      /\ \A k, l \in 1..Len(row) : k < l => row[k] < row[l]
  BY ListsMeans DEF Listing
<1>2. row[i] \in Nat /\ row[j] \in Nat /\ i \in Nat /\ j \in Nat
  BY <1>1
<1>3. i < j \/ i = j \/ j < i
  BY <1>2
<1>4. (i < j => row[i] < row[j]) /\ (j < i => row[j] < row[i])
  BY <1>1
<1> QED BY <1>2, <1>3, <1>4

\* d is the first tombstone that is not among the first k edges of a row.
Met(d, dels, row, k) ==
  /\ d \in 1..(Len(dels) + 1)
  /\ \A i \in 1..Len(dels) : i < d <=> dels[i] \in Values(row, 0, k)

\* An edge has a tombstone just if it is the next one.
LEMMA NextTombstone ==
  ASSUME NEW S, NEW row, Lists(row, S), NEW D \in SUBSET S, NEW dels, Lists(dels, D),
         NEW k \in 1..Len(row), NEW d, Met(d, dels, row, k - 1)
  PROVE  IF d <= Len(dels) /\ dels[d] = row[k]
           THEN row[k] \in D /\ Met(d + 1, dels, row, k)
           ELSE row[k] \notin D /\ Met(d, dels, row, k)
<1>1. /\ Len(row) \in Nat /\ \A i \in 1..Len(row) : row[i] \in Nat
      /\ \A i, j \in 1..Len(row) : i < j => row[i] < row[j]
      /\ S = {row[i] : i \in 1..Len(row)}
  <2>1. Listing(S, row, Len(row))
    BY ListsMeans
  <2> QED BY <2>1 DEF Listing
<1>2. /\ Len(dels) \in Nat /\ \A i \in 1..Len(dels) : dels[i] \in Nat
      /\ \A i, j \in 1..Len(dels) : i < j => dels[i] < dels[j]
      /\ D = {dels[i] : i \in 1..Len(dels)}
  BY ListsMeans DEF Listing
<1>3. /\ d \in 1..(Len(dels) + 1)
      /\ \A i \in 1..Len(dels) : i < d <=> dels[i] \in Values(row, 0, k - 1)
  BY DEF Met
<1>4. Values(row, 0, k) = Values(row, 0, k - 1) \cup {row[k]}
  <2>1. 0 \in Nat /\ k - 1 \in Nat /\ 0 <= k - 1 /\ (k - 1) + 1 = k
    BY <1>1
  <2>2. Values(row, 0, (k - 1) + 1) = Values(row, 0, k - 1) \cup {row[(k - 1) + 1]}
    BY <2>1, ValuesGrow
  <2> QED BY <2>1, <2>2
<1>5. \A q \in 1..Len(row) : row[q] < row[k] <=> row[q] \in Values(row, 0, k - 1)
  <2> TAKE q \in 1..Len(row)
  <2>1. ASSUME row[q] < row[k] PROVE row[q] \in Values(row, 0, k - 1)
    <3>1. q < k
      BY <2>1, PlacesFollowValues
    <3>2. q \in (0 + 1)..(k - 1)
      BY <1>1, <3>1
    <3> QED BY <3>2 DEF Values
  <2>2. ASSUME row[q] \in Values(row, 0, k - 1) PROVE row[q] < row[k]
    <3>1. PICK p \in (0 + 1)..(k - 1) : row[p] = row[q]
      BY <2>2 DEF Values
    <3>2. p \in 1..Len(row) /\ p < k
      BY <1>1
    <3> QED BY <1>1, <3>1, <3>2
  <2> QED BY <2>1, <2>2
<1>6. \A i \in 1..Len(dels) : i < d <=> dels[i] < row[k]
  <2> TAKE i \in 1..Len(dels)
  <2>1. PICK q \in 1..Len(row) : row[q] = dels[i]
    BY <1>1, <1>2
  <2> QED BY <1>3, <1>5, <2>1
<1>7. CASE d <= Len(dels) /\ dels[d] = row[k]
  <2>1. d \in 1..Len(dels)
    BY <1>2, <1>3, <1>7
  <2>2. row[k] \in D
    BY <1>2, <1>7, <2>1
  <2>3. \A i \in 1..Len(dels) : dels[i] = row[k] <=> i = d
    BY <1>7, <2>1, PlacesFollowValues
  <2>4. \A i \in 1..Len(dels) : i < d + 1 <=> i < d \/ i = d
    BY <1>2, <2>1
  <2>5. \A i \in 1..Len(dels) : i < d + 1 <=> dels[i] \in Values(row, 0, k)
    BY <1>3, <1>4, <2>3, <2>4
  <2>6. d + 1 \in 1..(Len(dels) + 1)
    BY <1>2, <2>1
  <2> QED BY <1>7, <2>2, <2>5, <2>6 DEF Met
<1>8. CASE ~ (d <= Len(dels) /\ dels[d] = row[k])
  <2>1. row[k] \notin D
    <3> SUFFICES ASSUME row[k] \in D PROVE FALSE
      OBVIOUS
    <3>1. PICK i \in 1..Len(dels) : dels[i] = row[k]
      BY <1>2
    <3>2. row[k] \in Nat /\ i \in Nat /\ d \in Nat
      BY <1>1, <1>2, <1>3
    <3>3. ~ (i < d)
      BY <1>6, <3>1, <3>2
    <3>4. d \in 1..Len(dels) /\ d < i
      BY <1>2, <1>3, <1>8, <3>1, <3>2, <3>3
    <3>5. dels[d] < row[k]
      BY <1>2, <3>1, <3>4
    <3> QED BY <1>6, <3>4, <3>5
  <2>2. \A i \in 1..Len(dels) : dels[i] # row[k]
    BY <1>2, <2>1
  <2>3. \A i \in 1..Len(dels) : i < d <=> dels[i] \in Values(row, 0, k)
    BY <1>3, <1>4, <2>2
  <2> QED BY <1>3, <1>8, <2>1, <2>3 DEF Met
<1> QED BY <1>7, <1>8

\* Before the first edge no tombstone is met.
LEMMA NothingMet ==
  ASSUME NEW row, NEW dels, Len(dels) \in Nat
  PROVE  Met(1, dels, row, 0) /\ Values(row, 0, 0) = {}
<1>1. Values(row, 0, 0) = {}
  BY ValuesGrow
<1> QED BY <1>1 DEF Met

\* All values of a row, and the part before a place.
LEMMA RowValues ==
  ASSUME NEW S, NEW row, Lists(row, S)
  PROVE  /\ Values(row, 0, Len(row)) = S
         /\ \A k \in 1..Len(row) : \A x \in Values(row, 0, k - 1) : x < row[k]
         /\ \A k \in 1..Len(row) : /\ Values(row, 0, k) = Values(row, 0, k - 1) \cup {row[k]}
                                   /\ row[k] \in Nat
<1>1. /\ Len(row) \in Nat /\ \A i \in 1..Len(row) : row[i] \in Nat
      /\ \A i, j \in 1..Len(row) : i < j => row[i] < row[j]
      /\ S = {row[i] : i \in 1..Len(row)}
  BY ListsMeans DEF Listing
<1>2. (0 + 1)..Len(row) = 1..Len(row)
  OBVIOUS
<1>3. Values(row, 0, Len(row)) = S
  BY <1>1, <1>2 DEF Values
<1>4. ASSUME NEW k \in 1..Len(row), NEW x \in Values(row, 0, k - 1) PROVE x < row[k]
  <2>1. PICK i \in (0 + 1)..(k - 1) : x = row[i]
    BY DEF Values
  <2>2. i \in 1..Len(row) /\ i < k
    BY <1>1
  <2> QED BY <1>1, <2>1, <2>2
<1>5. ASSUME NEW k \in 1..Len(row) PROVE Values(row, 0, k) = Values(row, 0, k - 1) \cup {row[k]}
  <2>1. 0 \in Nat /\ k - 1 \in Nat /\ 0 <= k - 1 /\ (k - 1) + 1 = k
    BY <1>1
  <2>2. Values(row, 0, (k - 1) + 1) = Values(row, 0, k - 1) \cup {row[(k - 1) + 1]}
    BY <2>1, ValuesGrow
  <2> QED BY <2>1, <2>2
<1> QED BY <1>1, <1>3, <1>4, <1>5

\* What the scan that tests every edge has done after k edges.
TestStates == [j : Nat, out : Seq(Nat)]
Tested(st, k, row, D, dels) ==
  st \in TestStates /\ Met(st.j, dels, row, k) /\ Lists(st.out, Values(row, 0, k) \ D)

\* One edge leads from a state of that scan to another.
LEMMA TestEdgeType ==
  ASSUME NEW st \in TestStates, NEW x \in Nat, NEW dels
  PROVE  TestEdge(st, x, dels) \in TestStates
<1>1. st.j + 1 \in Nat /\ Append(st.out, x) \in Seq(Nat)
  BY DEF TestStates
<1> QED BY <1>1 DEF TestEdge, TestStates

\* And it keeps what the scan has done so far: the edge goes out if it has no
\* tombstone.
LEMMA TestEdgeKeeps ==
  ASSUME NEW S, NEW row, Lists(row, S), NEW D \in SUBSET S, NEW dels, Lists(dels, D),
         NEW k \in 1..Len(row), NEW st, Tested(st, k - 1, row, D, dels)
  PROVE  Tested(TestEdge(st, row[k], dels), k, row, D, dels)
<1> DEFINE x == row[k]
           next == TestEdge(st, x, dels)
           old == Values(row, 0, k - 1)
<1>1. st \in TestStates /\ Met(st.j, dels, row, k - 1) /\ Lists(st.out, old \ D)
  BY DEF Tested
<1>2. x \in Nat /\ Values(row, 0, k) = old \cup {x} /\ \A y \in old : y < x
  BY RowValues
<1>3. next \in TestStates
  BY <1>1, <1>2, TestEdgeType
<1>4. IF st.j <= Len(dels) /\ dels[st.j] = x
        THEN x \in D /\ Met(st.j + 1, dels, row, k)
        ELSE x \notin D /\ Met(st.j, dels, row, k)
  BY <1>1, NextTombstone
<1> HIDE DEF x, old
<1>5. CASE st.j <= Len(dels) /\ dels[st.j] = x
  <2>1. next.j = st.j + 1 /\ next.out = st.out
    BY <1>1, <1>5 DEF TestEdge, TestStates
  <2>2. Values(row, 0, k) \ D = old \ D
    BY <1>2, <1>4, <1>5
  <2> QED BY <1>1, <1>3, <1>4, <1>5, <2>1, <2>2 DEF Tested, x
<1>6. CASE ~ (st.j <= Len(dels) /\ dels[st.j] = x)
  <2>1. next.j = st.j /\ next.out = Append(st.out, x)
    BY <1>1, <1>6 DEF TestEdge, TestStates
  <2>2. Values(row, 0, k) \ D = (old \ D) \cup {x}
    BY <1>2, <1>4, <1>6
  <2>3. Lists(Append(st.out, x), (old \ D) \cup {x})
    BY <1>1, <1>2, AppendLists
  <2> QED BY <1>3, <1>4, <1>6, <2>1, <2>2, <2>3 DEF Tested, x
<1> QED BY <1>5, <1>6

\* The scan that tests every edge is a run of its loop.
LEMMA ScanPerEdgeRuns ==
  ASSUME NEW row \in Seq(Nat), NEW dels, NEW step,
         step = [p \in TestStates \X (1..Len(row)) |-> TestEdge(p[1], row[p[2]], dels)]
  PROVE  \E end : /\ RunsTo([j |-> 1, out |-> <<>>], step, TestStates, Len(row), end)
                  /\ ScanPerEdge(row, dels) = end.out
<1> DEFINE n == Len(row)
           start == [j |-> 1, out |-> <<>>]
           Runs(g) == g = [s \in SUBSET (1..n) |->
                             IF s = {} THEN start
                             ELSE TestEdge(g[s \ {Max(s)}], row[Max(s)], dels)]
           fold == CHOOSE g : Runs(g)
<1>1. n \in Nat /\ DOMAIN row = 1..n /\ \A i \in 1..n : row[i] \in Nat
  OBVIOUS
<1>2. ScanPerEdge(row, dels) = fold[1..n].out
  BY <1>1 DEF ScanPerEdge, FoldLeft, MapThenFoldSet
<1>3. start \in TestStates /\ step \in [TestStates \X (1..n) -> TestStates]
  <2>1. start \in TestStates
    BY DEF TestStates
  <2>2. \A p \in TestStates \X (1..n) : TestEdge(p[1], row[p[2]], dels) \in TestStates
    BY <1>1, TestEdgeType
  <2> QED BY <2>1, <2>2
<1> HIDE DEF n, start
<1>4. Runs(fold)
  <2>1. PICK g \in [SUBSET (1..n) -> TestStates] : SolvesFold(g, n, start, step)
    BY <1>1, <1>3, FoldExists
  <2>2. ASSUME NEW s \in SUBSET (1..n), s # {}
        PROVE  g[s] = TestEdge(g[s \ {Max(s)}], row[Max(s)], dels)
    <3>1. g[s \ {Max(s)}] \in TestStates
      OBVIOUS
    <3>2. Max(s) \in 1..n
      BY <1>1, <2>2, SubsetHasMax
    <3>3. g[s] = step[<<g[s \ {Max(s)}], Max(s)>>]
      BY <2>1, <2>2 DEF SolvesFold
    <3> QED BY <3>1, <3>2, <3>3 DEF n
  <2>3. g[{}] = start
    BY <2>1 DEF SolvesFold
  <2>4. Runs(g)
    BY <2>2, <2>3
  <2> HIDE DEF Runs
  <2> QED BY <2>4
<1> HIDE DEF fold
<1>5. fold[{}] = start
  BY <1>4
<1>6. ASSUME NEW s \in SUBSET (1..n), s # {}, fold[s \ {Max(s)}] \in TestStates
      PROVE  fold[s] = step[<<fold[s \ {Max(s)}], Max(s)>>]
  <2>1. Max(s) \in 1..n
    BY <1>1, <1>6, SubsetHasMax
  <2>2. fold[s] = TestEdge(fold[s \ {Max(s)}], row[Max(s)], dels)
    BY <1>4, <1>6
  <2> QED BY <1>6, <2>1, <2>2 DEF n
<1>7. RunsTo(start, step, TestStates, n, fold[1..n])
  BY <1>1, <1>3, <1>5, <1>6, FoldIsRun
<1> QED BY <1>2, <1>7 DEF n, start

\* It visits the edges without a tombstone, in order.
LEMMA ScanPerEdgeIs ==
  ASSUME NEW S, NEW row, Lists(row, S), NEW D \in SUBSET S, NEW dels, Lists(dels, D)
  PROVE  Lists(ScanPerEdge(row, dels), S \ D)
<1> DEFINE n == Len(row)
           start == [j |-> 1, out |-> <<>>]
           step == [p \in TestStates \X (1..n) |-> TestEdge(p[1], row[p[2]], dels)]
<1>1. n \in Nat /\ row \in Seq(Nat) /\ Len(dels) \in Nat
  BY ListsMeans DEF Listing
<1>2. PICK end : RunsTo(start, step, TestStates, n, end) /\ ScanPerEdge(row, dels) = end.out
  BY <1>1, ScanPerEdgeRuns
<1> HIDE DEF step
<1>3. PICK r \in [0..n -> TestStates] :
         r[0] = start /\ r[n] = end /\ \A k \in 1..n : r[k] = step[<<r[k - 1], k>>]
  BY <1>2 DEF RunsTo
<1> DEFINE T == {k \in 0..n : Tested(r[k], k, row, D, dels)}
<1>4. 0 \in T
  <2>1. Met(1, dels, row, 0) /\ Values(row, 0, 0) \ D = {}
    BY <1>1, NothingMet
  <2>2. start \in TestStates /\ start.j = 1 /\ start.out = <<>>
    BY DEF TestStates
  <2> HIDE DEF start
  <2>3. Lists(start.out, Values(row, 0, 0) \ D)
    BY <2>1, <2>2, NothingIsListed, Zenon
  <2>4. Tested(start, 0, row, D, dels)
    BY <2>1, <2>2, <2>3 DEF Tested
  <2> QED BY <1>1, <1>3, <2>4
<1>5. \A k \in 1..n : k - 1 \in T => k \in T
  <2> TAKE k \in 1..n
  <2> HAVE k - 1 \in T
  <2>1. r[k] = TestEdge(r[k - 1], row[k], dels)
    <3>1. k - 1 \in 0..n /\ k \in 1..n /\ r[k - 1] \in TestStates
      BY <1>1
    <3> HIDE DEF n, T
    <3> QED BY <1>3, <3>1 DEF step
  <2>2. Tested(r[k - 1], k - 1, row, D, dels)
    OBVIOUS
  <2>3. Tested(TestEdge(r[k - 1], row[k], dels), k, row, D, dels)
    BY <2>2, TestEdgeKeeps
  <2>4. k \in 0..n
    BY <1>1
  <2> QED BY <2>1, <2>3, <2>4
<1>6. n \in T
  <2> HIDE DEF T, n
  <2>1. 0..n \subseteq T
    BY <1>1, <1>4, <1>5, CountUp
  <2> QED BY <1>1, <2>1
<1>7. Lists(end.out, Values(row, 0, n) \ D)
  BY <1>3, <1>6 DEF Tested
<1>8. Values(row, 0, n) = S
  BY RowValues
<1> QED BY <1>2, <1>7, <1>8

-----------------------------------------------------------------------------
(* Skipping tombstones by their places *)

\* A value of a sorted sequence is among the first k just if its place is.
LEMMA ValueIsAmong ==
  ASSUME NEW S, NEW row, Lists(row, S), NEW k \in 0..Len(row), NEW i \in 1..Len(row)
  PROVE  row[i] \in Values(row, 0, k) <=> i <= k
<1>1. Len(row) \in Nat
  BY ListsMeans DEF Listing
<1>2. ASSUME i <= k PROVE row[i] \in Values(row, 0, k)
  <2>1. i \in (0 + 1)..k
    BY <1>1, <1>2
  <2> QED BY <2>1 DEF Values
<1>3. ASSUME row[i] \in Values(row, 0, k) PROVE i <= k
  <2>1. PICK j \in (0 + 1)..k : row[j] = row[i]
    BY <1>3 DEF Values
  <2>2. j \in 1..Len(row) /\ j <= k
    BY <1>1
  <2>3. j = i
    BY <2>1, <2>2, PlacesFollowValues
  <2> QED BY <2>2, <2>3
<1> QED BY <1>2, <1>3

\* A run of edges without tombstones goes out in one go.
LEMMA RunLists ==
  ASSUME NEW S, NEW row, Lists(row, S), NEW a \in Nat, NEW b \in Nat, a <= b, b <= Len(row),
         NEW D, NEW out, Lists(out, Values(row, 0, a) \ D), Values(row, a, b) \cap D = {}
  PROVE  Lists(out \o SubSeq(row, a + 1, b), Values(row, 0, b) \ D)
<1>1. Len(row) \in Nat /\ \A i, j \in 1..Len(row) : i < j => row[i] < row[j]
  BY ListsMeans DEF Listing
<1>2. Lists(SubSeq(row, a + 1, b), Values(row, a, b))
  BY SliceLists
<1>3. ASSUME NEW x \in Values(row, 0, a) \ D, NEW y \in Values(row, a, b) PROVE x < y
  <2>1. PICK i \in (0 + 1)..a : x = row[i]
    BY DEF Values
  <2>2. PICK j \in (a + 1)..b : y = row[j]
    BY DEF Values
  <2>3. i \in 1..Len(row) /\ j \in 1..Len(row) /\ i < j
    BY <1>1
  <2> QED BY <1>1, <2>1, <2>2, <2>3
<1>4. Lists(out \o SubSeq(row, a + 1, b), (Values(row, 0, a) \ D) \cup Values(row, a, b))
  BY <1>2, <1>3, JoinLists
<1>5. Values(row, 0, b) = Values(row, 0, a) \cup Values(row, a, b)
  BY ValuesGrow
<1>6. Values(row, 0, b) \ D = (Values(row, 0, a) \ D) \cup Values(row, a, b)
  BY <1>5
<1> QED BY <1>4, <1>6, Zenon

\* What the scan that searches for tombstones has done after k of them.
SkipStates == [out : Seq(Nat), from : Nat]
Skipped(st, k, row, D, dels) ==
  /\ st \in SkipStates /\ st.from <= Len(row) /\ Met(k + 1, dels, row, st.from)
  /\ Lists(st.out, Values(row, 0, st.from) \ D)

\* One tombstone leads from a state of that scan to another.
LEMMA SkipTombstoneType ==
  ASSUME NEW row \in Seq(Nat), NEW st \in SkipStates, NEW d \in Nat
  PROVE  SkipTombstone(st, d, row) \in SkipStates
<1> DEFINE below == {i \in st.from + 1..Len(row) : row[i] < d}
           at == PartitionPoint(row, st.from, d)
<1>1. st.from \in Nat /\ st.out \in Seq(Nat) /\ Len(row) \in Nat
  BY DEF SkipStates
<1>2. /\ IsFiniteSet(st.from + 1..Len(row))
      /\ Cardinality(st.from + 1..Len(row)) =
           IF st.from + 1 > Len(row) THEN 0 ELSE Len(row) - (st.from + 1) + 1
  <2>1. st.from + 1 \in Int /\ Len(row) \in Int
    BY <1>1
  <2> QED BY <2>1, FS_Interval
<1>3. below \in SUBSET (st.from + 1..Len(row))
  OBVIOUS
<1>4. at = st.from + Cardinality(below)
  BY DEF PartitionPoint
<1> HIDE DEF below
<1>5. /\ IsFiniteSet(below) /\ Cardinality(below) \in Nat
      /\ Cardinality(below) <= Cardinality(st.from + 1..Len(row))
  BY <1>2, <1>3, FS_Subset, FS_CardinalityType
<1> HIDE DEF at
<1>6. at \in Nat /\ (at = st.from \/ at <= Len(row)) /\ st.from <= at
  <2>1. \A f, l, k, w \in Nat :
          k <= w /\ w = (IF f + 1 > l THEN 0 ELSE l - (f + 1) + 1)
            => f + k \in Nat /\ (f + k = f \/ f + k <= l) /\ f <= f + k
    OBVIOUS
  <2>2. Cardinality(st.from + 1..Len(row)) \in Nat
    BY <1>2, FS_CardinalityType
  <2> QED BY <1>1, <1>2, <1>4, <1>5, <2>1, <2>2
<1>7. SubSeq(row, st.from + 1, at) \in Seq(Nat)
  <2>1. CASE at <= Len(row)
    BY <1>1, <1>6, <2>1, SliceOfSeq
  <2>2. CASE at = st.from
    <3>1. SubSeq(row, st.from + 1, at) = <<>>
      BY <1>1, <2>2
    <3>2. <<>> \in Seq(Nat)
      OBVIOUS
    <3> QED BY <3>1, <3>2
  <2> QED BY <1>6, <2>1, <2>2
<1>8. SkipTombstone(st, d, row)
        = [out |-> st.out \o SubSeq(row, st.from + 1, at), from |-> at + 1]
  BY DEF SkipTombstone, at
<1>9. st.out \o SubSeq(row, st.from + 1, at) \in Seq(Nat)
  BY <1>1, <1>7, JoinOfSeqs
<1> QED BY <1>6, <1>8, <1>9 DEF SkipStates

\* The search finds the next tombstone where the run before it ends.
LEMMA SkipTombstoneKeeps ==
  ASSUME NEW S, NEW row, Lists(row, S), NEW D \in SUBSET S, NEW dels, Lists(dels, D),
         NEW k \in 1..Len(dels), NEW st, Skipped(st, k - 1, row, D, dels)
  PROVE  Skipped(SkipTombstone(st, dels[k], row), k, row, D, dels)
<1> DEFINE d == dels[k]
           a == st.from
           at == PartitionPoint(row, a, d)
           next == SkipTombstone(st, d, row)
<1>1. /\ Len(row) \in Nat /\ \A i \in 1..Len(row) : row[i] \in Nat
      /\ row \in Seq(Nat) /\ S = {row[i] : i \in 1..Len(row)}
  <2>1. Listing(S, row, Len(row))
    BY ListsMeans
  <2> QED BY <2>1 DEF Listing
<1>2. /\ Len(dels) \in Nat /\ \A i \in 1..Len(dels) : dels[i] \in Nat
      /\ D = {dels[i] : i \in 1..Len(dels)}
  BY ListsMeans DEF Listing
<1>3. /\ st \in SkipStates /\ a \in Nat /\ a <= Len(row) /\ Lists(st.out, Values(row, 0, a) \ D)
      /\ \A p \in 1..Len(dels) : p < k <=> dels[p] \in Values(row, 0, a)
  <2>1. (k - 1) + 1 = k
    BY <1>2
  <2> QED BY <2>1 DEF Skipped, SkipStates, Met
<1>4. d \in Nat /\ d \in D
  BY <1>2
<1>5. /\ at \in a..Len(row)
      /\ \A i \in (a + 1)..at : row[i] < d
      /\ \A i \in (at + 1)..Len(row) : ~ (row[i] < d)
  <2>1. Increasing(row) /\ a \in 0..Len(row)
    BY <1>1, <1>3 DEF Lists
  <2> HIDE DEF d, a
  <2> QED BY <1>4, <2>1, PartitionPointSplits
<1>6. next = [out |-> st.out \o SubSeq(row, a + 1, at), from |-> at + 1]
  BY DEF SkipTombstone
<1>7. next \in SkipStates
  BY <1>1, <1>3, <1>4, SkipTombstoneType
<1> HIDE DEF at, next
<1>8. at + 1 \in 1..Len(row) /\ row[at + 1] = d /\ at \in Nat /\ at < Len(row)
  <2>1. PICK q \in 1..Len(row) : row[q] = d
    BY <1>1, <1>4
  <2>2. ~ (q <= a)
    <3>1. d \notin Values(row, 0, a)
      BY <1>2, <1>3
    <3> QED BY <1>1, <1>3, <2>1, <3>1, ValueIsAmong
  <2>3. ~ (q <= at)
    <3> SUFFICES ASSUME q <= at PROVE FALSE
      OBVIOUS
    <3> HIDE DEF d, a
    <3>1. q \in (a + 1)..at
      BY <1>1, <1>3, <1>5, <2>2
    <3>2. d < d
      BY <1>5, <2>1, <3>1
    <3> QED BY <1>4, <3>2
  <2>4. at + 1 \in 1..Len(row) /\ ~ (row[at + 1] < d)
    BY <1>1, <1>3, <1>5, <2>3
  <2>5. ~ (at + 1 < q)
    <3>1. at + 1 < q => row[at + 1] < row[q]
      <4>1. \A i, j \in 1..Len(row) : i < j => row[i] < row[j]
        BY DEF Lists, Increasing
      <4> QED BY <2>4, <4>1
    <3> QED BY <2>1, <2>4, <3>1
  <2>6. q = at + 1
    BY <1>1, <1>3, <1>5, <2>3, <2>5
  <2> QED BY <1>1, <1>3, <1>5, <2>1, <2>4, <2>6
<1> HIDE DEF d, a
<1>9. Values(row, a, at) \cap D = {}
  <2> SUFFICES ASSUME NEW x \in Values(row, a, at), x \in D PROVE FALSE
    OBVIOUS
  <2>1. PICK i \in (a + 1)..at : x = row[i]
    BY DEF Values
  <2>2. i \in 1..Len(row) /\ ~ (i <= a) /\ row[i] < d /\ a \in 0..Len(row)
    BY <1>1, <1>3, <1>5, <1>8, <2>1
  <2>3. PICK p \in 1..Len(dels) : dels[p] = x
    BY <1>2
  <2>4. p < k
    BY <2>1, <2>2, <2>3, PlacesFollowValues DEF d
  <2> QED BY <1>3, <2>1, <2>2, <2>3, <2>4, ValueIsAmong
<1>10. Lists(next.out, Values(row, 0, at) \ D)
  <2>1. a <= at /\ at <= Len(row)
    BY <1>3, <1>5, <1>8
  <2>2. Lists(st.out \o SubSeq(row, a + 1, at), Values(row, 0, at) \ D)
    BY <1>3, <1>8, <1>9, <2>1, RunLists
  <2> QED BY <1>6, <2>2
<1>11. Values(row, 0, at + 1) \ D = Values(row, 0, at) \ D
  <2>1. Values(row, 0, at + 1) = Values(row, 0, at) \cup {row[at + 1]}
    BY <1>8, ValuesGrow
  <2> QED BY <1>4, <1>8, <2>1
<1>12. Met(k + 1, dels, row, at + 1)
  <2>1. ASSUME NEW p \in 1..Len(dels) PROVE p < k + 1 <=> dels[p] \in Values(row, 0, at + 1)
    <3>1. PICK q \in 1..Len(row) : row[q] = dels[p]
      BY <1>1, <1>2
    <3>2. at + 1 \in 0..Len(row)
      BY <1>1, <1>8
    <3>3. dels[p] \in Values(row, 0, at + 1) <=> q <= at + 1
      BY <3>1, <3>2, ValueIsAmong
    <3>4. /\ row[q] < row[at + 1] => q < at + 1
          /\ row[at + 1] < row[q] => at + 1 < q
          /\ row[at + 1] = row[q] => at + 1 = q
      BY <1>8, PlacesFollowValues
    <3>5. /\ dels[p] < dels[k] => p < k
          /\ dels[k] < dels[p] => k < p
          /\ dels[k] = dels[p] => k = p
      BY PlacesFollowValues
    <3>6. dels[p] \in Nat /\ dels[k] \in Nat /\ row[at + 1] = dels[k]
      BY <1>2, <1>8 DEF d
    <3>7. p <= k <=> q <= at + 1
      BY <1>2, <1>8, <3>1, <3>4, <3>5, <3>6
    <3> QED BY <1>2, <3>3, <3>7
  <2>2. k + 1 \in 1..(Len(dels) + 1)
    BY <1>2
  <2> QED BY <2>1, <2>2 DEF Met
<1>13. next.from = at + 1
  BY <1>6
<1>14. Lists(next.out, Values(row, 0, next.from) \ D)
  <2>1. Values(row, 0, next.from) \ D = Values(row, 0, at) \ D
    BY <1>11, <1>13
  <2> QED BY <1>10, <2>1, Zenon
<1>15. next.from <= Len(row) /\ Met(k + 1, dels, row, next.from)
  BY <1>1, <1>8, <1>12, <1>13
<1> QED BY <1>7, <1>14, <1>15 DEF Skipped, next, d

\* The scan that searches for tombstones is a run of its loop.
LEMMA ScanSplitRuns ==
  ASSUME NEW row \in Seq(Nat), NEW dels \in Seq(Nat), NEW step,
         step = [p \in SkipStates \X (1..Len(dels)) |-> SkipTombstone(p[1], dels[p[2]], row)]
  PROVE  \E end : /\ RunsTo([out |-> <<>>, from |-> 0], step, SkipStates, Len(dels), end)
                  /\ ScanSplit(row, dels) = end.out \o SubSeq(row, end.from + 1, Len(row))
<1> DEFINE n == Len(dels)
           start == [out |-> <<>>, from |-> 0]
           Runs(g) == g = [s \in SUBSET (1..n) |->
                             IF s = {} THEN start
                             ELSE SkipTombstone(g[s \ {Max(s)}], dels[Max(s)], row)]
           fold == CHOOSE g : Runs(g)
<1>1. n \in Nat /\ DOMAIN dels = 1..n /\ \A i \in 1..n : dels[i] \in Nat
  OBVIOUS
<1>2. ScanSplit(row, dels) = fold[1..n].out \o SubSeq(row, fold[1..n].from + 1, Len(row))
  BY <1>1 DEF ScanSplit, FoldLeft, MapThenFoldSet
<1>3. start \in SkipStates /\ step \in [SkipStates \X (1..n) -> SkipStates]
  <2>1. start \in SkipStates
    BY DEF SkipStates
  <2>2. \A p \in SkipStates \X (1..n) : SkipTombstone(p[1], dels[p[2]], row) \in SkipStates
    BY <1>1, SkipTombstoneType
  <2> QED BY <2>1, <2>2
<1> HIDE DEF n, start
<1>4. Runs(fold)
  <2>1. PICK g \in [SUBSET (1..n) -> SkipStates] : SolvesFold(g, n, start, step)
    BY <1>1, <1>3, FoldExists
  <2>2. ASSUME NEW s \in SUBSET (1..n), s # {}
        PROVE  g[s] = SkipTombstone(g[s \ {Max(s)}], dels[Max(s)], row)
    <3>1. g[s \ {Max(s)}] \in SkipStates
      OBVIOUS
    <3>2. Max(s) \in 1..n
      BY <1>1, <2>2, SubsetHasMax
    <3>3. g[s] = step[<<g[s \ {Max(s)}], Max(s)>>]
      BY <2>1, <2>2 DEF SolvesFold
    <3> QED BY <3>1, <3>2, <3>3 DEF n
  <2>3. g[{}] = start
    BY <2>1 DEF SolvesFold
  <2>4. Runs(g)
    BY <2>2, <2>3
  <2> HIDE DEF Runs
  <2> QED BY <2>4
<1> HIDE DEF fold
<1>5. fold[{}] = start
  BY <1>4
<1>6. ASSUME NEW s \in SUBSET (1..n), s # {}, fold[s \ {Max(s)}] \in SkipStates
      PROVE  fold[s] = step[<<fold[s \ {Max(s)}], Max(s)>>]
  <2>1. Max(s) \in 1..n
    BY <1>1, <1>6, SubsetHasMax
  <2>2. fold[s] = SkipTombstone(fold[s \ {Max(s)}], dels[Max(s)], row)
    BY <1>4, <1>6
  <2> QED BY <1>6, <2>1, <2>2 DEF n
<1>7. RunsTo(start, step, SkipStates, n, fold[1..n])
  BY <1>1, <1>3, <1>5, <1>6, FoldIsRun
<1> QED BY <1>2, <1>7 DEF n, start

\* It visits the edges without a tombstone, in order.
LEMMA ScanSplitIs ==
  ASSUME NEW S, NEW row, Lists(row, S), NEW D \in SUBSET S, NEW dels, Lists(dels, D)
  PROVE  Lists(ScanSplit(row, dels), S \ D)
<1> DEFINE n == Len(dels)
           start == [out |-> <<>>, from |-> 0]
           step == [p \in SkipStates \X (1..n) |-> SkipTombstone(p[1], dels[p[2]], row)]
<1>1. /\ n \in Nat /\ dels \in Seq(Nat) /\ row \in Seq(Nat) /\ Len(row) \in Nat
      /\ D = {dels[p] : p \in 1..n}
  <2>1. Listing(S, row, Len(row)) /\ Listing(D, dels, Len(dels))
    BY ListsMeans
  <2> QED BY <2>1 DEF Listing
<1>2. PICK end : /\ RunsTo(start, step, SkipStates, n, end)
                 /\ ScanSplit(row, dels) = end.out \o SubSeq(row, end.from + 1, Len(row))
  BY <1>1, ScanSplitRuns
<1> HIDE DEF step
<1>3. PICK r \in [0..n -> SkipStates] :
         r[0] = start /\ r[n] = end /\ \A k \in 1..n : r[k] = step[<<r[k - 1], k>>]
  BY <1>2 DEF RunsTo
<1> DEFINE T == {k \in 0..n : Skipped(r[k], k, row, D, dels)}
<1>4. 0 \in T
  <2>1. Met(0 + 1, dels, row, 0) /\ Values(row, 0, 0) \ D = {}
    <3>1. Met(1, dels, row, 0) /\ Values(row, 0, 0) = {}
      BY <1>1, NothingMet
    <3>2. 0 + 1 = 1
      OBVIOUS
    <3> HIDE DEF n
    <3> QED BY <3>1, <3>2
  <2>2. start \in SkipStates /\ start.from = 0 /\ start.out = <<>>
    BY DEF SkipStates
  <2> HIDE DEF start
  <2>3. Lists(start.out, Values(row, 0, start.from) \ D)
    BY <2>1, <2>2, NothingIsListed, Zenon
  <2>4. start.from <= Len(row)
    BY <1>1, <2>2
  <2>5. Skipped(start, 0, row, D, dels)
    BY <2>1, <2>2, <2>3, <2>4 DEF Skipped
  <2> QED BY <1>1, <1>3, <2>5
<1>5. \A k \in 1..n : k - 1 \in T => k \in T
  <2> TAKE k \in 1..n
  <2> HAVE k - 1 \in T
  <2>1. r[k] = SkipTombstone(r[k - 1], dels[k], row)
    <3>1. k - 1 \in 0..n /\ k \in 1..n /\ r[k - 1] \in SkipStates
      BY <1>1
    <3> HIDE DEF n, T
    <3> QED BY <1>3, <3>1 DEF step
  <2>2. Skipped(r[k - 1], k - 1, row, D, dels)
    OBVIOUS
  <2>3. Skipped(SkipTombstone(r[k - 1], dels[k], row), k, row, D, dels)
    BY <2>2, SkipTombstoneKeeps
  <2>4. k \in 0..n
    BY <1>1
  <2> QED BY <2>1, <2>3, <2>4
<1>6. n \in T
  <2> HIDE DEF T, n
  <2>1. 0..n \subseteq T
    BY <1>1, <1>4, <1>5, CountUp
  <2> QED BY <1>1, <2>1
<1> DEFINE a == end.from
<1>7. /\ a \in Nat /\ a <= Len(row) /\ Lists(end.out, Values(row, 0, a) \ D)
      /\ \A p \in 1..n : dels[p] \in Values(row, 0, a)
  <2>1. Skipped(end, n, row, D, dels)
    BY <1>3, <1>6
  <2>2. \A p \in 1..n : p < n + 1
    BY <1>1
  <2> QED BY <2>1, <2>2 DEF Skipped, SkipStates, Met
<1> HIDE DEF a, n
<1>8. Values(row, a, Len(row)) \cap D = {}
  <2> SUFFICES ASSUME NEW x \in Values(row, a, Len(row)), x \in D PROVE FALSE
    OBVIOUS
  <2>1. PICK i \in (a + 1)..Len(row) : x = row[i]
    BY DEF Values
  <2>2. i \in 1..Len(row) /\ ~ (i <= a) /\ a \in 0..Len(row)
    BY <1>1, <1>7
  <2>3. row[i] \in Values(row, 0, a)
    BY <1>1, <1>7, <2>1
  <2> QED BY <2>2, <2>3, ValueIsAmong
<1>9. Lists(end.out \o SubSeq(row, a + 1, Len(row)), Values(row, 0, Len(row)) \ D)
  <2>1. Len(row) <= Len(row)
    BY <1>1
  <2> QED BY <1>1, <1>7, <1>8, <2>1, RunLists
<1>10. Values(row, 0, Len(row)) = S
  BY RowValues
<1> QED BY <1>2, <1>9, <1>10 DEF a

-----------------------------------------------------------------------------
(* Merging a row with what is added to it and what is deleted from it *)

\* The states of the loop; V are the values it may read.
MergeStates(V) == [i : Nat, j : Nat, d : Nat, out : Seq(V)]

\* One turn leads from a state of the loop to another.
LEMMA MergeTurnType ==
  ASSUME NEW V, NEW row, NEW add, NEW del, \A k \in Nat : row[k] \in V /\ add[k] \in V,
         NEW st \in MergeStates(V)
  PROVE  MergeTurn(st, row, add, del) \in MergeStates(V)
<1>1. /\ st.i \in Nat /\ st.j \in Nat /\ st.d \in Nat /\ st.out \in Seq(V)
      /\ st.i + 1 \in Nat /\ st.j + 1 \in Nat /\ st.d + 1 \in Nat
  BY DEF MergeStates
<1>2. Append(st.out, row[st.i]) \in Seq(V) /\ Append(st.out, add[st.j]) \in Seq(V)
  BY <1>1
<1> QED BY <1>1, <1>2 DEF MergeTurn, MergeStates

\* What is done after some turns: the first i - 1 edges of the row but those with
\* a tombstone, and the first j - 1 additions, are out in order; the rest is greater.
Passed(row, i, add, j) ==
  /\ i \in 1..(Len(row) + 1) /\ j \in 1..(Len(add) + 1)
  /\ \A x \in Values(row, 0, i - 1), q \in j..Len(add) : x < add[q]
  /\ \A x \in Values(add, 0, j - 1), q \in i..Len(row) : x < row[q]
MergedSet(row, i, D, add, j) == (Values(row, 0, i - 1) \ D) \cup Values(add, 0, j - 1)
Merged(st, k, row, D, del, add) ==
  /\ st.i + st.j = k + 2 /\ Passed(row, st.i, add, st.j)
  /\ Met(st.d, del, row, st.i - 1)
  /\ Lists(st.out, MergedSet(row, st.i, D, add, st.j))

\* An addition passes when the row's next edge is not smaller.
LEMMA PassAddition ==
  ASSUME NEW S, NEW row, Lists(row, S), NEW P, NEW add, Lists(add, P), P \cap S = {},
         NEW D, NEW i, NEW j, Passed(row, i, add, j), j <= Len(add),
         i <= Len(row) => ~ (row[i] < add[j])
  PROVE  /\ Passed(row, i, add, j + 1)
         /\ MergedSet(row, i, D, add, j + 1) = MergedSet(row, i, D, add, j) \cup {add[j]}
         /\ \A x \in MergedSet(row, i, D, add, j) : x < add[j]
         /\ add[j] \in Nat
<1>1. /\ Len(row) \in Nat /\ \A k \in 1..Len(row) : row[k] \in Nat /\ row[k] \in S
      /\ \A k, l \in 1..Len(row) : k < l => row[k] < row[l]
  <2>1. Listing(S, row, Len(row))
    BY ListsMeans
  <2> QED BY <2>1 DEF Listing
<1>2. /\ Len(add) \in Nat /\ \A k \in 1..Len(add) : add[k] \in Nat /\ add[k] \in P
  <2>1. Listing(P, add, Len(add))
    BY ListsMeans
  <2> QED BY <2>1 DEF Listing
<1>3. /\ i \in 1..(Len(row) + 1) /\ j \in 1..(Len(add) + 1)
      /\ \A x \in Values(row, 0, i - 1), q \in j..Len(add) : x < add[q]
      /\ \A x \in Values(add, 0, j - 1), q \in i..Len(row) : x < row[q]
  BY DEF Passed
<1>4. /\ j \in 1..Len(add) /\ j \in j..Len(add) /\ (j + 1) - 1 = j
      /\ j + 1 \in 1..(Len(add) + 1) /\ \A q \in (j + 1)..Len(add) : q \in j..Len(add)
  BY <1>2, <1>3
<1>5. /\ Values(add, 0, j) = Values(add, 0, j - 1) \cup {add[j]} /\ add[j] \in Nat
      /\ \A x \in Values(add, 0, j - 1) : x < add[j]
  BY <1>4, RowValues
<1>6. ASSUME NEW q \in i..Len(row) PROVE add[j] < row[q]
  <2>1. i \in 1..Len(row) /\ q \in 1..Len(row) /\ i <= Len(row)
    BY <1>1, <1>3
  <2>2. row[i] # add[j] /\ row[i] \in Nat
    BY <1>1, <1>2, <1>4, <2>1
  <2>3. add[j] < row[i]
    BY <1>5, <2>1, <2>2
  <2>4. q = i \/ row[i] < row[q]
    BY <1>1, <2>1
  <2> QED BY <1>1, <1>5, <2>1, <2>2, <2>3, <2>4
<1>7. Passed(row, i, add, j + 1)
  BY <1>3, <1>4, <1>5, <1>6 DEF Passed
<1>8. /\ MergedSet(row, i, D, add, j + 1) = MergedSet(row, i, D, add, j) \cup {add[j]}
      /\ \A x \in MergedSet(row, i, D, add, j) : x < add[j]
  BY <1>3, <1>4, <1>5 DEF MergedSet
<1> QED BY <1>5, <1>7, <1>8

\* An edge of the row passes when the next addition is greater.
LEMMA PassEdge ==
  ASSUME NEW S, NEW row, Lists(row, S), NEW P, NEW add, Lists(add, P),
         NEW D, NEW i, NEW j, Passed(row, i, add, j), i <= Len(row),
         j <= Len(add) => row[i] < add[j]
  PROVE  /\ Passed(row, i + 1, add, j) /\ i \in 1..Len(row) /\ row[i] \in Nat
         /\ MergedSet(row, i + 1, D, add, j) = MergedSet(row, i, D, add, j) \cup ({row[i]} \ D)
         /\ \A x \in MergedSet(row, i, D, add, j) : x < row[i]
<1>1. /\ Len(row) \in Nat /\ \A k \in 1..Len(row) : row[k] \in Nat
  BY ListsMeans DEF Listing
<1>2. /\ Len(add) \in Nat /\ \A k \in 1..Len(add) : add[k] \in Nat
      /\ \A k, l \in 1..Len(add) : k < l => add[k] < add[l]
  BY ListsMeans DEF Listing
<1>3. /\ i \in 1..(Len(row) + 1) /\ j \in 1..(Len(add) + 1)
      /\ \A x \in Values(row, 0, i - 1), q \in j..Len(add) : x < add[q]
      /\ \A x \in Values(add, 0, j - 1), q \in i..Len(row) : x < row[q]
  BY DEF Passed
<1>4. /\ i \in 1..Len(row) /\ i \in i..Len(row) /\ (i + 1) - 1 = i
      /\ i + 1 \in 1..(Len(row) + 1) /\ \A q \in (i + 1)..Len(row) : q \in i..Len(row)
  BY <1>1, <1>3
<1>5. /\ Values(row, 0, i) = Values(row, 0, i - 1) \cup {row[i]} /\ row[i] \in Nat
      /\ \A x \in Values(row, 0, i - 1) : x < row[i]
  BY <1>4, RowValues
<1>6. ASSUME NEW q \in j..Len(add) PROVE row[i] < add[q]
  <2>1. j \in 1..Len(add) /\ q \in 1..Len(add) /\ j <= Len(add)
    BY <1>2, <1>3
  <2>2. q = j \/ add[j] < add[q]
    BY <1>2, <2>1
  <2> QED BY <1>2, <1>5, <2>1, <2>2
<1>7. Passed(row, i + 1, add, j)
  <2>1. \A x \in Values(row, 0, (i + 1) - 1), q \in j..Len(add) : x < add[q]
    BY <1>3, <1>4, <1>5, <1>6
  <2>2. \A x \in Values(add, 0, j - 1), q \in (i + 1)..Len(row) : x < row[q]
    BY <1>3, <1>4
  <2> QED BY <1>3, <1>4, <2>1, <2>2 DEF Passed
<1>8. /\ MergedSet(row, i + 1, D, add, j)
           = MergedSet(row, i, D, add, j) \cup ({row[i]} \ D)
      /\ \A x \in MergedSet(row, i, D, add, j) : x < row[i]
  BY <1>3, <1>4, <1>5 DEF MergedSet
<1> QED BY <1>4, <1>5, <1>7, <1>8

\* So a turn of merge_row takes the loop one edge further.
LEMMA MergeTurnKeeps ==
  ASSUME NEW S, NEW row, Lists(row, S), NEW P, NEW add, Lists(add, P), P \cap S = {},
         NEW D \in SUBSET S, NEW del, Lists(del, D),
         NEW V, NEW st \in MergeStates(V), NEW k \in 1..(Len(row) + Len(add)),
         Merged(st, k - 1, row, D, del, add)
  PROVE  Merged(MergeTurn(st, row, add, del), k, row, D, del, add)
<1> DEFINE i == st.i
           j == st.j
           d == st.d
           out == st.out
           next == MergeTurn(st, row, add, del)
           old == MergedSet(row, i, D, add, j)
<1>1. Len(row) \in Nat /\ Len(add) \in Nat
  BY ListsMeans DEF Listing
<1>2. /\ i \in 1..(Len(row) + 1) /\ j \in 1..(Len(add) + 1) /\ i + j = k + 1
      /\ Passed(row, i, add, j) /\ Met(d, del, row, i - 1) /\ Lists(out, old)
  BY <1>1 DEF Merged, Passed
<1>3. TakesRow(st, row, add) <=> j > Len(add) \/ (i <= Len(row) /\ row[i] < add[j])
  BY DEF TakesRow
<1>4. CASE ~ TakesRow(st, row, add)
  <2>1. next.i = i /\ next.j = j + 1 /\ next.d = d /\ next.out = Append(out, add[j])
    BY <1>4 DEF MergeTurn, MergeStates
  <2> HIDE DEF next, i, j, d, out
  <2>2. j <= Len(add) /\ (i <= Len(row) => ~ (row[i] < add[j]))
    BY <1>1, <1>2, <1>3, <1>4
  <2>3. /\ Passed(row, i, add, j + 1) /\ add[j] \in Nat
        /\ MergedSet(row, i, D, add, j + 1) = old \cup {add[j]}
        /\ \A x \in old : x < add[j]
    <3>1. Passed(row, i, add, j)
      BY <1>2
    <3>2. /\ Passed(row, i, add, j + 1)
          /\ MergedSet(row, i, D, add, j + 1) = MergedSet(row, i, D, add, j) \cup {add[j]}
          /\ \A x \in MergedSet(row, i, D, add, j) : x < add[j]
      BY <2>2, <3>1, PassAddition
    <3>3. add[j] \in Nat
      <4>1. j \in 1..Len(add)
        BY <1>1, <1>2, <2>2
      <4> QED BY <4>1, ListsMeans DEF Listing
    <3> QED BY <3>2, <3>3
  <2>4. Lists(Append(out, add[j]), old \cup {add[j]})
    <3> HIDE DEF old
    <3> QED BY <1>2, <2>3, AppendLists
  <2>5. i + (j + 1) = k + 2
    BY <1>1, <1>2
  <2>6. Lists(next.out, MergedSet(row, i, D, add, j + 1))
    BY <2>1, <2>3, <2>4
  <2> QED BY <1>2, <2>1, <2>3, <2>5, <2>6 DEF Merged, next
<1>5. CASE TakesRow(st, row, add)
  <2> DEFINE tomb == d <= Len(del) /\ del[d] = row[i]
  <2>1. /\ next.i = i + 1 /\ next.j = j
        /\ tomb => next.d = d + 1 /\ next.out = out
        /\ ~ tomb => next.d = d /\ next.out = Append(out, row[i])
    BY <1>5 DEF MergeTurn, MergeStates
  <2> HIDE DEF next, i, j, d, out
  <2>2. i <= Len(row) /\ (j <= Len(add) => row[i] < add[j])
    BY <1>1, <1>2, <1>3, <1>5
  <2>3. /\ Passed(row, i + 1, add, j) /\ i \in 1..Len(row) /\ row[i] \in Nat
        /\ MergedSet(row, i + 1, D, add, j) = old \cup ({row[i]} \ D)
        /\ \A x \in old : x < row[i]
    <3>1. Passed(row, i, add, j)
      BY <1>2
    <3> QED BY <2>2, <3>1, PassEdge
  <2>4. IF tomb THEN row[i] \in D /\ Met(d + 1, del, row, i)
                ELSE row[i] \notin D /\ Met(d, del, row, i)
    BY <1>2, <2>3, NextTombstone
  <2>5. (i + 1) + j = k + 2 /\ (i + 1) - 1 = i
    BY <1>1, <1>2
  <2> HIDE DEF tomb, old
  <2>6. CASE tomb
    <3>1. MergedSet(row, i + 1, D, add, j) = old
      BY <2>3, <2>4, <2>6
    <3>2. Lists(next.out, MergedSet(row, i + 1, D, add, j))
      BY <1>2, <2>1, <2>6, <3>1
    <3> QED BY <2>1, <2>3, <2>4, <2>5, <2>6, <3>2 DEF Merged, next
  <2>7. CASE ~ tomb
    <3>1. MergedSet(row, i + 1, D, add, j) = old \cup {row[i]}
      BY <2>3, <2>4, <2>7
    <3>2. Lists(Append(out, row[i]), old \cup {row[i]})
      BY <1>2, <2>3, AppendLists
    <3>3. Lists(next.out, MergedSet(row, i + 1, D, add, j))
      BY <2>1, <2>7, <3>1, <3>2
    <3> QED BY <2>1, <2>3, <2>4, <2>5, <2>7, <3>3 DEF Merged, next
  <2> QED BY <2>6, <2>7
<1> QED BY <1>4, <1>5

\* merge_row is a run of its loop, a turn for each edge of row and of add.
MergeEnds(row, add, del, A, n, step) ==
  \E end : /\ RunsTo([i |-> 1, j |-> 1, d |-> 1, out |-> <<>>], step, A, n, end)
           /\ MergeRow(row, add, del) = end.out

\* Such a run exists, and it is the only one.
LEMMA MergeRowRuns ==
  ASSUME NEW row \in Seq(Nat), NEW add \in Seq(Nat), NEW del, NEW V,
         \A k \in Nat : row[k] \in V /\ add[k] \in V,
         NEW n, n = Len(row) + Len(add), NEW step,
         step = [p \in MergeStates(V) \X (1..n) |-> MergeTurn(p[1], row, add, del)]
  PROVE  MergeEnds(row, add, del, MergeStates(V), n, step)
<1> DEFINE start == [i |-> 1, j |-> 1, d |-> 1, out |-> <<>>]
           states == MergeStates(V)
           Runs(g) == g = [s \in SUBSET (1..n) |->
                             IF s = {} THEN start
                             ELSE MergeTurn(g[s \ {Max(s)}], row, add, del)]
           fold == CHOOSE g : Runs(g)
<1>1. n \in Nat /\ DOMAIN (row \o add) = 1..n
  <2>1. row \o add \in Seq(Nat) /\ Len(row \o add) = n
    BY JoinOfSeqs DEF Joins
  <2> QED BY <2>1
<1>2. MergeRow(row, add, del) = fold[1..n].out
  BY <1>1 DEF MergeRow, FoldLeft, MapThenFoldSet
<1>3. start \in states /\ step \in [states \X (1..n) -> states]
  <2>1. start \in states
    <3>1. <<>> \in Seq(V)
      OBVIOUS
    <3> QED BY <3>1 DEF MergeStates
  <2>2. \A p \in states \X (1..n) : MergeTurn(p[1], row, add, del) \in states
    BY MergeTurnType
  <2> QED BY <2>1, <2>2
<1> HIDE DEF start, states
<1>4. Runs(fold)
  <2>1. PICK g \in [SUBSET (1..n) -> states] : SolvesFold(g, n, start, step)
    BY <1>1, <1>3, FoldExists
  <2>2. ASSUME NEW s \in SUBSET (1..n), s # {}
        PROVE  g[s] = MergeTurn(g[s \ {Max(s)}], row, add, del)
    <3>1. g[s \ {Max(s)}] \in states
      OBVIOUS
    <3>2. Max(s) \in 1..n
      BY <1>1, <2>2, SubsetHasMax
    <3>3. g[s] = step[<<g[s \ {Max(s)}], Max(s)>>]
      BY <2>1, <2>2 DEF SolvesFold
    <3> QED BY <3>1, <3>2, <3>3 DEF states
  <2>3. g[{}] = start
    BY <2>1 DEF SolvesFold
  <2>4. Runs(g)
    BY <2>2, <2>3
  <2> HIDE DEF Runs
  <2> QED BY <2>4
<1> HIDE DEF fold
<1>5. fold[{}] = start
  BY <1>4
<1>6. ASSUME NEW s \in SUBSET (1..n), s # {}, fold[s \ {Max(s)}] \in states
      PROVE  fold[s] = step[<<fold[s \ {Max(s)}], Max(s)>>]
  <2>1. Max(s) \in 1..n
    BY <1>1, <1>6, SubsetHasMax
  <2>2. fold[s] = MergeTurn(fold[s \ {Max(s)}], row, add, del)
    BY <1>4, <1>6
  <2> QED BY <1>6, <2>1, <2>2 DEF states
<1>7. RunsTo(start, step, states, n, fold[1..n])
  BY <1>1, <1>3, <1>5, <1>6, FoldIsRun
<1> QED BY <1>2, <1>7 DEF start, states, MergeEnds

\* It merges: the row without the tombstones, and the additions, in order.
LEMMA MergeRowIs ==
  ASSUME NEW S, NEW row, Lists(row, S), NEW P, NEW add, Lists(add, P), P \cap S = {},
         NEW D \in SUBSET S, NEW del, Lists(del, D)
  PROVE  Lists(MergeRow(row, add, del), (S \ D) \cup P)
<1> DEFINE n == Len(row) + Len(add)
           start == [i |-> 1, j |-> 1, d |-> 1, out |-> <<>>]
           V == {row[k] : k \in Nat} \cup {add[k] : k \in Nat}
           step == [p \in MergeStates(V) \X (1..n) |-> MergeTurn(p[1], row, add, del)]
<1>1. /\ Len(row) \in Nat /\ Len(add) \in Nat /\ Len(del) \in Nat
      /\ row \in Seq(Nat) /\ add \in Seq(Nat)
  <2>1. Listing(S, row, Len(row)) /\ Listing(P, add, Len(add)) /\ Listing(D, del, Len(del))
    BY ListsMeans
  <2> QED BY <2>1 DEF Listing
<1>2. \A k \in Nat : row[k] \in V /\ add[k] \in V
  OBVIOUS
<1> HIDE DEF V, n
<1>3. n \in Nat /\ n = Len(row) + Len(add)
  BY <1>1 DEF n
<1>4. PICK end : RunsTo(start, step, MergeStates(V), n, end) /\ MergeRow(row, add, del) = end.out
  <2>1. step = [p \in MergeStates(V) \X (1..n) |-> MergeTurn(p[1], row, add, del)]
    OBVIOUS
  <2> HIDE DEF step
  <2>2. MergeEnds(row, add, del, MergeStates(V), n, step)
    BY <1>1, <1>2, <1>3, <2>1, MergeRowRuns
  <2> QED BY <2>2 DEF MergeEnds
<1> HIDE DEF step
<1>5. PICK r \in [0..n -> MergeStates(V)] :
         r[0] = start /\ r[n] = end /\ \A k \in 1..n : r[k] = step[<<r[k - 1], k>>]
  BY <1>4 DEF RunsTo
<1> DEFINE T == {k \in 0..n : Merged(r[k], k, row, D, del, add)}
<1>6. 0 \in T
  <2>1. Met(1, del, row, 0) /\ Values(row, 0, 0) = {} /\ Values(add, 0, 0) = {} /\ 1 - 1 = 0
    <3>1. Met(1, del, row, 0) /\ Values(row, 0, 0) = {}
      BY <1>1, NothingMet
    <3>2. Values(add, 0, 0) = {}
      BY <1>1, NothingMet
    <3> QED BY <3>1, <3>2
  <2>2. start.i = 1 /\ start.j = 1 /\ start.d = 1 /\ start.out = <<>>
    OBVIOUS
  <2> HIDE DEF start
  <2>3. MergedSet(row, 1, D, add, 1) = {}
    BY <2>1 DEF MergedSet
  <2>4. Lists(start.out, MergedSet(row, start.i, D, add, start.j))
    BY <2>2, <2>3, NothingIsListed
  <2>5. Passed(row, 1, add, 1)
    BY <1>1, <2>1 DEF Passed
  <2>6. Merged(start, 0, row, D, del, add)
    BY <2>1, <2>2, <2>4, <2>5 DEF Merged
  <2> QED BY <1>3, <1>5, <2>6
<1>7. \A k \in 1..n : k - 1 \in T => k \in T
  <2> TAKE k \in 1..n
  <2> HAVE k - 1 \in T
  <2>1. r[k] = MergeTurn(r[k - 1], row, add, del) /\ r[k - 1] \in MergeStates(V)
    <3>1. k - 1 \in 0..n /\ k \in 1..n /\ r[k - 1] \in MergeStates(V)
      BY <1>3
    <3> HIDE DEF T
    <3> QED BY <1>5, <3>1 DEF step
  <2>2. Merged(r[k - 1], k - 1, row, D, del, add)
    OBVIOUS
  <2>3. Merged(MergeTurn(r[k - 1], row, add, del), k, row, D, del, add)
    <3> HIDE DEF T
    <3> QED BY <1>3, <2>1, <2>2, MergeTurnKeeps
  <2>4. k \in 0..n
    BY <1>3
  <2> QED BY <2>1, <2>3, <2>4
<1>8. Merged(end, n, row, D, del, add)
  <2>1. 0..n \subseteq T
    <3> HIDE DEF T
    <3> QED BY <1>3, <1>6, <1>7, CountUp
  <2> QED BY <1>3, <1>5, <2>1
<1>9. Lists(end.out, MergedSet(row, Len(row) + 1, D, add, Len(add) + 1))
  <2>1. /\ end.i + end.j = n + 2 /\ Lists(end.out, MergedSet(row, end.i, D, add, end.j))
        /\ end.i \in 1..(Len(row) + 1) /\ end.j \in 1..(Len(add) + 1)
    BY <1>8 DEF Merged, Passed
  <2>2. end.i = Len(row) + 1 /\ end.j = Len(add) + 1
    <3>1. \A x, y \in Nat : \A a \in 1..(x + 1), b \in 1..(y + 1) :
            a + b = (x + y) + 2 => a = x + 1 /\ b = y + 1
      OBVIOUS
    <3>2. n = Len(row) + Len(add) /\ Len(row) \in Nat /\ Len(add) \in Nat
      BY <1>1, <1>3
    <3> HIDE DEF n
    <3> QED BY <2>1, <3>1, <3>2
  <2> QED BY <2>1, <2>2
<1>10. MergedSet(row, Len(row) + 1, D, add, Len(add) + 1) = (S \ D) \cup P
  <2>1. Values(row, 0, Len(row)) = S /\ Values(add, 0, Len(add)) = P
    BY RowValues
  <2>2. (Len(row) + 1) - 1 = Len(row) /\ (Len(add) + 1) - 1 = Len(add)
    BY <1>1
  <2> QED BY <2>1, <2>2 DEF MergedSet
<1> QED BY <1>4, <1>9, <1>10

-----------------------------------------------------------------------------
(* Laying out the rows one after the other *)

\* Rows of the same edges are the same.
LEMMA SameRow ==
  ASSUME NEW es, NEW fs, NEW u, {x \in es : x[1] = u} = {x \in fs : x[1] = u}
  PROVE  RowOf(es, u) = RowOf(fs, u)
<1>1. RowOf(es, u) = InOrder({e[2] : e \in {x \in es : x[1] = u}})
  BY DEF RowOf
<1>2. RowOf(fs, u) = InOrder({e[2] : e \in {x \in fs : x[1] = u}})
  BY DEF RowOf
<1> QED BY <1>1, <1>2, Zenon

\* Over a stretch of equal rows two sets' offsets keep their distance.
LEMMA SameStretch ==
  ASSUME NEW es \in SUBSET Edges, NEW fs \in SUBSET Edges,
         NEW a \in 0..N, NEW b \in 0..N,
         \A u \in Vertices : a <= u /\ u < b => RowOf(es, u) = RowOf(fs, u),
         NEW w \in a..b
  PROVE  OffsetOf(fs, w) - OffsetOf(es, w) = OffsetOf(fs, a) - OffsetOf(es, a)
<1> DEFINE apart(x) == OffsetOf(fs, x) - OffsetOf(es, x)
           T == {k \in 0..(b - a) : apart(a + k) = apart(a)}
<1>1. a \in Nat /\ b \in Nat /\ N \in Nat /\ a <= w /\ w <= b /\ w \in Nat /\ b - a \in Nat
  BY NumberOfVerticesIsNat
<1>2. 0 \in T
  BY <1>1
<1>3. \A k \in 1..(b - a) : k - 1 \in T => k \in T
  <2> TAKE k \in 1..(b - a)
  <2> HAVE k - 1 \in T
  <2>1. apart(a + (k - 1)) = apart(a) /\ k \in 0..(b - a)
    BY <1>1
  <2> DEFINE u == a + (k - 1)
  <2>2. u \in Vertices /\ a <= u /\ u < b /\ u + 1 = a + k /\ u \in 0..N
    BY <1>1 DEF Vertices
  <2>3. RowOf(es, u) = RowOf(fs, u)
    BY <2>2
  <2> HIDE DEF u
  <2>4. /\ OffsetOf(es, u + 1) = OffsetOf(es, u) + Len(RowOf(es, u))
        /\ OffsetOf(fs, u + 1) = OffsetOf(fs, u) + Len(RowOf(fs, u))
        /\ OffsetOf(es, u) \in Nat /\ OffsetOf(fs, u) \in Nat
    BY <2>2, OffsetsAddUp
  <2>5. Len(RowOf(es, u)) \in Nat
    BY RowLists
  <2>6. apart(u + 1) = apart(u)
    BY <2>3, <2>4, <2>5
  <2> HIDE DEF apart
  <2>7. apart(a + k) = apart(a)
    BY <2>1, <2>2, <2>6 DEF u
  <2> QED BY <2>1, <2>7
<1>4. w - a \in T
  <2>1. 0..(b - a) \subseteq T
    <3> HIDE DEF T
    <3> QED BY <1>1, <1>2, <1>3, CountUp
  <2>2. w - a \in 0..(b - a)
    BY <1>1
  <2> HIDE DEF T
  <2> QED BY <2>1, <2>2
<1>5. a + (w - a) = w
  BY <1>1
<1> QED BY <1>4, <1>5

\* The rows before u are laid out: their edges and their offsets.
Laid(edges, off, es, u) ==
  /\ edges \in Seq(Nat) /\ Len(edges) = OffsetOf(es, u) /\ off \in [0..N -> Int]
  /\ \A w \in Vertices : w < u =>
       /\ off[w] = OffsetOf(es, w)
       /\ \A j \in 1..Len(RowOf(es, w)) : edges[OffsetOf(es, w) + j] = RowOf(es, w)[j]

\* The places of a row lie between its offset and the next.
LEMMA PlacesOfRow ==
  ASSUME NEW es \in SUBSET Edges, NEW w \in Vertices, NEW u \in 0..N, w < u,
         NEW j \in 1..Len(RowOf(es, w))
  PROVE  /\ OffsetOf(es, w) \in Nat /\ OffsetOf(es, u) \in Nat
         /\ OffsetOf(es, w) + j \in 1..OffsetOf(es, u)
<1>1. w \in 0..N /\ w + 1 \in 0..N /\ w + 1 <= u
  BY NumberOfVerticesIsNat DEF Vertices
<1>2. /\ OffsetOf(es, w) \in Nat /\ OffsetOf(es, u) \in Nat /\ Len(RowOf(es, w)) \in Nat
      /\ OffsetOf(es, w + 1) = OffsetOf(es, w) + Len(RowOf(es, w))
      /\ OffsetOf(es, w + 1) <= OffsetOf(es, u)
  BY <1>1, OffsetsAddUp, RowLists
<1> QED BY <1>2

\* One row more.
LEMMA LayRow ==
  ASSUME NEW es \in SUBSET Edges, NEW u \in Vertices, NEW edges, NEW off, Laid(edges, off, es, u)
  PROVE  Laid(edges \o RowOf(es, u), [off EXCEPT ![u] = Len(edges)], es, u + 1)
<1> DEFINE row == RowOf(es, u)
           a == OffsetOf(es, u)
           new == edges \o row
           noff == [off EXCEPT ![u] = Len(edges)]
<1>1. u \in 0..N /\ u + 1 \in 0..N /\ u \in Nat
  BY NumberOfVerticesIsNat DEF Vertices
<1>2. /\ a \in Nat /\ row \in Seq(Nat) /\ Len(row) \in Nat
      /\ OffsetOf(es, u + 1) = a + Len(row)
  BY <1>1, OffsetsAddUp, RowLists, ListedIsFinite
<1>3. edges \in Seq(Nat) /\ Len(edges) = a /\ off \in [0..N -> Int]
  BY DEF Laid
<1>4. new \in Seq(Nat) /\ Joins(edges, row, new)
  BY <1>2, <1>3, JoinOfSeqs
<1>5. /\ Len(new) = a + Len(row) /\ \A k \in 1..a : new[k] = edges[k]
      /\ \A k \in 1..Len(row) : new[a + k] = row[k]
  BY <1>3, <1>4 DEF Joins
<1>6. noff \in [0..N -> Int] /\ noff[u] = a /\ \A w \in 0..N : w # u => noff[w] = off[w]
  BY <1>1, <1>2, <1>3
<1> HIDE DEF new, noff
<1>7. ASSUME NEW w \in Vertices, w < u
      PROVE  /\ noff[w] = OffsetOf(es, w)
             /\ \A j \in 1..Len(RowOf(es, w)) : new[OffsetOf(es, w) + j] = RowOf(es, w)[j]
  <2>1. w \in 0..N /\ w # u
    BY <1>1, <1>7, NumberOfVerticesIsNat DEF Vertices
  <2>2. /\ off[w] = OffsetOf(es, w)
        /\ \A j \in 1..Len(RowOf(es, w)) : edges[OffsetOf(es, w) + j] = RowOf(es, w)[j]
    BY <1>7 DEF Laid
  <2>3. \A j \in 1..Len(RowOf(es, w)) : OffsetOf(es, w) + j \in 1..a
    BY <1>1, <1>7, PlacesOfRow
  <2> HIDE DEF a
  <2> QED BY <1>5, <1>6, <2>1, <2>2, <2>3
<1>8. ASSUME NEW w \in Vertices, w < u + 1, ~ (w < u) PROVE w = u
  BY <1>1, <1>8, NumberOfVerticesIsNat DEF Vertices
<1>9. \A w \in Vertices : w < u + 1 =>
        /\ noff[w] = OffsetOf(es, w)
        /\ \A j \in 1..Len(RowOf(es, w)) : new[OffsetOf(es, w) + j] = RowOf(es, w)[j]
  <2> TAKE w \in Vertices
  <2> HAVE w < u + 1
  <2>1. CASE w < u
    BY <1>7, <2>1
  <2>2. CASE ~ (w < u)
    <3>1. w = u
      BY <1>8, <2>2
    <3> QED BY <1>5, <1>6, <3>1
  <2> QED BY <2>1, <2>2
<1>10. Laid(new, noff, es, u + 1)
  <2>1. Len(new) = OffsetOf(es, u + 1)
    BY <1>2, <1>5
  <2> HIDE DEF row, a
  <2> QED BY <1>4, <1>6, <1>9, <2>1 DEF Laid
<1> QED BY <1>10 DEF new, noff, row

\* When all rows are laid out the arrays lack only the end offset.
LEMMA AllRowsLaid ==
  ASSUME NEW es \in SUBSET Edges, NEW edges, NEW off, Laid(edges, off, es, N), NEW end,
         end = OffsetOf(es, N)
  PROVE  IsCsr([edges |-> edges, offsets |-> [off EXCEPT ![N] = end]], es)
<1> DEFINE offsets == [off EXCEPT ![N] = end]
           c == [edges |-> edges, offsets |-> offsets]
<1>1. N \in 0..N /\ \A w \in 0..N : w = N \/ (w \in Vertices /\ w < N)
  BY NumberOfVerticesIsNat DEF Vertices
<1>2. offsets = [w \in 0..N |-> OffsetOf(es, w)]
  <2>1. off \in [0..N -> Int]
    BY DEF Laid
  <2>2. ASSUME NEW w \in 0..N PROVE offsets[w] = OffsetOf(es, w)
    <3>1. CASE w = N
      BY <2>1, <3>1
    <3>2. CASE w # N
      <4>1. off[w] = OffsetOf(es, w)
        BY <1>1, <3>2 DEF Laid
      <4> QED BY <2>1, <3>2, <4>1
    <3> QED BY <3>1, <3>2
  <2>3. offsets = [w \in 0..N |-> offsets[w]]
    BY <2>1
  <2> HIDE DEF offsets
  <2> QED BY <2>2, <2>3
<1> HIDE DEF offsets
<1>3. edges \in Seq(Nat) /\ Len(edges) = Cardinality(es)
  BY OffsetsAddUp DEF Laid
<1>4. \A u \in Vertices : \A j \in 1..Len(RowOf(es, u)) : edges[OffsetOf(es, u) + j] = RowOf(es, u)[j]
  <2>1. \A u \in Vertices : u < N
    BY NumberOfVerticesIsNat DEF Vertices
  <2> QED BY <2>1 DEF Laid
<1>5. c.edges = edges /\ c = [offsets |-> [w \in 0..N |-> OffsetOf(es, w)], edges |-> edges]
  BY <1>2
<1> HIDE DEF c
<1>6. IsCsr(c, es)
  BY <1>3, <1>4, <1>5 DEF IsCsr
<1> QED BY <1>6 DEF c, offsets

-----------------------------------------------------------------------------
(* The flush *)

\* The states of flush's loop over the affected rows.
FlushStates == [cur : 0..N, edges : Seq(Nat), off : [0..N -> Int]]

\* Copying a range leads from a state of the loop to another, and moves no
\* cursor.
LEMMA CopyRangeType ==
  ASSUME NEW es \in SUBSET Edges, NEW c, IsCsr(c, es), NEW acc \in FlushStates, NEW u \in 0..N
  PROVE  CopyRange(c, acc, u) \in FlushStates /\ CopyRange(c, acc, u).cur = acc.cur
<1> DEFINE s == c.offsets[acc.cur]
           t == c.offsets[u]
           part == SubSeq(c.edges, s + 1, t)
           shift == Len(acc.edges) - s
           off == [x \in 0..N |-> IF acc.cur <= x /\ x < u THEN c.offsets[x] + shift ELSE acc.off[x]]
<1>1. acc.cur \in 0..N /\ acc.edges \in Seq(Nat) /\ acc.off \in [0..N -> Int]
  BY DEF FlushStates
<1>2. \A x \in 0..N : c.offsets[x] \in Nat /\ c.offsets[x] <= Len(c.edges)
  <2> TAKE x \in 0..N
  <2>1. c.offsets[x] = OffsetOf(es, x)
    BY CsrOffsets
  <2>2. OffsetOf(es, x) \in Nat /\ OffsetOf(es, x) <= Cardinality(es)
    BY OffsetsAddUp
  <2> QED BY <2>1, <2>2 DEF IsCsr
<1>3. s \in Nat /\ t \in Nat /\ t <= Len(c.edges) /\ c.edges \in Seq(Nat)
  BY <1>1, <1>2 DEF IsCsr
<1> HIDE DEF s, t
<1>4. part \in Seq(Nat)
  <2>1. CASE s <= t
    BY <1>3, <2>1, SliceOfSeq
  <2>2. CASE ~ (s <= t)
    <3>1. part = <<>>
      BY <1>3, <2>2
    <3>2. <<>> \in Seq(Nat)
      OBVIOUS
    <3> QED BY <3>1, <3>2
  <2> QED BY <2>1, <2>2
<1> HIDE DEF part
<1>5. shift \in Int
  BY <1>1, <1>3
<1>6. off \in [0..N -> Int]
  <2> HIDE DEF shift
  <2>1. \A x \in 0..N : c.offsets[x] + shift \in Int /\ acc.off[x] \in Int
    <3> TAKE x \in 0..N
    <3>1. c.offsets[x] \in Nat
      BY <1>2
    <3>2. acc.off[x] \in Int
      BY <1>1
    <3> QED BY <1>5, <3>1, <3>2
  <2> QED BY <2>1
<1>7. acc.edges \o part \in Seq(Nat)
  BY <1>1, <1>4, JoinOfSeqs
<1>8. CopyRange(c, acc, u) = [acc EXCEPT !.edges = @ \o part, !.off = off]
  BY DEF CopyRange, s, t, part
<1> HIDE DEF off
<1> QED BY <1>1, <1>6, <1>7, <1>8 DEF FlushStates

\* The rows of a range that nothing changes are laid out by copying them.
LEMMA CopyRangeLays ==
  ASSUME NEW es \in SUBSET Edges, NEW fs \in SUBSET Edges, NEW c, IsCsr(c, es),
         NEW acc \in FlushStates, Laid(acc.edges, acc.off, fs, acc.cur),
         NEW u \in 0..N, acc.cur <= u,
         \A w \in Vertices : acc.cur <= w /\ w < u => RowOf(es, w) = RowOf(fs, w)
  PROVE  Laid(CopyRange(c, acc, u).edges, CopyRange(c, acc, u).off, fs, u)
<1> DEFINE cur == acc.cur
           s == OffsetOf(es, cur)
           t == OffsetOf(es, u)
           a == OffsetOf(fs, cur)
           part == SubSeq(c.edges, s + 1, t)
           new == acc.edges \o part
           off == [x \in 0..N |-> IF cur <= x /\ x < u THEN c.offsets[x] + (a - s) ELSE acc.off[x]]
<1>1. cur \in 0..N /\ acc.edges \in Seq(Nat) /\ acc.off \in [0..N -> Int] /\ Len(acc.edges) = a
  BY DEF FlushStates, Laid
<1>2. /\ s \in Nat /\ t \in Nat /\ a \in Nat /\ s <= t /\ t <= Len(c.edges)
      /\ c.edges \in Seq(Nat)
  BY <1>1, OffsetsAddUp DEF IsCsr
<1>3. c.offsets[cur] = s /\ c.offsets[u] = t
  BY <1>1, CsrOffsets
<1>4. CopyRange(c, acc, u).edges = new /\ CopyRange(c, acc, u).off = off
  <2>1. CopyRange(c, acc, u) = [acc EXCEPT !.edges = @ \o part, !.off = off]
    BY <1>1, <1>3 DEF CopyRange
  <2> HIDE DEF part, off
  <2> QED BY <2>1 DEF FlushStates
<1>5. part \in Seq(Nat) /\ Len(part) = t - s /\ \A j \in 1..(t - s) : part[j] = c.edges[s + j]
  <2> HIDE DEF s, t
  <2> QED BY <1>2, SliceOfSeq
<1> HIDE DEF part
<1>6. /\ new \in Seq(Nat) /\ Len(new) = a + (t - s)
      /\ \A k \in 1..a : new[k] = acc.edges[k]
      /\ \A k \in 1..(t - s) : new[a + k] = part[k]
  <2>1. new \in Seq(Nat) /\ Joins(acc.edges, part, new)
    BY <1>1, <1>5, JoinOfSeqs
  <2> HIDE DEF new, a, t, s
  <2> QED BY <1>1, <1>5, <2>1 DEF Joins
<1> HIDE DEF new
<1>7. \A w \in cur..u : w \in 0..N /\ OffsetOf(fs, w) - OffsetOf(es, w) = a - s
  <2> TAKE w \in cur..u
  <2>1. w \in 0..N
    BY <1>1, NumberOfVerticesIsNat
  <2>2. OffsetOf(fs, w) - OffsetOf(es, w) = OffsetOf(fs, cur) - OffsetOf(es, cur)
    BY <1>1, SameStretch
  <2> QED BY <2>1, <2>2
<1>8. Len(new) = OffsetOf(fs, u)
  <2>1. u \in cur..u /\ OffsetOf(fs, u) \in Nat /\ OffsetOf(es, u) \in Nat
    <3>1. u \in Nat /\ cur \in Nat /\ cur <= u
      BY <1>1, NumberOfVerticesIsNat
    <3>2. OffsetOf(fs, u) \in Nat
      BY OffsetsAddUp
    <3>3. OffsetOf(es, u) \in Nat
      BY OffsetsAddUp
    <3> HIDE DEF cur
    <3> QED BY <3>1, <3>2, <3>3
  <2>2. OffsetOf(fs, u) - OffsetOf(es, u) = a - s
    <3> HIDE DEF a, s, cur
    <3> QED BY <1>7, <2>1
  <2> HIDE DEF a, s
  <2> QED BY <1>2, <1>6, <2>1, <2>2
<1>9. off \in [0..N -> Int]
  <2>1. \A x \in 0..N : c.offsets[x] \in Nat /\ acc.off[x] \in Int
    <3> TAKE x \in 0..N
    <3>1. c.offsets[x] = OffsetOf(es, x)
      BY CsrOffsets
    <3>2. OffsetOf(es, x) \in Nat
      BY OffsetsAddUp
    <3>3. acc.off[x] \in Int
      BY <1>1
    <3> QED BY <3>1, <3>2, <3>3
  <2> HIDE DEF a, s
  <2> QED BY <1>2, <2>1
<1>10. ASSUME NEW w \in Vertices, w < cur
       PROVE  /\ off[w] = OffsetOf(fs, w)
              /\ \A j \in 1..Len(RowOf(fs, w)) : new[OffsetOf(fs, w) + j] = RowOf(fs, w)[j]
  <2>1. w \in 0..N /\ ~ (cur <= w)
    BY <1>1, <1>10, NumberOfVerticesIsNat DEF Vertices
  <2>2. /\ acc.off[w] = OffsetOf(fs, w)
        /\ \A j \in 1..Len(RowOf(fs, w)) : acc.edges[OffsetOf(fs, w) + j] = RowOf(fs, w)[j]
    BY <1>10 DEF Laid
  <2>3. \A j \in 1..Len(RowOf(fs, w)) : OffsetOf(fs, w) + j \in 1..a
    BY <1>1, <1>10, PlacesOfRow
  <2>4. off[w] = acc.off[w]
    BY <2>1
  <2> HIDE DEF a, s
  <2> QED BY <1>6, <2>2, <2>3, <2>4
<1>11. ASSUME NEW w \in Vertices, ~ (w < cur), w < u
       PROVE  /\ off[w] = OffsetOf(fs, w)
              /\ \A j \in 1..Len(RowOf(fs, w)) : new[OffsetOf(fs, w) + j] = RowOf(fs, w)[j]
  <2> DEFINE row == RowOf(es, w)
             o == OffsetOf(es, w)
             p == OffsetOf(fs, w)
  <2>1. w \in 0..N /\ cur <= w /\ w \in cur..u
    BY <1>1, <1>11, NumberOfVerticesIsNat DEF Vertices
  <2>2. row = RowOf(fs, w)
    BY <1>11, <2>1
  <2>3. o \in Nat /\ p \in Nat /\ s <= o /\ p - o = a - s
    BY <1>1, <1>7, <2>1, OffsetsAddUp
  <2>4. off[w] = p
    <3>1. c.offsets[w] = o
      BY <2>1, CsrOffsets
    <3>2. off[w] = c.offsets[w] + (a - s)
      BY <1>11, <2>1
    <3> HIDE DEF o, p, a, s, off
    <3> QED BY <1>2, <2>3, <3>1, <3>2
  <2>5. ASSUME NEW j \in 1..Len(row) PROVE new[p + j] = row[j]
    <3>1. o + j \in 1..t
      BY <1>11, PlacesOfRow
    <3>2. c.edges[o + j] = row[j]
      BY DEF IsCsr
    <3>3. j \in Nat /\ j >= 1
      <4>1. Len(row) \in Nat
        BY RowLists
      <4> QED BY <4>1
    <3> HIDE DEF o, p, a, s, t, row
    <3>4. (o - s) + j \in 1..(t - s) /\ a + ((o - s) + j) = p + j /\ s + ((o - s) + j) = o + j
      BY <1>2, <2>3, <3>1, <3>3
    <3>5. new[a + ((o - s) + j)] = part[(o - s) + j] /\ part[(o - s) + j] = c.edges[s + ((o - s) + j)]
      BY <1>5, <1>6, <3>4
    <3> QED BY <3>2, <3>4, <3>5
  <2> HIDE DEF off
  <2> QED BY <2>2, <2>4, <2>5
<1> HIDE DEF off
<1>12. Laid(new, off, fs, u)
  <2> HIDE DEF cur
  <2> QED BY <1>6, <1>8, <1>9, <1>10, <1>11 DEF Laid
<1> QED BY <1>4, <1>12

\* A flush starts from a settled CSR and disjoint deltas.
Flushes(es, add, del, fs) ==
  /\ es \subseteq Edges /\ add \subseteq Edges /\ del \subseteq es /\ add \cap es = {}
  /\ fs = (es \ del) \cup add

\* What it makes of a row.
LEMMA FlushedRow ==
  ASSUME NEW es, NEW add, NEW del, NEW fs, Flushes(es, add, del, fs), NEW u
  PROVE  MergeRow(RowOf(es, u), RowOf(add, u), RowOf(del, u)) = RowOf(fs, u)
<1>1. /\ es \in SUBSET Edges /\ add \in SUBSET Edges /\ del \in SUBSET Edges
      /\ fs \in SUBSET Edges /\ fs = (es \ del) \cup add /\ del \subseteq es /\ add \cap es = {}
  BY DEF Flushes
<1>2. /\ Lists(RowOf(es, u), Dests(es, u)) /\ Lists(RowOf(add, u), Dests(add, u))
      /\ Lists(RowOf(del, u), Dests(del, u))
  BY <1>1, RowLists
<1>3. ASSUME NEW gs \in SUBSET Edges, NEW v PROVE v \in Dests(gs, u) <=> <<u, v>> \in gs
  <2>1. \A e \in gs : e = <<e[1], e[2]>>
    BY EdgeSets
  <2>2. ASSUME v \in Dests(gs, u) PROVE <<u, v>> \in gs
    <3>1. PICK e \in gs : e[1] = u /\ e[2] = v
      BY <2>2 DEF Dests
    <3> QED BY <2>1, <3>1
  <2>3. ASSUME <<u, v>> \in gs PROVE v \in Dests(gs, u)
    <3>1. <<u, v>>[1] = u /\ <<u, v>>[2] = v
      OBVIOUS
    <3> QED BY <2>3, <3>1 DEF Dests
  <2> QED BY <2>2, <2>3
<1>4. Dests(add, u) \cap Dests(es, u) = {} /\ Dests(del, u) \subseteq Dests(es, u)
  BY <1>1, <1>3
<1>5. Dests(fs, u) = (Dests(es, u) \ Dests(del, u)) \cup Dests(add, u)
  <2>1. \A v : v \in Dests(fs, u) <=> v \in (Dests(es, u) \ Dests(del, u)) \cup Dests(add, u)
    BY <1>1, <1>3
  <2> QED BY <2>1
<1>6. Lists(MergeRow(RowOf(es, u), RowOf(add, u), RowOf(del, u)),
            (Dests(es, u) \ Dests(del, u)) \cup Dests(add, u))
  BY <1>2, <1>4, MergeRowIs
<1>7. Lists(MergeRow(RowOf(es, u), RowOf(add, u), RowOf(del, u)), Dests(fs, u))
  BY <1>5, <1>6, Zenon
<1> QED BY <1>7, RowIs

\* A row no delta names stays as it is.
LEMMA UnaffectedRow ==
  ASSUME NEW es, NEW add, NEW del, NEW fs, Flushes(es, add, del, fs), NEW u,
         u \notin {e[1] : e \in add \cup del}
  PROVE  RowOf(es, u) = RowOf(fs, u)
<1>1. {x \in es : x[1] = u} = {x \in fs : x[1] = u}
  BY DEF Flushes
<1> QED BY <1>1, SameRow

\* One affected row of the flush.
LEMMA FlushRowType ==
  ASSUME NEW es, NEW add, NEW del, NEW fs, Flushes(es, add, del, fs),
         NEW c, IsCsr(c, es), NEW acc \in FlushStates, NEW u \in Vertices
  PROVE  /\ FlushRow(c, add, del, acc, u) \in FlushStates
         /\ FlushRow(c, add, del, acc, u) =
              [cur |-> u + 1,
               edges |-> CopyRange(c, acc, u).edges \o RowOf(fs, u),
               off |-> [CopyRange(c, acc, u).off EXCEPT ![u] = Len(CopyRange(c, acc, u).edges)]]
<1> DEFINE before == CopyRange(c, acc, u)
           row == RowOf(fs, u)
<1>1. es \in SUBSET Edges /\ fs \in SUBSET Edges
  BY DEF Flushes
<1>2. u \in 0..N /\ u + 1 \in 0..N
  BY NumberOfVerticesIsNat DEF Vertices
<1>3. before \in FlushStates
  BY <1>1, <1>2, CopyRangeType
<1>4. FlushRow(c, add, del, acc, u) =
        [cur |-> u + 1, edges |-> before.edges \o row,
         off |-> [before.off EXCEPT ![u] = Len(before.edges)]]
  <2>1. CsrRow(c, u) = RowOf(es, u)
    BY <1>1, SliceIsRow
  <2>2. MergeRow(RowOf(es, u), RowOf(add, u), RowOf(del, u)) = row
    BY FlushedRow
  <2> HIDE DEF row
  <2> QED BY <2>1, <2>2 DEF FlushRow
<1>5. row \in Seq(Nat)
  BY <1>1, RowLists, ListedIsFinite
<1> HIDE DEF before, row
<1>6. before.edges \in Seq(Nat) /\ before.off \in [0..N -> Int] /\ Len(before.edges) \in Int
  BY <1>3 DEF FlushStates
<1>7. before.edges \o row \in Seq(Nat)
  BY <1>5, <1>6, JoinOfSeqs
<1>8. [before.off EXCEPT ![u] = Len(before.edges)] \in [0..N -> Int]
  BY <1>6
<1>9. FlushRow(c, add, del, acc, u) \in FlushStates
  BY <1>2, <1>4, <1>7, <1>8 DEF FlushStates
<1> QED BY <1>4, <1>9 DEF before, row

\* What the flush has laid out after some of the affected rows: all up to the last one.
Flushed(acc, k, affected, fs) ==
  /\ Laid(acc.edges, acc.off, fs, acc.cur)
  /\ \A p \in 1..Len(affected) : p <= k <=> affected[p] < acc.cur

\* The next affected row keeps it so: the range before it is copied with its
\* offsets, and the row itself is merged.
LEMMA FlushRowKeeps ==
  ASSUME NEW es, NEW add, NEW del, NEW fs, Flushes(es, add, del, fs), NEW c, IsCsr(c, es),
         NEW affected, Lists(affected, {e[1] : e \in add \cup del}),
         NEW acc \in FlushStates, NEW k \in 1..Len(affected), Flushed(acc, k - 1, affected, fs)
  PROVE  /\ affected[k] \in Vertices
         /\ Flushed(FlushRow(c, add, del, acc, affected[k]), k, affected, fs)
<1> DEFINE U == {e[1] : e \in add \cup del}
           u == affected[k]
           before == CopyRange(c, acc, u)
           next == FlushRow(c, add, del, acc, u)
<1>1. es \in SUBSET Edges /\ fs \in SUBSET Edges /\ U \subseteq Vertices
  <2>1. es \in SUBSET Edges /\ fs \in SUBSET Edges /\ add \cup del \in SUBSET Edges
    BY DEF Flushes
  <2>2. \A e \in add \cup del : e[1] \in Vertices
    BY <2>1, EdgeSets
  <2> QED BY <2>1, <2>2
<1>2. /\ Len(affected) \in Nat /\ U = {affected[p] : p \in 1..Len(affected)}
      /\ \A p \in 1..Len(affected) : affected[p] \in Nat
      /\ \A p, q \in 1..Len(affected) : p < q => affected[p] < affected[q]
  <2>1. Listing(U, affected, Len(affected))
    BY ListsMeans
  <2> QED BY <2>1 DEF Listing
<1> HIDE DEF U
<1>3. u \in U /\ u \in Vertices /\ u \in 0..N /\ u \in Nat
  <2>1. u \in U
    BY <1>2
  <2> HIDE DEF u
  <2>2. u \in Vertices
    BY <1>1, <2>1
  <2> QED BY <2>1, <2>2, NumberOfVerticesIsNat DEF Vertices
<1>4. /\ Laid(acc.edges, acc.off, fs, acc.cur) /\ acc.cur \in Nat
      /\ \A p \in 1..Len(affected) : p < k <=> affected[p] < acc.cur
  <2>1. \A p \in 1..Len(affected) : p <= k - 1 <=> p < k
    BY <1>2
  <2>2. acc.cur \in Nat
    BY NumberOfVerticesIsNat DEF FlushStates
  <2> QED BY <2>1, <2>2 DEF Flushed
<1>5. acc.cur <= u
  <2>1. ~ (k < k)
    BY <1>2
  <2>2. ~ (u < acc.cur)
    BY <1>4, <2>1
  <2> HIDE DEF u
  <2> QED BY <1>3, <1>4, <2>2
<1> HIDE DEF u
<1>6. ASSUME NEW w \in Vertices, acc.cur <= w, w < u PROVE RowOf(es, w) = RowOf(fs, w)
  <2>1. w \notin U
    <3> SUFFICES ASSUME w \in U PROVE FALSE
      OBVIOUS
    <3>1. PICK p \in 1..Len(affected) : affected[p] = w
      BY <1>2
    <3>2. ~ (w < acc.cur) /\ w \in Nat
      BY <1>2, <1>4, <1>6, <3>1
    <3>3. ~ (p < k)
      BY <1>4, <3>1, <3>2
    <3>4. p = k \/ affected[k] < affected[p]
      BY <1>2, <3>3
    <3>5. w = u \/ u < w
      BY <3>1, <3>4 DEF u
    <3> QED BY <1>3, <1>6, <3>2, <3>5
  <2> QED BY <2>1, UnaffectedRow DEF U
<1>7. Laid(before.edges, before.off, fs, u)
  BY <1>1, <1>3, <1>4, <1>5, <1>6, CopyRangeLays
<1>8. next = [cur |-> u + 1, edges |-> before.edges \o RowOf(fs, u),
              off |-> [before.off EXCEPT ![u] = Len(before.edges)]]
  BY <1>3, FlushRowType
<1> HIDE DEF before, next
<1>9. Laid(next.edges, next.off, fs, next.cur) /\ next.cur = u + 1
  <2>1. /\ next.edges = before.edges \o RowOf(fs, u) /\ next.cur = u + 1
        /\ next.off = [before.off EXCEPT ![u] = Len(before.edges)]
    BY <1>8
  <2>2. Laid(before.edges \o RowOf(fs, u), [before.off EXCEPT ![u] = Len(before.edges)], fs, u + 1)
    BY <1>1, <1>3, <1>7, LayRow
  <2> QED BY <2>1, <2>2
<1>10. ASSUME NEW p \in 1..Len(affected) PROVE p <= k <=> affected[p] < u + 1
  <2>1. /\ p < k => affected[p] < u
        /\ k < p => u < affected[p]
        /\ p = k => affected[p] = u
    BY <1>2 DEF u
  <2>2. affected[p] \in Nat /\ p \in Nat /\ k \in Nat
    BY <1>2
  <2> QED BY <1>3, <2>1, <2>2
<1> QED BY <1>3, <1>9, <1>10 DEF Flushed, u, next

\* The flush is a run of its loop over the affected rows.
FlushStart == [cur |-> 0, edges |-> <<>>, off |-> [x \in 0..N |-> 0]]
FlushEnds(c, add, del, affected, step) ==
  \E end : /\ RunsTo(FlushStart, step, FlushStates, Len(affected), end)
           /\ FlushArrays(c, add, del) =
                [edges |-> CopyRange(c, end, N).edges,
                 offsets |-> [CopyRange(c, end, N).off EXCEPT
                                ![N] = c.offsets[N] + Len(end.edges) - c.offsets[end.cur]]]

\* Such a run exists.
LEMMA FlushRuns ==
  ASSUME NEW es, NEW add, NEW del, NEW fs, Flushes(es, add, del, fs), NEW c, IsCsr(c, es),
         NEW affected, affected = InOrder({e[1] : e \in add \cup del}),
         affected \in Seq(Vertices), NEW step,
         step = [p \in FlushStates \X (1..Len(affected)) |->
                   FlushRow(c, add, del, p[1], affected[p[2]])]
  PROVE  FlushEnds(c, add, del, affected, step)
<1> DEFINE n == Len(affected)
           Runs(g) == g = [s \in SUBSET (1..n) |->
                             IF s = {} THEN FlushStart
                             ELSE FlushRow(c, add, del, g[s \ {Max(s)}], affected[Max(s)])]
           fold == CHOOSE g : Runs(g)
<1>1. n \in Nat /\ DOMAIN affected = 1..n /\ \A p \in 1..n : affected[p] \in Vertices
  BY LenProperties, ElementOfSeq
<1>2. FlushArrays(c, add, del) =
        [edges |-> CopyRange(c, fold[1..n], N).edges,
         offsets |-> [CopyRange(c, fold[1..n], N).off EXCEPT
                        ![N] = c.offsets[N] + Len(fold[1..n].edges) - c.offsets[fold[1..n].cur]]]
  <2> DEFINE merged == FoldLeft(LAMBDA acc, u : FlushRow(c, add, del, acc, u), FlushStart, affected)
  <2>1. FlushArrays(c, add, del) =
          [edges |-> CopyRange(c, merged, N).edges,
           offsets |-> [CopyRange(c, merged, N).off EXCEPT
                          ![N] = c.offsets[N] + Len(merged.edges) - c.offsets[merged.cur]]]
    BY DEF FlushArrays, FlushStart
  <2>2. merged = fold[1..n]
    BY <1>1 DEF FoldLeft, MapThenFoldSet
  <2> HIDE DEF merged, fold
  <2> QED BY <2>1, <2>2
<1>3. FlushStart \in FlushStates /\ step \in [FlushStates \X (1..n) -> FlushStates]
  <2>1. FlushStart \in FlushStates
    <3>1. <<>> \in Seq(Nat) /\ 0 \in 0..N /\ [x \in 0..N |-> 0] \in [0..N -> Int]
      BY NumberOfVerticesIsNat
    <3> QED BY <3>1 DEF FlushStates, FlushStart
  <2>2. \A p \in FlushStates \X (1..n) : FlushRow(c, add, del, p[1], affected[p[2]]) \in FlushStates
    <3> TAKE p \in FlushStates \X (1..n)
    <3>1. p[1] \in FlushStates /\ affected[p[2]] \in Vertices
      BY <1>1
    <3> QED BY <3>1, FlushRowType
  <2> QED BY <2>1, <2>2
<1> HIDE DEF n
<1>4. Runs(fold)
  <2>1. PICK g \in [SUBSET (1..n) -> FlushStates] : SolvesFold(g, n, FlushStart, step)
    BY <1>1, <1>3, FoldExists
  <2>2. ASSUME NEW s \in SUBSET (1..n), s # {}
        PROVE  g[s] = FlushRow(c, add, del, g[s \ {Max(s)}], affected[Max(s)])
    <3>1. g[s \ {Max(s)}] \in FlushStates
      OBVIOUS
    <3>2. Max(s) \in 1..n
      BY <1>1, <2>2, SubsetHasMax
    <3>3. g[s] = step[<<g[s \ {Max(s)}], Max(s)>>]
      BY <2>1, <2>2 DEF SolvesFold
    <3> QED BY <3>1, <3>2, <3>3 DEF n
  <2>3. g[{}] = FlushStart
    BY <2>1 DEF SolvesFold
  <2>4. Runs(g)
    BY <2>2, <2>3
  <2> HIDE DEF Runs
  <2> QED BY <2>4
<1> HIDE DEF fold
<1>5. fold[{}] = FlushStart
  BY <1>4
<1>6. ASSUME NEW s \in SUBSET (1..n), s # {}, fold[s \ {Max(s)}] \in FlushStates
      PROVE  fold[s] = step[<<fold[s \ {Max(s)}], Max(s)>>]
  <2>1. Max(s) \in 1..n
    BY <1>1, <1>6, SubsetHasMax
  <2>2. fold[s] = FlushRow(c, add, del, fold[s \ {Max(s)}], affected[Max(s)])
    BY <1>4, <1>6
  <2> QED BY <1>6, <2>1, <2>2 DEF n
<1>7. RunsTo(FlushStart, step, FlushStates, n, fold[1..n])
  BY <1>1, <1>3, <1>5, <1>6, FoldIsRun
<1> QED BY <1>2, <1>7 DEF n, FlushEnds

\* It ends with the arrays of what the fold of the deltas makes of the edges.
LEMMA FlushArraysIs ==
  ASSUME NEW es, NEW add, NEW del, NEW fs, Flushes(es, add, del, fs), NEW c, IsCsr(c, es)
  PROVE  FlushArrays(c, add, del) = FromEdges(fs)
<1> DEFINE U == {e[1] : e \in add \cup del}
           affected == InOrder(U)
           n == Len(affected)
           step == [p \in FlushStates \X (1..n) |-> FlushRow(c, add, del, p[1], affected[p[2]])]
<1>1. es \in SUBSET Edges /\ fs \in SUBSET Edges /\ add \cup del \in SUBSET Edges
  BY DEF Flushes
<1>2. /\ Lists(affected, U) /\ U \subseteq Vertices /\ affected \in Seq(Vertices) /\ n \in Nat
      /\ U = {affected[p] : p \in 1..n}
  <2>1. IsFiniteSet(add \cup del) /\ \A e \in add \cup del : e[1] \in Vertices
    BY <1>1, EdgeSets
  <2>2. IsFiniteSet(U)
    <3> DEFINE f == [e \in add \cup del |-> e[1]]
    <3>1. f \in Surjection(add \cup del, U)
      <4>1. f \in [add \cup del -> U] /\ \A u \in U : \E e \in add \cup del : f[e] = u
        OBVIOUS
      <4> QED BY <4>1 DEF Surjection
    <3> HIDE DEF f, U
    <3> QED BY <2>1, <3>1, FS_Surjection
  <2>3. U \subseteq Vertices
    BY <2>1
  <2>4. U \subseteq Nat
    BY <2>3, NumberOfVerticesIsNat DEF Vertices
  <2> HIDE DEF U
  <2>5. Lists(affected, U)
    BY <2>2, <2>4, InOrderLists
  <2> HIDE DEF affected
  <2>6. Listing(U, affected, n)
    BY <2>5, ListsMeans
  <2>7. /\ n \in Nat /\ U = {affected[p] : p \in 1..n} /\ affected \in Seq(Nat)
    BY <2>6 DEF Listing
  <2>8. \A p \in 1..n : affected[p] \in Vertices
    BY <2>3, <2>7
  <2>9. affected = [p \in 1..n |-> affected[p]]
    BY <2>7
  <2>10. affected \in Seq(Vertices)
    BY <2>7, <2>8, <2>9
  <2> QED BY <2>3, <2>5, <2>7, <2>10
<1>3. affected = InOrder({e[1] : e \in add \cup del})
  OBVIOUS
<1>4. step = [p \in FlushStates \X (1..Len(affected)) |-> FlushRow(c, add, del, p[1], affected[p[2]])]
  OBVIOUS
<1> HIDE DEF affected, step
<1>5. FlushEnds(c, add, del, affected, step)
  BY <1>2, <1>3, <1>4, FlushRuns
<1>6. PICK end :
         /\ RunsTo(FlushStart, step, FlushStates, n, end)
         /\ FlushArrays(c, add, del) =
              [edges |-> CopyRange(c, end, N).edges,
               offsets |-> [CopyRange(c, end, N).off EXCEPT
                              ![N] = c.offsets[N] + Len(end.edges) - c.offsets[end.cur]]]
  BY <1>5 DEF FlushEnds
<1> HIDE DEF n
<1>7. PICK r \in [0..n -> FlushStates] :
         r[0] = FlushStart /\ r[n] = end /\ \A k \in 1..n : r[k] = step[<<r[k - 1], k>>]
  BY <1>6 DEF RunsTo
<1> DEFINE T == {k \in 0..n : Flushed(r[k], k, affected, fs)}
<1>8. 0 \in T
  <2>1. FlushStart.cur = 0 /\ FlushStart.edges = <<>> /\ FlushStart.off = [x \in 0..N |-> 0]
    BY DEF FlushStart
  <2>2. Laid(<<>>, [x \in 0..N |-> 0], fs, 0)
    <3>1. <<>> \in Seq(Nat) /\ Len(<<>>) = 0 /\ OffsetOf(fs, 0) = 0
      BY <1>1, OffsetsAddUp
    <3>2. \A w \in Vertices : ~ (w < 0)
      BY NumberOfVerticesIsNat DEF Vertices
    <3>3. [x \in 0..N |-> 0] \in [0..N -> Int]
      OBVIOUS
    <3> QED BY <3>1, <3>2, <3>3 DEF Laid
  <2>3. \A p \in 1..Len(affected) : ~ (p <= 0) /\ ~ (affected[p] < 0)
    <3> TAKE p \in 1..Len(affected)
    <3>1. affected[p] \in Vertices
      BY <1>2
    <3> QED BY <1>2, <3>1, NumberOfVerticesIsNat DEF n, Vertices
  <2>4. Flushed(FlushStart, 0, affected, fs)
    BY <2>1, <2>2, <2>3 DEF Flushed
  <2> QED BY <1>2, <1>7, <2>4
<1>9. \A k \in 1..n : k - 1 \in T => k \in T
  <2> TAKE k \in 1..n
  <2> HAVE k - 1 \in T
  <2>1. r[k] = FlushRow(c, add, del, r[k - 1], affected[k]) /\ r[k - 1] \in FlushStates
    <3>1. k - 1 \in 0..n /\ k \in 1..n /\ r[k - 1] \in FlushStates
      BY <1>2
    <3> HIDE DEF T
    <3> QED BY <1>7, <3>1 DEF step
  <2>2. Flushed(r[k - 1], k - 1, affected, fs)
    OBVIOUS
  <2>3. Flushed(FlushRow(c, add, del, r[k - 1], affected[k]), k, affected, fs)
    <3>1. k \in 1..Len(affected) /\ Lists(affected, {e[1] : e \in add \cup del})
      BY <1>2 DEF n
    <3> HIDE DEF T
    <3> QED BY <2>1, <2>2, <3>1, FlushRowKeeps
  <2>4. k \in 0..n
    BY <1>2
  <2> QED BY <2>1, <2>3, <2>4
<1>10. Flushed(end, n, affected, fs) /\ end \in FlushStates
  <2>1. 0..n \subseteq T
    <3> HIDE DEF T
    <3> QED BY <1>2, <1>8, <1>9, CountUp
  <2> QED BY <1>2, <1>7, <2>1
<1>11. /\ end.cur \in 0..N /\ N \in 0..N /\ end.cur <= N
       /\ Laid(end.edges, end.off, fs, end.cur) /\ Len(end.edges) = OffsetOf(fs, end.cur)
  BY <1>10, NumberOfVerticesIsNat DEF Flushed, FlushStates, Laid
<1>12. ASSUME NEW w \in Vertices, end.cur <= w PROVE RowOf(es, w) = RowOf(fs, w)
  <2>1. w \notin U
    <3> SUFFICES ASSUME w \in U PROVE FALSE
      OBVIOUS
    <3>1. PICK p \in 1..n : affected[p] = w
      <4> HIDE DEF U
      <4> QED BY <1>2
    <3>2. w < end.cur
      BY <1>2, <1>10, <3>1 DEF Flushed, n
    <3> QED BY <1>11, <1>12, <3>2, NumberOfVerticesIsNat DEF Vertices
  <2> QED BY <2>1, UnaffectedRow
<1>13. Laid(CopyRange(c, end, N).edges, CopyRange(c, end, N).off, fs, N)
  BY <1>1, <1>10, <1>11, <1>12, CopyRangeLays
<1>14. c.offsets[N] + Len(end.edges) - c.offsets[end.cur] = OffsetOf(fs, N)
  <2>1. c.offsets[N] = OffsetOf(es, N) /\ c.offsets[end.cur] = OffsetOf(es, end.cur)
    BY <1>11, CsrOffsets
  <2>2. N \in end.cur..N
    BY <1>11, NumberOfVerticesIsNat
  <2>3. OffsetOf(fs, N) - OffsetOf(es, N) = OffsetOf(fs, end.cur) - OffsetOf(es, end.cur)
    BY <1>1, <1>11, <1>12, <2>2, SameStretch
  <2>4. OffsetOf(fs, N) \in Nat /\ OffsetOf(fs, end.cur) \in Nat
    BY <1>1, <1>11, OffsetsAddUp
  <2>5. OffsetOf(es, N) \in Nat /\ OffsetOf(es, end.cur) \in Nat
    BY <1>1, <1>11, OffsetsAddUp
  <2> QED BY <1>11, <2>1, <2>3, <2>4, <2>5
<1>15. IsCsr(FlushArrays(c, add, del), fs)
  BY <1>1, <1>6, <1>13, <1>14, AllRowsLaid
<1> QED BY <1>1, <1>15, CsrIs

-----------------------------------------------------------------------------
(* One edge more or less *)

\* The destinations of a row are those of the set's edges.
LEMMA DestsAre ==
  ASSUME NEW es \in SUBSET Edges, NEW u, NEW v
  PROVE  v \in Dests(es, u) <=> <<u, v>> \in es
<1>1. \A e \in es : e = <<e[1], e[2]>>
  BY EdgeSets
<1>2. ASSUME v \in Dests(es, u) PROVE <<u, v>> \in es
  <2>1. PICK e \in es : e[1] = u /\ e[2] = v
    BY <1>2 DEF Dests
  <2> QED BY <1>1, <2>1
<1>3. ASSUME <<u, v>> \in es PROVE v \in Dests(es, u)
  <2>1. <<u, v>>[1] = u /\ <<u, v>>[2] = v
    OBVIOUS
  <2> QED BY <1>3, <2>1 DEF Dests
<1> QED BY <1>2, <1>3

\* So binary search finds the edges of the set.
LEMMA FoundIs ==
  ASSUME NEW es \in SUBSET Edges, NEW u, NEW v
  PROVE  Found(RowOf(es, u), v) <=> <<u, v>> \in es
<1> DEFINE row == RowOf(es, u)
<1>1. Lists(row, Dests(es, u))
  BY RowLists
<1> HIDE DEF row
<1>2. Dests(es, u) = {row[i] : i \in 1..Len(row)} /\ DOMAIN row = 1..Len(row)
  <2>1. Listing(Dests(es, u), row, Len(row))
    BY <1>1, ListsMeans
  <2> QED BY <2>1 DEF Listing
<1>3. Found(row, v) <=> v \in Dests(es, u)
  BY <1>2 DEF Found
<1> QED BY <1>3, DestsAre DEF row

\* What an edge more does to the rows and the offsets.
Grows(es, fs, u, v) ==
  /\ es \subseteq Edges /\ fs \subseteq Edges /\ u \in Vertices /\ v \in Nat
  /\ <<u, v>> \notin es /\ fs = es \cup {<<u, v>>}

\* One row and the offsets after it change, each by one, and nothing else.
LEMMA GrownRows ==
  ASSUME NEW es, NEW fs, NEW u, NEW v, Grows(es, fs, u, v)
  PROVE  /\ \A w \in Vertices : w # u => RowOf(fs, w) = RowOf(es, w)
         /\ Dests(fs, u) = Dests(es, u) \cup {v} /\ v \notin Dests(es, u)
         /\ Len(RowOf(fs, u)) = Len(RowOf(es, u)) + 1
         /\ Cardinality(fs) = Cardinality(es) + 1
         /\ \A x \in 0..N : OffsetOf(fs, x) = IF x > u THEN OffsetOf(es, x) + 1 ELSE OffsetOf(es, x)
<1> DEFINE e == <<u, v>>
<1>1. /\ es \in SUBSET Edges /\ fs \in SUBSET Edges /\ u \in Vertices /\ v \in Nat
      /\ e \notin es /\ fs = es \cup {e} /\ e[1] = u /\ e[2] = v
  BY DEF Grows
<1>2. IsFiniteSet(es) /\ Cardinality(es) \in Nat
  BY <1>1, EdgeSets
<1> HIDE DEF e
<1>3. ASSUME NEW w \in Vertices, w # u PROVE RowOf(fs, w) = RowOf(es, w)
  <2>1. {x \in es : x[1] = w} = {x \in fs : x[1] = w}
    BY <1>1, <1>3
  <2> QED BY <2>1, SameRow
<1>4. Dests(fs, u) = Dests(es, u) \cup {v} /\ v \notin Dests(es, u)
  <2>1. v \notin Dests(es, u)
    BY <1>1, DestsAre DEF e
  <2> QED BY <1>1, <2>1 DEF Dests
<1>5. ASSUME NEW A \in SUBSET es, NEW B, B = A \cup {e}
      PROVE  Cardinality(B) = Cardinality(A) + 1
  <2>1. IsFiniteSet(A) /\ e \notin A
    BY <1>1, <1>2, FS_Subset
  <2> QED BY <1>5, <2>1, FS_AddElement
<1>6. Cardinality(fs) = Cardinality(es) + 1
  BY <1>1, <1>5
<1>7. Len(RowOf(fs, u)) = Len(RowOf(es, u)) + 1
  <2> DEFINE A == {x \in es : x[1] = u}
             B == {x \in fs : x[1] = u}
  <2>1. A \in SUBSET es /\ B = A \cup {e}
    BY <1>1
  <2>2. Len(RowOf(es, u)) = Cardinality(A) /\ Len(RowOf(fs, u)) = Cardinality(B)
    BY <1>1, RowLists
  <2> HIDE DEF A, B
  <2> QED BY <1>5, <2>1, <2>2
<1>8. ASSUME NEW x \in 0..N
      PROVE  OffsetOf(fs, x) = IF x > u THEN OffsetOf(es, x) + 1 ELSE OffsetOf(es, x)
  <2> DEFINE A == {y \in es : y[1] < x}
             B == {y \in fs : y[1] < x}
  <2>1. OffsetOf(es, x) = Cardinality(A) /\ OffsetOf(fs, x) = Cardinality(B)
    BY DEF OffsetOf
  <2>2. x \in Nat /\ u \in Nat
    BY <1>1, NumberOfVerticesIsNat DEF Vertices
  <2>3. CASE x > u
    <3>1. A \in SUBSET es /\ B = A \cup {e}
      BY <1>1, <2>2, <2>3
    <3> HIDE DEF A, B
    <3> QED BY <1>5, <2>1, <2>3, <3>1
  <2>4. CASE ~ (x > u)
    <3>1. B = A
      BY <1>1, <2>2, <2>4
    <3> HIDE DEF A, B
    <3> QED BY <2>1, <2>4, <3>1
  <2> QED BY <2>3, <2>4
<1> QED BY <1>3, <1>4, <1>6, <1>7, <1>8

\* The row with the edge, from the one without, and back.
LEMMA GrownRow ==
  ASSUME NEW es, NEW fs, NEW u, NEW v, Grows(es, fs, u, v)
  PROVE  /\ RowOf(fs, u) = InsertAt(RowOf(es, u), Position(RowOf(es, u), v), v)
         /\ RowOf(es, u) = RemoveAt(RowOf(fs, u), Position(RowOf(fs, u), v))
         /\ Position(RowOf(es, u), v) \in 1..(Len(RowOf(es, u)) + 1)
         /\ Position(RowOf(fs, u), v) \in 1..Len(RowOf(fs, u))
<1>1. /\ es \in SUBSET Edges /\ fs \in SUBSET Edges /\ v \in Nat
      /\ Dests(fs, u) = Dests(es, u) \cup {v} /\ v \notin Dests(es, u)
  <2>1. es \in SUBSET Edges /\ fs \in SUBSET Edges /\ v \in Nat
    BY DEF Grows
  <2>2. Dests(fs, u) = Dests(es, u) \cup {v} /\ v \notin Dests(es, u)
    BY GrownRows
  <2> QED BY <2>1, <2>2
<1>2. Lists(RowOf(es, u), Dests(es, u))
  BY <1>1, RowLists
<1>3. Lists(RowOf(fs, u), Dests(fs, u))
  BY <1>1, RowLists
<1>4. Lists(InsertAt(RowOf(es, u), Position(RowOf(es, u), v), v), Dests(fs, u))
  <2>1. v \in Nat \ Dests(es, u)
    BY <1>1
  <2>2. Lists(InsertAt(RowOf(es, u), Position(RowOf(es, u), v), v), Dests(es, u) \cup {v})
    BY <1>2, <2>1, InsertedRow
  <2> QED BY <1>1, <2>2, Zenon
<1>5. /\ Lists(RemoveAt(RowOf(fs, u), Position(RowOf(fs, u), v)), Dests(es, u))
      /\ Position(RowOf(fs, u), v) \in 1..Len(RowOf(fs, u))
  <2>1. v \in Dests(fs, u) /\ Dests(fs, u) \ {v} = Dests(es, u)
    BY <1>1
  <2>2. /\ Lists(RemoveAt(RowOf(fs, u), Position(RowOf(fs, u), v)), Dests(fs, u) \ {v})
        /\ Position(RowOf(fs, u), v) \in 1..Len(RowOf(fs, u))
    BY <1>3, <2>1, RemovedRow
  <2>3. Lists(RemoveAt(RowOf(fs, u), Position(RowOf(fs, u), v)), Dests(es, u))
    BY <2>1, <2>2, Zenon
  <2> QED BY <2>2, <2>3
<1>6. Position(RowOf(es, u), v) \in 1..(Len(RowOf(es, u)) + 1)
  BY <1>1, <1>2, PositionSplits DEF Lists
<1>7. RowOf(fs, u) = InsertAt(RowOf(es, u), Position(RowOf(es, u), v), v)
  BY <1>4, RowIs
<1>8. RowOf(es, u) = RemoveAt(RowOf(fs, u), Position(RowOf(fs, u), v))
  BY <1>5, RowIs
<1> QED BY <1>5, <1>6, <1>7, <1>8

\* The two layouts: shared offsets and edges, by place.
LEMMA GrownOffsets ==
  ASSUME NEW es, NEW fs, NEW u, NEW v, Grows(es, fs, u, v), NEW c, IsCsr(c, es), NEW d, IsCsr(d, fs)
  PROVE  /\ ShiftAfter(c.offsets, u, 1) = d.offsets
         /\ ShiftAfter(d.offsets, u, -1) = c.offsets
<1>1. es \in SUBSET Edges /\ fs \in SUBSET Edges
  BY DEF Grows
<1>2. /\ c.offsets = [x \in 0..N |-> OffsetOf(es, x)] /\ d.offsets = [x \in 0..N |-> OffsetOf(fs, x)]
  BY DEF IsCsr
<1>3. \A x \in 0..N : OffsetOf(fs, x) = IF x > u THEN OffsetOf(es, x) + 1 ELSE OffsetOf(es, x)
  BY GrownRows
<1>4. \A x \in 0..N : OffsetOf(es, x) \in Nat /\ OffsetOf(fs, x) \in Nat
  BY <1>1, OffsetsAddUp
<1>5. ShiftAfter(c.offsets, u, 1) = d.offsets
  BY <1>2, <1>3 DEF ShiftAfter
<1>6. ASSUME NEW x \in 0..N
      PROVE  (IF x > u THEN OffsetOf(fs, x) + (-1) ELSE OffsetOf(fs, x)) = OffsetOf(es, x)
  BY <1>3, <1>4
<1>7. ShiftAfter(d.offsets, u, -1) = c.offsets
  BY <1>2, <1>6 DEF ShiftAfter
<1> QED BY <1>5, <1>7

\* Where the rows of the one are in the other.
LEMMA GrownPlaces ==
  ASSUME NEW es, NEW fs, NEW u, NEW v, Grows(es, fs, u, v), NEW w \in Vertices
  PROVE  /\ OffsetOf(es, u) \in Nat /\ OffsetOf(es, w) \in Nat /\ OffsetOf(fs, u) = OffsetOf(es, u)
         /\ Len(RowOf(es, w)) \in Nat
         /\ w < u => /\ OffsetOf(fs, w) = OffsetOf(es, w)
                     /\ OffsetOf(es, w) + Len(RowOf(es, w)) <= OffsetOf(es, u)
         /\ w > u => /\ OffsetOf(fs, w) = OffsetOf(es, w) + 1
                     /\ OffsetOf(es, u) + Len(RowOf(es, u)) <= OffsetOf(es, w)
         /\ OffsetOf(es, w) + Len(RowOf(es, w)) <= Cardinality(es)
<1>1. es \in SUBSET Edges /\ fs \in SUBSET Edges /\ u \in Vertices
  BY DEF Grows
<1>2. /\ u \in 0..N /\ w \in 0..N /\ u + 1 \in 0..N /\ w + 1 \in 0..N
      /\ w < u => w + 1 <= u /\ ~ (w > u)
      /\ w > u => u + 1 <= w
      /\ ~ (u > u)
  BY <1>1, NumberOfVerticesIsNat DEF Vertices
<1>3. /\ OffsetOf(es, u + 1) = OffsetOf(es, u) + Len(RowOf(es, u))
      /\ OffsetOf(es, w + 1) = OffsetOf(es, w) + Len(RowOf(es, w))
  BY <1>1, OffsetsAddUp
<1>4. \A x, y \in 0..N : x <= y => OffsetOf(es, x) <= OffsetOf(es, y)
  BY <1>1, OffsetsAddUp
<1>5. \A x \in 0..N : OffsetOf(es, x) \in Nat /\ OffsetOf(es, x) <= Cardinality(es)
  BY <1>1, OffsetsAddUp
<1>6. \A x \in 0..N : OffsetOf(fs, x) = IF x > u THEN OffsetOf(es, x) + 1 ELSE OffsetOf(es, x)
  BY GrownRows
<1>7. Len(RowOf(es, w)) \in Nat
  BY <1>1, RowLists
<1> QED BY <1>2, <1>3, <1>4, <1>5, <1>6, <1>7

\* EagerCsr's insert of a new edge, by splicing.
LEMMA EagerInsertIs ==
  ASSUME NEW es, NEW fs, NEW u, NEW v, Grows(es, fs, u, v), NEW c, IsCsr(c, es)
  PROVE  EagerInsert(c, u, v) = FromEdges(fs)
<1> DEFINE row == RowOf(es, u)
           o == OffsetOf(es, u)
           p == Position(row, v)
           new == InsertAt(c.edges, o + p, v)
           n == Len(c.edges)
           wider == RowOf(fs, u)
<1>1. /\ es \in SUBSET Edges /\ fs \in SUBSET Edges /\ u \in Vertices /\ u \in 0..N /\ v \in Nat
      /\ <<u, v>> \notin es
  BY NumberOfVerticesIsNat DEF Grows, Vertices
<1>2. /\ Len(row) \in Nat /\ o \in Nat /\ n = Cardinality(es) /\ n \in Nat /\ o + Len(row) <= n
      /\ c.edges \in Seq(Nat)
  BY <1>1, GrownPlaces, EdgeSets DEF IsCsr
<1>3. p \in 1..(Len(row) + 1) /\ wider = InsertAt(row, p, v)
  BY GrownRow
<1>4. row \in Seq(Nat)
  BY <1>1, RowLists, ListedIsFinite
<1> HIDE DEF row, o, p, n, wider
<1>5. Inserts(row, p, v, wider)
  BY <1>1, <1>3, <1>4, InsertedSeq
<1>6. new \in Seq(Nat) /\ Inserts(c.edges, o + p, v, new)
  <2>1. o + p \in 1..(Len(c.edges) + 1)
    BY <1>2, <1>3 DEF n
  <2> QED BY <1>1, <1>2, <2>1, InsertedSeq
<1> HIDE DEF new
<1>7. /\ Len(new) = n + 1 /\ new[o + p] = v
      /\ \A k \in 1..((o + p) - 1) : new[k] = c.edges[k]
      /\ \A k \in (o + p)..n : new[k + 1] = c.edges[k]
  BY <1>6 DEF Inserts, n
<1>8. /\ Len(wider) = Len(row) + 1 /\ wider[p] = v
      /\ \A k \in 1..(p - 1) : wider[k] = row[k]
      /\ \A k \in p..Len(row) : wider[k + 1] = row[k]
  BY <1>5 DEF Inserts
<1>9. \A w \in Vertices : \A j \in 1..Len(RowOf(es, w)) : c.edges[OffsetOf(es, w) + j] = RowOf(es, w)[j]
  BY DEF IsCsr
<1>10. ASSUME NEW w \in Vertices, NEW j \in 1..Len(RowOf(fs, w))
       PROVE  new[OffsetOf(fs, w) + j] = RowOf(fs, w)[j]
  <2> DEFINE a == OffsetOf(es, w)
             b == OffsetOf(fs, w)
             mine == RowOf(es, w)
  <2>1. /\ a \in Nat /\ Len(mine) \in Nat /\ a + Len(mine) <= n
        /\ w < u => b = a /\ a + Len(mine) <= o
        /\ w > u => b = a + 1 /\ o + Len(row) <= a
        /\ w = u => b = o /\ a = o
    BY <1>2, GrownPlaces DEF o, row
  <2>2. w # u => RowOf(fs, w) = mine
    BY GrownRows
  <2>3. u \in Nat /\ w \in Nat
    BY <1>1, NumberOfVerticesIsNat DEF Vertices
  <2> HIDE DEF a, b
  <2>4. CASE w < u
    <3>1. j \in 1..Len(mine)
      BY <2>2, <2>3, <2>4
    <3>2. a + j \in 1..((o + p) - 1)
      BY <1>2, <1>3, <2>1, <2>4, <3>1
    <3>3. c.edges[a + j] = mine[j]
      BY <1>9, <3>1 DEF a
    <3> QED BY <1>7, <2>1, <2>2, <2>3, <2>4, <3>2, <3>3 DEF b
  <2>5. CASE w > u
    <3>1. j \in 1..Len(mine)
      BY <2>2, <2>3, <2>5
    <3>2. a + j \in (o + p)..n /\ b + j = (a + j) + 1
      BY <1>2, <1>3, <2>1, <2>5, <3>1
    <3>3. c.edges[a + j] = mine[j]
      BY <1>9, <3>1 DEF a
    <3>4. new[(a + j) + 1] = c.edges[a + j]
      BY <1>7, <3>2
    <3>5. new[b + j] = mine[j]
      BY <3>2, <3>3, <3>4
    <3> QED BY <2>2, <2>3, <2>5, <3>5 DEF b
  <2>6. CASE w = u
    <3>1. RowOf(fs, w) = wider /\ j \in 1..(Len(row) + 1) /\ b = o
      BY <1>8, <2>1, <2>6 DEF wider
    <3>2. \A i \in 1..Len(row) : c.edges[o + i] = row[i]
      BY <1>1, <1>9 DEF o, row
    <3>3. CASE j = p
      BY <1>7, <1>8, <3>1, <3>3 DEF b
    <3>4. CASE j < p
      <4>1. j \in 1..(p - 1) /\ j \in 1..Len(row) /\ o + j \in 1..((o + p) - 1)
        BY <1>2, <1>3, <3>1, <3>4
      <4> QED BY <1>7, <1>8, <3>1, <3>2, <4>1 DEF b
    <3>5. CASE j > p
      <4>1. j - 1 \in p..Len(row) /\ j - 1 \in 1..Len(row) /\ o + (j - 1) \in (o + p)..n
        BY <1>2, <1>3, <3>1, <3>5
      <4>2. (o + (j - 1)) + 1 = o + j /\ (j - 1) + 1 = j
        BY <1>2, <3>1
      <4> QED BY <1>7, <1>8, <3>1, <3>2, <4>1, <4>2 DEF b
    <3> QED BY <1>3, <3>1, <3>3, <3>4, <3>5
  <2> QED BY <2>3, <2>4, <2>5, <2>6
<1>11. IsCsr(FromEdges(fs), fs)
  BY <1>1, FromEdgesIsCsr
<1> DEFINE r == [edges |-> new, offsets |-> ShiftAfter(c.offsets, u, 1)]
<1>12. IsCsr(r, fs)
  <2>1. ShiftAfter(c.offsets, u, 1) = [x \in 0..N |-> OffsetOf(fs, x)]
    <3>1. ShiftAfter(c.offsets, u, 1) = FromEdges(fs).offsets
      BY <1>11, GrownOffsets
    <3> QED BY <1>11, <3>1 DEF IsCsr
  <2>2. Len(new) = Cardinality(fs)
    <3>1. Cardinality(fs) = Cardinality(es) + 1
      BY GrownRows
    <3> QED BY <1>2, <1>7, <3>1
  <2>3. r = [offsets |-> [x \in 0..N |-> OffsetOf(fs, x)], edges |-> r.edges] /\ r.edges = new
    BY <2>1
  <2> HIDE DEF r
  <2> QED BY <1>6, <1>10, <2>2, <2>3 DEF IsCsr
<1>13. EagerInsert(c, u, v) = r
  <2>1. CsrRow(c, u) = row /\ c.offsets[u] = o
    BY <1>1, SliceIsRow, CsrOffsets DEF row, o
  <2>2. ~ Found(row, v)
    BY <1>1, FoundIs DEF row
  <2> QED BY <2>1, <2>2 DEF EagerInsert, p, new
<1> HIDE DEF r
<1> QED BY <1>1, <1>12, <1>13, CsrIs

\* EagerCsr's delete of an edge that is there, by splicing.
LEMMA EagerDeleteIs ==
  ASSUME NEW es, NEW fs, NEW u, NEW v, Grows(es, fs, u, v), NEW c, IsCsr(c, fs)
  PROVE  EagerDelete(c, u, v) = FromEdges(es)
<1> DEFINE row == RowOf(fs, u)
           o == OffsetOf(es, u)
           p == Position(row, v)
           new == RemoveAt(c.edges, o + p)
           n == Len(c.edges)
           shorter == RowOf(es, u)
           l == Len(shorter)
<1>1. /\ es \in SUBSET Edges /\ fs \in SUBSET Edges /\ u \in Vertices /\ u \in 0..N /\ v \in Nat
      /\ <<u, v>> \in fs
  BY NumberOfVerticesIsNat DEF Grows, Vertices
<1>2. /\ l \in Nat /\ o \in Nat /\ n = Cardinality(es) + 1 /\ n \in Nat /\ o + l <= n - 1
      /\ c.edges \in Seq(Nat) /\ Len(row) = l + 1 /\ OffsetOf(fs, u) = o
  <2>1. /\ Len(shorter) \in Nat /\ o \in Nat /\ o + Len(shorter) <= Cardinality(es)
        /\ OffsetOf(fs, u) = o
    BY <1>1, GrownPlaces
  <2>2. Cardinality(es) \in Nat
    BY <1>1, EdgeSets
  <2>3. n = Cardinality(fs) /\ c.edges \in Seq(Nat)
    BY DEF IsCsr
  <2>4. Cardinality(fs) = Cardinality(es) + 1 /\ Len(row) = Len(shorter) + 1
    BY GrownRows
  <2> QED BY <2>1, <2>2, <2>3, <2>4
<1>3. p \in 1..(l + 1) /\ shorter = RemoveAt(row, p)
  BY <1>2, GrownRow
<1>4. row \in Seq(Nat)
  BY <1>1, RowLists, ListedIsFinite
<1> HIDE DEF row, o, p, n, shorter, l
<1>5. Removes(row, p, shorter)
  <2>1. p \in 1..Len(row)
    BY <1>2, <1>3
  <2> QED BY <1>3, <1>4, <2>1, RemovedSeq
<1>6. new \in Seq(Nat) /\ Removes(c.edges, o + p, new)
  <2>1. o + p \in 1..Len(c.edges)
    BY <1>2, <1>3 DEF n
  <2> QED BY <1>2, <2>1, RemovedSeq
<1> HIDE DEF new
<1>7. /\ Len(new) = n - 1
      /\ \A k \in 1..((o + p) - 1) : new[k] = c.edges[k]
      /\ \A k \in (o + p)..(n - 1) : new[k] = c.edges[k + 1]
  BY <1>6 DEF Removes, n
<1>8. /\ \A k \in 1..(p - 1) : shorter[k] = row[k]
      /\ \A k \in p..l : shorter[k] = row[k + 1]
  <2>1. Len(row) - 1 = l
    BY <1>2
  <2> QED BY <1>5, <2>1 DEF Removes
<1>9. \A w \in Vertices : \A j \in 1..Len(RowOf(fs, w)) : c.edges[OffsetOf(fs, w) + j] = RowOf(fs, w)[j]
  BY DEF IsCsr
<1>10. ASSUME NEW w \in Vertices, NEW j \in 1..Len(RowOf(es, w))
       PROVE  new[OffsetOf(es, w) + j] = RowOf(es, w)[j]
  <2> DEFINE a == OffsetOf(es, w)
             b == OffsetOf(fs, w)
             mine == RowOf(es, w)
  <2>1. /\ a \in Nat /\ Len(mine) \in Nat /\ a + Len(mine) <= n - 1
        /\ w < u => b = a /\ a + Len(mine) <= o
        /\ w > u => b = a + 1 /\ o + l <= a
        /\ w = u => b = o /\ a = o
    <3>1. Cardinality(es) = n - 1
      <4>1. Cardinality(es) \in Nat
        BY <1>1, EdgeSets
      <4> QED BY <1>2, <4>1
    <3> QED BY <3>1, GrownPlaces DEF o, l, shorter
  <2>2. w # u => RowOf(fs, w) = mine
    BY GrownRows
  <2>3. u \in Nat /\ w \in Nat
    BY <1>1, NumberOfVerticesIsNat DEF Vertices
  <2> HIDE DEF a, b
  <2>4. CASE w < u
    <3>1. RowOf(fs, w) = mine /\ j \in 1..Len(mine)
      BY <2>2, <2>3, <2>4
    <3>2. a + j \in 1..((o + p) - 1) /\ b + j = a + j
      BY <1>2, <1>3, <2>1, <2>4, <3>1
    <3>3. c.edges[b + j] = mine[j]
      BY <1>9, <3>1 DEF b
    <3>4. new[a + j] = c.edges[a + j]
      BY <1>7, <3>2
    <3> QED BY <3>2, <3>3, <3>4 DEF a
  <2>5. CASE w > u
    <3>1. RowOf(fs, w) = mine /\ j \in 1..Len(mine)
      BY <2>2, <2>3, <2>5
    <3>2. a + j \in (o + p)..(n - 1) /\ b + j = (a + j) + 1
      BY <1>2, <1>3, <2>1, <2>5, <3>1
    <3>3. c.edges[b + j] = mine[j]
      BY <1>9, <3>1 DEF b
    <3>4. new[a + j] = c.edges[(a + j) + 1]
      BY <1>7, <3>2
    <3> QED BY <3>2, <3>3, <3>4 DEF a
  <2>6. CASE w = u
    <3>1. mine = shorter /\ j \in 1..l /\ a = o
      BY <2>1, <2>6 DEF shorter, l
    <3>2. \A i \in 1..(l + 1) : c.edges[o + i] = row[i]
      BY <1>1, <1>2, <1>9 DEF row
    <3>3. CASE j < p
      <4>1. j \in 1..(p - 1) /\ j \in 1..(l + 1) /\ o + j \in 1..((o + p) - 1)
        BY <1>2, <1>3, <3>1, <3>3
      <4>2. new[o + j] = c.edges[o + j] /\ c.edges[o + j] = row[j] /\ shorter[j] = row[j]
        BY <1>7, <1>8, <3>2, <4>1
      <4> QED BY <3>1, <4>2 DEF a
    <3>4. CASE ~ (j < p)
      <4>1. /\ j \in p..l /\ j + 1 \in 1..(l + 1) /\ o + j \in (o + p)..(n - 1)
            /\ (o + j) + 1 = o + (j + 1)
        BY <1>2, <1>3, <3>1, <3>4
      <4>2. new[o + j] = c.edges[(o + j) + 1]
        BY <1>7, <4>1
      <4>3. c.edges[o + (j + 1)] = row[j + 1] /\ shorter[j] = row[j + 1]
        BY <1>8, <3>2, <4>1
      <4> QED BY <3>1, <4>1, <4>2, <4>3 DEF a
    <3> QED BY <3>3, <3>4
  <2> QED BY <2>3, <2>4, <2>5, <2>6
<1>11. IsCsr(FromEdges(es), es)
  BY <1>1, FromEdgesIsCsr
<1> DEFINE r == [edges |-> new, offsets |-> ShiftAfter(c.offsets, u, -1)]
<1>12. IsCsr(r, es)
  <2>1. ShiftAfter(c.offsets, u, -1) = [x \in 0..N |-> OffsetOf(es, x)]
    <3>1. ShiftAfter(c.offsets, u, -1) = FromEdges(es).offsets
      BY <1>11, GrownOffsets
    <3> QED BY <1>11, <3>1 DEF IsCsr
  <2>2. Len(new) = Cardinality(es)
    <3>1. Cardinality(es) \in Nat
      BY <1>1, EdgeSets
    <3> QED BY <1>2, <1>7, <3>1
  <2>3. r = [offsets |-> [x \in 0..N |-> OffsetOf(es, x)], edges |-> r.edges] /\ r.edges = new
    BY <2>1
  <2> HIDE DEF r
  <2> QED BY <1>6, <1>10, <2>2, <2>3 DEF IsCsr
<1>13. EagerDelete(c, u, v) = r
  <2>1. CsrRow(c, u) = row
    BY <1>1, SliceIsRow DEF row
  <2>2. c.offsets[u] = o
    BY <1>1, <1>2, CsrOffsets
  <2>3. Found(row, v)
    BY <1>1, FoundIs DEF row
  <2> QED BY <2>1, <2>2, <2>3 DEF EagerDelete, p, new
<1> HIDE DEF r
<1> QED BY <1>1, <1>12, <1>13, CsrIs

-----------------------------------------------------------------------------
(* The stores that write at once *)

\* EagerCsr, from a settled set of edges: any insert and any delete.
LEMMA EagerWrites ==
  ASSUME NEW es \in SUBSET Edges, NEW e \in Edges
  PROVE  /\ EagerInsert(FromEdges(es), e[1], e[2]) = FromEdges(es \cup {e})
         /\ EagerDelete(FromEdges(es), e[1], e[2]) = FromEdges(es \ {e})
<1> DEFINE u == e[1]
           v == e[2]
           c == FromEdges(es)
<1>1. e = <<u, v>> /\ u \in Vertices /\ v \in Nat
  <2>1. {e} \in SUBSET Edges
    OBVIOUS
  <2> QED BY <2>1, EdgeSets
<1> HIDE DEF u, v
<1>2. IsCsr(c, es)
  BY FromEdgesIsCsr
<1> HIDE DEF c
<1>3. CsrRow(c, u) = RowOf(es, u)
  BY <1>1, <1>2, SliceIsRow
<1>4. Found(CsrRow(c, u), v) <=> e \in es
  BY <1>1, <1>3, FoundIs
<1>5. CASE e \in es
  <2> DEFINE ds == es \ {e}
  <2>1. es \cup {e} = es
    BY <1>5
  <2>2. EagerInsert(c, u, v) = FromEdges(es \cup {e})
    <3>1. EagerInsert(c, u, v) = c
      BY <1>4, <1>5 DEF EagerInsert
    <3> QED BY <2>1, <3>1, Zenon DEF c
  <2>3. Grows(ds, es, u, v)
    BY <1>1, <1>5 DEF Grows
  <2>4. EagerDelete(c, u, v) = FromEdges(ds)
    <3> HIDE DEF ds
    <3> QED BY <1>2, <2>3, EagerDeleteIs
  <2> QED BY <2>2, <2>4 DEF u, v, c
<1>6. CASE e \notin es
  <2> DEFINE fs == es \cup {e}
  <2>1. es \ {e} = es
    BY <1>6
  <2>2. EagerDelete(c, u, v) = FromEdges(es \ {e})
    <3>1. EagerDelete(c, u, v) = c
      BY <1>4, <1>6 DEF EagerDelete
    <3> QED BY <2>1, <3>1, Zenon DEF c
  <2>3. Grows(es, fs, u, v)
    BY <1>1, <1>6 DEF Grows
  <2>4. EagerInsert(c, u, v) = FromEdges(fs)
    <3> HIDE DEF fs
    <3> QED BY <1>2, <2>3, EagerInsertIs
  <2> QED BY <2>2, <2>4 DEF u, v, c
<1> QED BY <1>5, <1>6

\* VecVec holds one edge more or less by one row more or less.
LEMMA VecGrows ==
  ASSUME NEW es, NEW fs, NEW u, NEW v, Grows(es, fs, u, v)
  PROVE  /\ VecInsert(VecVec(es), u, v) = VecVec(fs)
         /\ VecDelete(VecVec(fs), u, v) = VecVec(es)
<1> DEFINE a == [w \in Vertices |-> RowOf(es, w)]
           b == [w \in Vertices |-> RowOf(fs, w)]
           n == Cardinality(es)
<1>1. /\ es \in SUBSET Edges /\ fs \in SUBSET Edges /\ u \in Vertices
      /\ <<u, v>> \notin es /\ <<u, v>> \in fs
  BY DEF Grows
<1>2. n \in Nat /\ Cardinality(fs) = n + 1 /\ (n + 1) - 1 = n
  <2>1. n \in Nat
    BY <1>1, EdgeSets
  <2>2. Cardinality(fs) = n + 1
    BY GrownRows
  <2> QED BY <2>1, <2>2
<1>3. VecVec(es) = [adj |-> a, edges |-> n] /\ VecVec(fs) = [adj |-> b, edges |-> n + 1]
  BY <1>2 DEF VecVec
<1>4. a[u] = RowOf(es, u) /\ b[u] = RowOf(fs, u)
  BY <1>1
<1>5. \A w \in Vertices : w # u => a[w] = b[w]
  BY GrownRows
<1>6. /\ b = [a EXCEPT ![u] = b[u]] /\ a = [b EXCEPT ![u] = a[u]]
  BY <1>5
<1>7. ~ Found(a[u], v) /\ Found(b[u], v)
  BY <1>1, <1>4, FoundIs
<1>8. b[u] = InsertAt(a[u], Position(a[u], v), v) /\ a[u] = RemoveAt(b[u], Position(b[u], v))
  BY <1>4, GrownRow
<1> HIDE DEF a, b, n
<1>9. VecInsert([adj |-> a, edges |-> n], u, v) = [adj |-> b, edges |-> n + 1]
  BY <1>6, <1>7, <1>8 DEF VecInsert
<1>10. VecDelete([adj |-> b, edges |-> n + 1], u, v) = [adj |-> a, edges |-> n]
  BY <1>2, <1>6, <1>7, <1>8 DEF VecDelete
<1> QED BY <1>3, <1>9, <1>10

\* So every insert and every delete leads it from one set to the next.
LEMMA VecWrites ==
  ASSUME NEW es \in SUBSET Edges, NEW e \in Edges
  PROVE  /\ VecInsert(VecVec(es), e[1], e[2]) = VecVec(es \cup {e})
         /\ VecDelete(VecVec(es), e[1], e[2]) = VecVec(es \ {e})
<1> DEFINE u == e[1]
           v == e[2]
           g == VecVec(es)
<1>1. e = <<u, v>> /\ u \in Vertices /\ v \in Nat
  <2>1. {e} \in SUBSET Edges
    OBVIOUS
  <2> QED BY <2>1, EdgeSets
<1> HIDE DEF u, v
<1>2. Found(g.adj[u], v) <=> e \in es
  <2>1. g.adj[u] = RowOf(es, u)
    BY <1>1 DEF VecVec
  <2> HIDE DEF g
  <2> QED BY <1>1, <2>1, FoundIs
<1> HIDE DEF g
<1>3. CASE e \in es
  <2> DEFINE ds == es \ {e}
  <2>1. es \cup {e} = es
    BY <1>3
  <2>2. VecInsert(g, u, v) = VecVec(es \cup {e})
    <3>1. VecInsert(g, u, v) = g
      BY <1>2, <1>3 DEF VecInsert
    <3> QED BY <2>1, <3>1, Zenon DEF g
  <2>3. Grows(ds, es, u, v)
    BY <1>1, <1>3 DEF Grows
  <2>4. VecDelete(g, u, v) = VecVec(ds)
    <3> HIDE DEF ds
    <3> QED BY <2>3, VecGrows DEF g
  <2> QED BY <2>2, <2>4 DEF u, v, g
<1>4. CASE e \notin es
  <2> DEFINE fs == es \cup {e}
  <2>1. es \ {e} = es
    BY <1>4
  <2>2. VecDelete(g, u, v) = VecVec(es \ {e})
    <3>1. VecDelete(g, u, v) = g
      BY <1>2, <1>4 DEF VecDelete
    <3> QED BY <2>1, <3>1, Zenon DEF g
  <2>3. Grows(es, fs, u, v)
    BY <1>1, <1>4 DEF Grows
  <2>4. VecInsert(g, u, v) = VecVec(fs)
    <3> HIDE DEF fs
    <3> QED BY <2>3, VecGrows DEF g
  <2> QED BY <2>2, <2>4 DEF u, v, g
<1> QED BY <1>3, <1>4

-----------------------------------------------------------------------------
(* The two properties of the arrays *)

\* The flush of all that is pending, and any one write of the eager stores,
\* from the CSR of the settled edges to the CSR of the edges that result.
LEMMA ArraysFollow ==
  ASSUME TypeOK, DeltasAreDisjoint
  PROVE  ArraysFollowTheGraph
<1> DEFINE fs == Fold(dp, dm)
<1>1. m \in SUBSET Edges
  BY DEF TypeOK
<1>2. IsCsr(FromEdges(m), m)
  BY <1>1, FromEdgesIsCsr
<1>3. Flushes(m, dp, dm, fs)
  BY DEF TypeOK, DeltasAreDisjoint, Flushes, Fold
<1> HIDE DEF fs
<1>4. FlushArrays(FromEdges(m), dp, dm) = FromEdges(fs)
  BY <1>2, <1>3, FlushArraysIs
<1>5. ASSUME NEW e \in Edges
      PROVE  /\ EagerInsert(FromEdges(m), e[1], e[2]) = FromEdges(m \cup {e})
             /\ EagerDelete(FromEdges(m), e[1], e[2]) = FromEdges(m \ {e})
             /\ VecInsert(VecVec(m), e[1], e[2]) = VecVec(m \cup {e})
             /\ VecDelete(VecVec(m), e[1], e[2]) = VecVec(m \ {e})
  BY <1>1, EagerWrites, VecWrites
<1> QED BY <1>4, <1>5 DEF ArraysFollowTheGraph, fs

\* Both scans of a settled row, with the row of tombstones beside it.
LEMMA ScansSkip ==
  ASSUME TypeOK, DeltasAreDisjoint
  PROVE  ScansSkipTombstones
<1> SUFFICES ASSUME NEW u \in Vertices
             PROVE  /\ ScanSplit(CsrRow(FromEdges(m), u), RowOf(dm, u)) = RowOf(m \ dm, u)
                    /\ ScanPerEdge(CsrRow(FromEdges(m), u), RowOf(dm, u)) = RowOf(m \ dm, u)
  BY DEF ScansSkipTombstones
<1> DEFINE row == RowOf(m, u)
           dels == RowOf(dm, u)
           S == Dests(m, u)
           D == Dests(dm, u)
<1>1. m \in SUBSET Edges /\ dm \in SUBSET Edges /\ dm \subseteq m
  BY DEF TypeOK, DeltasAreDisjoint
<1>2. CsrRow(FromEdges(m), u) = row
  BY <1>1, FromEdgesIsCsr, SliceIsRow
<1>3. Lists(row, S) /\ Lists(dels, D)
  BY <1>1, RowLists
<1>4. D \in SUBSET S
  BY <1>1 DEF Dests
<1>5. S \ D = Dests(m \ dm, u)
  <2>1. m \ dm \in SUBSET Edges
    BY <1>1
  <2>2. \A v : v \in S \ D <=> v \in Dests(m \ dm, u)
    <3> TAKE v
    <3>1. v \in S <=> <<u, v>> \in m
      BY <1>1, DestsAre
    <3>2. v \in D <=> <<u, v>> \in dm
      BY <1>1, DestsAre
    <3>3. v \in Dests(m \ dm, u) <=> <<u, v>> \in m \ dm
      BY <2>1, DestsAre
    <3> QED BY <3>1, <3>2, <3>3
  <2> HIDE DEF S, D
  <2> QED BY <2>2
<1> HIDE DEF row, dels, S, D
<1>6. Lists(ScanSplit(row, dels), S \ D)
  BY <1>3, <1>4, ScanSplitIs
<1>7. Lists(ScanPerEdge(row, dels), S \ D)
  BY <1>3, <1>4, ScanPerEdgeIs
<1>8. ScanSplit(row, dels) = RowOf(m \ dm, u)
  <2>1. Lists(ScanSplit(row, dels), Dests(m \ dm, u))
    BY <1>5, <1>6, Zenon
  <2> QED BY <2>1, RowIs
<1>9. ScanPerEdge(row, dels) = RowOf(m \ dm, u)
  <2>1. Lists(ScanPerEdge(row, dels), Dests(m \ dm, u))
    BY <1>5, <1>7, Zenon
  <2> QED BY <2>1, RowIs
<1> QED BY <1>2, <1>8, <1>9 DEF dels

\* Whatever the history of inserts, deletes and flushes, the next flush of the
\* arrays, and any one write of the eager stores, leaves the CSR (the rows) of
\* the edge set that results: sorted, no edge twice, every offset right.
THEOREM ArraysAreTheGraphs == Spec => []ArraysFollowTheGraph
<1>1. IInv => ArraysFollowTheGraph
  BY ArraysFollow DEF IInv
<1> QED BY <1>1, Invariance, PTL

\* Whatever the history, both scans visit of every settled row exactly the
\* edges without a tombstone, in order and once each.
THEOREM ScansAreOfLiveEdges == Spec => []ScansSkipTombstones
<1>1. IInv => ScansSkipTombstones
  BY ScansSkip DEF IInv
<1> QED BY <1>1, Invariance, PTL
=============================================================================
