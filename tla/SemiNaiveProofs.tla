--------------------------- MODULE SemiNaiveProofs ---------------------------
(***************************************************************************)
(* Topic 55's evaluators, for every finite graph and every program and     *)
(* strategy: a delta round is as good as a whole one, so that every        *)
(* strategy takes the steps of naive evaluation, and a delta strategy      *)
(* matches each instance of the rule exactly once.                         *)
(***************************************************************************)
EXTENDS SemiNaive, FiniteSetTheorems, WellFoundedInduction, TLAPS

-----------------------------------------------------------------------------
(* Finite sets *)

\* Triples and quadruples of nodes are finitely many.
LEMMA TuplesAreFinite ==
  /\ IsFiniteSet(Pairs)
  /\ IsFiniteSet(Nodes \X Nodes \X Nodes)
  /\ IsFiniteSet(Nodes \X Nodes \X Nodes \X Nodes)
<1>1. IsFiniteSet(Nodes)
  BY NodesAssumption
<1>2. IsFiniteSet(Nodes \X Nodes)
  BY <1>1, FS_Product
<1>3. IsFiniteSet(Nodes \X Nodes \X Nodes)
  <2> DEFINE S == (Nodes \X Nodes) \X Nodes
             T == Nodes \X Nodes \X Nodes
             f == [p \in S |-> <<p[1][1], p[1][2], p[2]>>]
  <2>1. IsFiniteSet(S)
    BY <1>1, <1>2, FS_Product
  <2>2. f \in [S -> T]
    OBVIOUS
  <2>3. \A t \in T : \E s \in S : f[s] = t
    <3> SUFFICES ASSUME NEW t \in T PROVE \E s \in S : f[s] = t
      OBVIOUS
    <3>1. <<<<t[1], t[2]>>, t[3]>> \in S /\ f[<<<<t[1], t[2]>>, t[3]>>] = t
      OBVIOUS
    <3> QED BY <3>1
  <2>4. f \in Surjection(S, T)
    BY <2>2, <2>3 DEF Surjection
  <2> HIDE DEF f, S, T
  <2>5. IsFiniteSet(T)
    BY <2>1, <2>4, FS_Surjection
  <2> QED BY <2>5 DEF T
<1>4. IsFiniteSet(Nodes \X Nodes \X Nodes \X Nodes)
  <2> DEFINE S == (Nodes \X Nodes) \X (Nodes \X Nodes)
             T == Nodes \X Nodes \X Nodes \X Nodes
             f == [p \in S |-> <<p[1][1], p[1][2], p[2][1], p[2][2]>>]
  <2>1. IsFiniteSet(S)
    BY <1>2, FS_Product
  <2>2. f \in [S -> T]
    OBVIOUS
  <2>3. \A t \in T : \E s \in S : f[s] = t
    <3> SUFFICES ASSUME NEW t \in T PROVE \E s \in S : f[s] = t
      OBVIOUS
    <3>1. /\ <<<<t[1], t[2]>>, <<t[3], t[4]>>>> \in S
          /\ f[<<<<t[1], t[2]>>, <<t[3], t[4]>>>>] = t
      OBVIOUS
    <3> QED BY <3>1
  <2>4. f \in Surjection(S, T)
    BY <2>2, <2>3 DEF Surjection
  <2> HIDE DEF f, S, T
  <2>5. IsFiniteSet(T)
    BY <2>1, <2>4, FS_Surjection
  <2> QED BY <2>5 DEF T
<1> QED BY <1>2, <1>3, <1>4 DEF Pairs

\* So are the instances of every rule, which have a number.
LEMMA InstancesAreFinite ==
  ASSUME NEW left, NEW right
  PROVE  /\ IsFiniteSet(Join(left, right)) /\ Cardinality(Join(left, right)) \in Nat
         /\ IsFiniteSet(Cousins(left, right)) /\ Cardinality(Cousins(left, right)) \in Nat
<1>1. Join(left, right) \in SUBSET (Nodes \X Nodes \X Nodes)
  BY DEF Join
<1>2. Cousins(left, right) \in SUBSET (Nodes \X Nodes \X Nodes \X Nodes)
  BY DEF Cousins
<1> QED BY <1>1, <1>2, TuplesAreFinite, FS_Subset, FS_CardinalityType

\* A set of pairs is finite.
LEMMA RelationsAreFinite ==
  ASSUME NEW r \in SUBSET Pairs
  PROVE  IsFiniteSet(r) /\ Cardinality(r) \in Nat
BY TuplesAreFinite, FS_Subset, FS_CardinalityType

\* Counting a finite set in two parts.
LEMMA CountInParts ==
  ASSUME NEW S, NEW A, NEW B, IsFiniteSet(A), IsFiniteSet(B), S = A \cup B, A \cap B = {}
  PROVE  Cardinality(S) = Cardinality(A) + Cardinality(B)
<1>1. Cardinality(A) \in Nat /\ Cardinality(B) \in Nat
  BY FS_CardinalityType
<1>2. Cardinality(A \cap B) = 0
  BY FS_EmptySet
<1>3. Cardinality(A \cup B) = Cardinality(A) + Cardinality(B) - Cardinality(A \cap B)
  BY FS_Union
<1> QED BY <1>1, <1>2, <1>3

\* A rule has at least as many instances as heads.
LEMMA HeadsAreFewer ==
  ASSUME NEW S, IsFiniteSet(S), NEW f
  PROVE  /\ IsFiniteSet({f[i] : i \in S})
         /\ Cardinality({f[i] : i \in S}) <= Cardinality(S)
<1> DEFINE g == [i \in S |-> f[i]]
           T == {f[i] : i \in S}
<1>1. g \in Surjection(S, T)
  BY DEF Surjection
<1> HIDE DEF g, T
<1>2. IsFiniteSet(T) /\ Cardinality(T) <= Cardinality(S)
  BY <1>1, FS_Surjection
<1> QED BY <1>2 DEF T

-----------------------------------------------------------------------------
(* The algebra of one round *)

\* The instances over a union are those over its parts, and so are the heads.
LEMMA JoinDistributesLeft ==
  ASSUME NEW R, NEW A, NEW B, NEW C, R = A \cup B
  PROVE  Join(R, C) = Join(A, C) \cup Join(B, C)
BY DEF Join

LEMMA JoinDistributesRight ==
  ASSUME NEW R, NEW A, NEW B, NEW C, R = A \cup B
  PROVE  Join(C, R) = Join(C, A) \cup Join(C, B)
BY DEF Join

LEMMA CousinsDistribute ==
  ASSUME NEW R, NEW A, NEW B, NEW C, R = A \cup B
  PROVE  Cousins(R, C) = Cousins(A, C) \cup Cousins(B, C)
BY DEF Cousins

LEMMA JoinHeadsDistribute ==
  ASSUME NEW R, NEW A, NEW B, R = A \cup B
  PROVE  JoinHeads(R) = JoinHeads(A) \cup JoinHeads(B)
BY DEF JoinHeads

LEMMA CousinHeadsDistribute ==
  ASSUME NEW R, NEW A, NEW B, R = A \cup B
  PROVE  CousinHeads(R) = CousinHeads(A) \cup CousinHeads(B)
BY DEF CousinHeads

\* Instances of disjoint relations are disjoint.
LEMMA RulesSeparate ==
  ASSUME NEW A, NEW B, NEW C, NEW D, A \cap B = {}
  PROVE  /\ Join(A, C) \cap Join(B, D) = {}
         /\ Join(C, A) \cap Join(D, B) = {}
         /\ Cousins(A, C) \cap Cousins(B, D) = {}
<1>1. Join(A, C) \cap Join(B, D) = {}
  BY DEF Join
<1>2. Join(C, A) \cap Join(D, B) = {}
  BY DEF Join
<1>3. Cousins(A, C) \cap Cousins(B, D) = {}
  BY DEF Cousins
<1> QED BY <1>1, <1>2, <1>3

\* Nothing follows from nothing, and what follows are pairs of nodes.
LEMMA RulesAreTyped ==
  ASSUME NEW A, NEW C
  PROVE  /\ Join({}, C) = {} /\ Cousins({}, C) = {}
         /\ JoinHeads({}) = {} /\ CousinHeads({}) = {}
         /\ JoinHeads(Join(A, C)) \subseteq Pairs
         /\ CousinHeads(Cousins(A, C)) \subseteq Pairs
<1>1. Join({}, C) = {} /\ Cousins({}, C) = {}
  BY DEF Join, Cousins
<1>2. JoinHeads({}) = {} /\ CousinHeads({}) = {}
  BY DEF JoinHeads, CousinHeads
<1>3. JoinHeads(Join(A, C)) \subseteq Pairs
  <2> SUFFICES ASSUME NEW i \in Nodes \X Nodes \X Nodes PROVE <<i[1], i[3]>> \in Pairs
    BY DEF JoinHeads, Join
  <2> QED BY DEF Pairs
<1>4. CousinHeads(Cousins(A, C)) \subseteq Pairs
  <2> SUFFICES ASSUME NEW i \in Nodes \X Nodes \X Nodes \X Nodes PROVE <<i[3], i[4]>> \in Pairs
    BY DEF CousinHeads, Cousins
  <2> QED BY DEF Pairs
<1> QED BY <1>1, <1>2, <1>3, <1>4

\* A round over the delta, together with what the older tuples derive, is a
\* round over the whole relation.
LEMMA RoundIsWhole ==
  ASSUME prog \in Programs, mode \in Modes(prog), delta \subseteq rel
  PROVE  /\ Emitted \subseteq Consequences(prog, arc, rel)
         /\ Consequences(prog, arc, rel) \subseteq Consequences(prog, arc, rel \ delta) \cup Emitted
         /\ Emitted \subseteq Pairs
<1> DEFINE old == rel \ delta
<1>1. rel = old \cup delta
  OBVIOUS
<1> HIDE DEF old
<1>2. mode = "naive" \/ mode = "semi" \/ (mode = "old" /\ prog = "tc_nonlinear")
  BY DEF Modes, Programs
<1>3. CASE prog = "sg"
  <2>1. /\ Emitted = CousinHeads(Cousins(Driver, arc))
        /\ \A r : Consequences(prog, arc, r) = CousinHeads(Cousins(r, arc))
    BY <1>3 DEF Emitted, Consequences
  <2>2. CousinHeads(Cousins(rel, arc)) =
          CousinHeads(Cousins(old, arc)) \cup CousinHeads(Cousins(delta, arc))
    <3>1. Cousins(rel, arc) = Cousins(old, arc) \cup Cousins(delta, arc)
      BY <1>1, CousinsDistribute
    <3> QED BY <3>1, CousinHeadsDistribute
  <2>3. Driver = rel \/ Driver = delta
    BY DEF Driver
  <2>4. CousinHeads(Cousins(Driver, arc)) \subseteq Pairs
    BY RulesAreTyped
  <2> QED BY <2>1, <2>2, <2>3, <2>4 DEF old
<1>4. CASE prog = "tc_linear" \/ prog = "reach_from"
  <2>1. /\ Emitted = JoinHeads(Join(Driver, arc))
        /\ \A r : Consequences(prog, arc, r) = JoinHeads(Join(r, arc))
    BY <1>4 DEF Emitted, Consequences
  <2>2. JoinHeads(Join(rel, arc)) = JoinHeads(Join(old, arc)) \cup JoinHeads(Join(delta, arc))
    <3>1. Join(rel, arc) = Join(old, arc) \cup Join(delta, arc)
      BY <1>1, JoinDistributesLeft
    <3> QED BY <3>1, JoinHeadsDistribute
  <2>3. Driver = rel \/ Driver = delta
    BY DEF Driver
  <2>4. JoinHeads(Join(Driver, arc)) \subseteq Pairs
    BY RulesAreTyped
  <2> QED BY <2>1, <2>2, <2>3, <2>4 DEF old
<1>5. CASE prog = "tc_nonlinear"
  <2>1. /\ Emitted = JoinHeads(Version1) \cup JoinHeads(Version2)
        /\ \A r : Consequences(prog, arc, r) = JoinHeads(Join(r, r))
    BY <1>5 DEF Emitted, Consequences
  <2>2. Join(rel, rel) = Join(delta, rel) \cup Join(old, delta) \cup Join(old, old)
    <3>1. Join(rel, rel) = Join(old, rel) \cup Join(delta, rel)
      BY <1>1, JoinDistributesLeft
    <3>2. Join(old, rel) = Join(old, old) \cup Join(old, delta)
      BY <1>1, JoinDistributesRight
    <3> QED BY <3>1, <3>2
  <2>3. Join(rel, delta) = Join(old, delta) \cup Join(delta, delta)
    BY <1>1, JoinDistributesLeft
  <2>4. Join(delta, rel) = Join(delta, old) \cup Join(delta, delta)
    BY <1>1, JoinDistributesRight
  <2>5. \/ Version1 = Join(rel, rel) /\ Version2 = {}
        \/ Version1 = Join(delta, rel) /\ Version2 = Join(rel, delta)
        \/ Version1 = Join(delta, rel) /\ Version2 = Join(old, delta)
    BY <1>2 DEF Version1, Version2, old
  <2>6. /\ Version1 \cup Version2 \subseteq Join(rel, rel)
        /\ Join(rel, rel) \subseteq Join(old, old) \cup (Version1 \cup Version2)
    BY <2>2, <2>3, <2>4, <2>5
  <2>7. Emitted = JoinHeads(Version1 \cup Version2)
    BY <2>1 DEF JoinHeads
  <2>8. \A S, T : S \subseteq T => JoinHeads(S) \subseteq JoinHeads(T)
    BY DEF JoinHeads
  <2>9. Emitted \subseteq JoinHeads(Join(rel, rel))
    BY <2>6, <2>7, <2>8
  <2>10. JoinHeads(Join(rel, rel)) \subseteq JoinHeads(Join(old, old)) \cup Emitted
    <3>1. JoinHeads(Join(rel, rel)) \subseteq JoinHeads(Join(old, old) \cup (Version1 \cup Version2))
      BY <2>6, <2>8
    <3> QED BY <2>1, <2>7, <3>1 DEF JoinHeads
  <2>11. JoinHeads(Join(rel, rel)) \subseteq Pairs
    BY RulesAreTyped
  <2> QED BY <2>1, <2>9, <2>10, <2>11 DEF old
<1> QED BY <1>3, <1>4, <1>5 DEF Programs

-----------------------------------------------------------------------------
(* The inductive invariant *)

\* What a round leaves: the tuples older than the next delta are those the
\* round started from.
LEMMA RoundMerges ==
  ASSUME InductiveInvariant, Round
  PROVE  /\ prog \in Programs /\ mode \in Modes(prog) /\ delta \subseteq rel
         /\ prog' = prog /\ arc' = arc /\ mode' = mode
         /\ Fresh \subseteq Pairs /\ Fresh \cap rel = {}
         /\ rel' = rel \cup Fresh
         /\ rel \cup Fresh = rel \cup Consequences(prog, arc, rel)
         /\ Fresh = {} => pc' = "done" /\ delta' = delta
         /\ Fresh # {} => pc' = "rounds" /\ delta' = Fresh /\ rel' \ delta' = rel
<1>1. pc = "rounds"
  BY DEF Round
<1>2. /\ prog \in Programs /\ mode \in Modes(prog) /\ delta \subseteq rel
      /\ Consequences(prog, arc, rel \ delta) \subseteq rel
  BY <1>1 DEF InductiveInvariant, TypeOK, OldIsClosed
<1>3. /\ Emitted \subseteq Consequences(prog, arc, rel)
      /\ Consequences(prog, arc, rel) \subseteq Consequences(prog, arc, rel \ delta) \cup Emitted
      /\ Emitted \subseteq Pairs
  BY <1>2, RoundIsWhole
<1>4. Fresh = Emitted \ rel
  BY DEF Fresh
<1>5. prog' = prog /\ arc' = arc /\ mode' = mode
  BY DEF Round
<1>6. /\ Fresh = {} => pc' = "done" /\ rel' = rel /\ delta' = delta
      /\ Fresh # {} => pc' = "rounds" /\ rel' = rel \cup Fresh /\ delta' = Fresh
  BY <1>1 DEF Round, Merge
<1> QED BY <1>2, <1>3, <1>4, <1>5, <1>6

\* The base rule derives pairs of nodes, from finitely many instances.
LEMMA BaseIsTyped ==
  ASSUME prog \in Programs, arc \in Graphs
  PROVE  /\ BaseHeads(prog, arc) \subseteq Pairs
         /\ IsFiniteSet(BaseInstances(prog, arc))
         /\ Cardinality(BaseInstances(prog, arc)) \in Nat
         /\ Cardinality(BaseHeads(prog, arc)) <= Cardinality(BaseInstances(prog, arc))
<1> DEFINE I == BaseInstances(prog, arc)
<1>1. arc \subseteq Pairs
  BY DEF Graphs, Pairs
<1>2. CASE prog = "sg"
  <2> DEFINE f == [i \in Nodes \X Nodes \X Nodes |-> <<i[2], i[3]>>]
  <2>1. I \in SUBSET (Nodes \X Nodes \X Nodes)
    BY <1>2 DEF BaseInstances
  <2>2. IsFiniteSet(I) /\ Cardinality(I) \in Nat
    <3> HIDE DEF I
    <3> QED BY <2>1, TuplesAreFinite, FS_Subset, FS_CardinalityType
  <2>3. BaseHeads(prog, arc) = {f[i] : i \in I}
    <3>1. BaseHeads(prog, arc) = {<<i[2], i[3]>> : i \in I}
      BY <1>2 DEF BaseHeads
    <3> HIDE DEF I
    <3> QED BY <2>1, <3>1
  <2>4. BaseHeads(prog, arc) \subseteq Pairs
    <3>1. \A i \in I : i \in Nodes \X Nodes \X Nodes
      BY <2>1
    <3>2. \A i \in I : f[i] \in Pairs
      BY <3>1 DEF Pairs
    <3> HIDE DEF I, f
    <3> QED BY <2>3, <3>2
  <2>5. Cardinality({f[i] : i \in I}) <= Cardinality(I)
    <3> HIDE DEF I, f
    <3> QED BY <2>2, HeadsAreFewer
  <2> QED BY <2>2, <2>3, <2>4, <2>5
<1>3. CASE prog # "sg"
  <2>1. BaseHeads(prog, arc) = I /\ I \subseteq arc
    BY <1>3 DEF BaseHeads, BaseInstances, Programs
  <2>2. IsFiniteSet(I) /\ Cardinality(I) \in Nat
    <3> HIDE DEF I
    <3> QED BY <1>1, <2>1, RelationsAreFinite
  <2> QED BY <1>1, <2>1, <2>2
<1> QED BY <1>2, <1>3

\* Nothing is derived from no tuples.
LEMMA NothingFromNothing ==
  ASSUME prog \in Programs
  PROVE  Consequences(prog, arc, {}) = {} /\ InstancesOver({}) = 0
<1>1. Consequences(prog, arc, {}) = {}
  BY RulesAreTyped DEF Consequences, Programs
<1>2. InstancesOver({}) \in {Cardinality(Cousins({}, arc)), Cardinality(Join({}, {})),
                             Cardinality(Join({}, arc))}
  BY DEF InstancesOver, Programs
<1>3. Cousins({}, arc) = {} /\ Join({}, {}) = {} /\ Join({}, arc) = {}
  BY RulesAreTyped
<1> QED BY <1>1, <1>2, <1>3, FS_EmptySet

\* Every number the counters are made of is natural.
LEMMA CountsAreNat ==
  ASSUME prog \in Programs, mode \in Modes(prog)
  PROVE  /\ Matches \in Nat
         /\ \A r : InstancesOver(r) \in Nat
<1>1. mode = "naive" \/ mode = "semi" \/ mode = "old"
  BY DEF Modes, Programs
<1>2. Cardinality(Version1) \in Nat /\ Cardinality(Version2) \in Nat
  <2>1. Version1 = Join(rel, rel) \/ Version1 = Join(delta, rel)
    BY DEF Version1
  <2>2. \/ Version2 = {}
        \/ Version2 = Join(rel, delta)
        \/ Version2 = Join(rel \ delta, delta)
    BY <1>1 DEF Version2
  <2> QED BY <2>1, <2>2, InstancesAreFinite, FS_EmptySet
<1>3. Matches \in Nat
  BY <1>2, InstancesAreFinite DEF Matches, Programs
<1>4. ASSUME NEW r PROVE InstancesOver(r) \in Nat
  BY InstancesAreFinite DEF InstancesOver, Programs
<1> QED BY <1>3, <1>4

\* The invariant holds initially, after the base facts and after every round.
LEMMA StepKeepsInvariant == InductiveInvariant /\ [Next]_vars => InductiveInvariant'
<1> SUFFICES ASSUME InductiveInvariant, [Next]_vars PROVE InductiveInvariant'
  OBVIOUS
<1>1. CASE UNCHANGED vars
  BY <1>1 DEF vars, InductiveInvariant, TypeOK, OldIsClosed
<1>2. CASE Load
  <2>1. /\ pc = "load" /\ prog \in Programs /\ arc \in Graphs /\ mode \in Modes(prog)
        /\ iterations \in Nat
    BY <1>2 DEF Load, InductiveInvariant, TypeOK
  <2>2. /\ rel' = BaseHeads(prog, arc) /\ delta' = rel' /\ pc' = "rounds"
        /\ derivations' = Cardinality(BaseInstances(prog, arc))
        /\ newTuples' = Cardinality(rel')
        /\ prog' = prog /\ arc' = arc /\ mode' = mode /\ iterations' = iterations
    BY <1>2 DEF Load
  <2>3. rel' \subseteq Pairs /\ derivations' \in Nat
    BY <2>1, <2>2, BaseIsTyped
  <2>4. newTuples' \in Nat
    BY <2>2, <2>3, RelationsAreFinite
  <2>5. TypeOK'
    BY <2>1, <2>2, <2>3, <2>4 DEF TypeOK
  <2>6. OldIsClosed'
    <3>1. rel' \ delta' = {}
      BY <2>2
    <3>2. Consequences(prog, arc, {}) = {}
      BY <2>1, NothingFromNothing
    <3> QED BY <2>2, <3>1, <3>2 DEF OldIsClosed
  <2> QED BY <2>2, <2>5, <2>6 DEF InductiveInvariant
<1>3. CASE Round
  <2>1. /\ prog \in Programs /\ mode \in Modes(prog) /\ delta \subseteq rel
        /\ prog' = prog /\ arc' = arc /\ mode' = mode
        /\ Fresh \subseteq Pairs /\ Fresh \cap rel = {}
        /\ rel' = rel \cup Fresh
        /\ rel \cup Fresh = rel \cup Consequences(prog, arc, rel)
        /\ Fresh = {} => pc' = "done" /\ delta' = delta
        /\ Fresh # {} => pc' = "rounds" /\ delta' = Fresh /\ rel' \ delta' = rel
    BY <1>3, RoundMerges
  <2>2. /\ derivations' = derivations + Matches
        /\ newTuples' = newTuples + Cardinality(Fresh)
        /\ iterations' = iterations + 1
        /\ pc = "rounds"
    BY <1>3 DEF Round
  <2>3. Matches \in Nat /\ Cardinality(Fresh) \in Nat
    BY <2>1, CountsAreNat, RelationsAreFinite
  <2>4. TypeOK'
    BY <2>1, <2>2, <2>3 DEF InductiveInvariant, TypeOK
  <2>5. OldIsClosed'
    <3>1. CASE Fresh = {}
      BY <2>1, <2>2, <3>1 DEF InductiveInvariant, OldIsClosed
    <3>2. CASE Fresh # {}
      <4>1. Consequences(prog', arc', rel' \ delta') \subseteq rel'
        BY <2>1, <3>2
      <4> QED BY <2>1, <3>2, <4>1 DEF OldIsClosed
    <3> QED BY <3>1, <3>2
  <2>6. pc' # "load"
    BY <2>1
  <2> QED BY <2>4, <2>5, <2>6 DEF InductiveInvariant
<1> QED BY <1>1, <1>2, <1>3 DEF Next

LEMMA InitInvariant == Init => InductiveInvariant
BY DEF Init, NInit, InductiveInvariant, TypeOK, OldIsClosed, Pairs

\* Theorem: between rounds the delta is part of the relation, and all that
\* follows from the tuples older than it is known (the loops of eval.rs).
THEOREM InvariantHolds == Spec => []InductiveInvariant
BY InitInvariant, StepKeepsInvariant, PTL DEF Spec

\* Theorem: whatever its strategy, an evaluation takes the steps of naive
\* evaluation: each round leaves the relation that a naive round leaves, and
\* the same round is the last.
THEOREM RoundsAreNaive == Spec => NInit /\ [][NNext]_nvars
<1>1. Init => NInit
  BY DEF Init
<1>2. InductiveInvariant /\ [Next]_vars => [NNext]_nvars
  <2> SUFFICES ASSUME InductiveInvariant, [Next]_vars PROVE [NNext]_nvars
    OBVIOUS
  <2>1. CASE UNCHANGED vars
    BY <2>1 DEF vars, nvars
  <2>2. CASE Load
    BY <2>2 DEF Load, NLoad, NNext
  <2>3. CASE Round
    <3>1. /\ prog' = prog /\ arc' = arc
          /\ Fresh \cap rel = {}
          /\ rel' = rel \cup Fresh
          /\ rel \cup Fresh = rel \cup Consequences(prog, arc, rel)
          /\ Fresh = {} => pc' = "done"
          /\ Fresh # {} => pc' = "rounds"
      BY <2>3, RoundMerges
    <3>2. pc = "rounds"
      BY <2>3 DEF Round
    <3> QED BY <3>1, <3>2 DEF NRound, NNext
  <2> QED BY <2>1, <2>2, <2>3 DEF Next
<1> QED BY <1>1, <1>2, InvariantHolds, PTL DEF Spec

-----------------------------------------------------------------------------
(* The counters *)

\* No more tuples are fresh than there are matches.
LEMMA FreshAreMatches ==
  ASSUME prog \in Programs, mode \in Modes(prog), Fresh \subseteq Pairs
  PROVE  Cardinality(Fresh) <= Matches
<1> DEFINE joined == [i \in Nodes \X Nodes \X Nodes |-> <<i[1], i[3]>>]
           cousins == [i \in Nodes \X Nodes \X Nodes \X Nodes |-> <<i[3], i[4]>>]
<1>1. ASSUME NEW A, NEW B
      PROVE  /\ IsFiniteSet(JoinHeads(Join(A, B)))
             /\ Cardinality(JoinHeads(Join(A, B))) <= Cardinality(Join(A, B))
             /\ Cardinality(JoinHeads(Join(A, B))) \in Nat
  <2>1. \A i \in Join(A, B) : i \in Nodes \X Nodes \X Nodes
    BY DEF Join
  <2>2. JoinHeads(Join(A, B)) = {joined[i] : i \in Join(A, B)}
    BY <2>1 DEF JoinHeads
  <2> HIDE DEF joined
  <2>3. /\ IsFiniteSet({joined[i] : i \in Join(A, B)})
        /\ Cardinality({joined[i] : i \in Join(A, B)}) <= Cardinality(Join(A, B))
    BY InstancesAreFinite, HeadsAreFewer
  <2> QED BY <2>2, <2>3, FS_CardinalityType
<1>2. ASSUME NEW A, NEW B
      PROVE  /\ IsFiniteSet(CousinHeads(Cousins(A, B)))
             /\ Cardinality(CousinHeads(Cousins(A, B))) <= Cardinality(Cousins(A, B))
  <2>1. \A i \in Cousins(A, B) : i \in Nodes \X Nodes \X Nodes \X Nodes
    BY DEF Cousins
  <2>2. CousinHeads(Cousins(A, B)) = {cousins[i] : i \in Cousins(A, B)}
    BY <2>1 DEF CousinHeads
  <2> HIDE DEF cousins
  <2>3. /\ IsFiniteSet({cousins[i] : i \in Cousins(A, B)})
        /\ Cardinality({cousins[i] : i \in Cousins(A, B)}) <= Cardinality(Cousins(A, B))
    BY InstancesAreFinite, HeadsAreFewer
  <2> QED BY <2>2, <2>3
<1> HIDE DEF joined, cousins
<1>3. IsFiniteSet(Emitted) /\ Cardinality(Emitted) <= Matches
  <2>1. CASE prog = "sg"
    <3>1. Emitted = CousinHeads(Cousins(Driver, arc)) /\ Matches = Cardinality(Cousins(Driver, arc))
      BY <2>1 DEF Emitted, Matches
    <3> QED BY <1>2, <3>1
  <2>2. CASE prog = "tc_linear" \/ prog = "reach_from"
    <3>1. Emitted = JoinHeads(Join(Driver, arc)) /\ Matches = Cardinality(Join(Driver, arc))
      BY <2>2 DEF Emitted, Matches
    <3> QED BY <1>1, <3>1
  <2>3. CASE prog = "tc_nonlinear"
    <3> DEFINE H1 == JoinHeads(Version1)
               H2 == JoinHeads(Version2)
    <3>1. Emitted = H1 \cup H2 /\ Matches = Cardinality(Version1) + Cardinality(Version2)
      BY <2>3 DEF Emitted, Matches
    <3>2. /\ IsFiniteSet(H1) /\ Cardinality(H1) <= Cardinality(Version1)
          /\ Cardinality(H1) \in Nat /\ Cardinality(Version1) \in Nat
      <4>1. Version1 = Join(rel, rel) \/ Version1 = Join(delta, rel)
        BY DEF Version1
      <4> QED BY <1>1, <4>1, InstancesAreFinite
    <3>3. /\ IsFiniteSet(H2) /\ Cardinality(H2) <= Cardinality(Version2)
          /\ Cardinality(H2) \in Nat /\ Cardinality(Version2) \in Nat
      <4>1. \/ Version2 = {}
            \/ Version2 = Join(rel, delta)
            \/ Version2 = Join(rel \ delta, delta)
        BY DEF Version2, Modes, Programs
      <4>2. CASE Version2 = {}
        BY <4>2, RulesAreTyped, FS_EmptySet
      <4> QED BY <1>1, <4>1, <4>2, InstancesAreFinite
    <3> HIDE DEF H1, H2
    <3>4. /\ IsFiniteSet(H1 \cup H2)
          /\ Cardinality(H1 \cup H2) = Cardinality(H1) + Cardinality(H2) - Cardinality(H1 \cap H2)
      BY <3>2, <3>3, FS_Union
    <3>5. Cardinality(H1 \cap H2) \in Nat
      BY <3>2, FS_Intersection, FS_CardinalityType
    <3> QED BY <3>1, <3>2, <3>3, <3>4, <3>5
  <2> QED BY <2>1, <2>2, <2>3 DEF Programs
<1>4. Fresh \in SUBSET Emitted
  BY DEF Fresh
<1>5. Cardinality(Fresh) <= Cardinality(Emitted) /\ Cardinality(Fresh) \in Nat
  BY <1>3, <1>4, FS_Subset, FS_CardinalityType
<1> QED BY <1>3, <1>5, CountsAreNat, FS_CardinalityType

\* The strategies that match no instance twice.
MatchesOnce == mode # "naive" /\ ~(mode = "semi" /\ prog = "tc_nonlinear")

\* A round over the delta matches the instances that the older tuples did not
\* have.
LEMMA RoundMatchesTheRest ==
  ASSUME prog \in Programs, mode \in Modes(prog), delta \subseteq rel
  PROVE  /\ InstancesOver(rel) <= InstancesOver(rel \ delta) + Matches
         /\ MatchesOnce => InstancesOver(rel) = InstancesOver(rel \ delta) + Matches
<1> DEFINE old == rel \ delta
<1>1. rel = old \cup delta /\ old \cap delta = {}
  OBVIOUS
<1>2. mode = "naive" \/ mode = "semi" \/ (mode = "old" /\ prog = "tc_nonlinear")
  BY DEF Modes, Programs
<1>3. \A r : InstancesOver(r) \in Nat
  BY CountsAreNat
<1> HIDE DEF old
<1>4. CASE prog = "sg"
  <2>1. /\ Matches = Cardinality(Cousins(Driver, arc))
        /\ \A r : InstancesOver(r) = Cardinality(Cousins(r, arc))
    BY <1>4 DEF Matches, InstancesOver
  <2>2. Cardinality(Cousins(rel, arc)) =
          Cardinality(Cousins(old, arc)) + Cardinality(Cousins(delta, arc))
    <3>1. Cousins(rel, arc) = Cousins(old, arc) \cup Cousins(delta, arc)
      BY <1>1, CousinsDistribute
    <3>2. Cousins(old, arc) \cap Cousins(delta, arc) = {}
      BY <1>1 DEF Cousins
    <3> QED BY <3>1, <3>2, InstancesAreFinite, CountInParts
  <2>3. Driver = IF mode = "naive" THEN rel ELSE delta
    BY DEF Driver
  <2> QED BY <1>2, <1>3, <2>1, <2>2, <2>3 DEF old, MatchesOnce
<1>5. CASE prog = "tc_linear" \/ prog = "reach_from"
  <2>1. /\ Matches = Cardinality(Join(Driver, arc))
        /\ \A r : InstancesOver(r) = Cardinality(Join(r, arc))
    BY <1>5 DEF Matches, InstancesOver
  <2>2. Cardinality(Join(rel, arc)) =
          Cardinality(Join(old, arc)) + Cardinality(Join(delta, arc))
    <3>1. Join(rel, arc) = Join(old, arc) \cup Join(delta, arc)
      BY <1>1, JoinDistributesLeft
    <3>2. Join(old, arc) \cap Join(delta, arc) = {}
      BY <1>1 DEF Join
    <3> QED BY <3>1, <3>2, InstancesAreFinite, CountInParts
  <2>3. Driver = IF mode = "naive" THEN rel ELSE delta
    BY DEF Driver
  <2> QED BY <1>2, <1>3, <2>1, <2>2, <2>3 DEF old, MatchesOnce
<1>6. CASE prog = "tc_nonlinear"
  <2>1. /\ Matches = Cardinality(Version1) + Cardinality(Version2)
        /\ \A r : InstancesOver(r) = Cardinality(Join(r, r))
    BY <1>6 DEF Matches, InstancesOver
  <2>2. Cardinality(Join(rel, rel)) =
          Cardinality(Join(old, old)) + Cardinality(Join(delta, rel)) + Cardinality(Join(old, delta))
    <3>1. Join(rel, rel) = Join(old, rel) \cup Join(delta, rel)
      BY <1>1, JoinDistributesLeft
    <3>2. Join(old, rel) = Join(old, old) \cup Join(old, delta)
      BY <1>1, JoinDistributesRight
    <3>3. Join(old, rel) \cap Join(delta, rel) = {}
      BY <1>1 DEF Join
    <3>4. Join(old, old) \cap Join(old, delta) = {}
      BY <1>1 DEF Join
    <3>5. Cardinality(Join(rel, rel)) = Cardinality(Join(old, rel)) + Cardinality(Join(delta, rel))
      BY <3>1, <3>3, InstancesAreFinite, CountInParts
    <3>6. Cardinality(Join(old, rel)) = Cardinality(Join(old, old)) + Cardinality(Join(old, delta))
      BY <3>2, <3>4, InstancesAreFinite, CountInParts
    <3> QED BY <3>5, <3>6, InstancesAreFinite
  <2>3. Cardinality(Join(old, delta)) <= Cardinality(Join(rel, delta))
    <3>1. Join(old, delta) \in SUBSET Join(rel, delta)
      BY <1>1 DEF Join
    <3> QED BY <3>1, InstancesAreFinite, FS_Subset
  <2>4. /\ Cardinality(Join(old, old)) \in Nat
        /\ Cardinality(Join(delta, rel)) \in Nat
        /\ Cardinality(Join(old, delta)) \in Nat
        /\ Cardinality(Join(rel, delta)) \in Nat
    BY InstancesAreFinite
  <2>5. CASE mode = "naive"
    <3>1. Matches = Cardinality(Join(rel, rel))
      <4>1. Version1 = Join(rel, rel) /\ Version2 = {}
        BY <2>5 DEF Version1, Version2
      <4> QED BY <2>1, <4>1, FS_EmptySet, InstancesAreFinite
    <3> QED BY <1>3, <2>1, <2>5, <3>1 DEF MatchesOnce
  <2>6. CASE mode = "semi"
    <3>1. Version1 = Join(delta, rel) /\ Version2 = Join(rel, delta)
      BY <2>6 DEF Version1, Version2
    <3> QED BY <1>6, <2>1, <2>2, <2>3, <2>4, <2>6, <3>1 DEF MatchesOnce, old
  <2>7. CASE mode = "old"
    <3>1. Version1 = Join(delta, rel) /\ Version2 = Join(old, delta)
      BY <2>7 DEF Version1, Version2, old
    <3> QED BY <2>1, <2>2, <2>4, <3>1 DEF old
  <2> QED BY <1>2, <2>5, <2>6, <2>7
<1> QED BY <1>4, <1>5, <1>6 DEF Programs

\* Theorem: every strategy counts at least one derivation for each instance of
\* the rules, a delta strategy exactly one, and new_tuples is the size of the
\* relation (Stats, eval.rs).
THEOREM CountersExact == Spec => []DerivationsExact
<1> DEFINE processed == IF pc = "done" THEN rel ELSE rel \ delta
           exact == Cardinality(BaseInstances(prog, arc)) + InstancesOver(processed)
           Counted ==
             pc # "load" =>
               /\ newTuples = Cardinality(rel)
               /\ derivations >= newTuples
               /\ derivations >= exact
               /\ MatchesOnce => derivations = exact
<1>1. Init => Counted
  BY DEF Init, NInit
<1>2. InductiveInvariant /\ Counted /\ [Next]_vars => Counted'
  <2> SUFFICES ASSUME InductiveInvariant, Counted, [Next]_vars PROVE Counted'
    OBVIOUS
  <2>1. CASE UNCHANGED vars
    BY <2>1 DEF vars, MatchesOnce, InstancesOver
  <2>2. CASE Load
    <3>1. prog \in Programs /\ arc \in Graphs
      BY DEF InductiveInvariant, TypeOK
    <3>2. /\ rel' = BaseHeads(prog, arc) /\ delta' = rel' /\ pc' = "rounds"
          /\ derivations' = Cardinality(BaseInstances(prog, arc))
          /\ newTuples' = Cardinality(rel')
          /\ prog' = prog /\ arc' = arc
      BY <2>2 DEF Load
    <3>3. rel' \ delta' = {}
      BY <3>2
    <3>4. InstancesOver({})' = 0
      BY <3>1, <3>2, NothingFromNothing DEF InstancesOver
    <3>5. exact' = Cardinality(BaseInstances(prog, arc))
      BY <3>1, <3>2, <3>3, <3>4, BaseIsTyped
    <3> QED BY <3>1, <3>2, <3>5, BaseIsTyped
  <2>3. CASE Round
    <3>1. /\ prog \in Programs /\ mode \in Modes(prog) /\ delta \subseteq rel
          /\ prog' = prog /\ arc' = arc /\ mode' = mode
          /\ Fresh \subseteq Pairs /\ Fresh \cap rel = {}
          /\ rel' = rel \cup Fresh
          /\ Fresh = {} => pc' = "done"
          /\ Fresh # {} => pc' = "rounds" /\ rel' \ delta' = rel
      BY <2>3, RoundMerges
    <3>2. /\ pc = "rounds"
          /\ derivations' = derivations + Matches
          /\ newTuples' = newTuples + Cardinality(Fresh)
      BY <2>3 DEF Round
    <3>3. /\ newTuples = Cardinality(rel)
          /\ derivations >= newTuples
          /\ derivations >= Cardinality(BaseInstances(prog, arc)) + InstancesOver(rel \ delta)
          /\ MatchesOnce =>
               derivations = Cardinality(BaseInstances(prog, arc)) + InstancesOver(rel \ delta)
      BY <3>2
    <3>4. exact' = Cardinality(BaseInstances(prog, arc)) + InstancesOver(rel)
      <4>1. processed' = rel
        BY <3>1
      <4> HIDE DEF processed
      <4> QED BY <3>1, <4>1 DEF InstancesOver
    <3>5. /\ Matches \in Nat /\ Cardinality(Fresh) \in Nat /\ Cardinality(Fresh) <= Matches
          /\ Cardinality(BaseInstances(prog, arc)) \in Nat
          /\ InstancesOver(rel) \in Nat /\ InstancesOver(rel \ delta) \in Nat
          /\ newTuples \in Nat /\ derivations \in Nat
      BY <3>1, CountsAreNat, RelationsAreFinite, FreshAreMatches, BaseIsTyped
         DEF InductiveInvariant, TypeOK
    <3>6. /\ InstancesOver(rel) <= InstancesOver(rel \ delta) + Matches
          /\ MatchesOnce => InstancesOver(rel) = InstancesOver(rel \ delta) + Matches
      BY <3>1, RoundMatchesTheRest
    <3>7. newTuples' = Cardinality(rel')
      <4>1. IsFiniteSet(rel) /\ IsFiniteSet(Fresh)
        BY <3>1, RelationsAreFinite DEF InductiveInvariant, TypeOK
      <4>2. Cardinality(rel') = Cardinality(rel) + Cardinality(Fresh)
        BY <3>1, <4>1, CountInParts
      <4> QED BY <3>2, <3>3, <4>2
    <3>8. MatchesOnce' = MatchesOnce
      BY <3>1 DEF MatchesOnce
    <3> HIDE DEF exact
    <3> QED BY <3>2, <3>3, <3>4, <3>5, <3>6, <3>7, <3>8
  <2> QED BY <2>1, <2>2, <2>3 DEF Next
<1>3. InductiveInvariant /\ Counted => DerivationsExact
  BY DEF DerivationsExact, MatchesOnce, InductiveInvariant, TypeOK, Modes, Programs
<1> QED BY <1>1, <1>2, <1>3, InvariantHolds, PTL DEF Spec
-----------------------------------------------------------------------------
(* Induction *)

\* A nonempty set of naturals has a least one.
LEMMA MinExists ==
  ASSUME NEW T, T \subseteq Nat, T # {}
  PROVE  \E x \in T : \A y \in T : x <= y
<1> DEFINE R == OpToRel(<, Nat)
<1>1. \A x, y \in Nat : <<y, x>> \in R <=> y < x
  BY DEF OpToRel
<1>2. PICK x \in T : \A y \in T : ~ (<<y, x>> \in R)
  <2>1. IsWellFoundedOn(R, Nat)
    BY NatLessThanWellFounded DEF R
  <2> HIDE DEF R
  <2> QED BY <2>1, WFMin
<1>3. \A y \in T : ~ (y < x)
  <2> HIDE DEF R
  <2> QED BY <1>1, <1>2
<1> HIDE DEF R
<1> QED BY <1>3

\* A set that holds 0 and the successor of each of its numbers holds all: the
\* form in which the provers can use induction.
LEMMA InductiveSet ==
  ASSUME NEW P, 0 \in P, \A n \in Nat : n \in P => n + 1 \in P
  PROVE  Nat \subseteq P
<1> DEFINE missing == Nat \ P
<1>1. SUFFICES ASSUME missing # {} PROVE FALSE
  OBVIOUS
<1>2. PICK x \in missing : \A y \in missing : x <= y
  BY <1>1, MinExists
<1>3. x # 0 /\ x - 1 \in Nat
  OBVIOUS
<1>4. x - 1 \notin missing
  <2>1. ~ (x <= x - 1)
    BY <1>3
  <2> HIDE DEF missing
  <2> QED BY <1>2, <2>1
<1>5. x - 1 + 1 \in P
  BY <1>3, <1>4
<1>6. x - 1 + 1 = x
  BY <1>3
<1> QED BY <1>5, <1>6

\* f is the sequence of the iterates of F from x.
Iterates(f, F, x) == f[0] = x /\ \A k \in Nat : f[k + 1] = F[f[k]]

\* A function on a set can be iterated from any of its elements.
LEMMA Iteration ==
  ASSUME NEW S, NEW F \in [S -> S], NEW x \in S
  PROVE  \E f \in [Nat -> S] : Iterates(f, F, x)
<1> DEFINE Runs(n) == {h \in [0..n -> S] : h[0] = x /\ \A k \in 1..n : h[k] = F[h[k - 1]]}
           P == {n \in Nat : Runs(n) # {}}
<1>1. 0 \in P
  <2>1. [k \in 0..0 |-> x] \in Runs(0)
    OBVIOUS
  <2> QED BY <2>1
<1>2. ASSUME NEW n \in Nat, n \in P PROVE n + 1 \in P
  <2>1. PICK h \in Runs(n) : TRUE
    BY <1>2
  <2> DEFINE g == [k \in 0..(n + 1) |-> IF k <= n THEN h[k] ELSE F[h[n]]]
  <2>2. h \in [0..n -> S] /\ h[0] = x /\ \A k \in 1..n : h[k] = F[h[k - 1]]
    OBVIOUS
  <2>3. g \in [0..(n + 1) -> S]
    <3>1. ASSUME NEW k \in 0..(n + 1) PROVE (IF k <= n THEN h[k] ELSE F[h[n]]) \in S
      <4>1. k <= n => k \in 0..n
        OBVIOUS
      <4>2. n \in 0..n
        OBVIOUS
      <4>3. h[n] \in S /\ F[h[n]] \in S
        BY <2>2, <4>2
      <4> HIDE DEF Runs, P
      <4> QED BY <2>2, <4>1, <4>3
    <3> HIDE DEF Runs, P
    <3> QED BY <3>1
  <2>4. g[0] = x
    <3> HIDE DEF Runs, P
    <3> QED BY <2>2
  <2>5. ASSUME NEW k \in 1..(n + 1) PROVE g[k] = F[g[k - 1]]
    <3> HIDE DEF Runs, P
    <3>1. k - 1 \in 0..(n + 1) /\ k \in 0..(n + 1) /\ k - 1 <= n
      OBVIOUS
    <3>2. g[k - 1] = h[k - 1]
      BY <3>1
    <3>3. CASE k <= n
      <4>1. k \in 1..n
        BY <3>3
      <4>2. g[k] = h[k]
        BY <3>1, <3>3
      <4> HIDE DEF g
      <4> QED BY <2>2, <3>2, <4>1, <4>2
    <3>4. CASE k = n + 1
      <4>1. g[k] = F[h[n]]
        BY <3>1, <3>4
      <4>2. k - 1 = n
        BY <3>4
      <4> HIDE DEF g
      <4> QED BY <3>2, <4>1, <4>2
    <3> QED BY <3>3, <3>4
  <2>6. g \in Runs(n + 1)
    <3> HIDE DEF g
    <3> QED BY <2>3, <2>4, <2>5
  <2> QED BY <2>6
<1>3. \A n \in Nat : Runs(n) # {}
  <2> HIDE DEF P, Runs
  <2>1. Nat \subseteq P
    BY <1>1, <1>2, InductiveSet
  <2> QED BY <2>1 DEF P
<1> DEFINE run(n) == CHOOSE h \in Runs(n) : TRUE
<1>4. \A n \in Nat : run(n) \in Runs(n)
  <2> HIDE DEF Runs
  <2> QED BY <1>3
<1>5. ASSUME NEW n \in Nat, NEW h \in Runs(n), NEW g \in Runs(n + 1)
      PROVE  h[n] = g[n]
  <2> DEFINE Agree == {k \in Nat : k <= n => h[k] = g[k]}
  <2>1. 0 \in Agree
    OBVIOUS
  <2>2. ASSUME NEW k \in Nat, k \in Agree PROVE k + 1 \in Agree
    <3>1. SUFFICES ASSUME k + 1 <= n PROVE h[k + 1] = g[k + 1]
      OBVIOUS
    <3>2. k + 1 \in 1..n /\ k + 1 \in 1..(n + 1) /\ k + 1 - 1 = k
      BY <3>1
    <3>3. h[k] = g[k]
      BY <2>2, <3>1
    <3>4. h[k + 1] = F[h[k + 1 - 1]] /\ g[k + 1] = F[g[k + 1 - 1]]
      BY <3>2
    <3> QED BY <3>2, <3>3, <3>4
  <2>3. Nat \subseteq Agree
    <3> HIDE DEF Agree
    <3> QED BY <2>1, <2>2, InductiveSet
  <2>4. n \in Agree
    <3> HIDE DEF Agree, Runs
    <3> QED BY <2>3
  <2> HIDE DEF Runs
  <2> QED BY <2>4
<1> DEFINE f == [n \in Nat |-> run(n)[n]]
<1>6. f \in [Nat -> S]
  <2>1. ASSUME NEW n \in Nat PROVE run(n)[n] \in S
    <3>1. run(n) \in [0..n -> S]
      BY <1>4
    <3>2. n \in 0..n
      OBVIOUS
    <3> HIDE DEF run
    <3> QED BY <3>1, <3>2
  <2> HIDE DEF run
  <2> QED BY <2>1
<1>7. f[0] = x
  <2>1. run(0) \in Runs(0)
    <3> HIDE DEF run, Runs
    <3> QED BY <1>4
  <2>2. run(0)[0] = x
    BY <2>1
  <2> HIDE DEF run
  <2> QED BY <2>2
<1>8. ASSUME NEW k \in Nat PROVE f[k + 1] = F[f[k]]
  <2>1. k + 1 \in Nat /\ k + 1 - 1 = k /\ k + 1 \in 1..(k + 1)
    OBVIOUS
  <2>2. run(k + 1) \in Runs(k + 1) /\ run(k) \in Runs(k)
    BY <1>4, <2>1
  <2>3. run(k + 1)[k + 1] = F[run(k + 1)[k + 1 - 1]]
    <3> HIDE DEF run
    <3>1. \A j \in 1..(k + 1) : run(k + 1)[j] = F[run(k + 1)[j - 1]]
      BY <2>2
    <3> HIDE DEF Runs
    <3> QED BY <2>1, <3>1
  <2>4. run(k)[k] = run(k + 1)[k]
    <3> HIDE DEF run, Runs
    <3> QED BY <1>5, <2>1, <2>2
  <2> HIDE DEF run, Runs
  <2> QED BY <2>1, <2>3, <2>4
<1> HIDE DEF f
<1> QED BY <1>6, <1>7, <1>8 DEF Iterates

-----------------------------------------------------------------------------
(* Reachability *)

\* One step along the edges.
Successors(seen) == {v \in Nodes : \E u \in seen : <<u, v>> \in arc}

\* BfsFrom is the level reached after as many steps as there are nodes.
LEMMA BfsLevels ==
  ASSUME NEW s \in Nodes
  PROVE  \E f \in [Nat -> SUBSET Nodes] :
            /\ f[0] = Successors({s})
            /\ \A k \in Nat : f[k + 1] = f[k] \cup Successors(f[k])
            /\ BfsFrom(s) = f[Cardinality(Nodes)]
<1> DEFINE F == [seen \in SUBSET Nodes |-> seen \cup Successors(seen)]
           start == Successors({s})
           Levels(g) == g = [k \in Nat |-> IF k = 0 THEN start ELSE g[k - 1] \cup Successors(g[k - 1])]
           level == CHOOSE g : Levels(g)
<1>1. F \in [SUBSET Nodes -> SUBSET Nodes] /\ start \in SUBSET Nodes
  BY DEF Successors
<1>2. PICK f \in [Nat -> SUBSET Nodes] : f[0] = start /\ \A k \in Nat : f[k + 1] = F[f[k]]
  <2> DEFINE Sets == SUBSET Nodes
  <2>1. F \in [Sets -> Sets] /\ start \in Sets
    BY <1>1
  <2> HIDE DEF F, start, Sets
  <2>2. \E f \in [Nat -> Sets] : Iterates(f, F, start)
    BY <2>1, Iteration
  <2> QED BY <2>2 DEF Sets, Iterates
<1>3. \A k \in Nat : f[k + 1] = f[k] \cup Successors(f[k])
  BY <1>2
<1>4. f[0] = start
  <2> HIDE DEF F, start
  <2> QED BY <1>2
<1>5. Levels(f)
  <2>1. ASSUME NEW k \in Nat
        PROVE  f[k] = IF k = 0 THEN start ELSE f[k - 1] \cup Successors(f[k - 1])
    <3>1. CASE k = 0
      <4> HIDE DEF start
      <4> QED BY <1>4, <3>1
    <3>2. CASE k # 0
      <4>1. k - 1 \in Nat /\ k - 1 + 1 = k
        BY <3>2
      <4>2. f[k - 1 + 1] = f[k - 1] \cup Successors(f[k - 1])
        BY <1>3, <4>1
      <4> HIDE DEF start
      <4> QED BY <3>2, <4>1, <4>2
    <3> QED BY <3>1, <3>2
  <2>2. f = [k \in Nat |-> f[k]]
    OBVIOUS
  <2> HIDE DEF start
  <2> QED BY <2>1, <2>2
<1>6. Levels(level)
  <2> HIDE DEF Levels
  <2> QED BY <1>5
<1>7. \A k \in Nat : level[k] = f[k]
  <2> DEFINE Agree == {k \in Nat : level[k] = f[k]}
  <2> HIDE DEF start, level
  <2> DEFINE value(k) == IF k = 0 THEN start ELSE level[k - 1] \cup Successors(level[k - 1])
  <2>6. \A k \in Nat : level[k] = value(k)
    <3>1. level = [k \in Nat |-> value(k)]
      BY <1>6
    <3> HIDE DEF value
    <3> QED BY <3>1
  <2>1. level[0] = start
    BY <2>6
  <2>2. ASSUME NEW k \in Nat PROVE level[k + 1] = level[k] \cup Successors(level[k])
    <3>1. k + 1 \in Nat /\ k + 1 # 0 /\ k + 1 - 1 = k
      OBVIOUS
    <3>2. level[k + 1] = value(k + 1)
      <4> HIDE DEF value
      <4> QED BY <2>6, <3>1
    <3> QED BY <3>1, <3>2
  <2>3. ASSUME NEW k \in Nat, k \in Agree PROVE k + 1 \in Agree
    <3>1. k + 1 \in Nat
      OBVIOUS
    <3>2. level[k + 1] = f[k + 1]
      BY <1>3, <2>2, <2>3
    <3> QED BY <3>1, <3>2
  <2>4. 0 \in Agree
    BY <1>4, <2>1
  <2>5. Nat \subseteq Agree
    <3> HIDE DEF Agree
    <3> QED BY <2>3, <2>4, InductiveSet
  <2> QED BY <2>5
<1>8. Cardinality(Nodes) \in Nat
  BY NodesAssumption, FS_CardinalityType
<1>9. BfsFrom(s) = level[Cardinality(Nodes)]
  BY DEF BfsFrom, Successors
<1> HIDE DEF level
<1> QED BY <1>3, <1>4, <1>7, <1>8, <1>9

\* The walk ends with a set that no edge leaves: a level that is no larger than
\* the one before it is the last, and the nodes are too few for any other end.
LEMMA BfsIsClosed ==
  ASSUME NEW s \in Nodes
  PROVE  /\ BfsFrom(s) \subseteq Nodes
         /\ Successors({s}) \subseteq BfsFrom(s)
         /\ Successors(BfsFrom(s)) \subseteq BfsFrom(s)
<1>1. PICK f \in [Nat -> SUBSET Nodes] :
         /\ f[0] = Successors({s})
         /\ \A k \in Nat : f[k + 1] = f[k] \cup Successors(f[k])
         /\ BfsFrom(s) = f[Cardinality(Nodes)]
  BY BfsLevels
<1> DEFINE n == Cardinality(Nodes)
<1>2. IsFiniteSet(Nodes) /\ n \in Nat
  BY NodesAssumption, FS_CardinalityType
<1>3. \A k \in Nat : /\ f[k] \subseteq Nodes
                     /\ IsFiniteSet(f[k]) /\ Cardinality(f[k]) \in Nat /\ Cardinality(f[k]) <= n
                     /\ Cardinality(f[k]) = n => f[k] = Nodes
  BY <1>2, FS_Subset, FS_CardinalityType
<1> HIDE DEF n
<1>4. Successors({s}) \subseteq f[n]
  <2> DEFINE P == {k \in Nat : Successors({s}) \subseteq f[k]}
  <2>1. 0 \in P
    BY <1>1
  <2>2. ASSUME NEW k \in Nat, k \in P PROVE k + 1 \in P
    <3>1. f[k] \subseteq f[k + 1] /\ k + 1 \in Nat
      BY <1>1
    <3> QED BY <2>2, <3>1
  <2>3. Nat \subseteq P
    <3> HIDE DEF P
    <3> QED BY <2>1, <2>2, InductiveSet
  <2> QED BY <1>2, <2>3
<1>5. Cardinality(f[n]) >= n \/ f[n + 1] = f[n]
  <2> DEFINE P == {k \in Nat : Cardinality(f[k]) >= k \/ f[k + 1] = f[k]}
  <2>1. 0 \in P
    BY <1>3
  <2>2. ASSUME NEW k \in Nat, k \in P PROVE k + 1 \in P
    <3>1. k + 1 \in Nat /\ f[k + 1] = f[k] \cup Successors(f[k])
          /\ f[k + 1 + 1] = f[k + 1] \cup Successors(f[k + 1])
      BY <1>1
    <3>2. CASE f[k + 1] = f[k]
      <4>1. f[k + 1 + 1] = f[k + 1]
        BY <3>1, <3>2
      <4> QED BY <3>1, <4>1
    <3>3. CASE f[k + 1] # f[k]
      <4>1. Cardinality(f[k]) >= k
        BY <2>2, <3>3
      <4>2. Cardinality(f[k]) <= Cardinality(f[k + 1]) /\ Cardinality(f[k]) # Cardinality(f[k + 1])
        <5>1. f[k] \in SUBSET f[k + 1] /\ IsFiniteSet(f[k + 1])
          BY <1>3, <3>1
        <5> QED BY <3>3, <5>1, FS_Subset
      <4>3. Cardinality(f[k]) \in Nat /\ Cardinality(f[k + 1]) \in Nat
        BY <1>3, <3>1
      <4>4. Cardinality(f[k + 1]) >= k + 1
        BY <4>1, <4>2, <4>3
      <4> QED BY <3>1, <4>4
    <3> QED BY <3>2, <3>3
  <2>3. Nat \subseteq P
    <3> HIDE DEF P
    <3> QED BY <2>1, <2>2, InductiveSet
  <2> QED BY <1>2, <2>3
<1>6. Successors(f[n]) \subseteq f[n]
  <2>1. CASE Cardinality(f[n]) >= n
    <3>1. Cardinality(f[n]) = n
      BY <1>2, <1>3, <2>1
    <3>2. f[n] = Nodes
      BY <1>2, <1>3, <3>1
    <3> QED BY <3>2 DEF Successors
  <2>2. CASE f[n + 1] = f[n]
    BY <1>1, <1>2, <2>2
  <2> QED BY <1>5, <2>1, <2>2
<1> QED BY <1>1, <1>2, <1>3, <1>4, <1>6 DEF n

\* It is the least such set.
LEMMA BfsIsLeast ==
  ASSUME NEW s \in Nodes, NEW closed,
         Successors({s}) \subseteq closed, Successors(closed) \subseteq closed
  PROVE  BfsFrom(s) \subseteq closed
<1>1. PICK f \in [Nat -> SUBSET Nodes] :
         /\ f[0] = Successors({s})
         /\ \A k \in Nat : f[k + 1] = f[k] \cup Successors(f[k])
         /\ BfsFrom(s) = f[Cardinality(Nodes)]
  BY BfsLevels
<1> DEFINE P == {k \in Nat : f[k] \subseteq closed}
<1>2. 0 \in P
  BY <1>1
<1>3. ASSUME NEW k \in Nat, k \in P PROVE k + 1 \in P
  <2>1. k + 1 \in Nat /\ f[k + 1] = f[k] \cup Successors(f[k])
    BY <1>1
  <2>2. Successors(f[k]) \subseteq Successors(closed)
    BY <1>3 DEF Successors
  <2> QED BY <1>3, <2>1, <2>2
<1>4. Nat \subseteq P
  <2> HIDE DEF P
  <2> QED BY <1>2, <1>3, InductiveSet
<1>5. Cardinality(Nodes) \in Nat
  BY NodesAssumption, FS_CardinalityType
<1> QED BY <1>1, <1>4, <1>5

\* The programs that compute a closure.
Closures == Programs \ {"sg"}

\* What ClosureIsReachability calls the model.
Model == IF prog = "reach_from" THEN {p \in TcPairs : p[1] = Source} ELSE TcPairs

\* A pair of nodes is in TcPairs if the walk from the first finds the second.
LEMMA ModelIsPairs ==
  /\ TcPairs \subseteq Pairs
  /\ \A x, y : <<x, y>> \in TcPairs <=> x \in Nodes /\ y \in BfsFrom(x)
<1>1. \A x, y : <<x, y>> \in TcPairs <=> x \in Nodes /\ y \in BfsFrom(x)
  BY DEF TcPairs
<1>2. ASSUME NEW p \in TcPairs PROVE p \in Pairs
  <2>1. PICK s \in Nodes : p \in {s} \X BfsFrom(s)
    BY DEF TcPairs
  <2>2. BfsFrom(s) \subseteq Nodes
    BY BfsIsClosed
  <2> QED BY <2>1, <2>2 DEF Pairs
<1> QED BY <1>1, <1>2

\* The heads of a join are in a relation that holds each composition.
LEMMA HeadsAreCompositions ==
  ASSUME NEW A, NEW B, NEW C,
         \A x, y, z \in Nodes : <<x, y>> \in A /\ <<y, z>> \in B => <<x, z>> \in C
  PROVE  JoinHeads(Join(A, B)) \subseteq C
<1> SUFFICES ASSUME NEW i \in Join(A, B) PROVE <<i[1], i[3]>> \in C
  BY DEF JoinHeads
<1>1. /\ i[1] \in Nodes /\ i[2] \in Nodes /\ i[3] \in Nodes
      /\ <<i[1], i[2]>> \in A /\ <<i[2], i[3]>> \in B
  BY DEF Join
<1> QED BY <1>1

\* The reachable pairs are closed under both rules: none leads out of them.
LEMMA ModelIsClosed ==
  ASSUME prog \in Closures, arc \in Graphs
  PROVE  /\ BaseHeads(prog, arc) \subseteq Model
         /\ Consequences(prog, arc, Model) \subseteq Model
<1>1. arc \subseteq Nodes \X Nodes
  BY DEF Graphs
<1>2. arc \subseteq TcPairs
  <2>1. SUFFICES ASSUME NEW e \in arc PROVE e \in TcPairs
    OBVIOUS
  <2>2. e = <<e[1], e[2]>> /\ e[1] \in Nodes /\ e[2] \in Nodes
    BY <1>1, <2>1
  <2>3. e[2] \in Successors({e[1]})
    BY <2>1, <2>2 DEF Successors
  <2> QED BY <2>2, <2>3, BfsIsClosed, ModelIsPairs
<1>3. ASSUME NEW x, NEW y, NEW z \in Nodes, <<x, y>> \in TcPairs, <<y, z>> \in arc
      PROVE  <<x, z>> \in TcPairs
  <2>1. x \in Nodes /\ y \in BfsFrom(x)
    BY <1>3, ModelIsPairs
  <2>2. z \in Successors(BfsFrom(x))
    BY <1>3, <2>1 DEF Successors
  <2> QED BY <2>1, <2>2, BfsIsClosed, ModelIsPairs
<1>4. ASSUME NEW x, NEW y \in Nodes, NEW z, <<x, y>> \in TcPairs, <<y, z>> \in TcPairs
      PROVE  <<x, z>> \in TcPairs
  <2>1. x \in Nodes /\ y \in BfsFrom(x) /\ z \in BfsFrom(y)
    BY <1>4, ModelIsPairs
  <2>2. Successors({y}) \subseteq BfsFrom(x)
    <3>1. Successors({y}) \subseteq Successors(BfsFrom(x))
      BY <2>1 DEF Successors
    <3> QED BY <2>1, <3>1, BfsIsClosed
  <2>3. BfsFrom(y) \subseteq BfsFrom(x)
    BY <2>1, <2>2, BfsIsClosed, BfsIsLeast
  <2> QED BY <2>1, <2>3, ModelIsPairs
<1>5. CASE prog = "tc_linear"
  <2>1. Model = TcPairs /\ BaseHeads(prog, arc) = arc
        /\ Consequences(prog, arc, Model) = JoinHeads(Join(TcPairs, arc))
    BY <1>5 DEF Model, BaseHeads, BaseInstances, Consequences
  <2>2. JoinHeads(Join(TcPairs, arc)) \subseteq TcPairs
    BY <1>3, HeadsAreCompositions
  <2> QED BY <1>2, <2>1, <2>2
<1>6. CASE prog = "tc_nonlinear"
  <2>1. Model = TcPairs /\ BaseHeads(prog, arc) = arc
        /\ Consequences(prog, arc, Model) = JoinHeads(Join(TcPairs, TcPairs))
    BY <1>6 DEF Model, BaseHeads, BaseInstances, Consequences
  <2>2. JoinHeads(Join(TcPairs, TcPairs)) \subseteq TcPairs
    BY <1>4, HeadsAreCompositions
  <2> QED BY <1>2, <2>1, <2>2
<1>7. CASE prog = "reach_from"
  <2>1. Model = {p \in TcPairs : p[1] = Source} /\ BaseHeads(prog, arc) = {e \in arc : e[1] = Source}
        /\ Consequences(prog, arc, Model) = JoinHeads(Join(Model, arc))
    BY <1>7 DEF Model, BaseHeads, BaseInstances, Consequences
  <2>2. JoinHeads(Join({p \in TcPairs : p[1] = Source}, arc)) \subseteq {p \in TcPairs : p[1] = Source}
    <3> DEFINE row == {p \in TcPairs : p[1] = Source}
    <3>1. ASSUME NEW x \in Nodes, NEW y \in Nodes, NEW z \in Nodes, <<x, y>> \in row, <<y, z>> \in arc
          PROVE  <<x, z>> \in row
      BY <1>3, <3>1
    <3>2. \A x, y, z \in Nodes : <<x, y>> \in row /\ <<y, z>> \in arc => <<x, z>> \in row
      BY <3>1
    <3> HIDE DEF row
    <3>3. JoinHeads(Join(row, arc)) \subseteq row
      BY <3>2, HeadsAreCompositions
    <3> QED BY <3>3 DEF row
  <2> QED BY <1>2, <2>1, <2>2
<1> QED BY <1>5, <1>6, <1>7 DEF Closures, Programs

\* A larger relation has more consequences.
LEMMA ConsequencesGrow ==
  ASSUME prog \in Closures, NEW A, NEW B, A \subseteq B
  PROVE  Consequences(prog, arc, A) \subseteq Consequences(prog, arc, B)
<1>1. Join(A, arc) \subseteq Join(B, arc) /\ Join(A, A) \subseteq Join(B, B)
  BY DEF Join
<1>2. ASSUME NEW I, NEW J, I \subseteq J PROVE JoinHeads(I) \subseteq JoinHeads(J)
  BY <1>2 DEF JoinHeads
<1>3. /\ JoinHeads(Join(A, arc)) \subseteq JoinHeads(Join(B, arc))
      /\ JoinHeads(Join(A, A)) \subseteq JoinHeads(Join(B, B))
  BY <1>1, <1>2
<1>4. CASE prog = "tc_nonlinear"
  BY <1>3, <1>4 DEF Consequences
<1>5. CASE prog = "tc_linear" \/ prog = "reach_from"
  BY <1>3, <1>5 DEF Consequences
<1> QED BY <1>4, <1>5 DEF Closures, Programs

\* A relation that holds the base tuples and its own consequences holds every
\* reachable pair.
LEMMA ClosedHoldsModel ==
  ASSUME prog \in Closures, arc \in Graphs, rel \in SUBSET Pairs,
         BaseHeads(prog, arc) \subseteq rel, Consequences(prog, arc, rel) \subseteq rel
  PROVE  Model \subseteq rel
<1> DEFINE Row(x) == {y \in Nodes : <<x, y>> \in rel}
           seeds == IF prog = "reach_from" THEN {Source} ELSE Nodes
<1>1. arc \subseteq Nodes \X Nodes
  BY DEF Graphs
<1>2. ASSUME NEW x \in seeds, NEW y \in Nodes, <<x, y>> \in arc PROVE <<x, y>> \in rel
  BY <1>2 DEF BaseHeads, BaseInstances, Closures, Programs
<1>3. ASSUME NEW x \in seeds, NEW y \in Nodes, NEW z \in Nodes, <<x, y>> \in rel, <<y, z>> \in arc
      PROVE  <<x, z>> \in rel
  <2>1. x \in Nodes
    BY NodesAssumption
  <2> DEFINE i == <<x, y, z>>
  <2>2. i \in Nodes \X Nodes \X Nodes /\ i[1] = x /\ i[2] = y /\ i[3] = z
    BY <2>1
  <2> HIDE DEF i
  <2>3. CASE prog = "tc_nonlinear"
    <3>1. <<y, z>> \in rel
      BY <1>2, <1>3, <2>3
    <3>2. i \in Join(rel, rel)
      BY <1>3, <2>2, <3>1 DEF Join
    <3>3. <<x, z>> \in JoinHeads(Join(rel, rel))
      BY <2>2, <3>2 DEF JoinHeads
    <3> QED BY <2>3, <3>3 DEF Consequences
  <2>4. CASE prog = "tc_linear" \/ prog = "reach_from"
    <3>1. i \in Join(rel, arc)
      BY <1>3, <2>2 DEF Join
    <3>2. <<x, z>> \in JoinHeads(Join(rel, arc))
      BY <2>2, <3>1 DEF JoinHeads
    <3> QED BY <2>4, <3>2 DEF Consequences
  <2> QED BY <2>3, <2>4 DEF Closures, Programs
<1>4. ASSUME NEW x \in seeds PROVE BfsFrom(x) \subseteq Row(x)
  <2>1. x \in Nodes
    BY NodesAssumption
  <2>2. Successors({x}) \subseteq Row(x)
    BY <1>2 DEF Successors
  <2>3. Successors(Row(x)) \subseteq Row(x)
    BY <1>3 DEF Successors
  <2> HIDE DEF Row
  <2> QED BY <2>1, <2>2, <2>3, BfsIsLeast
<1>5. SUFFICES ASSUME NEW p \in Model PROVE p \in rel
  OBVIOUS
<1>6. p \in TcPairs /\ p[1] \in seeds /\ p = <<p[1], p[2]>>
  BY ModelIsPairs, <1>5 DEF Model, Pairs
<1>7. p[2] \in BfsFrom(p[1])
  BY <1>6, ModelIsPairs
<1> QED BY <1>4, <1>6, <1>7

\* Theorem: on every finite graph each closure evaluator, whatever its
\* strategy, ends with exactly the pairs that a breadth-first search from each
\* node finds (tc_pairs), the goal-directed one with the row of its source,
\* and never holds a pair that is not one of them.
THEOREM ClosureIsExact == Spec => []ClosureIsReachability
<1> DEFINE Sound ==
      prog \in Closures =>
        /\ rel \subseteq Model
        /\ pc # "load" => BaseHeads(prog, arc) \subseteq rel
        /\ pc = "done" => Consequences(prog, arc, rel) \subseteq rel
<1>1. Init => Sound
  BY DEF Init, NInit
<1>2. InductiveInvariant /\ Sound /\ [Next]_vars => Sound'
  <2> SUFFICES ASSUME InductiveInvariant, Sound, [Next]_vars, prog' \in Closures
               PROVE  Sound'
    OBVIOUS
  <2>1. prog' = prog /\ arc' = arc
    BY DEF Next, Load, Round, vars
  <2>2. prog \in Closures /\ arc \in Graphs /\ rel \in SUBSET Pairs
    BY <2>1 DEF InductiveInvariant, TypeOK
  <2>3. /\ BaseHeads(prog, arc) \subseteq Model
        /\ Consequences(prog, arc, Model) \subseteq Model
    BY <2>2, ModelIsClosed
  <2>4. Model' = Model
    BY <2>1 DEF Model, TcPairs, BfsFrom
  <2>5. CASE UNCHANGED vars
    BY <2>1, <2>2, <2>4, <2>5 DEF vars
  <2>6. CASE Load
    <3>1. rel' = BaseHeads(prog, arc) /\ pc' = "rounds"
      BY <2>6 DEF Load
    <3> QED BY <2>1, <2>3, <2>4, <3>1
  <2>7. CASE Round
    <3>1. /\ rel' = rel \cup Fresh
          /\ rel \cup Fresh = rel \cup Consequences(prog, arc, rel)
          /\ Fresh # {} => pc' = "rounds"
          /\ pc = "rounds"
      BY <2>7, RoundMerges DEF Round
    <3>2. Consequences(prog, arc, rel) \subseteq Model
      BY <2>2, <2>3, ConsequencesGrow
    <3>3. rel' \subseteq Model'
      BY <2>2, <2>4, <3>1, <3>2
    <3>4. BaseHeads(prog, arc) \subseteq rel'
      BY <2>2, <3>1
    <3>5. ASSUME pc' = "done" PROVE Consequences(prog, arc, rel') \subseteq rel'
      <4>1. Fresh = {}
        BY <3>1, <3>5
      <4>2. rel' = rel
        BY <3>1, <4>1
      <4> QED BY <3>1, <4>1, <4>2
    <3> QED BY <2>1, <3>3, <3>4, <3>5
  <2> QED BY <2>5, <2>6, <2>7 DEF Next
<1>3. InductiveInvariant /\ Sound => ClosureIsReachability
  <2> SUFFICES ASSUME InductiveInvariant, Sound, prog # "sg"
               PROVE  rel \subseteq Model /\ (pc = "done" => rel = Model)
    BY DEF ClosureIsReachability, Model
  <2>1. prog \in Closures /\ arc \in Graphs /\ rel \in SUBSET Pairs
    BY DEF InductiveInvariant, TypeOK, Closures
  <2>2. ASSUME pc = "done" PROVE Model \subseteq rel
    BY <2>1, <2>2, ClosedHoldsModel
  <2> QED BY <2>1, <2>2
<1> QED BY <1>1, <1>2, <1>3, InvariantHolds, PTL DEF Spec
==============================================================================
