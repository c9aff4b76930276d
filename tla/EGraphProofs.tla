----------------------------- MODULE EGraphProofs -----------------------------
(***************************************************************************)
(* Topic 44's e-graph, for any symbols and any number of ids and unions:   *)
(* it merges what the asserted equalities force and nothing else, add()    *)
(* never answers with another term's class, rebuild() restores the         *)
(* invariants of its comment, and on a rebuilt e-graph the backtracking    *)
(* walk and the relational join both find, for any pattern, exactly the    *)
(* substitutions whose instance the e-graph represents.                    *)
(***************************************************************************)
EXTENDS EMatch, FiniteSetTheorems, WellFoundedInduction, SequenceTheorems, TLAPS

-----------------------------------------------------------------------------
(* The invariant *)

\* A union-find in which every walk along parents ends: the recursion of find
\* has a solution, and no set of ids leads only into itself.
Finds(p, f) == f = [i \in DOMAIN p |-> IF p[i] = i THEN i ELSE f[p[i]]]
Forest(p) ==
  /\ p \in [DOMAIN p -> DOMAIN p]
  /\ \E f \in [DOMAIN p -> DOMAIN p] : Finds(p, f)
  /\ \A S \in SUBSET DOMAIN p :
        S # {} /\ (\A i \in S : p[i] \in S) => \E r \in S : p[r] = r

\* E-nodes over a set of ids, and e-nodes that are one up to the union-find.
NodeOver(n, I) ==
  /\ n = [op |-> n.op, children |-> n.children]
  /\ n.op \in Symbols
  /\ n.children \in [1..Arity[n.op] -> I]
Alike(p, m, n) ==
  /\ m.op = n.op
  /\ \A k \in 1..Arity[m.op] : FindIn(p, m.children[k]) = FindIn(p, n.children[k])

Shape ==
  /\ parents \in Seq(Nat) /\ Forest(parents)
  /\ DOMAIN classes = {id \in Ids : parents[id] = id}
  /\ \A c \in DOMAIN classes :
        IsFiniteSet(classes[c]) /\ \A n \in classes[c] : NodeOver(n, Ids)
  /\ \A n \in DOMAIN memo : NodeOver(n, Ids) /\ memo[n] \in Ids
  /\ terms \in Seq([op : Symbols, children : Seq(Nat)]) /\ Len(terms) = Len(parents)
  /\ \A i \in Ids : NodeOver(terms[i], Ids)
  /\ asserted \subseteq Ids \X Ids
  /\ merges \in Seq(Ids \X Ids)
  /\ merges # <<>> => pc = "rebuilding" /\ dirty

\* The classes hold the terms, each in the class of its id, and nothing else;
\* an entry of the table, however old, is about a term.
ClassesHoldTerms ==
  /\ \A i \in Ids : \E n \in classes[Find(i)] : Alike(parents, n, terms[i])
  /\ \A c \in DOMAIN classes : \A n \in classes[c] :
        \E i \in Ids : Find(i) = c /\ Alike(parents, n, terms[i])
MemoHoldsTerms ==
  \A n \in DOMAIN memo : \E i \in Ids : Same(i, memo[n]) /\ Alike(parents, n, terms[i])

\* What the asserted pairs and the pairs still to be merged ask for.
AssertedAreMerged == asserted \subseteq Equivalence
OnlyForced ==
  /\ Equivalence \subseteq LeastCongruence
  /\ \A k \in DOMAIN merges : merges[k] \in LeastCongruence

\* What rebuild() restores lasts, inside a second rebuild() too, until a union.
Restored ==
  ~dirty =>
    /\ \A c \in DOMAIN classes : \A n \in classes[c] : CanonIn(parents, n) = n
    /\ \A c, d \in DOMAIN classes : c # d => classes[c] \cap classes[d] = {}
    /\ DOMAIN memo = UNION {classes[c] : c \in DOMAIN classes}
    /\ \A n \in DOMAIN memo : n \in classes[Find(memo[n])]

IInv == Shape /\ ClassesHoldTerms /\ MemoHoldsTerms /\ AssertedAreMerged /\ OnlyForced /\ Restored

-----------------------------------------------------------------------------
(* Numbers *)

\* A nonempty set of naturals has a least one.
LEMMA MinExists ==
  ASSUME NEW T, T \subseteq Nat, T # {}
  PROVE  \E x \in T : \A y \in T : x <= y
<1> DEFINE R == OpToRel(<, Nat)
<1>1. \A x, y \in Nat : <<y, x>> \in R <=> y < x
  BY DEF OpToRel
<1>2. PICK x \in T : \A y \in T : ~ (<<y, x>> \in R)
  <2>1. IsWellFoundedOn(R, Nat)
    BY NatLessThanWellFounded DEF R
  <2> HIDE DEF R
  <2> QED BY <2>1, WFMin
<1>3. \A y \in T : ~ (y < x)
  <2> HIDE DEF R
  <2> QED BY <1>1, <1>2
<1> HIDE DEF R
<1> QED BY <1>3

\* A set that holds 0 and the successor of each of its numbers holds all: the
\* form in which the provers can use induction.
LEMMA InductiveSet ==
  ASSUME NEW P, 0 \in P, \A n \in Nat : n \in P => n + 1 \in P
  PROVE  Nat \subseteq P
<1> DEFINE missing == Nat \ P
<1>1. SUFFICES ASSUME missing # {} PROVE FALSE
  OBVIOUS
<1>2. PICK x \in missing : \A y \in missing : x <= y
  BY <1>1, MinExists
<1>3. x # 0 /\ x - 1 \in Nat
  OBVIOUS
<1>4. x - 1 \notin missing
  <2>1. ~ (x <= x - 1)
    BY <1>3
  <2> HIDE DEF missing
  <2> QED BY <1>2, <2>1
<1>5. x - 1 + 1 \in P
  BY <1>3, <1>4
<1>6. x - 1 + 1 = x
  BY <1>3
<1> QED BY <1>5, <1>6

-----------------------------------------------------------------------------
(* The union-find *)

\* The walk of find is what its equation says, because the walks end.
LEMMA FindIs ==
  ASSUME NEW p, Forest(p), NEW f, Finds(p, f)
  PROVE  \A i \in DOMAIN p : FindIn(p, i) = f[i]
<1> DEFINE root == CHOOSE g : Finds(p, g)
<1>1. Finds(p, root)
  OBVIOUS
<1>2. \A i \in DOMAIN p : FindIn(p, i) = root[i]
  BY DEF FindIn, Finds
<1> HIDE DEF root
<1>3. \A i \in DOMAIN p : root[i] = IF p[i] = i THEN i ELSE root[p[i]]
  BY <1>1 DEF Finds
<1>4. \A i \in DOMAIN p : f[i] = IF p[i] = i THEN i ELSE f[p[i]]
  BY DEF Finds
<1> DEFINE S == {i \in DOMAIN p : root[i] # f[i]}
<1>5. \A i \in S : p[i] \in S /\ p[i] # i
  BY <1>3, <1>4 DEF Forest
<1>6. S = {}
  <2> S \in SUBSET DOMAIN p
    OBVIOUS
  <2> HIDE DEF S
  <2> QED BY <1>5 DEF Forest
<1> QED BY <1>2, <1>6

\* find answers a root, the same for an id and its parent.
LEMMA FindFacts ==
  ASSUME NEW p, Forest(p)
  PROVE  /\ \A i \in DOMAIN p : /\ p[i] \in DOMAIN p
                                /\ FindIn(p, i) \in DOMAIN p
                                /\ p[FindIn(p, i)] = FindIn(p, i)
                                /\ FindIn(p, i) = IF p[i] = i THEN i ELSE FindIn(p, p[i])
                                /\ FindIn(p, FindIn(p, i)) = FindIn(p, i)
         /\ \A i \in DOMAIN p : p[i] = i <=> FindIn(p, i) = i
<1>1. PICK f \in [DOMAIN p -> DOMAIN p] : Finds(p, f)
  BY DEF Forest
<1>2. \A i \in DOMAIN p : FindIn(p, i) = f[i]
  BY <1>1, FindIs
<1>3. \A i \in DOMAIN p : f[i] = IF p[i] = i THEN i ELSE f[p[i]]
  BY <1>1 DEF Finds
<1>4. \A i \in DOMAIN p : p[i] \in DOMAIN p
  BY DEF Forest
<1> DEFINE S == {i \in DOMAIN p : p[f[i]] # f[i]}
<1>5. \A i \in S : p[i] \in S /\ p[i] # i
  BY <1>3, <1>4
<1>6. S = {}
  <2> S \in SUBSET DOMAIN p
    OBVIOUS
  <2> HIDE DEF S
  <2> QED BY <1>5 DEF Forest
<1>7. \A i \in DOMAIN p : p[f[i]] = f[i] /\ f[i] \in DOMAIN p /\ f[f[i]] = f[i]
  BY <1>3, <1>6
<1>8. \A i \in DOMAIN p : p[i] = i <=> f[i] = i
  BY <1>3, <1>7
<1> QED BY <1>2, <1>3, <1>4, <1>7, <1>8

\* A new id is a root, and the others keep theirs.
Extended(p, q, id) ==
  /\ q \in Seq(Nat) /\ Forest(q)
  /\ DOMAIN q = DOMAIN p \cup {id} /\ id \notin DOMAIN p
  /\ q[id] = id /\ FindIn(q, id) = id
  /\ \A i \in DOMAIN p : q[i] = p[i] /\ FindIn(q, i) = FindIn(p, i)

\* Appending a new root keeps a forest, and every root found before (parents.push of
\* add()).
LEMMA AppendIsForest ==
  ASSUME NEW p, p \in Seq(Nat), Forest(p), NEW id, id = Len(p) + 1, NEW q, q = Append(p, id)
  PROVE  Extended(p, q, id)
<1>1. /\ q \in Seq(Nat) /\ id \notin DOMAIN p
      /\ DOMAIN q = DOMAIN p \cup {id}
      /\ q[id] = id /\ \A i \in DOMAIN p : q[i] = p[i]
  OBVIOUS
<1>2. PICK f \in [DOMAIN p -> DOMAIN p] : Finds(p, f)
  BY DEF Forest
<1>3. \A i \in DOMAIN p : p[i] \in DOMAIN p /\ f[i] \in DOMAIN p
  BY DEF Forest
<1> DEFINE g == [i \in DOMAIN q |-> IF i = id THEN id ELSE f[i]]
<1>4. \A i \in DOMAIN p : f[i] = IF p[i] = i THEN i ELSE f[p[i]]
  BY <1>2 DEF Finds
<1>5. g \in [DOMAIN q -> DOMAIN q]
  BY <1>1, <1>3
<1>6. Finds(q, g)
  <2>1. ASSUME NEW i \in DOMAIN q PROVE g[i] = IF q[i] = i THEN i ELSE g[q[i]]
    <3>1. g[i] = IF i = id THEN id ELSE f[i]
      OBVIOUS
    <3>2. q[i] \in DOMAIN q /\ g[q[i]] = IF q[i] = id THEN id ELSE f[q[i]]
      BY <1>1, <1>3
    <3> HIDE DEF g
    <3>3. CASE i = id
      BY <1>1, <3>1, <3>3
    <3>4. CASE i # id
      <4>1. i \in DOMAIN p /\ q[i] = p[i] /\ p[i] # id
        BY <1>1, <1>3, <3>4
      <4>2. f[i] = IF p[i] = i THEN i ELSE f[p[i]]
        BY <1>4, <4>1
      <4> QED BY <3>1, <3>2, <3>4, <4>1, <4>2
    <3> QED BY <3>3, <3>4
  <2>2. g = [i \in DOMAIN q |-> g[i]]
    OBVIOUS
  <2> HIDE DEF g
  <2> QED BY <2>1, <2>2 DEF Finds
<1>7. q \in [DOMAIN q -> DOMAIN q]
  <2>1. \A i \in DOMAIN q : q[i] \in DOMAIN q
    BY <1>1, <1>3
  <2>2. q = [i \in DOMAIN q |-> q[i]]
    BY <1>1
  <2> QED BY <2>1, <2>2
<1>8. ASSUME NEW S \in SUBSET DOMAIN q, S # {}, \A i \in S : q[i] \in S
      PROVE  \E r \in S : q[r] = r
  <2>1. CASE id \in S
    BY <1>1, <2>1
  <2>2. CASE id \notin S
    <3>1. S \in SUBSET DOMAIN p /\ \A i \in S : p[i] \in S
      BY <1>1, <1>8, <2>2
    <3>2. \E r \in S : p[r] = r
      BY <1>8, <3>1 DEF Forest
    <3> QED BY <1>1, <3>1, <3>2
  <2> QED BY <2>1, <2>2
<1>9. Forest(q)
  BY <1>5, <1>6, <1>7, <1>8 DEF Forest
<1>10. \A i \in DOMAIN q : FindIn(q, i) = g[i]
  <2> HIDE DEF g
  <2> QED BY <1>6, <1>9, FindIs
<1>11. \A i \in DOMAIN p : FindIn(p, i) = f[i]
  BY <1>2, FindIs
<1> QED BY <1>1, <1>9, <1>10, <1>11 DEF Extended

\* Hanging the root of b below that of a moves exactly the ids under b's.
LEMMA HangIsForest ==
  ASSUME NEW p, Forest(p), NEW a \in DOMAIN p, NEW b \in DOMAIN p, NEW q, q = Hang(p, a, b)
  PROVE  /\ Forest(q) /\ DOMAIN q = DOMAIN p
         /\ \A i \in DOMAIN p :
              FindIn(q, i) = IF FindIn(p, i) = FindIn(p, b) THEN FindIn(p, a) ELSE FindIn(p, i)
<1> DEFINE ra == FindIn(p, a)
           rb == FindIn(p, b)
<1>1. /\ ra \in DOMAIN p /\ rb \in DOMAIN p /\ p[ra] = ra /\ p[rb] = rb
      /\ FindIn(p, ra) = ra /\ FindIn(p, rb) = rb
  BY FindFacts
<1>2. q = [p EXCEPT ![rb] = ra]
  BY DEF Hang
<1>3. p \in [DOMAIN p -> DOMAIN p]
  BY DEF Forest
<1>4. PICK f \in [DOMAIN p -> DOMAIN p] : Finds(p, f)
  BY DEF Forest
<1>5. \A i \in DOMAIN p : FindIn(p, i) = f[i]
  BY <1>4, FindIs
<1>6. \A i \in DOMAIN p : f[i] = IF p[i] = i THEN i ELSE f[p[i]]
  BY <1>4 DEF Finds
<1> HIDE DEF ra, rb
<1>7. /\ q \in [DOMAIN p -> DOMAIN p] /\ DOMAIN q = DOMAIN p
      /\ \A i \in DOMAIN p : q[i] = IF i = rb THEN ra ELSE p[i]
  BY <1>1, <1>2, <1>3
<1> DEFINE g == [i \in DOMAIN q |-> IF f[i] = rb THEN ra ELSE f[i]]
<1>8. g \in [DOMAIN q -> DOMAIN q]
  BY <1>1, <1>7
<1>9. f[ra] = ra /\ f[rb] = rb
  BY <1>1, <1>5
<1>10. ASSUME NEW i \in DOMAIN q PROVE g[i] = IF q[i] = i THEN i ELSE g[q[i]]
  BY <1>1, <1>3, <1>6, <1>7, <1>9
<1>11. Finds(q, g)
  <2>1. g = [i \in DOMAIN q |-> g[i]]
    OBVIOUS
  <2> HIDE DEF g
  <2> QED BY <1>10, <2>1 DEF Finds
<1>12. ASSUME NEW S \in SUBSET DOMAIN q, S # {}, \A i \in S : q[i] \in S
       PROVE  \E r \in S : q[r] = r
  <2>1. CASE rb \in S
    <3>1. ra \in S
      BY <1>7, <1>12, <2>1
    <3> QED BY <1>1, <1>7, <3>1
  <2>2. CASE rb \notin S
    <3>1. S \in SUBSET DOMAIN p /\ \A i \in S : p[i] \in S
      BY <1>7, <1>12, <2>2
    <3>2. \E r \in S : p[r] = r
      BY <1>12, <3>1 DEF Forest
    <3> QED BY <1>7, <2>2, <3>2
  <2> QED BY <2>1, <2>2
<1>13. Forest(q)
  BY <1>7, <1>8, <1>11, <1>12 DEF Forest
<1>14. \A i \in DOMAIN q : FindIn(q, i) = g[i]
  <2> HIDE DEF g
  <2> QED BY <1>11, <1>13, FindIs
<1> QED BY <1>5, <1>7, <1>13, <1>14, <1>9 DEF ra, rb

-----------------------------------------------------------------------------
(* The least congruence *)

\* A function that lowers a bounded measure until it stands still is such a
\* forest: its walks end.
LEMMA DescentIsForest ==
  ASSUME NEW D, NEW s \in [D -> D], NEW m \in [D -> Nat], NEW N \in Nat,
         \A x \in D : m[x] < N,
         \A x \in D : s[x] # x => m[s[x]] < m[x]
  PROVE  Forest(s)
<1> DEFINE Below(n) == {x \in D : m[x] < n}
           Walks(n, f) == f = [x \in Below(n) |-> IF s[x] = x THEN x ELSE f[s[x]]]
           Solved == {n \in Nat : \E f \in [Below(n) -> D] : Walks(n, f)}
<1>1. 0 \in Solved
  <2>1. Below(0) = {}
    OBVIOUS
  <2> DEFINE e == [x \in Below(0) |-> x]
  <2>2. e \in [Below(0) -> D] /\ Walks(0, e)
    BY <2>1
  <2> QED BY <2>2
<1>2. ASSUME NEW n \in Nat, n \in Solved PROVE n + 1 \in Solved
  <2>1. PICK f \in [Below(n) -> D] : Walks(n, f)
    BY <1>2
  <2>2. \A x \in Below(n) : f[x] = IF s[x] = x THEN x ELSE f[s[x]]
    BY <2>1
  <2> DEFINE g == [x \in Below(n + 1) |-> IF s[x] = x THEN x ELSE f[s[x]]]
  <2>3. \A x \in Below(n + 1) : s[x] # x => s[x] \in Below(n) /\ s[x] \in Below(n + 1)
    OBVIOUS
  <2>4. Below(n) \subseteq Below(n + 1) /\ Below(n + 1) \subseteq D
    OBVIOUS
  <2> HIDE DEF Below
  <2>5. \A x \in Below(n + 1) : s[x] # x => g[s[x]] = f[s[x]]
    BY <2>2, <2>3
  <2>6. g \in [Below(n + 1) -> D]
    BY <2>3, <2>4
  <2>7. g = [x \in Below(n + 1) |-> IF s[x] = x THEN x ELSE g[s[x]]]
    BY <2>5
  <2>8. Walks(n + 1, g)
    BY <2>7
  <2> HIDE DEF g, Walks
  <2> QED BY <2>6, <2>8
<1>3. N \in Solved
  <2> HIDE DEF Solved
  <2> QED BY <1>1, <1>2, InductiveSet
<1>4. PICK f \in [Below(N) -> D] : Walks(N, f)
  BY <1>3
<1>5. Below(N) = D /\ DOMAIN s = D
  OBVIOUS
<1>6. f \in [DOMAIN s -> DOMAIN s] /\ Finds(s, f)
  BY <1>4, <1>5 DEF Finds
<1>7. ASSUME NEW S \in SUBSET D, S # {}, \A i \in S : s[i] \in S
      PROVE  \E r \in S : s[r] = r
  <2> DEFINE V == {m[x] : x \in S}
  <2>1. V \subseteq Nat /\ V # {}
    BY <1>7
  <2>2. PICK v \in V : \A w \in V : v <= w
    <3> HIDE DEF V
    <3> QED BY <2>1, MinExists
  <2>3. PICK r \in S : v = m[r]
    OBVIOUS
  <2>4. m[s[r]] \in V /\ m[r] \in Nat /\ m[s[r]] \in Nat
    BY <1>7
  <2> HIDE DEF V
  <2>5. ~ (m[s[r]] < m[r])
    BY <2>2, <2>3, <2>4
  <2> QED BY <2>3, <2>5
<1> QED BY <1>5, <1>6, <1>7 DEF Forest

\* The parts of LeastCongruence, for ids D, terms T and asserted pairs A: the
\* pairs a labelling still has to join, one such join, and where joining ends.
OnLabels(T, l, i) == [k \in DOMAIN T[i].children |-> l[T[i].children[k]]]
Broken(D, T, A, l) ==
  {p \in A \cup (D \X D) :
     /\ l[p[1]] # l[p[2]]
     /\ \/ p \in A
        \/ /\ T[p[1]].op = T[p[2]].op
           /\ OnLabels(T, l, p[1]) = OnLabels(T, l, p[2])}
JoinedLabels(l, a, b) == [i \in DOMAIN l |-> IF l[i] = l[b] THEN l[a] ELSE l[i]]
JoinOne(D, T, A) ==
  [l \in [D -> D] |->
     IF Broken(D, T, A, l) = {} THEN l
     ELSE LET p == CHOOSE p \in Broken(D, T, A, l) : TRUE IN JoinedLabels(l, p[1], p[2])]
Identity(D) == [i \in D |-> i]
Label(D, T, A) == FindIn(JoinOne(D, T, A), Identity(D))
Least(D, T, A) == {p \in D \X D : Label(D, T, A)[p[1]] = Label(D, T, A)[p[2]]}

\* Finitely many ids, pairs of them, and terms over them.
Closable(D, T, A) ==
  /\ IsFiniteSet(D) /\ A \subseteq D \X D
  /\ \A i \in D : \A k \in DOMAIN T[i].children : T[i].children[k] \in D

\* A labelling that gives one label to whatever must be equal.
Respects(D, T, A, M) ==
  /\ \A p \in A : M[p[1]] = M[p[2]]
  /\ \A i, j \in D :
       T[i].op = T[j].op /\ OnLabels(T, M, i) = OnLabels(T, M, j) => M[i] = M[j]

\* Joins end, for each takes one label out of use, and they end where nothing
\* is left to join.
LEMMA JoinsEnd ==
  ASSUME NEW D, NEW T, NEW A, Closable(D, T, A)
  PROVE  /\ Forest(JoinOne(D, T, A)) /\ DOMAIN JoinOne(D, T, A) = [D -> D]
         /\ \A l \in [D -> D] : JoinOne(D, T, A)[l] = l <=> Broken(D, T, A, l) = {}
         /\ \A l \in [D -> D] : Broken(D, T, A, l) # {} =>
              \E p \in Broken(D, T, A, l) : JoinOne(D, T, A)[l] = JoinedLabels(l, p[1], p[2])
<1> DEFINE L == [D -> D]
           s == JoinOne(D, T, A)
           Used(l) == {l[i] : i \in D}
           m == [l \in L |-> Cardinality(Used(l))]
<1>0. IsFiniteSet(D) /\ A \subseteq D \X D
  BY DEF Closable
<1>1. ASSUME NEW l \in L, Broken(D, T, A, l) # {}
      PROVE  \E p \in Broken(D, T, A, l) : s[l] = JoinedLabels(l, p[1], p[2])
  BY <1>1 DEF JoinOne
<1>2. ASSUME NEW l \in L, Broken(D, T, A, l) = {} PROVE s[l] = l
  BY <1>2 DEF JoinOne
<1>3. DOMAIN s = L
  BY DEF JoinOne
<1>4. ASSUME NEW l \in L
      PROVE  IsFiniteSet(Used(l)) /\ Cardinality(Used(l)) \in Nat /\ Cardinality(Used(l)) <= Cardinality(D)
  <2>1. Used(l) \in SUBSET D
    OBVIOUS
  <2> HIDE DEF Used
  <2> QED BY <1>0, <2>1, FS_Subset, FS_CardinalityType
<1>5. ASSUME NEW l \in L, NEW p \in Broken(D, T, A, l)
      PROVE  /\ JoinedLabels(l, p[1], p[2]) \in L /\ JoinedLabels(l, p[1], p[2]) # l
             /\ Cardinality(Used(JoinedLabels(l, p[1], p[2]))) < Cardinality(Used(l))
  <2>1. p[1] \in D /\ p[2] \in D /\ l[p[1]] # l[p[2]]
    BY <1>0 DEF Broken
  <2> DEFINE j == JoinedLabels(l, p[1], p[2])
  <2>2. j \in L /\ j[p[2]] = l[p[1]]
    BY <2>1 DEF JoinedLabels
  <2>3. Used(j) \in SUBSET Used(l) /\ l[p[2]] \in Used(l) /\ l[p[2]] \notin Used(j)
    BY <2>1 DEF JoinedLabels
  <2> HIDE DEF j, Used
  <2>4. Cardinality(Used(j)) <= Cardinality(Used(l)) /\ Cardinality(Used(j)) # Cardinality(Used(l))
    BY <1>4, <2>3, FS_Subset
  <2>5. Cardinality(Used(j)) \in Nat /\ Cardinality(Used(l)) \in Nat
    BY <1>4, <2>2
  <2>6. j # l
    BY <2>1, <2>2
  <2> QED BY <2>2, <2>4, <2>5, <2>6 DEF j
<1>6. \A l \in L : s[l] \in L /\ (s[l] # l => Cardinality(Used(s[l])) < Cardinality(Used(l)))
  <2> HIDE DEF s, L, Used
  <2> QED BY <1>1, <1>2, <1>5
<1>7. \A l \in L : s[l] = l <=> Broken(D, T, A, l) = {}
  <2> HIDE DEF s, L, Used
  <2> QED BY <1>1, <1>2, <1>5
<1>8. Forest(s)
  <2>1. s = [l \in L |-> s[l]]
    BY DEF JoinOne
  <2>2. Cardinality(D) + 1 \in Nat
    BY <1>0, FS_CardinalityType
  <2> HIDE DEF s, L, Used
  <2>3. s \in [L -> L] /\ m \in [L -> Nat]
    BY <1>4, <1>6, <2>1
  <2>4. \A l \in L : m[l] = Cardinality(Used(l)) /\ m[l] < Cardinality(D) + 1
    <3>1. Cardinality(D) \in Nat
      BY <1>0, FS_CardinalityType
    <3> QED BY <1>4, <3>1
  <2>5. \A l \in L : s[l] # l => m[s[l]] < m[l]
    BY <1>6, <2>4
  <2> HIDE DEF m
  <2> QED BY <2>2, <2>3, <2>4, <2>5, DescentIsForest
<1> QED BY <1>1, <1>3, <1>7, <1>8

\* The labels where joining ends respect everything that must be equal.
LEMMA LabelRespects ==
  ASSUME NEW D, NEW T, NEW A, Closable(D, T, A)
  PROVE  Label(D, T, A) \in [D -> D] /\ Respects(D, T, A, Label(D, T, A))
<1> DEFINE s == JoinOne(D, T, A)
           l == Label(D, T, A)
<1>1. Identity(D) \in [D -> D]
  BY DEF Identity
<1>2. Forest(s) /\ DOMAIN s = [D -> D]
  BY JoinsEnd
<1>3. l \in [D -> D] /\ s[l] = l
  <2> HIDE DEF s
  <2> QED BY <1>1, <1>2, FindFacts DEF Label, s
<1>4. Broken(D, T, A, l) = {}
  BY <1>3, JoinsEnd
<1>5. A \subseteq D \X D
  BY DEF Closable
<1> HIDE DEF l
<1>6. ASSUME NEW p \in A PROVE l[p[1]] = l[p[2]]
  BY <1>4, <1>5 DEF Broken
<1>7. ASSUME NEW i \in D, NEW j \in D,
             T[i].op = T[j].op, OnLabels(T, l, i) = OnLabels(T, l, j)
      PROVE  l[i] = l[j]
  <2>1. <<i, j>> \notin Broken(D, T, A, l)
    BY <1>4
  <2> QED BY <1>7, <2>1 DEF Broken
<1> QED BY <1>3, <1>6, <1>7 DEF Respects, l

\* And they join nothing that some such labelling keeps apart.
LEMMA LabelIsLeast ==
  ASSUME NEW D, NEW T, NEW A, Closable(D, T, A), NEW M, Respects(D, T, A, M)
  PROVE  \A p \in Least(D, T, A) : M[p[1]] = M[p[2]]
<1> DEFINE s == JoinOne(D, T, A)
           L == [D -> D]
           Finer(l) == \A i, j \in D : l[i] = l[j] => M[i] = M[j]
           S == {l \in L : Finer(l) /\ ~ Finer(FindIn(s, l))}
<1>1. Forest(s) /\ DOMAIN s = L
  BY JoinsEnd
<1>2. ASSUME NEW l \in L, Finer(l), NEW p \in Broken(D, T, A, l) PROVE Finer(JoinedLabels(l, p[1], p[2]))
  <2>1. p[1] \in D /\ p[2] \in D /\ A \subseteq D \X D
    BY DEF Broken, Closable
  <2>2. M[p[1]] = M[p[2]]
    <3>1. CASE p \in A
      BY <3>1 DEF Respects
    <3>2. CASE p \notin A
      <4>1. T[p[1]].op = T[p[2]].op /\ OnLabels(T, l, p[1]) = OnLabels(T, l, p[2])
        BY <3>2 DEF Broken
      <4>2. DOMAIN T[p[1]].children = DOMAIN T[p[2]].children
        BY <4>1 DEF OnLabels
      <4>3. \A k \in DOMAIN T[p[1]].children : l[T[p[1]].children[k]] = l[T[p[2]].children[k]]
        BY <4>1, <4>2 DEF OnLabels
      <4> (\A k \in DOMAIN T[p[1]].children : T[p[1]].children[k] \in D)
          /\ (\A k \in DOMAIN T[p[2]].children : T[p[2]].children[k] \in D)
        BY <2>1 DEF Closable
      <4>4. \A k \in DOMAIN T[p[1]].children : M[T[p[1]].children[k]] = M[T[p[2]].children[k]]
        BY <1>2, <2>1, <4>2, <4>3
      <4>5. OnLabels(T, M, p[1]) = OnLabels(T, M, p[2])
        BY <4>2, <4>4 DEF OnLabels
      <4> QED BY <2>1, <4>1, <4>5 DEF Respects
    <3> QED BY <3>1, <3>2
  <2>3. SUFFICES ASSUME NEW i \in D, NEW j \in D, JoinedLabels(l, p[1], p[2])[i] = JoinedLabels(l, p[1], p[2])[j]
                 PROVE  M[i] = M[j]
    OBVIOUS
  <2> QED BY <1>2, <2>1, <2>2, <2>3 DEF JoinedLabels
<1>3. \A l \in L : s[l] # l => \E p \in Broken(D, T, A, l) : s[l] = JoinedLabels(l, p[1], p[2])
  <2>1. \A l \in L : s[l] = l <=> Broken(D, T, A, l) = {}
    BY JoinsEnd
  <2>2. \A l \in L : Broken(D, T, A, l) # {} =>
          \E p \in Broken(D, T, A, l) : s[l] = JoinedLabels(l, p[1], p[2])
    BY JoinsEnd
  <2> HIDE DEF s, L
  <2> QED BY <2>1, <2>2
<1>4. \A l \in L : s[l] \in L /\ (s[l] # l => FindIn(s, l) = FindIn(s, s[l])) /\ (s[l] = l => FindIn(s, l) = l)
  <2> HIDE DEF s, L
  <2> QED BY <1>1, FindFacts
<1>5. ASSUME NEW l \in S PROVE s[l] \in S /\ s[l] # l
  <2> HIDE DEF s, L, Finer
  <2>1. s[l] # l
    BY <1>4
  <2>2. Finer(s[l])
    BY <1>2, <1>3, <2>1
  <2> QED BY <1>4, <2>1, <2>2
<1>6. S = {}
  <2>1. S \in SUBSET DOMAIN s
    BY <1>1
  <2> HIDE DEF S, s
  <2> QED BY <1>1, <1>5, <2>1 DEF Forest
<1>7. Identity(D) \in L /\ Finer(Identity(D))
  BY DEF Identity
<1>8. Finer(Label(D, T, A))
  <2> HIDE DEF Finer
  <2> QED BY <1>6, <1>7 DEF Label
<1> QED BY <1>8 DEF Least

\* LeastCongruence is defined by that iteration.
Iteration(D, T, A) ==
  LET close[l \in [D -> D]] ==
        IF Broken(D, T, A, l) = {} THEN l
        ELSE LET p == CHOOSE p \in Broken(D, T, A, l) : TRUE IN close[JoinedLabels(l, p[1], p[2])]
  IN  {p \in D \X D : close[Identity(D)][p[1]] = close[Identity(D)][p[2]]}

\* The iteration by which the model defines the least congruence ends, and computes the
\* labels that Label gives by descent.
LEMMA IterationIsLeast ==
  ASSUME NEW D, NEW T, NEW A, Closable(D, T, A)
  PROVE  Iteration(D, T, A) = Least(D, T, A)
<1> DEFINE s == JoinOne(D, T, A)
           Closes(g) ==
             g = [l \in [D -> D] |->
                    IF Broken(D, T, A, l) = {} THEN l
                    ELSE LET p == CHOOSE p \in Broken(D, T, A, l) : TRUE
                         IN  g[JoinedLabels(l, p[1], p[2])]]
           close == CHOOSE g : Closes(g)
<1>1. Iteration(D, T, A) = {p \in D \X D : close[Identity(D)][p[1]] = close[Identity(D)][p[2]]}
  BY DEF Iteration
<1>2. Forest(s) /\ DOMAIN s = [D -> D]
  BY JoinsEnd
<1>3. \A l \in [D -> D] : s[l] = l <=> Broken(D, T, A, l) = {}
  BY JoinsEnd
<1>4. \A g : Closes(g) <=> Finds(s, g)
  <2> TAKE g
  <2>1. ASSUME NEW l \in [D -> D]
        PROVE  (IF Broken(D, T, A, l) = {} THEN l
                ELSE LET p == CHOOSE p \in Broken(D, T, A, l) : TRUE
                     IN  g[JoinedLabels(l, p[1], p[2])])
                 = IF s[l] = l THEN l ELSE g[s[l]]
    <3>1. CASE Broken(D, T, A, l) = {}
      BY <1>3, <3>1
    <3>2. CASE Broken(D, T, A, l) # {}
      <4> DEFINE p == CHOOSE p \in Broken(D, T, A, l) : TRUE
      <4>1. s[l] = JoinedLabels(l, p[1], p[2])
        BY <3>2 DEF JoinOne
      <4>2. s[l] # l
        BY <1>3, <3>2
      <4> QED BY <3>2, <4>1, <4>2
    <3> QED BY <3>1, <3>2
  <2>2. [l \in [D -> D] |->
           IF Broken(D, T, A, l) = {} THEN l
           ELSE LET p == CHOOSE p \in Broken(D, T, A, l) : TRUE
                IN  g[JoinedLabels(l, p[1], p[2])]]
          = [l \in DOMAIN s |-> IF s[l] = l THEN l ELSE g[s[l]]]
    BY <1>2, <2>1
  <2> QED BY <2>2 DEF Finds
<1>5. PICK f : Finds(s, f)
  BY <1>2 DEF Forest
<1>6. Closes(close)
  BY <1>4, <1>5
<1>7. Finds(s, close)
  BY <1>4, <1>6
<1>8. Identity(D) \in DOMAIN s
  BY <1>2 DEF Identity
<1>9. Label(D, T, A) = close[Identity(D)]
  <2> HIDE DEF s, close
  <2> QED BY <1>2, <1>7, <1>8, FindIs DEF Label, s
<1> QED BY <1>1, <1>9 DEF Least

\* The model's operator is this iteration, before and after a step.
LEMMA LeastIs ==
  /\ LeastCongruence = Iteration(Ids, terms, asserted)
  /\ LeastCongruence' = Iteration(Ids', terms', asserted')
<1>1. LeastCongruence = Iteration(Ids, terms, asserted)
  BY DEF LeastCongruence, Iteration, Broken, OnLabels, JoinedLabels, Identity
<1>2. LeastCongruence' = Iteration(Ids', terms', asserted')
  BY DEF LeastCongruence, Iteration, Broken, OnLabels, JoinedLabels, Identity
<1> QED BY <1>1, <1>2

-----------------------------------------------------------------------------
(* What a scan collects *)

\* A sequence of sequences is flattened to a sequence of their elements.
LEMMA FlattenIsSeq ==
  ASSUME NEW S, NEW seqs \in Seq(Seq(S))
  PROVE  FlattenSeq(seqs) \in Seq(S)
<1> DEFINE N == Len(seqs)
           Value(g, i) == IF i = 1 THEN seqs[i] ELSE g[i - 1] \o seqs[i]
           Flat(m, g) == g = [i \in 1..m |-> IF i = 1 THEN seqs[i] ELSE g[i - 1] \o seqs[i]]
           HasFlat(m) == \E g \in [1..m -> Seq(S)] : Flat(m, g)
           Solved == {m \in Nat : m <= N => HasFlat(m)}
           flatten == CHOOSE g : Flat(N, g)
<1>1. N \in Nat /\ \A i \in 1..N : seqs[i] \in Seq(S)
  OBVIOUS
<1>2. FlattenSeq(seqs) = IF N = 0 THEN seqs ELSE flatten[N]
  BY DEF FlattenSeq
<1>3. ASSUME NEW m, NEW g, Flat(m, g) PROVE \A i \in 1..m : g[i] = Value(g, i)
  BY <1>3
<1>4. 0 \in Solved
  <2> DEFINE e == [i \in 1..0 |-> seqs[i]]
  <2>1. e \in [1..0 -> Seq(S)] /\ Flat(0, e)
    OBVIOUS
  <2> QED BY <2>1
<1> HIDE DEF N
<1>5. ASSUME NEW m \in Nat, m \in Solved PROVE m + 1 \in Solved
  <2>1. SUFFICES ASSUME m + 1 <= N PROVE HasFlat(m + 1)
    <3> HIDE DEF HasFlat
    <3> QED OBVIOUS
  <2>2. HasFlat(m)
    <3> HIDE DEF HasFlat
    <3> QED BY <1>1, <1>5, <2>1
  <2>3. PICK f \in [1..m -> Seq(S)] : Flat(m, f)
    BY <2>2
  <2> HIDE DEF Flat
  <2>4. \A i \in 1..m : f[i] = Value(f, i)
    <3> HIDE DEF Value
    <3> QED BY <1>3, <2>3
  <2> DEFINE g == [i \in 1..(m + 1) |-> Value(f, i)]
  <2>5. \A i \in 1..m : i \in 1..(m + 1)
    OBVIOUS
  <2>6. \A i \in 1..(m + 1) : Value(f, i) \in Seq(S)
    <3>1. TAKE i \in 1..(m + 1)
    <3>2. seqs[i] \in Seq(S) /\ (i # 1 => f[i - 1] \in Seq(S))
      BY <1>1, <2>1
    <3> QED BY <3>2
  <2>7. \A i \in 1..m : g[i] = f[i]
    <3> HIDE DEF Value
    <3> QED BY <2>4, <2>5
  <2>8. \A i \in 1..(m + 1) : Value(f, i) = Value(g, i)
    <3>1. TAKE i \in 1..(m + 1)
    <3>2. i # 1 => i - 1 \in 1..m
      OBVIOUS
    <3>3. i # 1 => g[i - 1] = f[i - 1]
      BY <2>7, <3>2
    <3> HIDE DEF g
    <3> QED BY <3>3
  <2>9. Flat(m + 1, g)
    <3>1. g = [i \in 1..(m + 1) |-> Value(g, i)]
      <4> HIDE DEF Value
      <4> QED BY <2>8
    <3> HIDE DEF g
    <3> QED BY <3>1 DEF Flat
  <2>10. g \in [1..(m + 1) -> Seq(S)]
    <3> HIDE DEF Value
    <3> QED BY <2>6
  <2> HIDE DEF g
  <2> QED BY <2>9, <2>10
<1>6. N \in Solved
  <2> HIDE DEF Solved
  <2> QED BY <1>1, <1>4, <1>5, InductiveSet
<1>7. Flat(N, flatten)
  <2>1. HasFlat(N)
    <3> HIDE DEF HasFlat
    <3> QED BY <1>1, <1>6
  <2>2. \E g : Flat(N, g)
    <3> HIDE DEF Flat
    <3> QED BY <2>1
  <2> HIDE DEF Flat
  <2> QED BY <2>2
<1> HIDE DEF flatten, Flat
<1>8. \A i \in 1..N : flatten[i] = Value(flatten, i)
  BY <1>3, <1>7
<1> DEFINE bad == {i \in 1..N : flatten[i] \notin Seq(S)}
<1>9. bad = {}
  <2>1. SUFFICES ASSUME bad # {} PROVE FALSE
    OBVIOUS
  <2>2. bad \subseteq Nat
    OBVIOUS
  <2>3. PICK i \in bad : \A j \in bad : i <= j
    <3> HIDE DEF bad
    <3> QED BY <2>1, <2>2, MinExists
  <2>4. i \in 1..N /\ flatten[i] = Value(flatten, i) /\ seqs[i] \in Seq(S)
    BY <1>1, <1>8
  <2>5. CASE i = 1
    BY <2>4, <2>5
  <2>6. CASE i # 1
    <3>1. i - 1 \in 1..N /\ ~ (i <= i - 1)
      BY <1>1, <2>4, <2>6
    <3>2. i - 1 \notin bad
      <4> HIDE DEF bad
      <4> QED BY <2>3, <3>1
    <3>3. flatten[i - 1] \in Seq(S)
      BY <3>1, <3>2
    <3>4. flatten[i - 1] \o seqs[i] \in Seq(S)
      BY <2>4, <3>3, ConcatProperties
    <3> QED BY <2>4, <2>6, <3>4
  <2> QED BY <2>5, <2>6
<1>10. CASE N = 0
  BY <1>2, <1>10, EmptySeq DEF N
<1>11. CASE N # 0
  <2>1. N \in 1..N
    BY <1>1, <1>11
  <2> QED BY <1>2, <1>9, <1>11, <2>1
<1> QED BY <1>10, <1>11

\* An e-node is its symbol and its children.
LEMMA NodesAreOne ==
  ASSUME NEW D, NEW E, NEW m, NEW n, NodeOver(m, D), NodeOver(n, E), m.op = n.op,
         \A k \in 1..Arity[m.op] : m.children[k] = n.children[k]
  PROVE  m = n
<1>1. m.children = [k \in 1..Arity[m.op] |-> m.children[k]]
  BY DEF NodeOver
<1>2. n.children = [k \in 1..Arity[m.op] |-> n.children[k]]
  BY DEF NodeOver
<1>3. m.children = n.children
  BY <1>1, <1>2
<1>4. m = [op |-> m.op, children |-> m.children] /\ n = [op |-> n.op, children |-> n.children]
  BY DEF NodeOver
<1> QED BY <1>3, <1>4

\* NodeBefore orders the e-nodes over numbers.
LEMMA NodesAreOrdered ==
  ASSUME NEW D, D \subseteq Nat
  PROVE  /\ \A m, n : NodeOver(m, D) /\ NodeOver(n, D) =>
              m = n \/ NodeBefore(m, n) \/ NodeBefore(n, m)
         /\ \A n : NodeOver(n, D) => ~ NodeBefore(n, n)
         /\ \A m, n, o : /\ NodeOver(m, D) /\ NodeOver(n, D) /\ NodeOver(o, D)
                         /\ NodeBefore(m, n) /\ NodeBefore(n, o)
                         => NodeBefore(m, o)
<1>1. Symbols \subseteq Nat /\ \A f \in Symbols : Arity[f] \in Nat
  BY ArityAssumption DEF Symbols
<1>2. \A n : NodeOver(n, D) =>
        /\ n.op \in Nat /\ DOMAIN n.children = 1..Arity[n.op] /\ Arity[n.op] \in Nat
        /\ \A k \in 1..Arity[n.op] : n.children[k] \in Nat
  BY <1>1 DEF NodeOver
<1>3. ASSUME NEW m, NEW n, NodeOver(m, D), NodeOver(n, D)
      PROVE  m = n \/ NodeBefore(m, n) \/ NodeBefore(n, m)
  <2>1. CASE m.op # n.op
    BY <1>2, <1>3, <2>1 DEF NodeBefore
  <2>2. CASE m.op = n.op
    <3> DEFINE differ == {k \in 1..Arity[m.op] : m.children[k] # n.children[k]}
    <3>1. CASE differ = {}
      BY <1>3, <2>2, <3>1, NodesAreOne
    <3>2. CASE differ # {}
      <4>1. differ \subseteq Nat
        OBVIOUS
      <4>2. PICK k \in differ : \A j \in differ : k <= j
        <5> HIDE DEF differ
        <5> QED BY <3>2, <4>1, MinExists
      <4>3. k \in 1..Arity[m.op] /\ m.children[k] # n.children[k]
        OBVIOUS
      <4>4. \A j \in 1..(k - 1) : m.children[j] = n.children[j]
        <5>1. TAKE j \in 1..(k - 1)
        <5>2. j \in 1..Arity[m.op] /\ ~ (k <= j)
          BY <1>2, <1>3, <4>3
        <5>3. j \notin differ
          <6> HIDE DEF differ
          <6> QED BY <4>2, <5>2
        <5> QED BY <5>2, <5>3
      <4>5. m.children[k] < n.children[k] \/ n.children[k] < m.children[k]
        BY <1>2, <1>3, <2>2, <4>3
      <4> QED BY <1>2, <1>3, <2>2, <4>3, <4>4, <4>5 DEF NodeBefore
    <3> QED BY <3>1, <3>2
  <2> QED BY <2>1, <2>2
<1>4. ASSUME NEW n, NodeOver(n, D) PROVE ~ NodeBefore(n, n)
  BY <1>2, <1>4 DEF NodeBefore
<1>5. ASSUME NEW m, NEW n, NEW o, NodeOver(m, D), NodeOver(n, D), NodeOver(o, D),
             NodeBefore(m, n), NodeBefore(n, o)
      PROVE  NodeBefore(m, o)
  <2>1. m.op \in Nat /\ n.op \in Nat /\ o.op \in Nat
    BY <1>2, <1>5
  <2>2. CASE m.op < n.op \/ n.op < o.op
    BY <1>5, <2>1, <2>2 DEF NodeBefore
  <2>3. CASE ~ (m.op < n.op) /\ ~ (n.op < o.op)
    <3>1. m.op = n.op /\ n.op = o.op
      BY <1>5, <2>3 DEF NodeBefore
    <3>2. PICK k \in DOMAIN m.children :
            m.children[k] < n.children[k] /\ \A i \in 1..(k - 1) : m.children[i] = n.children[i]
      BY <1>5, <2>3 DEF NodeBefore
    <3>3. PICK j \in DOMAIN n.children :
            n.children[j] < o.children[j] /\ \A i \in 1..(j - 1) : n.children[i] = o.children[i]
      BY <1>5, <2>3 DEF NodeBefore
    <3>4. /\ k \in 1..Arity[m.op] /\ j \in 1..Arity[m.op] /\ k \in Nat /\ j \in Nat
          /\ DOMAIN m.children = 1..Arity[m.op]
      BY <1>2, <1>5, <3>1
    <3>5. \A i \in 1..Arity[m.op] :
            m.children[i] \in Nat /\ n.children[i] \in Nat /\ o.children[i] \in Nat
      BY <1>2, <1>5, <3>1
    <3>6. CASE k < j
      <4>1. n.children[k] = o.children[k] /\ \A i \in 1..(k - 1) : n.children[i] = o.children[i]
        BY <3>3, <3>4, <3>6
      <4> QED BY <3>1, <3>2, <3>4, <4>1 DEF NodeBefore
    <3>7. CASE j < k
      <4>1. m.children[j] = n.children[j] /\ \A i \in 1..(j - 1) : m.children[i] = n.children[i]
        BY <3>2, <3>4, <3>7
      <4> QED BY <3>1, <3>3, <3>4, <4>1 DEF NodeBefore
    <3>8. CASE j = k
      <4>1. m.children[k] < o.children[k]
        BY <3>2, <3>3, <3>4, <3>5, <3>8
      <4> QED BY <3>1, <3>2, <3>3, <3>4, <3>8, <4>1 DEF NodeBefore
    <3> QED BY <3>4, <3>6, <3>7, <3>8
  <2> QED BY <2>2, <2>3
<1> QED BY <1>3, <1>4, <1>5

\* So a finite set of them can be sorted: by the number of those before each.
LEMMA SortIsSeq ==
  ASSUME NEW D, D \subseteq Nat, NEW S, IsFiniteSet(S), \A n \in S : NodeOver(n, D)
  PROVE  SortedNodes(S) \in Seq(S)
<1> DEFINE N == Cardinality(S)
           Before(n) == {m \in S : NodeBefore(m, n)}
           rank == [n \in S |-> Cardinality(Before(n)) + 1]
           Sorted(s) == \A j, k \in DOMAIN s : j < k => NodeBefore(s[j], s[k])
<1>1. N \in Nat
  BY FS_CardinalityType
<1>2. /\ \A m, n \in S : m = n \/ NodeBefore(m, n) \/ NodeBefore(n, m)
      /\ \A n \in S : ~ NodeBefore(n, n)
      /\ \A m, n, o \in S : NodeBefore(m, n) /\ NodeBefore(n, o) => NodeBefore(m, o)
  BY NodesAreOrdered
<1>3. ASSUME NEW n \in S
      PROVE  /\ IsFiniteSet(Before(n)) /\ Cardinality(Before(n)) \in Nat
             /\ Cardinality(Before(n)) < N
  <2>1. Before(n) \in SUBSET S
    OBVIOUS
  <2>2. n \in S /\ n \notin Before(n)
    BY <1>2
  <2> HIDE DEF Before, N
  <2>3. IsFiniteSet(Before(n)) /\ Cardinality(Before(n)) <= N /\ Cardinality(Before(n)) # N
    BY <2>1, <2>2, FS_Subset DEF N
  <2>4. Cardinality(Before(n)) \in Nat
    BY <2>3, FS_CardinalityType
  <2> QED BY <1>1, <2>3, <2>4
<1>4. ASSUME NEW m \in S, NEW n \in S, NodeBefore(m, n) PROVE rank[m] < rank[n]
  <2>1. Before(m) \in SUBSET Before(n)
    BY <1>2, <1>4
  <2>2. m \in Before(n) /\ m \notin Before(m)
    BY <1>2, <1>4
  <2>3. rank[m] = Cardinality(Before(m)) + 1 /\ rank[n] = Cardinality(Before(n)) + 1
    OBVIOUS
  <2> HIDE DEF Before, rank
  <2>4. Cardinality(Before(m)) <= Cardinality(Before(n)) /\ Cardinality(Before(m)) # Cardinality(Before(n))
    BY <1>3, <2>1, <2>2, FS_Subset
  <2>5. Cardinality(Before(m)) \in Nat /\ Cardinality(Before(n)) \in Nat
    BY <1>3
  <2> QED BY <2>3, <2>4, <2>5
<1>5. \A n \in S : rank[n] \in 1..N /\ rank[n] \in Nat
  <2> TAKE n \in S
  <2>1. rank[n] = Cardinality(Before(n)) + 1
    OBVIOUS
  <2> HIDE DEF Before, rank, N
  <2> QED BY <1>1, <1>3, <2>1
<1>6. rank \in Injection(S, 1..N)
  <2>1. rank \in [S -> 1..N]
    <3>1. rank = [n \in S |-> rank[n]]
      OBVIOUS
    <3> HIDE DEF rank, N
    <3> QED BY <1>5, <3>1
  <2>2. ASSUME NEW m \in S, NEW n \in S, rank[m] = rank[n] PROVE m = n
    <3> HIDE DEF rank
    <3>1. ~ (rank[m] < rank[n]) /\ ~ (rank[n] < rank[m])
      BY <1>5, <2>2
    <3> QED BY <1>2, <1>4, <3>1
  <2> HIDE DEF rank, N
  <2> QED BY <2>1, <2>2 DEF Injection, IsInjective
<1> HIDE DEF rank
<1>7. rank \in Surjection(S, 1..N)
  <2>1. IsFiniteSet(1..N) /\ Cardinality(1..N) = N
    BY <1>1, FS_Interval
  <2> HIDE DEF N
  <2> QED BY <1>6, <2>1, FS_Injection DEF N
<1> DEFINE s == [k \in 1..N |-> CHOOSE n \in S : rank[n] = k]
<1>8. \A k \in 1..N : s[k] \in S /\ rank[s[k]] = k
  BY <1>7 DEF Surjection
<1>9. s \in SetToSeqs(S)
  <2>1. s \in [1..N -> S]
    BY <1>8
  <2>2. \A j, k \in 1..N : j # k => s[j] # s[k]
    <3> HIDE DEF s
    <3> QED BY <1>8
  <2> HIDE DEF s
  <2> QED BY <2>1, <2>2 DEF SetToSeqs
<1>10. Sorted(s)
  <2>1. DOMAIN s = 1..N
    OBVIOUS
  <2> HIDE DEF s
  <2>2. SUFFICES ASSUME NEW j \in 1..N, NEW k \in 1..N, j < k PROVE NodeBefore(s[j], s[k])
    BY <2>1
  <2>3. s[j] \in S /\ s[k] \in S /\ rank[s[j]] = j /\ rank[s[k]] = k
    BY <1>8
  <2>4. s[j] # s[k] /\ ~ (rank[s[k]] < rank[s[j]])
    BY <1>1, <2>2, <2>3
  <2> QED BY <1>2, <1>4, <2>3, <2>4
<1>11. SortedNodes(S) \in SetToSeqs(S)
  <2> HIDE DEF s
  <2> QED BY <1>9, <1>10 DEF SortedNodes
<1>12. SortedNodes(S) \in [1..N -> S]
  BY <1>11 DEF SetToSeqs
<1> QED BY <1>1, <1>12

\* Every pair a scan collects is of two classes that share an e-node.
Sharing(fresh) == {p \in (DOMAIN fresh) \X (DOMAIN fresh) : fresh[p[1]] \cap fresh[p[2]] # {}}

\* A scan puts no other pairs into `merges` than classes that hold one e-node in common.
LEMMA MergesShare ==
  ASSUME NEW D, D \subseteq Nat, NEW fresh,
         \A c \in DOMAIN fresh : IsFiniteSet(fresh[c]) /\ \A n \in fresh[c] : NodeOver(n, D),
         NEW order \in Seq(DOMAIN fresh)
  PROVE  MergesOf(fresh, order) \in Seq(Sharing(fresh))
<1> DEFINE First(n, k) == /\ n \in fresh[order[k]]
                          /\ \A j \in 1..(k - 1) : n \notin fresh[order[j]]
           SeenIn(n) == order[CHOOSE k \in DOMAIN order : First(n, k)]
           repeated(c) == {n \in fresh[c] : SeenIn(n) # c}
           Pairs(c) == [k \in DOMAIN SortedNodes(repeated(c)) |->
                          <<SeenIn(SortedNodes(repeated(c))[k]), c>>]
           all == [k \in DOMAIN order |-> Pairs(order[k])]
<1>1. MergesOf(fresh, order) = FlattenSeq(all)
  BY DEF MergesOf
<1>2. /\ DOMAIN order = 1..Len(order) /\ Len(order) \in Nat
      /\ \A k \in DOMAIN order : order[k] \in DOMAIN fresh
  OBVIOUS
<1>3. ASSUME NEW i \in DOMAIN order, NEW n \in fresh[order[i]]
      PROVE  SeenIn(n) \in DOMAIN fresh /\ n \in fresh[SeenIn(n)]
  <2> DEFINE holds == {k \in DOMAIN order : n \in fresh[order[k]]}
  <2>1. holds \subseteq Nat /\ holds # {}
    BY <1>2
  <2>2. PICK k \in holds : \A j \in holds : k <= j
    <3> HIDE DEF holds
    <3> QED BY <2>1, MinExists
  <2>3. k \in DOMAIN order /\ First(n, k)
    <3>1. \A j \in 1..(k - 1) : j \in DOMAIN order /\ ~ (k <= j)
      BY <1>2
    <3>2. \A j \in 1..(k - 1) : j \notin holds
      <4> HIDE DEF holds
      <4> QED BY <2>2, <3>1
    <3> QED BY <3>1, <3>2
  <2>4. \E j \in DOMAIN order : First(n, j)
    BY <2>3
  <2> HIDE DEF First
  <2>5. /\ (CHOOSE j \in DOMAIN order : First(n, j)) \in DOMAIN order
        /\ First(n, CHOOSE j \in DOMAIN order : First(n, j))
    BY <2>4
  <2> QED BY <1>2, <2>5 DEF First
<1> HIDE DEF SeenIn
<1>4. ASSUME NEW i \in DOMAIN order PROVE Pairs(order[i]) \in Seq(Sharing(fresh))
  <2> DEFINE c == order[i]
             sorted == SortedNodes(repeated(c))
  <2>1. c \in DOMAIN fresh /\ repeated(c) \in SUBSET fresh[c]
    BY <1>2
  <2> HIDE DEF repeated
  <2>2. IsFiniteSet(repeated(c)) /\ \A n \in repeated(c) : NodeOver(n, D)
    BY <2>1, FS_Subset
  <2>3. sorted \in Seq(repeated(c))
    BY <2>2, SortIsSeq
  <2>4. ASSUME NEW n \in repeated(c) PROVE <<SeenIn(n), c>> \in Sharing(fresh)
    <3>1. n \in fresh[order[i]]
      BY <2>1
    <3>2. SeenIn(n) \in DOMAIN fresh /\ n \in fresh[SeenIn(n)]
      BY <1>3, <3>1
    <3>3. fresh[SeenIn(n)] \cap fresh[c] # {}
      BY <3>1, <3>2
    <3> QED BY <2>1, <3>2, <3>3 DEF Sharing
  <2> HIDE DEF c, sorted
  <2>5. /\ DOMAIN sorted = 1..Len(sorted) /\ Len(sorted) \in Nat
        /\ \A k \in DOMAIN sorted : sorted[k] \in repeated(c)
    BY <2>3
  <2>6. [k \in 1..Len(sorted) |-> <<SeenIn(sorted[k]), c>>] \in Seq(Sharing(fresh))
    <3>1. \A k \in 1..Len(sorted) : <<SeenIn(sorted[k]), c>> \in Sharing(fresh)
      BY <2>4, <2>5
    <3> QED BY <2>5, <3>1
  <2> QED BY <2>5, <2>6 DEF c, sorted
<1>5. all \in Seq(Seq(Sharing(fresh)))
  <2> HIDE DEF Pairs
  <2> QED BY <1>2, <1>4
<1> QED BY <1>1, <1>5, FlattenIsSeq

-----------------------------------------------------------------------------
(* E-nodes and classes *)

\* The canonical form of an e-node is an e-node, alike and over roots; e-nodes
\* are alike when their canonical forms are one.
LEMMA CanonFacts ==
  ASSUME NEW p, Forest(p)
  PROVE  /\ \A n : NodeOver(n, DOMAIN p) =>
              /\ NodeOver(CanonIn(p, n), DOMAIN p) /\ CanonIn(p, n).op = n.op
              /\ \A k \in 1..Arity[n.op] : CanonIn(p, n).children[k] = FindIn(p, n.children[k])
         /\ \A n : NodeOver(n, DOMAIN p) =>
              Alike(p, CanonIn(p, n), n) /\ CanonIn(p, CanonIn(p, n)) = CanonIn(p, n)
         /\ \A m, n : NodeOver(m, DOMAIN p) /\ NodeOver(n, DOMAIN p) =>
              (Alike(p, m, n) <=> CanonIn(p, m) = CanonIn(p, n))
<1>1. \A i \in DOMAIN p : FindIn(p, i) \in DOMAIN p /\ FindIn(p, FindIn(p, i)) = FindIn(p, i)
  BY FindFacts
<1>2. ASSUME NEW n, NodeOver(n, DOMAIN p)
      PROVE  /\ NodeOver(CanonIn(p, n), DOMAIN p) /\ CanonIn(p, n).op = n.op
             /\ \A k \in 1..Arity[n.op] : CanonIn(p, n).children[k] = FindIn(p, n.children[k])
             /\ \A k \in 1..Arity[n.op] : n.children[k] \in DOMAIN p
  <2> DEFINE kids == [k \in DOMAIN n.children |-> FindIn(p, n.children[k])]
  <2>1. /\ n = [op |-> n.op, children |-> n.children] /\ n.op \in Symbols
        /\ DOMAIN n.children = 1..Arity[n.op]
        /\ \A k \in 1..Arity[n.op] : n.children[k] \in DOMAIN p
    BY <1>2 DEF NodeOver
  <2>2. /\ kids \in [1..Arity[n.op] -> DOMAIN p]
        /\ \A k \in 1..Arity[n.op] : kids[k] = FindIn(p, n.children[k])
    BY <1>1, <2>1
  <2>3. CanonIn(p, n) = [n EXCEPT !.children = kids]
    BY DEF CanonIn
  <2> HIDE DEF kids
  <2>4. CanonIn(p, n) = [op |-> n.op, children |-> kids]
    BY <2>1, <2>3
  <2> QED BY <2>1, <2>2, <2>4 DEF NodeOver
<1>3. ASSUME NEW n, NodeOver(n, DOMAIN p)
      PROVE  Alike(p, CanonIn(p, n), n)
  BY <1>1, <1>2, <1>3 DEF Alike
<1>4. ASSUME NEW m, NEW n, NodeOver(m, DOMAIN p), NodeOver(n, DOMAIN p), Alike(p, m, n)
      PROVE  CanonIn(p, m) = CanonIn(p, n)
  <2>1. /\ CanonIn(p, m).op = CanonIn(p, n).op
        /\ NodeOver(CanonIn(p, m), DOMAIN p) /\ NodeOver(CanonIn(p, n), DOMAIN p)
    BY <1>2, <1>4 DEF Alike
  <2>2. \A k \in 1..Arity[CanonIn(p, m).op] : CanonIn(p, m).children[k] = CanonIn(p, n).children[k]
    BY <1>2, <1>4 DEF Alike
  <2> QED BY <2>1, <2>2, NodesAreOne
<1>5. ASSUME NEW m, NEW n, NodeOver(m, DOMAIN p), NodeOver(n, DOMAIN p),
             CanonIn(p, m) = CanonIn(p, n)
      PROVE  Alike(p, m, n)
  BY <1>2, <1>5 DEF Alike
<1>6. ASSUME NEW n, NodeOver(n, DOMAIN p) PROVE CanonIn(p, CanonIn(p, n)) = CanonIn(p, n)
  BY <1>2, <1>3, <1>4, <1>6
<1> QED BY <1>2, <1>3, <1>4, <1>5, <1>6

\* Being alike is an equivalence.
LEMMA AlikeFacts ==
  ASSUME NEW p, NEW m, NEW n, Alike(p, m, n)
  PROVE  Alike(p, n, m) /\ \A o : Alike(p, n, o) => Alike(p, m, o)
BY DEF Alike

\* A union-find that merges more finds more e-nodes alike.
LEMMA AlikeGrows ==
  ASSUME NEW p, NEW q,
         \A i, j \in DOMAIN p : FindIn(p, i) = FindIn(p, j) => FindIn(q, i) = FindIn(q, j),
         NEW m, NEW n, NodeOver(m, DOMAIN p), NodeOver(n, DOMAIN p), Alike(p, m, n)
  PROVE  Alike(q, m, n)
BY DEF Alike, NodeOver

\* What goes under a root are the e-nodes of all below it, finitely many.
LEMMA ByRootFacts ==
  ASSUME NEW cs, NEW q
  PROVE  /\ \A r : r \in DOMAIN ByRoot(cs, q) <=> \E c \in DOMAIN cs : FindIn(q, c) = r
         /\ \A r \in DOMAIN ByRoot(cs, q) : \A n :
              n \in ByRoot(cs, q)[r] <=> \E c \in DOMAIN cs : FindIn(q, c) = r /\ n \in cs[c]
         /\ IsFiniteSet(DOMAIN cs) /\ (\A c \in DOMAIN cs : IsFiniteSet(cs[c])) =>
              \A r \in DOMAIN ByRoot(cs, q) : IsFiniteSet(ByRoot(cs, q)[r])
<1>1. /\ DOMAIN ByRoot(cs, q) = {FindIn(q, c) : c \in DOMAIN cs}
      /\ \A r \in DOMAIN ByRoot(cs, q) :
           ByRoot(cs, q)[r] = UNION {cs[c] : c \in {c \in DOMAIN cs : FindIn(q, c) = r}}
  BY DEF ByRoot
<1>2. ASSUME IsFiniteSet(DOMAIN cs), \A c \in DOMAIN cs : IsFiniteSet(cs[c]),
             NEW r \in DOMAIN ByRoot(cs, q)
      PROVE  IsFiniteSet(ByRoot(cs, q)[r])
  <2> DEFINE X == {c \in DOMAIN cs : FindIn(q, c) = r}
             Y == {cs[c] : c \in X}
             f == [c \in X |-> cs[c]]
  <2>1. X \in SUBSET (DOMAIN cs)
    OBVIOUS
  <2>2. f \in Surjection(X, Y)
    BY DEF Surjection
  <2>3. \A y \in Y : IsFiniteSet(y)
    BY <1>2
  <2>4. ByRoot(cs, q)[r] = UNION Y
    BY <1>1
  <2> HIDE DEF X, Y, f
  <2>5. IsFiniteSet(X)
    BY <1>2, <2>1, FS_Subset
  <2>6. IsFiniteSet(Y)
    BY <2>2, <2>5, FS_Surjection
  <2> QED BY <2>3, <2>4, <2>6, FS_UNION
<1> QED BY <1>1, <1>2

\* The ids are the numbers of the union-find, and the roots have the classes.
LEMMA IdFacts ==
  ASSUME Shape
  PROVE  /\ Ids = 1..Len(parents) /\ Len(parents) \in Nat
         /\ Ids \subseteq Nat /\ IsFiniteSet(Ids)
         /\ DOMAIN classes \in SUBSET Ids /\ IsFiniteSet(DOMAIN classes)
         /\ \A c \in DOMAIN classes : FindIn(parents, c) = c
         /\ \A i \in Ids : Find(i) \in DOMAIN classes
         /\ \A i \in Ids : Find(i) \in Ids /\ Find(Find(i)) = Find(i)
         /\ Closable(Ids, terms, asserted)
<1>1. Ids = 1..Len(parents) /\ Len(parents) \in Nat /\ Ids \subseteq Nat
  BY DEF Shape, Ids
<1>2. IsFiniteSet(Ids)
  BY <1>1, FS_Interval
<1>3. DOMAIN classes = {id \in Ids : parents[id] = id} /\ Forest(parents)
  BY DEF Shape
<1>4. DOMAIN classes \in SUBSET Ids /\ IsFiniteSet(DOMAIN classes)
  BY <1>2, <1>3, FS_Subset
<1>5. \A i \in Ids : /\ Find(i) \in Ids /\ Find(Find(i)) = Find(i)
                     /\ Find(i) \in DOMAIN classes
  BY <1>3, FindFacts DEF Find, Ids
<1>6. \A c \in DOMAIN classes : FindIn(parents, c) = c
  BY <1>3, FindFacts DEF Ids
<1>7. Closable(Ids, terms, asserted)
  BY <1>2 DEF Closable, Shape, NodeOver
<1> QED BY <1>1, <1>2, <1>4, <1>5, <1>6, <1>7

\* Classes G that hold, under each root of q, the e-nodes that cs has under ids
\* below it, and nothing under any other id.
Gathered(cs, q, G) ==
  /\ \A r : r \in DOMAIN G <=> \E c \in DOMAIN cs : FindIn(q, c) = r
  /\ \A r \in DOMAIN G : \A n :
       n \in G[r] <=> \E c \in DOMAIN cs : FindIn(q, c) = r /\ n \in cs[c]
  /\ (\A c \in DOMAIN cs : IsFiniteSet(cs[c])) => \A r \in DOMAIN G : IsFiniteSet(G[r])

\* That is what union() leaves, when it found classes under the roots only.
LEMMA GatherFacts ==
  ASSUME NEW p, Forest(p), NEW a \in DOMAIN p, NEW b \in DOMAIN p, NEW q, q = Hang(p, a, b),
         NEW cs, DOMAIN cs = {id \in DOMAIN p : p[id] = id}, NEW G, G = Gather(cs, p, a, b)
  PROVE  Gathered(cs, q, G)
<1> USE DEF Gathered
<1> DEFINE winner == FindIn(p, a)
           loser  == FindIn(p, b)
<1>1. winner \in DOMAIN cs /\ loser \in DOMAIN cs
  BY FindFacts
<1>2. \A c \in DOMAIN cs : FindIn(q, c) = IF c = loser THEN winner ELSE c
  <2>1. \A c \in DOMAIN cs : c \in DOMAIN p /\ FindIn(p, c) = c
    BY FindFacts
  <2>2. \A i \in DOMAIN p : FindIn(q, i) = IF FindIn(p, i) = loser THEN winner ELSE FindIn(p, i)
    BY HangIsForest
  <2> QED BY <2>1, <2>2
<1>3. CASE winner = loser
  <2>1. G = cs
    BY <1>3 DEF Gather
  <2> HIDE DEF winner, loser
  <2> QED BY <1>2, <1>3, <2>1
<1>4. CASE winner # loser
  <2>1. G = [id \in (DOMAIN cs \ {loser}) \cup {winner} |->
               IF id = winner THEN cs[winner] \cup cs[loser] ELSE cs[id]]
    BY <1>1, <1>4 DEF Gather, With, NodesUnder
  <2> HIDE DEF winner, loser
  <2>2. DOMAIN G = DOMAIN cs \ {loser}
    BY <1>1, <1>4, <2>1
  <2>3. \A r \in DOMAIN G : G[r] = IF r = winner THEN cs[winner] \cup cs[loser] ELSE cs[r]
    BY <2>1
  <2>4. ASSUME \A c \in DOMAIN cs : IsFiniteSet(cs[c]), NEW r \in DOMAIN G PROVE IsFiniteSet(G[r])
    <3>1. IsFiniteSet(cs[winner]) /\ IsFiniteSet(cs[loser])
      BY <1>1, <2>4
    <3>2. IsFiniteSet(cs[winner] \cup cs[loser])
      BY <3>1, FS_Union
    <3>3. G[r] = cs[winner] \cup cs[loser] \/ (r \in DOMAIN cs /\ G[r] = cs[r])
      BY <2>2, <2>3
    <3> QED BY <2>4, <3>2, <3>3
  <2>5. \A r : r \in DOMAIN G <=> \E c \in DOMAIN cs : FindIn(q, c) = r
    BY <1>1, <1>2, <1>4, <2>2
  <2>6. \A r \in DOMAIN G : \A n :
          n \in G[r] <=> \E c \in DOMAIN cs : FindIn(q, c) = r /\ n \in cs[c]
    BY <1>1, <1>2, <2>2, <2>3
  <2> QED BY <2>4, <2>5, <2>6
<1> QED BY <1>3, <1>4

\* union() of two ids keeps what is known of the classes and of the table, and
\* merges no ids but those of the two classes.
LEMMA HangKeepsTerms ==
  ASSUME Shape, ClassesHoldTerms, MemoHoldsTerms,
         NEW a \in Ids, NEW b \in Ids, parents' = Hang(parents, a, b),
         classes' = Gather(classes, parents, a, b), UNCHANGED <<memo, terms>>
  PROVE  /\ Ids' = Ids /\ parents' \in Seq(Nat) /\ Forest(parents')
         /\ DOMAIN classes' = {id \in Ids : parents'[id] = id}
         /\ \A c \in DOMAIN classes' :
              IsFiniteSet(classes'[c]) /\ \A n \in classes'[c] : NodeOver(n, Ids)
         /\ Len(terms') = Len(parents')
         /\ ClassesHoldTerms' /\ MemoHoldsTerms'
         /\ \A i, j \in Ids : Find(i) = Find(j) => FindIn(parents', i) = FindIn(parents', j)
         /\ \A i, j \in Ids : FindIn(parents', i) = FindIn(parents', j) =>
              \/ Find(i) = Find(j)
              \/ Find(i) = Find(a) /\ Find(j) = Find(b)
              \/ Find(i) = Find(b) /\ Find(j) = Find(a)
         /\ FindIn(parents', Find(a)) = FindIn(parents', Find(b))
<1> DEFINE p == parents
           q == parents'
<1>1. Ids = DOMAIN p /\ Forest(p) /\ p \in Seq(Nat)
  BY DEF Shape, Ids
<1>2. /\ Forest(q) /\ DOMAIN q = Ids
      /\ \A i \in Ids : FindIn(q, i) =
           IF FindIn(p, i) = FindIn(p, b) THEN FindIn(p, a) ELSE FindIn(p, i)
  <2>1. q = Hang(p, a, b) /\ a \in DOMAIN p /\ b \in DOMAIN p
    BY <1>1
  <2> HIDE DEF p, q
  <2> QED BY <1>1, <2>1, HangIsForest
<1>3. \A i \in Ids : /\ FindIn(p, i) \in Ids /\ p[FindIn(p, i)] = FindIn(p, i)
                     /\ FindIn(p, FindIn(p, i)) = FindIn(p, i)
                     /\ (p[i] = i <=> FindIn(p, i) = i)
  <2> HIDE DEF p
  <2> QED BY <1>1, FindFacts
<1>4. \A i \in Ids : /\ FindIn(q, i) \in Ids /\ q[FindIn(q, i)] = FindIn(q, i)
                     /\ (q[i] = i <=> FindIn(q, i) = i)
  <2> HIDE DEF q
  <2> QED BY <1>2, FindFacts
<1>5. q \in Seq(Nat)
  BY <1>1, <1>3 DEF Hang
<1>6. \A i, j \in Ids : FindIn(p, i) = FindIn(p, j) => FindIn(q, i) = FindIn(q, j)
  BY <1>2
<1>7. \A i \in Ids : FindIn(q, FindIn(p, i)) = FindIn(q, i)
  BY <1>2, <1>3
<1>8. /\ DOMAIN classes = {id \in Ids : p[id] = id}
      /\ \A c \in DOMAIN classes :
           IsFiniteSet(classes[c]) /\ \A n \in classes[c] : NodeOver(n, Ids)
      /\ \A i \in Ids : NodeOver(terms[i], Ids)
      /\ \A n \in DOMAIN memo : NodeOver(n, Ids) /\ memo[n] \in Ids
      /\ Len(terms) = Len(p)
  BY DEF Shape
<1>9. DOMAIN classes \in SUBSET Ids /\ IsFiniteSet(DOMAIN classes)
  BY IdFacts
<1>10. /\ \A r : r \in DOMAIN classes' <=> \E c \in DOMAIN classes : FindIn(q, c) = r
       /\ \A r \in DOMAIN classes' : \A n :
            n \in classes'[r] <=> \E c \in DOMAIN classes : FindIn(q, c) = r /\ n \in classes[c]
       /\ \A r \in DOMAIN classes' : IsFiniteSet(classes'[r])
  <2>1. /\ a \in DOMAIN p /\ b \in DOMAIN p /\ q = Hang(p, a, b) /\ classes' = Gather(classes, p, a, b)
        /\ DOMAIN classes = {id \in DOMAIN p : p[id] = id}
    BY <1>1, <1>8
  <2>2. Gathered(classes, q, classes')
    <3> HIDE DEF p, q
    <3> QED BY <1>1, <2>1, GatherFacts
  <2> HIDE DEF p, q
  <2> QED BY <1>8, <2>2 DEF Gathered
<1> HIDE DEF p, q
<1>11. DOMAIN classes' = {id \in Ids : q[id] = id}
  <2>1. ASSUME NEW c \in DOMAIN classes PROVE FindIn(q, c) \in Ids /\ q[FindIn(q, c)] = FindIn(q, c)
    BY <1>4, <1>9
  <2>2. ASSUME NEW id \in Ids, q[id] = id PROVE id \in DOMAIN classes /\ FindIn(q, id) = id
    <3>1. FindIn(q, id) = id
      BY <1>4, <2>2
    <3>2. id = FindIn(p, a) \/ id = FindIn(p, id)
      BY <1>2, <3>1
    <3>3. p[id] = id
      BY <1>3, <3>2
    <3> QED BY <1>8, <3>1, <3>3
  <2> QED BY <1>10, <2>1, <2>2
<1>12. \A c \in DOMAIN classes' : \A n \in classes'[c] : NodeOver(n, Ids)
  BY <1>8, <1>10
<1>13. Ids' = Ids
  BY <1>2 DEF Ids, q
<1>14. ASSUME NEW m, NEW n, NodeOver(m, Ids), NodeOver(n, Ids), Alike(p, m, n)
       PROVE  Alike(q, m, n)
  BY <1>1, <1>6, <1>14, AlikeGrows
<1>15. ASSUME NEW i \in Ids PROVE \E n \in classes'[FindIn(q, i)] : Alike(q, n, terms[i])
  <2>1. PICK n \in classes[FindIn(p, i)] : Alike(p, n, terms[i])
    BY DEF ClassesHoldTerms, Find, p
  <2>2. FindIn(p, i) \in DOMAIN classes
    BY <1>3, <1>8
  <2>3. NodeOver(n, Ids) /\ NodeOver(terms[i], Ids)
    BY <1>8, <2>2
  <2>4. FindIn(q, i) \in DOMAIN classes'
    BY <1>4, <1>11
  <2>5. n \in classes'[FindIn(q, i)]
    BY <1>7, <1>10, <2>2, <2>4
  <2> QED BY <1>14, <2>1, <2>3, <2>5
<1>16. ASSUME NEW c \in DOMAIN classes', NEW n \in classes'[c]
       PROVE  \E i \in Ids : FindIn(q, i) = c /\ Alike(q, n, terms[i])
  <2>1. PICK d \in DOMAIN classes : FindIn(q, d) = c /\ n \in classes[d]
    BY <1>10
  <2>2. PICK i \in Ids : FindIn(p, i) = d /\ Alike(p, n, terms[i])
    BY <2>1 DEF ClassesHoldTerms, Find, p
  <2>3. FindIn(q, i) = c
    BY <1>7, <2>1, <2>2
  <2>4. NodeOver(n, Ids) /\ NodeOver(terms[i], Ids)
    BY <1>8, <2>1
  <2> QED BY <1>14, <2>2, <2>3, <2>4
<1>17. ClassesHoldTerms'
  <2>1. terms' = terms
    OBVIOUS
  <2> QED BY <1>13, <1>15, <1>16, <2>1 DEF ClassesHoldTerms, Find, q
<1>18. MemoHoldsTerms'
  <2>1. ASSUME NEW n \in DOMAIN memo
        PROVE  \E i \in Ids : FindIn(q, i) = FindIn(q, memo[n]) /\ Alike(q, n, terms[i])
    <3>1. PICK i \in Ids : FindIn(p, i) = FindIn(p, memo[n]) /\ Alike(p, n, terms[i])
      BY DEF MemoHoldsTerms, Same, Find, p
    <3> QED BY <1>6, <1>8, <1>14, <3>1
  <2>2. terms' = terms /\ memo' = memo
    OBVIOUS
  <2> QED BY <1>13, <2>1, <2>2 DEF MemoHoldsTerms, Same, Find, q
<1>19. Len(terms') = Len(q)
  <2>1. Len(q) = Len(p)
    BY <1>1, <1>2, <1>5
  <2> QED BY <1>8, <2>1
<1>20. ASSUME NEW i \in Ids, NEW j \in Ids, FindIn(q, i) = FindIn(q, j)
       PROVE  \/ FindIn(p, i) = FindIn(p, j)
              \/ FindIn(p, i) = FindIn(p, a) /\ FindIn(p, j) = FindIn(p, b)
              \/ FindIn(p, i) = FindIn(p, b) /\ FindIn(p, j) = FindIn(p, a)
  BY <1>2, <1>20
<1>21. FindIn(q, FindIn(p, a)) = FindIn(q, FindIn(p, b))
  BY <1>2, <1>3
<1> QED BY <1>2, <1>5, <1>6, <1>10, <1>11, <1>12, <1>13, <1>17, <1>18, <1>19, <1>20, <1>21
     DEF p, q, Find

-----------------------------------------------------------------------------
(* What is forced *)

\* The least congruence is a congruence that holds the asserted pairs.
Congruence(D, T, A, R) ==
  /\ R \subseteq D \X D /\ A \subseteq R
  /\ \A i \in D : <<i, i>> \in R
  /\ \A i, j \in D : <<i, j>> \in R => <<j, i>> \in R
  /\ \A i, j, k \in D : <<i, j>> \in R /\ <<j, k>> \in R => <<i, k>> \in R
  /\ \A i, j \in D :
       /\ T[i].op = T[j].op /\ DOMAIN T[i].children = DOMAIN T[j].children
       /\ \A k \in DOMAIN T[i].children : <<T[i].children[k], T[j].children[k]>> \in R
       => <<i, j>> \in R

\* What the iteration returns is one. (That it is in every other is LabelIsLeast.)
LEMMA LeastIsCongruence ==
  ASSUME NEW D, NEW T, NEW A, Closable(D, T, A)
  PROVE  Congruence(D, T, A, Iteration(D, T, A))
<1> DEFINE l == Label(D, T, A)
           R == Iteration(D, T, A)
<1>1. Respects(D, T, A, l)
  BY LabelRespects
<1>2. R \subseteq D \X D /\ \A i, j \in D : <<i, j>> \in R <=> l[i] = l[j]
  <2>1. R = {p \in D \X D : l[p[1]] = l[p[2]]}
    BY IterationIsLeast DEF Least
  <2> HIDE DEF l, R
  <2> QED BY <2>1
<1>3. A \subseteq D \X D
  BY DEF Closable
<1> HIDE DEF l, R
<1>4. A \subseteq R
  <2>1. ASSUME NEW p \in A PROVE p \in R
    <3>1. PICK i \in D, j \in D : p = <<i, j>>
      BY <1>3
    <3>2. l[i] = l[j]
      BY <1>1, <3>1 DEF Respects
    <3> QED BY <1>2, <3>1, <3>2
  <2> QED BY <2>1
<1>5. ASSUME NEW i \in D, NEW j \in D, T[i].op = T[j].op,
             DOMAIN T[i].children = DOMAIN T[j].children,
             \A k \in DOMAIN T[i].children : <<T[i].children[k], T[j].children[k]>> \in R
      PROVE  <<i, j>> \in R
  <2>1. \A k \in DOMAIN T[i].children : T[i].children[k] \in D /\ T[j].children[k] \in D
    BY <1>5 DEF Closable
  <2>2. \A k \in DOMAIN T[i].children : l[T[i].children[k]] = l[T[j].children[k]]
    BY <1>2, <1>5, <2>1
  <2>3. OnLabels(T, l, i) = OnLabels(T, l, j)
    BY <1>5, <2>2 DEF OnLabels
  <2>4. l[i] = l[j]
    BY <1>1, <1>5, <2>3 DEF Respects
  <2> QED BY <1>2, <2>4
<1>6. /\ \A i \in D : <<i, i>> \in R
      /\ \A i, j \in D : <<i, j>> \in R => <<j, i>> \in R
      /\ \A i, j, k \in D : <<i, j>> \in R /\ <<j, k>> \in R => <<i, k>> \in R
  BY <1>2
<1>7. Congruence(D, T, A, R)
  BY <1>2, <1>4, <1>5, <1>6 DEF Congruence
<1> QED BY <1>7 DEF R

\* It holds no pair that a labelling that respects everything keeps apart.
LEMMA LeastIsMinimal ==
  ASSUME NEW D, NEW T, NEW A, Closable(D, T, A), NEW M, Respects(D, T, A, M)
  PROVE  \A i, j : <<i, j>> \in Iteration(D, T, A) => M[i] = M[j]
<1>1. Iteration(D, T, A) = Least(D, T, A)
  BY IterationIsLeast
<1>2. \A p \in Least(D, T, A) : M[p[1]] = M[p[2]]
  BY LabelIsLeast
<1> QED BY <1>1, <1>2

\* And it grows with the ids and the asserted pairs.
LEMMA LeastGrows ==
  ASSUME NEW D, NEW T, NEW A, Closable(D, T, A),
         NEW E, NEW U, NEW B, Closable(E, U, B),
         D \subseteq E, A \subseteq B, \A i \in D : U[i] = T[i]
  PROVE  Iteration(D, T, A) \subseteq Iteration(E, U, B)
<1> DEFINE M == Label(E, U, B)
<1>1. Respects(E, U, B, M)
  BY LabelRespects
<1>2. Iteration(E, U, B) = {p \in E \X E : M[p[1]] = M[p[2]]}
  BY IterationIsLeast DEF Least
<1>3. Iteration(D, T, A) \subseteq D \X D
  BY LeastIsCongruence DEF Congruence
<1> HIDE DEF M
<1>4. Respects(D, T, A, M)
  BY <1>1 DEF Respects, OnLabels
<1>5. \A i, j : <<i, j>> \in Iteration(D, T, A) => M[i] = M[j]
  BY <1>4, LeastIsMinimal
<1>6. SUFFICES ASSUME NEW p \in Iteration(D, T, A) PROVE p \in Iteration(E, U, B)
  OBVIOUS
<1>7. PICK i \in D, j \in D : p = <<i, j>>
  BY <1>3
<1>8. M[i] = M[j] /\ p \in E \X E
  BY <1>5, <1>7
<1> QED BY <1>2, <1>7, <1>8

\* In a state and after a step that only adds ids and asserted pairs.
LEMMA ForcedIsCongruence ==
  ASSUME Shape
  PROVE  Congruence(Ids, terms, asserted, LeastCongruence)
<1>1. Closable(Ids, terms, asserted)
  BY IdFacts
<1>2. LeastCongruence = Iteration(Ids, terms, asserted)
  BY LeastIs
<1> QED BY <1>1, <1>2, LeastIsCongruence

\* More terms and more unions force more equalities, never fewer.
LEMMA ForcedGrows ==
  ASSUME Shape, Shape', Ids \subseteq Ids', asserted \subseteq asserted',
         \A i \in Ids : terms'[i] = terms[i]
  PROVE  /\ LeastCongruence \subseteq LeastCongruence'
         /\ Congruence(Ids', terms', asserted', LeastCongruence')
<1>1. Closable(Ids, terms, asserted)
  BY IdFacts
<1>2. Closable(Ids', terms', asserted')
  <2>1. Ids' = 1..Len(parents') /\ Len(parents') \in Nat
    BY DEF Shape, Ids
  <2>2. IsFiniteSet(Ids')
    BY <2>1, FS_Interval
  <2>3. asserted' \subseteq Ids' \X Ids' /\ \A i \in Ids' : NodeOver(terms'[i], Ids')
    BY DEF Shape
  <2> QED BY <2>2, <2>3 DEF Closable, NodeOver
<1>3. /\ LeastCongruence = Iteration(Ids, terms, asserted)
      /\ LeastCongruence' = Iteration(Ids', terms', asserted')
  BY LeastIs
<1>4. LeastCongruence \subseteq LeastCongruence'
  BY <1>1, <1>2, <1>3, LeastGrows
<1>5. Congruence(Ids', terms', asserted', LeastCongruence')
  BY <1>2, <1>3, LeastIsCongruence
<1> QED BY <1>4, <1>5

\* Merging the classes of a forced pair merges only what is forced.
LEMMA HangIsForced ==
  ASSUME Shape, Equivalence \subseteq LeastCongruence,
         NEW a \in Ids, NEW b \in Ids, Ids' = Ids,
         \A i, j \in Ids : FindIn(parents', i) = FindIn(parents', j) =>
              \/ Find(i) = Find(j)
              \/ Find(i) = Find(a) /\ Find(j) = Find(b)
              \/ Find(i) = Find(b) /\ Find(j) = Find(a),
         LeastCongruence \subseteq LeastCongruence',
         Congruence(Ids', terms', asserted', LeastCongruence'),
         <<Find(a), Find(b)>> \in LeastCongruence'
  PROVE  Equivalence' \subseteq LeastCongruence'
<1> DEFINE R == LeastCongruence'
<1>1. /\ \A i, j \in Ids : <<i, j>> \in R => <<j, i>> \in R
      /\ \A i, j, k \in Ids : <<i, j>> \in R /\ <<j, k>> \in R => <<i, k>> \in R
  BY DEF Congruence
<1>2. \A i \in Ids : Find(i) \in Ids /\ Find(Find(i)) = Find(i)
  BY IdFacts
<1>3. \A i \in Ids : <<i, Find(i)>> \in R
  <2>1. \A i \in Ids : <<i, Find(i)>> \in Equivalence
    BY <1>2 DEF Equivalence, Same
  <2> QED BY <2>1
<1>4. <<Find(a), Find(b)>> \in R
  OBVIOUS
<1> HIDE DEF R
<1>5. <<Find(b), Find(a)>> \in R
  BY <1>1, <1>2, <1>4
<1>6. ASSUME NEW i \in Ids, NEW j \in Ids, FindIn(parents', i) = FindIn(parents', j)
      PROVE  <<i, j>> \in R
  <2>1. <<i, Find(i)>> \in R /\ <<Find(j), j>> \in R /\ Find(i) \in Ids /\ Find(j) \in Ids
    BY <1>1, <1>2, <1>3
  <2>2. Find(i) = Find(j) \/ <<Find(i), Find(j)>> \in R
    BY <1>4, <1>5, <1>6
  <2>3. <<i, Find(j)>> \in R
    BY <1>1, <2>1, <2>2
  <2> QED BY <1>1, <2>1, <2>3
<1>7. Equivalence' \subseteq R
  BY <1>6 DEF Equivalence, Same, Find
<1> QED BY <1>7 DEF R

-----------------------------------------------------------------------------
(* The steps *)

\* union() of two classes.
LEMMA UnionKeepsIInv == ASSUME IInv, Union PROVE IInv'
<1>1. PICK a \in Ids, b \in Ids :
        /\ parents' = Hang(parents, a, b)
        /\ classes' = Gather(classes, parents, a, b)
        /\ asserted' = asserted \cup {<<Find(a), Find(b)>>}
  BY DEF Union
<1>2. /\ pc = "idle" /\ dirty' = TRUE
      /\ memo' = memo /\ pc' = pc /\ merges' = merges /\ terms' = terms
  BY DEF Union
<1>3. Shape /\ ClassesHoldTerms /\ MemoHoldsTerms
  BY DEF IInv
<1>4. /\ Ids' = Ids /\ parents' \in Seq(Nat) /\ Forest(parents')
      /\ DOMAIN classes' = {id \in Ids : parents'[id] = id}
      /\ \A c \in DOMAIN classes' :
           IsFiniteSet(classes'[c]) /\ \A n \in classes'[c] : NodeOver(n, Ids)
      /\ Len(terms') = Len(parents')
      /\ ClassesHoldTerms' /\ MemoHoldsTerms'
      /\ \A i, j \in Ids : Find(i) = Find(j) => FindIn(parents', i) = FindIn(parents', j)
      /\ \A i, j \in Ids : FindIn(parents', i) = FindIn(parents', j) =>
           \/ Find(i) = Find(j)
           \/ Find(i) = Find(a) /\ Find(j) = Find(b)
           \/ Find(i) = Find(b) /\ Find(j) = Find(a)
      /\ FindIn(parents', Find(a)) = FindIn(parents', Find(b))
  BY <1>1, <1>2, <1>3, HangKeepsTerms
<1>5. \A i \in Ids : Find(i) \in Ids
  BY <1>3, IdFacts
<1>6. asserted' \subseteq Ids \X Ids
  BY <1>1, <1>3, <1>5 DEF Shape
<1>7. Shape'
  BY <1>2, <1>3, <1>4, <1>6 DEF Shape
<1>8. AssertedAreMerged'
  <2>1. \A p \in asserted : FindIn(parents', p[1]) = FindIn(parents', p[2])
    <3>1. \A p \in asserted : p[1] \in Ids /\ p[2] \in Ids /\ Find(p[1]) = Find(p[2])
      BY DEF IInv, AssertedAreMerged, Equivalence, Same
    <3> QED BY <1>4, <3>1
  <2>2. \A p \in asserted' : FindIn(parents', p[1]) = FindIn(parents', p[2])
    BY <1>1, <1>4, <2>1
  <2> QED BY <1>4, <1>6, <2>2 DEF AssertedAreMerged, Equivalence, Same, Find
<1>9. /\ LeastCongruence \subseteq LeastCongruence'
      /\ Congruence(Ids', terms', asserted', LeastCongruence')
  BY <1>1, <1>2, <1>3, <1>4, <1>7, ForcedGrows
<1>10. <<Find(a), Find(b)>> \in LeastCongruence'
  BY <1>1, <1>9 DEF Congruence
<1>11. Equivalence' \subseteq LeastCongruence'
  <2>1. Equivalence \subseteq LeastCongruence
    BY DEF IInv, OnlyForced
  <2> QED BY <1>3, <1>4, <1>9, <1>10, <2>1, HangIsForced
<1>12. OnlyForced'
  BY <1>2, <1>9, <1>11 DEF IInv, OnlyForced
<1>13. Restored'
  BY <1>2 DEF Restored
<1> QED BY <1>4, <1>7, <1>8, <1>12, <1>13 DEF IInv

\* One merge of the scan, performed.
LEMMA MergeNextKeepsIInv == ASSUME IInv, MergeNext PROVE IInv'
<1> DEFINE a == merges[1][1]
           b == merges[1][2]
<1>1. /\ merges # <<>> /\ merges' = Tail(merges)
      /\ parents' = Hang(parents, a, b) /\ classes' = Gather(classes, parents, a, b)
      /\ memo' = memo /\ pc' = pc /\ dirty' = dirty /\ asserted' = asserted /\ terms' = terms
  BY DEF MergeNext
<1>2. Shape /\ ClassesHoldTerms /\ MemoHoldsTerms
  BY DEF IInv
<1>3. merges \in Seq(Ids \X Ids) /\ pc = "rebuilding" /\ dirty
  BY <1>1, <1>2 DEF Shape
<1>4. /\ 1 \in DOMAIN merges /\ merges[1] \in Ids \X Ids
      /\ Tail(merges) \in Seq(Ids \X Ids)
      /\ \A k \in DOMAIN Tail(merges) : k + 1 \in DOMAIN merges /\ Tail(merges)[k] = merges[k + 1]
  BY <1>1, <1>3
<1>5. a \in Ids /\ b \in Ids /\ merges[1] = <<a, b>>
  BY <1>4
<1> HIDE DEF a, b
<1>6. /\ Ids' = Ids /\ parents' \in Seq(Nat) /\ Forest(parents')
      /\ DOMAIN classes' = {id \in Ids : parents'[id] = id}
      /\ \A c \in DOMAIN classes' :
           IsFiniteSet(classes'[c]) /\ \A n \in classes'[c] : NodeOver(n, Ids)
      /\ Len(terms') = Len(parents')
      /\ ClassesHoldTerms' /\ MemoHoldsTerms'
      /\ \A i, j \in Ids : Find(i) = Find(j) => FindIn(parents', i) = FindIn(parents', j)
      /\ \A i, j \in Ids : FindIn(parents', i) = FindIn(parents', j) =>
           \/ Find(i) = Find(j)
           \/ Find(i) = Find(a) /\ Find(j) = Find(b)
           \/ Find(i) = Find(b) /\ Find(j) = Find(a)
  BY <1>1, <1>2, <1>5, HangKeepsTerms
<1>7. Shape'
  BY <1>1, <1>2, <1>3, <1>4, <1>6 DEF Shape
<1>8. AssertedAreMerged'
  <2>1. \A p \in asserted : p[1] \in Ids /\ p[2] \in Ids /\ Find(p[1]) = Find(p[2])
    BY DEF IInv, AssertedAreMerged, Equivalence, Same
  <2>2. \A p \in asserted : FindIn(parents', p[1]) = FindIn(parents', p[2])
    BY <1>6, <2>1
  <2>3. asserted \subseteq Ids \X Ids
    BY <1>2 DEF Shape
  <2> QED BY <1>1, <1>6, <2>2, <2>3 DEF AssertedAreMerged, Equivalence, Same, Find
<1>9. /\ LeastCongruence \subseteq LeastCongruence'
      /\ Congruence(Ids', terms', asserted', LeastCongruence')
  BY <1>1, <1>2, <1>6, <1>7, ForcedGrows
<1>10. /\ Equivalence \subseteq LeastCongruence
       /\ \A k \in DOMAIN merges : merges[k] \in LeastCongruence
  BY DEF IInv, OnlyForced
<1>11. <<Find(a), Find(b)>> \in LeastCongruence'
  <2>1. Find(a) \in Ids /\ Find(b) \in Ids /\ Find(Find(a)) = Find(a) /\ Find(Find(b)) = Find(b)
    BY <1>2, <1>5, IdFacts
  <2>2. <<Find(a), a>> \in Equivalence /\ <<b, Find(b)>> \in Equivalence
    BY <1>5, <2>1 DEF Equivalence, Same
  <2>3. /\ <<Find(a), a>> \in LeastCongruence' /\ <<b, Find(b)>> \in LeastCongruence'
        /\ <<a, b>> \in LeastCongruence'
    BY <1>4, <1>5, <1>9, <1>10, <2>2
  <2> QED BY <1>5, <1>6, <1>9, <2>1, <2>3 DEF Congruence
<1>12. Equivalence' \subseteq LeastCongruence'
  BY <1>2, <1>5, <1>6, <1>9, <1>10, <1>11, HangIsForced
<1>13. OnlyForced'
  BY <1>1, <1>4, <1>9, <1>10, <1>12 DEF OnlyForced
<1>14. Restored'
  BY <1>1, <1>3 DEF Restored
<1> QED BY <1>6, <1>7, <1>8, <1>13, <1>14 DEF IInv

\* A request is an e-node over the ids that exist.
LEMMA RequestsAreNodes ==
  \A n : n \in Requests <=> NodeOver(n, Ids)
<1>1. ASSUME NEW n \in Requests PROVE NodeOver(n, Ids)
  BY DEF Requests, NodeOver
<1>2. ASSUME NEW n, NodeOver(n, Ids) PROVE n \in Requests
  <2>1. [op |-> n.op, children |-> n.children] \in [op : {n.op}, children : [1..Arity[n.op] -> Ids]]
    BY <1>2 DEF NodeOver
  <2> QED BY <1>2, <2>1 DEF NodeOver, Requests
<1> QED BY <1>1, <1>2

\* A canonical form depends on the roots of the children only.
LEMMA CanonStays ==
  ASSUME NEW p, NEW q, \A i \in DOMAIN p : FindIn(q, i) = FindIn(p, i),
         NEW n, NodeOver(n, DOMAIN p)
  PROVE  CanonIn(q, n) = CanonIn(p, n)
<1> DEFINE f == [k \in DOMAIN n.children |-> FindIn(q, n.children[k])]
           g == [k \in DOMAIN n.children |-> FindIn(p, n.children[k])]
<1>1. \A k \in DOMAIN n.children : n.children[k] \in DOMAIN p
  BY DEF NodeOver
<1>2. f = g
  BY <1>1
<1> HIDE DEF f, g
<1>3. [n EXCEPT !.children = f] = [n EXCEPT !.children = g]
  BY <1>2
<1> QED BY <1>3 DEF CanonIn, f, g

\* add() of a term the table does not hold.
LEMMA AddFreshKeepsIInv == ASSUME IInv, pc = "idle", NEW n \in Requests, AddFresh(n) PROVE IInv'
<1> DEFINE id == Len(parents) + 1
           key == LookupKey(n)
           p == parents
           q == parents'
<1>1. /\ key \notin DOMAIN memo
      /\ q = Append(p, id)
      /\ classes' = With(classes, id, {key}) /\ memo' = With(memo, key, id)
      /\ terms' = Append(terms, n)
      /\ pc' = pc /\ merges' = merges /\ dirty' = dirty /\ asserted' = asserted
  BY DEF AddFresh, Held
<1>2. Shape /\ ClassesHoldTerms /\ MemoHoldsTerms /\ AssertedAreMerged /\ OnlyForced /\ Restored
  BY DEF IInv
<1>3. Ids = DOMAIN p /\ Forest(p) /\ p \in Seq(Nat) /\ Ids = 1..Len(p) /\ Len(p) \in Nat
      /\ Ids \subseteq Nat
  BY <1>2, IdFacts DEF Shape, Ids
<1>4. /\ q \in Seq(Nat) /\ Forest(q)
      /\ DOMAIN q = Ids \cup {id} /\ id \notin Ids
      /\ q[id] = id /\ FindIn(q, id) = id
      /\ \A i \in Ids : q[i] = p[i] /\ FindIn(q, i) = FindIn(p, i)
  <2>1. q = Append(p, id) /\ id = Len(p) + 1
    BY <1>1
  <2> HIDE DEF p, q, id
  <2>2. Extended(p, q, id)
    BY <1>3, <2>1, AppendIsForest
  <2> QED BY <1>3, <2>2 DEF Extended
<1>5. Ids' = Ids \cup {id}
  BY <1>4 DEF Ids
<1>6. NodeOver(n, Ids)
  BY RequestsAreNodes
<1>7. /\ NodeOver(key, Ids) /\ Alike(p, key, n) /\ CanonIn(p, key) = key
  BY <1>3, <1>6, CanonFacts DEF LookupKey
<1>8. /\ DOMAIN classes' = DOMAIN classes \cup {id} /\ classes'[id] = {key}
      /\ \A c \in DOMAIN classes : c # id => classes'[c] = classes[c]
      /\ DOMAIN memo' = DOMAIN memo \cup {key} /\ memo'[key] = id
      /\ \A m \in DOMAIN memo : m # key => memo'[m] = memo[m]
  <2> HIDE DEF id, key
  <2> QED BY <1>1 DEF With
<1>9. /\ terms \in Seq([op : Symbols, children : Seq(Nat)]) /\ Len(terms) = Len(p)
      /\ DOMAIN classes = {i \in Ids : p[i] = i}
      /\ \A c \in DOMAIN classes :
           IsFiniteSet(classes[c]) /\ \A m \in classes[c] : NodeOver(m, Ids)
      /\ \A m \in DOMAIN memo : NodeOver(m, Ids) /\ memo[m] \in Ids
      /\ \A i \in Ids : NodeOver(terms[i], Ids)
      /\ asserted \subseteq Ids \X Ids /\ merges \in Seq(Ids \X Ids)
      /\ (merges # <<>> => pc = "rebuilding" /\ dirty)
  BY <1>2 DEF Shape
<1>10. n \in [op : Symbols, children : Seq(Nat)]
  <2>1. Arity[n.op] \in Nat
    BY <1>6, ArityAssumption DEF NodeOver, Symbols
  <2>2. n.children \in [1..Arity[n.op] -> Nat]
    BY <1>3, <1>6 DEF NodeOver
  <2>3. n.children \in Seq(Nat)
    BY <2>1, <2>2
  <2> QED BY <1>6, <2>3 DEF NodeOver
<1>11. /\ terms' \in Seq([op : Symbols, children : Seq(Nat)]) /\ Len(terms') = Len(q)
       /\ terms'[id] = n /\ \A i \in Ids : terms'[i] = terms[i]
  <2>1. Len(q) = Len(p) + 1
    BY <1>1, <1>3
  <2> QED BY <1>1, <1>3, <1>9, <1>10, <2>1
<1> HIDE DEF id, key, p, q
<1>12. \A m : NodeOver(m, Ids) => NodeOver(m, Ids')
  BY <1>5 DEF NodeOver
<1>13. Shape'
  <2>1. DOMAIN classes' = {i \in Ids' : q[i] = i}
    BY <1>4, <1>5, <1>8, <1>9
  <2>2. ASSUME NEW c \in DOMAIN classes'
        PROVE  IsFiniteSet(classes'[c]) /\ \A m \in classes'[c] : NodeOver(m, Ids')
    <3>1. CASE c = id
      BY <1>7, <1>8, <1>12, <3>1, FS_Singleton
    <3>2. CASE c # id
      BY <1>8, <1>9, <1>12, <3>2
    <3> QED BY <3>1, <3>2
  <2>3. \A m \in DOMAIN memo' : NodeOver(m, Ids') /\ memo'[m] \in Ids'
    BY <1>5, <1>7, <1>8, <1>9, <1>12
  <2>4. \A i \in Ids' : NodeOver(terms'[i], Ids')
    BY <1>5, <1>6, <1>9, <1>11, <1>12
  <2>5. asserted' \subseteq Ids' \X Ids' /\ merges' \in Seq(Ids' \X Ids')
    <3>1. Ids \X Ids \subseteq Ids' \X Ids'
      BY <1>5
    <3>2. merges \in Seq(Ids' \X Ids')
      BY <1>9, <3>1, SeqMonotonic
    <3> QED BY <1>1, <1>9, <3>1, <3>2
  <2>6. merges' # <<>> => pc' = "rebuilding" /\ dirty'
    BY <1>1, <1>9
  <2>7. parents' \in Seq(Nat) /\ Forest(parents')
    BY <1>4 DEF q
  <2> QED BY <1>11, <2>1, <2>2, <2>3, <2>4, <2>5, <2>6, <2>7 DEF Shape, q
<1>14. ASSUME NEW m, NEW o, NodeOver(m, Ids), NodeOver(o, Ids)
       PROVE  Alike(q, m, o) <=> Alike(p, m, o)
  BY <1>4, <1>14 DEF Alike, NodeOver
<1>15. \A i \in Ids : FindIn(p, i) \in DOMAIN classes /\ FindIn(p, i) \in Ids /\ FindIn(p, i) # id
  <2>1. \A i \in Ids : FindIn(p, i) \in DOMAIN classes /\ FindIn(p, i) \in Ids
    BY <1>2, IdFacts DEF Find, p
  <2> QED BY <1>4, <2>1
<1>16. ClassesHoldTerms'
  <2>1. ASSUME NEW i \in Ids' PROVE \E m \in classes'[FindIn(q, i)] : Alike(q, m, terms'[i])
    <3>1. CASE i = id
      BY <1>4, <1>6, <1>7, <1>8, <1>11, <1>14, <3>1
    <3>2. CASE i # id
      <4>1. i \in Ids
        BY <1>5, <3>2
      <4>2. PICK m \in classes[FindIn(p, i)] : Alike(p, m, terms[i])
        BY <1>2, <4>1 DEF ClassesHoldTerms, Find, p
      <4>3. m \in classes'[FindIn(q, i)] /\ NodeOver(m, Ids)
        BY <1>4, <1>8, <1>9, <1>15, <4>1
      <4> QED BY <1>9, <1>11, <1>14, <4>1, <4>2, <4>3
    <3> QED BY <3>1, <3>2
  <2>2. ASSUME NEW c \in DOMAIN classes', NEW m \in classes'[c]
        PROVE  \E i \in Ids' : FindIn(q, i) = c /\ Alike(q, m, terms'[i])
    <3>1. CASE c = id
      BY <1>4, <1>5, <1>6, <1>7, <1>8, <1>11, <1>14, <3>1
    <3>2. CASE c # id
      <4>1. c \in DOMAIN classes /\ m \in classes[c]
        BY <1>8, <3>2
      <4>2. PICK i \in Ids : FindIn(p, i) = c /\ Alike(p, m, terms[i])
        BY <1>2, <4>1 DEF ClassesHoldTerms, Find, p
      <4>3. FindIn(q, i) = c /\ Alike(q, m, terms'[i])
        BY <1>4, <1>9, <1>11, <1>14, <4>1, <4>2
      <4> QED BY <1>5, <4>3
    <3> QED BY <3>1, <3>2
  <2> QED BY <2>1, <2>2 DEF ClassesHoldTerms, Find, q
<1>17. MemoHoldsTerms'
  <2>1. ASSUME NEW m \in DOMAIN memo'
        PROVE  \E i \in Ids' : FindIn(q, i) = FindIn(q, memo'[m]) /\ Alike(q, m, terms'[i])
    <3>1. CASE m = key
      BY <1>5, <1>6, <1>7, <1>8, <1>11, <1>14, <3>1
    <3>2. CASE m # key
      <4>1. m \in DOMAIN memo /\ memo'[m] = memo[m] /\ memo[m] \in Ids
        BY <1>8, <1>9, <3>2
      <4>2. PICK i \in Ids : FindIn(p, i) = FindIn(p, memo[m]) /\ Alike(p, m, terms[i])
        BY <1>2, <4>1 DEF MemoHoldsTerms, Same, Find, p
      <4>3. FindIn(q, i) = FindIn(q, memo'[m]) /\ Alike(q, m, terms'[i])
        BY <1>4, <1>9, <1>11, <1>14, <4>1, <4>2
      <4> QED BY <1>5, <4>3
    <3> QED BY <3>1, <3>2
  <2> QED BY <2>1 DEF MemoHoldsTerms, Same, Find, q
<1>18. AssertedAreMerged'
  <2>1. \A a \in asserted : a[1] \in Ids /\ a[2] \in Ids /\ FindIn(p, a[1]) = FindIn(p, a[2])
    BY <1>2 DEF AssertedAreMerged, Equivalence, Same, Find, p
  <2>2. \A a \in asserted' : FindIn(q, a[1]) = FindIn(q, a[2])
    BY <1>1, <1>4, <2>1
  <2>3. asserted' \subseteq Ids' \X Ids'
    BY <1>13 DEF Shape
  <2> QED BY <2>2, <2>3 DEF AssertedAreMerged, Equivalence, Same, Find, q
<1>19. /\ LeastCongruence \subseteq LeastCongruence'
       /\ Congruence(Ids', terms', asserted', LeastCongruence')
  BY <1>1, <1>2, <1>5, <1>11, <1>13, ForcedGrows
<1>20. OnlyForced'
  <2>1. ASSUME NEW i \in Ids', NEW j \in Ids', FindIn(q, i) = FindIn(q, j)
        PROVE  <<i, j>> \in LeastCongruence'
    <3>1. CASE i \in Ids /\ j \in Ids
      <4>1. <<i, j>> \in Equivalence
        BY <1>4, <2>1, <3>1 DEF Equivalence, Same, Find, p
      <4> QED BY <1>2, <1>19, <4>1 DEF OnlyForced
    <3>2. CASE i = j
      BY <1>19, <3>2 DEF Congruence
    <3>3. \/ i \in Ids /\ j \in Ids
          \/ i = j
      BY <1>4, <1>5, <1>15, <2>1
    <3> QED BY <3>1, <3>2, <3>3
  <2>2. Equivalence' \subseteq LeastCongruence'
    BY <2>1 DEF Equivalence, Same, Find, q
  <2>3. \A k \in DOMAIN merges' : merges'[k] \in LeastCongruence'
    BY <1>1, <1>2, <1>19 DEF OnlyForced
  <2> QED BY <2>2, <2>3 DEF OnlyForced
<1>21. Restored'
  <2>1. SUFFICES ASSUME ~ dirty
        PROVE  /\ \A c \in DOMAIN classes' : \A m \in classes'[c] : CanonIn(q, m) = m
               /\ \A c, d \in DOMAIN classes' : c # d => classes'[c] \cap classes'[d] = {}
               /\ DOMAIN memo' = UNION {classes'[c] : c \in DOMAIN classes'}
               /\ \A m \in DOMAIN memo' : m \in classes'[FindIn(q, memo'[m])]
    BY <1>1 DEF Restored, Find, q
  <2>2. /\ \A c \in DOMAIN classes : \A m \in classes[c] : CanonIn(p, m) = m
        /\ \A c, d \in DOMAIN classes : c # d => classes[c] \cap classes[d] = {}
        /\ DOMAIN memo = UNION {classes[c] : c \in DOMAIN classes}
        /\ \A m \in DOMAIN memo : m \in classes[FindIn(p, memo[m])]
    BY <1>2, <2>1 DEF Restored, Find, p
  <2>3. \A m : NodeOver(m, Ids) => CanonIn(q, m) = CanonIn(p, m)
    BY <1>3, <1>4, CanonStays
  <2>4. \A c \in DOMAIN classes : c # id /\ classes'[c] = classes[c] /\ key \notin classes[c]
    <3> TAKE c \in DOMAIN classes
    <3>1. c # id
      BY <1>4, <1>9
    <3>2. key \notin classes[c]
      BY <1>1, <2>2 DEF key
    <3> QED BY <1>8, <3>1, <3>2
  <2>5. \A c \in DOMAIN classes' : \A m \in classes'[c] : CanonIn(q, m) = m
    BY <1>7, <1>8, <1>9, <2>2, <2>3, <2>4
  <2>6. \A c, d \in DOMAIN classes' : c # d => classes'[c] \cap classes'[d] = {}
    BY <1>8, <2>2, <2>4
  <2>7. DOMAIN memo' = UNION {classes'[c] : c \in DOMAIN classes'}
    BY <1>8, <2>2, <2>4
  <2>8. ASSUME NEW m \in DOMAIN memo' PROVE m \in classes'[FindIn(q, memo'[m])]
    <3>1. CASE m = key
      BY <1>4, <1>8, <3>1
    <3>2. CASE m # key
      <4>1. m \in DOMAIN memo /\ memo'[m] = memo[m] /\ memo[m] \in Ids
        BY <1>8, <1>9, <3>2
      <4>2. FindIn(q, memo[m]) = FindIn(p, memo[m]) /\ FindIn(p, memo[m]) \in DOMAIN classes
        BY <1>4, <1>15, <4>1
      <4> QED BY <2>2, <2>4, <4>1, <4>2
    <3> QED BY <3>1, <3>2
  <2> QED BY <2>5, <2>6, <2>7, <2>8
<1> QED BY <1>13, <1>16, <1>17, <1>18, <1>20, <1>21 DEF IInv

\* A scan keeps the classes under their roots, with canonical e-nodes.
LEMMA CanonicalisedFacts ==
  ASSUME Shape
  PROVE  /\ DOMAIN Canonicalised = DOMAIN classes
         /\ \A c \in DOMAIN classes : IsFiniteSet(Canonicalised[c])
         /\ \A c \in DOMAIN classes : \A n :
              n \in Canonicalised[c] <=> \E m \in classes[c] : n = CanonIn(parents, m)
         /\ \A c \in DOMAIN classes : \A n \in Canonicalised[c] :
              NodeOver(n, Ids) /\ CanonIn(parents, n) = n
<1> DEFINE p == parents
           cs == [id \in DOMAIN classes |-> {CanonIn(parents, n) : n \in classes[id]}]
           G == ByRoot(cs, p)
<1>1. Canonicalised = G /\ DOMAIN cs = DOMAIN classes
  BY DEF Canonicalised
<1>2. \A c \in DOMAIN classes : \A n : n \in cs[c] <=> \E m \in classes[c] : n = CanonIn(p, m)
  OBVIOUS
<1>3. /\ Forest(p) /\ Ids = DOMAIN p
      /\ \A c \in DOMAIN classes :
           IsFiniteSet(classes[c]) /\ \A n \in classes[c] : NodeOver(n, Ids)
  BY DEF Shape, Ids
<1>4. IsFiniteSet(DOMAIN classes) /\ \A c \in DOMAIN classes : FindIn(p, c) = c
  BY IdFacts
<1>5. ASSUME NEW c \in DOMAIN classes PROVE IsFiniteSet(cs[c])
  <2> DEFINE f == [n \in classes[c] |-> CanonIn(p, n)]
             T == cs[c]
  <2>1. f \in Surjection(classes[c], T)
    BY DEF Surjection
  <2> HIDE DEF f, T
  <2>2. IsFiniteSet(T)
    BY <1>3, <2>1, FS_Surjection
  <2> QED BY <2>2 DEF T
<1> HIDE DEF cs, p
<1>6. \A r : r \in DOMAIN G <=> \E c \in DOMAIN cs : FindIn(p, c) = r
  BY ByRootFacts
<1>7. \A r \in DOMAIN G : \A n :
        n \in G[r] <=> \E c \in DOMAIN cs : FindIn(p, c) = r /\ n \in cs[c]
  BY ByRootFacts
<1>8. \A r \in DOMAIN G : IsFiniteSet(G[r])
  BY <1>1, <1>4, <1>5, ByRootFacts
<1> HIDE DEF G
<1>9. DOMAIN G = DOMAIN classes
  BY <1>1, <1>4, <1>6
<1>10. \A c \in DOMAIN classes : \A n : n \in G[c] <=> \E m \in classes[c] : n = CanonIn(p, m)
  BY <1>1, <1>2, <1>4, <1>7, <1>9
<1>11. \A c \in DOMAIN classes : \A n \in G[c] : NodeOver(n, Ids) /\ CanonIn(p, n) = n
  BY <1>3, <1>10, CanonFacts
<1> QED BY <1>1, <1>8, <1>9, <1>10, <1>11 DEF p

\* A scan, with the merges it finds or the table it ends with.
LEMMA ScanKeepsIInv == ASSUME IInv, Scan PROVE IInv'
<1> DEFINE fresh == Canonicalised
           p == parents
           shared == {c \in DOMAIN fresh :
                        \E d \in DOMAIN fresh \ {c} : fresh[c] \cap fresh[d] # {}}
<1>1. /\ pc = "rebuilding" /\ merges = <<>> /\ classes' = fresh
      /\ parents' = parents /\ asserted' = asserted /\ terms' = terms
      /\ IF shared = {}
         THEN memo' = MemoOf(fresh) /\ pc' = "idle" /\ dirty' = FALSE /\ merges' = merges
         ELSE /\ \E order \in SetToSeqs(shared) : merges' = MergesOf(fresh, order)
              /\ memo' = memo /\ pc' = pc /\ dirty' = dirty
  BY DEF Scan
<1>2. Shape /\ ClassesHoldTerms /\ MemoHoldsTerms /\ AssertedAreMerged /\ OnlyForced /\ Restored
  BY DEF IInv
<1>3. /\ DOMAIN fresh = DOMAIN classes
      /\ \A c \in DOMAIN classes : IsFiniteSet(fresh[c])
      /\ \A c \in DOMAIN classes : \A n :
           n \in fresh[c] <=> \E m \in classes[c] : n = CanonIn(p, m)
      /\ \A c \in DOMAIN classes : \A n \in fresh[c] : NodeOver(n, Ids) /\ CanonIn(p, n) = n
  BY <1>2, CanonicalisedFacts
<1>4. /\ Ids' = Ids /\ Ids \subseteq Nat /\ Ids = DOMAIN p /\ Forest(p)
      /\ DOMAIN classes \in SUBSET Ids /\ IsFiniteSet(DOMAIN classes)
      /\ \A c \in DOMAIN classes : \A n \in classes[c] : NodeOver(n, Ids)
      /\ \A i \in Ids : NodeOver(terms[i], Ids)
      /\ \A i \in Ids : FindIn(p, i) \in DOMAIN classes
      /\ \A c \in DOMAIN classes : FindIn(p, c) = c
  BY <1>1, <1>2, IdFacts DEF Shape, Ids, Find
<1> HIDE DEF fresh, p
<1>5. ASSUME NEW c \in DOMAIN classes, NEW n \in fresh[c]
      PROVE  \E i \in Ids : FindIn(p, i) = c /\ Alike(p, n, terms[i])
  <2>1. PICK m \in classes[c] : n = CanonIn(p, m)
    BY <1>3
  <2>2. PICK i \in Ids : FindIn(p, i) = c /\ Alike(p, m, terms[i])
    BY <1>2 DEF ClassesHoldTerms, Find, p
  <2>3. Alike(p, n, m)
    BY <1>4, <2>1, CanonFacts
  <2>4. Alike(p, n, terms[i])
    BY <2>2, <2>3, AlikeFacts
  <2> QED BY <2>2, <2>4
<1>6. ASSUME NEW i \in Ids PROVE \E n \in fresh[FindIn(p, i)] : Alike(p, n, terms[i])
  <2>1. PICK m \in classes[FindIn(p, i)] : Alike(p, m, terms[i])
    BY <1>2 DEF ClassesHoldTerms, Find, p
  <2>2. FindIn(p, i) \in DOMAIN classes /\ NodeOver(m, Ids)
    BY <1>4
  <2>3. CanonIn(p, m) \in fresh[FindIn(p, i)]
    BY <1>3, <2>2
  <2>4. Alike(p, CanonIn(p, m), m)
    BY <1>4, <2>2, CanonFacts
  <2>5. Alike(p, CanonIn(p, m), terms[i])
    BY <2>1, <2>4, AlikeFacts
  <2> QED BY <2>3, <2>5
<1>7. ClassesHoldTerms'
  BY <1>1, <1>3, <1>4, <1>5, <1>6 DEF ClassesHoldTerms, Find, p
<1>8. AssertedAreMerged' /\ Equivalence' = Equivalence
  BY <1>1, <1>2, <1>4 DEF AssertedAreMerged, Equivalence, Same, Find
<1>9. /\ Equivalence \subseteq LeastCongruence
      /\ Congruence(Ids, terms, asserted, LeastCongruence)
  BY <1>2, ForcedIsCongruence DEF OnlyForced
<1>10. LeastCongruence' = LeastCongruence
  <2>1. Iteration(Ids', terms', asserted') = Iteration(Ids, terms, asserted)
    BY <1>1, <1>4
  <2> QED BY <2>1, LeastIs
<1>11. ASSUME NEW c \in DOMAIN classes, NEW d \in DOMAIN classes, fresh[c] \cap fresh[d] # {}
       PROVE  <<c, d>> \in LeastCongruence
  <2>1. PICK n : n \in fresh[c] /\ n \in fresh[d]
    BY <1>11
  <2>2. PICK i \in Ids : FindIn(p, i) = c /\ Alike(p, n, terms[i])
    BY <1>5, <2>1
  <2>3. PICK j \in Ids : FindIn(p, j) = d /\ Alike(p, n, terms[j])
    BY <1>5, <2>1
  <2>4. Alike(p, terms[i], terms[j])
    BY <2>2, <2>3, AlikeFacts
  <2>5. /\ terms[i].op = terms[j].op
        /\ DOMAIN terms[i].children = 1..Arity[terms[i].op]
        /\ DOMAIN terms[j].children = 1..Arity[terms[i].op]
        /\ \A k \in 1..Arity[terms[i].op] :
             /\ terms[i].children[k] \in Ids /\ terms[j].children[k] \in Ids
             /\ FindIn(p, terms[i].children[k]) = FindIn(p, terms[j].children[k])
    BY <1>4, <2>4 DEF Alike, NodeOver
  <2>6. \A k \in 1..Arity[terms[i].op] :
          <<terms[i].children[k], terms[j].children[k]>> \in LeastCongruence
    BY <1>9, <2>5 DEF Equivalence, Same, Find, p
  <2>7. <<i, j>> \in LeastCongruence
    BY <1>9, <2>5, <2>6 DEF Congruence
  <2>8. c \in Ids /\ d \in Ids /\ FindIn(p, c) = c /\ FindIn(p, d) = d
    BY <1>4
  <2>9. <<c, i>> \in LeastCongruence /\ <<j, d>> \in LeastCongruence
    BY <1>9, <2>2, <2>3, <2>8 DEF Equivalence, Same, Find, p
  <2> QED BY <1>9, <2>7, <2>8, <2>9 DEF Congruence
<1>12. CASE shared = {}
  <2>1. /\ memo' = MemoOf(fresh) /\ pc' = "idle" /\ dirty' = FALSE /\ merges' = <<>>
    BY <1>1, <1>12
  <2>2. \A c, d \in DOMAIN fresh : c # d => fresh[c] \cap fresh[d] = {}
    BY <1>12
  <2>3. /\ DOMAIN memo' = UNION {fresh[c] : c \in DOMAIN fresh}
        /\ \A n \in DOMAIN memo' : memo'[n] \in DOMAIN fresh /\ n \in fresh[memo'[n]]
    BY <2>1 DEF MemoOf
  <2>4. \A n \in DOMAIN memo' : NodeOver(n, Ids) /\ memo'[n] \in Ids /\ FindIn(p, memo'[n]) = memo'[n]
    BY <1>3, <1>4, <2>3
  <2>5. Shape'
    BY <1>1, <1>2, <1>3, <1>4, <2>1, <2>4 DEF Shape
  <2>6. MemoHoldsTerms'
    <3>1. ASSUME NEW n \in DOMAIN memo'
          PROVE  \E i \in Ids : FindIn(p, i) = FindIn(p, memo'[n]) /\ Alike(p, n, terms[i])
      BY <1>3, <1>5, <2>3, <2>4
    <3> QED BY <1>1, <1>4, <3>1 DEF MemoHoldsTerms, Same, Find, p
  <2>7. OnlyForced'
    BY <1>8, <1>9, <1>10, <2>1 DEF OnlyForced
  <2>8. Restored'
    BY <1>1, <1>3, <2>2, <2>3, <2>4 DEF Restored, Find, p
  <2> QED BY <1>7, <1>8, <2>5, <2>6, <2>7, <2>8 DEF IInv
<1>13. CASE shared # {}
  <2>1. PICK order \in SetToSeqs(shared) : merges' = MergesOf(fresh, order)
    BY <1>1, <1>13
  <2>2. memo' = memo /\ pc' = pc /\ dirty' = dirty
    BY <1>1, <1>13
  <2>3. order \in Seq(DOMAIN fresh)
    <3>1. shared \in SUBSET (DOMAIN fresh)
      OBVIOUS
    <3> HIDE DEF shared
    <3>2. Cardinality(shared) \in Nat
      BY <1>3, <1>4, <3>1, FS_Subset, FS_CardinalityType
    <3>3. order \in [1..Cardinality(shared) -> shared]
      BY DEF SetToSeqs
    <3> QED BY <3>1, <3>2, <3>3
  <2>4. merges' \in Seq(Sharing(fresh))
    <3> HIDE DEF shared
    <3> QED BY <1>3, <1>4, <2>1, <2>3, MergesShare
  <2>5. Sharing(fresh) \subseteq Ids \X Ids /\ Sharing(fresh) \subseteq LeastCongruence
    <3>1. ASSUME NEW s \in Sharing(fresh) PROVE s \in Ids \X Ids /\ s \in LeastCongruence
      <4>1. PICK c \in DOMAIN classes, d \in DOMAIN classes : s = <<c, d>>
        BY <1>3 DEF Sharing
      <4>2. fresh[c] \cap fresh[d] # {}
        BY <4>1 DEF Sharing
      <4> QED BY <1>4, <1>11, <4>1, <4>2
    <3> QED BY <3>1
  <2>6. /\ merges' \in Seq(Ids \X Ids)
        /\ \A k \in DOMAIN merges' : merges'[k] \in LeastCongruence
    BY <2>4, <2>5
  <2>7. dirty
    <3>1. SUFFICES ASSUME ~ dirty PROVE FALSE
      BY <1>2 DEF Restored
    <3>2. PICK c \in DOMAIN fresh, d \in DOMAIN fresh : c # d /\ fresh[c] \cap fresh[d] # {}
      BY <1>13
    <3>3. PICK n : n \in fresh[c] /\ n \in fresh[d]
      BY <3>2
    <3>4. /\ \A e \in DOMAIN classes : \A m \in classes[e] : CanonIn(p, m) = m
          /\ \A e, f \in DOMAIN classes : e # f => classes[e] \cap classes[f] = {}
      BY <1>2, <3>1 DEF Restored, p
    <3>5. n \in classes[c] /\ n \in classes[d]
      BY <1>3, <3>3, <3>4
    <3> QED BY <1>3, <3>2, <3>4, <3>5
  <2>8. Shape'
    BY <1>1, <1>2, <1>3, <1>4, <2>2, <2>6, <2>7 DEF Shape
  <2>9. MemoHoldsTerms'
    BY <1>1, <1>2, <1>4, <2>2 DEF MemoHoldsTerms, Same, Find
  <2>10. OnlyForced'
    BY <1>8, <1>9, <1>10, <2>6 DEF OnlyForced
  <2>11. Restored'
    BY <2>2, <2>7 DEF Restored
  <2> QED BY <1>7, <1>8, <2>8, <2>9, <2>10, <2>11 DEF IInv
<1> QED BY <1>12, <1>13

\* The empty e-graph.
LEMMA InitIInv == Init => IInv
<1> SUFFICES ASSUME Init PROVE IInv
  OBVIOUS
<1>1. /\ parents = <<>> /\ classes = <<>> /\ memo = <<>> /\ pc = "idle" /\ merges = <<>>
      /\ dirty = FALSE /\ asserted = {} /\ terms = <<>>
  BY DEF Init
<1>2. Ids = {} /\ DOMAIN classes = {} /\ DOMAIN memo = {}
  BY <1>1 DEF Ids
<1>3. Forest(parents)
  <2> DEFINE f == [i \in DOMAIN parents |-> i]
  <2>1. f \in [DOMAIN parents -> DOMAIN parents] /\ Finds(parents, f)
    BY <1>1 DEF Finds
  <2>2. parents \in [DOMAIN parents -> DOMAIN parents]
    BY <1>1
  <2>3. DOMAIN parents = {}
    BY <1>1
  <2> HIDE DEF f
  <2> QED BY <2>1, <2>2, <2>3 DEF Forest
<1>4. Shape
  BY <1>1, <1>2, <1>3 DEF Shape
<1>5. ClassesHoldTerms /\ MemoHoldsTerms /\ AssertedAreMerged
  BY <1>1, <1>2 DEF ClassesHoldTerms, MemoHoldsTerms, AssertedAreMerged
<1>6. OnlyForced
  BY <1>1, <1>2 DEF OnlyForced, Equivalence
<1>7. Restored
  BY <1>1, <1>2 DEF Restored
<1> QED BY <1>4, <1>5, <1>6, <1>7 DEF IInv

\* Nothing changes: a stuttering step, an add() the table answers.
LEMMA StutterKeepsIInv == ASSUME IInv, UNCHANGED vars PROVE IInv'
<1>1. /\ parents' = parents /\ classes' = classes /\ memo' = memo /\ pc' = pc
      /\ merges' = merges /\ dirty' = dirty /\ asserted' = asserted /\ terms' = terms
  BY DEF vars
<1>2. Shape'
  BY <1>1 DEF IInv, Shape, Ids
<1>3. ClassesHoldTerms'
  BY <1>1 DEF IInv, ClassesHoldTerms, Ids, Find
<1>4. MemoHoldsTerms'
  BY <1>1 DEF IInv, MemoHoldsTerms, Ids, Find, Same
<1>5. AssertedAreMerged'
  BY <1>1 DEF IInv, AssertedAreMerged, Equivalence, Ids, Find, Same
<1>6. OnlyForced'
  <2>1. Equivalence' = Equivalence
    BY <1>1 DEF Equivalence, Ids, Find, Same
  <2>2. LeastCongruence' = LeastCongruence
    <3>1. Iteration(Ids', terms', asserted') = Iteration(Ids, terms, asserted)
      BY <1>1 DEF Ids
    <3> QED BY <3>1, LeastIs
  <2> QED BY <1>1, <2>1, <2>2 DEF IInv, OnlyForced
<1>7. Restored'
  BY <1>1 DEF IInv, Restored, Find
<1> QED BY <1>2, <1>3, <1>4, <1>5, <1>6, <1>7 DEF IInv

\* rebuild() is called.
LEMMA RebuildKeepsIInv == ASSUME IInv, Rebuild PROVE IInv'
<1>1. /\ parents' = parents /\ classes' = classes /\ memo' = memo /\ pc' = "rebuilding"
      /\ merges' = merges /\ dirty' = dirty /\ asserted' = asserted /\ terms' = terms
  BY DEF Rebuild
<1>2. Shape'
  BY <1>1 DEF IInv, Shape, Ids
<1>3. ClassesHoldTerms'
  BY <1>1 DEF IInv, ClassesHoldTerms, Ids, Find
<1>4. MemoHoldsTerms'
  BY <1>1 DEF IInv, MemoHoldsTerms, Ids, Find, Same
<1>5. AssertedAreMerged'
  BY <1>1 DEF IInv, AssertedAreMerged, Equivalence, Ids, Find, Same
<1>6. OnlyForced'
  <2>1. Equivalence' = Equivalence
    BY <1>1 DEF Equivalence, Ids, Find, Same
  <2>2. LeastCongruence' = LeastCongruence
    <3>1. Iteration(Ids', terms', asserted') = Iteration(Ids, terms, asserted)
      BY <1>1 DEF Ids
    <3> QED BY <3>1, LeastIs
  <2> QED BY <1>1, <2>1, <2>2 DEF IInv, OnlyForced
<1>7. Restored'
  BY <1>1 DEF IInv, Restored, Find
<1> QED BY <1>2, <1>3, <1>4, <1>5, <1>6, <1>7 DEF IInv

\* Every step keeps the inductive invariant.
LEMMA NextKeepsIInv == IInv /\ [Next]_vars => IInv'
<1> SUFFICES ASSUME IInv, [Next]_vars PROVE IInv'
  OBVIOUS
<1>1. CASE Add
  <2>1. PICK n \in Requests : (Held(n) /\ UNCHANGED vars) \/ AddFresh(n)
    BY <1>1 DEF Add
  <2>2. pc = "idle"
    BY <1>1 DEF Add
  <2> QED BY <2>1, <2>2, StutterKeepsIInv, AddFreshKeepsIInv
<1>2. CASE Union
  BY <1>2, UnionKeepsIInv
<1>3. CASE Rebuild
  BY <1>3, RebuildKeepsIInv
<1>4. CASE Scan
  BY <1>4, ScanKeepsIInv
<1>5. CASE MergeNext
  BY <1>5, MergeNextKeepsIInv
<1>6. CASE UNCHANGED vars
  BY <1>6, StutterKeepsIInv
<1> QED BY <1>1, <1>2, <1>3, <1>4, <1>5, <1>6 DEF Next

\* The invariant holds of every execution.
THEOREM EGraphInvariant == Spec => []IInv
<1> QED BY InitIInv, NextKeepsIInv, PTL DEF Spec

-----------------------------------------------------------------------------
(* The theorems *)

\* After a rebuild the union-find is a congruence: two terms with one symbol
\* over equal children have one canonical e-node, which is in one class.
LEMMA RestoredIsCongruence ==
  ASSUME IInv, ~ dirty
  PROVE  LeastCongruence \subseteq Equivalence
<1> DEFINE p == parents
           M == [i \in Ids |-> Find(i)]
<1>1. Shape /\ ClassesHoldTerms /\ AssertedAreMerged
  BY DEF IInv
<1>2. /\ Closable(Ids, terms, asserted)
      /\ \A i \in Ids : Find(i) \in DOMAIN classes
      /\ \A c \in DOMAIN classes : \A n \in classes[c] : NodeOver(n, Ids)
      /\ \A i \in Ids : NodeOver(terms[i], Ids)
      /\ Forest(parents) /\ Ids = DOMAIN parents
  BY <1>1, IdFacts DEF Shape, Ids
<1>3. /\ \A c \in DOMAIN classes : \A n \in classes[c] : CanonIn(parents, n) = n
      /\ \A c, d \in DOMAIN classes : c # d => classes[c] \cap classes[d] = {}
  BY DEF IInv, Restored
<1>4. ASSUME NEW i \in Ids, NEW j \in Ids, Alike(parents, terms[i], terms[j])
      PROVE  Find(i) = Find(j)
  <2>1. PICK m \in classes[Find(i)] : Alike(parents, m, terms[i])
    BY <1>1 DEF ClassesHoldTerms
  <2>2. PICK n \in classes[Find(j)] : Alike(parents, n, terms[j])
    BY <1>1 DEF ClassesHoldTerms
  <2>3. Alike(parents, m, n)
    BY <1>4, <2>1, <2>2, AlikeFacts
  <2>4. NodeOver(m, Ids) /\ NodeOver(n, Ids)
    BY <1>2
  <2>5. CanonIn(parents, m) = CanonIn(parents, n)
    BY <1>2, <2>3, <2>4, CanonFacts
  <2>6. m = n
    BY <1>2, <1>3, <2>5
  <2> QED BY <1>2, <1>3, <2>6
<1>5. ASSUME NEW i \in Ids, NEW j \in Ids, terms[i].op = terms[j].op,
             OnLabels(terms, M, i) = OnLabels(terms, M, j)
      PROVE  Alike(parents, terms[i], terms[j])
  <2>1. /\ DOMAIN terms[i].children = 1..Arity[terms[i].op]
        /\ DOMAIN terms[j].children = 1..Arity[terms[i].op]
        /\ \A k \in 1..Arity[terms[i].op] :
             terms[i].children[k] \in Ids /\ terms[j].children[k] \in Ids
    BY <1>2, <1>5 DEF NodeOver
  <2>2. \A k \in 1..Arity[terms[i].op] : M[terms[i].children[k]] = M[terms[j].children[k]]
    <3> HIDE DEF M
    <3>1. \A k \in 1..Arity[terms[i].op] :
            /\ OnLabels(terms, M, i)[k] = M[terms[i].children[k]]
            /\ OnLabels(terms, M, j)[k] = M[terms[j].children[k]]
      BY <2>1 DEF OnLabels
    <3> QED BY <1>5, <3>1
  <2> QED BY <1>5, <2>1, <2>2 DEF Alike, Find
<1>6. Respects(Ids, terms, asserted, M)
  <2>1. \A a \in asserted : M[a[1]] = M[a[2]]
    BY <1>1 DEF AssertedAreMerged, Equivalence, Same
  <2>2. \A i, j \in Ids : terms[i].op = terms[j].op /\ OnLabels(terms, M, i) = OnLabels(terms, M, j)
          => M[i] = M[j]
    BY <1>4, <1>5
  <2> HIDE DEF M
  <2> QED BY <2>1, <2>2 DEF Respects
<1>7. \A i, j : <<i, j>> \in LeastCongruence => M[i] = M[j]
  <2> HIDE DEF M
  <2> QED BY <1>2, <1>6, LeastIs, LeastIsMinimal
<1>8. LeastCongruence \subseteq Ids \X Ids
  BY <1>1, ForcedIsCongruence DEF Congruence
<1>9. ASSUME NEW q \in LeastCongruence PROVE q \in Equivalence
  <2>1. PICK i \in Ids, j \in Ids : q = <<i, j>>
    BY <1>8
  <2>2. Find(i) = Find(j)
    BY <1>7, <2>1
  <2> QED BY <2>1, <2>2 DEF Equivalence, Same
<1> QED BY <1>9

\* Ids are merged only if the asserted equalities force them to be equal, also
\* between a union and its rebuild and inside a rebuild, and whenever no union
\* waits for a rebuild all that are forced have been merged.
THEOREM OnlyForcedAreMerged == Spec => []MergesAreForced
<1>1. IInv => MergesAreForced
  BY RestoredIsCongruence DEF IInv, OnlyForced, MergesAreForced
<1> QED BY <1>1, EGraphInvariant, PTL

\* What add() finds in the table, even a stale one, is the class of the term
\* that was asked for.
THEOREM TableNeverLies == Spec => []AnswersAreTheTermAsked
<1>1. ASSUME IInv PROVE AnswersAreTheTermAsked
  <2>1. SUFFICES ASSUME NEW n \in Requests, Held(n)
                 PROVE  \E i \in Ids : /\ terms[i].op = n.op
                                       /\ Same(i, AnswerIfHeld(n))
                                       /\ \A k \in DOMAIN n.children :
                                            Same(terms[i].children[k], n.children[k])
    BY DEF AnswersAreTheTermAsked
  <2> DEFINE key == LookupKey(n)
  <2>2. Shape /\ MemoHoldsTerms /\ key \in DOMAIN memo
    BY <1>1, <2>1 DEF IInv, Held
  <2>3. NodeOver(n, Ids) /\ DOMAIN n.children = 1..Arity[n.op]
    BY RequestsAreNodes DEF NodeOver
  <2>4. Alike(parents, key, n)
    BY <2>2, <2>3, CanonFacts DEF Shape, Ids, LookupKey
  <2>5. memo[key] \in Ids /\ Find(Find(memo[key])) = Find(memo[key])
    BY <2>2, IdFacts DEF Shape
  <2>6. AnswerIfHeld(n) = Find(memo[key])
    BY DEF AnswerIfHeld
  <2> HIDE DEF key
  <2>7. PICK i \in Ids : Same(i, memo[key]) /\ Alike(parents, key, terms[i])
    BY <2>2 DEF MemoHoldsTerms
  <2>8. Alike(parents, terms[i], n)
    BY <2>4, <2>7, AlikeFacts
  <2>9. terms[i].op = n.op /\ \A k \in DOMAIN n.children : Same(terms[i].children[k], n.children[k])
    BY <2>3, <2>8 DEF Alike, Same, Find
  <2>10. Same(i, AnswerIfHeld(n))
    BY <2>5, <2>6, <2>7 DEF Same
  <2> QED BY <2>9, <2>10
<1> QED BY <1>1, EGraphInvariant, PTL

\* The classes are kept under the roots, at every moment; rebuild() restores both
\* invariants of its comment and the index, and adding keeps them.
THEOREM RebuildRestoresInvariants == Spec => []RebuildRestores
<1>1. IInv => RebuildRestores
  BY DEF IInv, Shape, Restored, RebuildRestores, Clean
<1> QED BY <1>1, EGraphInvariant, PTL

-----------------------------------------------------------------------------
(* The clean e-graph *)

\* What the matchers rest on: finitely many classes of finitely many e-nodes,
\* each over class ids and in one class only.
Ready ==
  /\ 0 \notin DOMAIN classes /\ IsFiniteSet(DOMAIN classes)
  /\ \A c \in DOMAIN classes :
        /\ Find(c) = c
        /\ IsFiniteSet(classes[c])
        /\ \A n \in classes[c] : NodeOver(n, DOMAIN classes)
  /\ \A c, d \in DOMAIN classes : c # d => classes[c] \cap classes[d] = {}

\* A rebuilt e-graph is such.
LEMMA CleanIsReady == ASSUME IInv, Clean PROVE Ready
<1>1. Shape /\ ~ dirty
  BY DEF IInv, Clean
<1>2. /\ Ids = 1..Len(parents) /\ Ids = DOMAIN parents /\ Forest(parents)
      /\ DOMAIN classes \in SUBSET Ids /\ IsFiniteSet(DOMAIN classes)
      /\ \A c \in DOMAIN classes : FindIn(parents, c) = c
      /\ \A i \in Ids : Find(i) \in DOMAIN classes
  BY <1>1, IdFacts DEF Ids, Shape
<1>3. /\ \A c \in DOMAIN classes : \A n \in classes[c] : CanonIn(parents, n) = n
      /\ \A c, d \in DOMAIN classes : c # d => classes[c] \cap classes[d] = {}
  BY <1>1 DEF IInv, Restored
<1>4. \A c \in DOMAIN classes : IsFiniteSet(classes[c]) /\ \A n \in classes[c] : NodeOver(n, Ids)
  BY <1>1 DEF Shape
<1>5. ASSUME NEW c \in DOMAIN classes, NEW n \in classes[c] PROVE NodeOver(n, DOMAIN classes)
  <2>1. NodeOver(n, DOMAIN parents) /\ CanonIn(parents, n) = n
    BY <1>2, <1>3, <1>4
  <2>2. \A k \in 1..Arity[n.op] : n.children[k] = Find(n.children[k])
    BY <1>2, <2>1, CanonFacts DEF Find
  <2>3. \A k \in 1..Arity[n.op] : n.children[k] \in DOMAIN classes
    <3>1. \A k \in 1..Arity[n.op] : n.children[k] \in Ids
      BY <1>2, <2>1 DEF NodeOver
    <3> QED BY <1>2, <2>2, <3>1
  <2> QED BY <2>1, <2>3 DEF NodeOver
<1>6. 0 \notin DOMAIN classes
  BY <1>2
<1> QED BY <1>2, <1>3, <1>4, <1>5, <1>6 DEF Ready, Find

-----------------------------------------------------------------------------
(* Reading order *)

\* Reading order is the order of numbers whose digits are the places, a place that
\* is missing being the least.
Digit(c, k) == IF k \in 1..Len(c) THEN c[k] + 1 ELSE 0
LessAt(c, d, k) == Digit(c, k) < Digit(d, k) /\ \A j \in 1..(k - 1) : Digit(c, j) = Digit(d, j)

\* A digit is a natural number, and the digits are the position.
LEMMA DigitFacts ==
  ASSUME NEW c \in Seq(Nat), NEW d \in Seq(Nat)
  PROVE  /\ \A k \in Nat : Digit(c, k) \in Nat
         /\ (\A k \in Nat \ {0} : Digit(c, k) = Digit(d, k)) => c = d
<1>1. \A k \in Nat : Digit(c, k) \in Nat
  BY DEF Digit
<1>2. ASSUME \A k \in Nat \ {0} : Digit(c, k) = Digit(d, k) PROVE c = d
  <2>1. Len(c) \in Nat /\ Len(d) \in Nat /\ \A k \in 1..Len(c) : c[k] \in Nat
    OBVIOUS
  <2>2. \A k \in 1..Len(d) : d[k] \in Nat
    OBVIOUS
  <2>3. \A k \in Nat \ {0} : k \in 1..Len(c) <=> k \in 1..Len(d)
    <3>1. ASSUME NEW k \in Nat \ {0}, k \in 1..Len(c) PROVE k \in 1..Len(d)
      <4>1. Digit(c, k) # 0
        BY <2>1, <3>1 DEF Digit
      <4>2. Digit(d, k) # 0
        BY <1>2, <4>1
      <4> QED BY <4>2 DEF Digit
    <3>2. ASSUME NEW k \in Nat \ {0}, k \in 1..Len(d) PROVE k \in 1..Len(c)
      <4>1. Digit(d, k) # 0
        BY <2>2, <3>2 DEF Digit
      <4>2. Digit(c, k) # 0
        BY <1>2, <4>1
      <4> QED BY <4>2 DEF Digit
    <3> QED BY <3>1, <3>2
  <2>4. Len(c) = Len(d)
    <3>1. Len(c) # 0 => Len(c) \in 1..Len(d)
      BY <2>1, <2>3
    <3>2. Len(d) # 0 => Len(d) \in 1..Len(c)
      BY <2>1, <2>3
    <3> QED BY <2>1, <3>1, <3>2
  <2>5. \A k \in 1..Len(c) : c[k] = d[k]
    BY <1>2, <2>1, <2>2, <2>3, <2>4 DEF Digit
  <2> QED BY <2>4, <2>5
<1> QED BY <1>1, <1>2

\* Reading order compares the first digits that differ.
LEMMA BeforeIsLess ==
  ASSUME NEW c \in Seq(Nat), NEW d \in Seq(Nat)
  PROVE  PositionBefore(c, d) <=> \E k \in Nat \ {0} : LessAt(c, d, k)
<1>1. /\ Len(c) \in Nat /\ Len(d) \in Nat /\ DOMAIN c = 1..Len(c) /\ DOMAIN d = 1..Len(d)
      /\ \A k \in 1..Len(c) : c[k] \in Nat
      /\ \A k \in 1..Len(d) : d[k] \in Nat
  OBVIOUS
<1>2. IsStrictPrefix(c, d) <=> Len(c) < Len(d) /\ \A j \in 1..Len(c) : c[j] = d[j]
  <2>1. ASSUME Len(c) <= Len(d)
        PROVE  SubSeq(c, 1, Len(c)) = SubSeq(d, 1, Len(c)) <=> \A j \in 1..Len(c) : c[j] = d[j]
    <3>1. /\ SubSeq(c, 1, Len(c)) \in Seq(Nat) /\ Len(SubSeq(c, 1, Len(c))) = Len(c)
          /\ SubSeq(d, 1, Len(c)) \in Seq(Nat) /\ Len(SubSeq(d, 1, Len(c))) = Len(c)
          /\ \A j \in 1..Len(c) : SubSeq(c, 1, Len(c))[j] = c[j] /\ SubSeq(d, 1, Len(c))[j] = d[j]
      BY <1>1, <2>1
    <3> QED BY <3>1
  <2>2. c # d /\ Len(c) <= Len(d) /\ (\A j \in 1..Len(c) : c[j] = d[j]) => Len(c) < Len(d)
    <3>1. Len(c) = Len(d) /\ (\A j \in 1..Len(c) : c[j] = d[j]) => c = d
      OBVIOUS
    <3>2. Len(c) <= Len(d) /\ Len(c) # Len(d) => Len(c) < Len(d)
      <4>1. \A x, y \in Nat : x <= y /\ x # y => x < y
        OBVIOUS
      <4> QED BY <1>1, <4>1
    <3> QED BY <3>1, <3>2
  <2> QED BY <1>1, <2>1, <2>2 DEF IsStrictPrefix, IsPrefix
<1>3. ASSUME IsStrictPrefix(c, d) PROVE LessAt(c, d, Len(c) + 1)
  BY <1>1, <1>2, <1>3 DEF LessAt, Digit
<1>4. ASSUME NEW k \in 1..Len(c), k \in 1..Len(d), c[k] < d[k], \A j \in 1..(k - 1) : c[j] = d[j]
      PROVE  LessAt(c, d, k)
  BY <1>1, <1>4 DEF LessAt, Digit
<1>5. ASSUME NEW k \in Nat \ {0}, LessAt(c, d, k) PROVE PositionBefore(c, d)
  <2>1. k \in 1..Len(d)
    BY <1>1, <1>5 DEF LessAt, Digit
  <2>2. CASE k \in 1..Len(c)
    <3>1. c[k] < d[k] /\ \A j \in 1..(k - 1) : c[j] = d[j]
      <4>1. c[k] < d[k]
        BY <1>1, <1>5, <2>1, <2>2 DEF LessAt, Digit
      <4>2. \A j \in 1..(k - 1) : j \in 1..Len(c) /\ j \in 1..Len(d)
        BY <1>1, <2>1, <2>2
      <4> QED BY <1>1, <1>5, <4>1, <4>2 DEF LessAt, Digit
    <3> QED BY <1>1, <2>1, <2>2, <3>1 DEF PositionBefore
  <2>3. CASE k \notin 1..Len(c)
    <3>1. Len(c) < k
      BY <1>1, <2>3
    <3>2. k = Len(c) + 1
      <4> SUFFICES ASSUME Len(c) + 1 < k PROVE FALSE
        BY <1>1, <3>1
      <4>1. Len(c) + 1 \in 1..(k - 1) /\ Len(c) + 1 \notin 1..Len(c) /\ Len(c) + 1 \in 1..Len(d)
        BY <1>1, <2>1
      <4>2. Digit(c, Len(c) + 1) = 0 /\ Digit(d, Len(c) + 1) # 0
        BY <1>1, <4>1 DEF Digit
      <4> QED BY <1>5, <4>1, <4>2 DEF LessAt
    <3>3. \A j \in 1..Len(c) : j \in 1..(k - 1) /\ j \in 1..Len(d)
      BY <1>1, <2>1, <3>2
    <3>4. \A j \in 1..Len(c) : c[j] = d[j]
      BY <1>1, <1>5, <3>3 DEF LessAt, Digit
    <3> QED BY <1>1, <1>2, <2>1, <3>1, <3>4 DEF PositionBefore
  <2> QED BY <2>2, <2>3
<1>6. ASSUME PositionBefore(c, d) PROVE \E k \in Nat \ {0} : LessAt(c, d, k)
  <2>1. CASE IsStrictPrefix(c, d)
    BY <1>1, <1>3, <2>1
  <2>2. CASE \E k \in DOMAIN c \cap DOMAIN d : c[k] < d[k] /\ \A j \in 1..(k - 1) : c[j] = d[j]
    BY <1>1, <1>4, <2>2
  <2> QED BY <1>6, <2>1, <2>2 DEF PositionBefore
<1> QED BY <1>5, <1>6

\* It is a total order, in which every term comes before its arguments.
LEMMA BeforeOrders ==
  /\ \A c \in Seq(Nat) : ~ PositionBefore(c, c)
  /\ \A c, d \in Seq(Nat) : c = d \/ PositionBefore(c, d) \/ PositionBefore(d, c)
  /\ \A c, d, e \in Seq(Nat) : PositionBefore(c, d) /\ PositionBefore(d, e) => PositionBefore(c, e)
  /\ \A d \in Seq(Nat), k \in Nat : PositionBefore(d, d \o <<k>>)
<1>1. ASSUME NEW c \in Seq(Nat) PROVE ~ PositionBefore(c, c)
  BY BeforeIsLess, DigitFacts DEF LessAt
<1>2. ASSUME NEW c \in Seq(Nat), NEW d \in Seq(Nat), c # d
      PROVE  PositionBefore(c, d) \/ PositionBefore(d, c)
  <2> DEFINE T == {k \in Nat \ {0} : Digit(c, k) # Digit(d, k)}
  <2>1. T # {} /\ T \subseteq Nat
    BY <1>2, DigitFacts
  <2>2. PICK k \in T : \A j \in T : k <= j
    <3> HIDE DEF T
    <3> QED BY <2>1, MinExists
  <2>3. \A j \in 1..(k - 1) : Digit(c, j) = Digit(d, j)
    <3>1. \A j \in 1..(k - 1) : j \in Nat \ {0} /\ ~ (k <= j)
      OBVIOUS
    <3> QED BY <2>2, <3>1
  <2>4. Digit(c, k) \in Nat /\ Digit(d, k) \in Nat /\ Digit(c, k) # Digit(d, k) /\ k \in Nat \ {0}
    BY DigitFacts
  <2> HIDE DEF T
  <2>5. LessAt(c, d, k) \/ LessAt(d, c, k)
    BY <2>3, <2>4 DEF LessAt
  <2> QED BY <2>4, <2>5, BeforeIsLess
<1>3. ASSUME NEW c \in Seq(Nat), NEW d \in Seq(Nat), NEW e \in Seq(Nat),
             PositionBefore(c, d), PositionBefore(d, e)
      PROVE  PositionBefore(c, e)
  <2>1. PICK k \in Nat \ {0} : LessAt(c, d, k)
    BY <1>3, BeforeIsLess
  <2>2. PICK l \in Nat \ {0} : LessAt(d, e, l)
    BY <1>3, BeforeIsLess
  <2>3. \A j \in Nat : Digit(c, j) \in Nat /\ Digit(d, j) \in Nat /\ Digit(e, j) \in Nat
    BY DigitFacts
  <2>4. CASE k <= l
    <3>1. Digit(c, k) < Digit(e, k)
      <4>1. Digit(d, k) = Digit(e, k) \/ Digit(d, k) < Digit(e, k)
        <5>1. k = l \/ k \in 1..(l - 1)
          BY <2>4
        <5> QED BY <2>2, <5>1 DEF LessAt
      <4>2. Digit(c, k) < Digit(d, k)
        BY <2>1 DEF LessAt
      <4>3. \A x, y, z \in Nat : x < y /\ (y = z \/ y < z) => x < z
        OBVIOUS
      <4>4. Digit(c, k) \in Nat /\ Digit(d, k) \in Nat /\ Digit(e, k) \in Nat
        BY <2>3
      <4> QED BY <4>1, <4>2, <4>3, <4>4
    <3>2. \A j \in 1..(k - 1) : j \in 1..(l - 1)
      BY <2>4
    <3>3. LessAt(c, e, k)
      BY <2>1, <2>2, <3>1, <3>2 DEF LessAt
    <3> QED BY <3>3, BeforeIsLess
  <2>5. CASE l < k
    <3>1. l \in 1..(k - 1) /\ \A j \in 1..(l - 1) : j \in 1..(k - 1)
      BY <2>5
    <3>2. LessAt(c, e, l)
      BY <2>1, <2>2, <3>1 DEF LessAt
    <3> QED BY <3>2, BeforeIsLess
  <2> QED BY <2>4, <2>5
<1>4. ASSUME NEW d \in Seq(Nat), NEW k \in Nat PROVE PositionBefore(d, d \o <<k>>)
  <2> DEFINE e == d \o <<k>>
  <2>1. /\ e \in Seq(Nat) /\ Len(e) = Len(d) + 1 /\ Len(d) \in Nat
        /\ e[Len(d) + 1] = k /\ \A j \in 1..Len(d) : e[j] = d[j]
    OBVIOUS
  <2> HIDE DEF e
  <2>2. LessAt(d, e, Len(d) + 1)
    BY <2>1 DEF LessAt, Digit
  <2>3. PositionBefore(d, e)
    BY <2>1, <2>2, BeforeIsLess
  <2> QED BY <2>3 DEF e
<1> QED BY <1>1, <1>2, <1>3, <1>4

-----------------------------------------------------------------------------
(* Folds and listings *)

\* Counting up from 0.
LEMMA CountUp ==
  ASSUME NEW len \in Nat, NEW S, 0 \in S, \A k \in 1..len : k - 1 \in S => k \in S
  PROVE  0..len \subseteq S
<1> DEFINE bad == {k \in 0..len : k \notin S}
<1>1. bad = {}
  <2> SUFFICES ASSUME bad # {} PROVE FALSE
    OBVIOUS
  <2>1. PICK k \in bad : \A j \in bad : k <= j
    <3>1. bad \subseteq Nat
      OBVIOUS
    <3> HIDE DEF bad
    <3> QED BY <3>1, MinExists
  <2>2. k # 0 /\ k \in 0..len /\ k \notin S
    OBVIOUS
  <2>3. k \in 1..len /\ k - 1 \in 0..len /\ ~ (k <= k - 1)
    BY <2>2
  <2>4. k - 1 \in S
    BY <2>1, <2>3
  <2> QED BY <2>2, <2>3, <2>4
<1> QED BY <1>1

\* There is one function on the empty set.
LEMMA EmptyFunction == \A S : [{} -> S] = {<<>>}
<1>1. ASSUME NEW S, NEW f \in [{} -> S] PROVE f = <<>>
  OBVIOUS
<1>2. \A S : <<>> \in [{} -> S]
  OBVIOUS
<1> QED BY <1>1, <1>2

\* The recursion behind a fold over len positions, which takes the greatest
\* position last, has a solution.
SolvesFold(g, len, base, step) ==
  \A s \in SUBSET (1..len) :
    g[s] = IF s = {} THEN base ELSE step[<<g[s \ {Max(s)}], Max(s)>>]

\* It exists: by the smallest length for which it would not.
LEMMA FoldExists ==
  ASSUME NEW len \in Nat, NEW A, NEW base \in A, NEW step \in [A \X (1..len) -> A]
  PROVE  \E g \in [SUBSET (1..len) -> A] : SolvesFold(g, len, base, step)
<1> DEFINE S == {n \in 0..len : \E g \in [SUBSET (1..n) -> A] : SolvesFold(g, n, base, step)}
<1>1. 0 \in S
  <2>1. SUBSET (1..0) = {{}}
    OBVIOUS
  <2>2. [s \in SUBSET (1..0) |-> base] \in [SUBSET (1..0) -> A]
    OBVIOUS
  <2>3. SolvesFold([s \in SUBSET (1..0) |-> base], 0, base, step)
    BY <2>1 DEF SolvesFold
  <2> QED BY <2>2, <2>3
<1>2. ASSUME NEW n \in 1..len, n - 1 \in S PROVE n \in S
  <2>1. PICK g \in [SUBSET (1..(n - 1)) -> A] : SolvesFold(g, n - 1, base, step)
    BY <1>2
  <2> DEFINE h == [s \in SUBSET (1..n) |-> IF n \in s THEN step[<<g[s \ {n}], n>>] ELSE g[s]]
  <2>2. \A s \in SUBSET (1..n) :
           /\ s \ {n} \in SUBSET (1..(n - 1))
           /\ n \notin s => s \in SUBSET (1..(n - 1))
    <3>1. 1..n = (1..(n - 1)) \cup {n}
      OBVIOUS
    <3> QED BY <3>1
  <2>3. h \in [SUBSET (1..n) -> A]
    BY <2>2
  <2>4. ASSUME NEW s \in SUBSET (1..n)
        PROVE  h[s] = IF s = {} THEN base ELSE step[<<h[s \ {Max(s)}], Max(s)>>]
    <3>1. CASE n \in s
      <4>1. Max(s) = n
        <5>1. \A x \in s : x \in Int /\ n >= x
          OBVIOUS
        <5>2. \A x \in s : (\A y \in s : x >= y) => x = n
          BY <3>1, <5>1
        <5> QED BY <3>1, <5>1, <5>2 DEF Max
      <4>2. h[s \ {n}] = g[s \ {n}]
        BY <2>2
      <4> QED BY <3>1, <4>1, <4>2
    <3>2. CASE n \notin s
      <4>1. h[s] = g[s] /\ h[s \ {Max(s)}] = g[s \ {Max(s)}]
        BY <3>2
      <4>2. g[s] = IF s = {} THEN base ELSE step[<<g[s \ {Max(s)}], Max(s)>>]
        BY <2>1, <2>2, <3>2 DEF SolvesFold
      <4> QED BY <4>1, <4>2
    <3> QED BY <3>1, <3>2
  <2> HIDE DEF h
  <2>5. SolvesFold(h, n, base, step)
    BY <2>4 DEF SolvesFold
  <2> QED BY <2>3, <2>5
<1>3. 0..len \subseteq S
  <2> HIDE DEF S
  <2> QED BY <1>1, <1>2, CountUp
<1>4. len \in 0..len
  OBVIOUS
<1>5. len \in S
  <2> HIDE DEF S
  <2> QED BY <1>3, <1>4
<1> QED BY <1>5

\* The sets 1..k are those a fold goes through.
LEMMA InitialSegments ==
  ASSUME NEW len \in Nat, NEW k \in 1..len
  PROVE  /\ 1..k \in SUBSET (1..len) /\ 1..k # {}
         /\ Max(1..k) = k /\ (1..k) \ {k} = 1..(k - 1)
<1>1. k \in 1..k /\ \A x \in 1..k : k >= x
  OBVIOUS
<1>2. \A x \in 1..k : (\A y \in 1..k : x >= y) => x = k
  BY <1>1
<1>3. Max(1..k) = k
  BY <1>1, <1>2 DEF Max
<1>4. 1..k \in SUBSET (1..len) /\ 1..k # {}
  BY <1>1
<1>5. (1..k) \ {k} = 1..(k - 1)
  <2>1. \A x : x \in (1..k) \ {k} <=> x \in 1..(k - 1)
    OBVIOUS
  <2> QED BY <2>1
<1> QED BY <1>3, <1>4, <1>5

\* A nonempty set of positions has a greatest one.
LEMMA SubsetHasMax ==
  ASSUME NEW len \in Nat, NEW s \in SUBSET (1..len), s # {}
  PROVE  Max(s) \in s
<1> DEFINE T == {len - i : i \in s}
<1>1. T \subseteq Nat /\ T # {}
  <2>1. ASSUME NEW i \in 1..len PROVE len - i \in Nat
    OBVIOUS
  <2> QED BY <2>1
<1>2. PICK x \in T : \A y \in T : x <= y
  <2> HIDE DEF T
  <2> QED BY <1>1, MinExists
<1>3. PICK i \in s : x = len - i
  OBVIOUS
<1>4. ASSUME NEW j \in s PROVE i >= j
  <2>1. len - i <= len - j
    BY <1>2, <1>3
  <2>2. i \in 1..len /\ j \in 1..len
    OBVIOUS
  <2> HIDE DEF T
  <2> QED BY <2>1, <2>2
<1> QED BY <1>4 DEF Max

\* What solves the recursion of a fold ends where the loop ends: `at' holds the
\* states of the loop, one after each of its rounds.
IsFold(fold, len, A, base, step) ==
  /\ fold[{}] = base
  /\ \A s \in SUBSET (1..len) :
        s # {} /\ fold[s \ {Max(s)}] \in A => fold[s] = step[<<fold[s \ {Max(s)}], Max(s)>>]
IsLoop(at, len, A, base, step) ==
  /\ at \in [0..len -> A] /\ at[0] = base
  /\ \A k \in 1..len : step[<<at[k - 1], k>>] = at[k]

\* By induction on the rounds: after k of them the fold over 1..k is the state.
LEMMA FoldEnds ==
  ASSUME NEW len \in Nat, NEW A, NEW base, NEW step,
         NEW fold, IsFold(fold, len, A, base, step), NEW at, IsLoop(at, len, A, base, step)
  PROVE  fold[1..len] = at[len]
<1> USE DEF IsFold, IsLoop
<1> DEFINE S == {k \in 0..len : fold[1..k] = at[k]}
<1>1. 0 \in S
  <2>1. 1..0 = {}
    OBVIOUS
  <2> QED BY <2>1
<1>2. ASSUME NEW k \in 1..len, k - 1 \in S PROVE k \in S
  <2>1. 1..k \in SUBSET (1..len) /\ 1..k # {} /\ Max(1..k) = k /\ (1..k) \ {k} = 1..(k - 1)
    BY InitialSegments
  <2>2. fold[1..(k - 1)] = at[k - 1]
    BY <1>2
  <2>0. k - 1 \in 0..len /\ at[k - 1] \in A
    OBVIOUS
  <2>3. fold[1..k] = step[<<fold[1..(k - 1)], k>>]
    BY <2>0, <2>1, <2>2
  <2> QED BY <2>2, <2>3
<1>3. 0..len \subseteq S
  <2> HIDE DEF S
  <2> QED BY <1>1, <1>2, CountUp
<1>4. len \in 0..len
  OBVIOUS
<1> QED BY <1>3, <1>4

\* How many elements of a set come before one of them tells them apart, and takes
\* every value below the size of the set.
Rank(S, R, x) == Cardinality({y \in S : <<y, x>> \in R})
Orders(S, R) ==
  /\ \A x, y \in S : x = y \/ <<x, y>> \in R \/ <<y, x>> \in R
  /\ \A x \in S : <<x, x>> \notin R
  /\ \A x, y, z \in S : <<x, y>> \in R /\ <<y, z>> \in R => <<x, z>> \in R
RanksAreTaken(S, R) == \A k \in 1..Cardinality(S) : \E x \in S : Rank(S, R, x) = k - 1

\* A rank tells an element from every other, and is below the size of the
\* set.
LEMMA RanksAreExact ==
  ASSUME NEW S, IsFiniteSet(S), NEW R, Orders(S, R)
  PROVE  /\ \A x \in S : Rank(S, R, x) \in Nat /\ Rank(S, R, x) + 1 \in 1..Cardinality(S)
         /\ \A x, y \in S : <<x, y>> \in R <=> Rank(S, R, x) < Rank(S, R, y)
         /\ \A x, y \in S : Rank(S, R, x) = Rank(S, R, y) => x = y
         /\ RanksAreTaken(S, R)
<1> DEFINE n == Cardinality(S)
           Below(x) == {y \in S : <<y, x>> \in R}
           rank(x) == Rank(S, R, x)
<1>1. n \in Nat
  BY FS_CardinalityType
<1>2. \A x : rank(x) = Cardinality(Below(x))
  BY DEF Rank
<1>3. ASSUME NEW x \in S
      PROVE  IsFiniteSet(Below(x)) /\ rank(x) \in Nat /\ rank(x) < n
  <2>1. Below(x) \in SUBSET S /\ x \notin Below(x)
    BY DEF Orders
  <2> HIDE DEF Below, n, rank
  <2>2. IsFiniteSet(Below(x)) /\ Cardinality(Below(x)) <= n /\ Cardinality(Below(x)) # n
    BY <2>1, FS_Subset DEF n
  <2>3. Cardinality(Below(x)) \in Nat
    BY <2>2, FS_CardinalityType
  <2> QED BY <1>1, <1>2, <2>2, <2>3
<1>4. ASSUME NEW x \in S, NEW y \in S, <<x, y>> \in R PROVE rank(x) < rank(y)
  <2>1. Below(x) \in SUBSET Below(y) /\ x \in Below(y) /\ x \notin Below(x)
    BY <1>4 DEF Orders
  <2> HIDE DEF Below, rank
  <2>2. Cardinality(Below(x)) <= Cardinality(Below(y)) /\ Cardinality(Below(x)) # Cardinality(Below(y))
    BY <1>3, <2>1, FS_Subset
  <2> QED BY <1>2, <1>3, <2>2
<1> HIDE DEF rank, Below
<1>5. \A x, y \in S : <<x, y>> \in R <=> rank(x) < rank(y)
  <2> SUFFICES ASSUME NEW x \in S, NEW y \in S, rank(x) < rank(y) PROVE <<x, y>> \in R
    BY <1>4
  <2>1. x # y /\ ~ (rank(y) < rank(x))
    BY <1>3
  <2> QED BY <1>4, <2>1 DEF Orders
<1>6. \A x, y \in S : rank(x) = rank(y) => x = y
  <2> SUFFICES ASSUME NEW x \in S, NEW y \in S, rank(x) = rank(y) PROVE x = y
    OBVIOUS
  <2>1. ~ (rank(y) < rank(x)) /\ ~ (rank(x) < rank(y))
    BY <1>3
  <2> QED BY <1>4, <2>1 DEF Orders
<1> DEFINE place == [x \in S |-> rank(x) + 1]
<1> HIDE DEF n
<1>7. \A x \in S : rank(x) + 1 \in 1..n
  BY <1>1, <1>3
<1>8. place \in Injection(S, 1..n)
  <2>1. place \in [S -> 1..n]
    BY <1>7
  <2>2. ASSUME NEW x \in S, NEW y \in S, place[x] = place[y] PROVE x = y
    <3>1. rank(x) = rank(y)
      BY <1>3, <2>2
    <3> QED BY <1>6, <3>1
  <2> HIDE DEF place
  <2> QED BY <2>1, <2>2 DEF Injection, IsInjective
<1>9. place \in Surjection(S, 1..n)
  <2>1. IsFiniteSet(1..n) /\ Cardinality(1..n) = n
    BY <1>1, FS_Interval
  <2> HIDE DEF place
  <2> QED BY <1>8, <2>1, FS_Injection DEF n
<1>10. ASSUME NEW k \in 1..n PROVE \E x \in S : rank(x) = k - 1
  <2>1. PICK x \in S : place[x] = k
    <3> HIDE DEF place
    <3> QED BY <1>9 DEF Surjection
  <2>2. rank(x) + 1 = k
    BY <2>1
  <2> QED BY <1>1, <1>3, <2>2
<1> QED BY <1>3, <1>5, <1>6, <1>7, <1>10 DEF rank, n, RanksAreTaken

\* A list of a set in the order of a relation, and a list without repetition.
ListsByRank(s, S, R) ==
  /\ s = [k \in 1..Cardinality(S) |-> s[k]]
  /\ \A k \in 1..Cardinality(S) : s[k] \in S /\ Rank(S, R, s[k]) = k - 1
Enumerates(s, n, S) ==
  /\ n \in Nat /\ s \in [1..n -> S]
  /\ \A x \in S : \E k \in 1..n : s[k] = x
  /\ \A j, k \in 1..n : s[j] = s[k] => j = k

\* A list by rank has each element once, those that come before at smaller indices.
LEMMA ListingEnumerates ==
  ASSUME NEW S, IsFiniteSet(S), NEW R, Orders(S, R), NEW s, ListsByRank(s, S, R)
  PROVE  /\ Enumerates(s, Cardinality(S), S)
         /\ \A j, k \in 1..Cardinality(S) : <<s[j], s[k]>> \in R => j < k
<1> DEFINE n == Cardinality(S)
           rank(x) == Rank(S, R, x)
<1>1. /\ \A x \in S : rank(x) \in Nat /\ rank(x) + 1 \in 1..n
      /\ \A x, y \in S : <<x, y>> \in R <=> rank(x) < rank(y)
      /\ \A x, y \in S : rank(x) = rank(y) => x = y
      /\ \A k \in 1..n : \E x \in S : rank(x) = k - 1
  BY RanksAreExact DEF RanksAreTaken
<1>2. n \in Nat
  BY FS_CardinalityType
<1>3. s = [k \in 1..n |-> s[k]]
  BY DEF ListsByRank
<1>4. \A k \in 1..n : s[k] \in S /\ rank(s[k]) = k - 1
  BY DEF ListsByRank
<1> HIDE DEF n, rank
<1>5. ASSUME NEW x \in S PROVE \E k \in 1..n : s[k] = x
  <2>1. rank(x) + 1 \in 1..n /\ rank(x) \in Nat
    BY <1>1
  <2>2. rank(s[rank(x) + 1]) = rank(x) /\ s[rank(x) + 1] \in S
    BY <1>4, <2>1
  <2> QED BY <1>1, <2>1, <2>2
<1>6. \A j, k \in 1..n : j - 1 = k - 1 => j = k
  BY <1>2
<1>7. \A j, k \in 1..n : s[j] = s[k] => j = k
  BY <1>4, <1>6
<1>8. ASSUME NEW j \in 1..n, NEW k \in 1..n, <<s[j], s[k]>> \in R PROVE j < k
  <2>1. j - 1 < k - 1
    BY <1>1, <1>4, <1>8
  <2> QED BY <1>2, <2>1
<1>9. s \in [1..n -> S]
  BY <1>3, <1>4
<1> QED BY <1>2, <1>5, <1>7, <1>8, <1>9 DEF Enumerates, n

\* What is true of the first elements, as long as they are more and more, is true
\* of all: a family of sets that has {} and grows by the next element has the set.
LEMMA Enumeration ==
  ASSUME NEW S, NEW s, NEW n, Enumerates(s, n, S)
  PROVE  /\ {s[j] : j \in 1..0} = {}
         /\ \A k \in 1..n : /\ s[k] \in S /\ s[k] \notin {s[j] : j \in 1..(k - 1)}
                            /\ {s[j] : j \in 1..k} = {s[j] : j \in 1..(k - 1)} \cup {s[k]}
                            /\ {s[j] : j \in 1..k} \subseteq S
         /\ {s[j] : j \in 1..n} = S
<1>1. /\ n \in Nat /\ \A k \in 1..n : s[k] \in S
      /\ \A x \in S : \E k \in 1..n : s[k] = x
      /\ \A j, k \in 1..n : s[j] = s[k] => j = k
  BY DEF Enumerates
<1>2. ASSUME NEW k \in 1..n
      PROVE  /\ s[k] \notin {s[j] : j \in 1..(k - 1)}
             /\ {s[j] : j \in 1..k} = {s[j] : j \in 1..(k - 1)} \cup {s[k]}
             /\ {s[j] : j \in 1..k} \subseteq S
  <2>1. 1..k = 1..(k - 1) \cup {k} /\ \A j \in 1..(k - 1) : j \in 1..n /\ j # k
    BY <1>1
  <2> QED BY <1>1, <2>1
<1>3. 1..0 = {}
  OBVIOUS
<1> QED BY <1>1, <1>2, <1>3

-----------------------------------------------------------------------------
(* Patterns *)

\* A pattern as a tree: every application has the arguments of its symbol, and
\* every position but a root is an argument of one application.
Places(pat, d) == 1..Arity[Symbol(pat, d)]
IsTree(pat) ==
  /\ IsFiniteSet(DOMAIN pat) /\ DOMAIN pat \subseteq Seq(Nat)
  /\ \A d \in DOMAIN pat : IsApp(pat, d) =>
        /\ Symbol(pat, d) \in Symbols /\ Arity[Symbol(pat, d)] \in Nat
        /\ \A k \in Places(pat, d) : d \o <<k>> \in DOMAIN pat
  /\ \A d \in DOMAIN pat : IF IsRoot(d) THEN IsApp(pat, d)
                           ELSE /\ Front(d) \in DOMAIN pat /\ IsApp(pat, Front(d))
                                /\ Last(d) \in Places(pat, Front(d))
                                /\ d = Front(d) \o <<Last(d)>>
  /\ \A d \in DOMAIN pat, k \in Nat :
        Front(d \o <<k>>) = d /\ Last(d \o <<k>>) = k /\ ~ IsRoot(d \o <<k>>)

\* The last place of an argument and the application it belongs to.
LEMMA ArgumentFacts ==
  ASSUME NEW d \in Seq(Nat), d # <<>>, NEW k \in Nat
  PROVE  Front(d \o <<k>>) = d /\ Last(d \o <<k>>) = k /\ ~ IsRoot(d \o <<k>>)
<1> DEFINE e == d \o <<k>>
<1>1. /\ e \in Seq(Nat) /\ Len(e) = Len(d) + 1 /\ Len(d) \in Nat /\ Len(d) # 0
      /\ e[Len(d) + 1] = k /\ \A j \in 1..Len(d) : e[j] = d[j]
  OBVIOUS
<1> HIDE DEF e
<1>2. Len(e) - 1 = Len(d) /\ Len(e) # 1
  <2>1. \A x \in Nat : x + 1 - 1 = x /\ (x # 0 => x + 1 # 1)
    OBVIOUS
  <2> QED BY <1>1, <2>1
<1>3. Front(e) = d
  <2>1. SubSeq(e, 1, Len(d)) \in Seq(Nat) /\ Len(SubSeq(e, 1, Len(d))) = Len(d)
    BY <1>1
  <2>2. \A j \in 1..Len(d) : SubSeq(e, 1, Len(d))[j] = d[j]
    BY <1>1
  <2>3. SubSeq(e, 1, Len(d)) = d
    BY <2>1, <2>2
  <2> QED BY <1>2, <2>3 DEF Front
<1> QED BY <1>1, <1>2, <1>3 DEF Last, IsRoot, e

\* The patterns are trees.
LEMMA PatternsAreTrees == ASSUME NEW pat \in Patterns PROVE IsTree(pat)
<1>1. WellFormed(pat)
  BY PatternsAssumption
<1>2. /\ IsFiniteSet(DOMAIN pat) /\ DOMAIN pat \subseteq Seq(Nat)
      /\ \A d \in DOMAIN pat : d # <<>> /\ d \in Seq(Nat)
  BY <1>1 DEF WellFormed
<1>3. ASSUME NEW d \in DOMAIN pat, IsApp(pat, d)
      PROVE  /\ Symbol(pat, d) \in Symbols /\ Arity[Symbol(pat, d)] \in Nat
             /\ \A k \in Places(pat, d) : d \o <<k>> \in DOMAIN pat
  <2>1. Symbol(pat, d) \in Symbols /\ Range(Arguments(pat, d)) \subseteq DOMAIN pat
    BY <1>1, <1>3 DEF WellFormed
  <2>2. Arity[Symbol(pat, d)] \in Nat
    BY <2>1, ArityAssumption DEF Symbols
  <2>3. \A k \in Places(pat, d) : d \o <<k>> \in DOMAIN pat
    BY <2>1 DEF Range, Arguments, Places
  <2> QED BY <2>1, <2>2, <2>3
<1>4. ASSUME NEW d \in DOMAIN pat, ~ IsRoot(d)
      PROVE  /\ Front(d) \in DOMAIN pat /\ IsApp(pat, Front(d))
             /\ Last(d) \in Places(pat, Front(d))
             /\ d = Front(d) \o <<Last(d)>>
  <2>1. /\ Front(d) \in DOMAIN pat /\ IsApp(pat, Front(d))
        /\ d \in Range(Arguments(pat, Front(d)))
    BY <1>1, <1>4 DEF WellFormed
  <2>2. PICK k \in Places(pat, Front(d)) : d = Front(d) \o <<k>>
    BY <2>1 DEF Range, Arguments, Places
  <2>3. k \in Nat
    BY <1>3, <2>1 DEF Places
  <2>4. Last(d) = k
    BY <1>2, <2>1, <2>2, <2>3, ArgumentFacts
  <2> QED BY <2>1, <2>2, <2>4
<1>5. \A d \in DOMAIN pat : IsRoot(d) => IsApp(pat, d)
  BY <1>1 DEF WellFormed
<1>6. \A d \in DOMAIN pat, k \in Nat :
        Front(d \o <<k>>) = d /\ Last(d \o <<k>>) = k /\ ~ IsRoot(d \o <<k>>)
  BY <1>2, ArgumentFacts
<1> QED BY <1>2, <1>3, <1>4, <1>5, <1>6 DEF IsTree

\* The positions of a pattern in reading order.
ReadingOrder(pat) == {p \in (DOMAIN pat) \X (DOMAIN pat) : PositionBefore(p[1], p[2])}

\* Any set of positions is ordered.
LEMMA PositionsOrdered ==
  ASSUME NEW S, S \subseteq Seq(Nat)
  PROVE  Orders(S, {p \in S \X S : PositionBefore(p[1], p[2])})
<1> DEFINE R == {p \in S \X S : PositionBefore(p[1], p[2])}
<1>1. \A x, y \in S : <<x, y>> \in R <=> PositionBefore(x, y)
  OBVIOUS
<1> HIDE DEF R
<1> QED BY <1>1, BeforeOrders DEF Orders, R

\* A nonempty set of positions has a first one.
LEMMA FirstExists ==
  ASSUME NEW S, S \subseteq Seq(Nat), IsFiniteSet(S), S # {}
  PROVE  \E c \in S : \A e \in S : e = c \/ PositionBefore(c, e)
<1> DEFINE R == {p \in S \X S : PositionBefore(p[1], p[2])}
<1>1. \A x, y \in S : <<x, y>> \in R <=> PositionBefore(x, y)
  OBVIOUS
<1>2. Orders(S, R)
  BY PositionsOrdered
<1> HIDE DEF R
<1> DEFINE T == {Rank(S, R, x) : x \in S}
<1>3. T \subseteq Nat /\ T # {}
  BY <1>2, RanksAreExact
<1>4. PICK t \in T : \A u \in T : t <= u
  <2> HIDE DEF T
  <2> QED BY <1>3, MinExists
<1>5. PICK c \in S : t = Rank(S, R, c)
  OBVIOUS
<1>6. ASSUME NEW e \in S, e # c PROVE PositionBefore(c, e)
  <2>1. Rank(S, R, c) <= Rank(S, R, e) /\ Rank(S, R, c) \in Nat /\ Rank(S, R, e) \in Nat
    BY <1>2, <1>4, <1>5, RanksAreExact
  <2>2. ~ (Rank(S, R, e) < Rank(S, R, c))
    BY <2>1
  <2>3. <<e, c>> \notin R
    BY <1>2, <2>2, RanksAreExact
  <2> QED BY <1>1, <1>2, <1>6, <2>3 DEF Orders
<1> QED BY <1>6

\* The first occurrence of a variable stands for all; an application stands for
\* itself.
FirstsStand(pat) ==
  \A d \in DOMAIN pat :
    /\ FirstOf(pat, d) \in DOMAIN pat
    /\ IsApp(pat, FirstOf(pat, d)) <=> IsApp(pat, d)
    /\ IsApp(pat, d) => FirstOf(pat, d) = d
    /\ FirstOf(pat, d) = d \/ PositionBefore(FirstOf(pat, d), d)
    /\ pat[FirstOf(pat, d)] = pat[d]
    /\ FirstOf(pat, FirstOf(pat, d)) = FirstOf(pat, d)
    /\ \A e \in DOMAIN pat : ~ IsApp(pat, d) /\ pat[e] = pat[d] => FirstOf(pat, e) = FirstOf(pat, d)

\* In a tree they do, since among the occurrences of a variable one comes before the
\* others.
LEMMA FirstFacts == ASSUME NEW pat, IsTree(pat) PROVE FirstsStand(pat)
<1>1. IsFiniteSet(DOMAIN pat) /\ DOMAIN pat \subseteq Seq(Nat)
  BY DEF IsTree
<1> DEFINE First(d, c) == /\ pat[c] = pat[d]
                          /\ \A e \in DOMAIN pat : pat[e] = pat[d] => e = c \/ PositionBefore(c, e)
<1>2. ASSUME NEW d \in DOMAIN pat, ~ IsApp(pat, d)
      PROVE  FirstOf(pat, d) \in DOMAIN pat /\ First(d, FirstOf(pat, d))
  <2> DEFINE S == {e \in DOMAIN pat : pat[e] = pat[d]}
  <2>1. S \subseteq Seq(Nat) /\ S \in SUBSET (DOMAIN pat) /\ S # {}
    BY <1>1
  <2>2. IsFiniteSet(S)
    BY <1>1, <2>1, FS_Subset
  <2>3. \E c \in S : \A e \in S : e = c \/ PositionBefore(c, e)
    <3> HIDE DEF S
    <3> QED BY <2>1, <2>2, FirstExists
  <2>4. \E c \in DOMAIN pat : First(d, c)
    BY <2>3
  <2>5. FirstOf(pat, d) = CHOOSE c \in DOMAIN pat : First(d, c)
    BY <1>2 DEF FirstOf
  <2> HIDE DEF First
  <2> QED BY <2>4, <2>5
<1>3. ASSUME NEW d \in DOMAIN pat, NEW e \in DOMAIN pat, ~ IsApp(pat, d), pat[e] = pat[d]
      PROVE  FirstOf(pat, e) = FirstOf(pat, d)
  <2>1. ~ IsApp(pat, e)
    BY <1>3 DEF IsApp
  <2>2. /\ FirstOf(pat, d) \in DOMAIN pat /\ First(d, FirstOf(pat, d))
        /\ FirstOf(pat, e) \in DOMAIN pat /\ First(e, FirstOf(pat, e))
    <3> HIDE DEF First
    <3> QED BY <1>2, <1>3, <2>1
  <2>3. ~ (/\ PositionBefore(FirstOf(pat, d), FirstOf(pat, e))
           /\ PositionBefore(FirstOf(pat, e), FirstOf(pat, d)))
    BY <1>1, <2>2, BeforeOrders
  <2> QED BY <1>3, <2>2, <2>3
<1>4. ASSUME NEW d \in DOMAIN pat, ~ IsApp(pat, d)
      PROVE  /\ ~ IsApp(pat, FirstOf(pat, d))
             /\ FirstOf(pat, d) = d \/ PositionBefore(FirstOf(pat, d), d)
             /\ pat[FirstOf(pat, d)] = pat[d]
             /\ FirstOf(pat, FirstOf(pat, d)) = FirstOf(pat, d)
  <2>1. FirstOf(pat, d) \in DOMAIN pat /\ First(d, FirstOf(pat, d))
    BY <1>2, <1>4
  <2>2. ~ IsApp(pat, FirstOf(pat, d))
    BY <1>4, <2>1 DEF IsApp
  <2>3. FirstOf(pat, FirstOf(pat, d)) = FirstOf(pat, d)
    BY <1>3, <1>4, <2>1
  <2> QED BY <2>1, <2>2, <2>3
<1>5. \A d \in DOMAIN pat : IsApp(pat, d) => FirstOf(pat, d) = d
  BY DEF FirstOf
<1> HIDE DEF First
<1> QED BY <1>2, <1>3, <1>4, <1>5 DEF FirstsStand

\* Where a position comes in reading order.
Place(pat, d) == Rank(DOMAIN pat, ReadingOrder(pat), d)
PlacesIncrease(pat) ==
  /\ Cardinality(DOMAIN pat) \in Nat
  /\ \A d \in DOMAIN pat : Place(pat, d) \in Nat /\ Place(pat, d) + 1 \in 1..Cardinality(DOMAIN pat)
  /\ \A d \in DOMAIN pat : IsApp(pat, d) =>
        \A k \in Places(pat, d) : Place(pat, d) < Place(pat, d \o <<k>>)

\* An application comes before its arguments.
LEMMA PlaceFacts == ASSUME NEW pat, IsTree(pat) PROVE PlacesIncrease(pat)
<1> DEFINE R == ReadingOrder(pat)
<1>1. IsFiniteSet(DOMAIN pat) /\ DOMAIN pat \subseteq Seq(Nat)
  BY DEF IsTree
<1>2. Orders(DOMAIN pat, R)
  BY <1>1, PositionsOrdered DEF ReadingOrder
<1>3. \A x, y \in DOMAIN pat : <<x, y>> \in R <=> PositionBefore(x, y)
  BY DEF ReadingOrder
<1> HIDE DEF R
<1>4. /\ \A x \in DOMAIN pat : /\ Rank(DOMAIN pat, R, x) \in Nat
                               /\ Rank(DOMAIN pat, R, x) + 1 \in 1..Cardinality(DOMAIN pat)
      /\ \A x, y \in DOMAIN pat : <<x, y>> \in R <=> Rank(DOMAIN pat, R, x) < Rank(DOMAIN pat, R, y)
  BY <1>1, <1>2, RanksAreExact
<1>5. ASSUME NEW d \in DOMAIN pat, IsApp(pat, d), NEW k \in Places(pat, d)
      PROVE  Rank(DOMAIN pat, R, d) < Rank(DOMAIN pat, R, d \o <<k>>)
  <2>1. d \o <<k>> \in DOMAIN pat /\ d \in Seq(Nat) /\ k \in Nat
    BY <1>5 DEF IsTree, Places
  <2>2. PositionBefore(d, d \o <<k>>)
    BY <2>1, BeforeOrders
  <2> QED BY <1>3, <1>4, <2>1, <2>2
<1>6. Cardinality(DOMAIN pat) \in Nat
  BY <1>1, FS_CardinalityType
<1> QED BY <1>4, <1>5, <1>6 DEF PlacesIncrease, Place, R

\* What holds of a position when it holds of its arguments holds of all.
LEMMA BottomUp ==
  ASSUME NEW pat, IsTree(pat), NEW Q,
         \A d \in DOMAIN pat : (IsApp(pat, d) => \A k \in Places(pat, d) : d \o <<k>> \in Q) => d \in Q
  PROVE  DOMAIN pat \subseteq Q
<1> DEFINE bad == {d \in DOMAIN pat : d \notin Q}
           n == Cardinality(DOMAIN pat)
           T == {n - Place(pat, d) : d \in bad}
<1>1. SUFFICES ASSUME bad # {} PROVE FALSE
  OBVIOUS
<1>2. /\ n \in Nat
      /\ \A d \in DOMAIN pat : Place(pat, d) \in Nat /\ Place(pat, d) + 1 \in 1..n
      /\ \A d \in DOMAIN pat : IsApp(pat, d) =>
            \A k \in Places(pat, d) : Place(pat, d) < Place(pat, d \o <<k>>)
  BY PlaceFacts DEF PlacesIncrease
<1> HIDE DEF n
<1>3. T \subseteq Nat /\ T # {}
  <2>1. \A x \in Nat : x + 1 \in 1..n => n - x \in Nat
    BY <1>2
  <2> QED BY <1>1, <1>2, <2>1
<1>4. PICK t \in T : \A u \in T : t <= u
  <2> HIDE DEF T
  <2> QED BY <1>3, MinExists
<1>5. PICK d \in bad : t = n - Place(pat, d)
  OBVIOUS
<1>6. ASSUME IsApp(pat, d), NEW k \in Places(pat, d) PROVE d \o <<k>> \in Q
  <2> DEFINE e == d \o <<k>>
  <2>1. e \in DOMAIN pat
    BY <1>6 DEF IsTree
  <2>2. Place(pat, d) < Place(pat, e) /\ Place(pat, d) \in Nat /\ Place(pat, e) \in Nat
    BY <1>2, <1>6, <2>1
  <2> HIDE DEF e
  <2>3. ~ (n - Place(pat, d) <= n - Place(pat, e))
    <3>1. \A x, y \in Nat : x < y => ~ (n - x <= n - y)
      BY <1>2
    <3> QED BY <2>2, <3>1
  <2>4. e \notin bad
    BY <1>4, <1>5, <2>3
  <2> QED BY <2>1, <2>4 DEF e
<1> QED BY <1>5, <1>6

-----------------------------------------------------------------------------
(* Matches *)

\* A match gives every position a class: that of an application has an e-node over
\* the classes of its arguments, and the occurrences of a variable have one.
Holds(pat, m, d) ==
  IF IsApp(pat, d)
  THEN \E n \in classes[m[d]] : /\ n.op = Symbol(pat, d)
                                /\ \A k \in Places(pat, d) : m[d \o <<k>>] = n.children[k]
  ELSE m[FirstOf(pat, d)] = m[d]
Matches(pat) == {m \in [DOMAIN pat -> DOMAIN classes] : \A d \in DOMAIN pat : Holds(pat, m, d)}

\* The equation of Denoted.
NodeFor(pat, g, d) ==
  [op |-> Symbol(pat, d), children |-> [k \in 1..Arity[Symbol(pat, d)] |-> g[d \o <<k>>]]]
ClassFor(pat, sigma, g, d) ==
  IF ~ IsApp(pat, d) THEN sigma[pat[d]]
  ELSE IF \E c \in DOMAIN classes : NodeFor(pat, g, d) \in classes[c]
       THEN CHOOSE c \in DOMAIN classes : NodeFor(pat, g, d) \in classes[c]
       ELSE 0
Denotes(pat, sigma, g) == g = [d \in DOMAIN pat |-> ClassFor(pat, sigma, g, d)]
Names(pat) == {pat[d] : d \in {d \in DOMAIN pat : ~ IsApp(pat, d)}}

\* What a position denotes depends on its arguments only.
LEMMA ClassForArguments ==
  ASSUME NEW pat, NEW sigma, NEW g, NEW h, NEW d,
         IsApp(pat, d) => \A k \in Places(pat, d) : g[d \o <<k>>] = h[d \o <<k>>]
  PROVE  ClassFor(pat, sigma, g, d) = ClassFor(pat, sigma, h, d)
<1>1. CASE ~ IsApp(pat, d)
  BY <1>1 DEF ClassFor
<1>2. CASE IsApp(pat, d)
  <2>1. [k \in 1..Arity[Symbol(pat, d)] |-> g[d \o <<k>>]]
          = [k \in 1..Arity[Symbol(pat, d)] |-> h[d \o <<k>>]]
    BY <1>2 DEF Places
  <2>2. NodeFor(pat, g, d) = NodeFor(pat, h, d)
    BY <2>1 DEF NodeFor
  <2> QED BY <1>2, <2>2 DEF ClassFor
<1> QED BY <1>1, <1>2

\* The recursion has a solution: position by position, from the last.
LEMMA DenotedIs ==
  ASSUME NEW pat, IsTree(pat), NEW sigma \in [Names(pat) -> DOMAIN classes]
  PROVE  /\ Denotes(pat, sigma, Denoted(pat, sigma))
         /\ Denoted(pat, sigma) \in [DOMAIN pat -> DOMAIN classes \cup {0}]
<1> DEFINE U == DOMAIN classes \cup {0}
           n == Cardinality(DOMAIN pat)
           place(d) == Place(pat, d)
           body(g, d) == ClassFor(pat, sigma, g, d)
           S == {j \in 0..n : \E g \in [DOMAIN pat -> U] :
                                 \A d \in DOMAIN pat : place(d) >= n - j => g[d] = body(g, d)}
<1>1. /\ n \in Nat
      /\ \A d \in DOMAIN pat : place(d) \in Nat /\ place(d) + 1 \in 1..n
      /\ \A d \in DOMAIN pat : IsApp(pat, d) => \A k \in Places(pat, d) : place(d) < place(d \o <<k>>)
  BY PlaceFacts DEF PlacesIncrease
<1>2. \A g : \A d \in DOMAIN pat : body(g, d) \in U
  <2> TAKE g
  <2> TAKE d \in DOMAIN pat
  <2>1. CASE ~ IsApp(pat, d)
    BY <2>1 DEF ClassFor, Names
  <2>2. CASE IsApp(pat, d)
    <3> DEFINE Of(c) == NodeFor(pat, g, d) \in classes[c]
    <3>1. body(g, d) = IF \E c \in DOMAIN classes : Of(c) THEN CHOOSE c \in DOMAIN classes : Of(c) ELSE 0
      BY <2>2 DEF ClassFor
    <3> HIDE DEF Of, body
    <3> QED BY <3>1
  <2> QED BY <2>1, <2>2
<1>3. \A d \in DOMAIN pat : IsApp(pat, d) => \A k \in Places(pat, d) : d \o <<k>> \in DOMAIN pat
  BY DEF IsTree
<1> HIDE DEF n, place, U
<1>4. 0 \in S
  <2>1. [d \in DOMAIN pat |-> 0] \in [DOMAIN pat -> U]
    BY DEF U
  <2>2. \A d \in DOMAIN pat : ~ (place(d) >= n - 0)
    <3>1. \A x \in Nat : x + 1 \in 1..n => ~ (x >= n - 0)
      BY <1>1
    <3> QED BY <1>1, <3>1
  <2>3. 0 \in 0..n
    BY <1>1
  <2> QED BY <2>1, <2>2, <2>3
<1>5. ASSUME NEW j \in 1..n, j - 1 \in S PROVE j \in S
  <2>1. PICK g \in [DOMAIN pat -> U] : \A d \in DOMAIN pat : place(d) >= n - (j - 1) => g[d] = body(g, d)
    BY <1>5
  <2> DEFINE h == [d \in DOMAIN pat |-> IF place(d) >= n - j THEN body(g, d) ELSE g[d]]
  <2>2. h \in [DOMAIN pat -> U]
    <3> HIDE DEF body
    <3> QED BY <1>2
  <2>3. \A d \in DOMAIN pat : place(d) >= n - (j - 1) => h[d] = g[d]
    <3>1. \A x \in Nat : x >= n - (j - 1) => x >= n - j
      BY <1>1
    <3> HIDE DEF body
    <3> QED BY <1>1, <2>1, <3>1
  <2>4. \A d \in DOMAIN pat : place(d) >= n - j => h[d] = body(g, d)
    <3> HIDE DEF body
    <3> QED OBVIOUS
  <2> HIDE DEF h
  <2>5. ASSUME NEW d \in DOMAIN pat, place(d) >= n - j PROVE h[d] = body(h, d)
    <3>1. ASSUME IsApp(pat, d), NEW k \in Places(pat, d) PROVE g[d \o <<k>>] = h[d \o <<k>>]
      <4>1. d \o <<k>> \in DOMAIN pat /\ place(d) < place(d \o <<k>>)
        BY <1>1, <1>3, <3>1
      <4>2. \A x, y \in Nat : x >= n - j /\ x < y => y >= n - (j - 1)
        BY <1>1
      <4>3. place(d \o <<k>>) >= n - (j - 1)
        BY <1>1, <2>5, <4>1, <4>2
      <4> QED BY <2>3, <4>1, <4>3
    <3>2. body(g, d) = body(h, d)
      BY <3>1, ClassForArguments
    <3> QED BY <2>4, <2>5, <3>2
  <2>6. j \in 0..n
    BY <1>1
  <2> QED BY <2>2, <2>5, <2>6
<1>6. n \in S
  <2>1. 0..n \subseteq S
    <3> HIDE DEF S
    <3> QED BY <1>1, <1>4, <1>5, CountUp
  <2>2. n \in 0..n
    BY <1>1
  <2> HIDE DEF S
  <2> QED BY <2>1, <2>2
<1>7. PICK g \in [DOMAIN pat -> U] : \A d \in DOMAIN pat : g[d] = body(g, d)
  <2>1. PICK g \in [DOMAIN pat -> U] : \A d \in DOMAIN pat : place(d) >= n - n => g[d] = body(g, d)
    BY <1>6
  <2>2. \A d \in DOMAIN pat : place(d) >= n - n
    BY <1>1
  <2> HIDE DEF body
  <2> QED BY <2>1, <2>2
<1>8. \E f : Denotes(pat, sigma, f)
  <2>1. g = [d \in DOMAIN pat |-> g[d]]
    OBVIOUS
  <2>2. Denotes(pat, sigma, g)
    BY <1>7, <2>1 DEF Denotes
  <2> QED BY <2>2
<1>9. Denoted(pat, sigma) = CHOOSE f : Denotes(pat, sigma, f)
  BY DEF Denoted, Denotes, ClassFor, NodeFor
<1>10. Denotes(pat, sigma, Denoted(pat, sigma))
  BY <1>8, <1>9
<1>11. Denoted(pat, sigma) \in [DOMAIN pat -> U]
  <2> HIDE DEF body
  <2>1. \A f : f = [d \in DOMAIN pat |-> body(f, d)] => f \in [DOMAIN pat -> U]
    BY <1>2
  <2>2. Denoted(pat, sigma) = [d \in DOMAIN pat |-> body(Denoted(pat, sigma), d)]
    BY <1>10 DEF Denotes, body
  <2> QED BY <2>1, <2>2
<1> QED BY <1>10, <1>11 DEF U

\* An e-node of a class under its symbol and children is that e-node.
LEMMA NodeIs ==
  ASSUME Ready, NEW pat, IsTree(pat), NEW d \in DOMAIN pat, IsApp(pat, d), NEW g,
         NEW c \in DOMAIN classes
  PROVE  NodeFor(pat, g, d) \in classes[c] <=>
           \E n \in classes[c] : /\ n.op = Symbol(pat, d)
                                 /\ \A k \in Places(pat, d) : g[d \o <<k>>] = n.children[k]
<1> DEFINE node == NodeFor(pat, g, d)
<1>1. /\ node.op = Symbol(pat, d) /\ node = [op |-> node.op, children |-> node.children]
      /\ node.children = [k \in 1..Arity[Symbol(pat, d)] |-> g[d \o <<k>>]]
  BY DEF NodeFor
<1>2. \A k \in Places(pat, d) : node.children[k] = g[d \o <<k>>]
  BY <1>1 DEF Places
<1> HIDE DEF node
<1>3. ASSUME NEW n \in classes[c], n.op = Symbol(pat, d),
             \A k \in Places(pat, d) : g[d \o <<k>>] = n.children[k]
      PROVE  n = node
  <2>1. /\ n = [op |-> n.op, children |-> n.children]
        /\ n.children \in [1..Arity[n.op] -> DOMAIN classes]
    BY DEF Ready, NodeOver
  <2>2. n.children = node.children
    BY <1>1, <1>2, <1>3, <2>1 DEF Places
  <2> QED BY <1>1, <1>3, <2>1, <2>2
<1> QED BY <1>1, <1>2, <1>3 DEF node

\* Represented finds the matches and nothing else.
LEMMA RepresentedIs ==
  ASSUME Ready, NEW pat \in Patterns
  PROVE  Represented(pat) = Answers(pat, Matches(pat))
<1> DEFINE C == DOMAIN classes
           P == DOMAIN pat
           instances == {Denoted(pat, sigma) : sigma \in [Names(pat) -> C]}
           found == {i \in instances : \A d \in P : i[d] # 0}
<1>1. IsTree(pat)
  BY PatternsAreTrees
<1>2. FirstsStand(pat)
  BY <1>1, FirstFacts
<1>3. ASSUME NEW sigma \in [Names(pat) -> C], \A d \in P : Denoted(pat, sigma)[d] # 0
      PROVE  Denoted(pat, sigma) \in Matches(pat)
  <2> DEFINE g == Denoted(pat, sigma)
  <2>1. Denotes(pat, sigma, g) /\ g \in [P -> C \cup {0}]
    BY <1>1, DenotedIs
  <2>2. \A d \in P : g[d] # 0
    BY <1>3
  <2> HIDE DEF g
  <2>3. g \in [P -> C]
    BY <2>1, <2>2
  <2>4. \A d \in P : g[d] = ClassFor(pat, sigma, g, d)
    BY <2>1 DEF Denotes
  <2>5. ASSUME NEW d \in P, IsApp(pat, d) PROVE Holds(pat, g, d)
    <3> DEFINE Of(c) == NodeFor(pat, g, d) \in classes[c]
    <3>1. g[d] = IF \E c \in C : Of(c) THEN CHOOSE c \in C : Of(c) ELSE 0
      BY <2>4, <2>5 DEF ClassFor
    <3>2. g[d] \in C /\ Of(g[d])
      <4> HIDE DEF Of
      <4> QED BY <2>2, <3>1
    <3> QED BY <1>1, <2>5, <3>2, NodeIs DEF Holds
  <2>6. ASSUME NEW d \in P, ~ IsApp(pat, d) PROVE Holds(pat, g, d)
    <3>1. FirstOf(pat, d) \in P /\ ~ IsApp(pat, FirstOf(pat, d)) /\ pat[FirstOf(pat, d)] = pat[d]
      BY <1>2, <2>6 DEF FirstsStand
    <3>2. g[FirstOf(pat, d)] = sigma[pat[d]] /\ g[d] = sigma[pat[d]]
      BY <2>4, <2>6, <3>1 DEF ClassFor
    <3> QED BY <2>6, <3>2 DEF Holds
  <2>7. g \in Matches(pat)
    BY <2>3, <2>5, <2>6 DEF Matches
  <2> QED BY <2>7 DEF g
<1>4. ASSUME NEW m \in Matches(pat)
      PROVE  \E sigma \in [Names(pat) -> C] : Denoted(pat, sigma) = m
  <2> DEFINE sigma == [x \in Names(pat) |-> m[CHOOSE d \in P : ~ IsApp(pat, d) /\ pat[d] = x]]
  <2>1. m \in [P -> C] /\ \A d \in P : Holds(pat, m, d)
    BY DEF Matches
  <2>2. ASSUME NEW d \in P, ~ IsApp(pat, d) PROVE pat[d] \in Names(pat) /\ sigma[pat[d]] = m[d]
    <3> DEFINE Of(e) == ~ IsApp(pat, e) /\ pat[e] = pat[d]
               e == CHOOSE e \in P : Of(e)
    <3>1. Of(d) /\ pat[d] \in Names(pat) /\ sigma[pat[d]] = m[e]
      BY <2>2 DEF Names
    <3>2. e \in P /\ Of(e)
      <4> HIDE DEF Of
      <4> QED BY <3>1
    <3> HIDE DEF e
    <3>3. FirstOf(pat, e) = FirstOf(pat, d)
      BY <1>2, <2>2, <3>2 DEF FirstsStand
    <3>4. m[e] = m[d]
      BY <2>1, <2>2, <3>2, <3>3 DEF Holds
    <3> QED BY <3>1, <3>4
  <2>3. sigma \in [Names(pat) -> C]
    <3>1. ASSUME NEW x \in Names(pat) PROVE sigma[x] \in C
      <4>1. PICK d \in P : ~ IsApp(pat, d) /\ pat[d] = x
        BY DEF Names
      <4>2. sigma[x] = m[d]
        BY <2>2, <4>1
      <4> QED BY <2>1, <4>2
    <3>2. sigma = [x \in Names(pat) |-> sigma[x]]
      OBVIOUS
    <3> HIDE DEF sigma
    <3> QED BY <3>1, <3>2
  <2> DEFINE g == Denoted(pat, sigma)
             Q == {d \in P : g[d] = m[d]}
  <2>4. Denotes(pat, sigma, g) /\ g \in [P -> C \cup {0}]
    <3> HIDE DEF sigma
    <3> QED BY <1>1, <2>3, DenotedIs
  <2> HIDE DEF sigma, g
  <2>5. \A d \in P : g[d] = ClassFor(pat, sigma, g, d)
    BY <2>4 DEF Denotes
  <2>6. ASSUME NEW d \in P, IsApp(pat, d) => \A k \in Places(pat, d) : d \o <<k>> \in Q
        PROVE  d \in Q
    <3>1. CASE ~ IsApp(pat, d)
      BY <2>2, <2>5, <3>1 DEF ClassFor
    <3>2. CASE IsApp(pat, d)
      <4> DEFINE Of(c) == NodeFor(pat, g, d) \in classes[c]
      <4>1. PICK n \in classes[m[d]] : /\ n.op = Symbol(pat, d)
                                       /\ \A k \in Places(pat, d) : m[d \o <<k>>] = n.children[k]
        BY <2>1, <3>2 DEF Holds
      <4>2. \A k \in Places(pat, d) : g[d \o <<k>>] = n.children[k]
        BY <2>6, <3>2, <4>1
      <4>3. m[d] \in C
        BY <2>1
      <4>4. Of(m[d])
        BY <1>1, <3>2, <4>1, <4>2, <4>3, NodeIs
      <4>5. \A c \in C : Of(c) => c = m[d]
        BY <4>3, <4>4 DEF Ready
      <4>6. g[d] = IF \E c \in C : Of(c) THEN CHOOSE c \in C : Of(c) ELSE 0
        BY <2>5, <3>2 DEF ClassFor
      <4>7. g[d] = m[d]
        <5> HIDE DEF Of
        <5> QED BY <4>3, <4>4, <4>5, <4>6
      <4> QED BY <4>7
    <3> QED BY <3>1, <3>2
  <2>7. P \subseteq Q
    <3> HIDE DEF Q
    <3> QED BY <1>1, <2>6, BottomUp
  <2>8. g = m
    BY <2>1, <2>4, <2>7
  <2> QED BY <2>3, <2>8 DEF g
<1>5. ASSUME NEW m \in Matches(pat) PROVE m \in found
  <2>1. m \in [P -> C] /\ 0 \notin C
    BY DEF Matches, Ready
  <2>2. m \in instances
    BY <1>4
  <2> QED BY <2>1, <2>2
<1>6. found = Matches(pat)
  BY <1>3, <1>5
<1>7. Represented(pat) = Answers(pat, found)
  BY DEF Represented, Names
<1> QED BY <1>6, <1>7

-----------------------------------------------------------------------------
(* The walk *)

\* The registers that are set after the positions of Q, and the register files that
\* agree with the e-graph on Q.
Reached(pat, Q) == {e \in DOMAIN pat : e \in Q \/ (~ IsRoot(e) /\ Front(e) \in Q)}
FilesAt(pat, Q) ==
  {r \in [Reached(pat, Q) -> DOMAIN classes] : \A d \in Q : Holds(pat, r, d)}

\* The walk comes to d: it has done the positions before d and no others.
At(pat, Q, d) ==
  d \in DOMAIN pat /\ \A e \in DOMAIN pat : e \in Q <=> PositionBefore(e, d)

\* What a position asks is about its register and those of its arguments and of the
\* first occurrence.
LEMMA HoldsOf ==
  ASSUME NEW pat, NEW d, NEW r, NEW s, r[d] = s[d], r[FirstOf(pat, d)] = s[FirstOf(pat, d)],
         IsApp(pat, d) => \A k \in Places(pat, d) : r[d \o <<k>>] = s[d \o <<k>>]
  PROVE  Holds(pat, r, d) <=> Holds(pat, s, d)
BY DEF Holds

\* The registers that the step for d sets, and those that the positions before
\* use.
WalkIsAt(pat, Q, d) ==
  LET reached == Reached(pat, Q) IN
  /\ Q \subseteq DOMAIN pat /\ d \notin Q /\ Q \subseteq reached
  /\ reached \subseteq DOMAIN pat
  /\ IsRoot(d) <=> d \notin reached
  /\ \A e \in Q : /\ FirstOf(pat, e) \in reached
                  /\ IsApp(pat, e) => \A k \in Places(pat, e) : e \o <<k>> \in reached
  /\ ~ IsApp(pat, d) => FirstOf(pat, d) \in reached /\ d \in reached
  /\ IsApp(pat, d) => /\ \A k \in Places(pat, d) : d \o <<k>> \notin reached \cup {d}
                      /\ Reached(pat, Q \cup {d}) =
                            reached \cup {d} \cup {d \o <<k>> : k \in Places(pat, d)}
  /\ ~ IsApp(pat, d) => Reached(pat, Q \cup {d}) = reached

\* They are so when the walk comes to d: only a root's own register is unset, and the
\* registers of the arguments are.
LEMMA WalkFacts ==
  ASSUME NEW pat, IsTree(pat), NEW Q \in SUBSET (DOMAIN pat), NEW d, At(pat, Q, d)
  PROVE  WalkIsAt(pat, Q, d)
<1> DEFINE P == DOMAIN pat
           reached == Reached(pat, Q)
<1>1. /\ P \subseteq Seq(Nat) /\ d \in P
      /\ \A e \in P : e \in Q <=> PositionBefore(e, d)
  BY DEF IsTree, At
<1>2. /\ \A e \in P : ~ PositionBefore(e, e)
      /\ \A a, b, c \in P : PositionBefore(a, b) /\ PositionBefore(b, c) => PositionBefore(a, c)
      /\ \A e \in P, k \in Nat : PositionBefore(e, e \o <<k>>)
  BY <1>1, BeforeOrders
<1>3. FirstsStand(pat)
  BY FirstFacts
<1>4. \A e \in P : IsApp(pat, e) => \A k \in Places(pat, e) : /\ k \in Nat /\ e \o <<k>> \in P
                                                              /\ Front(e \o <<k>>) = e
                                                              /\ Last(e \o <<k>>) = k
                                                              /\ ~ IsRoot(e \o <<k>>)
  <2>1. ASSUME NEW e \in P, IsApp(pat, e), NEW k \in Places(pat, e) PROVE k \in Nat /\ e \o <<k>> \in P
    BY <2>1 DEF IsTree, Places
  <2>2. \A e \in P, k \in Nat : Front(e \o <<k>>) = e /\ Last(e \o <<k>>) = k /\ ~ IsRoot(e \o <<k>>)
    BY DEF IsTree
  <2> QED BY <2>1, <2>2
<1>5. \A e \in P : IF IsRoot(e) THEN IsApp(pat, e)
                   ELSE /\ Front(e) \in P /\ IsApp(pat, Front(e)) /\ Last(e) \in Places(pat, Front(e))
                        /\ e = Front(e) \o <<Last(e)>>
  BY DEF IsTree
<1>6. ASSUME NEW e \in P, ~ IsRoot(e) PROVE PositionBefore(Front(e), e)
  <2>1. PICK f \in P : f = Front(e) /\ IsApp(pat, f) /\ \E k \in Places(pat, f) : e = f \o <<k>>
    BY <1>5, <1>6
  <2>2. \A k \in Places(pat, f) : PositionBefore(f, f \o <<k>>)
    BY <1>2, <1>4, <2>1
  <2> QED BY <2>1, <2>2
<1>7. \A e : e \in reached <=> e \in P /\ (e \in Q \/ (~ IsRoot(e) /\ Front(e) \in Q))
  BY DEF Reached
<1>8. \A e : e \in Reached(pat, Q \cup {d})
               <=> e \in P /\ (e \in Q \cup {d} \/ (~ IsRoot(e) /\ Front(e) \in Q \cup {d}))
  BY DEF Reached
<1> HIDE DEF reached
<1>9. Q \subseteq P /\ d \notin Q /\ Q \subseteq reached /\ reached \subseteq P
  BY <1>1, <1>2, <1>7
<1>10. IsRoot(d) <=> d \notin reached
  BY <1>1, <1>5, <1>6, <1>7, <1>9
<1>11. \A e \in P : PositionBefore(e, d) => FirstOf(pat, e) \in Q
  BY <1>1, <1>2, <1>3 DEF FirstsStand
<1>12. \A e \in Q : /\ FirstOf(pat, e) \in reached
                    /\ IsApp(pat, e) => \A k \in Places(pat, e) : e \o <<k>> \in reached
  BY <1>1, <1>4, <1>7, <1>9, <1>11
<1>13. ~ IsApp(pat, d) => FirstOf(pat, d) \in reached /\ d \in reached
  <2>1. ~ IsApp(pat, d) => d \in reached
    BY <1>1, <1>5, <1>10
  <2>2. FirstOf(pat, d) = d \/ FirstOf(pat, d) \in Q
    BY <1>1, <1>3 DEF FirstsStand
  <2> QED BY <1>9, <2>1, <2>2
<1>14. ASSUME IsApp(pat, d), NEW k \in Places(pat, d) PROVE d \o <<k>> \notin reached \cup {d}
  <2> DEFINE e == d \o <<k>>
  <2>1. e \in P /\ Front(e) = d /\ PositionBefore(d, e)
    BY <1>1, <1>2, <1>4, <1>14
  <2> HIDE DEF e
  <2>2. e \notin Q /\ e # d
    BY <1>1, <1>2, <2>1
  <2>3. e \notin reached
    BY <1>7, <1>9, <2>1, <2>2
  <2> QED BY <2>2, <2>3 DEF e
<1>15. ASSUME NEW e PROVE e \in Reached(pat, Q \cup {d})
                            <=> e \in reached \cup {d} \/ (e \in P /\ ~ IsRoot(e) /\ Front(e) = d)
  BY <1>1, <1>7, <1>8
<1>16. ASSUME IsApp(pat, d)
       PROVE  Reached(pat, Q \cup {d}) = reached \cup {d} \cup {d \o <<k>> : k \in Places(pat, d)}
  <2>1. \A e : (e \in P /\ ~ IsRoot(e) /\ Front(e) = d) <=> \E k \in Places(pat, d) : e = d \o <<k>>
    BY <1>1, <1>4, <1>5, <1>16
  <2> QED BY <1>15, <2>1
<1>17. ASSUME ~ IsApp(pat, d) PROVE Reached(pat, Q \cup {d}) = reached
  <2>1. \A e : ~ (e \in P /\ ~ IsRoot(e) /\ Front(e) = d)
    BY <1>5, <1>17
  <2> QED BY <1>13, <1>15, <1>17, <2>1
<1> QED BY <1>9, <1>10, <1>12, <1>13, <1>14, <1>16, <1>17 DEF WalkIsAt, reached

\* The register files on which the instructions for d run: for a root, those that
\* Scan makes.
Scanned(pat, Q, d) ==
  {r \in [Reached(pat, Q) \cup {d} -> DOMAIN classes] :
     /\ \A e \in Q : Holds(pat, r, e)
     /\ IsRoot(d) => \E n \in classes[r[d]] : n.op = Symbol(pat, d)}

\* Scan extends what the walk has by every class with the symbol of the root.
LEMMA ScanRootIs ==
  ASSUME Ready, NEW pat, IsTree(pat), NEW Q \in SUBSET (DOMAIN pat), NEW d, At(pat, Q, d)
  PROVE  (IF IsRoot(d) THEN UNION {ScanRoot(pat, d, regs) : regs \in FilesAt(pat, Q)} ELSE FilesAt(pat, Q))
           = Scanned(pat, Q, d)
<1> DEFINE D == Reached(pat, Q)
           C == DOMAIN classes
           opened == UNION {ScanRoot(pat, d, regs) : regs \in FilesAt(pat, Q)}
<1>1. /\ Q \subseteq D
      /\ IsRoot(d) <=> d \notin D
      /\ \A e \in Q : /\ FirstOf(pat, e) \in D
                      /\ IsApp(pat, e) => \A k \in Places(pat, e) : e \o <<k>> \in D
  BY WalkFacts DEF WalkIsAt
<1> HIDE DEF D
<1>2. ASSUME NEW r, NEW s, \A e \in D : r[e] = s[e], NEW e \in Q PROVE Holds(pat, r, e) <=> Holds(pat, s, e)
  BY <1>1, <1>2, HoldsOf
<1>3. \A r : r \in FilesAt(pat, Q) <=> r \in [D -> C] /\ \A e \in Q : Holds(pat, r, e)
  BY DEF FilesAt, D
<1>4. \A r : r \in Scanned(pat, Q, d) <=> /\ r \in [D \cup {d} -> C]
                                          /\ \A e \in Q : Holds(pat, r, e)
                                          /\ IsRoot(d) => \E n \in classes[r[d]] : n.op = Symbol(pat, d)
  BY DEF Scanned, D
<1>5. CASE ~ IsRoot(d)
  <2>1. D \cup {d} = D
    BY <1>1, <1>5
  <2>2. FilesAt(pat, Q) = Scanned(pat, Q, d)
    BY <1>3, <1>4, <1>5, <2>1
  <2> QED BY <1>5, <2>2
<1>6. CASE IsRoot(d)
  <2>1. d \notin D
    BY <1>1, <1>6
  <2>2. \A c : c \in ClassesWithOp(Symbol(pat, d)) <=> c \in C /\ \E n \in classes[c] : n.op = Symbol(pat, d)
    BY DEF ClassesWithOp
  <2>3. ASSUME NEW regs \in FilesAt(pat, Q), NEW c \in ClassesWithOp(Symbol(pat, d))
        PROVE  With(regs, d, c) \in Scanned(pat, Q, d)
    <3> DEFINE r == With(regs, d, c)
    <3>1. regs \in [D -> C] /\ \A e \in Q : Holds(pat, regs, e)
      BY <1>3
    <3>2. r = [e \in D \cup {d} |-> IF e = d THEN c ELSE regs[e]]
      BY <3>1 DEF With
    <3> HIDE DEF r
    <3>3. r \in [D \cup {d} -> C] /\ r[d] = c /\ \A e \in D : r[e] = regs[e]
      BY <2>1, <2>2, <3>1, <3>2
    <3>4. \A e \in Q : Holds(pat, r, e)
      BY <1>2, <3>1, <3>3
    <3>5. r \in Scanned(pat, Q, d)
      BY <1>4, <2>2, <3>3, <3>4
    <3> QED BY <3>5 DEF r
  <2>4. ASSUME NEW r \in Scanned(pat, Q, d) PROVE r \in opened
    <3> DEFINE regs == [e \in D |-> r[e]]
    <3>1. /\ r \in [D \cup {d} -> C] /\ \A e \in Q : Holds(pat, r, e)
          /\ \E n \in classes[r[d]] : n.op = Symbol(pat, d)
      BY <1>4, <1>6
    <3>2. regs \in [D -> C] /\ \A e \in D : regs[e] = r[e]
      BY <3>1
    <3> HIDE DEF regs
    <3>3. regs \in FilesAt(pat, Q)
      BY <1>2, <1>3, <3>1, <3>2
    <3>4. r[d] \in ClassesWithOp(Symbol(pat, d))
      BY <2>2, <3>1
    <3>5. r = With(regs, d, r[d])
      <4>1. With(regs, d, r[d]) = [e \in D \cup {d} |-> IF e = d THEN r[d] ELSE regs[e]]
        BY <3>2 DEF With
      <4> QED BY <3>1, <3>2, <4>1
    <3> QED BY <3>3, <3>4, <3>5 DEF ScanRoot
  <2>5. \A r \in opened : r \in Scanned(pat, Q, d)
    BY <2>3 DEF ScanRoot
  <2>6. opened = Scanned(pat, Q, d)
    <3> HIDE DEF opened
    <3> QED BY <2>4, <2>5
  <2> QED BY <1>6, <2>6
<1> QED BY <1>5, <1>6

\* Bind takes every e-node of the symbol in the class of an application.
LEMMA BindIs ==
  ASSUME Ready, NEW pat, IsTree(pat), NEW Q \in SUBSET (DOMAIN pat), NEW d, At(pat, Q, d),
         IsApp(pat, d)
  PROVE  UNION {Bind(pat, d, regs) : regs \in Scanned(pat, Q, d)} = FilesAt(pat, Q \cup {d})
<1> DEFINE D == Reached(pat, Q)
           E == D \cup {d}
           args == {d \o <<k>> : k \in Places(pat, d)}
           C == DOMAIN classes
           bound == UNION {Bind(pat, d, regs) : regs \in Scanned(pat, Q, d)}
           Bound(regs, n) == [e \in E \cup args |-> IF e \in E THEN regs[e] ELSE n.children[Last(e)]]
<1>1. /\ Q \subseteq D /\ d \in DOMAIN pat
      /\ \A e \in Q : /\ FirstOf(pat, e) \in D
                      /\ IsApp(pat, e) => \A k \in Places(pat, e) : e \o <<k>> \in D
      /\ \A k \in Places(pat, d) : d \o <<k>> \notin E
      /\ Reached(pat, Q \cup {d}) = E \cup args
  BY WalkFacts DEF WalkIsAt, At
<1>2. FirstOf(pat, d) = d
  BY <1>1, FirstFacts DEF FirstsStand
<1>3. \A k \in Places(pat, d) : Last(d \o <<k>>) = k
  <2>1. \A k \in Places(pat, d) : k \in Nat
    BY DEF Places
  <2>2. \A k \in Nat : Last(d \o <<k>>) = k
    BY <1>1 DEF IsTree
  <2> QED BY <2>1, <2>2
<1>4. Range(Arguments(pat, d)) = args
  BY DEF Range, Arguments, Places
<1> HIDE DEF D, args
<1>5. ASSUME NEW r, NEW s, \A e \in D : r[e] = s[e], NEW e \in Q PROVE Holds(pat, r, e) <=> Holds(pat, s, e)
  BY <1>1, <1>5, HoldsOf
<1>6. \A r : r \in FilesAt(pat, Q \cup {d})
               <=> r \in [E \cup args -> C] /\ Holds(pat, r, d) /\ \A e \in Q : Holds(pat, r, e)
  BY <1>1 DEF FilesAt
<1>7. \A r : r \in Scanned(pat, Q, d) <=> /\ r \in [E -> C]
                                          /\ \A e \in Q : Holds(pat, r, e)
                                          /\ IsRoot(d) => \E n \in classes[r[d]] : n.op = Symbol(pat, d)
  BY DEF Scanned, D
<1>8. ASSUME NEW regs \in Scanned(pat, Q, d)
      PROVE  Bind(pat, d, regs) = {Bound(regs, n) : n \in {n \in classes[regs[d]] : n.op = Symbol(pat, d)}}
  <2>1. DOMAIN regs = E /\ regs[d] \in C
    BY <1>7
  <2>2. NodesOf(regs[d]) = classes[regs[d]]
    BY <2>1 DEF NodesOf, Ready
  <2> QED BY <1>4, <2>1, <2>2 DEF Bind
<1>9. ASSUME NEW n, NodeOver(n, C), n.op = Symbol(pat, d)
      PROVE  \A k \in Places(pat, d) : n.children[k] \in C
  BY <1>9 DEF NodeOver, Places
<1> HIDE DEF E
<1>10. ASSUME NEW regs \in Scanned(pat, Q, d), NEW n \in classes[regs[d]], n.op = Symbol(pat, d)
      PROVE  Bound(regs, n) \in FilesAt(pat, Q \cup {d})
  <2> DEFINE r == Bound(regs, n)
  <2>1. regs \in [E -> C] /\ (\A e \in Q : Holds(pat, regs, e)) /\ d \in E /\ regs[d] \in C
    BY <1>7 DEF E
  <2>2. NodeOver(n, C)
    BY <2>1 DEF Ready
  <2>3. \A e \in E : r[e] = regs[e]
    OBVIOUS
  <2>4. \A k \in Places(pat, d) : r[d \o <<k>>] = n.children[k]
    <3>1. \A k \in Places(pat, d) : d \o <<k>> \in args
      BY DEF args
    <3> QED BY <1>1, <1>3, <3>1
  <2>5. r \in [E \cup args -> C]
    <3>1. \A e \in args : \E k \in Places(pat, d) : e = d \o <<k>>
      BY DEF args
    <3>2. \A e \in args : r[e] \in C
      <4> HIDE DEF r
      <4> QED BY <1>9, <1>10, <2>2, <2>4, <3>1
    <3>3. \A e \in E : r[e] \in C
      BY <2>1, <2>3
    <3>4. r = [e \in E \cup args |-> r[e]]
      OBVIOUS
    <3> HIDE DEF r
    <3> QED BY <3>2, <3>3, <3>4
  <2> HIDE DEF r
  <2>6. Holds(pat, r, d)
    <3>1. r[d] = regs[d]
      BY <2>1, <2>3
    <3> QED BY <1>10, <2>4, <3>1 DEF Holds
  <2>7. \A e \in Q : Holds(pat, r, e)
    BY <1>5, <2>1, <2>3 DEF E
  <2>8. r \in FilesAt(pat, Q \cup {d})
    BY <1>6, <2>5, <2>6, <2>7
  <2> QED BY <2>8 DEF r
<1>11. ASSUME NEW r \in FilesAt(pat, Q \cup {d})
       PROVE  \E regs \in Scanned(pat, Q, d) : \E n \in classes[regs[d]] :
                n.op = Symbol(pat, d) /\ r = Bound(regs, n)
  <2> DEFINE regs == [e \in E |-> r[e]]
  <2>1. /\ r \in [E \cup args -> C] /\ Holds(pat, r, d) /\ \A e \in Q : Holds(pat, r, e)
    BY <1>6
  <2>2. PICK n \in classes[r[d]] : /\ n.op = Symbol(pat, d)
                                   /\ \A k \in Places(pat, d) : r[d \o <<k>>] = n.children[k]
    BY <2>1 DEF Holds
  <2>3. d \in E /\ regs \in [E -> C] /\ \A e \in E : regs[e] = r[e]
    BY <2>1 DEF E
  <2> HIDE DEF regs
  <2>4. regs \in Scanned(pat, Q, d)
    <3>1. \A e \in Q : Holds(pat, regs, e)
      BY <1>5, <2>1, <2>3 DEF E
    <3> QED BY <1>7, <2>2, <2>3, <3>1
  <2>5. r = Bound(regs, n)
    <3>1. ASSUME NEW e \in args, e \notin E PROVE r[e] = n.children[Last(e)]
      <4>1. PICK k \in Places(pat, d) : e = d \o <<k>>
        BY <3>1 DEF args
      <4> QED BY <1>3, <2>2, <4>1
    <3>2. \A e \in E \cup args : r[e] = Bound(regs, n)[e]
      BY <2>3, <3>1
    <3>3. Bound(regs, n) = [e \in E \cup args |-> Bound(regs, n)[e]]
      OBVIOUS
    <3> HIDE DEF Bound
    <3> QED BY <2>1, <3>2, <3>3
  <2> QED BY <2>2, <2>3, <2>4, <2>5
<1> HIDE DEF Bound
<1>12. \A r : r \in bound <=> \E regs \in Scanned(pat, Q, d) : \E n \in classes[regs[d]] :
                n.op = Symbol(pat, d) /\ r = Bound(regs, n)
  BY <1>8
<1> HIDE DEF bound
<1>13. bound = FilesAt(pat, Q \cup {d})
  BY <1>10, <1>11, <1>12
<1> QED BY <1>13 DEF bound

\* Compare keeps the files in which a variable has the class of its first
\* occurrence.
LEMMA CompareIs ==
  ASSUME Ready, NEW pat \in Patterns, IsTree(pat), NEW Q \in SUBSET (DOMAIN pat), NEW d, At(pat, Q, d),
         ~ IsApp(pat, d)
  PROVE  {regs \in Scanned(pat, Q, d) : Compare(pat, d, regs)} = FilesAt(pat, Q \cup {d})
<1> DEFINE D == Reached(pat, Q)
           C == DOMAIN classes
<1>1. /\ Q \subseteq D /\ d \in DOMAIN pat
      /\ FirstOf(pat, d) \in D /\ d \in D /\ ~ IsRoot(d)
      /\ Reached(pat, Q \cup {d}) = D
  BY WalkFacts DEF WalkIsAt, At
<1>2. Query[pat].first[d] = FirstOf(pat, d)
  BY <1>1 DEF Query
<1>3. \A r : r \in FilesAt(pat, Q \cup {d})
               <=> r \in [D -> C] /\ Holds(pat, r, d) /\ \A e \in Q : Holds(pat, r, e)
  BY <1>1 DEF FilesAt
<1>4. \A r : r \in Scanned(pat, Q, d) <=> r \in [D -> C] /\ \A e \in Q : Holds(pat, r, e)
  <2>1. D \cup {d} = D
    BY <1>1
  <2> QED BY <1>1, <2>1 DEF Scanned
<1> HIDE DEF D
<1>5. ASSUME NEW r \in [D -> C] PROVE Compare(pat, d, r) <=> Holds(pat, r, d)
  <2>1. r[FirstOf(pat, d)] \in C /\ r[d] \in C
    BY <1>1
  <2>2. Find(r[FirstOf(pat, d)]) = r[FirstOf(pat, d)] /\ Find(r[d]) = r[d]
    BY <2>1 DEF Ready
  <2> QED BY <1>2, <2>2 DEF Compare, Holds
<1> QED BY <1>3, <1>4, <1>5

\* One step of the walk leaves the files that agree with the e-graph on one position
\* more.
LEMMA ExecuteIs ==
  ASSUME Ready, NEW pat \in Patterns, NEW Q \in SUBSET (DOMAIN pat), NEW d, At(pat, Q, d)
  PROVE  Execute(pat, FilesAt(pat, Q), d) = FilesAt(pat, Q \cup {d})
<1> DEFINE scanned == IF IsRoot(d) THEN UNION {ScanRoot(pat, d, regs) : regs \in FilesAt(pat, Q)}
                      ELSE FilesAt(pat, Q)
<1>1. IsTree(pat)
  BY PatternsAreTrees
<1>2. scanned = Scanned(pat, Q, d)
  BY <1>1, ScanRootIs
<1>3. Execute(pat, FilesAt(pat, Q), d) =
        IF IsApp(pat, d) THEN UNION {Bind(pat, d, regs) : regs \in scanned}
        ELSE {regs \in scanned : Compare(pat, d, regs)}
  BY DEF Execute
<1> HIDE DEF scanned
<1>4. CASE IsApp(pat, d)
  BY <1>1, <1>2, <1>3, <1>4, BindIs
<1>5. CASE ~ IsApp(pat, d)
  BY <1>1, <1>2, <1>3, <1>5, CompareIs
<1> QED BY <1>4, <1>5

\* Register files of any shape: what a loop over positions may hold.
Files(pat) == SUBSET (UNION {[D -> DOMAIN classes] : D \in SUBSET (DOMAIN pat)})

\* A register file has registers for positions.
LEMMA FilesType ==
  ASSUME NEW pat, NEW files
  PROVE  /\ files \in Files(pat) => \A r \in files : /\ DOMAIN r \subseteq DOMAIN pat
                                                     /\ r \in [DOMAIN r -> DOMAIN classes]
         /\ (\A r \in files : \E D \in SUBSET (DOMAIN pat) : r \in [D -> DOMAIN classes])
               => files \in Files(pat)
BY DEF Files

\* Whatever the files are, a step leaves files.
LEMMA ExecuteType ==
  ASSUME Ready, NEW pat, IsTree(pat), NEW files \in Files(pat), NEW d \in DOMAIN pat
  PROVE  Execute(pat, files, d) \in Files(pat)
<1> DEFINE C == DOMAIN classes
           P == DOMAIN pat
           args == {d \o <<k>> : k \in Places(pat, d)}
           opened == UNION {ScanRoot(pat, d, regs) : regs \in files}
           scanned == IF IsRoot(d) THEN opened ELSE files
<1>1. \A r \in files : DOMAIN r \subseteq P /\ r \in [DOMAIN r -> C]
  BY FilesType
<1>2. ASSUME NEW regs \in files, NEW r \in ScanRoot(pat, d, regs)
      PROVE  \E D \in SUBSET P : r \in [D -> C]
  <2>1. PICK c \in C : r = With(regs, d, c)
    BY <1>2 DEF ScanRoot, ClassesWithOp
  <2>2. r = [e \in DOMAIN regs \cup {d} |-> IF e = d THEN c ELSE regs[e]]
    BY <2>1 DEF With
  <2>3. r \in [DOMAIN regs \cup {d} -> C] /\ DOMAIN regs \cup {d} \in SUBSET P
    BY <1>1, <2>2
  <2> QED BY <2>3
<1>3. \A r \in scanned : DOMAIN r \subseteq P /\ r \in [DOMAIN r -> C]
  <2>1. opened \in Files(pat)
    <3>1. \A r \in opened : \E D \in SUBSET P : r \in [D -> C]
      BY <1>2
    <3> HIDE DEF opened
    <3> QED BY <3>1, FilesType
  <2>2. scanned \in Files(pat)
    BY <2>1
  <2> HIDE DEF scanned
  <2> QED BY <2>2, FilesType
<1>4. Execute(pat, files, d) =
        IF IsApp(pat, d) THEN UNION {Bind(pat, d, regs) : regs \in scanned}
        ELSE {regs \in scanned : Compare(pat, d, regs)}
  BY DEF Execute
<1> HIDE DEF scanned
<1>5. CASE ~ IsApp(pat, d)
  <2>1. \A r \in Execute(pat, files, d) : DOMAIN r \in SUBSET P /\ r \in [DOMAIN r -> C]
    BY <1>3, <1>4, <1>5
  <2> QED BY <2>1, FilesType
<1>6. CASE IsApp(pat, d)
  <2>1. Range(Arguments(pat, d)) = args
    BY DEF Range, Arguments, Places
  <2>2. args \subseteq P
    BY <1>6 DEF IsTree
  <2>3. ASSUME NEW e \in args PROVE Last(e) \in Places(pat, d)
    <3>1. PICK k \in Places(pat, d) : e = d \o <<k>>
      OBVIOUS
    <3>2. k \in Nat
      BY DEF Places
    <3>3. Last(d \o <<k>>) = k
      BY <3>2 DEF IsTree
    <3> QED BY <3>1, <3>3
  <2> HIDE DEF args
  <2>4. ASSUME NEW regs \in scanned, NEW r \in Bind(pat, d, regs)
        PROVE  \E D \in SUBSET P : r \in [D -> C]
    <3> DEFINE E == DOMAIN regs \cup args
    <3>1. PICK n \in NodesOf(regs[d]) :
            /\ n.op = Symbol(pat, d)
            /\ r = [e \in E |-> IF e \in DOMAIN regs THEN regs[e] ELSE n.children[Last(e)]]
      BY <2>1, <2>4 DEF Bind
    <3>2. NodeOver(n, C)
      BY <3>1 DEF NodesOf, Ready
    <3>3. \A e \in args : n.children[Last(e)] \in C
      BY <2>3, <3>1, <3>2 DEF NodeOver, Places
    <3>4. \A e \in DOMAIN regs : regs[e] \in C
      BY <1>3
    <3>5. E \in SUBSET P
      BY <1>3, <2>2
    <3>6. r \in [E -> C]
      BY <3>1, <3>3, <3>4
    <3> QED BY <3>5, <3>6
  <2>5. \A r \in Execute(pat, files, d) : \E D \in SUBSET P : r \in [D -> C]
    BY <1>4, <1>6, <2>4
  <2> QED BY <2>5, FilesType
<1> QED BY <1>5, <1>6

\* The walk goes through the positions in reading order.
LEMMA PositionsAre ==
  ASSUME NEW pat \in Patterns
  PROVE  /\ Enumerates(Positions(pat), Cardinality(DOMAIN pat), DOMAIN pat)
         /\ \A k \in 1..Cardinality(DOMAIN pat) :
               At(pat, {Positions(pat)[j] : j \in 1..(k - 1)}, Positions(pat)[k])
<1> DEFINE P == DOMAIN pat
           R == ReadingOrder(pat)
           n == Cardinality(P)
           s == Positions(pat)
<1>1. IsFiniteSet(P) /\ P \subseteq Seq(Nat) /\ n \in Nat
  BY PatternsAreTrees, FS_CardinalityType DEF IsTree
<1>2. Orders(P, R)
  BY <1>1, PositionsOrdered DEF ReadingOrder
<1>3. \A x, y \in P : <<x, y>> \in R <=> PositionBefore(x, y)
  BY DEF ReadingOrder
<1> HIDE DEF R
<1>4. \A x \in P : Rank(P, R, x) = Cardinality({c \in P : PositionBefore(c, x)})
  <2> TAKE x \in P
  <2>1. {y \in P : <<y, x>> \in R} = {c \in P : PositionBefore(c, x)}
    BY <1>3
  <2> QED BY <2>1 DEF Rank
<1>5. ASSUME NEW k \in 1..n PROVE s[k] \in P /\ Rank(P, R, s[k]) = k - 1
  <2>1. s[k] = CHOOSE d \in P : Cardinality({c \in P : PositionBefore(c, d)}) = k - 1
    BY DEF Positions, Ranked
  <2>2. PICK x \in P : Rank(P, R, x) = k - 1
    BY <1>1, <1>2, RanksAreExact DEF RanksAreTaken
  <2>3. Cardinality({c \in P : PositionBefore(c, x)}) = k - 1
    BY <1>4, <2>2
  <2> HIDE DEF s
  <2>4. s[k] \in P /\ Cardinality({c \in P : PositionBefore(c, s[k])}) = k - 1
    BY <2>1, <2>3
  <2> QED BY <1>4, <2>4
<1>6. s = [k \in 1..n |-> s[k]]
  <2> DEFINE nth(k) == CHOOSE d \in P : Cardinality({c \in P : PositionBefore(c, d)}) = k - 1
  <2>1. s = [k \in 1..n |-> nth(k)]
    BY DEF Positions, Ranked
  <2> HIDE DEF s, n, nth
  <2> QED BY <2>1
<1> HIDE DEF s
<1>7. ListsByRank(s, P, R)
  BY <1>5, <1>6 DEF ListsByRank
<1>8. Enumerates(s, n, P) /\ \A j, k \in 1..n : <<s[j], s[k]>> \in R => j < k
  BY <1>1, <1>2, <1>7, ListingEnumerates
<1>9. ASSUME NEW k \in 1..n PROVE At(pat, {s[j] : j \in 1..(k - 1)}, s[k])
  <2>1. ASSUME NEW e \in P PROVE e \in {s[j] : j \in 1..(k - 1)} <=> PositionBefore(e, s[k])
    <3>1. s[k] \in P
      BY <1>5
    <3>2. PICK i \in 1..n : s[i] = e
      BY <1>8 DEF Enumerates
    <3>3. PositionBefore(e, s[k]) => i < k
      BY <1>3, <1>8, <3>1, <3>2
    <3>4. i < k => PositionBefore(e, s[k])
      <4>1. i < k => ~ (k < i) /\ s[i] # s[k]
        <5>1. i < k => i # k /\ ~ (k < i)
          BY <1>1
        <5>2. s[i] = s[k] => i = k
          BY <1>8 DEF Enumerates
        <5> QED BY <5>1, <5>2
      <4>2. PositionBefore(s[k], e) => k < i
        BY <1>3, <1>8, <3>1, <3>2
      <4> QED BY <1>1, <3>1, <3>2, <4>1, <4>2, BeforeOrders
    <3>5. e \in {s[j] : j \in 1..(k - 1)} <=> i < k
      <4>1. i < k <=> i \in 1..(k - 1)
        BY <1>1
      <4>2. \A j \in 1..(k - 1) : j \in 1..n
        BY <1>1
      <4>3. \A j \in 1..(k - 1) : s[j] = s[i] => j = i
        BY <1>8, <4>2 DEF Enumerates
      <4> QED BY <3>2, <4>1, <4>3
    <3> QED BY <3>3, <3>4, <3>5
  <2> QED BY <1>5, <2>1 DEF At
<1> QED BY <1>8, <1>9 DEF s

\* The walk finds the matches and nothing else.
LEMMA WalkedIs ==
  ASSUME Ready, NEW pat \in Patterns
  PROVE  Walked(pat) = Answers(pat, Matches(pat))
<1> DEFINE P == DOMAIN pat
           n == Cardinality(P)
           s == Positions(pat)
           A == Files(pat)
           done(k) == {s[j] : j \in 1..k}
           step == [p \in A \X (1..n) |-> Execute(pat, p[1], s[p[2]])]
           at == [k \in 0..n |-> FilesAt(pat, done(k))]
           Runs(g) == g = [u \in SUBSET (1..n) |->
                             IF u = {} THEN {<<>>} ELSE Execute(pat, g[u \ {Max(u)}], s[Max(u)])]
           fold == CHOOSE g : Runs(g)
<1>1. IsTree(pat) /\ Enumerates(s, n, P)
  BY PatternsAreTrees, PositionsAre
<1>2. n \in Nat /\ s \in [1..n -> P] /\ DOMAIN s = 1..n
  BY <1>1 DEF Enumerates
<1>3. Query[pat].order = s
  BY DEF Query
<1> HIDE DEF s, n
<1>4. Walked(pat) = Answers(pat, fold[1..n])
  BY <1>2, <1>3 DEF Walked, FoldLeft, MapThenFoldSet
<1>5. {<<>>} \in A
  <2>1. <<>> \in [{} -> DOMAIN classes] /\ {} \in SUBSET P
    OBVIOUS
  <2>2. \A r \in {<<>>} : \E D \in SUBSET P : r \in [D -> DOMAIN classes]
    BY <2>1
  <2>3. {<<>>} \in Files(pat)
    <3> HIDE DEF A
    <3> QED BY <2>2, FilesType
  <2> QED BY <2>3
<1>6. step \in [A \X (1..n) -> A]
  <2>1. \A p \in A \X (1..n) : Execute(pat, p[1], s[p[2]]) \in A
    BY <1>1, <1>2, ExecuteType
  <2> HIDE DEF A
  <2> QED BY <2>1
<1> HIDE DEF A
<1>7. Runs(fold)
  <2>1. PICK g \in [SUBSET (1..n) -> A] : SolvesFold(g, n, {<<>>}, step)
    <3> HIDE DEF step
    <3> QED BY <1>2, <1>5, <1>6, FoldExists
  <2>2. ASSUME NEW u \in SUBSET (1..n), u # {}
        PROVE  g[u] = Execute(pat, g[u \ {Max(u)}], s[Max(u)])
    <3>1. g[u \ {Max(u)}] \in A
      OBVIOUS
    <3>2. Max(u) \in 1..n
      BY <1>2, <2>2, SubsetHasMax
    <3>3. g[u] = step[<<g[u \ {Max(u)}], Max(u)>>]
      BY <2>1, <2>2 DEF SolvesFold
    <3> QED BY <3>1, <3>2, <3>3
  <2>3. g[{}] = {<<>>}
    BY <2>1 DEF SolvesFold
  <2>4. Runs(g)
    <3> HIDE DEF step
    <3> QED BY <2>2, <2>3
  <2> HIDE DEF Runs
  <2> QED BY <2>4
<1> HIDE DEF fold
<1>8. fold[{}] = {<<>>}
  BY <1>7
<1>9. ASSUME NEW u \in SUBSET (1..n), u # {}, fold[u \ {Max(u)}] \in A
      PROVE  fold[u] = step[<<fold[u \ {Max(u)}], Max(u)>>]
  <2>1. Max(u) \in 1..n
    BY <1>2, <1>9, SubsetHasMax
  <2>2. fold[u] = Execute(pat, fold[u \ {Max(u)}], s[Max(u)])
    BY <1>7, <1>9
  <2> QED BY <1>9, <2>1, <2>2
<1> HIDE DEF Runs
<1>10. \A k \in 0..n : at[k] = FilesAt(pat, done(k))
  OBVIOUS
<1>11. /\ done(0) = {} /\ done(n) = P
       /\ \A k \in 1..n : done(k) = done(k - 1) \cup {s[k]} /\ done(k - 1) \subseteq P
  <2>1. \A k \in 1..n : /\ {s[j] : j \in 1..k} = {s[j] : j \in 1..(k - 1)} \cup {s[k]}
                        /\ {s[j] : j \in 1..k} \subseteq P
    BY <1>1, Enumeration
  <2>2. {s[j] : j \in 1..0} = {} /\ {s[j] : j \in 1..n} = P
    BY <1>1, Enumeration
  <2> QED BY <2>1, <2>2
<1>12. \A k \in 1..n : At(pat, done(k - 1), s[k])
  BY PositionsAre DEF s, n
<1> HIDE DEF at, done
<1>13. at[0] = {<<>>}
  <2>1. at[0] = FilesAt(pat, {})
    <3>1. 0 \in 0..n
      BY <1>2
    <3> HIDE DEF step
    <3> QED BY <1>10, <1>11, <3>1
  <2>2. Reached(pat, {}) = {}
    BY DEF Reached
  <2>3. FilesAt(pat, {}) = [{} -> DOMAIN classes]
    BY <2>2 DEF FilesAt
  <2> QED BY <2>1, <2>3, EmptyFunction
<1>14. at \in [0..n -> A]
  <2>1. ASSUME NEW k \in 0..n PROVE at[k] \in A
    <3>1. \A r \in FilesAt(pat, done(k)) : r \in [Reached(pat, done(k)) -> DOMAIN classes]
      BY DEF FilesAt
    <3>2. Reached(pat, done(k)) \in SUBSET P
      BY DEF Reached
    <3>3. FilesAt(pat, done(k)) \in A
      BY <3>1, <3>2, FilesType DEF A
    <3> HIDE DEF step
    <3> QED BY <1>10, <3>3
  <2>2. at = [k \in 0..n |-> at[k]]
    BY DEF at
  <2> QED BY <2>1, <2>2
<1>15. \A k \in 1..n : step[<<at[k - 1], k>>] = at[k]
  <2> TAKE k \in 1..n
  <2>1. k - 1 \in 0..n /\ k \in 0..n
    BY <1>2
  <2>2. at[k - 1] = FilesAt(pat, done(k - 1)) /\ at[k] = FilesAt(pat, done(k)) /\ at[k - 1] \in A
    BY <1>10, <1>14, <2>1
  <2>3. Execute(pat, FilesAt(pat, done(k - 1)), s[k]) = FilesAt(pat, done(k - 1) \cup {s[k]})
    BY <1>11, <1>12, ExecuteIs
  <2>4. step[<<at[k - 1], k>>] = Execute(pat, at[k - 1], s[k])
    BY <2>2
  <2> HIDE DEF step
  <2> QED BY <1>11, <2>2, <2>3, <2>4
<1>16. fold[1..n] = at[n]
  <2>1. \A u \in SUBSET (1..n) :
          u # {} /\ fold[u \ {Max(u)}] \in A => fold[u] = step[<<fold[u \ {Max(u)}], Max(u)>>]
    <3> HIDE DEF step
    <3> QED BY <1>9
  <2> HIDE DEF step
  <2>2. IsFold(fold, n, A, {<<>>}, step)
    BY <1>8, <2>1 DEF IsFold
  <2>3. IsLoop(at, n, A, {<<>>}, step)
    BY <1>13, <1>14, <1>15 DEF IsLoop
  <2> QED BY <1>2, <2>2, <2>3, FoldEnds
<1>17. at[n] = FilesAt(pat, P)
  BY <1>2, <1>10, <1>11
<1>18. FilesAt(pat, P) = Matches(pat)
  <2>1. Reached(pat, P) = P
    BY DEF Reached
  <2> QED BY <2>1 DEF FilesAt, Matches
<1> QED BY <1>4, <1>16, <1>17, <1>18

-----------------------------------------------------------------------------
(* The join *)

\* The tuple of an e-node, and the atom of an application.
Tuple(c, n) == <<c>> \o [k \in DOMAIN n.children |-> Find(n.children[k])]
AtomOf(pat, d) ==
  [rel |-> Symbol(pat, d),
   vars |-> <<d>> \o [k \in 1..Arity[Symbol(pat, d)] |-> FirstOf(pat, d \o <<k>>)]]
Columns(f) == 1..(Arity[f] + 1)

\* A list with one element put before it.
LEMMA Prepended ==
  ASSUME NEW S, NEW x \in S, NEW n \in Nat, NEW e \in [1..n -> S]
  PROVE  /\ DOMAIN (<<x>> \o e) = 1..(n + 1)
         /\ (<<x>> \o e)[1] = x
         /\ \A k \in 1..n : (<<x>> \o e)[k + 1] = e[k]
<1>1. e \in Seq(S) /\ Len(e) = n
  OBVIOUS
<1>2. <<x>> \in Seq(S) /\ Len(<<x>>) = 1 /\ <<x>>[1] = x
  OBVIOUS
<1>3. Len(<<x>> \o e) = n + 1 /\ DOMAIN (<<x>> \o e) = 1..(n + 1)
  BY <1>1, <1>2
<1>4. (<<x>> \o e)[1] = x
  BY <1>1, <1>2, <1>3
<1>5. ASSUME NEW k \in 1..n PROVE (<<x>> \o e)[k + 1] = e[k]
  BY <1>1, <1>2, <1>3
<1> QED BY <1>3, <1>4, <1>5

\* A tuple has the class of its e-node and then those of the children; the table of a
\* symbol has those of its e-nodes, finitely many.
TableIs(f) ==
  /\ IsFiniteSet(Table(f))
  /\ \A t \in Table(f) : \E c \in DOMAIN classes : \E n \in classes[c] : n.op = f /\ t = Tuple(c, n)
  /\ \A c \in DOMAIN classes : \A n \in classes[c] : n.op = f =>
        /\ Tuple(c, n) \in Table(f)
        /\ DOMAIN Tuple(c, n) = Columns(f)
        /\ Tuple(c, n)[1] = c
        /\ \A k \in 1..Arity[f] : Tuple(c, n)[k + 1] = n.children[k] /\ n.children[k] \in DOMAIN classes
        /\ \A k \in Columns(f) : Tuple(c, n)[k] \in DOMAIN classes

\* The tables of a clean e-graph are such.
LEMMA TableFacts == ASSUME Ready, NEW f PROVE TableIs(f)
<1> DEFINE C == DOMAIN classes
           Of(c) == {n \in classes[c] : n.op = f}
           rows == [c \in C |-> {Tuple(c, n) : n \in Of(c)}]
           parts == {rows[c] : c \in C}
<1>1. \A c \in C : NodesOf(c) = classes[c]
  BY DEF NodesOf, Ready
<1>2. Table(f) = UNION parts
  <2> DEFINE row(c) == {<<c>> \o [k \in DOMAIN n.children |-> Find(n.children[k])] :
                          n \in {n \in NodesOf(c) : n.op = f}}
  <2>1. Table(f) = UNION {row(c) : c \in C}
    BY DEF Table
  <2>2. \A c \in C : row(c) = rows[c]
    BY <1>1 DEF Tuple
  <2> HIDE DEF row, rows
  <2>3. {row(c) : c \in C} = parts
    BY <2>2
  <2> QED BY <2>1, <2>3
<1>3. ASSUME NEW c \in C PROVE IsFiniteSet(rows[c])
  <2> DEFINE g == [n \in Of(c) |-> Tuple(c, n)]
  <2>1. Of(c) \in SUBSET classes[c] /\ IsFiniteSet(classes[c])
    BY DEF Ready
  <2>2. g \in Surjection(Of(c), rows[c])
    BY DEF Surjection
  <2> HIDE DEF g, rows, Of
  <2>3. IsFiniteSet(Of(c))
    BY <2>1, FS_Subset
  <2> QED BY <2>2, <2>3, FS_Surjection
<1>4. IsFiniteSet(parts)
  <2>1. rows \in Surjection(C, parts)
    BY DEF Surjection
  <2>2. IsFiniteSet(C)
    BY DEF Ready
  <2> HIDE DEF rows, parts
  <2> QED BY <2>1, <2>2, FS_Surjection
<1>5. IsFiniteSet(Table(f))
  <2>1. \A u \in parts : IsFiniteSet(u)
    BY <1>3
  <2> HIDE DEF parts
  <2> QED BY <1>2, <1>4, <2>1, FS_UNION
<1>6. \A t : t \in Table(f) <=> \E c \in C : \E n \in classes[c] : n.op = f /\ t = Tuple(c, n)
  BY <1>2
<1>7. ASSUME NEW c \in C, NEW n \in classes[c], n.op = f
      PROVE  /\ DOMAIN Tuple(c, n) = Columns(f)
             /\ Tuple(c, n)[1] = c
             /\ \A k \in 1..Arity[f] : Tuple(c, n)[k + 1] = n.children[k] /\ n.children[k] \in C
             /\ \A k \in Columns(f) : Tuple(c, n)[k] \in C
  <2> DEFINE e == [k \in DOMAIN n.children |-> Find(n.children[k])]
             len == Arity[f]
  <2>1. f \in Symbols /\ n.children \in [1..len -> C]
    BY <1>7 DEF Ready, NodeOver
  <2>2. len \in Nat
    BY <2>1, ArityAssumption DEF Symbols
  <2>3. e \in [1..len -> C] /\ \A k \in 1..len : e[k] = n.children[k]
    BY <2>1 DEF Ready
  <2>4. Tuple(c, n) = <<c>> \o e
    BY DEF Tuple
  <2> HIDE DEF e, len
  <2>5. /\ DOMAIN Tuple(c, n) = 1..(len + 1)
        /\ Tuple(c, n)[1] = c
        /\ \A k \in 1..len : Tuple(c, n)[k + 1] = e[k]
    BY <2>2, <2>3, <2>4, Prepended
  <2>6. ASSUME NEW k \in 1..(len + 1) PROVE Tuple(c, n)[k] \in C
    <3>1. CASE k = 1
      BY <2>5, <3>1
    <3>2. CASE k # 1
      <4>1. k - 1 \in 1..len /\ (k - 1) + 1 = k
        BY <2>2, <3>2
      <4>2. Tuple(c, n)[(k - 1) + 1] = e[k - 1] /\ e[k - 1] \in C
        BY <2>3, <2>5, <4>1
      <4> QED BY <4>1, <4>2
    <3> QED BY <3>1, <3>2
  <2> QED BY <2>1, <2>3, <2>5, <2>6 DEF Columns, len
<1> QED BY <1>5, <1>6, <1>7 DEF TableIs

\* The atom of an application has its position and then what stands for the
\* arguments, all variables of the query; every variable is in an atom.
AtomsAre(pat) ==
  /\ IsFiniteSet(Query[pat].atoms)
  /\ IsFiniteSet(QueryVars(pat)) /\ QueryVars(pat) \subseteq DOMAIN pat
  /\ \A x \in QueryVars(pat) : FirstOf(pat, x) = x
  /\ \A d \in DOMAIN pat : FirstOf(pat, d) \in QueryVars(pat)
  /\ \A d \in DOMAIN pat : IsApp(pat, d) =>
        /\ AtomOf(pat, d) \in Query[pat].atoms
        /\ AtomOf(pat, d).rel = Symbol(pat, d)
        /\ DOMAIN AtomOf(pat, d).vars = Columns(Symbol(pat, d))
        /\ AtomOf(pat, d).vars[1] = d
        /\ \A k \in Places(pat, d) : AtomOf(pat, d).vars[k + 1] = FirstOf(pat, d \o <<k>>)
        /\ \A k \in Columns(Symbol(pat, d)) : AtomOf(pat, d).vars[k] \in QueryVars(pat)
  /\ \A a \in Query[pat].atoms : \E d \in DOMAIN pat : IsApp(pat, d) /\ a = AtomOf(pat, d)
  /\ \A x \in QueryVars(pat) : AtomsWith(pat, x) # {}

\* The query of a well-formed pattern is such.
LEMMA AtomFacts == ASSUME NEW pat \in Patterns PROVE AtomsAre(pat)
<1> DEFINE P == DOMAIN pat
           V == QueryVars(pat)
           apps == {d \in P : IsApp(pat, d)}
           atoms == Query[pat].atoms
<1>1. IsTree(pat)
  BY PatternsAreTrees
<1>2. FirstsStand(pat)
  BY <1>1, FirstFacts
<1>3. IsFiniteSet(P)
  BY <1>1 DEF IsTree
<1>4. atoms = {AtomOf(pat, d) : d \in apps}
  BY DEF Query, AtomOf
<1> HIDE DEF atoms
<1>5. IsFiniteSet(atoms)
  <2> DEFINE g == [d \in apps |-> AtomOf(pat, d)]
  <2>1. g \in Surjection(apps, atoms)
    BY <1>4 DEF Surjection
  <2>2. apps \in SUBSET P
    OBVIOUS
  <2> HIDE DEF g, apps
  <2>3. IsFiniteSet(apps)
    BY <1>3, <2>2, FS_Subset
  <2> QED BY <2>1, <2>3, FS_Surjection
<1>6. V \in SUBSET P /\ \A x \in V : FirstOf(pat, x) = x
  BY <1>2 DEF QueryVars, FirstsStand
<1>7. IsFiniteSet(V)
  BY <1>3, <1>6, FS_Subset
<1>8. \A d \in P : FirstOf(pat, d) \in V
  BY DEF QueryVars
<1> HIDE DEF V
<1>9. ASSUME NEW d \in P, IsApp(pat, d)
      PROVE  /\ AtomOf(pat, d) \in atoms
             /\ AtomOf(pat, d).rel = Symbol(pat, d)
             /\ DOMAIN AtomOf(pat, d).vars = Columns(Symbol(pat, d))
             /\ AtomOf(pat, d).vars[1] = d
             /\ \A k \in Places(pat, d) : AtomOf(pat, d).vars[k + 1] = FirstOf(pat, d \o <<k>>)
             /\ \A k \in Columns(Symbol(pat, d)) : AtomOf(pat, d).vars[k] \in V
  <2> DEFINE len == Arity[Symbol(pat, d)]
             e == [k \in 1..Arity[Symbol(pat, d)] |-> FirstOf(pat, d \o <<k>>)]
             cells == <<d>> \o e
  <2>1. AtomOf(pat, d).rel = Symbol(pat, d) /\ AtomOf(pat, d).vars = cells
    BY DEF AtomOf
  <2>2. len \in Nat /\ \A k \in 1..len : d \o <<k>> \in P
    BY <1>1, <1>9 DEF IsTree, Places
  <2>3. e \in [1..len -> V] /\ \A k \in 1..len : e[k] = FirstOf(pat, d \o <<k>>)
    BY <1>8, <2>2
  <2>4. d \in V
    BY <1>2, <1>8, <1>9 DEF FirstsStand
  <2> HIDE DEF e, len
  <2>5. /\ DOMAIN cells = 1..(len + 1)
        /\ cells[1] = d
        /\ \A k \in 1..len : cells[k + 1] = e[k]
    BY <2>2, <2>3, <2>4, Prepended
  <2> HIDE DEF cells
  <2>6. ASSUME NEW k \in 1..(len + 1) PROVE cells[k] \in V
    <3>1. CASE k = 1
      BY <2>4, <2>5, <3>1
    <3>2. CASE k # 1
      <4>1. k - 1 \in 1..len /\ (k - 1) + 1 = k
        BY <2>2, <3>2
      <4>2. cells[(k - 1) + 1] = e[k - 1] /\ e[k - 1] \in V
        BY <2>3, <2>5, <4>1
      <4> QED BY <4>1, <4>2
    <3> QED BY <3>1, <3>2
  <2>7. AtomOf(pat, d) \in atoms
    BY <1>4, <1>9
  <2> QED BY <2>1, <2>3, <2>5, <2>6, <2>7 DEF Columns, Places, len
<1>10. ASSUME NEW x \in V PROVE AtomsWith(pat, x) # {}
  <2>1. x \in P /\ FirstOf(pat, x) = x
    BY <1>6
  <2>2. \E d \in P : IsApp(pat, d) /\ \E k \in Columns(Symbol(pat, d)) : AtomOf(pat, d).vars[k] = x
    <3>1. CASE IsApp(pat, x)
      <4>1. Arity[Symbol(pat, x)] \in Nat
        BY <1>1, <2>1, <3>1 DEF IsTree
      <4>2. 1 \in Columns(Symbol(pat, x))
        BY <4>1 DEF Columns
      <4> QED BY <1>9, <2>1, <3>1, <4>2
    <3>2. CASE ~ IsApp(pat, x)
      <4>1. /\ Front(x) \in P /\ IsApp(pat, Front(x))
            /\ Last(x) \in Places(pat, Front(x))
            /\ x = Front(x) \o <<Last(x)>>
        BY <1>1, <2>1, <3>2 DEF IsTree
      <4>2. Arity[Symbol(pat, Front(x))] \in Nat
        BY <1>1, <4>1 DEF IsTree
      <4>3. Last(x) + 1 \in Columns(Symbol(pat, Front(x)))
        BY <4>1, <4>2 DEF Columns, Places
      <4>4. AtomOf(pat, Front(x)).vars[Last(x) + 1] = FirstOf(pat, Front(x) \o <<Last(x)>>)
        BY <1>9, <4>1
      <4>5. AtomOf(pat, Front(x)).vars[Last(x) + 1] = x
        BY <2>1, <4>1, <4>4
      <4> QED BY <4>1, <4>3, <4>5
    <3> QED BY <3>1, <3>2
  <2>3. PICK d \in P : IsApp(pat, d) /\ \E k \in Columns(Symbol(pat, d)) : AtomOf(pat, d).vars[k] = x
    BY <2>2
  <2>4. x \in Range(AtomOf(pat, d).vars)
    BY <1>9, <2>3 DEF Range
  <2> QED BY <1>9, <2>3, <2>4 DEF AtomsWith, atoms
<1> QED BY <1>4, <1>5, <1>6, <1>7, <1>8, <1>9, <1>10 DEF AtomsAre, atoms, V

\* The order of the plan.
SizeOf(f) == IF Table(f) = {} THEN MaxIds + 1 ELSE Cardinality(Table(f))
SmallestOf(pat, x) == Min({SizeOf(a.rel) : a \in AtomsWith(pat, x)})
CountOf(pat, x) == Cardinality(AtomsWith(pat, x))
PlannedBefore(pat, x, y) ==
  \/ CountOf(pat, x) > CountOf(pat, y)
  \/ CountOf(pat, x) = CountOf(pat, y) /\ SmallestOf(pat, x) < SmallestOf(pat, y)
  \/ /\ CountOf(pat, x) = CountOf(pat, y) /\ SmallestOf(pat, x) = SmallestOf(pat, y)
     /\ PositionBefore(x, y)

\* What the plan compares are numbers, because tables and atoms are finite.
LEMMA PlanNumbers ==
  ASSUME Ready, NEW pat \in Patterns, NEW x \in QueryVars(pat)
  PROVE  CountOf(pat, x) \in Nat /\ SmallestOf(pat, x) \in Nat
<1> DEFINE sizes == {SizeOf(a.rel) : a \in AtomsWith(pat, x)}
<1>1. /\ IsFiniteSet(Query[pat].atoms) /\ AtomsWith(pat, x) # {}
      /\ AtomsWith(pat, x) \in SUBSET Query[pat].atoms
  BY AtomFacts DEF AtomsAre, AtomsWith
<1>2. CountOf(pat, x) \in Nat
  BY <1>1, FS_Subset, FS_CardinalityType DEF CountOf
<1>3. \A f : SizeOf(f) \in Nat
  <2> TAKE f
  <2>1. Cardinality(Table(f)) \in Nat
    BY TableFacts, FS_CardinalityType DEF TableIs
  <2>2. MaxIds + 1 \in Nat
    BY BoundsAssumption
  <2> QED BY <2>1, <2>2 DEF SizeOf
<1>4. sizes \subseteq Nat /\ sizes # {}
  BY <1>1, <1>3
<1> HIDE DEF sizes
<1>5. PICK t \in sizes : \A u \in sizes : t <= u
  BY <1>4, MinExists
<1>6. Min(sizes) \in sizes
  BY <1>5 DEF Min
<1> QED BY <1>2, <1>4, <1>6 DEF SmallestOf, sizes

\* The plan lists every variable of the query once.
LEMMA PlanIs ==
  ASSUME Ready, NEW pat \in Patterns
  PROVE  Enumerates(Plan(pat), Cardinality(QueryVars(pat)), QueryVars(pat))
<1> DEFINE V == QueryVars(pat)
           n == Cardinality(V)
           R == {p \in V \X V : PlannedBefore(pat, p[1], p[2])}
           nth(k) == CHOOSE d \in V : Cardinality({c \in V : PlannedBefore(pat, c, d)}) = k - 1
           s == Plan(pat)
<1>1. s = [k \in 1..n |-> nth(k)]
  <2> DEFINE W == Query[pat].vars
  <2>1. Plan(pat) = [k \in 1..Cardinality(W) |->
                       CHOOSE d \in W : Cardinality({c \in W : PlannedBefore(pat, c, d)}) = k - 1]
    BY DEF Plan, Ranked, PlannedBefore, CountOf, SmallestOf, SizeOf
  <2>2. W = V
    BY DEF Query
  <2> HIDE DEF W
  <2> QED BY <2>1, <2>2
<1>2. IsFiniteSet(V) /\ V \subseteq DOMAIN pat
  BY AtomFacts DEF AtomsAre
<1>3. \A x \in V : x \in Seq(Nat)
  BY <1>2, PatternsAreTrees DEF IsTree
<1>4. \A x \in V : CountOf(pat, x) \in Nat /\ SmallestOf(pat, x) \in Nat
  BY PlanNumbers
<1> HIDE DEF V
<1>5. \A x, y \in V : <<x, y>> \in R <=> PlannedBefore(pat, x, y)
  OBVIOUS
<1>6. Orders(V, R)
  <2>1. ASSUME NEW x \in V, NEW y \in V, x # y, ~ PlannedBefore(pat, x, y) PROVE PlannedBefore(pat, y, x)
    <3>1. PositionBefore(x, y) \/ PositionBefore(y, x)
      BY <1>3, <2>1, BeforeOrders
    <3>2. /\ CountOf(pat, x) \in Nat /\ SmallestOf(pat, x) \in Nat
          /\ CountOf(pat, y) \in Nat /\ SmallestOf(pat, y) \in Nat
      BY <1>4
    <3> QED BY <2>1, <3>1, <3>2 DEF PlannedBefore
  <2>2. ASSUME NEW x \in V PROVE ~ PlannedBefore(pat, x, x)
    <3>1. CountOf(pat, x) \in Nat /\ SmallestOf(pat, x) \in Nat /\ ~ PositionBefore(x, x)
      BY <1>3, <1>4, BeforeOrders
    <3> QED BY <3>1 DEF PlannedBefore
  <2>3. ASSUME NEW x \in V, NEW y \in V, NEW z \in V, PlannedBefore(pat, x, y), PlannedBefore(pat, y, z)
        PROVE  PlannedBefore(pat, x, z)
    <3>1. PositionBefore(x, y) /\ PositionBefore(y, z) => PositionBefore(x, z)
      BY <1>3, BeforeOrders
    <3>2. /\ CountOf(pat, x) \in Nat /\ SmallestOf(pat, x) \in Nat
          /\ CountOf(pat, y) \in Nat /\ SmallestOf(pat, y) \in Nat
          /\ CountOf(pat, z) \in Nat /\ SmallestOf(pat, z) \in Nat
      BY <1>4
    <3> QED BY <2>3, <3>1, <3>2 DEF PlannedBefore
  <2> HIDE DEF R
  <2> QED BY <1>5, <2>1, <2>2, <2>3 DEF Orders
<1>7. \A x \in V : Rank(V, R, x) = Cardinality({c \in V : PlannedBefore(pat, c, x)})
  <2> TAKE x \in V
  <2>1. {y \in V : <<y, x>> \in R} = {c \in V : PlannedBefore(pat, c, x)}
    BY <1>5
  <2> HIDE DEF R
  <2> QED BY <2>1 DEF Rank
<1> HIDE DEF R, s
<1>8. ASSUME NEW k \in 1..n PROVE s[k] \in V /\ Rank(V, R, s[k]) = k - 1
  <2>1. s[k] = CHOOSE d \in V : Cardinality({c \in V : PlannedBefore(pat, c, d)}) = k - 1
    BY <1>1
  <2>2. PICK x \in V : Rank(V, R, x) = k - 1
    BY <1>2, <1>6, RanksAreExact DEF RanksAreTaken
  <2>3. Cardinality({c \in V : PlannedBefore(pat, c, x)}) = k - 1
    BY <1>7, <2>2
  <2>4. s[k] \in V /\ Cardinality({c \in V : PlannedBefore(pat, c, s[k])}) = k - 1
    BY <2>1, <2>3
  <2> QED BY <1>7, <2>4
<1>9. s = [k \in 1..n |-> s[k]]
  <2> HIDE DEF n, nth
  <2> QED BY <1>1
<1>10. ListsByRank(s, V, R)
  BY <1>8, <1>9 DEF ListsByRank
<1>11. Enumerates(s, n, V)
  BY <1>2, <1>6, <1>10, ListingEnumerates
<1> QED BY <1>11 DEF V, s

\* The substitutions of the variables X for which every atom with one of them still
\* has a tuple.
Found(pat, X) ==
  {s \in [X -> DOMAIN classes] :
     \A a \in Query[pat].atoms : (\E k \in DOMAIN a.vars : a.vars[k] \in X) => Residual(a, s) # {}}

\* The trie of an atom allows a value for a variable when it still has a tuple after
\* the variable is bound to it.
LEMMA AllowedIs ==
  ASSUME NEW pat, NEW X, NEW x, x \notin X, NEW a \in AtomsWith(pat, x), NEW s, DOMAIN s = X, NEW v
  PROVE  v \in Allowed(a, x, s) <=> Residual(a, With(s, x, v)) # {}
<1> DEFINE r == With(s, x, v)
           p == CHOOSE k \in DOMAIN a.vars : a.vars[k] = x
<1>1. p \in DOMAIN a.vars /\ a.vars[p] = x
  BY DEF AtomsWith, Range
<1>2. Allowed(a, x, s) = {t[p] : t \in Residual(a, s)}
  BY DEF Allowed
<1> HIDE DEF p
<1>3. DOMAIN r = X \cup {x} /\ r[x] = v /\ \A y \in X : r[y] = s[y]
  BY DEF With
<1> HIDE DEF r
<1>4. \A t : t \in Residual(a, s) <=>
               t \in Indexed(a) /\ \A k \in DOMAIN a.vars : a.vars[k] \in X => t[k] = s[a.vars[k]]
  BY DEF Residual
<1>5. \A t : t \in Residual(a, r) <=>
               t \in Indexed(a) /\ \A k \in DOMAIN a.vars : a.vars[k] \in X \cup {x} => t[k] = r[a.vars[k]]
  BY <1>3 DEF Residual
<1>6. ASSUME NEW t \in Residual(a, s), t[p] = v PROVE t \in Residual(a, r)
  <2>1. \A k \in DOMAIN a.vars : a.vars[k] = x => t[k] = t[p]
    BY <1>1, <1>4 DEF Indexed
  <2> QED BY <1>3, <1>4, <1>5, <1>6, <2>1
<1>7. ASSUME NEW t \in Residual(a, r) PROVE t \in Residual(a, s) /\ t[p] = v
  BY <1>1, <1>3, <1>4, <1>5
<1>8. v \in Allowed(a, x, s) <=> Residual(a, r) # {}
  BY <1>2, <1>6, <1>7
<1> QED BY <1>8 DEF r

\* One step of the join leaves the substitutions of one variable more.
LEMMA ExtendIs ==
  ASSUME NEW pat, NEW X, NEW x, x \notin X
  PROVE  Extend(pat, Found(pat, X), x) = Found(pat, X \cup {x})
<1> DEFINE C == DOMAIN classes
           atoms == Query[pat].atoms
           old == Found(pat, X)
           extended ==
             UNION {{With(s, x, v) :
                       v \in {v \in C : \A a \in AtomsWith(pat, x) : v \in Allowed(a, x, s)}} : s \in old}
<1>1. Extend(pat, old, x) = extended
  <2> DEFINE Values(s) == {v \in C : \A vs \in {Allowed(a, x, s) : a \in AtomsWith(pat, x)} : v \in vs}
             values(s) == {v \in C : \A a \in AtomsWith(pat, x) : v \in Allowed(a, x, s)}
  <2>1. Extend(pat, old, x) = UNION {{With(s, x, v) : v \in Values(s)} : s \in old}
    BY DEF Extend
  <2>2. \A s : Values(s) = values(s)
    OBVIOUS
  <2>3. extended = UNION {{With(s, x, v) : v \in values(s)} : s \in old}
    OBVIOUS
  <2> HIDE DEF Values, values, extended, old
  <2> QED BY <2>1, <2>2, <2>3
<1>2. \A a : a \in AtomsWith(pat, x) <=> a \in atoms /\ \E k \in DOMAIN a.vars : a.vars[k] = x
  BY DEF AtomsWith, Range
<1>3. \A s : s \in old <=>
               /\ s \in [X -> C]
               /\ \A a \in atoms : (\E k \in DOMAIN a.vars : a.vars[k] \in X) => Residual(a, s) # {}
  BY DEF Found
<1>4. \A s : s \in Found(pat, X \cup {x}) <=>
               /\ s \in [X \cup {x} -> C]
               /\ \A a \in atoms : (\E k \in DOMAIN a.vars : a.vars[k] \in X \cup {x}) => Residual(a, s) # {}
  BY DEF Found
<1>5. \A r : r \in extended <=> \E s \in old, v \in C :
                /\ r = With(s, x, v)
                /\ \A a \in AtomsWith(pat, x) : v \in Allowed(a, x, s)
  OBVIOUS
<1> HIDE DEF old, extended, atoms
<1>6. ASSUME NEW s \in [X -> C], NEW v \in C
      PROVE  /\ With(s, x, v) \in [X \cup {x} -> C]
             /\ \A y \in X : With(s, x, v)[y] = s[y]
             /\ \A a \in AtomsWith(pat, x) : v \in Allowed(a, x, s) <=> Residual(a, With(s, x, v)) # {}
             /\ \A a : (\A k \in DOMAIN a.vars : a.vars[k] # x) => Residual(a, With(s, x, v)) = Residual(a, s)
             /\ \A a : Residual(a, With(s, x, v)) \subseteq Residual(a, s)
  <2>1. With(s, x, v) = [y \in X \cup {x} |-> IF y = x THEN v ELSE s[y]]
    BY DEF With
  <2>2. /\ With(s, x, v) \in [X \cup {x} -> C]
        /\ \A y \in X : With(s, x, v)[y] = s[y]
    BY <2>1
  <2>3. \A a \in AtomsWith(pat, x) : v \in Allowed(a, x, s) <=> Residual(a, With(s, x, v)) # {}
    BY AllowedIs
  <2>4. ASSUME NEW a, \A k \in DOMAIN a.vars : a.vars[k] # x
        PROVE  Residual(a, With(s, x, v)) = Residual(a, s)
    BY <2>2, <2>4 DEF Residual
  <2>5. \A a : Residual(a, With(s, x, v)) \subseteq Residual(a, s)
    BY <2>2 DEF Residual
  <2> QED BY <2>2, <2>3, <2>4, <2>5
<1>7. ASSUME NEW s \in old, NEW v \in C, \A a \in AtomsWith(pat, x) : v \in Allowed(a, x, s)
      PROVE  With(s, x, v) \in Found(pat, X \cup {x})
  <2>1. s \in [X -> C]
    BY <1>3
  <2>2. ASSUME NEW a \in atoms, \E k \in DOMAIN a.vars : a.vars[k] \in X \cup {x}
        PROVE  Residual(a, With(s, x, v)) # {}
    <3>1. CASE a \in AtomsWith(pat, x)
      BY <1>6, <1>7, <2>1, <3>1
    <3>2. CASE a \notin AtomsWith(pat, x)
      <4>1. \A k \in DOMAIN a.vars : a.vars[k] # x
        BY <1>2, <2>2, <3>2
      <4>2. Residual(a, s) # {}
        BY <1>3, <2>2, <4>1
      <4> QED BY <1>6, <2>1, <4>1, <4>2
    <3> QED BY <3>1, <3>2
  <2> QED BY <1>4, <1>6, <2>1, <2>2
<1>8. ASSUME NEW r \in Found(pat, X \cup {x})
      PROVE  \E s \in old, v \in C : r = With(s, x, v) /\ \A a \in AtomsWith(pat, x) : v \in Allowed(a, x, s)
  <2> DEFINE s == [y \in X |-> r[y]]
  <2>1. r \in [X \cup {x} -> C]
    BY <1>4
  <2>2. s \in [X -> C] /\ r[x] \in C /\ \A y \in X : s[y] = r[y]
    BY <2>1
  <2> HIDE DEF s
  <2>3. r = With(s, x, r[x])
    BY <2>1, <2>2 DEF With
  <2>4. \A a \in AtomsWith(pat, x) : Residual(a, r) # {}
    BY <1>2, <1>4
  <2>5. \A a \in AtomsWith(pat, x) : r[x] \in Allowed(a, x, s)
    BY <1>6, <2>2, <2>3, <2>4
  <2>6. \A a : Residual(a, r) \subseteq Residual(a, s)
    BY <1>6, <2>2, <2>3
  <2>7. s \in old
    <3>1. \A a \in atoms : (\E k \in DOMAIN a.vars : a.vars[k] \in X) => Residual(a, r) # {}
      BY <1>4
    <3>2. \A a \in atoms : (\E k \in DOMAIN a.vars : a.vars[k] \in X) => Residual(a, s) # {}
      BY <2>6, <3>1
    <3> QED BY <1>3, <2>2, <3>2
  <2> QED BY <2>2, <2>3, <2>5, <2>7
<1>9. extended = Found(pat, X \cup {x})
  <2>1. ASSUME NEW r \in extended PROVE r \in Found(pat, X \cup {x})
    BY <1>5, <1>7
  <2>2. ASSUME NEW r \in Found(pat, X \cup {x}) PROVE r \in extended
    BY <1>5, <1>8
  <2> QED BY <2>1, <2>2
<1> QED BY <1>1, <1>9 DEF old

\* Whatever the substitutions are, a step leaves substitutions.
LEMMA ExtendType ==
  ASSUME NEW pat, NEW found \in Files(pat), NEW x \in DOMAIN pat
  PROVE  Extend(pat, found, x) \in Files(pat)
<1> DEFINE C == DOMAIN classes
<1>1. \A s \in found : DOMAIN s \subseteq DOMAIN pat /\ s \in [DOMAIN s -> C]
  BY FilesType
<1>2. ASSUME NEW s \in found, NEW v \in C
      PROVE  \E D \in SUBSET (DOMAIN pat) : With(s, x, v) \in [D -> C]
  <2>1. With(s, x, v) = [y \in DOMAIN s \cup {x} |-> IF y = x THEN v ELSE s[y]]
    BY DEF With
  <2>2. With(s, x, v) \in [DOMAIN s \cup {x} -> C] /\ DOMAIN s \cup {x} \in SUBSET (DOMAIN pat)
    BY <1>1, <2>1
  <2> QED BY <2>2
<1>3. \A r \in Extend(pat, found, x) : \E s \in found, v \in C : r = With(s, x, v)
  BY DEF Extend
<1>4. \A r \in Extend(pat, found, x) : \E D \in SUBSET (DOMAIN pat) : r \in [D -> C]
  BY <1>2, <1>3
<1> QED BY <1>4, FilesType

\* An atom still has a tuple for a substitution of all the variables when the class of
\* its term has an e-node over the classes of the arguments.
LEMMA ResidualIs ==
  ASSUME Ready, NEW pat \in Patterns, NEW d \in DOMAIN pat, IsApp(pat, d),
         NEW s \in [QueryVars(pat) -> DOMAIN classes]
  PROVE  Residual(AtomOf(pat, d), s) # {}
           <=> \E n \in classes[s[d]] : /\ n.op = Symbol(pat, d)
                                        /\ \A k \in Places(pat, d) : s[FirstOf(pat, d \o <<k>>)] = n.children[k]
<1> DEFINE a == AtomOf(pat, d)
           f == Symbol(pat, d)
           V == QueryVars(pat)
           C == DOMAIN classes
<1>1. /\ a.rel = f /\ DOMAIN a.vars = Columns(f) /\ a.vars[1] = d
      /\ \A k \in 1..Arity[f] : a.vars[k + 1] = FirstOf(pat, d \o <<k>>)
      /\ \A k \in Columns(f) : a.vars[k] \in V
  BY AtomFacts DEF AtomsAre, Places
<1>2. /\ \A t \in Table(f) : \E c \in C : \E n \in classes[c] : n.op = f /\ t = Tuple(c, n)
      /\ \A c \in C : \A n \in classes[c] : n.op = f =>
            /\ Tuple(c, n) \in Table(f)
            /\ Tuple(c, n)[1] = c
            /\ \A k \in 1..Arity[f] : Tuple(c, n)[k + 1] = n.children[k]
  BY TableFacts DEF TableIs
<1>3. Arity[f] \in Nat
  BY PatternsAreTrees DEF IsTree
<1>4. /\ 1 \in Columns(f) /\ \A k \in 1..Arity[f] : k + 1 \in Columns(f)
      /\ \A j \in Columns(f) : j = 1 \/ \E k \in 1..Arity[f] : j = k + 1
  <2>1. ASSUME NEW j \in Columns(f), j # 1 PROVE \E k \in 1..Arity[f] : j = k + 1
    <3>1. j - 1 \in 1..Arity[f] /\ j = (j - 1) + 1
      BY <1>3, <2>1 DEF Columns
    <3> QED BY <3>1
  <2> QED BY <1>3, <2>1 DEF Columns
<1>5. \A t : t \in Residual(a, s) <=>
               /\ t \in Table(f)
               /\ \A j, k \in Columns(f) : a.vars[j] = a.vars[k] => t[j] = t[k]
               /\ \A k \in Columns(f) : a.vars[k] \in V => t[k] = s[a.vars[k]]
  <2>1. DOMAIN s = V
    OBVIOUS
  <2> QED BY <1>1, <2>1 DEF Residual, Indexed
<1> HIDE DEF a, f, V
<1>6. ASSUME NEW t \in Residual(a, s)
      PROVE  \E n \in classes[s[d]] : /\ n.op = f
                                      /\ \A k \in 1..Arity[f] : s[FirstOf(pat, d \o <<k>>)] = n.children[k]
  <2>1. PICK c \in C : \E n \in classes[c] : n.op = f /\ t = Tuple(c, n)
    BY <1>2, <1>5
  <2>2. PICK n \in classes[c] : n.op = f /\ t = Tuple(c, n)
    BY <2>1
  <2>3. t[1] = c /\ \A k \in 1..Arity[f] : t[k + 1] = n.children[k]
    BY <1>2, <2>2
  <2>4. \A k \in Columns(f) : t[k] = s[a.vars[k]]
    BY <1>1, <1>5
  <2>5. c = s[d]
    BY <1>1, <1>4, <2>3, <2>4
  <2>6. ASSUME NEW k \in 1..Arity[f] PROVE s[FirstOf(pat, d \o <<k>>)] = n.children[k]
    <3>1. k + 1 \in Columns(f)
      BY <1>4
    <3>2. t[k + 1] = s[a.vars[k + 1]]
      BY <2>4, <3>1
    <3>3. a.vars[k + 1] = FirstOf(pat, d \o <<k>>) /\ t[k + 1] = n.children[k]
      BY <1>1, <2>3
    <3> QED BY <3>2, <3>3
  <2> QED BY <2>2, <2>5, <2>6
<1>7. ASSUME NEW n \in classes[s[d]], n.op = f,
             \A k \in 1..Arity[f] : s[FirstOf(pat, d \o <<k>>)] = n.children[k]
      PROVE  Tuple(s[d], n) \in Residual(a, s)
  <2> DEFINE t == Tuple(s[d], n)
  <2>1. s[d] \in C
    BY <1>1, <1>4 DEF V
  <2>2. t \in Table(f) /\ t[1] = s[d] /\ \A k \in 1..Arity[f] : t[k + 1] = n.children[k]
    BY <1>2, <1>7, <2>1
  <2> HIDE DEF t
  <2>3. ASSUME NEW j \in Columns(f) PROVE t[j] = s[a.vars[j]]
    <3>1. CASE j = 1
      BY <1>1, <2>2, <3>1
    <3>2. CASE j # 1
      <4>1. PICK k \in 1..Arity[f] : j = k + 1
        BY <1>4, <3>2
      <4>2. a.vars[k + 1] = FirstOf(pat, d \o <<k>>) /\ t[k + 1] = n.children[k]
        BY <1>1, <2>2
      <4>3. s[FirstOf(pat, d \o <<k>>)] = n.children[k]
        BY <1>7
      <4> QED BY <4>1, <4>2, <4>3
    <3> QED BY <3>1, <3>2
  <2>4. t \in Residual(a, s)
    BY <1>5, <2>2, <2>3
  <2> QED BY <2>4 DEF t
<1> QED BY <1>6, <1>7 DEF Places, a, f

\* The substitutions that satisfy all the atoms are the matches, seen at the
\* variables of the query.
LEMMA FoundIs ==
  ASSUME Ready, NEW pat \in Patterns
  PROVE  Answers(pat, Found(pat, QueryVars(pat))) = Answers(pat, Matches(pat))
<1> DEFINE V == QueryVars(pat)
           P == DOMAIN pat
           C == DOMAIN classes
           head == Query[pat].head
           Seen(s) == [d \in head |-> s[d]]
<1>1. /\ V \subseteq P /\ \A x \in V : FirstOf(pat, x) = x
      /\ \A d \in P : FirstOf(pat, d) \in V
      /\ \A d \in P : IsApp(pat, d) => AtomOf(pat, d) \in Query[pat].atoms
      /\ \A a \in Query[pat].atoms : \E d \in P : IsApp(pat, d) /\ a = AtomOf(pat, d)
      /\ \A d \in P : IsApp(pat, d) => \E k \in DOMAIN AtomOf(pat, d).vars : AtomOf(pat, d).vars[k] \in V
  <2>1. ASSUME NEW d \in P, IsApp(pat, d)
        PROVE  \E k \in DOMAIN AtomOf(pat, d).vars : AtomOf(pat, d).vars[k] \in V
    <3>1. Arity[Symbol(pat, d)] \in Nat
      BY <2>1, PatternsAreTrees DEF IsTree
    <3>2. 1 \in Columns(Symbol(pat, d))
      BY <3>1 DEF Columns
    <3> QED BY <2>1, <3>2, AtomFacts DEF AtomsAre
  <2> QED BY <2>1, AtomFacts DEF AtomsAre
<1>2. IsTree(pat) /\ FirstsStand(pat)
  BY PatternsAreTrees, FirstFacts
<1>3. head \subseteq V
  BY DEF Query
<1>4. \A s : s \in Found(pat, V) <=>
               s \in [V -> C] /\ \A d \in P : IsApp(pat, d) => Residual(AtomOf(pat, d), s) # {}
  BY <1>1 DEF Found
<1> HIDE DEF V, head
<1>5. ASSUME NEW s \in [V -> C], NEW m \in [P -> C], \A d \in P : m[d] = s[FirstOf(pat, d)]
      PROVE  s \in Found(pat, V) <=> m \in Matches(pat)
  <2>1. ASSUME NEW d \in P, IsApp(pat, d) PROVE Residual(AtomOf(pat, d), s) # {} <=> Holds(pat, m, d)
    <3>1. m[d] = s[d]
      BY <1>2, <1>5, <2>1 DEF FirstsStand
    <3>2. \A k \in Places(pat, d) : m[d \o <<k>>] = s[FirstOf(pat, d \o <<k>>)]
      BY <1>2, <1>5, <2>1 DEF IsTree
    <3> QED BY <2>1, <3>1, <3>2, ResidualIs DEF Holds, V
  <2>2. ASSUME NEW d \in P, ~ IsApp(pat, d) PROVE Holds(pat, m, d)
    <3>1. FirstOf(pat, d) \in P /\ FirstOf(pat, FirstOf(pat, d)) = FirstOf(pat, d)
      BY <1>2 DEF FirstsStand
    <3> QED BY <1>5, <2>2, <3>1 DEF Holds
  <2> QED BY <1>4, <2>1, <2>2 DEF Matches
<1>6. ASSUME NEW s \in Found(pat, V) PROVE \E m \in Matches(pat) : Seen(m) = Seen(s)
  <2> DEFINE m == [d \in P |-> s[FirstOf(pat, d)]]
  <2>1. s \in [V -> C]
    BY <1>4
  <2>2. m \in [P -> C] /\ \A d \in P : m[d] = s[FirstOf(pat, d)]
    BY <1>1, <2>1
  <2> HIDE DEF m
  <2>3. m \in Matches(pat)
    BY <1>5, <2>1, <2>2
  <2>4. \A d \in head : m[d] = s[d]
    BY <1>1, <1>3, <2>2
  <2> QED BY <2>3, <2>4
<1>7. ASSUME NEW m \in Matches(pat) PROVE \E s \in Found(pat, V) : Seen(s) = Seen(m)
  <2> DEFINE s == [d \in V |-> m[d]]
  <2>1. m \in [P -> C] /\ \A d \in P : Holds(pat, m, d)
    BY DEF Matches
  <2>2. s \in [V -> C] /\ \A d \in V : s[d] = m[d]
    BY <1>1, <2>1
  <2> HIDE DEF s
  <2>3. ASSUME NEW d \in P PROVE m[d] = s[FirstOf(pat, d)]
    <3>1. m[FirstOf(pat, d)] = m[d]
      BY <1>2, <2>1 DEF FirstsStand, Holds
    <3> QED BY <1>1, <2>2, <3>1
  <2>4. s \in Found(pat, V)
    BY <1>5, <2>1, <2>2, <2>3
  <2>5. \A d \in head : s[d] = m[d]
    BY <1>3, <2>2
  <2> QED BY <2>4, <2>5
<1>8. \A X : Answers(pat, X) = {Seen(s) : s \in X}
  BY DEF Answers, head
<1> HIDE DEF At
<1>9. Answers(pat, Found(pat, V)) = Answers(pat, Matches(pat))
  <2>1. {Seen(s) : s \in Found(pat, V)} = {Seen(m) : m \in Matches(pat)}
    BY <1>6, <1>7
  <2> QED BY <1>8, <2>1
<1> QED BY <1>9 DEF V

\* The join finds the matches and nothing else.
LEMMA JoinedIs ==
  ASSUME Ready, NEW pat \in Patterns
  PROVE  Joined(pat) = Answers(pat, Matches(pat))
<1> DEFINE V == QueryVars(pat)
           n == Cardinality(V)
           s == Plan(pat)
           A == Files(pat)
           done(k) == {s[j] : j \in 1..k}
           step == [p \in A \X (1..n) |-> Extend(pat, p[1], s[p[2]])]
           at == [k \in 0..n |-> Found(pat, done(k))]
           Runs(g) == g = [u \in SUBSET (1..n) |->
                             IF u = {} THEN {<<>>} ELSE Extend(pat, g[u \ {Max(u)}], s[Max(u)])]
           fold == CHOOSE g : Runs(g)
<1>1. Enumerates(s, n, V) /\ V \subseteq DOMAIN pat
  BY PlanIs, AtomFacts DEF AtomsAre
<1>2. n \in Nat /\ s \in [1..n -> V] /\ DOMAIN s = 1..n
  BY <1>1 DEF Enumerates
<1> HIDE DEF s, n, V
<1>3. Joined(pat) = Answers(pat, fold[1..n])
  BY <1>2 DEF Joined, FoldLeft, MapThenFoldSet, s
<1>4. {<<>>} \in A
  <2>1. <<>> \in [{} -> DOMAIN classes] /\ {} \in SUBSET (DOMAIN pat)
    OBVIOUS
  <2>2. \A r \in {<<>>} : \E D \in SUBSET (DOMAIN pat) : r \in [D -> DOMAIN classes]
    BY <2>1
  <2>3. {<<>>} \in Files(pat)
    <3> HIDE DEF A
    <3> QED BY <2>2, FilesType
  <2> QED BY <2>3
<1>5. step \in [A \X (1..n) -> A]
  <2>1. \A p \in A \X (1..n) : Extend(pat, p[1], s[p[2]]) \in A
    BY <1>1, <1>2, ExtendType
  <2> HIDE DEF A
  <2> QED BY <2>1
<1> HIDE DEF A
<1>6. Runs(fold)
  <2>1. PICK g \in [SUBSET (1..n) -> A] : SolvesFold(g, n, {<<>>}, step)
    <3> HIDE DEF step
    <3> QED BY <1>2, <1>4, <1>5, FoldExists
  <2>2. ASSUME NEW u \in SUBSET (1..n), u # {}
        PROVE  g[u] = Extend(pat, g[u \ {Max(u)}], s[Max(u)])
    <3>1. g[u \ {Max(u)}] \in A
      OBVIOUS
    <3>2. Max(u) \in 1..n
      BY <1>2, <2>2, SubsetHasMax
    <3>3. g[u] = step[<<g[u \ {Max(u)}], Max(u)>>]
      BY <2>1, <2>2 DEF SolvesFold
    <3> QED BY <3>1, <3>2, <3>3
  <2>3. g[{}] = {<<>>}
    BY <2>1 DEF SolvesFold
  <2>4. Runs(g)
    <3> HIDE DEF step
    <3> QED BY <2>2, <2>3
  <2> HIDE DEF Runs
  <2> QED BY <2>4
<1> HIDE DEF fold
<1>7. IsFold(fold, n, A, {<<>>}, step)
  <2>1. fold[{}] = {<<>>}
    BY <1>6
  <2>2. ASSUME NEW u \in SUBSET (1..n), u # {}, fold[u \ {Max(u)}] \in A
        PROVE  fold[u] = step[<<fold[u \ {Max(u)}], Max(u)>>]
    <3>1. Max(u) \in 1..n
      BY <1>2, <2>2, SubsetHasMax
    <3>2. fold[u] = Extend(pat, fold[u \ {Max(u)}], s[Max(u)])
      BY <1>6, <2>2
    <3> QED BY <2>2, <3>1, <3>2
  <2> HIDE DEF step
  <2> QED BY <2>1, <2>2 DEF IsFold
<1> HIDE DEF Runs
<1>8. \A k \in 0..n : at[k] = Found(pat, done(k))
  OBVIOUS
<1>9. /\ done(0) = {} /\ done(n) = V
      /\ \A k \in 1..n : /\ done(k) = done(k - 1) \cup {s[k]} /\ done(k) \subseteq V
                         /\ s[k] \notin done(k - 1)
  BY <1>1, Enumeration
<1>10. at = [k \in 0..n |-> at[k]]
  OBVIOUS
<1> HIDE DEF at, done
<1>11. \A X : Found(pat, X) \subseteq [X -> DOMAIN classes]
  BY DEF Found
<1>12. IsLoop(at, n, A, {<<>>}, step)
  <2>1. at \in [0..n -> A]
    <3>1. ASSUME NEW k \in 0..n PROVE at[k] \in A
      <4>1. done(k) \in SUBSET (DOMAIN pat)
        <5>1. k = 0 \/ k \in 1..n
          BY <1>2
        <5>2. {} \subseteq DOMAIN pat
          OBVIOUS
        <5> HIDE DEF step
        <5> QED BY <1>1, <1>9, <5>1, <5>2
      <4>2. Found(pat, done(k)) \in A
        BY <1>11, <4>1, FilesType DEF A
      <4> HIDE DEF step
      <4> QED BY <1>8, <4>2
    <3> QED BY <1>10, <3>1
  <2>2. at[0] = {<<>>}
    <3>1. 0 \in 0..n
      BY <1>2
    <3>2. at[0] = Found(pat, {})
      <4> HIDE DEF step
      <4> QED BY <1>8, <1>9, <3>1
    <3>3. Found(pat, {}) = [{} -> DOMAIN classes]
      BY DEF Found
    <3> QED BY <3>2, <3>3, EmptyFunction
  <2>3. ASSUME NEW k \in 1..n PROVE step[<<at[k - 1], k>>] = at[k]
    <3>1. k - 1 \in 0..n /\ k \in 0..n
      BY <1>2
    <3>2. at[k - 1] = Found(pat, done(k - 1)) /\ at[k] = Found(pat, done(k)) /\ at[k - 1] \in A
      BY <1>8, <2>1, <3>1
    <3>3. Extend(pat, Found(pat, done(k - 1)), s[k]) = Found(pat, done(k - 1) \cup {s[k]})
      BY <1>9, ExtendIs
    <3>4. step[<<at[k - 1], k>>] = Extend(pat, at[k - 1], s[k])
      BY <3>2
    <3> HIDE DEF step
    <3> QED BY <1>9, <3>2, <3>3, <3>4
  <2> HIDE DEF step
  <2> QED BY <2>1, <2>2, <2>3 DEF IsLoop
<1>13. fold[1..n] = at[n]
  <2> HIDE DEF step
  <2> QED BY <1>2, <1>7, <1>12, FoldEnds
<1>14. at[n] = Found(pat, V)
  <2>1. n \in 0..n
    BY <1>2
  <2> HIDE DEF step
  <2> QED BY <1>8, <1>9, <2>1
<1> QED BY <1>3, <1>13, <1>14, FoundIs DEF V

\* On a rebuilt e-graph, for any well-formed patterns, the walk and the join find the
\* same: the substitutions whose instance of the pattern the e-graph represents.
THEOREM MatchersAreExact == Spec => []MatchersAgree
<1>1. IInv => MatchersAgree
  BY CleanIsReady, RepresentedIs, WalkedIs, JoinedIs DEF MatchersAgree
<1> QED BY <1>1, EGraphInvariant, PTL
================================================================================
