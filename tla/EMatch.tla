--------------------------------- MODULE EMatch ---------------------------------
(***************************************************************************)
(* The two matchers of topic 44 over one e-graph: the graph walk of        *)
(* backtrack.rs and the generic join of relational.rs, with the patterns   *)
(* and the query compiler of pattern.rs.                                   *)
(*                                                                         *)
(* A list of patterns is one function from positions to labels: position   *)
(* <<i>> is the root of pattern i and d \o <<k>> the k-th argument of d;   *)
(* a label is <<"app", symbol>> or <<"var", name>>.  The root of a pattern *)
(* is an application.  Positions also stand for what the compilers number: *)
(* a register of the walk is the position it holds, and a query variable   *)
(* is the first position, in reading order, that it stands for.            *)
(***************************************************************************)
EXTENDS EGraph

CONSTANT Patterns   \* the lists of patterns to match

\* Reading order: outside in, left to right.
PositionBefore(c, d) ==
    \/ IsStrictPrefix(c, d)
    \/ \E k \in DOMAIN c \cap DOMAIN d : /\ c[k] < d[k]
                                         /\ \A j \in 1..(k - 1) : c[j] = d[j]

Ranked(S, Before(_, _)) ==
    [k \in 1..Cardinality(S) |-> CHOOSE d \in S : Cardinality({c \in S : Before(c, d)}) = k - 1]

Positions(pat) == Ranked(DOMAIN pat, PositionBefore)

IsApp(pat, d) == pat[d][1] = "app"
Symbol(pat, d) == pat[d][2]
Arguments(pat, d) == [k \in 1..Arity[Symbol(pat, d)] |-> d \o <<k>>]
IsRoot(d) == Len(d) = 1

\* The positions of finitely many patterns: an application has an argument for
\* each place of its symbol, a variable has none, and the roots have no parent.
WellFormed(pat) ==
    /\ IsFiniteSet(DOMAIN pat) /\ DOMAIN pat \subseteq Seq(Nat)
    /\ \A d \in DOMAIN pat :
          /\ d # <<>>
          /\ pat[d][1] \in {"app", "var"}
          /\ IsApp(pat, d) => /\ Symbol(pat, d) \in Symbols
                              /\ Range(Arguments(pat, d)) \subseteq DOMAIN pat
          /\ IF IsRoot(d) THEN IsApp(pat, d)
             ELSE /\ Front(d) \in DOMAIN pat /\ IsApp(pat, Front(d))
                  /\ d \in Range(Arguments(pat, Front(d)))

ASSUME PatternsAssumption == \A pat \in Patterns : WellFormed(pat)

\* A variable is bound at its first occurrence.
FirstOf(pat, d) ==
    IF IsApp(pat, d) THEN d
    ELSE CHOOSE c \in DOMAIN pat : /\ pat[c] = pat[d]
                                   /\ \A e \in DOMAIN pat :
                                         pat[e] = pat[d] => e = c \/ PositionBefore(c, e)

QueryVars(pat) == {FirstOf(pat, d) : d \in DOMAIN pat}

\* compile: one atom per application, over its class and its arguments; the
\* head is the roots and the named variables.
Query ==
    [pat \in Patterns |->
        [order |-> Positions(pat),
         first |-> [d \in DOMAIN pat |-> FirstOf(pat, d)],
         vars  |-> QueryVars(pat),
         head  |-> {d \in QueryVars(pat) : IsRoot(d) \/ ~IsApp(pat, d)},
         atoms |-> {[rel |-> Symbol(pat, d),
                     vars |-> <<d>> \o [k \in 1..Arity[Symbol(pat, d)] |-> FirstOf(pat, d \o <<k>>)]] :
                       d \in {d \in DOMAIN pat : IsApp(pat, d)}}]]

Answers(pat, found) == {[d \in Query[pat].head |-> s[d]] : s \in found}

-----------------------------------------------------------------------------
(* backtrack.rs: a straight-line program over registers *)

\* classes_with_op
ClassesWithOp(f) == {c \in DOMAIN classes : \E n \in classes[c] : n.op = f}

\* nodes(class)
NodesOf(id) == IF Find(id) \in DOMAIN classes THEN classes[Find(id)] ELSE {}

\* Scan, which starts a pattern: its root register holds any class with its
\* symbol.
ScanRoot(pat, d, regs) == {With(regs, d, c) : c \in ClassesWithOp(Symbol(pat, d))}

\* Bind: one continuation for each e-node of the class in register d.
Bind(pat, d, regs) ==
    LET args == Arguments(pat, d)
    IN  {[e \in DOMAIN regs \cup Range(args) |->
             IF e \in DOMAIN regs THEN regs[e] ELSE n.children[Last(e)]] :
           n \in {n \in NodesOf(regs[d]) : n.op = Symbol(pat, d)}}

\* Fault: only a repeated variable that is a sibling is compared.
CompareSiblings(pat, d, regs) ==
    Front(Query[pat].first[d]) = Front(d) => Find(regs[Query[pat].first[d]]) = Find(regs[d])

\* Compare: the later occurrence of a variable holds the class of the first.
Compare(pat, d, regs) == Find(regs[Query[pat].first[d]]) = Find(regs[d])

\* The instructions that emit() produces for position d, on every register
\* file that got this far.
Execute(pat, files, d) ==
    LET scanned == IF IsRoot(d) THEN UNION {ScanRoot(pat, d, regs) : regs \in files} ELSE files
    IN  IF IsApp(pat, d)
        THEN UNION {Bind(pat, d, regs) : regs \in scanned}
        ELSE {regs \in scanned : Compare(pat, d, regs)}

Walked(pat) ==
    Answers(pat, FoldLeft(LAMBDA files, d : Execute(pat, files, d), {<<>>}, Query[pat].order))

-----------------------------------------------------------------------------
(* relational.rs: the e-graph as tables, and generic join *)

\* to_database: one tuple per e-node, the containing class first.
Table(f) ==
    UNION {{<<c>> \o [k \in DOMAIN n.children |-> Find(n.children[k])] :
              n \in {n \in NodesOf(c) : n.op = f}} : c \in DOMAIN classes}

AtomsWith(pat, x) == {a \in Query[pat].atoms : x \in Range(a.vars)}

\* index_atom: the tuples on which a repeated variable agrees.
Indexed(a) ==
    {t \in Table(a.rel) : \A j, k \in DOMAIN a.vars : a.vars[j] = a.vars[k] => t[j] = t[k]}

\* plan: most atoms first, then the smallest relation, then the number.  A
\* symbol without a relation counts as the largest (no relation outgrows the ids).
Plan(pat) ==
    LET Size(f)     == IF Table(f) = {} THEN MaxIds + 1 ELSE Cardinality(Table(f))
        Smallest(x) == Min({Size(a.rel) : a \in AtomsWith(pat, x)})
        Count(x)    == Cardinality(AtomsWith(pat, x))
        Before(x, y) ==
            \/ Count(x) > Count(y)
            \/ Count(x) = Count(y) /\ Smallest(x) < Smallest(y)
            \/ Count(x) = Count(y) /\ Smallest(x) = Smallest(y) /\ PositionBefore(x, y)
    IN  Ranked(Query[pat].vars, Before)

\* Where the trie of atom a stands under the substitution s: the tuples that
\* agree with it on the variables bound so far.
Residual(a, s) ==
    {t \in Indexed(a) : \A k \in DOMAIN a.vars : a.vars[k] \in DOMAIN s => t[k] = s[a.vars[k]]}

\* The values that atom a allows for x next.
Allowed(a, x, s) ==
    {t[CHOOSE k \in DOMAIN a.vars : a.vars[k] = x] : t \in Residual(a, s)}

\* gj at variable x: every value that all the atoms with x allow.
Extend(pat, found, x) ==
    LET atoms == AtomsWith(pat, x)
        Values(s) == LET allowed == {Allowed(a, x, s) : a \in atoms}
                     IN  {v \in DOMAIN classes : \A vs \in allowed : v \in vs}
    IN  UNION {{With(s, x, v) : v \in Values(s)} : s \in found}

Joined(pat) ==
    Answers(pat, FoldLeft(LAMBDA found, x : Extend(pat, found, x), {<<>>}, Plan(pat)))

-----------------------------------------------------------------------------
(* What a match is *)

\* The class of each position under an assignment of classes to variables, 0
\* for a term the e-graph does not hold.
Denoted(pat, sigma) ==
    LET class[d \in DOMAIN pat] ==
            IF ~IsApp(pat, d) THEN sigma[pat[d]]
            ELSE LET n == [op |-> Symbol(pat, d),
                           children |-> [k \in 1..Arity[Symbol(pat, d)] |-> class[d \o <<k>>]]]
                 IN  IF \E c \in DOMAIN classes : n \in classes[c]
                     THEN CHOOSE c \in DOMAIN classes : n \in classes[c]
                     ELSE 0
    IN  class

Represented(pat) ==
    LET names     == {pat[d] : d \in {d \in DOMAIN pat : ~IsApp(pat, d)}}
        instances == {Denoted(pat, sigma) : sigma \in [names -> DOMAIN classes]}
    IN  Answers(pat, {i \in instances : \A d \in DOMAIN pat : i[d] # 0})

\* Property: on a rebuilt e-graph the walk and the join return the same
\* substitutions, which are exactly those whose instance of the pattern the
\* e-graph represents.  (The test that a timing comparison rests on checks
\* it for three generated graphs; neither matcher is right before a rebuild.)
MatchersAgree ==
    Clean => \A pat \in Patterns : Walked(pat) = Represented(pat) /\ Joined(pat) = Represented(pat)
================================================================================
