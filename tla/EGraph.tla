--------------------------------- MODULE EGraph ---------------------------------
(***************************************************************************)
(* egraph.rs: a union-find, a hash-cons table and an e-class map, with the *)
(* congruence repair deferred to rebuild().                                *)
(*                                                                         *)
(* Symbols are the interned numbers 1..Len(Arity); an id is its position   *)
(* in `parents`.  The vector of an e-class is a set: its order and its     *)
(* duplicates before a rebuild are not observable through the matchers.    *)
(* rebuild() iterates hash maps, so the order in which a pass visits the   *)
(* e-classes is arbitrary.                                                 *)
(***************************************************************************)
EXTENDS Naturals, Sequences, FiniteSets, SequencesExt

CONSTANTS Arity,      \* the arity of each symbol
          MaxIds,     \* bound: ids ever created
          MaxUnions   \* bound: calls of union that merge two classes

ASSUME ArityAssumption == Arity \in Seq(Nat)
ASSUME BoundsAssumption == MaxIds \in Nat /\ MaxUnions \in Nat

VARIABLES parents,   \* union-find: parents[id]
          classes,   \* canonical id -> its e-nodes
          memo,      \* e-node -> id, the hash-cons
          pc,        \* "idle", or "rebuilding" inside rebuild()
          merges,    \* inside rebuild(): the merges of the scan not yet performed
          dirty,     \* history: a union has happened since the last rebuild
          asserted,  \* history: the pairs of roots that union() merged
          terms      \* history: the request that created each id

vars == <<parents, classes, memo, pc, merges, dirty, asserted, terms>>

Symbols == DOMAIN Arity
Ids == DOMAIN parents

\* find: the root above an id, without path compression.
FindIn(p, id) ==
    LET root[i \in DOMAIN p] == IF p[i] = i THEN i ELSE root[p[i]]
    IN  root[id]

Find(id) == FindIn(parents, id)

CanonIn(p, n) == [n EXCEPT !.children = [k \in DOMAIN n.children |-> FindIn(p, n.children[k])]]

Init ==
    /\ parents = <<>>
    /\ classes = <<>>
    /\ memo = <<>>
    /\ pc = "idle"
    /\ merges = <<>>
    /\ dirty = FALSE
    /\ asserted = {}
    /\ terms = <<>>

-----------------------------------------------------------------------------
(* add *)

\* Fault: the lookup uses the children as the caller passed them.
LookupRaw(n) == n

\* The key under which a request is looked up and inserted.
LookupKey(n) == CanonIn(parents, n)

\* The requests that can be made of add().
Requests == UNION {[op : {f}, children : [1..Arity[f] -> Ids]] : f \in Symbols}

\* add() of an e-node the table holds returns the class of its entry.
Held(n) == LookupKey(n) \in DOMAIN memo
AnswerIfHeld(n) == Find(memo[LookupKey(n)])

\* insert() of a key that the map does not hold.
With(map, key, value) == [k \in DOMAIN map \cup {key} |-> IF k = key THEN value ELSE map[k]]

\* add() of an e-node it does not hold: a class of its own.
AddFresh(n) ==
    LET id == Len(parents) + 1
    IN  /\ ~Held(n)
        /\ id <= MaxIds
        /\ parents' = Append(parents, id)
        /\ classes' = With(classes, id, {LookupKey(n)})
        /\ memo' = With(memo, LookupKey(n), id)
        /\ terms' = Append(terms, n)
        /\ UNCHANGED <<pc, merges, dirty, asserted>>

Add ==
    /\ pc = "idle"
    /\ \E n \in Requests : (Held(n) /\ UNCHANGED vars) \/ AddFresh(n)

-----------------------------------------------------------------------------
(* union *)

\* Fault: the ids are not replaced by their roots first.
HangBelow(p, a, b) == [p EXCEPT ![b] = a]

\* parents[b] = a, for the roots a and b of the two ids: what union() does to
\* the union-find (nothing, when the roots are one).
Hang(p, a, b) == [p EXCEPT ![FindIn(p, b)] = FindIn(p, a)]

\* entry(id).or_default(): the e-nodes of a class, none when the map has none.
NodesUnder(cs, id) == IF id \in DOMAIN cs THEN cs[id] ELSE {}

\* What union() does to the classes: those of b's root lose their key and go
\* to a's root (nothing, when the roots are one or the loser has no class).
Gather(cs, p, a, b) ==
    LET winner == FindIn(p, a)
        loser  == FindIn(p, b)
        left   == [id \in DOMAIN cs \ {loser} |-> cs[id]]
    IN  IF winner = loser \/ loser \notin DOMAIN cs THEN cs
        ELSE With(left, winner, NodesUnder(left, winner) \cup cs[loser])

Union ==
    /\ pc = "idle"
    /\ Cardinality(asserted) < MaxUnions
    /\ \E a, b \in Ids :
          /\ Find(a) # Find(b)
          /\ parents' = Hang(parents, a, b)
          /\ classes' = Gather(classes, parents, a, b)
          /\ asserted' = asserted \cup {<<Find(a), Find(b)>>}
    /\ dirty' = TRUE
    /\ UNCHANGED <<memo, pc, merges, terms>>

-----------------------------------------------------------------------------
(* rebuild *)

\* The e-nodes of every class go under its root: fresh.entry(find(id)).
ByRoot(cs, p) ==
    [r \in {FindIn(p, c) : c \in DOMAIN cs} |->
        UNION {cs[c] : c \in {c \in DOMAIN cs : FindIn(p, c) = r}}]

\* Every class under its root, every e-node over roots, duplicates gone.
Canonicalised ==
    ByRoot([id \in DOMAIN classes |-> {CanonIn(parents, n) : n \in classes[id]}], parents)

\* sort(): by symbol, then by children.
NodeBefore(m, n) ==
    \/ m.op < n.op
    \/ /\ m.op = n.op
       /\ \E k \in DOMAIN m.children :
             /\ m.children[k] < n.children[k]
             /\ \A j \in 1..(k - 1) : m.children[j] = n.children[j]

SortedNodes(S) ==
    CHOOSE s \in SetToSeqs(S) : \A j, k \in DOMAIN s : j < k => NodeBefore(s[j], s[k])

\* The pairs one scan collects when it visits the classes in this order: an
\* e-node already seen in an earlier class asks for the two to be merged.
MergesOf(fresh, order) ==
    LET SeenIn(n) == order[CHOOSE k \in DOMAIN order :
                              /\ n \in fresh[order[k]]
                              /\ \A j \in 1..(k - 1) : n \notin fresh[order[j]]]
        Pairs(c) == LET repeated == {n \in fresh[c] : SeenIn(n) # c}
                        sorted   == SortedNodes(repeated)
                    IN  [k \in DOMAIN sorted |-> <<SeenIn(sorted[k]), c>>]
    IN  FlattenSeq([k \in DOMAIN order |-> Pairs(order[k])])

\* The table of a scan that met no e-node in two classes.
MemoOf(fresh) ==
    [n \in UNION {fresh[c] : c \in DOMAIN fresh} |->
        CHOOSE c \in DOMAIN fresh : n \in fresh[c]]

Rebuild ==
    /\ pc = "idle"
    /\ pc' = "rebuilding"
    /\ UNCHANGED <<parents, classes, memo, merges, dirty, asserted, terms>>

\* One scan of the loop.  Only the classes that share an e-node with another
\* can produce merges, so only their order matters; without any, the loop ends
\* with the new table.
Scan ==
    LET fresh  == Canonicalised
        shared == {c \in DOMAIN fresh : \E d \in DOMAIN fresh \ {c} : fresh[c] \cap fresh[d] # {}}
    IN  /\ pc = "rebuilding" /\ merges = <<>>
        /\ classes' = fresh
        /\ IF shared = {}
           THEN /\ memo' = MemoOf(fresh)
                /\ pc' = "idle"
                /\ dirty' = FALSE
                /\ UNCHANGED merges
           ELSE /\ \E order \in SetToSeqs(shared) : merges' = MergesOf(fresh, order)
                /\ UNCHANGED <<memo, pc, dirty>>
        /\ UNCHANGED <<parents, asserted, terms>>

\* Fault: a pair collected by the scan is taken off without its union.
MergeSkipped ==
    /\ merges # <<>>
    /\ merges' = Tail(merges)
    /\ UNCHANGED <<parents, classes, memo, pc, dirty, asserted, terms>>

\* for (a, b) in merges { self.union(a, b) }
MergeNext ==
    /\ merges # <<>>
    /\ parents' = Hang(parents, merges[1][1], merges[1][2])
    /\ classes' = Gather(classes, parents, merges[1][1], merges[1][2])
    /\ merges' = Tail(merges)
    /\ UNCHANGED <<memo, pc, dirty, asserted, terms>>

Next == Add \/ Union \/ Rebuild \/ Scan \/ MergeNext

\* rebuild() runs to its end once called; nobody has to call anything.
Spec == Init /\ [][Next]_vars /\ WF_vars(Scan \/ MergeNext)

-----------------------------------------------------------------------------
(* Properties *)

Same(a, b) == Find(a) = Find(b)

Equivalence == {p \in Ids \X Ids : Same(p[1], p[2])}

\* The least congruence that contains the asserted pairs, by iteration: from
\* labels that name the class of each id, merge whatever must be equal.
LeastCongruence ==
    LET Join(l, a, b) == [i \in DOMAIN l |-> IF l[i] = l[b] THEN l[a] ELSE l[i]]
        OnLabels(l, i) == [k \in DOMAIN terms[i].children |-> l[terms[i].children[k]]]
        Broken(l) == {p \in asserted \cup (Ids \X Ids) :
                         /\ l[p[1]] # l[p[2]]
                         /\ \/ p \in asserted
                            \/ /\ terms[p[1]].op = terms[p[2]].op
                               /\ OnLabels(l, p[1]) = OnLabels(l, p[2])}
        close[l \in [Ids -> Ids]] ==
            IF Broken(l) = {} THEN l
            ELSE LET p == CHOOSE p \in Broken(l) : TRUE IN close[Join(l, p[1], p[2])]
        label == close[[i \in Ids |-> i]]
    IN  {p \in Ids \X Ids : label[p[1]] = label[p[2]]}

\* Property: at every moment, also between a union and its rebuild and inside
\* a rebuild, no two ids are merged that the asserted equalities do not force
\* to be equal; and whenever no union is waiting for a rebuild, all that are
\* forced have been merged, whatever order the scans visited the classes in.
\* (This is what makes add() between union() and rebuild() safe: it may
\* create a class for a term that already has one, and the rebuild must find
\* out.)
MergesAreForced ==
    /\ Equivalence \subseteq LeastCongruence
    /\ ~dirty => LeastCongruence \subseteq Equivalence

\* Property: when add() answers from its table, the answer is the class of a
\* term with that symbol over children that are equal to those asked for; the
\* table is stale between a union and its rebuild, and must not lie even then.
AnswersAreTheTermAsked ==
    pc = "idle" =>
        \A n \in Requests : Held(n) =>
            \E i \in Ids : /\ terms[i].op = n.op
                           /\ Same(i, AnswerIfHeld(n))
                           /\ \A k \in DOMAIN n.children : Same(terms[i].children[k], n.children[k])

Clean == pc = "idle" /\ ~dirty

\* Property: at every moment, also after several unions and between the merges
\* of a rebuild, the classes are kept under the roots and under no other id;
\* and rebuild() restores both invariants of its doc comment (children are
\* canonical, no e-node is in two classes) and makes the hash-cons exactly the
\* index of the classes; adding keeps it so.
RebuildRestores ==
    /\ DOMAIN classes = {id \in Ids : parents[id] = id}
    /\ Clean =>
        /\ \A c \in DOMAIN classes : \A n \in classes[c] : CanonIn(parents, n) = n
        /\ \A c, d \in DOMAIN classes : c # d => classes[c] \cap classes[d] = {}
        /\ DOMAIN memo = UNION {classes[c] : c \in DOMAIN classes}
        /\ \A n \in DOMAIN memo : n \in classes[Find(memo[n])]

\* Property: every call of rebuild() returns, because every scan but the last
\* finds classes to merge.
RebuildReturns == pc = "rebuilding" ~> pc = "idle"
================================================================================
