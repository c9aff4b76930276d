------------------------------- MODULE SemiNaive -------------------------------
(***************************************************************************)
(* The evaluators of eval.rs: tc_linear, tc_nonlinear, sg and reach_from,  *)
(* under each strategy they offer.                                         *)
(*                                                                         *)
(*   naive     the recursive rule over the whole relation, every round     *)
(*   semi      the rule restricted to the previous round's new tuples; for *)
(*             the nonlinear rule this is TextbookDelta, which derives a   *)
(*             pair with both halves in the delta twice                    *)
(*   old       OldDelta (nonlinear only): the second version skips the     *)
(*             left tuples that are in the delta                           *)
(*                                                                         *)
(* A hash relation and the vectors that hold the same tuples are one set.  *)
(***************************************************************************)
EXTENDS NaiveEval, Integers

VARIABLES mode,         \* "naive", "semi" or "old"
          delta,        \* the tuples the last round added
          derivations,  \* Stats.derivations
          newTuples,    \* Stats.new_tuples
          iterations    \* Stats.iterations

vars == <<prog, arc, rel, pc, mode, delta, derivations, newTuples, iterations>>

Modes(p) == CASE p = "tc_nonlinear" -> {"naive", "semi", "old"}
              [] p = "reach_from" -> {"semi"}
              [] OTHER -> {"naive", "semi"}

Init ==
    /\ NInit
    /\ mode \in Modes(prog)
    /\ delta = {}
    /\ derivations = 0
    /\ newTuples = 0
    /\ iterations = 0

\* The loop over the edges before the rounds: every base instance is a
\* derivation, and the distinct heads are the first delta.
Load ==
    /\ pc = "load"
    /\ rel' = BaseHeads(prog, arc)
    /\ delta' = rel'
    /\ derivations' = Cardinality(BaseInstances(prog, arc))
    /\ newTuples' = Cardinality(rel')
    /\ pc' = "rounds"
    /\ UNCHANGED <<prog, arc, mode, iterations>>

\* The relation the recursive atom ranges over.
Driver == IF mode = "naive" THEN rel ELSE delta

\* The two delta versions of tc(x,z), tc(z,y); naive has only one.
Version1 == IF mode = "naive" THEN Join(rel, rel) ELSE Join(delta, rel)

\* Fault: OldDelta does not skip the left tuples of the delta.
Version2Unfiltered == IF mode = "naive" THEN {} ELSE Join(rel, delta)

Version2 ==
    CASE mode = "naive" -> {}
      [] mode = "semi" -> Join(rel, delta)
      [] mode = "old" -> Join(rel \ delta, delta)

\* The number of times this round's rule bodies match.
Matches ==
    CASE prog = "sg" -> Cardinality(Cousins(Driver, arc))
      [] prog = "tc_nonlinear" -> Cardinality(Version1) + Cardinality(Version2)
      [] OTHER -> Cardinality(Join(Driver, arc))

Emitted ==
    CASE prog = "sg" -> CousinHeads(Cousins(Driver, arc))
      [] prog = "tc_nonlinear" -> JoinHeads(Version1) \cup JoinHeads(Version2)
      [] OTHER -> JoinHeads(Join(Driver, arc))

\* The tuples that are new to the relation, each once (`seen`).
Fresh == Emitted \ rel

\* Fault: the base tuples drive every round.
KeepDelta(fresh) ==
    /\ rel' = rel \cup fresh
    /\ UNCHANGED delta

\* merge: the fresh tuples enter the relation and are the next delta.
Merge(fresh) ==
    /\ rel' = rel \cup fresh
    /\ delta' = fresh

Round ==
    /\ pc = "rounds"
    /\ iterations' = iterations + 1
    /\ derivations' = derivations + Matches
    /\ newTuples' = newTuples + Cardinality(Fresh)
    /\ IF Fresh = {}
       THEN pc' = "done" /\ UNCHANGED <<rel, delta>>
       ELSE pc' = pc /\ Merge(Fresh)
    /\ UNCHANGED <<prog, arc, mode>>

Next == Load \/ Round

\* An evaluator is one function that runs to its end.
Spec == Init /\ [][Next]_vars /\ WF_vars(Next)

-----------------------------------------------------------------------------
(* The bookkeeping that makes a delta round as good as a whole one. *)

TypeOK ==
    /\ prog \in Programs
    /\ mode \in Modes(prog)
    /\ arc \in Graphs
    /\ rel \in SUBSET Pairs
    /\ delta \in SUBSET Pairs
    /\ pc \in {"load", "rounds", "done"}
    /\ iterations \in Nat /\ derivations \in Nat /\ newTuples \in Nat

\* Whatever the rule derives from tuples older than the delta is known.
OldIsClosed ==
    pc # "load" =>
        /\ delta \subseteq rel
        /\ Consequences(prog, arc, rel \ delta) \subseteq rel

InductiveInvariant == TypeOK /\ OldIsClosed /\ (pc = "load" => rel = {} /\ delta = {})

\* Property: every strategy computes, round by round, exactly what naive
\* evaluation computes, stops in the same round, and does stop.  (The tests
\* compare final sizes and checksums on three generated graphs.)
ImplementsNaive == NSpec

-----------------------------------------------------------------------------
(* What the counters and the result mean. *)

\* The instances of the recursive rule over a relation r.
InstancesOver(r) ==
    CASE prog = "sg" -> Cardinality(Cousins(r, arc))
      [] prog = "tc_nonlinear" -> Cardinality(Join(r, r))
      [] OTHER -> Cardinality(Join(r, arc))

\* Property: a delta strategy matches every instance of the rule exactly once
\* over the whole evaluation: between rounds the counter is the base
\* instances plus those over the tuples older than the delta.
\* TextbookDelta is only bounded from below, since a pair of two new tuples
\* counts twice.  new_tuples is the size of the relation in every mode, so
\* duplicates() never underflows.  (expected_linear_semi_naive_derivations
\* and the doc of OldDelta state the final counts.)
DerivationsExact ==
    pc # "load" =>
        LET processed == IF pc = "done" THEN rel ELSE rel \ delta
            exact     == Cardinality(BaseInstances(prog, arc)) + InstancesOver(processed)
        IN  /\ newTuples = Cardinality(rel)
            /\ derivations >= newTuples
            /\ CASE mode = "naive" -> derivations >= exact
                 [] mode = "semi" /\ prog = "tc_nonlinear" -> derivations >= exact
                 [] OTHER -> derivations = exact

\* tc_pairs: breadth-first search from s, a level at a time.
BfsFrom(s) ==
    LET Out(seen) == {v \in Nodes : \E u \in seen : <<u, v>> \in arc}
        level[k \in Nat] == IF k = 0 THEN Out({s})
                            ELSE LET seen == level[k - 1] IN seen \cup Out(seen)
    IN  level[Cardinality(Nodes)]

TcPairs == UNION {{s} \X BfsFrom(s) : s \in Nodes}

\* Property: the closure programs end with exactly the reachable pairs, the
\* goal-directed one with its row of them, and no round ever holds more.
ClosureIsReachability ==
    LET model == IF prog = "reach_from" THEN {p \in TcPairs : p[1] = Source} ELSE TcPairs
    IN  prog # "sg" => /\ rel \subseteq model
                       /\ pc = "done" => rel = model
================================================================================
