------------------------------ MODULE DatalogRules ------------------------------
(***************************************************************************)
(* The programs that eval.rs evaluates, as rules over the relation `arc`   *)
(* of the input graph.  A rule body is a set of INSTANCES, each a tuple    *)
(* that names the facts it matched; the code counts one derivation per     *)
(* instance, whether or not its head is already known.                     *)
(*                                                                         *)
(*   tc_linear     tc(x,y) :- arc(x,y).     tc(x,y) :- tc(x,z), arc(z,y).  *)
(*   reach_from    the same recursion seeded by the edges out of `Source`  *)
(*   tc_nonlinear  tc(x,y) :- arc(x,y).     tc(x,y) :- tc(x,z), tc(z,y).   *)
(*   sg            sg(x,y) :- arc(p,x), arc(p,y), x # y.                   *)
(*                 sg(x,y) :- arc(a,x), sg(a,b), arc(b,y).                 *)
(***************************************************************************)
EXTENDS FiniteSets

CONSTANTS Nodes, Source

ASSUME NodesAssumption == IsFiniteSet(Nodes) /\ Source \in Nodes

Programs == {"tc_linear", "reach_from", "tc_nonlinear", "sg"}

\* Graph::from_raw: unique edges and no self-loops.
Graphs == SUBSET {e \in Nodes \X Nodes : e[1] # e[2]}

Pairs == Nodes \X Nodes

\* The instances of the base rule.
BaseInstances(prog, arc) ==
    CASE prog = "sg" ->
            {i \in Nodes \X Nodes \X Nodes :
                <<i[1], i[2]>> \in arc /\ <<i[1], i[3]>> \in arc /\ i[2] # i[3]}
      [] prog = "reach_from" -> {e \in arc : e[1] = Source}
      [] OTHER -> arc

BaseHeads(prog, arc) ==
    IF prog = "sg"
    THEN {<<i[2], i[3]>> : i \in BaseInstances(prog, arc)}
    ELSE BaseInstances(prog, arc)

\* left(x,z) joined with right(z,y): the triples <<x, z, y>>.
Join(left, right) ==
    {i \in Nodes \X Nodes \X Nodes : <<i[1], i[2]>> \in left /\ <<i[2], i[3]>> \in right}

JoinHeads(instances) == {<<i[1], i[3]>> : i \in instances}

\* arc(a,x), driver(a,b), arc(b,y): the tuples <<a, b, x, y>>.
Cousins(driver, arc) ==
    {i \in Nodes \X Nodes \X Nodes \X Nodes :
        <<i[1], i[2]>> \in driver /\ <<i[1], i[3]>> \in arc /\ <<i[2], i[4]>> \in arc}

CousinHeads(instances) == {<<i[3], i[4]>> : i \in instances}

\* What one application of the recursive rule derives from the relation r:
\* the reference that every evaluation strategy is measured against.
Consequences(prog, arc, r) ==
    CASE prog = "sg" -> CousinHeads(Cousins(r, arc))
      [] prog = "tc_nonlinear" -> JoinHeads(Join(r, r))
      [] OTHER -> JoinHeads(Join(r, arc))
================================================================================
