----------------------------- MODULE GraphStore -----------------------------
(***************************************************************************)
(* What the GraphWrite trait of topic 51 (store.rs) promises of every      *)
(* store behind it: a set of directed edges, where insert and delete say   *)
(* whether they changed it.                                                *)
(***************************************************************************)
CONSTANT Edges      \* the edges that may be in the graph

VARIABLES
  edges,    \* the graph
  reply     \* what the last insert or delete returned

vars == <<edges, reply>>

Init == edges \in SUBSET Edges /\ reply = FALSE

\* insert(u, v): false if the edge was already present.
Insert(e) ==
  /\ reply' = (e \notin edges)
  /\ edges' = edges \cup {e}

\* delete(u, v): false if the edge was not present.
Delete(e) ==
  /\ reply' = (e \in edges)
  /\ edges' = edges \ {e}

Next == \E e \in Edges : Insert(e) \/ Delete(e)

Spec == Init /\ [][Next]_vars
=============================================================================
