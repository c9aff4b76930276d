------------------------------ MODULE CsrDelta ------------------------------
(***************************************************************************)
(* Topic 51's CSR plus delta (delta.rs, the FalkorDB delta matrix): a      *)
(* settled CSR M, pending additions DP and pending deletions DM, and a     *)
(* flush that folds both into a fresh M when |DP| + |DM| reaches a         *)
(* threshold.  The logical graph is (M \cup DP) \ DM.                      *)
(*                                                                         *)
(* DP and DM are maps from a row to a sorted vector; both operations drop  *)
(* a row they empty, so a set of edges stands for each.  The counters dp_n *)
(* and dm_n are kept apart from the maps, as in the code.                  *)
(***************************************************************************)
EXTENDS Integers, FiniteSets

CONSTANTS
  Edges,        \* the edges that may be in the graph
  Thresholds    \* the values threshold may be created with

ASSUME EdgesAreFinite == IsFiniteSet(Edges)
ASSUME ThresholdsAreNat == Thresholds \subseteq Nat

VARIABLES
  m,          \* the settled CSR
  dp, dm,     \* the pending additions and deletions
  dpN, dmN,   \* CsrDelta.dp_n, CsrDelta.dm_n
  threshold,  \* CsrDelta.threshold
  reply       \* what the last insert or delete returned

vars == <<m, dp, dm, dpN, dmN, threshold, reply>>

-----------------------------------------------------------------------------
(* Reads. *)

\* contains, in the read order of the code: DP, then DM, then M.
ContainsEdge(e) == e \in dp \/ (e \notin dm /\ e \in m)

\* num_edges
NumEdges == Cardinality(m) + dpN - dmN

\* The graph a reader sees.
Graph == {e \in Edges : ContainsEdge(e)}

\* for_each visits M's edges that have no tombstone and then DP's: this is how
\* often it visits e.
Visits(e) == (IF e \in m \ dm THEN 1 ELSE 0) + (IF e \in dp THEN 1 ELSE 0)

-----------------------------------------------------------------------------
(* Writes. *)

\* CsrDelta::new takes any CSR.
Init ==
  /\ m \in SUBSET Edges
  /\ dp = {} /\ dm = {} /\ dpN = 0 /\ dmN = 0
  /\ threshold \in Thresholds
  /\ reply = FALSE

\* What flush makes of the given deltas.
Fold(add, del) == (m \ del) \cup add

\* Fault: flush only beyond the threshold, not on reaching it.
FlushBeyond(add, del, addN, delN) ==
  IF addN + delN > threshold
    THEN m' = Fold(add, del) /\ dp' = {} /\ dm' = {} /\ dpN' = 0 /\ dmN' = 0
    ELSE m' = m /\ dp' = add /\ dm' = del /\ dpN' = addN /\ dmN' = delN

\* Fault: the counters survive the flush.
KeepCounters(add, del, addN, delN) ==
  /\ IF addN + delN >= threshold
       THEN m' = Fold(add, del) /\ dp' = {} /\ dm' = {}
       ELSE m' = m /\ dp' = add /\ dm' = del
  /\ dpN' = addN /\ dmN' = delN

\* The end of a write that added to a delta: flush when enough is pending.
MaybeFlush(add, del, addN, delN) ==
  IF addN + delN >= threshold
    THEN m' = Fold(add, del) /\ dp' = {} /\ dm' = {} /\ dpN' = 0 /\ dmN' = 0
    ELSE m' = m /\ dp' = add /\ dm' = del /\ dpN' = addN /\ dmN' = delN

\* Fault: an edge with a tombstone is added to DP, and the tombstone stays.
AddOverTombstone(e) ==
  /\ e \in dm
  /\ dp' = dp \cup {e} /\ dpN' = dpN + 1
  /\ reply' = TRUE
  /\ UNCHANGED <<m, dm, dmN, threshold>>

\* insert of an edge with a tombstone takes the tombstone away again.
Resurrect(e) ==
  /\ e \in dm
  /\ dm' = dm \ {e} /\ dmN' = dmN - 1
  /\ reply' = TRUE
  /\ UNCHANGED <<m, dp, dpN, threshold>>

\* insert of an edge that is settled or already pending changes nothing.
InsertPresent(e) ==
  /\ e \notin dm /\ e \in m \cup dp
  /\ reply' = FALSE
  /\ UNCHANGED <<m, dp, dm, dpN, dmN, threshold>>

\* insert of a new edge makes it pending.
InsertPending(e) ==
  /\ e \notin dm /\ e \notin m \cup dp
  /\ reply' = TRUE
  /\ MaybeFlush(dp \cup {e}, dm, dpN + 1, dmN)
  /\ UNCHANGED threshold

Insert(e) == Resurrect(e) \/ InsertPresent(e) \/ InsertPending(e)

\* delete of a pending edge forgets it.
Retract(e) ==
  /\ e \in dp
  /\ dp' = dp \ {e} /\ dpN' = dpN - 1
  /\ reply' = TRUE
  /\ UNCHANGED <<m, dm, dmN, threshold>>

\* delete of an edge that M lacks, or that has its tombstone, changes nothing.
DeleteAbsent(e) ==
  /\ e \notin dp /\ e \notin m \ dm
  /\ reply' = FALSE
  /\ UNCHANGED <<m, dp, dm, dpN, dmN, threshold>>

\* Fault: delete does not look for a tombstone that is already there.
DeleteAgain(e) ==
  /\ e \notin dp /\ e \in m
  /\ reply' = TRUE
  /\ MaybeFlush(dp, dm \cup {e}, dpN, dmN + 1)
  /\ UNCHANGED threshold

\* delete of a settled edge leaves a tombstone.
DeleteSettled(e) ==
  /\ e \notin dp /\ e \in m \ dm
  /\ reply' = TRUE
  /\ MaybeFlush(dp, dm \cup {e}, dpN, dmN + 1)
  /\ UNCHANGED threshold

Delete(e) == Retract(e) \/ DeleteAbsent(e) \/ DeleteSettled(e)

\* flush(), which is also public.
Flush ==
  /\ m' = Fold(dp, dm)
  /\ dp' = {} /\ dm' = {} /\ dpN' = 0 /\ dmN' = 0
  /\ UNCHANGED <<threshold, reply>>

Next == (\E e \in Edges : Insert(e) \/ Delete(e)) \/ Flush

Spec == Init /\ [][Next]_vars

-----------------------------------------------------------------------------
(* Properties. *)

TypeOK ==
  /\ m \subseteq Edges /\ dp \subseteq Edges /\ dm \subseteq Edges
  /\ dpN \in Nat /\ dmN \in Nat
  /\ threshold \in Thresholds
  /\ reply \in BOOLEAN

\* The three invariants delta.rs's header enumerates.
DeltasAreDisjoint == dp \cap m = {} /\ dm \subseteq m /\ dp \cap dm = {}

\* A scan and the point lookup agree, though they read the three parts in
\* different ways: for_each visits an edge once if contains says it is there
\* and never otherwise, and num_edges, computed from the counters, is the
\* number of edges a full scan visits.
ScanMatchesLookup ==
  /\ \A e \in Edges : Visits(e) = (IF ContainsEdge(e) THEN 1 ELSE 0)
  /\ NumEdges = Cardinality(Graph)

\* The point of the threshold: what is pending stays below it between writes
\* (and nothing is pending if it is 0), so no read is slowed by more.
PendingIsBounded == dpN + dmN < threshold \/ (dp = {} /\ dm = {})

\* Every write answers and changes the graph as the plain edge set does, and a
\* flush, whenever it comes, changes nothing a reader can see.
Abstract == INSTANCE GraphStore WITH edges <- Graph
ImplementsGraphStore == Abstract!Spec
=============================================================================
