------------------------------ MODULE KvModel ------------------------------
(***************************************************************************)
(* The oracle of topic 16 (`Model` in lib.rs): what a correct key-value    *)
(* store must contain after the same operations.  It keeps the committed   *)
(* map and the writes that the next Commit will drain into it; a crash     *)
(* forgets the writes that were never committed.                           *)
(***************************************************************************)
EXTENDS KvMaps

VARIABLES
  committed,  \* Model.committed
  pending     \* Model.pending: the writes since the last Commit, in order

modelVars == <<committed, pending>>

Init ==
  /\ committed = EmptyMap
  /\ pending = <<>>

\* Op::Put(k, v), and Op::Delete(k) as the write of Absent.
Write(k, v) ==
  /\ pending' = Append(pending, [key |-> k, val |-> v])
  /\ UNCHANGED committed

\* Op::Commit drains the pending writes, in order, into the committed map.
Commit ==
  /\ committed' = ApplyWrites(committed, pending)
  /\ pending' = <<>>

\* Op::Crash: what was not committed never happened.
Crash ==
  /\ pending' = <<>>
  /\ UNCHANGED committed

Next ==
  \/ \E k \in Keys, v \in Vals \cup {Absent} : Write(k, v)
  \/ Commit
  \/ Crash

Spec == Init /\ [][Next]_modelVars
============================================================================
