---------------------------- MODULE TableFormats ----------------------------
(***************************************************************************)
(* bin/table_bench.rs drives the two table formats of topic 49 through the *)
(* same commits and asserts that their planners return the same files, for *)
(* full scans, for one day, for time travel and after maintenance.  This   *)
(* module sets an Iceberg table beside the Delta table that it extends,    *)
(* for every commit history and every interleaving of the commits with     *)
(* both formats' maintenance.                                              *)
(***************************************************************************)
EXTENDS Delta, Sequences

CONSTANTS MergeMins, MaxSeq

ASSUME IceDaysAreFinite == IsFiniteSet(Days)
ASSUME IceMergeMinsAreNat == MergeMins \subseteq Nat
ASSUME IceMaxSeqIsNat == MaxSeq \in Nat

VARIABLES
  \* Iceberg
  mergeMin, seq, snapshots, manifests, live, catalog, lists, bodies, truth,
  \* the driver
  iceIds      \* the Iceberg snapshot of every commit, in commit order

iceVars == <<mergeMin, seq, snapshots, manifests, live, catalog, lists, bodies, truth>>
bothVars == <<vars, iceVars, iceIds>>

Ice == INSTANCE Iceberg

-----------------------------------------------------------------------------
BothInit == Init /\ Ice!Init /\ iceIds = <<>>

\* One commit of the workload: the same data files are appended to both.
CommitBoth(ds) ==
  LET files == {nextVersion} \X ds IN
    /\ Ice!AppendFiles(files)
    /\ AppendFiles(files)
    /\ iceIds' = Append(iceIds, seq')

\* Maintenance of one table leaves the other alone.
MaintainIceberg ==
  /\ Ice!RewriteManifests \/ \E keep \in 0..MaxSeq : Ice!ExpireSnapshots(keep)
  /\ UNCHANGED <<vars, iceIds>>
MaintainDelta ==
  /\ Checkpoint
  /\ UNCHANGED <<iceVars, iceIds>>

BothNext ==
  \/ \E ds \in SUBSET Days : CommitBoth(ds)
  \/ MaintainIceberg
  \/ MaintainDelta

BothSpec == BothInit /\ [][BothNext]_bothVars

-----------------------------------------------------------------------------
(* Properties. *)

\* table_bench's assertion: the newest version of both tables plans to the
\* same files, in full and for each day, however either was maintained.
LatestPlansAgree ==
  catalog # <<>> =>
    \A ds \in Queries :
      Ice!CanPlan(Ice!Current, ds)
        /\ Ice!Plan(Ice!Current, ds) = Plan(Latest, ds)

\* Time travel agrees too: the snapshot of the n-th commit, as long as Iceberg
\* can plan it, and Delta's version n - 1 hold the same files.
TimeTravelAgrees ==
  \A n \in DOMAIN iceIds, ds \in Queries :
    Ice!CanPlan(iceIds[n], Days) =>
      Ice!Plan(iceIds[n], ds) = Plan(n - 1, ds)
=============================================================================
