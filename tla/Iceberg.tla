------------------------------ MODULE Iceberg ------------------------------
(***************************************************************************)
(* Topic 49's Iceberg-shaped table (iceberg.rs): immutable data files, one *)
(* manifest per append, a manifest list per snapshot, and a catalog entry  *)
(* that leads to the table metadata.  One writer holds its last committed  *)
(* metadata in memory; a scan is planned from the object store alone.      *)
(*                                                                         *)
(* A snapshot's id stands for itself and its sequence number, which the    *)
(* code derives from one another.  A data file is a pair <<commit, day>>.  *)
(* The catalog holds the snapshots of the metadata file it points to:      *)
(* metadata files are immutable and only the newest is ever read.          *)
(***************************************************************************)
EXTENDS ObjectStore, Sequences, FiniteSetsExt

CONSTANTS
  Days,       \* the day partitions
  MergeMins,  \* the values merge_min may be created with; 0 is None
  MaxSeq      \* bound: the number of snapshots ever committed

ASSUME DaysAreNat == Days \subseteq Nat
ASSUME DaysAreFinite == IsFiniteSet(Days)
ASSUME MergeMinsAreNat == MergeMins \subseteq Nat
ASSUME MaxSeqIsNat == MaxSeq \in Nat

VARIABLES
  \* the writer
  mergeMin,   \* Iceberg.merge_min: merge when that many manifests are live
  seq,        \* Iceberg.seq: the last snapshot committed
  snapshots,  \* Iceberg.snapshots: the ids kept, oldest first
  manifests,  \* Iceberg.manifests: references to the live manifests
  live,       \* Iceberg.live: the live files, each with its snapshot
  \* the object store
  catalog,    \* the snapshots the published metadata lists
  lists,      \* manifest lists: snapshot id -> references
  bodies,     \* manifests: path -> entries
  \* history
  truth       \* what each snapshot was committed with: 0..seq -> files

writerVars == <<mergeMin, seq, snapshots, manifests, live>>
storeVars == <<catalog, lists, bodies>>
vars == <<mergeMin, seq, snapshots, manifests, live, catalog, lists, bodies, truth>>

Ids == 1..MaxSeq
Files == Nat \X Days
DayOf(f) == f[2]
Entries == [file : Files, by : Ids]
FilesOf(entries) == {e.file : e \in entries}

\* "m0" is an append's or a rewrite's manifest, "m1" a merge append's.
Kinds == {"m0", "m1"}
Paths == Ids \X Kinds

\* The partition summary's bounds; unwrap_or(0) for a manifest of no files.
DaysOf(fs) == {DayOf(f) : f \in fs}
DayLo(fs) == IF fs = {} THEN 0 ELSE Min(DaysOf(fs))
DayHi(fs) == IF fs = {} THEN 0 ELSE Max(DaysOf(fs))

\* A manifest list's entry: the manifest's path and its partition summary.
Reference(path, fs) == [path |-> path, lo |-> DayLo(fs), hi |-> DayHi(fs)]
PathsOf(refs) == {m.path : m \in refs}

-----------------------------------------------------------------------------
Init ==
  /\ mergeMin \in MergeMins
  /\ seq = 0
  /\ snapshots = <<>>
  /\ manifests = {} /\ live = {}
  /\ catalog = <<>>
  /\ lists = [s \in {} |-> {}]
  /\ bodies = [p \in {} |-> {}]
  /\ truth = [s \in {0} |-> {}]

\* The end of every commit: the snapshot's manifest list, then the metadata
\* that names every kept snapshot, then the catalog pointer.
CommitSnapshot(id, refs, fs) ==
  /\ seq' = id
  /\ snapshots' = Append(snapshots, id)
  /\ manifests' = refs
  /\ lists' = PutObject(lists, id, refs)
  /\ catalog' = snapshots'
  /\ truth' = PutObject(truth, id, truth[seq] \cup fs)
  /\ UNCHANGED mergeMin

NewEntries(fs, id) == {[file |-> f, by |-> id] : f \in fs}
NewReference(fs, id) == Reference(<<id, "m0">>, fs)

\* with_merge_append's threshold, the new manifest counted.
Merges(fs, id) ==
  /\ mergeMin > 0
  /\ Cardinality(manifests \cup {NewReference(fs, id)}) >= mergeMin

\* append(files) where no merge is due: one new manifest of the new files.
FastAppend(fs) ==
  LET id == seq + 1 IN
    /\ id \in Ids
    /\ ~ Merges(fs, id)
    /\ live' = live \cup NewEntries(fs, id)
    /\ bodies' = PutObject(bodies, <<id, "m0">>, NewEntries(fs, id))
    /\ CommitSnapshot(id, manifests \cup {NewReference(fs, id)}, fs)

\* Fault: the merge deletes every manifest it replaces.
EagerMerge(fs) ==
  LET id == seq + 1
      path == <<id, "m1">>
  IN
    /\ id \in Ids
    /\ Merges(fs, id)
    /\ live' = live \cup NewEntries(fs, id)
    /\ bodies' = PutObject(DeleteObjects(bodies, PathsOf(manifests)), path, live')
    /\ CommitSnapshot(id, {Reference(path, FilesOf(live'))}, fs)

\* append(files) where the merge is due: the manifest just written is deleted
\* again, and one manifest of every live file replaces all the live ones.
MergeAppend(fs) ==
  LET id == seq + 1
      path == <<id, "m1">>
  IN
    /\ id \in Ids
    /\ Merges(fs, id)
    /\ live' = live \cup NewEntries(fs, id)
    /\ bodies' = PutObject(DeleteObjects(bodies, {<<id, "m0">>}), path, live')
    /\ CommitSnapshot(id, {Reference(path, FilesOf(live'))}, fs)

AppendFiles(fs) == FastAppend(fs) \/ MergeAppend(fs)

\* Fault: the rewritten manifest is named after the last snapshot, not the new.
RewriteInPlace ==
  LET id == seq + 1
      path == <<seq, "m0">>
  IN
    /\ id \in Ids
    /\ bodies' = PutObject(bodies, path, live)
    /\ CommitSnapshot(id, {Reference(path, FilesOf(live))}, {})
    /\ UNCHANGED live

\* rewrite_manifests: one manifest of every live file, in a new snapshot.
RewriteManifests ==
  LET id == seq + 1
      path == <<id, "m0">>
  IN
    /\ id \in Ids
    /\ bodies' = PutObject(bodies, path, live)
    /\ CommitSnapshot(id, {Reference(path, FilesOf(live))}, {})
    /\ UNCHANGED live

\* Fault: the manifests of expired snapshots are deleted, live or not.
ExpireLive(keep) ==
  LET cut == IF Len(snapshots) > keep THEN Len(snapshots) - keep ELSE 0
      expired == {snapshots[i] : i \in 1..cut}
  IN
    /\ snapshots' = SubSeq(snapshots, cut + 1, Len(snapshots))
    /\ lists' = DeleteObjects(lists, expired)
    /\ bodies' = DeleteObjects(bodies, expired \X Kinds)
    /\ catalog' = snapshots'
    /\ UNCHANGED <<mergeMin, seq, manifests, live, truth>>

\* expire_snapshots(keep): the lists of the oldest snapshots are deleted, and
\* with them those of their own manifests that are not live.
ExpireSnapshots(keep) ==
  LET cut == IF Len(snapshots) > keep THEN Len(snapshots) - keep ELSE 0
      expired == {snapshots[i] : i \in 1..cut}
  IN
    /\ snapshots' = SubSeq(snapshots, cut + 1, Len(snapshots))
    /\ lists' = DeleteObjects(lists, expired)
    /\ bodies' = DeleteObjects(bodies, (expired \X Kinds) \ PathsOf(manifests))
    /\ catalog' = snapshots'
    /\ UNCHANGED <<mergeMin, seq, manifests, live, truth>>

Next ==
  \/ \E ds \in SUBSET Days : AppendFiles({seq + 1} \X ds)
  \/ RewriteManifests
  \/ \E keep \in 0..MaxSeq : ExpireSnapshots(keep)

Spec == Init /\ [][Next]_vars

-----------------------------------------------------------------------------
(* Planning a scan: catalog, metadata, manifest list, pruned manifests. *)

Kept == {catalog[i] : i \in DOMAIN catalog}
Current == catalog[Len(catalog)]

\* The manifests a plan for the days ds reads: those whose summary overlaps.
\* A full scan is the plan for all days, which prunes nothing.
ToRead(s, ds) ==
  {m.path : m \in {r \in lists[s] : ds = Days \/ \E d \in ds : d >= r.lo /\ d <= r.hi}}

\* plan(at = s) finds the snapshot, its list and every manifest it reads; the
\* code panics on the first that is missing.
CanPlan(s, ds) ==
  /\ s \in Kept
  /\ s \in DOMAIN lists
  /\ ToRead(s, ds) \subseteq DOMAIN bodies

\* The data files the plan returns.  The code returns a list: PlanCopies is
\* how often a file is in it.
Plan(s, ds) ==
  {f \in UNION {FilesOf(bodies[p]) : p \in ToRead(s, ds)} : DayOf(f) \in ds}
PlanCopies(s, ds, f) ==
  Cardinality({p \in ToRead(s, ds) : f \in FilesOf(bodies[p])})

\* What a scan is asked for: everything, or one day partition.
Queries == {Days} \cup {{d} : d \in Days}

ExactPlan(s) ==
  \A ds \in Queries :
    /\ CanPlan(s, ds)
    /\ Plan(s, ds) = {f \in truth[s] : DayOf(f) \in ds}
    /\ \A f \in Plan(s, ds) : PlanCopies(s, ds, f) = 1

-----------------------------------------------------------------------------
(* Properties. *)

TypeOK ==
  /\ mergeMin \in MergeMins
  /\ seq \in 0..MaxSeq
  /\ snapshots \in Seq(Ids) /\ catalog = snapshots
  /\ live \in SUBSET Entries
  /\ manifests \subseteq [path : Paths, lo : Nat, hi : Nat]
  /\ DOMAIN lists \subseteq Ids
  /\ \A s \in DOMAIN lists : lists[s] \subseteq [path : Paths, lo : Nat, hi : Nat]
  /\ DOMAIN bodies \subseteq Paths
  /\ \A p \in DOMAIN bodies : bodies[p] \subseteq Entries
  /\ DOMAIN truth = 0..seq

\* A reader of the current snapshot always finds every object, for a full scan
\* and for any one day, and gets each committed file exactly once: whatever
\* sequence of appends, merges, rewrites and expirations came before.
CurrentPlanExact == catalog # <<>> => ExactPlan(Current)

\* Time travel: a kept snapshot that can be planned at all is planned with
\* exactly the files it was committed with, each once; none leaks in from a
\* later commit or a later rewrite.
TimeTravelExact == \A s \in Kept : CanPlan(s, Days) => ExactPlan(s)

\* Only expiry can take a kept snapshot's manifests away, and only from a
\* snapshot that still lists manifests a rewrite or a merge has replaced:
\* appends, merges (which delete a manifest) and rewrites break no snapshot.
OnlyExpiryOfRewrittenBreaks ==
  [][\A s \in Kept \cap Kept' :
       CanPlan(s, Days) /\ ~ CanPlan(s, Days)'
         => seq' = seq /\ lists[s] \ manifests # {}]_vars

\* What expire_snapshots's comment promises: "a manifest is deleted when no
\* kept manifest list can reach it", so a kept snapshot can be planned.
KeptSnapshotsCanBePlanned == \A s \in Kept : CanPlan(s, Days)

\* The same promise in the other direction: after an expiry the manifests
\* that no kept manifest list reaches are gone.
UnreachableManifestsDeleted ==
  [][(\E keep \in 1..MaxSeq : ExpireSnapshots(keep))
       => DOMAIN bodies' \subseteq UNION {PathsOf(lists'[s]) : s \in Kept'}]_vars
=============================================================================
