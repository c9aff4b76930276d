------------------------------- MODULE Delta -------------------------------
(***************************************************************************)
(* Topic 49's Delta-shaped table (delta.rs): one create-only commit object *)
(* per version, and checkpoints that hold every live file.  The writer     *)
(* keeps the live files in memory so that it can checkpoint without        *)
(* reading the log; a scan is planned from the object store alone.         *)
(***************************************************************************)
EXTENDS ObjectStore, FiniteSetsExt

CONSTANTS
  Days,         \* the day partitions
  Intervals,    \* the values checkpoint_interval may have; 0 is never
  MaxVersions   \* bound: the number of versions ever committed

ASSUME DaysAreNat == Days \subseteq Nat
ASSUME IntervalsAreNat == Intervals \subseteq Nat
ASSUME MaxVersionsIsNat == MaxVersions \in Nat

VARIABLES
  \* the writer
  interval,     \* Delta.checkpoint_interval
  nextVersion,  \* Delta.next_version
  liveAdds,     \* Delta.live
  \* the object store
  commits,      \* version -> the files its commit object adds
  checkpoints,  \* version -> the files its checkpoint object adds
  lastCheckpoint \* the version in _last_checkpoint, or NoVersion

vars == <<interval, nextVersion, liveAdds, commits, checkpoints, lastCheckpoint>>

Versions == 0..MaxVersions

\* A plan of the newest version has the limit u64::MAX: above every version.
Latest == MaxVersions
\* None, for the version of a checkpoint.
NoVersion == MaxVersions + 1
DayOf(f) == f[2]

-----------------------------------------------------------------------------
Init ==
  /\ interval \in Intervals
  /\ nextVersion = 0
  /\ liveAdds = {}
  /\ commits = [v \in {} |-> {}]
  /\ checkpoints = [v \in {} |-> {}]
  /\ lastCheckpoint = NoVersion

\* checkpoint() of version v: the checkpoint object, then _last_checkpoint.
WriteCheckpoint(v, adds) ==
  /\ checkpoints' = PutObject(checkpoints, v, adds)
  /\ lastCheckpoint' = v

\* Fault: the checkpoint of version v is written from the live files as they
\* were before the commit of v.
StaleCheckpoint(fs) ==
  LET v == nextVersion IN
    /\ v < MaxVersions
    /\ IsAbsent(commits, v)
    /\ liveAdds' = liveAdds \cup fs
    /\ commits' = PutObject(commits, v, fs)
    /\ nextVersion' = v + 1
    /\ IF interval > 0 /\ v > 0 /\ v % interval = 0
         THEN WriteCheckpoint(v, liveAdds)
         ELSE UNCHANGED <<checkpoints, lastCheckpoint>>
    /\ UNCHANGED interval

CheckpointDue(v) == interval > 0 /\ v > 0 /\ v % interval = 0

\* append(files): the commit object by put_if_absent, then a checkpoint of the
\* version just written when the interval says so.
AppendFiles(fs) ==
  LET v == nextVersion IN
    /\ v < MaxVersions
    /\ IsAbsent(commits, v)
    /\ liveAdds' = liveAdds \cup fs
    /\ commits' = PutObject(commits, v, fs)
    /\ nextVersion' = v + 1
    /\ IF CheckpointDue(v) THEN WriteCheckpoint(v, liveAdds')
                           ELSE UNCHANGED <<checkpoints, lastCheckpoint>>
    /\ UNCHANGED interval

\* checkpoint(), called by hand: of the latest version; there must be one.
Checkpoint ==
  /\ nextVersion > 0
  /\ WriteCheckpoint(nextVersion - 1, liveAdds)
  /\ UNCHANGED <<interval, nextVersion, liveAdds, commits>>

Next ==
  \/ \E ds \in SUBSET Days : AppendFiles({nextVersion} \X ds)
  \/ Checkpoint

Spec == Init /\ [][Next]_vars

-----------------------------------------------------------------------------
(* Planning a scan of version at, or of the newest for at = Latest. *)

\* Fault: the hint is used for every plan, though it may point past at.
HintForEveryPlan(at) == IF lastCheckpoint # NoVersion THEN lastCheckpoint ELSE 0

\* The LIST starts just before the checkpoint that _last_checkpoint names when
\* the latest version is wanted (a hint), and at version 0 otherwise.
ListFrom(at) ==
  IF at = Latest /\ lastCheckpoint # NoVersion THEN lastCheckpoint ELSE 0

Listed(objects, at) == {v \in DOMAIN objects : ListFrom(at) <= v /\ v <= at}

\* Fault: replay starts at the checkpoint's own version.
ReplayFromBase(at) ==
  LET cps == Listed(checkpoints, at)
  IN  {v \in Listed(commits, at) : cps = {} \/ v >= Max(cps)}

\* The newest listed checkpoint is replayed, then every later listed commit.
BaseCheckpoint(at) ==
  LET cps == Listed(checkpoints, at) IN IF cps = {} THEN NoVersion ELSE Max(cps)

Replayed(at) ==
  LET base == BaseCheckpoint(at)
  IN  {v \in Listed(commits, at) : base = NoVersion \/ v > base}

\* The data files a plan for the days ds returns.
Plan(at, ds) ==
  LET base == BaseCheckpoint(at)
      adds == (IF base = NoVersion THEN {} ELSE checkpoints[base])
                \cup UNION {commits[v] : v \in Replayed(at)}
  IN  {f \in adds : DayOf(f) \in ds}

\* The version a plan reports.
PlannedVersion(at) == Max({0} \cup Listed(commits, at) \cup Listed(checkpoints, at))

-----------------------------------------------------------------------------
(* Properties. *)

TypeOK ==
  /\ interval \in Intervals
  /\ nextVersion \in Versions
  /\ DOMAIN commits = 0..(nextVersion - 1)
  /\ DOMAIN checkpoints \subseteq DOMAIN commits
  /\ lastCheckpoint \in DOMAIN checkpoints \cup {NoVersion}
  /\ liveAdds = UNION {commits[v] : v \in DOMAIN commits}

Queries == {Days} \cup {{d} : d \in Days}

\* Every version can be read back for ever, whichever checkpoints were written
\* since: a plan at version v, for all days or one, returns exactly the files
\* that the commits 0..v added, and the latest plan those of all commits.
PlansReplayTheLog ==
  \A at \in DOMAIN commits \cup {Latest}, ds \in Queries :
    /\ Plan(at, ds) = {f \in UNION {commits[v] : v \in {w \in DOMAIN commits : w <= at}} :
                         DayOf(f) \in ds}
    /\ nextVersion > 0 =>
         PlannedVersion(at) = IF at = Latest THEN nextVersion - 1 ELSE at

\* The point of a checkpoint: the latest plan replays only the commits after
\* the newest checkpoint, never one that the checkpoint already holds.
CheckpointBoundsReplay ==
  lastCheckpoint # NoVersion => Replayed(Latest) = {v \in DOMAIN commits : v > lastCheckpoint}
=============================================================================
