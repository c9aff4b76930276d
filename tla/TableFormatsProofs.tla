------------------------- MODULE TableFormatsProofs -------------------------
(***************************************************************************)
(* Topic 49's tables, for any days, checkpoint intervals, merge thresholds *)
(* and numbers of commits.  The Delta-shaped table by itself: every        *)
(* version can be planned for ever, and the newest plan replays nothing    *)
(* that its checkpoint holds.  The two tables under one workload: their    *)
(* planners return the same files.  What this needs of the Iceberg-shaped  *)
(* table is proved in IcebergProofs.                                       *)
(***************************************************************************)
EXTENDS TableFormats, WellFoundedInduction, TLAPS

-----------------------------------------------------------------------------
(* The Delta table by itself. *)

\* A checkpoint holds the files of all the commits up to its version.
CheckpointsAreComplete ==
  \A v \in DOMAIN checkpoints : checkpoints[v] = UNION {commits[w] : w \in 0..v}

\* _last_checkpoint names the newest checkpoint there is.
HintIsNewest ==
  /\ lastCheckpoint = NoVersion => DOMAIN checkpoints = {}
  /\ lastCheckpoint # NoVersion => \A v \in DOMAIN checkpoints : v <= lastCheckpoint

IInv == TypeOK /\ CheckpointsAreComplete /\ HintIsNewest

-----------------------------------------------------------------------------
\* A nonempty set of naturals has a least one.
LEMMA MinExists ==
  ASSUME NEW T, T \subseteq Nat, T # {}
  PROVE  \E x \in T : \A y \in T : x <= y
<1> DEFINE R == OpToRel(<, Nat)
<1>1. \A x, y \in Nat : <<y, x>> \in R <=> y < x
  BY DEF OpToRel
<1>2. PICK x \in T : \A y \in T : ~ (<<y, x>> \in R)
  <2>1. IsWellFoundedOn(R, Nat)
    BY NatLessThanWellFounded DEF R
  <2> HIDE DEF R
  <2> QED BY <2>1, WFMin
<1>3. \A y \in T : ~ (y < x)
  <2> HIDE DEF R
  <2> QED BY <1>1, <1>2
<1> HIDE DEF R
<1> QED BY <1>3

\* A nonempty set of versions has a maximum, which Max returns.
LEMMA MaxOfVersions ==
  ASSUME NEW S, S \subseteq Versions, S # {}
  PROVE  Max(S) \in S /\ \A v \in S : v <= Max(S)
<1> DEFINE T == {MaxVersions - v : v \in S}
<1>1. S \subseteq 0..MaxVersions /\ MaxVersions \in Nat
  BY MaxVersionsIsNat DEF Versions
<1>2. T \subseteq Nat
  BY <1>1
<1>3. T # {}
  OBVIOUS
<1>4. PICK t \in T : \A u \in T : t <= u
  <2> HIDE DEF T
  <2> QED BY <1>2, <1>3, MinExists
<1>5. PICK m \in S : t = MaxVersions - m
  OBVIOUS
<1>6. \A v \in S : v <= m
  <2> SUFFICES ASSUME NEW v \in S PROVE v <= m
    OBVIOUS
  <2>1. MaxVersions - m <= MaxVersions - v
    BY <1>4, <1>5
  <2>2. v \in 0..MaxVersions /\ m \in 0..MaxVersions
    BY <1>1
  <2> HIDE DEF T
  <2> QED BY <1>1, <2>1, <2>2
<1>7. \A v \in S : m >= v
  BY <1>1, <1>6
<1> QED BY <1>1, <1>6, <1>7 DEF Max

\* The invariant holds initially: there is no object.
LEMMA InitIInv == ASSUME Init PROVE IInv
BY MaxVersionsIsNat
   DEF Init, IInv, TypeOK, CheckpointsAreComplete, HintIsNewest, Versions

\* Committing a version that the log lacks adds its files and changes no
\* earlier commit.
LEMMA CommitExtendsTheLog ==
  ASSUME TypeOK, NEW fs, commits' = PutObject(commits, nextVersion, fs)
  PROVE  /\ DOMAIN commits' = 0..nextVersion
         /\ commits'[nextVersion] = fs
         /\ \A v \in DOMAIN commits : commits'[v] = commits[v]
         /\ UNION {commits'[v] : v \in DOMAIN commits'}
              = (UNION {commits[v] : v \in DOMAIN commits}) \cup fs
<1>1. nextVersion \in Nat /\ DOMAIN commits = 0..(nextVersion - 1)
  BY MaxVersionsIsNat DEF TypeOK, Versions
<1>2. DOMAIN commits' = 0..nextVersion
  BY <1>1 DEF PutObject
<1>3. commits'[nextVersion] = fs /\ \A v \in DOMAIN commits : commits'[v] = commits[v]
  BY <1>1 DEF PutObject
<1>4. 0..nextVersion = 0..(nextVersion - 1) \cup {nextVersion}
  BY <1>1
<1>5. UNION {commits'[v] : v \in DOMAIN commits'}
        = (UNION {commits[v] : v \in DOMAIN commits}) \cup fs
  BY <1>1, <1>2, <1>3, <1>4
<1> QED BY <1>2, <1>3, <1>5

\* A checkpoint of the newest version, holding the live files, keeps what the
\* invariant says of checkpoints.
LEMMA CheckpointOfNewest ==
  ASSUME IInv, NEW v \in Nat, DOMAIN commits' = 0..v,
         nextVersion \in {v, v + 1}, v < MaxVersions,
         \A w \in DOMAIN commits : commits'[w] = commits[w],
         liveAdds' = UNION {commits'[w] : w \in 0..v},
         WriteCheckpoint(v, liveAdds')
  PROVE  /\ DOMAIN checkpoints' \subseteq DOMAIN commits'
         /\ lastCheckpoint' \in DOMAIN checkpoints'
         /\ CheckpointsAreComplete'
         /\ HintIsNewest'
<1> USE DEF IInv, TypeOK
<1>1. DOMAIN commits = 0..(nextVersion - 1) /\ DOMAIN commits \subseteq 0..v
  OBVIOUS
<1>2. /\ DOMAIN checkpoints' = DOMAIN checkpoints \cup {v}
      /\ checkpoints'[v] = liveAdds'
      /\ \A w \in DOMAIN checkpoints \ {v} : checkpoints'[w] = checkpoints[w]
      /\ lastCheckpoint' = v
  BY DEF WriteCheckpoint, PutObject
<1>3. DOMAIN checkpoints' \subseteq DOMAIN commits'
  BY <1>1, <1>2
<1>4. CheckpointsAreComplete'
  <2> SUFFICES ASSUME NEW c \in DOMAIN checkpoints'
               PROVE  checkpoints'[c] = UNION {commits'[w] : w \in 0..c}
    BY DEF CheckpointsAreComplete
  <2>1. CASE c = v
    BY <1>2, <2>1
  <2>2. CASE c # v
    <3>1. c \in DOMAIN checkpoints /\ checkpoints'[c] = UNION {commits[w] : w \in 0..c}
      BY <1>2, <2>2 DEF CheckpointsAreComplete
    <3>2. c \in 0..(nextVersion - 1)
      BY <1>1, <3>1
    <3>3. \A w \in 0..c : commits'[w] = commits[w]
      BY <1>1, <3>2
    <3> QED BY <1>2, <2>2, <3>1, <3>3
  <2> QED BY <2>1, <2>2
<1>5. HintIsNewest'
  <2>1. v # NoVersion
    BY MaxVersionsIsNat DEF NoVersion
  <2>2. NoVersion' = NoVersion
    BY DEF NoVersion
  <2>3. \A c \in DOMAIN checkpoints' : c <= v
    BY <1>1, <1>2
  <2> QED BY <1>2, <2>1, <2>2, <2>3 DEF HintIsNewest
<1> QED BY <1>2, <1>3, <1>4, <1>5

\* append() keeps the invariant, whether it checkpoints or not.
LEMMA AppendKeepsIInv ==
  ASSUME IInv, NEW fs, AppendFiles(fs)
  PROVE  IInv'
<1> USE DEF IInv
<1>1. /\ nextVersion < MaxVersions
      /\ liveAdds' = liveAdds \cup fs
      /\ commits' = PutObject(commits, nextVersion, fs)
      /\ nextVersion' = nextVersion + 1
      /\ interval' = interval
  BY DEF AppendFiles
<1>2. nextVersion \in Nat /\ nextVersion' \in Versions /\ nextVersion' - 1 = nextVersion
  BY <1>1, MaxVersionsIsNat DEF TypeOK, Versions
<1>3. /\ DOMAIN commits' = 0..nextVersion
      /\ \A v \in DOMAIN commits : commits'[v] = commits[v]
      /\ UNION {commits'[v] : v \in DOMAIN commits'}
           = (UNION {commits[v] : v \in DOMAIN commits}) \cup fs
  BY <1>1, CommitExtendsTheLog
<1>4. liveAdds' = UNION {commits'[v] : v \in DOMAIN commits'}
  BY <1>1, <1>3 DEF TypeOK
<1>5. CASE CheckpointDue(nextVersion)
  <2>1. WriteCheckpoint(nextVersion, liveAdds')
    BY <1>5 DEF AppendFiles
  <2>2. /\ DOMAIN checkpoints' \subseteq DOMAIN commits'
        /\ lastCheckpoint' \in DOMAIN checkpoints'
        /\ CheckpointsAreComplete'
        /\ HintIsNewest'
    BY <1>1, <1>2, <1>3, <1>4, <2>1, CheckpointOfNewest
  <2> QED BY <1>1, <1>2, <1>3, <1>4, <2>2 DEF TypeOK, Versions, NoVersion
<1>6. CASE ~CheckpointDue(nextVersion)
  <2>1. checkpoints' = checkpoints /\ lastCheckpoint' = lastCheckpoint
    BY <1>6 DEF AppendFiles
  <2>2. DOMAIN commits = 0..(nextVersion - 1) /\ DOMAIN checkpoints \subseteq DOMAIN commits
    BY DEF TypeOK
  <2>3. CheckpointsAreComplete'
    <3> SUFFICES ASSUME NEW c \in DOMAIN checkpoints
                 PROVE  checkpoints[c] = UNION {commits'[w] : w \in 0..c}
      BY <2>1 DEF CheckpointsAreComplete
    <3>1. \A w \in 0..c : commits'[w] = commits[w]
      BY <1>2, <1>3, <2>2
    <3> QED BY <3>1 DEF CheckpointsAreComplete
  <2>4. HintIsNewest'
    BY <2>1 DEF HintIsNewest, NoVersion
  <2>5. TypeOK'
    BY <1>1, <1>2, <1>3, <1>4, <2>1, <2>2 DEF TypeOK, Versions, NoVersion
  <2> QED BY <2>3, <2>4, <2>5
<1> QED BY <1>5, <1>6

\* checkpoint() keeps the invariant.
LEMMA CheckpointKeepsIInv ==
  ASSUME IInv, Checkpoint
  PROVE  IInv'
<1> DEFINE v == nextVersion - 1
<1>1. /\ WriteCheckpoint(v, liveAdds)
      /\ nextVersion > 0
      /\ UNCHANGED <<interval, nextVersion, liveAdds, commits>>
  BY DEF Checkpoint
<1>2. nextVersion \in 0..MaxVersions /\ DOMAIN commits = 0..v
  BY DEF IInv, TypeOK, Versions
<1>3. v \in Nat /\ v < MaxVersions /\ nextVersion = v + 1
  BY <1>1, <1>2, MaxVersionsIsNat
<1>4. liveAdds = UNION {commits[w] : w \in 0..v}
  BY <1>2 DEF IInv, TypeOK
<1>5. /\ DOMAIN checkpoints' \subseteq DOMAIN commits'
      /\ lastCheckpoint' \in DOMAIN checkpoints'
      /\ CheckpointsAreComplete'
      /\ HintIsNewest'
  <2> HIDE DEF v
  <2> QED BY <1>1, <1>2, <1>3, <1>4, CheckpointOfNewest
<1> QED BY <1>1, <1>5 DEF IInv, TypeOK, Versions, NoVersion

\* Theorem: the inductive invariant of the Delta-shaped table.
THEOREM InvariantHolds == Spec => []IInv
<1>1. IInv /\ [Next]_vars => IInv'
  <2> SUFFICES ASSUME IInv, [Next]_vars PROVE IInv'
    OBVIOUS
  <2>1. CASE UNCHANGED vars
    BY <2>1 DEF vars, IInv, TypeOK, CheckpointsAreComplete, HintIsNewest, Versions, NoVersion
  <2>2. CASE Next
    BY <2>2, AppendKeepsIInv, CheckpointKeepsIInv DEF Next
  <2> QED BY <2>1, <2>2
<1> QED BY <1>1, InitIInv, PTL DEF Spec

-----------------------------------------------------------------------------
\* What the invariant says of sets of listed objects.
LEMMA ListedAreVersions ==
  ASSUME IInv, NEW at
  PROVE  /\ Listed(commits, at) \subseteq Versions
         /\ Listed(checkpoints, at) \subseteq Versions
         /\ Listed(checkpoints, at) \subseteq Listed(commits, at)
         /\ NoVersion \notin Versions
BY MaxVersionsIsNat DEF IInv, TypeOK, Versions, NoVersion, Listed

\* The commits that a plan starts from or replays are those up to its version.
LEMMA ReplayedIsTheRest ==
  ASSUME IInv, NEW at \in DOMAIN commits \cup {Latest}
  PROVE  LET upTo == {w \in DOMAIN commits : w <= at}
             base == BaseCheckpoint(at)
         IN  /\ base = NoVersion => Replayed(at) = upTo
             /\ base # NoVersion => /\ base \in DOMAIN checkpoints
                                    /\ base \in upTo
                                    /\ Replayed(at) = {w \in upTo : w > base}
<1> DEFINE cps == Listed(checkpoints, at)
<1>1. /\ at \in Nat /\ DOMAIN commits \subseteq Nat
      /\ DOMAIN checkpoints \subseteq DOMAIN commits
      /\ lastCheckpoint # NoVersion => lastCheckpoint \in DOMAIN checkpoints
      /\ \A w \in DOMAIN commits : w <= Latest
  BY MaxVersionsIsNat DEF IInv, TypeOK, Versions, Latest
<1>2. CASE cps = {}
  <2>1. ListFrom(at) = 0
    BY <1>1, <1>2 DEF ListFrom, Listed
  <2>2. BaseCheckpoint(at) = NoVersion
    BY <1>2 DEF BaseCheckpoint
  <2> QED BY <1>1, <2>1, <2>2 DEF Replayed, Listed
<1>3. CASE cps # {}
  <2>1. BaseCheckpoint(at) = Max(cps)
    BY <1>3 DEF BaseCheckpoint
  <2>2. Max(cps) \in cps
    BY <1>3, ListedAreVersions, MaxOfVersions
  <2>3. Max(cps) # NoVersion
    BY <2>2, ListedAreVersions
  <2>4. Max(cps) \in DOMAIN checkpoints /\ ListFrom(at) <= Max(cps) /\ Max(cps) <= at
    BY <2>2 DEF Listed
  <2>5. ListFrom(at) \in Nat
    BY <1>1 DEF ListFrom
  <2> HIDE DEF cps
  <2> QED BY <1>1, <2>1, <2>3, <2>4, <2>5 DEF Replayed, Listed
<1> QED BY <1>2, <1>3

\* The files of a plan, before pruning, are those of all commits up to its
\* version.
LEMMA PlanIsTheLog ==
  ASSUME IInv, NEW at \in DOMAIN commits \cup {Latest}, NEW ds
  PROVE  Plan(at, ds) =
           {f \in UNION {commits[v] : v \in {w \in DOMAIN commits : w <= at}} : DayOf(f) \in ds}
<1> DEFINE upTo == {w \in DOMAIN commits : w <= at}
           base == BaseCheckpoint(at)
           adds == (IF base = NoVersion THEN {} ELSE checkpoints[base])
                     \cup UNION {commits[v] : v \in Replayed(at)}
<1>1. adds = UNION {commits[v] : v \in upTo}
  <2>1. CASE base = NoVersion
    BY <2>1, ReplayedIsTheRest
  <2>2. CASE base # NoVersion
    <3>1. /\ base \in DOMAIN checkpoints
          /\ base \in upTo
          /\ Replayed(at) = {w \in upTo : w > base}
      BY <2>2, ReplayedIsTheRest
    <3>2. checkpoints[base] = UNION {commits[w] : w \in 0..base}
      BY <3>1 DEF IInv, CheckpointsAreComplete
    <3>3. upTo = 0..base \cup {w \in upTo : w > base}
      <4>1. /\ DOMAIN commits = 0..(nextVersion - 1)
            /\ nextVersion \in Nat /\ at \in Nat
        BY MaxVersionsIsNat DEF IInv, TypeOK, Versions, Latest
      <4>2. base \in DOMAIN commits /\ base <= at
        BY <3>1
      <4> HIDE DEF base
      <4> QED BY <4>1, <4>2
    <3> HIDE DEF base, upTo
    <3> QED BY <2>2, <3>1, <3>2, <3>3
  <2> QED BY <2>1, <2>2
<1> QED BY <1>1 DEF Plan

\* The version a plan reports is the newest one it may read.
LEMMA PlannedVersionIsExact ==
  ASSUME IInv, NEW at \in DOMAIN commits \cup {Latest}, nextVersion > 0
  PROVE  PlannedVersion(at) = IF at = Latest THEN nextVersion - 1 ELSE at
<1> DEFINE S == {0} \cup Listed(commits, at) \cup Listed(checkpoints, at)
           top == IF at = Latest THEN nextVersion - 1 ELSE at
<1>1. /\ nextVersion \in Nat /\ nextVersion <= MaxVersions
      /\ DOMAIN commits = 0..(nextVersion - 1)
      /\ DOMAIN checkpoints \subseteq DOMAIN commits
      /\ lastCheckpoint # NoVersion => lastCheckpoint \in DOMAIN checkpoints
  BY DEF IInv, TypeOK, Versions
<1>2. at = Latest \/ at \in 0..(nextVersion - 1)
  BY <1>1
<1>3. ListFrom(at) \in 0..(nextVersion - 1) /\ (at # Latest => ListFrom(at) = 0)
  BY <1>1 DEF ListFrom
<1>4. top \in Listed(commits, at)
  BY <1>1, <1>2, <1>3, MaxVersionsIsNat DEF Listed, Latest
<1>5. \A v \in S : v <= top
  BY <1>1, <1>2, MaxVersionsIsNat DEF Listed, Latest
<1>6. S \subseteq Versions
  BY ListedAreVersions, MaxVersionsIsNat DEF Versions
<1>7. Max(S) \in S /\ \A v \in S : v <= Max(S)
  BY <1>4, <1>6, MaxOfVersions
<1>8. Max(S) <= top /\ top <= Max(S) /\ Max(S) \in Nat /\ top \in Nat
  <2>1. top \in S
    BY <1>4
  <2>2. Max(S) <= top
    BY <1>5, <1>7
  <2>3. top <= Max(S)
    BY <1>7, <2>1
  <2>4. Versions \subseteq Nat
    BY MaxVersionsIsNat DEF Versions
  <2> HIDE DEF S, top
  <2> QED BY <1>6, <1>7, <2>1, <2>2, <2>3, <2>4
<1>9. Max(S) = top
  <2> HIDE DEF S, top
  <2> QED BY <1>8
<1> QED BY <1>9 DEF PlannedVersion

\* Theorem: every version can be read back for ever, whichever checkpoints
\* were written since (plan, delta.rs).
THEOREM PlansAreExact == Spec => []PlansReplayTheLog
<1>1. IInv => PlansReplayTheLog
  BY PlanIsTheLog, PlannedVersionIsExact DEF PlansReplayTheLog
<1> QED BY <1>1, InvariantHolds, PTL

\* Theorem: the newest plan replays only the commits after the newest
\* checkpoint.
THEOREM ReplayIsBounded == Spec => []CheckpointBoundsReplay
<1>1. IInv => CheckpointBoundsReplay
  <2> SUFFICES ASSUME IInv, lastCheckpoint # NoVersion
               PROVE  Replayed(Latest) = {v \in DOMAIN commits : v > lastCheckpoint}
    BY DEF CheckpointBoundsReplay
  <2>1. /\ lastCheckpoint \in DOMAIN checkpoints
        /\ DOMAIN checkpoints \subseteq Nat /\ DOMAIN commits \subseteq Nat
        /\ \A v \in DOMAIN commits \cup DOMAIN checkpoints : v <= Latest
        /\ \A v \in DOMAIN checkpoints : v <= lastCheckpoint
    BY MaxVersionsIsNat DEF IInv, TypeOK, HintIsNewest, Versions, Latest
  <2>2. Listed(checkpoints, Latest) = {lastCheckpoint}
    BY <2>1 DEF Listed, ListFrom
  <2>3. BaseCheckpoint(Latest) = lastCheckpoint
    <3>1. Max({lastCheckpoint}) = lastCheckpoint
      <4>1. {lastCheckpoint} \subseteq Versions
        BY <2>2, ListedAreVersions
      <4> QED BY <4>1, MaxOfVersions
    <3> QED BY <2>2, <3>1 DEF BaseCheckpoint
  <2>4. Replayed(Latest) =
          {w \in {w \in DOMAIN commits : w <= Latest} : w > lastCheckpoint}
    BY <2>3, ReplayedIsTheRest
  <2> QED BY <2>1, <2>4
<1> QED BY <1>1, InvariantHolds, PTL

-----------------------------------------------------------------------------
(* Iceberg beside it.  TableFormats sees the table as Ice, and what is proved *)
(* about it is there as IceP: the two name the same definitions.             *)

IceP == INSTANCE IcebergProofs

\* What IcebergProofs assumes of its constants.
LEMMA IceAssumptions ==
  IceP!IsFiniteSet(Days) /\ Days \subseteq Nat /\ MergeMins \subseteq Nat /\ MaxSeq \in Nat
<1>1. IceP!IsFiniteSet(Days)
  BY IceDaysAreFinite DEF IceP!IsFiniteSet, IsFiniteSet
<1> QED BY <1>1, DaysAreNat, IceMergeMinsAreNat, IceMaxSeqIsNat

\* The operators that Iceberg's actions are built from.
LEMMA SameOperators ==
  /\ \A path, fs : Ice!Reference(path, fs) = IceP!Reference(path, fs)
  /\ \A objects, key, body : Ice!PutObject(objects, key, body) = IceP!PutObject(objects, key, body)
  /\ \A objects, keys : Ice!DeleteObjects(objects, keys) = IceP!DeleteObjects(objects, keys)
  /\ \A fs, id : Ice!NewEntries(fs, id) = IceP!NewEntries(fs, id)
  /\ \A entries : Ice!FilesOf(entries) = IceP!FilesOf(entries)
  /\ \A refs : Ice!PathsOf(refs) = IceP!PathsOf(refs)
  /\ \A fs, id : Ice!Merges(fs, id) <=> IceP!Merges(fs, id)
<1>1. \A S : Ice!Min(S) = IceP!Min(S) /\ Ice!Max(S) = IceP!Max(S)
  BY DEF Ice!Min, IceP!Min, Ice!Max, IceP!Max
<1>2. \A fs : Ice!DaysOf(fs) = IceP!DaysOf(fs)
  BY DEF Ice!DaysOf, IceP!DaysOf, Ice!DayOf, IceP!DayOf
<1>3. \A fs : Ice!DayLo(fs) = IceP!DayLo(fs) /\ Ice!DayHi(fs) = IceP!DayHi(fs)
  BY <1>1, <1>2 DEF Ice!DayLo, IceP!DayLo, Ice!DayHi, IceP!DayHi
<1>4. \A path, fs : Ice!Reference(path, fs) = IceP!Reference(path, fs)
  BY <1>3 DEF Ice!Reference, IceP!Reference
<1>5. \A S : Ice!Cardinality(S) = IceP!Cardinality(S)
  BY DEF Ice!Cardinality, IceP!Cardinality
<1>6. \A fs, id : Ice!Merges(fs, id) <=> IceP!Merges(fs, id)
  BY <1>4, <1>5 DEF Ice!Merges, IceP!Merges, Ice!NewReference, IceP!NewReference
<1>7. \A objects, key, body : Ice!PutObject(objects, key, body) = IceP!PutObject(objects, key, body)
  BY DEF Ice!PutObject, IceP!PutObject
<1>8. \A objects, keys : Ice!DeleteObjects(objects, keys) = IceP!DeleteObjects(objects, keys)
  BY DEF Ice!DeleteObjects, IceP!DeleteObjects
<1>9. \A fs, id : Ice!NewEntries(fs, id) = IceP!NewEntries(fs, id)
  BY DEF Ice!NewEntries, IceP!NewEntries
<1>10. \A entries : Ice!FilesOf(entries) = IceP!FilesOf(entries)
  BY DEF Ice!FilesOf, IceP!FilesOf
<1>11. \A refs : Ice!PathsOf(refs) = IceP!PathsOf(refs)
  BY DEF Ice!PathsOf, IceP!PathsOf
<1> QED BY <1>4, <1>6, <1>7, <1>8, <1>9, <1>10, <1>11

\* Iceberg's actions.
LEMMA SameActions ==
  /\ Ice!Init => IceP!Init
  /\ \A fs : Ice!AppendFiles(fs) => IceP!AppendFiles(fs)
  /\ Ice!RewriteManifests => IceP!RewriteManifests
  /\ \A keep : Ice!ExpireSnapshots(keep) => IceP!ExpireSnapshots(keep)
<1> USE DEF Ice!Ids, IceP!Ids, Ice!Kinds, IceP!Kinds, Ice!NewReference, IceP!NewReference
<1>1. Ice!Init => IceP!Init
  BY DEF Ice!Init, IceP!Init
<1>2. \A id, refs, fs : Ice!CommitSnapshot(id, refs, fs) <=> IceP!CommitSnapshot(id, refs, fs)
  BY DEF Ice!CommitSnapshot, IceP!CommitSnapshot, Ice!PutObject, IceP!PutObject
<1>3. ASSUME NEW fs, Ice!FastAppend(fs) PROVE IceP!FastAppend(fs)
  BY <1>2, <1>3, SameOperators DEF Ice!FastAppend, IceP!FastAppend
<1>4. ASSUME NEW fs, Ice!MergeAppend(fs) PROVE IceP!MergeAppend(fs)
  BY <1>2, <1>4, SameOperators DEF Ice!MergeAppend, IceP!MergeAppend
<1>5. \A fs : Ice!AppendFiles(fs) => IceP!AppendFiles(fs)
  BY <1>3, <1>4 DEF Ice!AppendFiles, IceP!AppendFiles
<1>6. Ice!RewriteManifests => IceP!RewriteManifests
  BY <1>2, SameOperators DEF Ice!RewriteManifests, IceP!RewriteManifests
<1>7. \A keep : Ice!ExpireSnapshots(keep) => IceP!ExpireSnapshots(keep)
  BY SameOperators DEF Ice!ExpireSnapshots, IceP!ExpireSnapshots
<1> QED BY <1>1, <1>5, <1>6, <1>7

\* Iceberg's plans.
LEMMA SamePlans ==
  /\ Ice!Current = IceP!Current
  /\ \A s, ds : Ice!CanPlan(s, ds) <=> IceP!CanPlan(s, ds)
  /\ \A s, ds : Ice!Plan(s, ds) = IceP!Plan(s, ds)
BY DEF Ice!Current, IceP!Current, Ice!CanPlan, IceP!CanPlan, Ice!Plan, IceP!Plan,
       Ice!ToRead, IceP!ToRead, Ice!Kept, IceP!Kept,
       Ice!FilesOf, IceP!FilesOf, Ice!DayOf, IceP!DayOf

-----------------------------------------------------------------------------
(* Both under one workload. *)

\* The files of the first n commits.
FilesOfFirst(n) == UNION {commits[v] : v \in 0..(n - 1)}

\* The driver names the files of a commit after it: this is why what it
\* appends is new to Iceberg.
FilesAreNamed == \A v \in DOMAIN commits : commits[v] \subseteq {v} \X Days

\* The snapshot of the n-th commit was committed with the files of the first n
\* commits, and the last snapshot, which may be a rewrite's, with all files.
SnapshotsAreCommits ==
  /\ iceIds \in Seq(Nat) /\ Len(iceIds) = nextVersion
  /\ \A n \in 1..nextVersion : iceIds[n] <= seq /\ truth[iceIds[n]] = FilesOfFirst(n)
  /\ truth[seq] = FilesOfFirst(nextVersion)

BothInv == IInv /\ IceP!Sound /\ FilesAreNamed /\ SnapshotsAreCommits

\* What the two invariants say of the types.
LEMMA BothTypes ==
  ASSUME IInv, IceP!Sound
  PROVE  /\ nextVersion \in Nat /\ nextVersion <= MaxVersions
         /\ DOMAIN commits = 0..(nextVersion - 1)
         /\ seq \in Nat /\ DOMAIN truth = 0..seq
BY MaxVersionsIsNat DEF IInv, TypeOK, Versions, IceP!Sound, IceP!TypeOK

\* At the start both tables are empty.
LEMMA BothStart == ASSUME BothInit PROVE BothInv
<1>1. IInv
  BY InitIInv DEF BothInit
<1>2. IceP!Sound
  BY SameActions, IceAssumptions, IceP!InitSound DEF BothInit
<1>3. nextVersion = 0 /\ DOMAIN commits = {} /\ iceIds = <<>> /\ seq = 0 /\ truth[0] = {}
  BY DEF BothInit, Init, Ice!Init
<1>4. FilesOfFirst(0) = {}
  BY DEF FilesOfFirst
<1>5. FilesAreNamed
  BY <1>3 DEF FilesAreNamed
<1>6. SnapshotsAreCommits
  BY <1>3, <1>4 DEF SnapshotsAreCommits
<1> QED BY <1>1, <1>2, <1>5, <1>6 DEF BothInv

\* A commit of the workload keeps the two tables in step.
LEMMA CommitKeepsBoth ==
  ASSUME BothInv, NEW ds \in SUBSET Days, CommitBoth(ds)
  PROVE  BothInv'
<1>0. PICK n : n = nextVersion
  OBVIOUS
<1> DEFINE fs == {n} \X ds
<1>1. Ice!AppendFiles(fs) /\ AppendFiles(fs) /\ iceIds' = Append(iceIds, seq')
  BY <1>0 DEF CommitBoth
<1>2. /\ n \in Nat /\ DOMAIN commits = 0..(n - 1) /\ seq \in Nat /\ DOMAIN truth = 0..seq
      /\ Len(iceIds) = n /\ iceIds \in Seq(Nat) /\ DOMAIN iceIds = 1..n
      /\ \A i \in 1..n : iceIds[i] \in Nat
  <2>1. iceIds \in Seq(Nat) /\ Len(iceIds) = n
    BY <1>0 DEF BothInv, SnapshotsAreCommits
  <2>2. n \in Nat /\ DOMAIN commits = 0..(n - 1) /\ seq \in Nat /\ DOMAIN truth = 0..seq
    BY <1>0, BothTypes DEF BothInv
  <2> QED BY <2>1, <2>2
<1>3. fs \subseteq {n} \X Days /\ fs \subseteq IceP!Files
  BY <1>2 DEF IceP!Files
<1>4. fs \cap truth[seq] = {}
  <2> SUFFICES ASSUME NEW f \in fs, f \in FilesOfFirst(n) PROVE FALSE
    BY <1>0 DEF BothInv, SnapshotsAreCommits
  <2>1. PICK v \in 0..(n - 1) : f \in commits[v]
    BY DEF FilesOfFirst
  <2>2. f \in {v} \X Days
    BY <1>2, <2>1 DEF BothInv, FilesAreNamed
  <2> QED BY <1>2, <2>2
<1> HIDE DEF fs
<1>5. IInv'
  BY <1>1, AppendKeepsIInv DEF BothInv
<1>6. IceP!AppendFiles(fs)
  BY <1>1, SameActions
<1>7. IceP!Sound'
  BY <1>3, <1>4, <1>6, IceAssumptions, IceP!AppendKeepsSound DEF BothInv
<1>8. seq' = seq + 1 /\ truth' = IceP!PutObject(truth, seq + 1, truth[seq] \cup fs)
  BY <1>6, IceAssumptions, IceP!TruthGrows DEF BothInv
<1>9. /\ truth'[seq + 1] = truth[seq] \cup fs
      /\ \A s \in 0..seq : truth'[s] = truth[s]
  BY <1>2, <1>8 DEF IceP!PutObject
<1>10. /\ nextVersion' = n + 1
       /\ DOMAIN commits' = 0..n
       /\ commits'[n] = fs
       /\ \A v \in 0..(n - 1) : commits'[v] = commits[v]
  <2>1. commits' = PutObject(commits, nextVersion, fs) /\ nextVersion' = n + 1
    BY <1>0, <1>1 DEF AppendFiles
  <2> QED BY <1>0, <1>2, <2>1, CommitExtendsTheLog DEF BothInv, IInv
<1>11. /\ \A i \in 0..n : FilesOfFirst(i)' = FilesOfFirst(i)
       /\ FilesOfFirst(n + 1)' = FilesOfFirst(n) \cup fs
  <2>1. ASSUME NEW i \in 0..n PROVE FilesOfFirst(i)' = FilesOfFirst(i)
    <3>1. \A v \in 0..(i - 1) : commits'[v] = commits[v]
      BY <1>2, <1>10
    <3> QED BY <3>1 DEF FilesOfFirst
  <2>2. 0..((n + 1) - 1) = 0..(n - 1) \cup {n}
    BY <1>2
  <2>3. FilesOfFirst(n + 1)' = (UNION {commits'[v] : v \in 0..(n - 1)}) \cup commits'[n]
    BY <2>2 DEF FilesOfFirst
  <2> QED BY <1>10, <2>1, <2>3 DEF FilesOfFirst
<1>12. FilesAreNamed'
  <2> SUFFICES ASSUME NEW v \in DOMAIN commits' PROVE commits'[v] \subseteq {v} \X Days
    BY DEF FilesAreNamed
  <2>1. v = n \/ v \in 0..(n - 1)
    BY <1>2, <1>10
  <2> QED BY <1>2, <1>3, <1>10, <2>1 DEF BothInv, FilesAreNamed
<1>13. SnapshotsAreCommits'
  <2>1. /\ iceIds' \in Seq(Nat) /\ Len(iceIds') = n + 1 /\ iceIds'[n + 1] = seq + 1
        /\ \A i \in 1..n : iceIds'[i] = iceIds[i]
    BY <1>1, <1>2, <1>8
  <2>2. \A i \in 1..n : iceIds[i] <= seq /\ truth[iceIds[i]] = FilesOfFirst(i)
    BY <1>0 DEF BothInv, SnapshotsAreCommits
  <2>3. truth[seq] = FilesOfFirst(n)
    BY <1>0 DEF BothInv, SnapshotsAreCommits
  <2>4. ASSUME NEW i \in 1..(n + 1)
        PROVE  iceIds'[i] <= seq + 1 /\ truth'[iceIds'[i]] = FilesOfFirst(i)'
    <3>1. CASE i = n + 1
      <4>1. iceIds'[i] = seq + 1 /\ FilesOfFirst(i)' = FilesOfFirst(n) \cup fs
        BY <1>11, <2>1, <3>1
      <4> QED BY <1>2, <1>9, <2>3, <4>1
    <3>2. CASE i # n + 1
      <4>1. i \in 1..n /\ i \in 0..n /\ iceIds[i] \in 0..seq
        BY <1>2, <2>2, <3>2
      <4> QED BY <1>2, <1>9, <1>11, <2>1, <2>2, <4>1
    <3> QED BY <3>1, <3>2
  <2> QED BY <1>8, <1>9, <1>10, <1>11, <2>1, <2>3, <2>4 DEF SnapshotsAreCommits
<1> QED BY <1>5, <1>7, <1>12, <1>13 DEF BothInv

\* Maintenance of Iceberg may add a snapshot, of the same files.
LEMMA MaintenanceKeepsTruth ==
  ASSUME BothInv, IceP!Sound', UNCHANGED <<vars, iceIds>>,
         \/ seq' = seq + 1 /\ truth' = IceP!PutObject(truth, seq + 1, truth[seq])
         \/ seq' = seq /\ truth' = truth
  PROVE  BothInv'
<1>1. UNCHANGED <<interval, nextVersion, liveAdds, commits, checkpoints, lastCheckpoint>>
  BY DEF vars
<1>2. IInv'
  BY <1>1 DEF BothInv, IInv, TypeOK, CheckpointsAreComplete, HintIsNewest, Versions, NoVersion
<1>3. FilesAreNamed'
  BY <1>1 DEF BothInv, FilesAreNamed
<1>4. \A i : FilesOfFirst(i)' = FilesOfFirst(i)
  BY <1>1 DEF FilesOfFirst
<1>5. seq \in Nat /\ DOMAIN truth = 0..seq /\ nextVersion \in Nat
  BY BothTypes DEF BothInv
<1>6. /\ seq <= seq' /\ truth'[seq'] = truth[seq]
      /\ \A s \in 0..seq : truth'[s] = truth[s]
  BY <1>5 DEF IceP!PutObject
<1>7. seq' \in Nat
  BY <1>5
<1>8. /\ iceIds \in Seq(Nat) /\ Len(iceIds) = nextVersion
      /\ \A i \in 1..nextVersion : iceIds[i] <= seq /\ truth[iceIds[i]] = FilesOfFirst(i)
      /\ truth[seq] = FilesOfFirst(nextVersion)
  BY DEF BothInv, SnapshotsAreCommits
<1>9. \A i \in 1..nextVersion : iceIds[i] \in 0..seq
  BY <1>5, <1>8
<1>10. SnapshotsAreCommits'
  <2>1. ASSUME NEW i \in 1..nextVersion
        PROVE  iceIds[i] <= seq' /\ truth'[iceIds[i]] = FilesOfFirst(i)
    BY <1>5, <1>6, <1>7, <1>8, <1>9
  <2> QED BY <1>1, <1>4, <1>6, <1>8, <2>1 DEF SnapshotsAreCommits
<1> QED BY <1>2, <1>3, <1>10 DEF BothInv

\* So do a rewrite and an expiry.
LEMMA MaintainIcebergKeepsBoth == ASSUME BothInv, MaintainIceberg PROVE BothInv'
<1>1. UNCHANGED <<vars, iceIds>>
  BY DEF MaintainIceberg
<1>2. CASE Ice!RewriteManifests
  <2>1. IceP!RewriteManifests
    BY <1>2, SameActions
  <2>2. IceP!Sound'
    BY <2>1, IceAssumptions, IceP!RewriteKeepsSound DEF BothInv
  <2>3. seq' = seq + 1 /\ truth' = IceP!PutObject(truth, seq + 1, truth[seq])
    BY <2>1, IceAssumptions, IceP!TruthGrows DEF BothInv
  <2> QED BY <1>1, <2>2, <2>3, MaintenanceKeepsTruth
<1>3. ASSUME NEW keep \in 0..MaxSeq, Ice!ExpireSnapshots(keep) PROVE BothInv'
  <2>1. IceP!ExpireSnapshots(keep) /\ keep \in Nat
    BY <1>3, SameActions, IceMaxSeqIsNat
  <2>2. IceP!Sound'
    BY <2>1, IceAssumptions, IceP!ExpireKeepsSound DEF BothInv
  <2>3. seq' = seq /\ truth' = truth
    BY <2>1, IceAssumptions, IceP!TruthGrows DEF BothInv
  <2> QED BY <1>1, <2>2, <2>3, MaintenanceKeepsTruth
<1> QED BY <1>2, <1>3 DEF MaintainIceberg

\* A step that leaves Iceberg alone keeps what holds of it.
LEMMA IceStutters == ASSUME IceP!Sound, UNCHANGED iceVars PROVE IceP!Sound'
<1>1. UNCHANGED IceP!vars
  BY DEF iceVars, IceP!vars
<1> QED BY <1>1, IceAssumptions, IceP!StutterKeepsSound

\* A checkpoint of Delta, and a step of neither.
LEMMA MaintainDeltaKeepsBoth == ASSUME BothInv, MaintainDelta PROVE BothInv'
<1>1. Checkpoint /\ UNCHANGED iceVars /\ UNCHANGED iceIds
  BY DEF MaintainDelta
<1>2. IInv'
  BY <1>1, CheckpointKeepsIInv DEF BothInv
<1>3. IceP!Sound'
  BY <1>1, IceStutters DEF BothInv
<1>4. commits' = commits /\ nextVersion' = nextVersion
  BY <1>1 DEF Checkpoint
<1>5. seq' = seq /\ truth' = truth
  BY <1>1 DEF iceVars
<1>6. FilesAreNamed' /\ SnapshotsAreCommits'
  BY <1>1, <1>4, <1>5 DEF BothInv, FilesAreNamed, SnapshotsAreCommits, FilesOfFirst
<1> QED BY <1>2, <1>3, <1>6 DEF BothInv

\* The invariant of the two tables under one workload.
THEOREM BothInvariant == BothSpec => []BothInv
<1>1. BothInit => BothInv
  BY BothStart
<1>2. BothInv /\ [BothNext]_bothVars => BothInv'
  <2> SUFFICES ASSUME BothInv, [BothNext]_bothVars PROVE BothInv'
    OBVIOUS
  <2>1. CASE \E ds \in SUBSET Days : CommitBoth(ds)
    BY <2>1, CommitKeepsBoth
  <2>2. CASE MaintainIceberg
    BY <2>2, MaintainIcebergKeepsBoth
  <2>3. CASE MaintainDelta
    BY <2>3, MaintainDeltaKeepsBoth
  <2>4. CASE UNCHANGED bothVars
    <3>1. UNCHANGED vars /\ UNCHANGED iceVars /\ UNCHANGED iceIds
      BY <2>4 DEF bothVars
    <3>2. IceP!Sound'
      BY <3>1, IceStutters DEF BothInv
    <3>3. seq' = seq /\ truth' = truth
      BY <3>1 DEF iceVars
    <3> QED BY <3>1, <3>2, <3>3, MaintenanceKeepsTruth
  <2> QED BY <2>1, <2>2, <2>3, <2>4 DEF BothNext
<1> QED BY <1>1, <1>2, PTL DEF BothSpec

-----------------------------------------------------------------------------
(* The planners agree. *)

\* A plan of one of Delta's versions is that of the files of its commits.
LEMMA LogPlans ==
  ASSUME IInv, NEW n \in 1..nextVersion, NEW ds
  PROVE  /\ Plan(n - 1, ds) = {f \in FilesOfFirst(n) : DayOf(f) \in ds}
         /\ Plan(Latest, ds) = {f \in FilesOfFirst(nextVersion) : DayOf(f) \in ds}
<1>1. /\ nextVersion \in Nat /\ nextVersion <= MaxVersions /\ n \in Nat /\ n >= 1
      /\ DOMAIN commits = 0..(nextVersion - 1)
  BY MaxVersionsIsNat DEF IInv, TypeOK, Versions
<1>2. n - 1 \in DOMAIN commits
  BY <1>1
<1>3. {w \in DOMAIN commits : w <= n - 1} = 0..(n - 1)
  BY <1>1
<1>4. {w \in DOMAIN commits : w <= Latest} = 0..(nextVersion - 1)
  BY <1>1, MaxVersionsIsNat DEF Latest
<1>5. Plan(n - 1, ds) =
        {f \in UNION {commits[v] : v \in {w \in DOMAIN commits : w <= n - 1}} : DayOf(f) \in ds}
  BY <1>2, PlanIsTheLog
<1>6. Plan(Latest, ds) =
        {f \in UNION {commits[v] : v \in {w \in DOMAIN commits : w <= Latest}} : DayOf(f) \in ds}
  BY PlanIsTheLog
<1> QED BY <1>3, <1>4, <1>5, <1>6 DEF FilesOfFirst

\* An exact plan of Iceberg's is that of the snapshot's files.
LEMMA ExactIcePlans ==
  ASSUME NEW s, IceP!ExactPlan(s), NEW ds \in Queries
  PROVE  /\ Ice!CanPlan(s, ds)
         /\ Ice!Plan(s, ds) = {f \in truth[s] : DayOf(f) \in ds}
BY SamePlans DEF IceP!ExactPlan, IceP!Queries, Queries, IceP!DayOf, DayOf

\* The newest version of both tables is planned to the same files, in full and
\* for each day, however either was maintained (table_bench's assertion).
THEOREM LatestAgree == BothSpec => []LatestPlansAgree
<1>1. BothInv => LatestPlansAgree
  <2> SUFFICES ASSUME BothInv, catalog # <<>>, NEW ds \in Queries
               PROVE  /\ Ice!CanPlan(Ice!Current, ds)
                      /\ Ice!Plan(Ice!Current, ds) = Plan(Latest, ds)
    BY DEF LatestPlansAgree
  <2>1. IceP!Current = seq /\ IceP!ExactPlan(IceP!Current)
    BY IceAssumptions, IceP!CurrentIsExact DEF BothInv
  <2>2. /\ Ice!CanPlan(Ice!Current, ds)
        /\ Ice!Plan(Ice!Current, ds) = {f \in truth[seq] : DayOf(f) \in ds}
    BY <2>1, ExactIcePlans, SamePlans
  <2>3. truth[seq] = FilesOfFirst(nextVersion)
    BY DEF BothInv, SnapshotsAreCommits
  <2>4. Plan(Latest, ds) = {f \in FilesOfFirst(nextVersion) : DayOf(f) \in ds}
    <3>1. CASE nextVersion = 0
      <4>1. DOMAIN commits = {} /\ FilesOfFirst(nextVersion) = {}
        BY <3>1, BothTypes DEF BothInv, FilesOfFirst
      <4>2. Plan(Latest, ds) =
              {f \in UNION {commits[v] : v \in {w \in DOMAIN commits : w <= Latest}} : DayOf(f) \in ds}
        BY PlanIsTheLog DEF BothInv
      <4> QED BY <4>1, <4>2
    <3>2. CASE nextVersion # 0
      <4>1. nextVersion \in 1..nextVersion
        BY <3>2, BothTypes DEF BothInv
      <4> QED BY <4>1, LogPlans DEF BothInv
    <3> QED BY <3>1, <3>2
  <2> QED BY <2>2, <2>3, <2>4
<1> QED BY <1>1, BothInvariant, PTL

\* Time travel to a commit gives the same files in both tables, as long as
\* Iceberg can plan its snapshot.
THEOREM TimeTravelIsTheSame == BothSpec => []TimeTravelAgrees
<1>1. BothInv => TimeTravelAgrees
  <2> SUFFICES ASSUME BothInv, NEW n \in DOMAIN iceIds, NEW ds \in Queries,
                      Ice!CanPlan(iceIds[n], Days)
               PROVE  Ice!Plan(iceIds[n], ds) = Plan(n - 1, ds)
    BY DEF TimeTravelAgrees
  <2>1. n \in 1..nextVersion /\ truth[iceIds[n]] = FilesOfFirst(n)
    BY DEF BothInv, SnapshotsAreCommits
  <2>2. IceP!CanPlan(iceIds[n], Days) /\ iceIds[n] \in IceP!Kept
    BY SamePlans DEF IceP!CanPlan
  <2>3. IceP!ExactPlan(iceIds[n])
    BY <2>2, IceAssumptions, IceP!KeptAreExact DEF BothInv
  <2>4. Ice!Plan(iceIds[n], ds) = {f \in FilesOfFirst(n) : DayOf(f) \in ds}
    BY <2>1, <2>3, ExactIcePlans
  <2> QED BY <2>1, <2>4, LogPlans DEF BothInv
<1> QED BY <1>1, BothInvariant, PTL
=============================================================================
