---------------------------- MODULE IcebergProofs ----------------------------
(***************************************************************************)
(* Topic 49's Iceberg-shaped table, for any finite set of days, merge      *)
(* thresholds and number of snapshots: the current snapshot is always      *)
(* planned exactly, no plan of an older one is wrong, and only the expiry  *)
(* of a rewritten snapshot takes a kept one away.                          *)
(***************************************************************************)
EXTENDS Iceberg, TLAPS, WellFoundedInduction, SequenceTheorems, FiniteSetTheorems

\* The references refs lead, among the manifests in objects, to the files fs:
\* every manifest is there, its summary is right, and no file is in two.
Complete(objects, refs, fs) ==
  /\ PathsOf(refs) \subseteq DOMAIN objects
  /\ \A r \in refs : r = Reference(r.path, FilesOf(objects[r.path]))
  /\ fs = UNION {FilesOf(objects[p]) : p \in PathsOf(refs)}
  /\ \A p, q \in PathsOf(refs) :
       p # q => FilesOf(objects[p]) \cap FilesOf(objects[q]) = {}

\* The truth about a snapshot is a set of files.
TruthHoldsFiles == \A s \in DOMAIN truth : truth[s] \subseteq Files

\* Nothing in the store is named after a snapshot that is yet to come.
PathsArePast ==
  /\ \A p \in DOMAIN bodies : p[1] <= seq
  /\ \A s \in DOMAIN lists : \A r \in lists[s] : r.path[1] <= seq

\* The kept snapshots are those that have a list, oldest first, and the newest
\* one's list is what the writer remembers.
SnapshotsAreOrdered ==
  /\ \A i, j \in DOMAIN snapshots : i < j => snapshots[i] < snapshots[j]
  /\ \A i \in DOMAIN snapshots : snapshots[i] <= seq
  /\ DOMAIN lists = {snapshots[i] : i \in DOMAIN snapshots}
  /\ snapshots # <<>> => snapshots[Len(snapshots)] = seq /\ lists[seq] = manifests

\* What the writer remembers is the truth.
LiveIsComplete ==
  /\ FilesOf(live) = truth[seq]
  /\ Complete(bodies, manifests, truth[seq])

\* A kept snapshot all of whose manifests are there has the right ones.
KeptAreComplete ==
  \A s \in DOMAIN lists :
    PathsOf(lists[s]) \subseteq DOMAIN bodies => Complete(bodies, lists[s], truth[s])

\* What holds of the table whatever files are appended to it, as long as
\* they are new.
Sound ==
  /\ TypeOK
  /\ TruthHoldsFiles
  /\ PathsArePast
  /\ SnapshotsAreOrdered
  /\ LiveIsComplete
  /\ KeptAreComplete

\* In Iceberg's own histories a commit's files carry its snapshot's number,
\* so a snapshot holds files of commits up to it, and every append's are new.
TruthIsPast == \A s \in DOMAIN truth : truth[s] \subseteq (1..s) \X Days

IInv == Sound /\ TruthIsPast
-----------------------------------------------------------------------------
(* Summaries: the least and the greatest day of a manifest *)

\* A nonempty set of naturals has a least one.
LEMMA MinExists ==
  ASSUME NEW T, T \subseteq Nat, T # {}
  PROVE  \E x \in T : \A y \in T : x <= y
<1> DEFINE R == OpToRel(<, Nat)
<1>1. \A x, y \in Nat : <<y, x>> \in R <=> y < x
  BY DEF OpToRel
<1>2. PICK x \in T : \A y \in T : ~ (<<y, x>> \in R)
  <2>1. IsWellFoundedOn(R, Nat)
    BY NatLessThanWellFounded DEF R
  <2> HIDE DEF R
  <2> QED BY <2>1, WFMin
<1>3. \A y \in T : ~ (y < x)
  <2> HIDE DEF R
  <2> QED BY <1>1, <1>2
<1> HIDE DEF R
<1> QED BY <1>3

\* A nonempty finite set of naturals has a greatest one: a smallest
\* counterexample, less any one element, would be a smaller one.
LEMMA FiniteMaxExists ==
  ASSUME NEW T, T \subseteq Nat, T # {}, IsFiniteSet(T)
  PROVE  \E x \in T : \A y \in T : x >= y
<1> DEFINE Bad == {n \in Nat : \E S \in SUBSET Nat :
                      /\ IsFiniteSet(S) /\ S # {} /\ Cardinality(S) = n
                      /\ \A x \in S : \E y \in S : ~ (x >= y)}
<1>1. SUFFICES ASSUME Bad # {} PROVE FALSE
  <2>1. Cardinality(T) \in Nat
    BY FS_CardinalityType
  <2> QED BY <2>1
<1>2. PICK n \in Bad : \A k \in Bad : n <= k
  <2>1. Bad \subseteq Nat
    OBVIOUS
  <2> HIDE DEF Bad
  <2> QED BY <1>1, <2>1, MinExists
<1>3. PICK S \in SUBSET Nat :
        /\ IsFiniteSet(S) /\ S # {} /\ Cardinality(S) = n
        /\ \A x \in S : \E y \in S : ~ (x >= y)
  BY <1>2
<1>4. PICK x \in S : TRUE
  BY <1>3
<1> DEFINE R == S \ {x}
<1>5. IsFiniteSet(R) /\ Cardinality(R) = n - 1 /\ n \in Nat
  BY <1>2, <1>3, <1>4, FS_RemoveElement
<1>6. R # {}
  <2>1. PICK y \in S : ~ (x >= y)
    BY <1>3, <1>4
  <2>2. y # x
    BY <1>3, <1>4, <2>1
  <2> QED BY <2>1, <2>2
<1>7. n - 1 \notin Bad
  BY <1>2, <1>5
<1>8. n - 1 \in Nat
  BY <1>5, FS_CardinalityType
<1>9. PICK z \in R : \A y \in R : z >= y
  <2>1. R \in SUBSET Nat
    BY <1>3
  <2>2. ~ \A u \in R : \E y \in R : ~ (u >= y)
    BY <1>5, <1>6, <1>7, <1>8, <2>1
  <2> QED BY <2>2
<1>10. (\A y \in S : x >= y) \/ (\A y \in S : z >= y)
  <2>1. x \in Nat /\ z \in Nat
    BY <1>3, <1>4, <1>9
  <2>2. CASE z >= x
    BY <1>9, <2>2
  <2>3. CASE ~ (z >= x)
    <3>1. ASSUME NEW y \in S PROVE x >= y
      <4>1. y = x \/ (y \in R /\ z >= y)
        BY <1>9
      <4>2. y \in Nat
        BY <1>3
      <4> QED BY <2>1, <2>3, <4>1, <4>2
    <3> QED BY <3>1
  <2> QED BY <2>2, <2>3
<1> QED BY <1>3, <1>4, <1>9, <1>10

\* The summary of a set of files bounds the day of each of them.
LEMMA SummaryBounds ==
  ASSUME NEW fs, fs \subseteq Files
  PROVE  /\ DayLo(fs) \in Nat /\ DayHi(fs) \in Nat
         /\ \A f \in fs : DayOf(f) >= DayLo(fs) /\ DayOf(f) <= DayHi(fs)
<1>1. CASE fs = {}
  BY <1>1 DEF DayLo, DayHi
<1>2. CASE fs # {}
  <2> DEFINE D == DaysOf(fs)
  <2>1. D \subseteq Days /\ D # {} /\ \A f \in fs : DayOf(f) \in D
    BY <1>2 DEF DaysOf, DayOf, Files
  <2>2. D \subseteq Nat /\ IsFiniteSet(D)
    BY <2>1, DaysAreNat, DaysAreFinite, FS_Subset
  <2> HIDE DEF D
  <2>3. Min(D) \in D /\ \A d \in D : Min(D) <= d
    <3>1. \E x \in D : \A y \in D : x =< y
      BY <2>1, <2>2, MinExists
    <3> QED BY <3>1 DEF Min
  <2>4. Max(D) \in D /\ \A d \in D : Max(D) >= d
    <3>1. \E x \in D : \A y \in D : x >= y
      BY <2>1, <2>2, FiniteMaxExists
    <3> QED BY <3>1 DEF Max
  <2>5. DayLo(fs) = Min(D) /\ DayHi(fs) = Max(D)
    BY <1>2 DEF DayLo, DayHi, D
  <2>6. ASSUME NEW f \in fs PROVE DayOf(f) >= Min(D) /\ DayOf(f) <= Max(D)
    <3>1. DayOf(f) \in D /\ DayOf(f) \in Nat /\ Min(D) \in Nat /\ Max(D) \in Nat
      BY <2>1, <2>2, <2>3, <2>4
    <3>2. Min(D) <= DayOf(f) /\ Max(D) >= DayOf(f)
      BY <2>3, <2>4, <3>1
    <3> QED BY <3>1, <3>2
  <2> QED BY <2>2, <2>3, <2>4, <2>5, <2>6
<1> QED BY <1>1, <1>2

\* A reference to a set of files is a well-formed entry of a manifest list.
LEMMA ReferenceType ==
  ASSUME NEW path, NEW fs, fs \subseteq Files
  PROVE  /\ Reference(path, fs) \in [path : {path}, lo : Nat, hi : Nat]
         /\ Reference(path, fs).path = path
BY SummaryBounds DEF Reference

-----------------------------------------------------------------------------
(* Plans of complete lists *)

\* A kept snapshot whose list is complete is planned exactly, for all days and
\* for any one: pruning drops no manifest that has a file of the day.
LEMMA CompletePlansExactly ==
  ASSUME TypeOK, NEW s \in Kept, s \in DOMAIN lists,
         truth[s] \subseteq Files, Complete(bodies, lists[s], truth[s])
  PROVE  ExactPlan(s)
<1> SUFFICES ASSUME NEW ds \in Queries
             PROVE  /\ CanPlan(s, ds)
                    /\ Plan(s, ds) = {f \in truth[s] : DayOf(f) \in ds}
                    /\ \A f \in Plan(s, ds) : PlanCopies(s, ds, f) = 1
  BY DEF ExactPlan
<1>1. ToRead(s, ds) \subseteq PathsOf(lists[s])
  BY DEF ToRead, PathsOf
<1>2. CanPlan(s, ds)
  BY <1>1 DEF CanPlan, Complete
<1>3. ASSUME NEW p \in PathsOf(lists[s]), NEW f \in FilesOf(bodies[p]), DayOf(f) \in ds
      PROVE  p \in ToRead(s, ds)
  <2>1. PICK r \in lists[s] : r.path = p
    BY DEF PathsOf
  <2>2. FilesOf(bodies[p]) \subseteq truth[s]
    BY DEF Complete
  <2>3. FilesOf(bodies[p]) \subseteq Files
    BY <2>2
  <2>4. r = Reference(p, FilesOf(bodies[p]))
    BY <2>1 DEF Complete
  <2>5. r.lo = DayLo(FilesOf(bodies[p])) /\ r.hi = DayHi(FilesOf(bodies[p]))
    BY <2>4 DEF Reference
  <2>6. DayOf(f) >= r.lo /\ DayOf(f) <= r.hi
    BY <2>3, <2>5, SummaryBounds
  <2> QED BY <1>3, <2>1, <2>6 DEF ToRead
<1>4. Plan(s, ds) = {f \in truth[s] : DayOf(f) \in ds}
  <2>1. Plan(s, ds) \subseteq {f \in truth[s] : DayOf(f) \in ds}
    BY <1>1 DEF Plan, Complete
  <2>2. ASSUME NEW f \in truth[s], DayOf(f) \in ds PROVE f \in Plan(s, ds)
    <3>1. PICK p \in PathsOf(lists[s]) : f \in FilesOf(bodies[p])
      BY DEF Complete
    <3>2. p \in ToRead(s, ds)
      BY <1>3, <2>2, <3>1
    <3> QED BY <2>2, <3>1, <3>2 DEF Plan
  <2> QED BY <2>1, <2>2
<1>5. ASSUME NEW f \in Plan(s, ds) PROVE PlanCopies(s, ds, f) = 1
  <2>1. PICK p \in ToRead(s, ds) : f \in FilesOf(bodies[p])
    BY DEF Plan
  <2>2. {q \in ToRead(s, ds) : f \in FilesOf(bodies[q])} = {p}
    BY <1>1, <2>1 DEF Complete
  <2>3. Cardinality({p}) = 1
    BY FS_Singleton
  <2> QED BY <2>2, <2>3 DEF PlanCopies
<1> QED BY <1>2, <1>4, <1>5

-----------------------------------------------------------------------------
(* The invariant *)

LEMMA InitSound == ASSUME Init PROVE Sound
<1> USE DEF Init
<1>1. TypeOK
  BY MergeMinsAreNat, MaxSeqIsNat DEF TypeOK
<1>2. TruthHoldsFiles
  BY DEF TruthHoldsFiles
<1>3. PathsArePast
  BY DEF PathsArePast
<1>4. SnapshotsAreOrdered
  BY DEF SnapshotsAreOrdered
<1>5. LiveIsComplete
  BY DEF LiveIsComplete, Complete, FilesOf, PathsOf
<1>6. KeptAreComplete
  BY DEF KeptAreComplete
<1> QED BY <1>1, <1>2, <1>3, <1>4, <1>5, <1>6 DEF Sound

\* Completeness is about the manifests referred to only.
LEMMA CompleteElsewhere ==
  ASSUME NEW old, NEW new, NEW refs, NEW fs, Complete(old, refs, fs),
         \A p \in PathsOf(refs) : p \in DOMAIN new /\ new[p] = old[p]
  PROVE  Complete(new, refs, fs)
<1>1. \A r \in refs : r.path \in PathsOf(refs)
  BY DEF PathsOf
<1>2. \A r \in refs : r = Reference(r.path, FilesOf(new[r.path]))
  BY <1>1 DEF Complete
<1>3. {FilesOf(new[p]) : p \in PathsOf(refs)} = {FilesOf(old[p]) : p \in PathsOf(refs)}
  OBVIOUS
<1> QED BY <1>2, <1>3 DEF Complete

\* The end of every commit keeps the invariant, if the new references are
\* complete for the old files and the new ones.
LEMMA CommitKeepsSound ==
  ASSUME Sound, NEW fs, NEW refs, NEW path, NEW body,
         seq + 1 \in Ids,
         fs \subseteq Files,
         path \in {seq + 1} \X Kinds, body \in SUBSET Entries,
         live' \in SUBSET Entries,
         FilesOf(live') = FilesOf(live) \cup fs,
         bodies' = PutObject(bodies, path, body),
         refs \subseteq [path : Paths, lo : Nat, hi : Nat],
         Complete(bodies', refs, truth[seq] \cup fs),
         CommitSnapshot(seq + 1, refs, fs)
  PROVE  Sound'
<1> DEFINE id == seq + 1
<1>1. /\ seq' = id /\ snapshots' = Append(snapshots, id) /\ manifests' = refs
      /\ catalog' = snapshots' /\ mergeMin' = mergeMin
  BY DEF CommitSnapshot
<1>2. /\ DOMAIN lists' = DOMAIN lists \cup {id} /\ lists'[id] = refs
      /\ \A s \in DOMAIN lists : s # id => lists'[s] = lists[s]
  BY DEF CommitSnapshot, PutObject
<1>3. /\ DOMAIN truth' = DOMAIN truth \cup {id} /\ truth'[id] = truth[seq] \cup fs
      /\ \A s \in DOMAIN truth : s # id => truth'[s] = truth[s]
  BY DEF CommitSnapshot, PutObject
<1>4. /\ DOMAIN bodies' = DOMAIN bodies \cup {path} /\ bodies'[path] = body
      /\ \A p \in DOMAIN bodies : p # path => bodies'[p] = bodies[p]
  BY DEF PutObject
<1>5. seq \in Nat /\ seq \in 0..MaxSeq /\ id \in Nat /\ id \in 1..MaxSeq /\ seq < id
  BY MaxSeqIsNat DEF Sound, TypeOK, Ids
<1>6. snapshots \in Seq(Ids) /\ catalog = snapshots /\ Len(snapshots) \in Nat
      /\ DOMAIN snapshots = 1..Len(snapshots)
  BY DEF Sound, TypeOK
<1>7. path \in Paths /\ path[1] = id
  BY DEF Paths
<1>8. \A p \in DOMAIN bodies : p \in Paths /\ p[1] <= seq /\ p # path
  <2>1. \A p \in DOMAIN bodies : p \in Paths /\ p[1] <= seq
    BY DEF Sound, TypeOK, PathsArePast
  <2> QED BY <1>5, <1>7, <2>1
<1>9. \A s \in DOMAIN lists : s \in Ids /\ s <= seq /\ s # id
  <2>1. \A s \in DOMAIN lists : s \in Ids /\ s <= seq
    BY DEF Sound, TypeOK, SnapshotsAreOrdered
  <2> QED BY <1>5, <2>1 DEF Ids
<1>10. DOMAIN truth = 0..seq
  BY DEF Sound, TypeOK
<1> HIDE DEF id
<1>11. TypeOK'
  <2>1. mergeMin' \in MergeMins /\ seq' \in 0..MaxSeq
    BY <1>1, <1>5 DEF Sound, TypeOK
  <2>2. snapshots' \in Seq(Ids) /\ catalog' = snapshots'
    BY <1>1, <1>5, <1>6 DEF Ids
  <2>3. DOMAIN lists' \subseteq Ids
    BY <1>2, <1>5, <1>9 DEF Ids
  <2>4. \A s \in DOMAIN lists' : lists'[s] \subseteq [path : Paths, lo : Nat, hi : Nat]
    BY <1>2 DEF Sound, TypeOK
  <2>5. DOMAIN bodies' \subseteq Paths
    BY <1>4, <1>7, <1>8
  <2>6. \A p \in DOMAIN bodies' : bodies'[p] \subseteq Entries
    BY <1>4 DEF Sound, TypeOK
  <2>7. DOMAIN truth' = 0..seq'
    BY <1>1, <1>3, <1>5, <1>10 DEF id
  <2> QED BY <1>1, <2>1, <2>2, <2>3, <2>4, <2>5, <2>6, <2>7 DEF TypeOK
<1>12. TruthHoldsFiles'
  BY <1>3, <1>5, <1>10 DEF Sound, TruthHoldsFiles
<1>13. PathsArePast'
  <2>1. ASSUME NEW p \in DOMAIN bodies' PROVE p[1] <= id
    <3>1. CASE p = path
      BY <1>5, <1>7, <3>1
    <3>2. CASE p # path
      <4>1. p \in DOMAIN bodies
        BY <1>4, <3>2
      <4>2. p[1] <= seq /\ p[1] \in Nat
        BY <1>8, <4>1 DEF Paths, Ids
      <4> QED BY <1>5, <4>2
    <3> QED BY <3>1, <3>2
  <2>2. ASSUME NEW s \in DOMAIN lists', NEW r \in lists'[s] PROVE r.path[1] <= id
    <3>1. CASE s = id
      <4>1. r.path \in PathsOf(refs)
        BY <1>2, <3>1 DEF PathsOf
      <4>2. r.path \in DOMAIN bodies'
        BY <4>1 DEF Complete
      <4> QED BY <2>1, <4>2
    <3>2. CASE s # id
      <4>1. s \in DOMAIN lists /\ r \in lists[s]
        BY <1>2, <3>2
      <4>2. r.path[1] <= seq /\ r.path \in Paths
        BY <4>1 DEF Sound, TypeOK, PathsArePast
      <4>3. r.path[1] \in Nat
        BY <4>2 DEF Paths, Ids
      <4> QED BY <1>5, <4>2, <4>3
    <3> QED BY <3>1, <3>2
  <2> QED BY <1>1, <2>1, <2>2 DEF PathsArePast
<1>14. SnapshotsAreOrdered'
  <2> DEFINE n == Len(snapshots)
  <2>1. /\ DOMAIN snapshots' = 1..(n + 1) /\ Len(snapshots') = n + 1
        /\ snapshots'[n + 1] = id
        /\ \A i \in 1..n : snapshots'[i] = snapshots[i]
    BY <1>1, <1>6
  <2>2. /\ \A i, j \in 1..n : i < j => snapshots[i] < snapshots[j]
        /\ \A i \in 1..n : snapshots[i] <= seq /\ snapshots[i] \in Ids
        /\ DOMAIN lists = {snapshots[i] : i \in 1..n}
    <3>1. DOMAIN snapshots = 1..n
      BY <1>6
    <3> HIDE DEF n
    <3>2. \A i \in 1..n : snapshots[i] \in Ids
      BY <1>6, ElementOfSeq DEF n
    <3> QED BY <3>1, <3>2 DEF Sound, SnapshotsAreOrdered
  <2>3. n \in Nat
    BY <1>6
  <2> HIDE DEF n
  <2>4. \A i \in 1..n : snapshots[i] < id /\ snapshots[i] <= id
    BY <1>5, <2>2 DEF Ids
  <2>5. ASSUME NEW i \in 1..(n + 1), NEW j \in 1..(n + 1), i < j
        PROVE  snapshots'[i] < snapshots'[j]
    <3>1. i \in 1..n
      BY <2>3, <2>5
    <3>2. CASE j = n + 1
      BY <2>1, <2>4, <3>1, <3>2
    <3>3. CASE j # n + 1
      <4>1. j \in 1..n
        BY <2>3, <3>3
      <4> QED BY <2>1, <2>2, <2>5, <3>1, <4>1
    <3> QED BY <3>2, <3>3
  <2>6. ASSUME NEW i \in 1..(n + 1) PROVE snapshots'[i] <= id
    <3>1. i \in 1..n \/ i = n + 1
      BY <2>3
    <3> QED BY <1>5, <2>1, <2>4, <3>1
  <2>7. DOMAIN lists' = {snapshots'[i] : i \in 1..(n + 1)}
    <3>1. 1..(n + 1) = 1..n \cup {n + 1}
      BY <2>3
    <3>2. {snapshots'[i] : i \in 1..(n + 1)} = {snapshots'[i] : i \in 1..n} \cup {snapshots'[n + 1]}
      BY <3>1
    <3>3. {snapshots'[i] : i \in 1..n} = {snapshots[i] : i \in 1..n}
      BY <2>1
    <3> QED BY <1>2, <2>1, <2>2, <3>2, <3>3
  <2> QED BY <1>1, <1>2, <2>1, <2>5, <2>6, <2>7 DEF SnapshotsAreOrdered
<1>15. LiveIsComplete'
  <2>1. FilesOf(live') = truth[seq] \cup fs
    BY DEF Sound, LiveIsComplete
  <2> QED BY <1>1, <1>3, <2>1 DEF LiveIsComplete
<1>16. KeptAreComplete'
  <2> SUFFICES ASSUME NEW s \in DOMAIN lists', PathsOf(lists'[s]) \subseteq DOMAIN bodies'
               PROVE  Complete(bodies', lists'[s], truth'[s])
    BY DEF KeptAreComplete
  <2>1. CASE s = id
    BY <1>2, <1>3, <2>1
  <2>2. CASE s # id
    <3>1. s \in DOMAIN lists /\ lists'[s] = lists[s]
      BY <1>2, <2>2
    <3>2. ASSUME NEW p \in PathsOf(lists[s]) PROVE p \in DOMAIN bodies /\ p # path
      <4>1. PICK r \in lists[s] : p = r.path
        BY DEF PathsOf
      <4>2. p[1] <= seq
        BY <3>1, <4>1 DEF Sound, PathsArePast
      <4>3. p # path
        BY <1>5, <1>7, <4>2
      <4> QED BY <1>4, <3>1, <4>3
    <3>3. Complete(bodies, lists[s], truth[s])
      BY <3>1, <3>2 DEF Sound, KeptAreComplete
    <3>4. \A p \in PathsOf(lists[s]) : p \in DOMAIN bodies' /\ bodies'[p] = bodies[p]
      BY <1>4, <3>2
    <3>5. Complete(bodies', lists[s], truth[s])
      BY <3>3, <3>4, CompleteElsewhere
    <3>6. s \in DOMAIN truth
      BY <1>5, <1>9, <1>10, <3>1 DEF Ids
    <3> QED BY <1>3, <2>2, <3>1, <3>5, <3>6
  <2> QED BY <2>1, <2>2
<1> QED BY <1>11, <1>12, <1>13, <1>14, <1>15, <1>16 DEF Sound

LEMMA NewEntriesFacts ==
  ASSUME Sound, seq + 1 \in Ids, NEW fs, fs \subseteq Files
  PROVE  /\ NewEntries(fs, seq + 1) \in SUBSET Entries
         /\ FilesOf(NewEntries(fs, seq + 1)) = fs
         /\ live \cup NewEntries(fs, seq + 1) \in SUBSET Entries
         /\ FilesOf(live \cup NewEntries(fs, seq + 1)) = FilesOf(live) \cup fs
<1>2. NewEntries(fs, seq + 1) \in SUBSET Entries
  BY DEF NewEntries, Entries
<1>3. FilesOf(NewEntries(fs, seq + 1)) = fs
  <2>1. \A f \in fs : [file |-> f, by |-> seq + 1] \in NewEntries(fs, seq + 1)
    BY DEF NewEntries
  <2>2. \A e \in NewEntries(fs, seq + 1) : e.file \in fs
    BY DEF NewEntries
  <2>3. \A f \in fs : f \in FilesOf(NewEntries(fs, seq + 1))
    <3> SUFFICES ASSUME NEW f \in fs PROVE f \in FilesOf(NewEntries(fs, seq + 1))
      OBVIOUS
    <3>1. [file |-> f, by |-> seq + 1].file = f
      OBVIOUS
    <3> QED BY <2>1, <3>1 DEF FilesOf
  <2> QED BY <2>2, <2>3 DEF FilesOf
<1>4. live \in SUBSET Entries
  BY DEF Sound, TypeOK
<1>5. FilesOf(live \cup NewEntries(fs, seq + 1)) = FilesOf(live) \cup FilesOf(NewEntries(fs, seq + 1))
  BY DEF FilesOf
<1> QED BY <1>2, <1>3, <1>4, <1>5

\* One manifest of a set of entries is complete for their files.
LEMMA OneManifest ==
  ASSUME NEW path, NEW body
  PROVE  Complete(PutObject(bodies, path, body), {Reference(path, FilesOf(body))}, FilesOf(body))
<1> DEFINE new == PutObject(bodies, path, body)
           refs == {Reference(path, FilesOf(body))}
<1>1. path \in DOMAIN new /\ new[path] = body
  BY DEF PutObject
<1>2. PathsOf(refs) = {path} /\ \A r \in refs : r.path = path
  BY DEF PathsOf, Reference
<1>3. UNION {FilesOf(new[p]) : p \in {path}} = FilesOf(body)
  BY <1>1
<1> HIDE DEF new
<1>4. \A r \in refs : r = Reference(r.path, FilesOf(new[r.path]))
  BY <1>1, <1>2
<1>5. \A p, q \in PathsOf(refs) : p = q
  BY <1>2
<1> HIDE DEF refs
<1>6. Complete(new, refs, FilesOf(body))
  BY <1>1, <1>2, <1>3, <1>4, <1>5 DEF Complete
<1> QED BY <1>6 DEF new, refs

LEMMA OneManifestType ==
  ASSUME NEW path \in Paths, NEW body \in SUBSET Entries
  PROVE  {Reference(path, FilesOf(body))} \subseteq [path : Paths, lo : Nat, hi : Nat]
<1>1. FilesOf(body) \subseteq Files
  BY DEF FilesOf, Entries
<1> QED BY <1>1, ReferenceType

LEMMA FastAppendKeepsSound ==
  ASSUME Sound, NEW fs, fs \subseteq Files, fs \cap truth[seq] = {}, FastAppend(fs)
  PROVE  Sound'
<1> DEFINE id == seq + 1
           path == <<seq + 1, "m0">>
           body == NewEntries(fs, seq + 1)
           new == NewReference(fs, seq + 1)
           refs == manifests \cup {new}
<1>1. /\ seq + 1 \in Ids
      /\ live' = live \cup body
      /\ bodies' = PutObject(bodies, path, body)
      /\ CommitSnapshot(seq + 1, refs, fs)
  BY DEF FastAppend
<1> HIDE DEF body, refs, new, path
<1>3. /\ body \in SUBSET Entries /\ FilesOf(body) = fs
      /\ live \cup body \in SUBSET Entries /\ FilesOf(live \cup body) = FilesOf(live) \cup fs
  BY <1>1, NewEntriesFacts DEF body
<1>4. path \in {seq + 1} \X Kinds /\ path \in Paths
  BY <1>1 DEF path, Kinds, Paths
<1>5. new = Reference(path, fs) /\ new.path = path /\ new \in [path : Paths, lo : Nat, hi : Nat]
  BY <1>3, <1>4, ReferenceType DEF new, path, NewReference
<1>6. refs \subseteq [path : Paths, lo : Nat, hi : Nat]
  BY <1>5 DEF Sound, TypeOK, refs
<1>7. path \notin DOMAIN bodies
  <2>1. path[1] = seq + 1 /\ seq \in Nat
    BY DEF path, Sound, TypeOK
  <2>2. \A p \in DOMAIN bodies : p[1] <= seq
    BY DEF Sound, PathsArePast
  <2> QED BY <2>1, <2>2
<1>8. /\ DOMAIN bodies' = DOMAIN bodies \cup {path} /\ bodies'[path] = body
      /\ \A p \in DOMAIN bodies : bodies'[p] = bodies[p]
  BY <1>1, <1>7 DEF PutObject
<1>9. Complete(bodies, manifests, truth[seq])
  BY DEF Sound, LiveIsComplete
<1>10. Complete(bodies', manifests, truth[seq])
  <2>1. \A p \in PathsOf(manifests) : p \in DOMAIN bodies' /\ bodies'[p] = bodies[p]
    BY <1>8, <1>9 DEF Complete
  <2> QED BY <1>9, <2>1, CompleteElsewhere
<1>11. PathsOf(refs) = PathsOf(manifests) \cup {path}
  BY <1>5 DEF PathsOf, refs
<1>13. Complete(bodies', refs, truth[seq] \cup fs)
  <2>1. PathsOf(refs) \subseteq DOMAIN bodies'
    BY <1>8, <1>10, <1>11 DEF Complete
  <2>2. \A r \in refs : r = Reference(r.path, FilesOf(bodies'[r.path]))
    BY <1>3, <1>5, <1>8, <1>10 DEF Complete, refs
  <2>3. UNION {FilesOf(bodies'[p]) : p \in PathsOf(refs)} = truth[seq] \cup fs
    <3>1. UNION {FilesOf(bodies'[p]) : p \in PathsOf(refs)}
            = (UNION {FilesOf(bodies'[p]) : p \in PathsOf(manifests)}) \cup FilesOf(bodies'[path])
      BY <1>11
    <3> QED BY <1>3, <1>8, <1>10, <3>1 DEF Complete
  <2>4. ASSUME NEW p \in PathsOf(refs), NEW q \in PathsOf(refs), p # q
        PROVE  FilesOf(bodies'[p]) \cap FilesOf(bodies'[q]) = {}
    <3>1. \A o \in PathsOf(manifests) : FilesOf(bodies'[o]) \subseteq truth[seq]
      BY <1>10 DEF Complete
    <3>2. FilesOf(bodies'[path]) = fs
      BY <1>3, <1>8
    <3>3. CASE p \in PathsOf(manifests) /\ q \in PathsOf(manifests)
      BY <1>10, <2>4, <3>3 DEF Complete
    <3>4. CASE p = path
      <4>1. q \in PathsOf(manifests)
        BY <1>11, <2>4, <3>4
      <4> QED BY <3>1, <3>2, <3>4, <4>1
    <3>5. CASE q = path
      <4>1. p \in PathsOf(manifests)
        BY <1>11, <2>4, <3>5
      <4> QED BY <3>1, <3>2, <3>5, <4>1
    <3> QED BY <1>11, <3>3, <3>4, <3>5
  <2> QED BY <2>1, <2>2, <2>3, <2>4 DEF Complete
<1> QED BY <1>1, <1>3, <1>4, <1>6, <1>13, CommitKeepsSound

LEMMA MergeAppendKeepsSound ==
  ASSUME Sound, NEW fs, fs \subseteq Files, MergeAppend(fs)
  PROVE  Sound'
<1> DEFINE path == <<seq + 1, "m1">>
           body == live \cup NewEntries(fs, seq + 1)
           gone == <<seq + 1, "m0">>
           refs == {Reference(path, FilesOf(body))}
<1>1. /\ seq + 1 \in Ids
      /\ live' = body
      /\ bodies' = PutObject(DeleteObjects(bodies, {gone}), path, body)
      /\ CommitSnapshot(seq + 1, refs, fs)
  BY DEF MergeAppend
<1> HIDE DEF body, refs, path, gone
<1>3. body \in SUBSET Entries /\ FilesOf(body) = FilesOf(live) \cup fs
  BY <1>1, NewEntriesFacts DEF body
<1>4. path \in {seq + 1} \X Kinds /\ path \in Paths
  BY <1>1 DEF path, Kinds, Paths
<1>5. bodies' = PutObject(bodies, path, body)
  <2>1. gone \notin DOMAIN bodies
    <3>1. gone[1] = seq + 1 /\ seq \in Nat
      BY DEF gone, Sound, TypeOK
    <3>2. \A p \in DOMAIN bodies : p[1] <= seq
      BY DEF Sound, PathsArePast
    <3> QED BY <3>1, <3>2
  <2> QED BY <1>1, <2>1 DEF PutObject, DeleteObjects
<1>6. Complete(bodies', refs, FilesOf(body))
  BY <1>5, OneManifest DEF refs
<1>7. FilesOf(body) = truth[seq] \cup fs
  BY <1>3 DEF Sound, LiveIsComplete
<1>8. refs \subseteq [path : Paths, lo : Nat, hi : Nat]
  BY <1>3, <1>4, OneManifestType DEF refs
<1> QED BY <1>1, <1>3, <1>4, <1>5, <1>6, <1>7, <1>8, CommitKeepsSound

LEMMA RewriteKeepsSound == ASSUME Sound, RewriteManifests PROVE Sound'
<1> DEFINE path == <<seq + 1, "m0">>
           refs == {Reference(path, FilesOf(live))}
<1>1. /\ seq + 1 \in Ids
      /\ live' = live
      /\ bodies' = PutObject(bodies, path, live)
      /\ CommitSnapshot(seq + 1, refs, {})
  BY DEF RewriteManifests
<1> HIDE DEF refs, path
<1>2. live \in SUBSET Entries
  BY DEF Sound, TypeOK
<1>3. path \in {seq + 1} \X Kinds /\ path \in Paths
  BY <1>1 DEF path, Kinds, Paths
<1>4. Complete(bodies', refs, FilesOf(live))
  BY <1>1, OneManifest DEF refs
<1>5. FilesOf(live) = truth[seq] \cup {} /\ FilesOf(live') = FilesOf(live) \cup {}
  BY <1>1 DEF Sound, LiveIsComplete
<1>6. refs \subseteq [path : Paths, lo : Nat, hi : Nat]
  BY <1>2, <1>3, OneManifestType DEF refs
<1>7. {} \subseteq Files
  OBVIOUS
<1> QED BY <1>1, <1>2, <1>3, <1>4, <1>5, <1>6, <1>7, CommitKeepsSound

\* Expiry drops the oldest snapshots: what is left is still in order, and no
\* manifest that is live is deleted.
LEMMA ExpireKeepsSound ==
  ASSUME Sound, NEW keep \in Nat, ExpireSnapshots(keep)
  PROVE  Sound'
<1> DEFINE n == Len(snapshots)
           cut == IF n > keep THEN n - keep ELSE 0
           expired == {snapshots[i] : i \in 1..cut}
           dropped == (expired \X Kinds) \ PathsOf(manifests)
<1>1. /\ snapshots' = SubSeq(snapshots, cut + 1, n)
      /\ lists' = DeleteObjects(lists, expired)
      /\ bodies' = DeleteObjects(bodies, dropped)
      /\ catalog' = snapshots'
      /\ UNCHANGED <<mergeMin, seq, manifests, live, truth>>
  BY DEF ExpireSnapshots
<1>2. snapshots \in Seq(Ids) /\ n \in Nat /\ DOMAIN snapshots = 1..n
      /\ \A i \in 1..n : snapshots[i] \in Ids
  BY DEF Sound, TypeOK
<1>3. cut \in Nat /\ cut <= n
  BY <1>2
<1>4. /\ \A i, j \in 1..n : i < j => snapshots[i] < snapshots[j]
      /\ \A i \in 1..n : snapshots[i] <= seq
      /\ DOMAIN lists = {snapshots[i] : i \in 1..n}
      /\ snapshots # <<>> => snapshots[n] = seq /\ lists[seq] = manifests
  BY <1>2 DEF Sound, SnapshotsAreOrdered
<1> HIDE DEF cut
<1>5. /\ snapshots' \in Seq(Ids) /\ Len(snapshots') = n - cut
      /\ DOMAIN snapshots' = 1..(n - cut)
      /\ \A i \in 1..(n - cut) : snapshots'[i] = snapshots[cut + i]
  <2>1. cut + 1 \in Nat /\ cut + 1 >= 1 /\ n \in 0..n
    BY <1>2, <1>3
  <2>2. snapshots' \in Seq(Ids)
    BY <1>1, <1>2, <1>3
  <2>3. Len(snapshots') = n - cut
    <3>1. Len(snapshots') = IF cut + 1 <= n THEN n - (cut + 1) + 1 ELSE 0
      BY <1>1, <1>2, <2>1, SubSeqProperties
    <3> HIDE DEF n
    <3>2. CASE cut + 1 <= n
      BY <1>2, <1>3, <3>1, <3>2
    <3>3. CASE ~ (cut + 1 <= n)
      <4>1. n - cut = 0
        BY <1>2, <1>3, <3>3
      <4> QED BY <3>1, <3>3, <4>1
    <3> QED BY <3>2, <3>3
  <2>4. DOMAIN snapshots' = 1..Len(snapshots')
    BY <2>2
  <2>5. \A i \in 1..(n - cut) : snapshots'[i] = snapshots[cut + i]
    <3> SUFFICES ASSUME NEW i \in 1..(n - cut) PROVE snapshots'[i] = snapshots[cut + i]
      OBVIOUS
    <3>1. cut + 1 <= n /\ i \in 1..(n - (cut + 1) + 1) /\ (cut + 1) + i - 1 = cut + i
      BY <1>2, <1>3
    <3>2. snapshots'[i] = snapshots[(cut + 1) + i - 1]
      BY <1>1, <1>2, <2>1, <3>1, SubSeqProperties
    <3> QED BY <3>1, <3>2
  <2> QED BY <2>2, <2>3, <2>4, <2>5
<1>6. /\ DOMAIN lists' = DOMAIN lists \ expired
      /\ \A s \in DOMAIN lists' : lists'[s] = lists[s]
  BY <1>1 DEF DeleteObjects
<1>7. /\ DOMAIN bodies' = DOMAIN bodies \ dropped
      /\ \A p \in DOMAIN bodies' : bodies'[p] = bodies[p]
  BY <1>1 DEF DeleteObjects
<1> HIDE DEF n, dropped
<1>8. ASSUME NEW refs, NEW fs, Complete(bodies, refs, fs), PathsOf(refs) \subseteq DOMAIN bodies'
      PROVE  Complete(bodies', refs, fs)
  BY <1>7, <1>8, CompleteElsewhere
<1>9. TypeOK'
  <2>1. mergeMin' \in MergeMins /\ seq' \in 0..MaxSeq /\ live' \in SUBSET Entries
        /\ manifests' \subseteq [path : Paths, lo : Nat, hi : Nat]
        /\ DOMAIN truth' = 0..seq'
    BY <1>1 DEF Sound, TypeOK
  <2>2. DOMAIN lists' \subseteq Ids
        /\ \A s \in DOMAIN lists' : lists'[s] \subseteq [path : Paths, lo : Nat, hi : Nat]
    BY <1>6 DEF Sound, TypeOK
  <2>3. DOMAIN bodies' \subseteq Paths /\ \A p \in DOMAIN bodies' : bodies'[p] \subseteq Entries
    BY <1>7 DEF Sound, TypeOK
  <2> QED BY <1>1, <1>5, <2>1, <2>2, <2>3 DEF TypeOK
<1>10. TruthHoldsFiles'
  BY <1>1 DEF Sound, TruthHoldsFiles
<1>11. PathsArePast'
  BY <1>1, <1>6, <1>7 DEF Sound, PathsArePast
<1>12. SnapshotsAreOrdered'
  <2>1. \A i \in 1..(n - cut) : cut + i \in 1..n
    BY <1>2, <1>3
  <2>2. ASSUME NEW i \in 1..(n - cut), NEW j \in 1..(n - cut), i < j
        PROVE  snapshots'[i] < snapshots'[j]
    <3>1. cut + i \in 1..n /\ cut + j \in 1..n /\ cut + i < cut + j
      BY <1>2, <1>3, <2>2
    <3>2. snapshots[cut + i] < snapshots[cut + j]
      BY <1>4, <3>1
    <3> QED BY <1>5, <3>2
  <2>3. \A i \in 1..(n - cut) : snapshots'[i] <= seq
    BY <1>4, <1>5, <2>1
  <2>4. DOMAIN lists' = {snapshots'[i] : i \in 1..(n - cut)}
    <3>1. ASSUME NEW s \in DOMAIN lists' PROVE s \in {snapshots'[i] : i \in 1..(n - cut)}
      <4>1. PICK k \in 1..n : s = snapshots[k]
        BY <1>4, <1>6
      <4>2. k \notin 1..cut
        BY <1>6, <4>1
      <4>3. k - cut \in 1..(n - cut) /\ cut + (k - cut) = k
        BY <1>2, <1>3, <4>2
      <4>4. s = snapshots'[k - cut]
        BY <1>5, <4>1, <4>3
      <4> QED BY <4>3, <4>4
    <3>2. ASSUME NEW i \in 1..(n - cut) PROVE snapshots'[i] \in DOMAIN lists'
      <4>1. cut + i \in 1..n /\ snapshots'[i] = snapshots[cut + i]
        BY <1>5, <2>1
      <4>2. ASSUME NEW j \in 1..cut PROVE snapshots[j] # snapshots[cut + i]
        <5>1. j \in 1..n /\ j < cut + i
          BY <1>2, <1>3, <4>2
        <5>2. snapshots[j] < snapshots[cut + i]
          BY <1>4, <4>1, <5>1
        <5>3. snapshots[j] \in Nat /\ snapshots[cut + i] \in Nat
          BY <1>2, <4>1, <5>1 DEF Ids
        <5> QED BY <5>2, <5>3
      <4> QED BY <1>4, <1>6, <4>1, <4>2
    <3> QED BY <3>1, <3>2
  <2>5. ASSUME snapshots' # <<>>
        PROVE  snapshots'[n - cut] = seq /\ lists'[seq] = manifests
    <3>1. n - cut # 0
      BY <1>5, <2>5
    <3>2. n - cut \in 1..(n - cut) /\ cut + (n - cut) = n /\ n # 0
      BY <1>2, <1>3, <3>1
    <3>3. snapshots # <<>>
      BY <1>2, <3>2 DEF n
    <3>4. snapshots'[n - cut] = snapshots[n] /\ snapshots[n] = seq
      BY <1>4, <1>5, <3>2, <3>3
    <3>5. seq \in DOMAIN lists'
      BY <2>4, <3>2, <3>4
    <3> QED BY <1>4, <1>6, <3>3, <3>4, <3>5
  <2> QED BY <1>1, <1>5, <2>2, <2>3, <2>4, <2>5 DEF SnapshotsAreOrdered
<1>13. LiveIsComplete'
  <2>1. FilesOf(live) = truth[seq] /\ Complete(bodies, manifests, truth[seq])
    BY DEF Sound, LiveIsComplete
  <2>2. PathsOf(manifests) \subseteq DOMAIN bodies'
    BY <1>7, <2>1 DEF Complete, dropped
  <2>3. Complete(bodies', manifests, truth[seq])
    BY <1>8, <2>1, <2>2
  <2> QED BY <1>1, <2>1, <2>3 DEF LiveIsComplete
<1>14. KeptAreComplete'
  <2> SUFFICES ASSUME NEW s \in DOMAIN lists', PathsOf(lists'[s]) \subseteq DOMAIN bodies'
               PROVE  Complete(bodies', lists'[s], truth'[s])
    BY DEF KeptAreComplete
  <2>1. s \in DOMAIN lists /\ lists'[s] = lists[s]
    BY <1>6
  <2>2. Complete(bodies, lists[s], truth[s])
    BY <1>7, <2>1 DEF Sound, KeptAreComplete
  <2>3. Complete(bodies', lists[s], truth[s])
    BY <1>8, <2>1, <2>2
  <2> QED BY <1>1, <2>1, <2>3
<1> QED BY <1>9, <1>10, <1>11, <1>12, <1>13, <1>14 DEF Sound

\* Steps that change nothing of the table keep what holds of it.
LEMMA StutterKeepsSound == ASSUME Sound, UNCHANGED vars PROVE Sound'
<1> USE DEF vars
<1>1. TypeOK' /\ TruthHoldsFiles' /\ PathsArePast'
  BY DEF Sound, TypeOK, TruthHoldsFiles, PathsArePast
<1>2. SnapshotsAreOrdered'
  BY DEF Sound, SnapshotsAreOrdered
<1>3. LiveIsComplete' /\ KeptAreComplete'
  BY DEF Sound, LiveIsComplete, KeptAreComplete
<1> QED BY <1>1, <1>2, <1>3 DEF Sound

\* An append of new files keeps it, whether it merges or not.
LEMMA AppendKeepsSound ==
  ASSUME Sound, NEW fs, fs \subseteq Files, fs \cap truth[seq] = {}, AppendFiles(fs)
  PROVE  Sound'
BY FastAppendKeepsSound, MergeAppendKeepsSound DEF AppendFiles

\* What the steps make of the truth: a commit adds a snapshot to it.
LEMMA TruthGrows ==
  ASSUME Sound
  PROVE  /\ \A fs : AppendFiles(fs) =>
               seq' = seq + 1 /\ truth' = PutObject(truth, seq + 1, truth[seq] \cup fs)
         /\ RewriteManifests =>
              seq' = seq + 1 /\ truth' = PutObject(truth, seq + 1, truth[seq])
         /\ \A keep : ExpireSnapshots(keep) => seq' = seq /\ truth' = truth
<1>1. \A fs : AppendFiles(fs) =>
        seq' = seq + 1 /\ truth' = PutObject(truth, seq + 1, truth[seq] \cup fs)
  BY DEF AppendFiles, FastAppend, MergeAppend, CommitSnapshot
<1>2. RewriteManifests => seq' = seq + 1 /\ truth' = PutObject(truth, seq + 1, truth[seq])
  <2>1. truth[seq] \cup {} = truth[seq]
    OBVIOUS
  <2> QED BY <2>1 DEF RewriteManifests, CommitSnapshot
<1>3. \A keep : ExpireSnapshots(keep) => seq' = seq /\ truth' = truth
  BY DEF ExpireSnapshots
<1> QED BY <1>1, <1>2, <1>3

\* The invariant holds initially: there is no snapshot and no file.
LEMMA InitIInv == ASSUME Init PROVE IInv
BY InitSound DEF IInv, Init, TruthIsPast

\* Iceberg's own steps keep the invariant.
LEMMA NextKeepsIInv == ASSUME IInv, [Next]_vars PROVE IInv'
<1>1. Sound /\ TruthIsPast /\ DOMAIN truth = 0..seq /\ seq \in Nat
  BY DEF IInv, Sound, TypeOK
<1>2. ASSUME NEW new, new \subseteq (1..(seq + 1)) \X Days,
             truth' = PutObject(truth, seq + 1, truth[seq] \cup new)
      PROVE  TruthIsPast'
  <2>1. /\ DOMAIN truth' = DOMAIN truth \cup {seq + 1} /\ truth'[seq + 1] = truth[seq] \cup new
        /\ \A s \in DOMAIN truth : s # seq + 1 => truth'[s] = truth[s]
    BY <1>2 DEF PutObject
  <2>2. truth[seq] \subseteq (1..(seq + 1)) \X Days
    <3>1. truth[seq] \subseteq (1..seq) \X Days /\ 1..seq \subseteq 1..(seq + 1)
      BY <1>1 DEF TruthIsPast
    <3> QED BY <3>1
  <2>3. ASSUME NEW s \in DOMAIN truth' PROVE truth'[s] \subseteq (1..s) \X Days
    <3>1. CASE s = seq + 1
      BY <1>2, <2>1, <2>2, <3>1
    <3>2. CASE s # seq + 1
      BY <1>1, <2>1, <3>2 DEF TruthIsPast
    <3> QED BY <3>1, <3>2
  <2> QED BY <2>3 DEF TruthIsPast
<1>3. ASSUME NEW ds \in SUBSET Days, AppendFiles({seq + 1} \X ds) PROVE IInv'
  <2> DEFINE fs == {seq + 1} \X ds
  <2>1. fs \subseteq Files /\ fs \subseteq (1..(seq + 1)) \X Days
    BY <1>1 DEF Files
  <2>2. fs \cap truth[seq] = {}
    <3>1. truth[seq] \subseteq (1..seq) \X Days /\ seq + 1 \notin 1..seq
      BY <1>1 DEF TruthIsPast
    <3> QED BY <3>1
  <2> HIDE DEF fs
  <2>3. AppendFiles(fs)
    BY <1>3 DEF fs
  <2> QED BY <1>1, <1>2, <2>1, <2>2, <2>3, AppendKeepsSound, TruthGrows DEF IInv
<1>4. CASE RewriteManifests
  <2> DEFINE none == {}
  <2>1. truth[seq] = truth[seq] \cup none /\ none \subseteq (1..(seq + 1)) \X Days
    OBVIOUS
  <2> HIDE DEF none
  <2>2. Sound' /\ truth' = PutObject(truth, seq + 1, truth[seq] \cup none)
    BY <1>1, <1>4, <2>1, RewriteKeepsSound, TruthGrows
  <2> QED BY <1>2, <2>1, <2>2 DEF IInv
<1>5. ASSUME NEW keep \in 0..MaxSeq, ExpireSnapshots(keep) PROVE IInv'
  <2>1. keep \in Nat
    BY MaxSeqIsNat
  <2> QED BY <1>1, <1>5, <2>1, ExpireKeepsSound, TruthGrows DEF IInv, TruthIsPast
<1>6. CASE UNCHANGED vars
  BY <1>1, <1>6, StutterKeepsSound DEF vars, IInv, TruthIsPast
<1> QED BY <1>3, <1>4, <1>5, <1>6 DEF Next

\* In every state of every history of appends, rewrites and expirations
\* (iceberg.rs), the types and the conjuncts above hold.
THEOREM InvariantHolds == Spec => []IInv
<1>1. Init => IInv
  BY InitIInv
<1>2. IInv /\ [Next]_vars => IInv'
  BY NextKeepsIInv
<1> QED BY <1>1, <1>2, PTL DEF Spec

-----------------------------------------------------------------------------
(* The properties *)

\* The snapshots a reader finds are those the writer keeps, and each has its
\* list and its files.
LEMMA KeptSnapshots ==
  ASSUME Sound
  PROVE  /\ Kept = DOMAIN lists
         /\ \A s \in Kept : s \in Ids /\ s <= seq /\ truth[s] \subseteq Files
<1>1. catalog = snapshots
  BY DEF Sound, TypeOK
<1>2. Kept = DOMAIN lists
  BY <1>1 DEF Kept, Sound, SnapshotsAreOrdered
<1>3. ASSUME NEW s \in DOMAIN lists PROVE s \in Ids /\ s <= seq
  BY <1>3 DEF Sound, TypeOK, SnapshotsAreOrdered
<1>4. ASSUME NEW s \in DOMAIN lists PROVE truth[s] \subseteq Files
  <2>1. s \in DOMAIN truth
    BY <1>3 DEF Sound, TypeOK, Ids
  <2> QED BY <2>1 DEF Sound, TruthHoldsFiles
<1> QED BY <1>2, <1>3, <1>4

\* The current snapshot is the last commit, and its plan is exact.
LEMMA CurrentIsExact ==
  ASSUME Sound, catalog # <<>>
  PROVE  Current = seq /\ ExactPlan(Current)
<1>1. catalog = snapshots /\ snapshots \in Seq(Ids)
  BY DEF Sound, TypeOK
<1>2. Current = seq /\ lists[seq] = manifests
  BY <1>1 DEF Current, Sound, SnapshotsAreOrdered
<1>3. seq \in Kept
  <2>1. Len(snapshots) \in DOMAIN snapshots
    BY <1>1
  <2> QED BY <1>1, <1>2, <2>1 DEF Kept, Current
<1>4. Complete(bodies, lists[seq], truth[seq])
  BY <1>2 DEF Sound, LiveIsComplete
<1>5. seq \in DOMAIN lists /\ truth[seq] \subseteq Files
  BY <1>3, KeptSnapshots
<1>6. TypeOK
  BY DEF Sound
<1> QED BY <1>2, <1>3, <1>4, <1>5, <1>6, CompletePlansExactly

\* A kept snapshot that has its manifests has the right plan.
LEMMA KeptAreExact ==
  ASSUME Sound, NEW s \in Kept, CanPlan(s, Days)
  PROVE  ExactPlan(s)
<1>1. s \in DOMAIN lists /\ truth[s] \subseteq Files
  BY KeptSnapshots
<1>2. PathsOf(lists[s]) \subseteq DOMAIN bodies
  BY DEF CanPlan, ToRead, PathsOf
<1>3. Complete(bodies, lists[s], truth[s])
  BY <1>1, <1>2 DEF Sound, KeptAreComplete
<1>4. TypeOK
  BY DEF Sound
<1> QED BY <1>1, <1>3, <1>4, CompletePlansExactly

\* A reader of the current snapshot always finds every object and gets each
\* committed file once, whatever appends, merges, rewrites and expirations
\* came before (plan() of iceberg.rs).
THEOREM CurrentIsPlannedExactly == Spec => []CurrentPlanExact
<1>1. IInv => CurrentPlanExact
  BY CurrentIsExact DEF IInv, CurrentPlanExact
<1> QED BY <1>1, InvariantHolds, PTL

\* A kept snapshot that can be planned at all is planned with exactly the
\* files it was committed with (plan(at) of iceberg.rs).
THEOREM TimeTravelIsExact == Spec => []TimeTravelExact
<1>1. IInv => TimeTravelExact
  BY KeptAreExact DEF IInv, TimeTravelExact
<1> QED BY <1>1, InvariantHolds, PTL

\* A commit leaves every older list, and every manifest, as it was.
LEMMA CommitLeavesPlans ==
  ASSUME Sound, NEW fs, NEW refs, NEW path, NEW body, NEW s \in Kept \cap Kept',
         bodies' = PutObject(bodies, path, body),
         CommitSnapshot(seq + 1, refs, fs), CanPlan(s, Days)
  PROVE  CanPlan(s, Days)'
<1>1. s \in DOMAIN lists /\ s <= seq /\ s \in Nat /\ seq \in Nat
  BY KeptSnapshots DEF Sound, TypeOK, Ids
<1>2. s \in DOMAIN lists' /\ lists'[s] = lists[s]
  <2>1. s # seq + 1
    BY <1>1
  <2> QED BY <1>1, <2>1 DEF CommitSnapshot, PutObject
<1>3. DOMAIN bodies \subseteq DOMAIN bodies'
  BY DEF PutObject
<1> QED BY <1>2, <1>3 DEF CanPlan, ToRead

\* Appends, merges and rewrites break no kept snapshot; an expiry breaks only
\* one whose manifests a rewrite or a merge has replaced (expire_snapshots).
THEOREM OnlyExpiryBreaksPlans == Spec => OnlyExpiryOfRewrittenBreaks
<1> DEFINE Harmless == \A s \in Kept \cap Kept' :
             CanPlan(s, Days) /\ ~ CanPlan(s, Days)'
               => seq' = seq /\ lists[s] \ manifests # {}
<1>1. ASSUME IInv, Next PROVE Harmless
  <2> SUFFICES ASSUME NEW s \in Kept \cap Kept', CanPlan(s, Days), ~ CanPlan(s, Days)'
               PROVE  seq' = seq /\ lists[s] \ manifests # {}
    OBVIOUS
  <2>1. ASSUME NEW ds \in SUBSET Days, FastAppend({seq + 1} \X ds) PROVE FALSE
    BY <1>1, <2>1, CommitLeavesPlans DEF IInv, FastAppend
  <2>2. ASSUME NEW ds \in SUBSET Days, MergeAppend({seq + 1} \X ds) PROVE FALSE
    <3> DEFINE fs == {seq + 1} \X ds
               path == <<seq + 1, "m1">>
               body == live \cup NewEntries(fs, seq + 1)
               refs == {Reference(path, FilesOf(body))}
               gone == <<seq + 1, "m0">>
    <3>1. /\ bodies' = PutObject(DeleteObjects(bodies, {gone}), path, body)
          /\ CommitSnapshot(seq + 1, refs, fs)
      BY <2>2 DEF MergeAppend
    <3> HIDE DEF fs, path, body, refs, gone
    <3>2. gone \notin DOMAIN bodies
      <4>1. gone[1] = seq + 1 /\ seq \in Nat
        BY <1>1 DEF gone, IInv, Sound, TypeOK
      <4>2. \A p \in DOMAIN bodies : p[1] <= seq
        BY <1>1 DEF IInv, Sound, PathsArePast
      <4> QED BY <4>1, <4>2
    <3>3. bodies' = PutObject(bodies, path, body)
      BY <3>1, <3>2 DEF PutObject, DeleteObjects
    <3> QED BY <1>1, <3>1, <3>3, CommitLeavesPlans DEF IInv
  <2>3. CASE RewriteManifests
    BY <1>1, <2>3, CommitLeavesPlans DEF IInv, RewriteManifests
  <2>4. ASSUME NEW keep \in 0..MaxSeq, ExpireSnapshots(keep)
        PROVE  seq' = seq /\ lists[s] \ manifests # {}
    <3> DEFINE cut == IF Len(snapshots) > keep THEN Len(snapshots) - keep ELSE 0
               expired == {snapshots[i] : i \in 1..cut}
    <3>1. /\ seq' = seq
          /\ lists' = DeleteObjects(lists, expired)
          /\ bodies' = DeleteObjects(bodies, (expired \X Kinds) \ PathsOf(manifests))
      BY <2>4 DEF ExpireSnapshots
    <3> HIDE DEF expired
    <3>2. IInv'
      BY <1>1, NextKeepsIInv
    <3>3. s \in DOMAIN lists'
      BY <3>2 DEF Kept, IInv, Sound, TypeOK, SnapshotsAreOrdered
    <3>4. lists'[s] = lists[s]
      BY <3>1, <3>3 DEF DeleteObjects
    <3>5. PICK r \in lists[s] : r.path \notin DOMAIN bodies'
      BY <3>3, <3>4 DEF CanPlan, ToRead
    <3>6. r.path \in DOMAIN bodies
      BY DEF CanPlan, ToRead
    <3>7. r.path \in PathsOf(manifests) => FALSE
      BY <3>1, <3>5, <3>6 DEF DeleteObjects
    <3>8. r \notin manifests
      BY <3>7 DEF PathsOf
    <3> QED BY <3>1, <3>5, <3>8
  <2> QED BY <1>1, <2>1, <2>2, <2>3, <2>4 DEF Next, AppendFiles
<1>2. ASSUME IInv, UNCHANGED vars PROVE Harmless
  BY <1>2 DEF vars, CanPlan, ToRead, Kept
<1>3. IInv /\ [Next]_vars => [Harmless]_vars
  BY <1>1, <1>2
<1> QED BY <1>3, InvariantHolds, PTL DEF Spec, OnlyExpiryOfRewrittenBreaks

=============================================================================
