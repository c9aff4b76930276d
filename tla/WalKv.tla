------------------------------- MODULE WalKv -------------------------------
(***************************************************************************)
(* Topic 16's key-value store (kv.rs) over its crash-simulating file       *)
(* (sim_fs.rs): an in-memory map, and a write-ahead log whose appends are  *)
(* buffered until a sync.  A crash loses the buffer except, possibly, a    *)
(* prefix of its bytes; recovery replays the log up to the last commit     *)
(* marker it can read and cuts the file there.                             *)
(*                                                                         *)
(* The file is a sequence of log records.  The code's file is one of       *)
(* bytes, 10 to a record, and only a crash can leave a record incomplete:  *)
(* the record Torn stands for the 1 to 9 bytes that survived of one.       *)
(***************************************************************************)
EXTENDS KvMaps

CONSTANTS
  NoKey,     \* the unused key field of a marker and of a torn record
  MaxLog     \* bound: records the log may hold, durable and buffered

ASSUME NoKeyIsNoKey == NoKey \notin Keys
ASSUME MaxLogIsNat == MaxLog \in Nat

VARIABLES
  synced,    \* SimFile.synced: what survives any crash
  buffered,  \* SimFile.buffered: appended, not yet synced
  mem        \* KvStore.mem: what reads are served from

vars == <<synced, buffered, mem>>

-----------------------------------------------------------------------------
(* Log records: [type][key][value][checksum].                              *)
(* The definitions marked "Fault" are no part of the specification: each   *)
(* is a bug, most of them those that kv.rs injects, that a property below  *)
(* must catch when it stands in for the definition after it.               *)

PutRecord(k, v) == [type |-> "put", key |-> k, val |-> v]
DeleteRecord(k) == [type |-> "delete", key |-> k, val |-> Absent]
Marker == [type |-> "commit", key |-> NoKey, val |-> Absent]
Torn == [type |-> "torn", key |-> NoKey, val |-> Absent]

WriteRecords ==
  {PutRecord(k, v) : k \in Keys, v \in Vals} \cup {DeleteRecord(k) : k \in Keys}

\* Every record before position i, and the one at i, has all of its bytes.
WholeUpTo(file, i) == \A j \in 1..i : file[j] # Torn

\* Fault: Bug::TornWriteAccepted, an incomplete batch counts.
TornWriteAccepted(file, i) == file[i] # Torn /\ WholeUpTo(file, i)

\* A commit marker that replay reaches: it stops at the first bad record.
IsCommitPoint(file, i) == file[i] = Marker /\ WholeUpTo(file, i)

\* Fault: replay stops at the first commit marker instead of the last.
FirstGood(file) ==
  LET points == {i \in DOMAIN file : IsCommitPoint(file, i)}
  IN  IF points = {} THEN 0
      ELSE CHOOSE i \in points : \A j \in points : j >= i

\* recover()'s last_good, in records: the last commit point of the file.
LastGood(file) ==
  LET points == {i \in DOMAIN file : IsCommitPoint(file, i)}
  IN  IF points = {} THEN 0
      ELSE CHOOSE i \in points : \A j \in points : j <= i

\* The part of the file that recover() keeps: every batch in it is complete.
Recovered(file) == SubSeq(file, 1, LastGood(file))

\* What a crash can leave of the buffer: nothing, or a prefix of its bytes.
SurvivingTails(buf) ==
  {SubSeq(buf, 1, n) : n \in 0..Len(buf)}
    \cup {Append(SubSeq(buf, 1, n - 1), Torn) : n \in 1..Len(buf)}

-----------------------------------------------------------------------------
Init ==
  /\ synced = <<>>
  /\ buffered = <<>>
  /\ mem = EmptyMap

RoomInLog == Len(synced) + Len(buffered) < MaxLog

Put(k, v) ==
  /\ RoomInLog
  /\ buffered' = Append(buffered, PutRecord(k, v))
  /\ mem' = [mem EXCEPT ![k] = v]
  /\ UNCHANGED synced

Delete(k) ==
  /\ RoomInLog
  /\ buffered' = Append(buffered, DeleteRecord(k))
  /\ mem' = [mem EXCEPT ![k] = Absent]
  /\ UNCHANGED synced

\* Fault: Bug::NoSyncOnCommit.
NoSyncOnCommit ==
  /\ RoomInLog
  /\ buffered' = Append(buffered, Marker)
  /\ UNCHANGED <<synced, mem>>

\* The marker is appended and the whole buffer synced, in one operation.
Commit ==
  /\ RoomInLog
  /\ synced' = synced \o Append(buffered, Marker)
  /\ buffered' = <<>>
  /\ UNCHANGED mem

\* Fault: recovery replays but does not truncate the file.
CrashWithoutRepair ==
  \E tail \in SurvivingTails(buffered) :
    /\ synced' = synced \o tail
    /\ buffered' = <<>>
    /\ mem' = ApplyWrites(EmptyMap, Recovered(synced \o tail))

\* Fault: Bug::StaleRead, the map survives the crash.
StaleRead ==
  \E tail \in SurvivingTails(buffered) :
    /\ synced' = synced \o tail
    /\ buffered' = <<>>
    /\ UNCHANGED mem

\* Op::Crash: SimFile.crash and then recover(), which rebuilds mem from the
\* log alone and truncates the file to what it could use of it.
Crash ==
  \E tail \in SurvivingTails(buffered) :
    LET good == Recovered(synced \o tail)
    IN  /\ synced' = good
        /\ buffered' = <<>>
        /\ mem' = ApplyWrites(EmptyMap, good)

Next ==
  \/ \E k \in Keys, v \in Vals : Put(k, v)
  \/ \E k \in Keys : Delete(k)
  \/ Commit
  \/ Crash

Spec == Init /\ [][Next]_vars
-----------------------------------------------------------------------------
(* Properties. *)

\* The types of the three variables: a durable log holds no torn record, and
\* a marker is never left in the buffer.
TypeOK ==
  /\ synced \in Seq(WriteRecords \cup {Marker})
  /\ buffered \in Seq(WriteRecords)
  /\ mem \in Maps

Durable == ApplyWrites(EmptyMap, synced)

\* Reads are served from mem: between crashes they see the committed map and,
\* over it, every write since the last commit; right after a crash, when the
\* buffer is empty, exactly what was committed.
ReadsSeeOwnWrites == mem = ApplyWrites(Durable, buffered)

\* Recovery's tail repair (kv.rs "tail repair: drop torn/uncommitted bytes so
\* leftovers can't join the next batch"): between operations the durable log
\* is empty or ends with a commit marker.
TailIsRepaired == synced = <<>> \/ synced[Len(synced)] = Marker

\* A commit is for ever: no step, a crash and the truncation that follows it
\* included, takes a record away from the durable log.
CommittedLogOnlyGrows ==
  [][/\ Len(synced') >= Len(synced)
     /\ SubSeq(synced', 1, Len(synced)) = synced]_vars

\* The store implements the oracle of lib.rs, `kv.state() == model.expected()`
\* after every crash in crash_matrix.rs: committed is what the durable log
\* replays to, pending what is buffered.
Oracle == INSTANCE KvModel WITH
  committed <- Durable,
  pending <- [i \in DOMAIN buffered |->
                [key |-> buffered[i].key, val |-> buffered[i].val]]

ImplementsOracle == Oracle!Spec
=============================================================================
