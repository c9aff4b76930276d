---------------------------- MODULE WalKvProofs ----------------------------
(***************************************************************************)
(* Topic 16's store, for every set of keys and values and every log        *)
(* length: recovery rebuilds exactly the committed map, its loop computes  *)
(* just that, and the store implements the oracle.                         *)
(***************************************************************************)
EXTENDS WalKvMC, SequenceTheorems, WellFoundedInduction, TLAPS

-----------------------------------------------------------------------------
(* The map that a sequence of writes leaves. *)

\* A nonempty set of naturals has a least one.
LEMMA MinExists ==
  ASSUME NEW T, T \subseteq Nat, T # {}
  PROVE  \E x \in T : \A y \in T : x <= y
<1> DEFINE R == OpToRel(<, Nat)
<1>1. \A x, y \in Nat : <<y, x>> \in R <=> y < x
  BY DEF OpToRel
<1>2. PICK x \in T : \A y \in T : ~ (<<y, x>> \in R)
  <2>1. IsWellFoundedOn(R, Nat)
    BY NatLessThanWellFounded DEF R
  <2> HIDE DEF R
  <2> QED BY <2>1, WFMin
<1>3. \A y \in T : ~ (y < x)
  <2> HIDE DEF R
  <2> QED BY <1>1, <1>2
<1> HIDE DEF R
<1> QED BY <1>3

\* If a key is written at all, one of its writes is the last.
LEMMA LastWriteExists ==
  ASSUME NEW R, NEW w \in Seq(R), NEW k, WritesOf(w, k) # {}
  PROVE  \E i \in DOMAIN w : IsLastWrite(w, k, i)
<1>1. Len(w) \in Nat /\ WritesOf(w, k) \subseteq 1..Len(w)
  BY DEF WritesOf
<1> DEFINE T == {Len(w) - i : i \in WritesOf(w, k)}
<1>2. T \subseteq Nat /\ T # {}
  BY <1>1
<1>3. PICK x \in T : \A y \in T : x <= y
  <2> HIDE DEF T
  <2> QED BY <1>2, MinExists
<1>4. PICK i \in WritesOf(w, k) : x = Len(w) - i
  OBVIOUS
<1>5. ASSUME NEW j \in WritesOf(w, k) PROVE j <= i
  <2>1. Len(w) - i <= Len(w) - j
    BY <1>3, <1>4
  <2>2. i \in 1..Len(w) /\ j \in 1..Len(w)
    BY <1>1
  <2> HIDE DEF T
  <2> QED BY <1>1, <2>1, <2>2
<1> QED BY <1>5 DEF IsLastWrite, WritesOf

\* The last write of a key decides its value.
LEMMA LastWriteWins ==
  ASSUME NEW R, NEW w \in Seq(R), NEW m, NEW k \in Keys,
         NEW i \in DOMAIN w, IsLastWrite(w, k, i)
  PROVE  ApplyWrites(m, w)[k] = w[i].val
<1>1. WritesOf(w, k) # {}
  BY DEF IsLastWrite
<1>2. \A j \in DOMAIN w : IsLastWrite(w, k, j) => j = i
  BY DEF IsLastWrite, WritesOf
<1>3. (CHOOSE j \in DOMAIN w : IsLastWrite(w, k, j)) = i
  BY <1>2
<1> QED BY <1>1, <1>3 DEF ApplyWrites

\* A key that is not written keeps its value.
LEMMA UnwrittenKept ==
  ASSUME NEW w, NEW m, NEW k \in Keys, WritesOf(w, k) = {}
  PROVE  ApplyWrites(m, w)[k] = m[k]
BY DEF ApplyWrites

LEMMA ApplyEmpty ==
  ASSUME NEW m \in Maps
  PROVE  ApplyWrites(m, <<>>) = m
BY DEF ApplyWrites, WritesOf, Maps

\* Applying writes to a map gives a map.
LEMMA ApplyType ==
  ASSUME NEW R, NEW w \in Seq(R), NEW m \in Maps,
         \A i \in DOMAIN w : w[i].val \in Vals \cup {Absent}
  PROVE  ApplyWrites(m, w) \in Maps
<1>1. ASSUME NEW k \in Keys
      PROVE  ApplyWrites(m, w)[k] \in Vals \cup {Absent}
  <2>1. CASE WritesOf(w, k) = {}
    BY <2>1, UnwrittenKept DEF Maps
  <2>2. CASE WritesOf(w, k) # {}
    <3>1. PICK i \in DOMAIN w : IsLastWrite(w, k, i)
      BY <2>2, LastWriteExists
    <3> QED BY <3>1, LastWriteWins
  <2> QED BY <2>1, <2>2
<1>2. ApplyWrites(m, w) = [k \in Keys |-> ApplyWrites(m, w)[k]]
  BY DEF ApplyWrites
<1> QED BY <1>1, <1>2 DEF Maps

\* Applying a log in two parts is applying the whole of it.
LEMMA ApplyConcat ==
  ASSUME NEW R, NEW w \in Seq(R), NEW u \in Seq(R), NEW m
  PROVE  ApplyWrites(m, w \o u) = ApplyWrites(ApplyWrites(m, w), u)
<1> DEFINE c == w \o u
           n == Len(w)
<1>1. /\ c \in Seq(R)
      /\ n \in Nat /\ Len(u) \in Nat
      /\ DOMAIN w = 1..n /\ DOMAIN u = 1..Len(u)
      /\ DOMAIN c = 1..(n + Len(u))
      /\ \A i \in 1..n : c[i] = w[i]
      /\ \A i \in 1..Len(u) : c[n + i] = u[i]
  BY ConcatProperties, LenProperties
<1>2. \A i \in DOMAIN c : i \in 1..n \/ \E j \in 1..Len(u) : i = n + j
  <2> SUFFICES ASSUME NEW i \in DOMAIN c, i \notin 1..n
               PROVE  \E j \in 1..Len(u) : i = n + j
    OBVIOUS
  <2>1. i - n \in 1..Len(u) /\ i = n + (i - n)
    BY <1>1
  <2> QED BY <2>1
<1> HIDE DEF c, n
<1>3. ASSUME NEW k, WritesOf(u, k) = {}
      PROVE  WritesOf(c, k) = WritesOf(w, k)
  <2>1. ASSUME NEW i \in WritesOf(c, k) PROVE i \in WritesOf(w, k)
    <3>1. i \in DOMAIN c /\ c[i].key = k
      BY DEF WritesOf
    <3>2. ASSUME NEW j \in 1..Len(u), i = n + j PROVE FALSE
      <4>1. u[j].key = k
        BY <1>1, <3>1, <3>2
      <4> QED BY <1>1, <1>3, <4>1 DEF WritesOf
    <3>3. i \in 1..n
      BY <1>2, <3>1, <3>2
    <3> QED BY <1>1, <3>1, <3>3 DEF WritesOf
  <2>2. ASSUME NEW i \in WritesOf(w, k) PROVE i \in WritesOf(c, k)
    BY <1>1 DEF WritesOf
  <2> QED BY <2>1, <2>2
<1>4. ASSUME NEW k \in Keys
      PROVE  ApplyWrites(m, c)[k] = ApplyWrites(ApplyWrites(m, w), u)[k]
  <2>1. CASE WritesOf(u, k) = {} /\ WritesOf(w, k) = {}
    <3>1. WritesOf(c, k) = {}
      BY <1>3, <2>1
    <3> QED BY <2>1, <3>1, UnwrittenKept
  <2>2. CASE WritesOf(u, k) = {} /\ WritesOf(w, k) # {}
    <3>1. PICK i \in DOMAIN w : IsLastWrite(w, k, i)
      BY <2>2, LastWriteExists
    <3>2. i \in DOMAIN c /\ c[i] = w[i]
      BY <1>1
    <3>3. WritesOf(c, k) = WritesOf(w, k)
      BY <1>3, <2>2
    <3>4. IsLastWrite(c, k, i)
      BY <3>1, <3>3 DEF IsLastWrite
    <3>5. ApplyWrites(m, c)[k] = c[i].val
      BY <1>1, <3>2, <3>4, LastWriteWins
    <3>6. ApplyWrites(m, w)[k] = w[i].val
      BY <3>1, LastWriteWins
    <3> QED BY <2>2, <3>2, <3>5, <3>6, UnwrittenKept
  <2>3. CASE WritesOf(u, k) # {}
    <3>1. PICK i \in DOMAIN u : IsLastWrite(u, k, i)
      BY <2>3, LastWriteExists
    <3>2. n + i \in DOMAIN c /\ c[n + i] = u[i]
      BY <1>1
    <3>3. n + i \in WritesOf(c, k)
      BY <3>1, <3>2 DEF IsLastWrite, WritesOf
    <3>4. ASSUME NEW j \in WritesOf(c, k) PROVE j <= n + i
      <4>1. j \in DOMAIN c /\ c[j].key = k
        BY DEF WritesOf
      <4>2. CASE j \in 1..n
        BY <1>1, <4>2
      <4>3. CASE \E l \in 1..Len(u) : j = n + l
        <5>1. PICK l \in 1..Len(u) : j = n + l
          BY <4>3
        <5>2. l \in WritesOf(u, k)
          BY <1>1, <4>1, <5>1 DEF WritesOf
        <5>3. l <= i
          BY <3>1, <5>2 DEF IsLastWrite
        <5> QED BY <1>1, <5>1, <5>3
      <4> QED BY <1>2, <4>1, <4>2, <4>3
    <3>5. IsLastWrite(c, k, n + i)
      BY <3>3, <3>4 DEF IsLastWrite
    <3>6. ApplyWrites(m, c)[k] = c[n + i].val
      BY <1>1, <3>2, <3>5, LastWriteWins
    <3>7. ApplyWrites(ApplyWrites(m, w), u)[k] = u[i].val
      BY <3>1, LastWriteWins
    <3> QED BY <3>2, <3>6, <3>7
  <2> QED BY <2>1, <2>2, <2>3
<1> QED BY <1>4 DEF ApplyWrites, c

-----------------------------------------------------------------------------
(* What recovery finds. *)

\* A durable log that is empty or ends with a marker.
CleanLog(file) ==
  /\ file \in Seq(WriteRecords \cup {Marker})
  /\ file = <<>> \/ file[Len(file)] = Marker

\* A marker, a torn record and the write records are all different.
LEMMA RecordsDiffer ==
  Marker # Torn /\ Marker \notin WriteRecords /\ Torn \notin WriteRecords
<1>1. Marker.type = "commit" /\ Torn.type = "torn"
  BY DEF Marker, Torn
<1>2. \A r \in WriteRecords : r.type \in {"put", "delete"}
  BY DEF WriteRecords, PutRecord, DeleteRecord
<1> QED BY <1>1, <1>2

\* What survives of the buffer holds no marker: markers are never buffered
\* across operations.
LEMMA TailHasNoMarker ==
  ASSUME NEW buf \in Seq(WriteRecords), NEW tail \in SurvivingTails(buf)
  PROVE  /\ tail \in Seq(WriteRecords \cup {Torn})
         /\ \A i \in DOMAIN tail : tail[i] # Marker
<1> DEFINE S == WriteRecords \cup {Torn}
<1>1. buf \in Seq(S) /\ Len(buf) \in Nat
  BY SeqMonotonic, LenProperties
<1>2. \A n \in 0..Len(buf) : SubSeq(buf, 1, n) \in Seq(S)
  <2> SUFFICES ASSUME NEW n \in 0..Len(buf) PROVE SubSeq(buf, 1, n) \in Seq(S)
    OBVIOUS
  <2>1. \A i \in 1..n : buf[i] \in S
    BY <1>1, ElementOfSeq
  <2> HIDE DEF S
  <2> QED BY <1>1, <2>1, SubSeqProperties
<1>3. tail \in Seq(S)
  <2> HIDE DEF S
  <2>1. Torn \in S
    BY DEF S
  <2>2. \/ \E n \in 0..Len(buf) : tail = SubSeq(buf, 1, n)
        \/ \E n \in 1..Len(buf) : tail = Append(SubSeq(buf, 1, n - 1), Torn)
    BY DEF SurvivingTails
  <2>3. CASE \E n \in 0..Len(buf) : tail = SubSeq(buf, 1, n)
    BY <1>2, <2>3
  <2>4. CASE \E n \in 1..Len(buf) : tail = Append(SubSeq(buf, 1, n - 1), Torn)
    <3>1. PICK n \in 1..Len(buf) : tail = Append(SubSeq(buf, 1, n - 1), Torn)
      BY <2>4
    <3>2. n - 1 \in 0..Len(buf)
      BY <1>1
    <3> QED BY <1>2, <2>1, <3>1, <3>2, AppendProperties
  <2> QED BY <2>2, <2>3, <2>4
<1>4. Marker \notin WriteRecords \cup {Torn}
  BY RecordsDiffer
<1>5. \A i \in DOMAIN tail : tail[i] \in WriteRecords \cup {Torn}
  BY <1>3, ElementOfSeq, LenProperties
<1> QED BY <1>3, <1>4, <1>5

\* Recovery returns the committed log, whatever tail the crash left behind it.
LEMMA RecoveryIsExact ==
  ASSUME NEW file, CleanLog(file),
         NEW buf \in Seq(WriteRecords), NEW tail \in SurvivingTails(buf)
  PROVE  Recovered(file \o tail) = file
<1> DEFINE S == WriteRecords \cup {Marker, Torn}
           whole == file \o tail
           n == Len(file)
           points == {i \in DOMAIN whole : IsCommitPoint(whole, i)}
<1>1. file \in Seq(S) /\ tail \in Seq(S) /\ n \in Nat /\ Len(tail) \in Nat
  BY TailHasNoMarker DEF CleanLog
<1>2. /\ whole \in Seq(S)
      /\ DOMAIN whole = 1..(n + Len(tail))
      /\ \A i \in 1..n : whole[i] = file[i]
      /\ \A i \in 1..Len(tail) : whole[n + i] = tail[i]
  BY <1>1, ConcatProperties, LenProperties
<1>3. \A i \in points : i <= n
  <2> SUFFICES ASSUME NEW i \in points, ~ (i <= n) PROVE FALSE
    BY <1>1, <1>2
  <2>1. i - n \in 1..Len(tail) /\ i = n + (i - n)
    BY <1>1, <1>2
  <2>2. whole[i] = tail[i - n]
    BY <1>2, <2>1
  <2>3. tail[i - n] # Marker
    BY <1>1, <2>1, TailHasNoMarker
  <2> QED BY <2>2, <2>3 DEF IsCommitPoint
<1>4. LastGood(whole) = n
  <2>1. CASE file = <<>>
    <3>1. points = {}
      BY <1>2, <1>3, <2>1
    <3> QED BY <2>1, <3>1 DEF LastGood
  <2>2. CASE file # <<>>
    <3>1. n \in DOMAIN whole /\ n >= 1
      BY <1>1, <1>2, <2>2
    <3>2. whole[n] = Marker
      BY <1>2, <2>2, <3>1 DEF CleanLog
    <3>3. \A j \in 1..n : whole[j] # Torn
      <4>1. Torn \notin WriteRecords \cup {Marker}
        BY RecordsDiffer
      <4>2. \A j \in 1..n : file[j] \in WriteRecords \cup {Marker}
        BY ElementOfSeq DEF CleanLog
      <4> QED BY <1>2, <4>1, <4>2
    <3>4. n \in points
      BY <3>1, <3>2, <3>3 DEF IsCommitPoint, WholeUpTo
    <3>5. \A i \in points : (\A j \in points : j <= i) => i = n
      BY <1>1, <1>2, <1>3, <3>4
    <3>6. (CHOOSE i \in points : \A j \in points : j <= i) = n
      BY <1>3, <3>4, <3>5
    <3> QED BY <3>4, <3>6 DEF LastGood
  <2> QED BY <2>1, <2>2
<1>5. SubSeq(whole, 1, n) = file
  BY <1>1, SubSeqOfConcat1
<1> QED BY <1>4, <1>5 DEF Recovered

-----------------------------------------------------------------------------
(* The invariant. *)

\* The invariant that is inductive: the types, the repaired tail, and reads
\* that see the committed map under the buffered writes.
IInv == TypeOK /\ TailIsRepaired /\ ReadsSeeOwnWrites

\* A crash step, given the invariant: the durable log stays as it is.
LEMMA CrashKeepsLog ==
  ASSUME IInv, Crash
  PROVE  synced' = synced /\ buffered' = <<>> /\ mem' = Durable
<1>1. CleanLog(synced) /\ buffered \in Seq(WriteRecords)
  BY DEF IInv, TypeOK, TailIsRepaired, CleanLog
<1> QED BY <1>1, RecoveryIsExact DEF Crash, Durable

\* A write through the log: what is durable and buffered then replays to the
\* map with that one key changed.
LEMMA BufferedWrite ==
  ASSUME IInv, NEW r \in WriteRecords
  PROVE  ApplyWrites(Durable, Append(buffered, r)) = [mem EXCEPT ![r.key] = r.val]
<1> DEFINE one == <<r>>
<1>1. buffered \in Seq(WriteRecords) /\ one \in Seq(WriteRecords)
  BY DEF IInv, TypeOK
<1>2. Append(buffered, r) = buffered \o one
  BY <1>1, AppendIsConcat
<1>3. ApplyWrites(Durable, buffered \o one) = ApplyWrites(mem, one)
  <2> HIDE DEF one
  <2> QED BY <1>1, ApplyConcat DEF IInv, ReadsSeeOwnWrites
<1>4. ApplyWrites(mem, one) = [mem EXCEPT ![r.key] = r.val]
  <2>1. mem = [k \in Keys |-> mem[k]]
    BY DEF IInv, TypeOK, Maps
  <2>2. r.key \in Keys
    BY DEF WriteRecords, PutRecord, DeleteRecord
  <2>3. ASSUME NEW k \in Keys
        PROVE  ApplyWrites(mem, one)[k] = [mem EXCEPT ![r.key] = r.val][k]
    <3>1. CASE k = r.key
      <4>1. IsLastWrite(one, k, 1) /\ 1 \in DOMAIN one
        BY <3>1 DEF IsLastWrite, WritesOf
      <4>2. ApplyWrites(mem, one)[k] = one[1].val
        <5> HIDE DEF one
        <5> QED BY <1>1, <4>1, LastWriteWins
      <4> QED BY <2>1, <3>1, <4>2
    <3>2. CASE k # r.key
      <4>1. WritesOf(one, k) = {}
        BY <3>2 DEF WritesOf
      <4>2. ApplyWrites(mem, one)[k] = mem[k]
        <5> HIDE DEF one
        <5> QED BY <4>1, UnwrittenKept
      <4> QED BY <2>1, <3>2, <4>2
    <3> QED BY <3>1, <3>2
  <2> QED BY <2>1, <2>3 DEF ApplyWrites
<1> QED BY <1>2, <1>3, <1>4

\* The durable log after a commit replays to what the buffer made of it.
LEMMA CommitDrains ==
  ASSUME IInv, Commit
  PROVE  Durable' = ApplyWrites(Durable, buffered)
<1> DEFINE S == WriteRecords \cup {Marker}
           one == <<Marker>>
<1>1. /\ synced \in Seq(S) /\ buffered \in Seq(S) /\ one \in Seq(S)
      /\ synced' = synced \o Append(buffered, Marker)
  BY SeqMonotonic DEF IInv, TypeOK, Commit
<1>2. Append(buffered, Marker) = buffered \o one /\ buffered \o one \in Seq(S)
  BY <1>1, AppendIsConcat, ConcatProperties
<1>3. Durable' = ApplyWrites(Durable, buffered \o one)
  <2>1. synced' = synced \o (buffered \o one)
    BY <1>1, <1>2
  <2>2. \A t \in Seq(S) : ApplyWrites(EmptyMap, synced \o t) = ApplyWrites(Durable, t)
    <3> SUFFICES ASSUME NEW t \in Seq(S)
                 PROVE  ApplyWrites(EmptyMap, synced \o t)
                          = ApplyWrites(ApplyWrites(EmptyMap, synced), t)
      BY DEF Durable
    <3> HIDE DEF S
    <3> QED BY <1>1, ApplyConcat
  <2>3. Durable' = ApplyWrites(EmptyMap, synced')
    BY DEF Durable, EmptyMap
  <2> HIDE DEF S, one
  <2> QED BY <1>2, <2>1, <2>2, <2>3
<1>4. ApplyWrites(Durable, buffered \o one)
        = ApplyWrites(ApplyWrites(Durable, buffered), one)
  <2> HIDE DEF S, one
  <2> QED BY <1>1, ApplyConcat
<1>5. \A k \in Keys : WritesOf(one, k) = {}
  BY NoKeyIsNoKey DEF WritesOf, Marker
<1>6. ApplyWrites(ApplyWrites(Durable, buffered), one)
        = ApplyWrites(Durable, buffered)
  <2> DEFINE m == ApplyWrites(Durable, buffered)
  <2>1. \A k \in Keys : ApplyWrites(m, one)[k] = m[k]
    <3> HIDE DEF one
    <3> QED BY <1>5, UnwrittenKept
  <2> QED BY <2>1 DEF ApplyWrites
<1> QED BY <1>3, <1>4, <1>6

-----------------------------------------------------------------------------
(* The theorems. *)

LEMMA InitIInv == Init => IInv
<1> SUFFICES ASSUME Init PROVE IInv
  OBVIOUS
<1>1. synced = <<>> /\ buffered = <<>> /\ mem = EmptyMap /\ EmptyMap \in Maps
  BY DEF Init, EmptyMap, Maps
<1>2. ApplyWrites(ApplyWrites(EmptyMap, <<>>), <<>>) = EmptyMap
  BY <1>1, ApplyEmpty
<1> QED BY <1>1, <1>2 DEF IInv, TypeOK, TailIsRepaired, ReadsSeeOwnWrites, Durable

\* Put and Delete: a record is buffered and mem changed in the same way.
LEMMA WriteKeepsIInv ==
  ASSUME IInv, NEW r \in WriteRecords, buffered' = Append(buffered, r),
         mem' = [mem EXCEPT ![r.key] = r.val], synced' = synced
  PROVE  IInv'
<1>1. TypeOK'
  <2>1. buffered' \in Seq(WriteRecords)
    BY AppendProperties DEF IInv, TypeOK
  <2>2. r.key \in Keys /\ r.val \in Vals \cup {Absent}
    BY DEF WriteRecords, PutRecord, DeleteRecord
  <2>3. mem' \in Maps
    BY <2>2 DEF IInv, TypeOK, Maps
  <2> QED BY <2>1, <2>3 DEF IInv, TypeOK
<1>2. TailIsRepaired'
  BY DEF IInv, TailIsRepaired
<1>3. ReadsSeeOwnWrites'
  <2>1. Durable' = Durable
    BY DEF Durable
  <2> QED BY <2>1, BufferedWrite DEF ReadsSeeOwnWrites
<1> QED BY <1>1, <1>2, <1>3 DEF IInv

LEMMA StepIInv == IInv /\ [Next]_vars => IInv'
<1> SUFFICES ASSUME IInv, [Next]_vars PROVE IInv'
  OBVIOUS
<1>1. ASSUME NEW k \in Keys, NEW v \in Vals, Put(k, v) PROVE IInv'
  <2>1. /\ PutRecord(k, v) \in WriteRecords
        /\ PutRecord(k, v).key = k /\ PutRecord(k, v).val = v
    BY DEF WriteRecords, PutRecord
  <2> QED BY <1>1, <2>1, WriteKeepsIInv DEF Put
<1>2. ASSUME NEW k \in Keys, Delete(k) PROVE IInv'
  <2>1. /\ DeleteRecord(k) \in WriteRecords
        /\ DeleteRecord(k).key = k /\ DeleteRecord(k).val = Absent
    BY DEF WriteRecords, DeleteRecord
  <2> QED BY <1>2, <2>1, WriteKeepsIInv DEF Delete
<1>3. CASE Commit
  <2> DEFINE S == WriteRecords \cup {Marker}
             batch == Append(buffered, Marker)
  <2>1. /\ synced \in Seq(S) /\ batch \in Seq(S)
        /\ Len(batch) \in Nat \ {0} /\ batch[Len(batch)] = Marker
    BY SeqMonotonic, AppendProperties DEF IInv, TypeOK
  <2>2. synced' = synced \o batch /\ buffered' = <<>> /\ mem' = mem
    BY <1>3 DEF Commit
  <2>3. /\ synced' \in Seq(S) /\ synced' # <<>>
        /\ synced'[Len(synced')] = Marker
    <3> HIDE DEF S, batch
    <3> QED BY <2>1, <2>2, ConcatProperties, LenProperties
  <2>4. ReadsSeeOwnWrites'
    <3>1. mem = Durable'
      BY <1>3, CommitDrains DEF IInv, ReadsSeeOwnWrites
    <3>2. Durable' \in Maps
      BY <3>1 DEF IInv, TypeOK
    <3> QED BY <2>2, <3>1, <3>2, ApplyEmpty DEF ReadsSeeOwnWrites
  <2> QED BY <2>2, <2>3, <2>4 DEF IInv, TypeOK, TailIsRepaired
<1>4. CASE Crash
  <2>1. synced' = synced /\ buffered' = <<>> /\ mem' = Durable /\ Durable' = Durable
    BY <1>4, CrashKeepsLog DEF Durable
  <2>2. Durable \in Maps
    <3>1. EmptyMap \in Maps
      BY DEF EmptyMap, Maps
    <3>2. \A i \in DOMAIN synced : synced[i].val \in Vals \cup {Absent}
      <4>1. \A r \in WriteRecords \cup {Marker} : r.val \in Vals \cup {Absent}
        BY DEF WriteRecords, Marker, PutRecord, DeleteRecord
      <4>2. synced \in Seq(WriteRecords \cup {Marker})
        BY DEF IInv, TypeOK
      <4> QED BY <4>1, <4>2, ElementOfSeq, LenProperties
    <3> QED BY <3>1, <3>2, ApplyType DEF Durable, IInv, TypeOK
  <2>3. ApplyWrites(Durable, <<>>) = Durable
    BY <2>2, ApplyEmpty
  <2> QED BY <2>1, <2>2, <2>3 DEF IInv, TypeOK, TailIsRepaired, ReadsSeeOwnWrites
<1>5. CASE UNCHANGED vars
  BY <1>5 DEF vars, IInv, TypeOK, TailIsRepaired, ReadsSeeOwnWrites, Durable
<1> QED BY <1>1, <1>2, <1>3, <1>4, <1>5 DEF Next

\* The invariant holds for every instance.
THEOREM Invariance == Spec => []IInv
BY InitIInv, StepIInv, PTL DEF Spec

\* The variables keep their types: no torn record and no half batch stays in
\* the durable log.
THEOREM TypeCorrect == Spec => []TypeOK
<1>1. IInv => TypeOK
  BY DEF IInv
<1> QED BY <1>1, Invariance, PTL

\* Reads always see what was committed and the writes buffered over it.
THEOREM ReadsCorrect == Spec => []ReadsSeeOwnWrites
<1>1. IInv => ReadsSeeOwnWrites
  BY DEF IInv
<1> QED BY <1>1, Invariance, PTL

\* No uncommitted or torn tail outlives recovery.
THEOREM TailRepaired == Spec => []TailIsRepaired
<1>1. IInv => TailIsRepaired
  BY DEF IInv
<1> QED BY <1>1, Invariance, PTL

\* No step, a crash and its truncation included, takes a committed record
\* away.
THEOREM CommittedLogGrows == Spec => CommittedLogOnlyGrows
<1> DEFINE Grows == /\ Len(synced') >= Len(synced)
                    /\ SubSeq(synced', 1, Len(synced)) = synced
<1>1. ASSUME IInv, [Next]_vars PROVE [Grows]_vars
  <2>1. synced \in Seq(WriteRecords \cup {Marker}) /\ Len(synced) \in Nat
    BY <1>1 DEF IInv, TypeOK
  <2>2. ASSUME synced' = synced PROVE Grows
    BY <2>1, <2>2, SubSeqFull
  <2>3. CASE Commit
    <3> DEFINE S == WriteRecords \cup {Marker}
               batch == Append(buffered, Marker)
    <3>1. batch \in Seq(S) /\ synced' = synced \o batch
      BY <1>1, <2>3, SeqMonotonic, AppendProperties DEF IInv, TypeOK, Commit
    <3> HIDE DEF S, batch
    <3> QED BY <2>1, <3>1, ConcatProperties, SubSeqOfConcat1 DEF S
  <2>4. CASE Crash
    BY <1>1, <2>2, <2>4, CrashKeepsLog
  <2>5. CASE \E k \in Keys : Delete(k) \/ \E v \in Vals : Put(k, v)
    BY <2>2, <2>5 DEF Put, Delete
  <2> QED BY <1>1, <2>3, <2>4, <2>5 DEF Next
<1> QED BY <1>1, Invariance, PTL DEF Spec, CommittedLogOnlyGrows

-----------------------------------------------------------------------------
(* The store implements the oracle. *)

\* The oracle's pending writes: the buffered records without their type.
Pending == [i \in DOMAIN buffered |->
              [key |-> buffered[i].key, val |-> buffered[i].val]]

PendingWrites == [key : Keys, val : Vals \cup {Absent}]

\* The pending writes are a sequence as long as the buffer.
LEMMA PendingIsSeq ==
  ASSUME IInv
  PROVE  /\ Pending = [i \in 1..Len(buffered) |->
                         [key |-> buffered[i].key, val |-> buffered[i].val]]
         /\ Pending \in Seq(PendingWrites)
         /\ Len(Pending) = Len(buffered)
<1> DEFINE n == Len(buffered)
<1>1. buffered \in Seq(WriteRecords) /\ n \in Nat /\ DOMAIN buffered = 1..n
  BY LenProperties DEF IInv, TypeOK
<1>2. \A q \in WriteRecords : [key |-> q.key, val |-> q.val] \in PendingWrites
  BY DEF WriteRecords, PutRecord, DeleteRecord, PendingWrites
<1>3. \A i \in 1..n : buffered[i] \in WriteRecords
  BY <1>1, ElementOfSeq
<1>4. Pending = [i \in 1..n |-> [key |-> buffered[i].key, val |-> buffered[i].val]]
  BY <1>1 DEF Pending
<1>5. \A i \in 1..n : Pending[i] \in PendingWrites
  BY <1>2, <1>3, <1>4
<1>6. Pending \in Seq(PendingWrites)
  BY <1>1, <1>4, <1>5, IsASeq
<1> QED BY <1>1, <1>4, <1>6, LenProperties

\* Buffering one more record is one more pending write.
LEMMA PendingAppend ==
  ASSUME IInv, NEW r \in WriteRecords, buffered' = Append(buffered, r)
  PROVE  Pending' = Append(Pending, [key |-> r.key, val |-> r.val])
<1> DEFINE n == Len(buffered)
<1>1. buffered \in Seq(WriteRecords) /\ n \in Nat /\ DOMAIN buffered = 1..n
  BY LenProperties DEF IInv, TypeOK
<1>2. /\ DOMAIN buffered' = 1..(n + 1) /\ buffered'[n + 1] = r
      /\ \A i \in 1..n : buffered'[i] = buffered[i]
  BY <1>1, AppendProperties, LenProperties
<1>3. /\ Pending = [i \in 1..n |-> [key |-> buffered[i].key, val |-> buffered[i].val]]
      /\ Len(Pending) = n /\ Pending \in Seq(PendingWrites)
  BY PendingIsSeq
<1> DEFINE x == [key |-> r.key, val |-> r.val]
           one == Append(Pending, x)
<1>4. /\ DOMAIN one = 1..(n + 1) /\ one[n + 1] = x
      /\ \A i \in 1..n : one[i] = Pending[i]
      /\ one = [i \in 1..(n + 1) |-> one[i]]
  <2>1. x \in PendingWrites
    BY DEF WriteRecords, PutRecord, DeleteRecord, PendingWrites
  <2> HIDE DEF x
  <2>2. one \in Seq(PendingWrites) /\ Len(one) = n + 1
    BY <1>1, <1>3, <2>1, AppendProperties
  <2> QED BY <1>1, <1>3, <2>1, <2>2, AppendProperties, LenProperties
<1>5. Pending' = [i \in 1..(n + 1) |->
                    [key |-> buffered'[i].key, val |-> buffered'[i].val]]
  BY <1>2 DEF Pending
<1>6. \A i \in 1..(n + 1) :
        [key |-> buffered'[i].key, val |-> buffered'[i].val] = one[i]
  <2> SUFFICES ASSUME NEW i \in 1..(n + 1)
               PROVE  [key |-> buffered'[i].key, val |-> buffered'[i].val] = one[i]
    OBVIOUS
  <2>1. CASE i = n + 1
    <3>1. buffered'[i] = r /\ one[i] = x
      BY <1>2, <1>4, <2>1
    <3> HIDE DEF one
    <3> QED BY <3>1
  <2>2. CASE i \in 1..n
    BY <1>2, <1>3, <1>4, <2>2
  <2>3. i = n + 1 \/ i \in 1..n
    BY <1>1
  <2> HIDE DEF one, x, n
  <2> QED BY <2>1, <2>2, <2>3
<1> QED BY <1>4, <1>5, <1>6

\* Draining the pending writes is applying the buffered records.
LEMMA PendingDrains ==
  ASSUME IInv, NEW m
  PROVE  ApplyWrites(m, Pending) = ApplyWrites(m, buffered)
<1>1. DOMAIN Pending = DOMAIN buffered
  BY DEF Pending
<1>2. \A i \in DOMAIN buffered :
        Pending[i].key = buffered[i].key /\ Pending[i].val = buffered[i].val
  BY DEF Pending
<1>3. \A k : WritesOf(Pending, k) = WritesOf(buffered, k)
  BY <1>1, <1>2 DEF WritesOf
<1>4. \A k, i : IsLastWrite(Pending, k, i) <=> IsLastWrite(buffered, k, i)
  BY <1>3 DEF IsLastWrite
<1>5. ASSUME NEW k \in Keys
      PROVE  ApplyWrites(m, Pending)[k] = ApplyWrites(m, buffered)[k]
  <2>1. CASE WritesOf(buffered, k) = {}
    BY <1>3, <2>1, UnwrittenKept
  <2>2. CASE WritesOf(buffered, k) # {}
    <3>1. buffered \in Seq(WriteRecords) /\ Pending \in Seq(PendingWrites)
      BY PendingIsSeq DEF IInv, TypeOK
    <3>2. PICK i \in DOMAIN buffered : IsLastWrite(buffered, k, i)
      BY <2>2, <3>1, LastWriteExists
    <3>3. ApplyWrites(m, buffered)[k] = buffered[i].val
      BY <3>1, <3>2, LastWriteWins
    <3>4. ApplyWrites(m, Pending)[k] = Pending[i].val
      BY <1>1, <1>4, <3>1, <3>2, LastWriteWins
    <3> QED BY <1>2, <3>2, <3>3, <3>4
  <2> QED BY <2>1, <2>2
<1> QED BY <1>5 DEF ApplyWrites

\* The store implements the oracle: recovery after any crash rebuilds exactly
\* what the oracle expects, and every other operation is the oracle's.
THEOREM Refinement == Spec => ImplementsOracle
<1> USE DEF Pending
<1>1. Init => Oracle!Init
  <2>1. ASSUME Init PROVE Durable = EmptyMap /\ Pending = <<>>
    <3>1. EmptyMap \in Maps
      BY DEF EmptyMap, Maps
    <3> QED BY <2>1, <3>1, ApplyEmpty DEF Init, Durable
  <2> QED BY <2>1 DEF Oracle!Init, Oracle!EmptyMap, EmptyMap
<1>2. IInv /\ [Next]_vars => [Oracle!Next]_(Oracle!modelVars)
  <2> SUFFICES ASSUME IInv, [Next]_vars
               PROVE  Oracle!Next \/ UNCHANGED Oracle!modelVars
    OBVIOUS
  <2>1. ASSUME NEW k \in Keys, NEW v \in Vals, Put(k, v)
        PROVE  Oracle!Write(k, v)
    <3>1. /\ PutRecord(k, v) \in WriteRecords
          /\ PutRecord(k, v).key = k /\ PutRecord(k, v).val = v
      BY DEF WriteRecords, PutRecord
    <3>2. Pending' = Append(Pending, [key |-> k, val |-> v]) /\ Durable' = Durable
      BY <2>1, <3>1, PendingAppend DEF Put, Durable
    <3> QED BY <3>2 DEF Oracle!Write
  <2>2. ASSUME NEW k \in Keys, Delete(k) PROVE Oracle!Write(k, Absent)
    <3>1. /\ DeleteRecord(k) \in WriteRecords
          /\ DeleteRecord(k).key = k /\ DeleteRecord(k).val = Absent
      BY DEF WriteRecords, DeleteRecord
    <3>2. Pending' = Append(Pending, [key |-> k, val |-> Absent]) /\ Durable' = Durable
      BY <2>2, <3>1, PendingAppend DEF Delete, Durable
    <3> QED BY <3>2 DEF Oracle!Write
  <2>3. ASSUME buffered' = <<>> PROVE Pending' = <<>>
    BY <2>3
  <2>4. CASE Commit
    <3>1. Durable' = ApplyWrites(Durable, Pending) /\ Pending' = <<>>
      BY <2>3, <2>4, CommitDrains, PendingDrains DEF Commit
    <3> QED BY <3>1 DEF Oracle!Next, Oracle!Commit, Oracle!ApplyWrites, ApplyWrites,
                        Oracle!WritesOf, WritesOf, Oracle!IsLastWrite, IsLastWrite
  <2>5. CASE Crash
    <3>1. Durable' = Durable /\ Pending' = <<>>
      BY <2>3, <2>5, CrashKeepsLog DEF Durable
    <3> QED BY <3>1 DEF Oracle!Next, Oracle!Crash
  <2>6. CASE UNCHANGED vars
    BY <2>6 DEF vars, Oracle!modelVars, Durable
  <2> QED BY <2>1, <2>2, <2>4, <2>5, <2>6 DEF Next, Oracle!Next
<1> QED BY <1>1, <1>2, Invariance, PTL DEF Spec, ImplementsOracle, Oracle!Spec

-----------------------------------------------------------------------------
(* recover()'s loop *)

\* Counting up from 0.
LEMMA CountUp ==
  ASSUME NEW N \in Nat, NEW S, 0 \in S, \A k \in 1..N : k - 1 \in S => k \in S
  PROVE  0..N \subseteq S
<1> DEFINE bad == {k \in 0..N : k \notin S}
<1>1. bad = {}
  <2> SUFFICES ASSUME bad # {} PROVE FALSE
    OBVIOUS
  <2>1. PICK k \in bad : \A j \in bad : k <= j
    <3>1. bad \subseteq Nat
      OBVIOUS
    <3> HIDE DEF bad
    <3> QED BY <3>1, MinExists
  <2>2. k # 0 /\ k \in 0..N /\ k \notin S
    OBVIOUS
  <2>3. k \in 1..N /\ k - 1 \in 0..N /\ ~ (k <= k - 1)
    BY <2>2
  <2>4. k - 1 \in S
    BY <2>1, <2>3
  <2> QED BY <2>2, <2>3, <2>4
<1> QED BY <1>1

\* The recursion behind a fold over N positions, which takes the greatest
\* position last, has a solution.
SolvesFold(g, N, base, step) ==
  \A s \in SUBSET (1..N) :
    g[s] = IF s = {} THEN base ELSE step[<<g[s \ {Max(s)}], Max(s)>>]

LEMMA FoldExists ==
  ASSUME NEW N \in Nat, NEW A, NEW base \in A, NEW step \in [A \X (1..N) -> A]
  PROVE  \E g \in [SUBSET (1..N) -> A] : SolvesFold(g, N, base, step)
<1> DEFINE S == {n \in 0..N : \E g \in [SUBSET (1..n) -> A] : SolvesFold(g, n, base, step)}
<1>1. 0 \in S
  <2>1. SUBSET (1..0) = {{}}
    OBVIOUS
  <2>2. [s \in SUBSET (1..0) |-> base] \in [SUBSET (1..0) -> A]
    OBVIOUS
  <2>3. SolvesFold([s \in SUBSET (1..0) |-> base], 0, base, step)
    BY <2>1 DEF SolvesFold
  <2> QED BY <2>2, <2>3
<1>2. ASSUME NEW n \in 1..N, n - 1 \in S PROVE n \in S
  <2>1. PICK g \in [SUBSET (1..(n - 1)) -> A] : SolvesFold(g, n - 1, base, step)
    BY <1>2
  <2> DEFINE h == [s \in SUBSET (1..n) |-> IF n \in s THEN step[<<g[s \ {n}], n>>] ELSE g[s]]
  <2>2. \A s \in SUBSET (1..n) :
           /\ s \ {n} \in SUBSET (1..(n - 1))
           /\ n \notin s => s \in SUBSET (1..(n - 1))
    <3>1. 1..n = (1..(n - 1)) \cup {n}
      OBVIOUS
    <3> QED BY <3>1
  <2>3. h \in [SUBSET (1..n) -> A]
    BY <2>2
  <2>4. ASSUME NEW s \in SUBSET (1..n)
        PROVE  h[s] = IF s = {} THEN base ELSE step[<<h[s \ {Max(s)}], Max(s)>>]
    <3>1. CASE n \in s
      <4>1. Max(s) = n
        <5>1. \A x \in s : x \in Int /\ n >= x
          OBVIOUS
        <5>2. \A x \in s : (\A y \in s : x >= y) => x = n
          BY <3>1, <5>1
        <5> QED BY <3>1, <5>1, <5>2 DEF Max
      <4>2. h[s \ {n}] = g[s \ {n}]
        BY <2>2
      <4> QED BY <3>1, <4>1, <4>2
    <3>2. CASE n \notin s
      <4>1. h[s] = g[s] /\ h[s \ {Max(s)}] = g[s \ {Max(s)}]
        BY <3>2
      <4>2. g[s] = IF s = {} THEN base ELSE step[<<g[s \ {Max(s)}], Max(s)>>]
        BY <2>1, <2>2, <3>2 DEF SolvesFold
      <4> QED BY <4>1, <4>2
    <3> QED BY <3>1, <3>2
  <2> HIDE DEF h
  <2>5. SolvesFold(h, n, base, step)
    BY <2>4 DEF SolvesFold
  <2> QED BY <2>3, <2>5
<1>3. 0..N \subseteq S
  <2> HIDE DEF S
  <2> QED BY <1>1, <1>2, CountUp
<1>4. N \in 0..N
  OBVIOUS
<1>5. N \in S
  <2> HIDE DEF S
  <2> QED BY <1>3, <1>4
<1> QED BY <1>5

\* The sets 1..k are those a fold goes through.
LEMMA InitialSegments ==
  ASSUME NEW N \in Nat, NEW k \in 1..N
  PROVE  /\ 1..k \in SUBSET (1..N) /\ 1..k # {}
         /\ Max(1..k) = k /\ (1..k) \ {k} = 1..(k - 1)
<1>1. k \in 1..k /\ \A x \in 1..k : k >= x
  OBVIOUS
<1>2. \A x \in 1..k : (\A y \in 1..k : x >= y) => x = k
  BY <1>1
<1>3. Max(1..k) = k
  BY <1>1, <1>2 DEF Max
<1>4. 1..k \in SUBSET (1..N) /\ 1..k # {}
  BY <1>1
<1>5. (1..k) \ {k} = 1..(k - 1)
  <2>1. \A x : x \in (1..k) \ {k} <=> x \in 1..(k - 1)
    OBVIOUS
  <2> QED BY <2>1
<1> QED BY <1>3, <1>4, <1>5

\* A nonempty set of positions has a greatest one.
LEMMA SubsetHasMax ==
  ASSUME NEW N \in Nat, NEW s \in SUBSET (1..N), s # {}
  PROVE  Max(s) \in s
<1> DEFINE T == {N - i : i \in s}
<1>1. T \subseteq Nat /\ T # {}
  <2>1. ASSUME NEW i \in 1..N PROVE N - i \in Nat
    OBVIOUS
  <2> QED BY <2>1
<1>2. PICK x \in T : \A y \in T : x <= y
  <2> HIDE DEF T
  <2> QED BY <1>1, MinExists
<1>3. PICK i \in s : x = N - i
  OBVIOUS
<1>4. ASSUME NEW j \in s PROVE i >= j
  <2>1. N - i <= N - j
    BY <1>2, <1>3
  <2>2. i \in 1..N /\ j \in 1..N
    OBVIOUS
  <2> HIDE DEF T
  <2> QED BY <2>1, <2>2
<1> QED BY <1>4 DEF Max

\* Replaying one record writes it.
LEMMA ReplayWrites ==
  ASSUME NEW r \in WriteRecords, NEW m \in Maps
  PROVE  /\ ReplayRecord(m, r) = ApplyWrites(m, <<r>>)
         /\ ReplayRecord(m, r) \in Maps
<1>1. r.val \in Vals \cup {Absent} /\ r.key \in Keys /\ (r.type # "put" => r.val = Absent)
  BY DEF WriteRecords, PutRecord, DeleteRecord
<1>2. ReplayRecord(m, r) = [m EXCEPT ![r.key] = r.val]
  BY <1>1 DEF ReplayRecord
<1>3. ReplayRecord(m, r) \in Maps
  BY <1>1, <1>2 DEF Maps
<1>4. ASSUME NEW k \in Keys PROVE ApplyWrites(m, <<r>>)[k] = ReplayRecord(m, r)[k]
  <2> DEFINE w == <<r>>
  <2>1. w \in Seq({r}) /\ DOMAIN w = {1} /\ w[1] = r
    OBVIOUS
  <2>2. CASE r.key = k
    <3>1. IsLastWrite(w, k, 1)
      BY <2>1, <2>2 DEF IsLastWrite, WritesOf
    <3>2. ApplyWrites(m, w)[k] = r.val
      <4> HIDE DEF w
      <4> QED BY <2>1, <3>1, LastWriteWins
    <3> QED BY <1>1, <1>2, <2>2, <3>2 DEF Maps
  <2>3. CASE r.key # k
    <3>1. WritesOf(w, k) = {}
      BY <2>1, <2>3 DEF WritesOf
    <3> QED BY <1>2, <2>3, <3>1, UnwrittenKept DEF Maps
  <2> QED BY <2>2, <2>3
<1>5. ApplyWrites(m, <<r>>) = [k \in Keys |-> ApplyWrites(m, <<r>>)[k]]
  BY DEF ApplyWrites
<1> QED BY <1>3, <1>4, <1>5 DEF Maps

\* The loop that commits a batch applies its writes.
LEMMA BatchIsApplied ==
  ASSUME NEW batch \in Seq(WriteRecords), NEW m \in Maps
  PROVE  /\ FoldLeft(ReplayRecord, m, batch) = ApplyWrites(m, batch)
         /\ ApplyWrites(m, batch) \in Maps
<1> DEFINE N == Len(batch)
           step == [p \in Maps \X (1..N) |-> ReplayRecord(p[1], batch[p[2]])]
           Runs(g) == g = [s \in SUBSET (1..N) |->
                             IF s = {} THEN m
                             ELSE ReplayRecord(g[s \ {Max(s)}], batch[Max(s)])]
           run == CHOOSE g : Runs(g)
           S == {k \in 0..N : run[1..k] \in Maps /\ run[1..k] = ApplyWrites(m, SubSeq(batch, 1, k))}
<1>1. N \in Nat /\ DOMAIN batch = 1..N /\ \A i \in 1..N : batch[i] \in WriteRecords
  BY LenProperties, ElementOfSeq
<1>2. FoldLeft(ReplayRecord, m, batch) = run[1..N]
  BY <1>1 DEF FoldLeft, MapThenFoldSet
<1>3. Runs(run)
  <2>1. step \in [Maps \X (1..N) -> Maps]
    BY <1>1, ReplayWrites
  <2>2. PICK g \in [SUBSET (1..N) -> Maps] : SolvesFold(g, N, m, step)
    <3> HIDE DEF step
    <3> QED BY <1>1, <2>1, FoldExists
  <2>3. ASSUME NEW s \in SUBSET (1..N), s # {}
        PROVE  g[s] = ReplayRecord(g[s \ {Max(s)}], batch[Max(s)])
    <3>1. g[s \ {Max(s)}] \in Maps
      OBVIOUS
    <3>2. Max(s) \in 1..N
      BY <1>1, <2>3, SubsetHasMax
    <3>3. g[s] = step[<<g[s \ {Max(s)}], Max(s)>>]
      <4> HIDE DEF step
      <4> QED BY <2>2, <2>3 DEF SolvesFold
    <3> QED BY <3>1, <3>2, <3>3
  <2>4. g[{}] = m
    BY <2>2 DEF SolvesFold
  <2>5. Runs(g)
    BY <2>3, <2>4
  <2> HIDE DEF Runs
  <2> QED BY <2>5
<1>4. run[{}] = m
  BY <1>3
<1>5. ASSUME NEW k \in 1..N
      PROVE  run[1..k] = ReplayRecord(run[1..(k - 1)], batch[k])
  <2>1. 1..k \in SUBSET (1..N) /\ 1..k # {} /\ Max(1..k) = k /\ (1..k) \ {k} = 1..(k - 1)
    <3> HIDE DEF N
    <3> QED BY <1>1, InitialSegments
  <2>2. \A s \in SUBSET (1..N) :
           s # {} => run[s] = ReplayRecord(run[s \ {Max(s)}], batch[Max(s)])
    <3> HIDE DEF run, N
    <3> QED BY <1>3
  <2> HIDE DEF run, N
  <2> QED BY <2>1, <2>2
<1> HIDE DEF run
<1>6. 0 \in S
  <2>1. SubSeq(batch, 1, 0) = <<>> /\ 1..0 = {}
    BY SubSeqEmpty
  <2>2. run[1..0] = m /\ SubSeq(batch, 1, 0) = <<>>
    BY <1>4, <2>1
  <2>3. run[1..0] \in Maps /\ run[1..0] = ApplyWrites(m, SubSeq(batch, 1, 0))
    BY <2>2, ApplyEmpty
  <2> HIDE DEF N
  <2> QED BY <1>1, <2>3
<1>7. ASSUME NEW k \in 1..N, k - 1 \in S PROVE k \in S
  <2> DEFINE before == SubSeq(batch, 1, k - 1)
  <2>1. run[1..(k - 1)] \in Maps /\ run[1..(k - 1)] = ApplyWrites(m, before) /\ k \in 0..N
    BY <1>7
  <2>2. run[1..k] = ApplyWrites(run[1..(k - 1)], <<batch[k]>>) /\ run[1..k] \in Maps
    BY <1>1, <1>5, <2>1, ReplayWrites
  <2>3. SubSeq(batch, 1, k) = before \o <<batch[k]>>
    BY <1>1, SubSeqRecursiveSecond
  <2>4. before \in Seq(WriteRecords) /\ <<batch[k]>> \in Seq(WriteRecords)
    <3>1. \A i \in 1..(k - 1) : batch[i] \in WriteRecords
      BY <1>1
    <3> QED BY <1>1, <3>1, SubSeqProperties
  <2> HIDE DEF before
  <2>5. ApplyWrites(m, SubSeq(batch, 1, k)) = ApplyWrites(ApplyWrites(m, before), <<batch[k]>>)
    BY <2>3, <2>4, ApplyConcat
  <2> QED BY <2>1, <2>2, <2>5
<1>8. N \in S
  <2>1. 0..N \subseteq S
    <3> HIDE DEF S, N
    <3> QED BY <1>1, <1>6, <1>7, CountUp
  <2> QED BY <1>1, <2>1
<1>9. SubSeq(batch, 1, N) = batch
  BY SubSeqFull
<1> QED BY <1>2, <1>8, <1>9

\* What a log file may hold, and the states of the loop that reads it.
FileRecords == WriteRecords \cup {Marker, Torn}

LoopStates ==
  [mem : Maps, batch : Seq(WriteRecords), read : Nat, last_good : Nat, broken : BOOLEAN]

LoopStart ==
  [mem |-> EmptyMap, batch |-> <<>>, read |-> 0, last_good |-> 0, broken |-> FALSE]

\* The loop starts with nothing read.
LEMMA LoopStarts == LoopStart \in LoopStates
<1>1. EmptyMap \in Maps
  BY DEF EmptyMap, Maps
<1> QED BY <1>1 DEF LoopStart, LoopStates

\* One turn of the loop, by the record it reads.
LEMMA TurnOfLoop ==
  ASSUME NEW st \in LoopStates, NEW r \in FileRecords
  PROVE  /\ ReplayStep(st, r) \in LoopStates
         /\ st.broken \/ r = Torn => ReplayStep(st, r) = [st EXCEPT !.broken = TRUE]
         /\ ~ st.broken /\ r = Marker =>
              ReplayStep(st, r) = [mem |-> ApplyWrites(st.mem, st.batch), batch |-> <<>>,
                                   read |-> st.read + 1, last_good |-> st.read + 1,
                                   broken |-> FALSE]
         /\ ~ st.broken /\ r \in WriteRecords =>
              ReplayStep(st, r) = [st EXCEPT !.batch = Append(@, r), !.read = @ + 1]
<1>1. /\ st.mem \in Maps /\ st.batch \in Seq(WriteRecords) /\ st.read \in Nat
      /\ st.last_good \in Nat /\ st.broken \in BOOLEAN
      /\ st = [mem |-> st.mem, batch |-> st.batch, read |-> st.read,
               last_good |-> st.last_good, broken |-> st.broken]
  BY DEF LoopStates
<1>2. CASE st.broken \/ r = Torn
  <2>1. ReplayStep(st, r) = [st EXCEPT !.broken = TRUE]
    BY <1>2 DEF ReplayStep
  <2>2. r = Torn => r # Marker /\ r \notin WriteRecords
    BY RecordsDiffer
  <2>3. [st EXCEPT !.broken = TRUE] \in LoopStates
    BY DEF LoopStates
  <2> QED BY <1>2, <2>1, <2>2, <2>3
<1>3. CASE ~ st.broken /\ r = Marker
  <2>1. r # Torn /\ r \notin WriteRecords
    BY <1>3, RecordsDiffer
  <2>2. /\ FoldLeft(ReplayRecord, st.mem, st.batch) = ApplyWrites(st.mem, st.batch)
        /\ ApplyWrites(st.mem, st.batch) \in Maps
    BY <1>1, BatchIsApplied
  <2>3. ReplayStep(st, r) = [st EXCEPT !.mem = FoldLeft(ReplayRecord, @, st.batch),
                                       !.batch = <<>>, !.read = @ + 1,
                                       !.last_good = st.read + 1]
    BY <1>3, <2>1 DEF ReplayStep
  <2>4. ReplayStep(st, r) = [mem |-> ApplyWrites(st.mem, st.batch), batch |-> <<>>,
                             read |-> st.read + 1, last_good |-> st.read + 1,
                             broken |-> FALSE]
    BY <1>1, <1>3, <2>2, <2>3
  <2>5. ReplayStep(st, r) \in LoopStates
    BY <1>1, <2>2, <2>4 DEF LoopStates
  <2> QED BY <1>3, <2>1, <2>4, <2>5
<1>4. CASE ~ st.broken /\ r \in WriteRecords
  <2>1. r # Torn /\ r # Marker
    BY <1>4, RecordsDiffer
  <2>2. ReplayStep(st, r) = [st EXCEPT !.batch = Append(@, r), !.read = @ + 1]
    BY <1>4, <2>1 DEF ReplayStep
  <2>3. Append(st.batch, r) \in Seq(WriteRecords)
    BY <1>1, <1>4
  <2>4. ReplayStep(st, r) = [mem |-> st.mem, batch |-> Append(st.batch, r),
                             read |-> st.read + 1, last_good |-> st.last_good,
                             broken |-> st.broken]
    <3> DEFINE longer == Append(st.batch, r)
    <3>1. ReplayStep(st, r) = [st EXCEPT !.batch = longer, !.read = @ + 1]
      BY <1>1, <2>2
    <3> HIDE DEF longer
    <3>2. ReplayStep(st, r) = [mem |-> st.mem, batch |-> longer,
                               read |-> st.read + 1, last_good |-> st.last_good,
                               broken |-> st.broken]
      BY <1>1, <3>1
    <3> QED BY <3>2 DEF longer
  <2>5. ReplayStep(st, r) \in LoopStates
    BY <1>1, <2>3, <2>4 DEF LoopStates
  <2> QED BY <1>4, <2>1, <2>2, <2>5
<1> QED BY <1>2, <1>3, <1>4 DEF FileRecords

\* The loop goes through the file one record at a time.
LEMMA LoopGoesThroughFile ==
  ASSUME NEW file \in Seq(FileRecords)
  PROVE  \E run \in [0..Len(file) -> LoopStates] :
           /\ run[0] = LoopStart
           /\ \A k \in 1..Len(file) : run[k] = ReplayStep(run[k - 1], file[k])
           /\ ReplayLoop(file) = run[Len(file)]
<1> DEFINE N == Len(file)
           step == [p \in LoopStates \X (1..N) |-> ReplayStep(p[1], file[p[2]])]
           Runs(g) == g = [s \in SUBSET (1..N) |->
                             IF s = {} THEN LoopStart
                             ELSE ReplayStep(g[s \ {Max(s)}], file[Max(s)])]
           fold == CHOOSE g : Runs(g)
           run == [k \in 0..N |-> fold[1..k]]
<1>1. N \in Nat /\ DOMAIN file = 1..N /\ \A i \in 1..N : file[i] \in FileRecords
  BY LenProperties, ElementOfSeq
<1>2. ReplayLoop(file) = fold[1..N]
  BY <1>1 DEF ReplayLoop, LoopStart, FoldLeft, MapThenFoldSet
<1>3. Runs(fold)
  <2>1. step \in [LoopStates \X (1..N) -> LoopStates]
    BY <1>1, TurnOfLoop
  <2>2. LoopStart \in LoopStates
    BY LoopStarts
  <2>3. PICK g \in [SUBSET (1..N) -> LoopStates] : SolvesFold(g, N, LoopStart, step)
    <3> HIDE DEF step
    <3> QED BY <1>1, <2>1, <2>2, FoldExists
  <2>4. ASSUME NEW s \in SUBSET (1..N), s # {}
        PROVE  g[s] = ReplayStep(g[s \ {Max(s)}], file[Max(s)])
    <3>1. g[s \ {Max(s)}] \in LoopStates
      OBVIOUS
    <3>2. Max(s) \in 1..N
      BY <1>1, <2>4, SubsetHasMax
    <3>3. g[s] = step[<<g[s \ {Max(s)}], Max(s)>>]
      <4> HIDE DEF step
      <4> QED BY <2>3, <2>4 DEF SolvesFold
    <3> QED BY <3>1, <3>2, <3>3
  <2>5. g[{}] = LoopStart
    BY <2>3 DEF SolvesFold
  <2>6. Runs(g)
    BY <2>4, <2>5
  <2> HIDE DEF Runs
  <2> QED BY <2>6
<1>4. run[0] = LoopStart
  <2>1. 1..0 = {} /\ run[0] = fold[1..0]
    BY <1>1
  <2> QED BY <1>3, <2>1
<1>5. ASSUME NEW k \in 1..N
      PROVE  run[k] = ReplayStep(run[k - 1], file[k])
  <2>1. 1..k \in SUBSET (1..N) /\ 1..k # {} /\ Max(1..k) = k /\ (1..k) \ {k} = 1..(k - 1)
    <3> HIDE DEF N
    <3> QED BY <1>1, InitialSegments
  <2>2. \A s \in SUBSET (1..N) :
           s # {} => fold[s] = ReplayStep(fold[s \ {Max(s)}], file[Max(s)])
    <3> HIDE DEF fold, N
    <3> QED BY <1>3
  <2>3. fold[1..k] = ReplayStep(fold[1..(k - 1)], file[k])
    <3> HIDE DEF fold, N
    <3> QED BY <2>1, <2>2
  <2>4. run[k] = fold[1..k] /\ run[k - 1] = fold[1..(k - 1)]
    <3> HIDE DEF fold, N
    <3> QED BY <1>1
  <2> QED BY <2>3, <2>4
<1>6. run \in [0..N -> LoopStates]
  <2> DEFINE S == {k \in 0..N : run[k] \in LoopStates}
  <2>1. 0 \in S
    <3> HIDE DEF run
    <3> QED BY <1>1, <1>4, LoopStarts
  <2>2. ASSUME NEW k \in 1..N, k - 1 \in S PROVE k \in S
    <3>1. run[k] \in LoopStates
      <4>1. run[k - 1] \in LoopStates /\ file[k] \in FileRecords
        BY <1>1, <2>2
      <4> HIDE DEF run
      <4>2. ReplayStep(run[k - 1], file[k]) \in LoopStates
        BY <4>1, TurnOfLoop
      <4> QED BY <1>5, <4>2
    <3> HIDE DEF run
    <3> QED BY <3>1
  <2>3. 0..N \subseteq S
    <3> HIDE DEF S, N
    <3> QED BY <1>1, <2>1, <2>2, CountUp
  <2> HIDE DEF fold
  <2> QED BY <2>3
<1>7. ReplayLoop(file) = run[N]
  BY <1>1, <1>2
<1> HIDE DEF run
<1> QED BY <1>4, <1>5, <1>6, <1>7

\* The last commit point among the first k records, 0 if there is none.
LastPointIn(file, k, good) ==
  /\ good \in 0..k
  /\ good # 0 => IsCommitPoint(file, good)
  /\ \A i \in 1..k : IsCommitPoint(file, i) => i <= good

\* What the loop knows after k records: the last commit point among them, the
\* map its batches leave, and the batch that it has begun.
LoopKnows(file, k, st) ==
  /\ LastPointIn(file, k, st.last_good)
  /\ st.mem = ApplyWrites(EmptyMap, SubSeq(file, 1, st.last_good))
  /\ st.broken = TRUE => ~ WholeUpTo(file, k)
  /\ st.broken = FALSE => /\ WholeUpTo(file, k)
                         /\ st.read = k
                         /\ st.batch = SubSeq(file, st.last_good + 1, k)

\* A marker writes nothing.
LEMMA MarkerWritesNothing ==
  ASSUME NEW R, NEW w \in Seq(R), Marker \in R
  PROVE  ApplyWrites(EmptyMap, w \o <<Marker>>) = ApplyWrites(EmptyMap, w)
<1> DEFINE one == <<Marker>>
           m == ApplyWrites(EmptyMap, w)
<1>1. \A k \in Keys : WritesOf(one, k) = {}
  BY NoKeyIsNoKey DEF WritesOf, Marker
<1>2. \A k \in Keys : ApplyWrites(m, one)[k] = m[k]
  <2> HIDE DEF one, m
  <2> QED BY <1>1, UnwrittenKept
<1>3. ApplyWrites(m, one) = m
  BY <1>2 DEF ApplyWrites
<1>4. one \in Seq(R)
  OBVIOUS
<1>5. ApplyWrites(EmptyMap, w \o one) = ApplyWrites(m, one)
  <2> HIDE DEF one
  <2> QED BY <1>4, ApplyConcat
<1> QED BY <1>3, <1>5

\* One more record keeps what the loop knows.
LEMMA LoopLearns ==
  ASSUME NEW file \in Seq(FileRecords), NEW k \in 1..Len(file),
         NEW st \in LoopStates, LoopKnows(file, k - 1, st)
  PROVE  LoopKnows(file, k, ReplayStep(st, file[k]))
<1> DEFINE good == st.last_good
           next == ReplayStep(st, file[k])
<1> SUFFICES LoopKnows(file, k, next)
  OBVIOUS
<1>1. /\ Len(file) \in Nat /\ file[k] \in FileRecords /\ k \in Nat
      /\ good \in 0..(k - 1) /\ st.broken \in BOOLEAN
      /\ st.mem \in Maps /\ st.batch \in Seq(WriteRecords)
  BY LenProperties, ElementOfSeq DEF LoopStates, LoopKnows, LastPointIn
<1>2. WholeUpTo(file, k) <=> WholeUpTo(file, k - 1) /\ file[k] # Torn
  <2>1. \A j : j \in 1..k <=> j \in 1..(k - 1) \/ j = k
    BY <1>1
  <2> QED BY <2>1 DEF WholeUpTo
<1>3. \A i \in 1..k : i = k \/ i \in 1..(k - 1)
  BY <1>1
<1>4. CASE st.broken \/ file[k] = Torn
  <2>1. next = [st EXCEPT !.broken = TRUE]
    BY <1>1, <1>4, TurnOfLoop
  <2>2. next.broken = TRUE /\ next.last_good = good /\ next.mem = st.mem
    BY <1>1, <2>1 DEF LoopStates
  <2>3. ~ WholeUpTo(file, k)
    BY <1>2, <1>4 DEF LoopKnows
  <2>4. \A i \in 1..k : IsCommitPoint(file, i) => i <= good
    BY <1>3, <2>3 DEF LoopKnows, LastPointIn, IsCommitPoint
  <2>5. good \in 0..k
    BY <1>1
  <2>6. LastPointIn(file, k, good)
    BY <2>4, <2>5 DEF LoopKnows, LastPointIn
  <2> HIDE DEF next
  <2> QED BY <2>2, <2>3, <2>6 DEF LoopKnows
<1>5. CASE ~ st.broken /\ file[k] = Marker
  <2>1. /\ next.last_good = st.read + 1 /\ next.read = st.read + 1
        /\ next.batch = <<>> /\ next.broken = FALSE
        /\ next.mem = ApplyWrites(st.mem, st.batch)
    <3>1. next = [mem |-> ApplyWrites(st.mem, st.batch), batch |-> <<>>,
                  read |-> st.read + 1, last_good |-> st.read + 1, broken |-> FALSE]
      BY <1>1, <1>5, TurnOfLoop
    <3> HIDE DEF next
    <3> QED BY <3>1
  <2>2. /\ st.read = k - 1 /\ st.batch = SubSeq(file, good + 1, k - 1)
        /\ st.mem = ApplyWrites(EmptyMap, SubSeq(file, 1, good))
    BY <1>5 DEF LoopKnows
  <2>3. WholeUpTo(file, k) /\ IsCommitPoint(file, k)
    BY <1>2, <1>5, RecordsDiffer DEF LoopKnows, IsCommitPoint
  <2>4. /\ SubSeq(file, 1, good) \o SubSeq(file, good + 1, k - 1) = SubSeq(file, 1, k - 1)
        /\ SubSeq(file, 1, k) = SubSeq(file, 1, k - 1) \o <<file[k]>>
    <3>1. /\ 1 \in 1..(Len(file) + 1) /\ good \in (1 - 1)..Len(file)
          /\ k - 1 \in good..Len(file) /\ 1 \in 1..Len(file) /\ k \in 1..Len(file)
      BY <1>1
    <3> HIDE DEF good
    <3> QED BY <3>1, ConcatAdjacentSubSeq, SubSeqRecursiveSecond
  <2>5. \A n \in 0..Len(file) : SubSeq(file, 1, n) \in Seq(FileRecords)
    <3> SUFFICES ASSUME NEW n \in 0..Len(file)
                 PROVE  SubSeq(file, 1, n) \in Seq(FileRecords)
      OBVIOUS
    <3>1. \A i \in 1..n : file[i] \in FileRecords
      BY <1>1, ElementOfSeq
    <3> QED BY <1>1, <3>1, SubSeqProperties
  <2>6. st.batch \in Seq(FileRecords)
    BY <1>1, SeqMonotonic DEF FileRecords
  <2>7. ApplyWrites(st.mem, st.batch) = ApplyWrites(EmptyMap, SubSeq(file, 1, k - 1))
    <3> DEFINE before == SubSeq(file, 1, good)
    <3>1. before \in Seq(FileRecords)
      BY <1>1, <2>5
    <3>2. before \o st.batch = SubSeq(file, 1, k - 1) /\ st.mem = ApplyWrites(EmptyMap, before)
      BY <2>2, <2>4
    <3> HIDE DEF before
    <3>3. ApplyWrites(EmptyMap, before \o st.batch)
            = ApplyWrites(ApplyWrites(EmptyMap, before), st.batch)
      BY <2>6, <3>1, ApplyConcat
    <3> QED BY <3>2, <3>3
  <2>8. ApplyWrites(EmptyMap, SubSeq(file, 1, k)) = ApplyWrites(EmptyMap, SubSeq(file, 1, k - 1))
    <3>1. SubSeq(file, 1, k - 1) \in Seq(FileRecords) /\ Marker \in FileRecords
      BY <1>1, <2>5 DEF FileRecords
    <3> QED BY <1>5, <2>4, <3>1, MarkerWritesNothing
  <2>9. SubSeq(file, k + 1, k) = <<>>
    BY <1>1, SubSeqEmpty
  <2>10. /\ next.last_good = k /\ next.read = k
         /\ next.mem = ApplyWrites(EmptyMap, SubSeq(file, 1, k))
    BY <1>1, <2>1, <2>2, <2>7, <2>8
  <2>11. LastPointIn(file, k, k)
    BY <1>1, <2>3 DEF LastPointIn
  <2> HIDE DEF next
  <2> QED BY <2>1, <2>3, <2>9, <2>10, <2>11 DEF LoopKnows
<1>6. CASE ~ st.broken /\ file[k] \in WriteRecords
  <2>1. next = [st EXCEPT !.batch = Append(@, file[k]), !.read = @ + 1]
    BY <1>1, <1>6, TurnOfLoop
  <2>2. /\ next.last_good = good /\ next.mem = st.mem /\ next.broken = FALSE
        /\ next.read = st.read + 1 /\ next.batch = Append(st.batch, file[k])
    BY <1>1, <1>6, <2>1 DEF LoopStates
  <2>3. st.read = k - 1 /\ st.batch = SubSeq(file, good + 1, k - 1)
    BY <1>6 DEF LoopKnows
  <2>4. file[k] # Marker /\ file[k] # Torn
    BY <1>6, RecordsDiffer
  <2>5. WholeUpTo(file, k)
    BY <1>2, <1>6, <2>4 DEF LoopKnows
  <2>6. \A i \in 1..k : IsCommitPoint(file, i) => i <= good
    BY <1>3, <2>4 DEF LoopKnows, LastPointIn, IsCommitPoint
  <2>7. next.batch = SubSeq(file, good + 1, k)
    <3>1. Append(st.batch, file[k]) = st.batch \o <<file[k]>>
      BY <1>1, <1>6, AppendIsConcat
    <3>2. good + 1 \in 1..Len(file) /\ k \in (good + 1)..Len(file)
      BY <1>1
    <3>3. SubSeq(file, good + 1, k) = SubSeq(file, good + 1, k - 1) \o <<file[k]>>
      <4> HIDE DEF good
      <4> QED BY <3>2, SubSeqRecursiveSecond
    <3> QED BY <2>2, <2>3, <3>1, <3>3
  <2>8. good \in 0..k /\ next.read = k
    BY <1>1, <2>2, <2>3
  <2>9. LastPointIn(file, k, good)
    BY <2>6, <2>8 DEF LoopKnows, LastPointIn
  <2> HIDE DEF next
  <2> QED BY <2>2, <2>5, <2>7, <2>8, <2>9 DEF LoopKnows
<1> QED BY <1>1, <1>4, <1>5, <1>6 DEF FileRecords

\* On every file, the loop finds the last commit point and replays up to it.
LEMMA LoopIsRecovery ==
  ASSUME NEW file \in Seq(FileRecords)
  PROVE  /\ ReplayLoop(file).last_good = LastGood(file)
         /\ ReplayLoop(file).mem = ApplyWrites(EmptyMap, Recovered(file))
<1> DEFINE N == Len(file)
<1>1. N \in Nat /\ DOMAIN file = 1..N
  BY LenProperties
<1>2. PICK run \in [0..N -> LoopStates] :
        /\ run[0] = LoopStart
        /\ \A k \in 1..N : run[k] = ReplayStep(run[k - 1], file[k])
        /\ ReplayLoop(file) = run[N]
  BY LoopGoesThroughFile
<1> DEFINE S == {k \in 0..N : LoopKnows(file, k, run[k])}
<1>3. 0 \in S
  <2>1. SubSeq(file, 1, 0) = <<>> /\ SubSeq(file, 0 + 1, 0) = <<>>
    BY SubSeqEmpty
  <2>2. EmptyMap = ApplyWrites(EmptyMap, <<>>)
    <3>1. EmptyMap \in Maps
      BY DEF EmptyMap, Maps
    <3> QED BY <3>1, ApplyEmpty
  <2>3. /\ LoopStart.last_good = 0 /\ LoopStart.mem = EmptyMap /\ LoopStart.read = 0
        /\ LoopStart.broken = FALSE /\ LoopStart.batch = <<>>
    BY DEF LoopStart
  <2>4. WholeUpTo(file, 0) /\ LastPointIn(file, 0, 0)
    BY DEF WholeUpTo, LastPointIn
  <2>5. LoopKnows(file, 0, LoopStart)
    BY <2>1, <2>2, <2>3, <2>4 DEF LoopKnows
  <2> QED BY <1>1, <1>2, <2>5
<1>4. ASSUME NEW k \in 1..N, k - 1 \in S PROVE k \in S
  <2>1. k - 1 \in 0..N /\ k \in 0..N /\ LoopKnows(file, k - 1, run[k - 1])
    BY <1>1, <1>4
  <2>2. run[k - 1] \in LoopStates
    BY <2>1
  <2>3. LoopKnows(file, k, ReplayStep(run[k - 1], file[k]))
    BY <2>1, <2>2, LoopLearns
  <2> QED BY <1>2, <2>1, <2>3
<1>5. LoopKnows(file, N, ReplayLoop(file))
  <2>1. 0..N \subseteq S
    <3> HIDE DEF S, N
    <3> QED BY <1>1, <1>3, <1>4, CountUp
  <2>2. N \in 0..N
    BY <1>1
  <2> QED BY <1>2, <2>1, <2>2
<1> DEFINE good == ReplayLoop(file).last_good
           points == {i \in DOMAIN file : IsCommitPoint(file, i)}
<1>6. /\ good \in 0..N /\ (good # 0 => IsCommitPoint(file, good))
      /\ \A i \in 1..N : IsCommitPoint(file, i) => i <= good
      /\ ReplayLoop(file).mem = ApplyWrites(EmptyMap, SubSeq(file, 1, good))
  BY <1>5 DEF LoopKnows, LastPointIn
<1> HIDE DEF good
<1>7. LastGood(file) = good
  <2>1. CASE good = 0
    <3>1. points = {}
      BY <1>1, <1>6, <2>1
    <3> QED BY <2>1, <3>1 DEF LastGood
  <2>2. CASE good # 0
    <3>1. good \in points
      BY <1>1, <1>6, <2>2
    <3>2. \A i \in points : i <= good
      BY <1>1, <1>6
    <3>3. \A i \in points : (\A j \in points : j <= i) => i = good
      BY <1>1, <1>6, <3>1, <3>2
    <3>4. (CHOOSE i \in points : \A j \in points : j <= i) = good
      <4> HIDE DEF points
      <4> QED BY <3>1, <3>2, <3>3
    <3>5. points # {}
      BY <3>1
    <3> QED BY <3>4, <3>5 DEF LastGood
  <2> QED BY <2>1, <2>2
<1> QED BY <1>6, <1>7 DEF good, Recovered

\* recover()'s loop, on every file that a crash can leave in any reachable
\* state, finds the truncation point and rebuilds the map that Crash uses.
THEOREM LoopIsCorrect == Spec => []RecoveryIsTheLoop
<1>1. IInv => RecoveryIsTheLoop
  <2> SUFFICES ASSUME IInv, NEW tail \in SurvivingTails(buffered)
               PROVE  LET file == synced \o tail
                          loop == ReplayLoop(file)
                      IN  /\ loop.last_good = LastGood(file)
                          /\ loop.mem = ApplyWrites(EmptyMap, Recovered(file))
    BY DEF RecoveryIsTheLoop
  <2>1. /\ buffered \in Seq(WriteRecords)
        /\ synced \in Seq(WriteRecords \cup {Marker})
    BY DEF IInv, TypeOK
  <2>2. tail \in Seq(WriteRecords \cup {Torn})
    BY <2>1, TailHasNoMarker
  <2>3. synced \in Seq(FileRecords) /\ tail \in Seq(FileRecords)
    BY <2>1, <2>2, SeqMonotonic DEF FileRecords
  <2>4. synced \o tail \in Seq(FileRecords)
    BY <2>3, ConcatProperties
  <2> QED BY <2>4, LoopIsRecovery
<1> QED BY <1>1, Invariance, PTL
=============================================================================
