------------------------------- MODULE KvMaps -------------------------------
(***************************************************************************)
(* Maps from keys to values and sequences of writes to them: what the      *)
(* key-value store and its oracle of topic 16 have in common.              *)
(*                                                                         *)
(* A map is a total function in which Absent marks the keys it does not    *)
(* hold (the code's BTreeMap<u32, u32>).  A write is a record with a key   *)
(* and a value; a delete is the write of Absent.                           *)
(***************************************************************************)
EXTENDS Naturals, Sequences

CONSTANTS
  Keys,     \* the keys
  Vals,     \* the values
  Absent    \* "no entry": not a value

ASSUME AbsentIsNoValue == Absent \notin Vals

Maps == [Keys -> Vals \cup {Absent}]
EmptyMap == [k \in Keys |-> Absent]

\* The positions of w that write k; w is any sequence of records with a key.
WritesOf(w, k) == {i \in DOMAIN w : w[i].key = k}

\* Position i of w is the last one that writes k.
IsLastWrite(w, k, i) ==
  /\ i \in WritesOf(w, k)
  /\ \A j \in WritesOf(w, k) : j <= i

\* The map m after the writes of w, in order: the last write of a key wins.
ApplyWrites(m, w) ==
  [k \in Keys |->
     IF WritesOf(w, k) = {}
       THEN m[k]
       ELSE w[CHOOSE i \in DOMAIN w : IsLastWrite(w, k, i)].val]
=============================================================================
