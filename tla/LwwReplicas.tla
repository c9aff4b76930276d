------------------------------ MODULE LwwReplicas ------------------------------
(***************************************************************************)
(* Replicas that each keep an LwwMap and a VClock of the writes they have  *)
(* received, in one of the two ways topic 31 lets them exchange state:     *)
(*                                                                         *)
(*   "lane"    run_lww of crdt_bench: two replicas write in lock step at a *)
(*             shared timestamp and now and then sync in both directions   *)
(*             (the bench draws the keys at random and fixes the interval; *)
(*             here both are arbitrary);                                   *)
(*   "gossip"  the state-based use that merge() is documented for: any     *)
(*             replica publishes snapshots of its state, and a snapshot    *)
(*             may arrive late, more than once, out of order or never.     *)
(*                                                                         *)
(* A written value is its identity, the bench's Wid: the dot of the write  *)
(* and the writer's clock when it wrote (the bench keeps only the entry    *)
(* for the one other replica).                                             *)
(***************************************************************************)
EXTENDS VClock, Lww

CONSTANTS Replicas,      \* replica ids
          Keys,
          MaxRounds,     \* bound: iterations, in the lane
          MaxTs,         \* bound: timestamps, in gossip
          MaxWrites,     \* bound: writes, in gossip
          MaxSnapshots   \* bound: snapshots published

ASSUME ReplicasAssumption == Replicas \subseteq Nat /\ {1, 2} \subseteq Replicas
ASSUME BoundsAssumption == {MaxRounds, MaxTs, MaxWrites, MaxSnapshots} \subseteq Nat

VARIABLES mode,        \* "lane" or "gossip"
          at,          \* replica -> its state: map, clock, and history `seen`
          published,   \* the snapshots anybody may still receive
          now,         \* the lane's shared timestamp
          over, conc   \* merge_classified's two counts, summed over the run

vars == <<mode, at, published, now, over, conc>>

Blank == [map |-> NewMap, clock |-> NewClock, seen |-> {}]

Init ==
    /\ mode \in {"lane", "gossip"}
    /\ at = [r \in Replicas |-> Blank]
    /\ published = {}
    /\ now = 0
    /\ over = 0 /\ conc = 0

-----------------------------------------------------------------------------
\* The dot of the value a map holds for a key, if any.
Held(m, k) == {m[j].value.dot : j \in DOMAIN m \cap {k}}

\* A replica's state after its set(key, ts).  `seen` is the history: the
\* writes it has received, dropped ones included, and what each was based `on`.
AfterWrite(s, r, k, ts) ==
    LET dot == NextDot(s.clock, r)
        wid == [dot |-> dot, knew |-> s.clock]
    IN  [map   |-> Set(s.map, k, [value |-> wid, ts |-> ts, replica |-> r]),
         clock |-> Tick(s.clock, r),
         seen  |-> s.seen \cup {[key |-> k, ts |-> ts, dot |-> dot, on |-> Held(s.map, k)]}]

AfterMerge(s, other) ==
    [map   |-> MergeMaps(s.map, other.map),
     clock |-> MergeClocks(s.clock, other.clock),
     seen  |-> s.seen \cup other.seen]

\* Fault: a write by another replica always counts as one that had not seen
\* the value it replaces.
CausalIfOwn(old, new) == old.dot.replica = new.dot.replica

\* merge_classified's test that the new value was written knowing the old one.
Causal(old, new) == old.dot.replica = new.dot.replica \/ Covers(new.knew, old.dot)

\* The replaced values that count as lost.
Concurrent(m, other) == {k \in Replaced(m, other) : ~Causal(m[k].value, other[k].value)}

-----------------------------------------------------------------------------
(* lane *)

\* One iteration: both replicas write, at the same timestamp.
WriteBoth(k1, k2) ==
    /\ mode = "lane"
    /\ now < MaxRounds
    /\ now' = now + 1
    /\ at' = [at EXCEPT ![1] = AfterWrite(at[1], 1, k1, now'),
                        ![2] = AfterWrite(at[2], 2, k2, now')]
    /\ UNCHANGED <<mode, published, over, conc>>

\* sync: the second merge takes from what the first one left.
Sync ==
    LET first  == AfterMerge(at[1], at[2])
        second == AfterMerge(at[2], first)
    IN  /\ mode = "lane"
        /\ at' = [at EXCEPT ![1] = first, ![2] = second]
        /\ over' = over + Cardinality(Replaced(at[1].map, at[2].map))
                        + Cardinality(Replaced(at[2].map, first.map))
        /\ conc' = conc + Cardinality(Concurrent(at[1].map, at[2].map))
                        + Cardinality(Concurrent(at[2].map, first.map))
        /\ UNCHANGED <<mode, published, now>>

-----------------------------------------------------------------------------
(* gossip *)

Written == UNION {at[r].seen : r \in Replicas}

\* "Callers must supply a timestamp >= any they've seen."
Write(r, k, ts) ==
    /\ mode = "gossip"
    /\ Cardinality(Written) < MaxWrites
    /\ \A w \in at[r].seen : ts >= w.ts
    /\ at' = [at EXCEPT ![r] = AfterWrite(at[r], r, k, ts)]
    /\ UNCHANGED <<mode, published, now, over, conc>>

Publish(r) ==
    /\ mode = "gossip"
    /\ Cardinality(published) < MaxSnapshots
    /\ published' = published \cup {at[r]}
    /\ UNCHANGED <<mode, at, now, over, conc>>

Receive(r, s) ==
    /\ mode = "gossip"
    /\ at' = [at EXCEPT ![r] = AfterMerge(at[r], s)]
    /\ UNCHANGED <<mode, published, now, over, conc>>

Next ==
    \/ \E k1, k2 \in Keys : WriteBoth(k1, k2)
    \/ Sync
    \/ \E r \in Replicas, k \in Keys, ts \in 1..MaxTs : Write(r, k, ts)
    \/ \E r \in Replicas : Publish(r)
    \/ \E r \in Replicas, s \in published : Receive(r, s)

Spec == Init /\ [][Next]_vars

-----------------------------------------------------------------------------
(* Properties *)

States == {at[r] : r \in Replicas} \cup published

\* Property: a clock is its history.  It covers a dot exactly when that write
\* has been received; comparing two clocks, of replicas or of snapshots on
\* their way, compares the sets of writes received, so that "None" means
\* concurrent; and a derived equality (HashMap against HashMap) cannot tell
\* apart two clocks of one history.
ClocksAreHistories ==
    LET dots == {w.dot : w \in Written}
        Got(s) == {w.dot : w \in s.seen}
    IN  /\ \A s \in States, d \in dots : Covers(s.clock, d) <=> d \in Got(s)
        /\ \A s, t \in States :
              /\ PartialCmp(s.clock, t.clock) = "Equal" <=> Got(s) = Got(t)
              /\ PartialCmp(s.clock, t.clock) \in {"Equal", "Less"} <=> Got(s) \subseteq Got(t)
              /\ PartialCmp(s.clock, t.clock) \in {"Equal", "Greater"} <=> Got(t) \subseteq Got(s)
              /\ Got(s) = Got(t) => s.clock = t.clock

\* w comes before v in the order the registers keep the last of: (ts,
\* replica), and among one replica's writes at one timestamp the first stays.
Loses(w, v) ==
    \/ w.ts < v.ts
    \/ w.ts = v.ts /\ w.dot.replica < v.dot.replica
    \/ w.ts = v.ts /\ w.dot.replica = v.dot.replica /\ w.dot.counter > v.dot.counter

\* A state's map holds, for each key written in its history, the winner of all
\* writes to that key in it.
HoldsWinners(s) ==
    /\ DOMAIN s.map = {w.key : w \in s.seen}
    /\ \A k \in DOMAIN s.map : \E w \in s.seen :
          /\ w.key = k /\ w.dot = s.map[k].value.dot
          /\ w.ts = s.map[k].ts /\ w.dot.replica = s.map[k].replica
          /\ \A v \in s.seen : v.key = k /\ v # w => Loses(v, w)

\* Property: strong eventual consistency.  What a map holds depends only on
\* which writes arrived, whatever their order, and however often; so replicas
\* that have received the same writes hold the same map.
MapIsTheWinners == \A s \in States : HoldsWinners(s)

\* Property: when the lane's replicas have just synced, `conc` is the number
\* of writes that were lost: that no replica remembers and that no later
\* write to their key was based on (crdt_bench.rs, lane 1).  Each is counted
\* at one replica only, and only once.
LossesAreCounted ==
    mode = "lane" /\ at[1].map = at[2].map /\ at[1].clock = at[2].clock =>
        LET kept == {at[1].map[k].value.dot : k \in DOMAIN at[1].map}
            lost == {w \in Written : w.dot \notin kept /\ \A v \in Written : w.dot \notin v.on}
        IN  conc = Cardinality(lost) /\ over >= conc
================================================================================
