-------------------------- MODULE LwwReplicasProofs --------------------------
(***************************************************************************)
(* Topic 31's vector clocks and last-writer-wins maps, for any replicas,   *)
(* keys and timestamps and any number of writes and messages: clocks are   *)
(* causal histories, maps hold the winners of what was received, and the   *)
(* bench counts every write that its syncs lose, once.                     *)
(***************************************************************************)
EXTENDS LwwReplicas, FiniteSetTheorems, TLAPS

Dots == [replica : Replicas, counter : Nat \ {0}]

\* What is true of a set of writes: a dot names one write.
WritesOK(W) ==
    /\ \A w \in W : w.dot \in Dots /\ w.ts \in Nat
    /\ \A w, v \in W : w.dot = v.dot => w = v

\* What is true of a state, when W are the writes that were ever made: its
\* clock covers exactly the writes it has seen, up to a newest one of each
\* replica, and its map holds the winners of them.
StateOK(s, W) ==
    /\ s.seen \subseteq W
    /\ \A w \in W : w \in s.seen <=> Covers(s.clock, w.dot)
    /\ DOMAIN s.clock \subseteq Replicas
    /\ s.clock = [r \in DOMAIN s.clock |-> s.clock[r]]
    /\ \A r \in DOMAIN s.clock :
          /\ s.clock[r] \in Nat \ {0}
          /\ \E w \in s.seen : w.dot = [replica |-> r, counter |-> s.clock[r]]
    /\ HoldsWinners(s)

WrittenIn(a) == UNION {a[r].seen : r \in Replicas}

\* What is true of all the replicas' states a and the snapshots p: moreover,
\* a replica has seen its own writes.
World(a, p) ==
    /\ a = [r \in Replicas |-> a[r]]
    /\ WritesOK(WrittenIn(a))
    /\ \A r \in Replicas : StateOK(a[r], WrittenIn(a))
    /\ \A s \in p : StateOK(s, WrittenIn(a))
    /\ \A w \in WrittenIn(a) : w \in a[w.dot.replica].seen

IInv == World(at, published) /\ now \in Nat

-----------------------------------------------------------------------------
(* Registers *)

\* The order of the writes is transitive.
LEMMA LosesIsTransitive ==
  ASSUME NEW W, WritesOK(W), NEW u \in W, NEW v \in W, NEW w \in W, Loses(u, v), Loses(v, w)
  PROVE  Loses(u, w)
<1>1. /\ u.ts \in Nat /\ v.ts \in Nat /\ w.ts \in Nat
      /\ u.dot.replica \in Nat /\ v.dot.replica \in Nat /\ w.dot.replica \in Nat
      /\ u.dot.counter \in Nat /\ v.dot.counter \in Nat /\ w.dot.counter \in Nat
  BY ReplicasAssumption DEF WritesOK, Dots
<1> QED BY <1>1 DEF Loses

\* Of two writes one comes first.
LEMMA LosesIsTotal ==
  ASSUME NEW W, WritesOK(W), NEW u \in W, NEW v \in W, u # v
  PROVE  Loses(u, v) \/ Loses(v, u)
<1>1. /\ u.ts \in Nat /\ v.ts \in Nat
      /\ u.dot.replica \in Nat /\ v.dot.replica \in Nat
      /\ u.dot.counter \in Nat /\ v.dot.counter \in Nat
  BY ReplicasAssumption DEF WritesOK, Dots
<1>2. u.dot.replica # v.dot.replica \/ u.dot.counter # v.dot.counter
  <2>1. u.dot \in Dots /\ v.dot \in Dots /\ u.dot # v.dot
    BY DEF WritesOK
  <2> QED BY <2>1 DEF Dots
<1> QED BY <1>1, <1>2 DEF Loses

\* The register a map holds for a key is that of a write it has seen.
LEMMA HeldWinner ==
  ASSUME NEW s, HoldsWinners(s), NEW k \in DOMAIN s.map
  PROVE  \E w \in s.seen :
           /\ w.key = k /\ w.dot = s.map[k].value.dot
           /\ w.ts = s.map[k].ts /\ w.dot.replica = s.map[k].replica
           /\ \A v \in s.seen : v.key = k /\ v # w => Loses(v, w)
BY DEF HoldsWinners

\* A clock's entries are numbers.
LEMMA GetIsNat ==
  ASSUME NEW s, NEW W, StateOK(s, W), NEW r
  PROVE  Get(s.clock, r) \in Nat
BY DEF StateOK, Get

\* Setting a key, in a map with its clock.
LEMMA SetKeepsWinners ==
  ASSUME NEW W, WritesOK(W), NEW s, HoldsWinners(s), s.seen \subseteq W,
         NEW w \in W, NEW reg,
         reg.ts = w.ts, reg.replica = w.dot.replica, reg.value.dot = w.dot,
         \A v \in s.seen : v.dot.replica = w.dot.replica => v.dot.counter < w.dot.counter,
         NEW t, t.seen = s.seen \cup {w}, t.map = Set(s.map, w.key, reg)
  PROVE  HoldsWinners(t)
<1> DEFINE k == w.key
<1>1. \A v \in W : v.ts \in Nat /\ v.dot.replica \in Nat /\ v.dot.counter \in Nat
  BY ReplicasAssumption DEF WritesOK, Dots
<1>2. DOMAIN s.map = {v.key : v \in s.seen}
  BY DEF HoldsWinners
<1>3. CASE k \notin DOMAIN s.map
  <2>1. t.map = [j \in DOMAIN s.map \cup {k} |-> IF j = k THEN reg ELSE s.map[j]]
    BY <1>3 DEF Set
  <2>2. /\ DOMAIN t.map = DOMAIN s.map \cup {k}
        /\ t.map[k] = reg
        /\ \A j \in DOMAIN s.map : t.map[j] = s.map[j]
    BY <1>3, <2>1
  <2>3. \A v \in s.seen : v.key # k
    BY <1>2, <1>3
  <2>4. DOMAIN t.map = {v.key : v \in t.seen}
    BY <1>2, <2>2
  <2>5. ASSUME NEW j \in DOMAIN t.map
        PROVE  \E u \in t.seen :
                 /\ u.key = j /\ u.dot = t.map[j].value.dot
                 /\ u.ts = t.map[j].ts /\ u.dot.replica = t.map[j].replica
                 /\ \A v \in t.seen : v.key = j /\ v # u => Loses(v, u)
    <3>1. CASE j = k
      <4>1. \A v \in t.seen : v.key = k => v = w
        BY <2>3
      <4> QED BY <2>2, <3>1, <4>1
    <3>2. CASE j # k
      <4>1. j \in DOMAIN s.map /\ t.map[j] = s.map[j]
        BY <2>2, <3>2
      <4> QED BY <3>2, <4>1, HeldWinner
    <3> QED BY <3>1, <3>2
  <2> QED BY <2>4, <2>5 DEF HoldsWinners
<1>4. CASE k \in DOMAIN s.map
  <2>1. PICK h \in s.seen :
          /\ h.key = k /\ h.dot = s.map[k].value.dot
          /\ h.ts = s.map[k].ts /\ h.dot.replica = s.map[k].replica
          /\ \A v \in s.seen : v.key = k /\ v # h => Loses(v, h)
    BY <1>4, HeldWinner
  <2>2. DOMAIN t.map = DOMAIN s.map /\ \A j \in DOMAIN s.map \ {k} : t.map[j] = s.map[j]
    BY <1>4 DEF Set
  <2>3. DOMAIN t.map = {v.key : v \in t.seen}
    BY <1>2, <1>4, <2>2
  <2>4. \E u \in t.seen :
          /\ u.key = k /\ u.dot = t.map[k].value.dot
          /\ u.ts = t.map[k].ts /\ u.dot.replica = t.map[k].replica
          /\ \A v \in t.seen : v.key = k /\ v # u => Loses(v, u)
    <3>1. CASE Wins(reg, s.map[k])
      <4>1. t.map[k] = reg
        BY <1>4, <3>1 DEF Set
      <4>2. Loses(h, w)
        BY <1>1, <2>1, <3>1 DEF Wins, Loses
      <4>3. ASSUME NEW v \in t.seen, v.key = k, v # w PROVE Loses(v, w)
        <5>1. v \in s.seen
          BY <4>3
        <5>2. v = h \/ Loses(v, h)
          BY <2>1, <4>3, <5>1
        <5> QED BY <4>2, <5>1, <5>2, LosesIsTransitive
      <4> QED BY <4>1, <4>3
    <3>2. CASE ~Wins(reg, s.map[k])
      <4>1. t.map[k] = s.map[k]
        BY <1>4, <3>2 DEF Set
      <4>2. Loses(w, h)
        <5>1. h.dot.replica = w.dot.replica => h.dot.counter < w.dot.counter
          OBVIOUS
        <5> QED BY <1>1, <2>1, <3>2, <5>1 DEF Wins, Loses
      <4>3. \A v \in t.seen : v.key = k /\ v # h => Loses(v, h)
        BY <2>1, <4>2
      <4> QED BY <2>1, <4>1, <4>3
    <3> QED BY <3>1, <3>2
  <2>5. ASSUME NEW j \in DOMAIN t.map, j # k
        PROVE  \E u \in t.seen :
                 /\ u.key = j /\ u.dot = t.map[j].value.dot
                 /\ u.ts = t.map[j].ts /\ u.dot.replica = t.map[j].replica
                 /\ \A v \in t.seen : v.key = j /\ v # u => Loses(v, u)
    <3>1. j \in DOMAIN s.map /\ t.map[j] = s.map[j]
      BY <2>2, <2>5
    <3> QED BY <2>5, <3>1, HeldWinner
  <2> QED BY <2>3, <2>4, <2>5 DEF HoldsWinners
<1> QED BY <1>3, <1>4

\* Merging two maps with their clocks.
LEMMA MergeKeepsWinners ==
  ASSUME NEW W, WritesOK(W), NEW s, StateOK(s, W), NEW o, StateOK(o, W),
         NEW t, t.seen = s.seen \cup o.seen, t.map = MergeMaps(s.map, o.map)
  PROVE  HoldsWinners(t)
<1>1. \A v \in W : v.ts \in Nat /\ v.dot.replica \in Nat /\ v.dot.counter \in Nat
  BY ReplicasAssumption DEF WritesOK, Dots
<1>2. /\ HoldsWinners(s) /\ s.seen \subseteq W /\ DOMAIN s.map = {v.key : v \in s.seen}
      /\ HoldsWinners(o) /\ o.seen \subseteq W /\ DOMAIN o.map = {v.key : v \in o.seen}
  BY DEF StateOK, HoldsWinners
<1>3. DOMAIN t.map = DOMAIN s.map \cup DOMAIN o.map
  BY DEF MergeMaps
<1>4. DOMAIN t.map = {v.key : v \in t.seen}
  BY <1>2, <1>3
<1>5. ASSUME NEW k \in DOMAIN t.map
      PROVE  \E u \in t.seen :
               /\ u.key = k /\ u.dot = t.map[k].value.dot
               /\ u.ts = t.map[k].ts /\ u.dot.replica = t.map[k].replica
               /\ \A v \in t.seen : v.key = k /\ v # u => Loses(v, u)
  <2>1. CASE k \notin DOMAIN o.map
    <3>1. k \in DOMAIN s.map /\ t.map[k] = s.map[k]
      BY <1>3, <2>1 DEF MergeMaps, Replaced
    <3>2. \A v \in o.seen : v.key # k
      BY <1>2, <2>1
    <3> QED BY <1>2, <3>1, <3>2, HeldWinner
  <2>2. CASE k \notin DOMAIN s.map
    <3>1. k \in DOMAIN o.map /\ t.map[k] = o.map[k]
      BY <1>3, <2>2 DEF MergeMaps
    <3>2. \A v \in s.seen : v.key # k
      BY <1>2, <2>2
    <3> QED BY <1>2, <3>1, <3>2, HeldWinner
  <2>3. CASE k \in DOMAIN s.map /\ k \in DOMAIN o.map
    <3>1. PICK a \in s.seen :
            /\ a.key = k /\ a.dot = s.map[k].value.dot
            /\ a.ts = s.map[k].ts /\ a.dot.replica = s.map[k].replica
            /\ \A v \in s.seen : v.key = k /\ v # a => Loses(v, a)
      BY <1>2, <2>3, HeldWinner
    <3>2. PICK b \in o.seen :
            /\ b.key = k /\ b.dot = o.map[k].value.dot
            /\ b.ts = o.map[k].ts /\ b.dot.replica = o.map[k].replica
            /\ \A v \in o.seen : v.key = k /\ v # b => Loses(v, b)
      BY <1>2, <2>3, HeldWinner
    <3>3. a \in W /\ b \in W
      BY <1>2
    <3>4. CASE Wins(o.map[k], s.map[k])
      <4>1. t.map[k] = o.map[k]
        BY <2>3, <3>4 DEF MergeMaps, Replaced
      <4>2. Loses(a, b)
        BY <1>1, <3>1, <3>2, <3>3, <3>4 DEF Wins, Loses
      <4>3. ASSUME NEW v \in s.seen, v.key = k, v # b PROVE Loses(v, b)
        <5>1. v = a \/ Loses(v, a)
          BY <3>1, <4>3
        <5>2. v \in W
          BY <1>2
        <5> QED BY <3>3, <4>2, <5>1, <5>2, LosesIsTransitive
      <4> QED BY <3>2, <4>1, <4>3
    <3>5. CASE ~Wins(o.map[k], s.map[k])
      <4>1. t.map[k] = s.map[k]
        BY <2>3, <3>5 DEF MergeMaps, Replaced
      <4>2. b = a \/ Loses(b, a)
        <5>1. CASE a.ts = b.ts /\ a.dot.replica = b.dot.replica /\ b # a
          <6>1. CASE b.dot.counter > a.dot.counter
            BY <5>1, <6>1 DEF Loses
          <6>2. CASE b.dot.counter <= a.dot.counter
            \* then the other replica's write has been seen here as well
            <7>1. a.dot.counter <= Get(s.clock, a.dot.replica)
              BY <3>3 DEF StateOK, Covers
            <7>2. b.dot.counter <= Get(s.clock, b.dot.replica)
              BY <1>1, <3>3, <5>1, <6>2, <7>1, GetIsNat
            <7>3. b \in s.seen
              BY <1>1, <3>3, <7>2, GetIsNat DEF StateOK, Covers
            <7> QED BY <3>1, <3>2, <7>3
          <6> QED BY <1>1, <3>3, <6>1, <6>2
        <5>2. CASE ~(a.ts = b.ts /\ a.dot.replica = b.dot.replica)
          BY <1>1, <3>1, <3>2, <3>3, <3>5, <5>2 DEF Wins, Loses
        <5> QED BY <5>1, <5>2
      <4>3. ASSUME NEW v \in o.seen, v.key = k, v # a PROVE Loses(v, a)
        <5>1. v = b \/ Loses(v, b)
          BY <3>2, <4>3
        <5>2. v \in W
          BY <1>2
        <5> QED BY <3>3, <4>2, <4>3, <5>1, <5>2, LosesIsTransitive
      <4> QED BY <3>1, <4>1, <4>3
    <3> QED BY <3>4, <3>5
  <2> QED BY <1>3, <2>1, <2>2, <2>3
<1> QED BY <1>4, <1>5 DEF HoldsWinners

-----------------------------------------------------------------------------
(* Replicas *)

\* Nobody has seen more of a replica's writes than it has itself.
LEMMA NobodyIsAhead ==
  ASSUME NEW a, NEW p, World(a, p), NEW r \in Replicas, NEW u, StateOK(u, WrittenIn(a))
  PROVE  Get(u.clock, r) <= Get(a[r].clock, r)
<1>1. Get(a[r].clock, r) \in Nat
  BY GetIsNat DEF World
<1>2. CASE r \notin DOMAIN u.clock
  BY <1>1, <1>2 DEF Get
<1>3. CASE r \in DOMAIN u.clock
  <2>1. PICK w \in u.seen : w.dot = [replica |-> r, counter |-> u.clock[r]]
    BY <1>3 DEF StateOK
  <2>2. w \in WrittenIn(a)
    BY DEF StateOK
  <2>3. w \in a[r].seen
    BY <2>1, <2>2 DEF World
  <2>4. Covers(a[r].clock, w.dot)
    BY <2>2, <2>3 DEF World, StateOK
  <2>5. Get(a[r].clock, r) >= u.clock[r] /\ u.clock[r] \in Nat
    BY <1>3, <2>1, <2>4 DEF Covers, StateOK
  <2> QED BY <1>1, <1>3, <2>5 DEF Get
<1> QED BY <1>2, <1>3

\* A write by one replica keeps all that is true of the world.
LEMMA WriteKeepsWorld ==
  ASSUME NEW a, NEW p, World(a, p), NEW r \in Replicas, NEW k, NEW ts \in Nat
  PROVE  World([a EXCEPT ![r] = AfterWrite(a[r], r, k, ts)], p)
<1> DEFINE s == a[r]
           c == Get(s.clock, r) + 1
           dot == NextDot(s.clock, r)
           w == [key |-> k, ts |-> ts, dot |-> dot, on |-> Held(s.map, k)]
           reg == [value |-> [dot |-> dot, knew |-> s.clock], ts |-> ts, replica |-> r]
           t == AfterWrite(s, r, k, ts)
           b == [a EXCEPT ![r] = t]
           W == WrittenIn(a)
<1>1. /\ a = [q \in Replicas |-> a[q]]
      /\ WritesOK(W)
      /\ \A q \in Replicas : StateOK(a[q], W)
      /\ \A u \in p : StateOK(u, W)
      /\ \A v \in W : v \in a[v.dot.replica].seen
  BY DEF World
<1>2. /\ t.seen = s.seen \cup {w}
      /\ t.map = Set(s.map, k, reg)
      /\ t.clock = [q \in DOMAIN s.clock \cup {r} |-> IF q = r THEN c ELSE s.clock[q]]
  BY DEF AfterWrite, Tick
<1>3. Get(s.clock, r) \in Nat /\ c \in Nat \ {0}
  <2>1. StateOK(s, W)
    BY <1>1
  <2> HIDE DEF s, W
  <2>2. Get(s.clock, r) \in Nat
    BY <2>1, GetIsNat
  <2> QED BY <2>2
<1>4. /\ w.key = k /\ w.ts = ts /\ w.dot = [replica |-> r, counter |-> c]
      /\ w.dot \in Dots
  BY <1>3 DEF NextDot, Dots
<1>5. /\ b = [q \in Replicas |-> b[q]] /\ b[r] = t
      /\ \A q \in Replicas \ {r} : b[q] = a[q]
  BY <1>1
<1>6. reg.ts = ts /\ reg.replica = r /\ reg.value.dot = w.dot
  OBVIOUS
<1> HIDE DEF t, b, w, reg, c, dot
<1>7. WrittenIn(b) = W \cup {w}
  <2>1. \A q \in Replicas : b[q].seen = IF q = r THEN s.seen \cup {w} ELSE a[q].seen
    BY <1>2, <1>5
  <2> QED BY <2>1 DEF WrittenIn
<1>8. \A v \in W : v.dot.replica = r => v \in s.seen /\ v.dot.counter < c /\ v.dot.counter \in Nat
  <2> SUFFICES ASSUME NEW v \in W, v.dot.replica = r
               PROVE  v \in s.seen /\ v.dot.counter < c /\ v.dot.counter \in Nat
    OBVIOUS
  <2>1. v \in s.seen
    BY <1>1
  <2>2. Covers(s.clock, v.dot)
    BY <1>1, <2>1 DEF StateOK
  <2>3. v.dot.counter \in Nat
    BY <1>1 DEF WritesOK, Dots
  <2>4. Get(s.clock, r) >= v.dot.counter
    BY <2>2 DEF Covers
  <2> QED BY <1>3, <2>1, <2>3, <2>4 DEF c
<1>9. WritesOK(W \cup {w})
  <2>1. \A v \in W : v.dot # w.dot
    BY <1>3, <1>4, <1>8
  <2> QED BY <1>1, <1>4, <2>1 DEF WritesOK
<1>10. ASSUME NEW u, StateOK(u, W) PROVE StateOK(u, W \cup {w})
  <2>1. Get(u.clock, r) <= Get(s.clock, r) /\ Get(u.clock, r) \in Nat
    BY <1>10, NobodyIsAhead, GetIsNat
  <2>2. ~Covers(u.clock, w.dot)
    BY <1>3, <1>4, <2>1 DEF Covers, c
  <2>3. w \notin u.seen
    BY <1>3, <1>4, <1>8, <1>10 DEF StateOK
  <2> HIDE DEF W
  <2> QED BY <1>10, <2>2, <2>3 DEF StateOK
<1>11. StateOK(t, W \cup {w})
  <2>1. StateOK(s, W)
    BY <1>1
  <2> HIDE DEF s, W
  <2>2. t.seen \subseteq W \cup {w}
    BY <1>2, <2>1 DEF StateOK
  <2>3. /\ Get(t.clock, r) = c
        /\ \A q : q # r => Get(t.clock, q) = Get(s.clock, q)
    BY <1>2 DEF Get
  <2>4. ASSUME NEW v \in W \cup {w} PROVE v \in t.seen <=> Covers(t.clock, v.dot)
    <3>1. CASE v = w
      BY <1>2, <1>3, <1>4, <2>3, <3>1 DEF Covers
    <3>2. CASE v \in W /\ v.dot.replica = r
      BY <1>2, <1>3, <1>8, <2>3, <3>2 DEF Covers
    <3>3. CASE v \in W /\ v.dot.replica # r
      <4>1. v # w
        BY <1>4, <3>3
      <4> QED BY <1>2, <2>1, <2>3, <3>3, <4>1 DEF Covers, StateOK
    <3> QED BY <3>1, <3>2, <3>3
  <2>5. /\ DOMAIN t.clock \subseteq Replicas
        /\ t.clock = [q \in DOMAIN t.clock |-> t.clock[q]]
    BY <1>2, <2>1 DEF StateOK
  <2>6. ASSUME NEW q \in DOMAIN t.clock
        PROVE  /\ t.clock[q] \in Nat \ {0}
               /\ \E v \in t.seen : v.dot = [replica |-> q, counter |-> t.clock[q]]
    <3>1. CASE q = r
      BY <1>2, <1>3, <1>4, <3>1
    <3>2. CASE q # r
      <4>1. q \in DOMAIN s.clock /\ t.clock[q] = s.clock[q]
        BY <1>2, <3>2
      <4>2. s.clock[q] \in Nat \ {0}
        BY <2>1, <4>1 DEF StateOK
      <4>3. PICK v \in s.seen : v.dot = [replica |-> q, counter |-> s.clock[q]]
        BY <2>1, <4>1 DEF StateOK
      <4> QED BY <1>2, <4>1, <4>2, <4>3
    <3> QED BY <3>1, <3>2
  <2>7. HoldsWinners(t)
    <3>1. HoldsWinners(s) /\ s.seen \subseteq W \cup {w}
      BY <2>1 DEF StateOK
    <3>2. \A v \in s.seen : v.dot.replica = w.dot.replica => v.dot.counter < w.dot.counter
      BY <1>4, <1>8, <2>1 DEF StateOK
    <3> QED BY <1>2, <1>4, <1>6, <1>9, <3>1, <3>2, SetKeepsWinners
  <2> QED BY <2>2, <2>4, <2>5, <2>6, <2>7 DEF StateOK
<1>12. \A v \in W \cup {w} : v \in b[v.dot.replica].seen
  <2> SUFFICES ASSUME NEW v \in W \cup {w} PROVE v \in b[v.dot.replica].seen
    OBVIOUS
  <2>1. CASE v.dot.replica = r
    <3>1. v \in s.seen \/ v = w
      BY <1>8, <2>1
    <3> QED BY <1>2, <1>5, <2>1, <3>1
  <2>2. CASE v.dot.replica # r
    <3>1. v \in W /\ v.dot.replica \in Replicas
      BY <1>1, <1>4, <2>2 DEF WritesOK, Dots
    <3> QED BY <1>1, <1>5, <2>2, <3>1
  <2> QED BY <2>1, <2>2
<1>13. \A q \in Replicas : StateOK(b[q], W \cup {w})
  BY <1>1, <1>5, <1>10, <1>11
<1>14. \A u \in p : StateOK(u, W \cup {w})
  BY <1>1, <1>10
<1>15. World(b, p)
  <2> HIDE DEF W
  <2> QED BY <1>5, <1>7, <1>9, <1>12, <1>13, <1>14 DEF World
<1> QED BY <1>15 DEF b, t

\* So does a merge of any state, late or new, into a replica's.
LEMMA MergeKeepsWorld ==
  ASSUME NEW a, NEW p, World(a, p), NEW r \in Replicas,
         NEW o, StateOK(o, WrittenIn(a))
  PROVE  World([a EXCEPT ![r] = AfterMerge(a[r], o)], p)
<1> DEFINE s == a[r]
           t == AfterMerge(s, o)
           b == [a EXCEPT ![r] = t]
           W == WrittenIn(a)
<1>1. /\ a = [q \in Replicas |-> a[q]]
      /\ WritesOK(W)
      /\ \A q \in Replicas : StateOK(a[q], W)
      /\ \A u \in p : StateOK(u, W)
      /\ \A v \in W : v \in a[v.dot.replica].seen
  BY DEF World
<1>2. /\ t.seen = s.seen \cup o.seen
      /\ t.map = MergeMaps(s.map, o.map)
      /\ t.clock = [q \in DOMAIN s.clock \cup DOMAIN o.clock |->
                      IF Get(s.clock, q) >= Get(o.clock, q) THEN Get(s.clock, q)
                                                            ELSE Get(o.clock, q)]
  BY DEF AfterMerge, MergeClocks
<1>3. /\ b = [q \in Replicas |-> b[q]] /\ b[r] = t
      /\ \A q \in Replicas \ {r} : b[q] = a[q]
  BY <1>1
<1>4. StateOK(s, W) /\ StateOK(o, W)
  BY <1>1
<1> HIDE DEF t, b
<1>5. WrittenIn(b) = W
  <2>1. \A q \in Replicas : b[q].seen = IF q = r THEN s.seen \cup o.seen ELSE a[q].seen
    BY <1>2, <1>3
  <2>2. o.seen \subseteq W
    BY <1>4 DEF StateOK
  <2> QED BY <2>1, <2>2 DEF WrittenIn
<1> HIDE DEF W, s
<1>6. \A q : Get(s.clock, q) \in Nat /\ Get(o.clock, q) \in Nat
  BY <1>4, GetIsNat
<1>7. StateOK(t, W)
  <2>1. t.seen \subseteq W
    BY <1>2, <1>4 DEF StateOK
  <2>2. \A q : Get(t.clock, q) = IF Get(s.clock, q) >= Get(o.clock, q) THEN Get(s.clock, q)
                                                                     ELSE Get(o.clock, q)
    <3> SUFFICES ASSUME NEW q
                 PROVE  Get(t.clock, q) = IF Get(s.clock, q) >= Get(o.clock, q)
                                          THEN Get(s.clock, q) ELSE Get(o.clock, q)
      OBVIOUS
    <3>1. CASE q \in DOMAIN t.clock
      BY <1>2, <3>1 DEF Get
    <3>2. CASE q \notin DOMAIN t.clock
      BY <1>2, <3>2 DEF Get
    <3> QED BY <3>1, <3>2
  <2>3. ASSUME NEW v \in W PROVE v \in t.seen <=> Covers(t.clock, v.dot)
    <3>1. v.dot.counter \in Nat
      BY <1>1 DEF WritesOK, Dots
    <3>2. /\ v \in s.seen <=> Get(s.clock, v.dot.replica) >= v.dot.counter
          /\ v \in o.seen <=> Get(o.clock, v.dot.replica) >= v.dot.counter
      BY <1>4 DEF StateOK, Covers
    <3>3. v \in t.seen <=> v \in s.seen \/ v \in o.seen
      BY <1>2
    <3> DEFINE g == Get(s.clock, v.dot.replica)
               h == Get(o.clock, v.dot.replica)
    <3>4. g \in Nat /\ h \in Nat
      BY <1>6
    <3>5. Get(t.clock, v.dot.replica) = IF g >= h THEN g ELSE h
      BY <2>2
    <3> HIDE DEF g, h
    <3>6. v \in t.seen <=> g >= v.dot.counter \/ h >= v.dot.counter
      BY <3>2, <3>3 DEF g, h
    <3>7. Covers(t.clock, v.dot) <=> (IF g >= h THEN g ELSE h) >= v.dot.counter
      BY <3>5 DEF Covers
    <3> QED BY <3>1, <3>4, <3>6, <3>7
  <2>4. /\ DOMAIN t.clock \subseteq Replicas
        /\ t.clock = [q \in DOMAIN t.clock |-> t.clock[q]]
    BY <1>2, <1>4 DEF StateOK
  <2>5. ASSUME NEW q \in DOMAIN t.clock
        PROVE  /\ t.clock[q] \in Nat \ {0}
               /\ \E v \in t.seen : v.dot = [replica |-> q, counter |-> t.clock[q]]
    <3>1. t.clock[q] = IF Get(s.clock, q) >= Get(o.clock, q) THEN Get(s.clock, q)
                                                           ELSE Get(o.clock, q)
      BY <1>2
    <3>2. \A u \in {s, o} : q \in DOMAIN u.clock =>
            /\ Get(u.clock, q) \in Nat \ {0}
            /\ \E v \in u.seen : v.dot = [replica |-> q, counter |-> Get(u.clock, q)]
      BY <1>4 DEF StateOK, Get
    <3>3. CASE Get(s.clock, q) >= Get(o.clock, q)
      <4>1. q \in DOMAIN s.clock
        <5>1. q \notin DOMAIN s.clock => q \in DOMAIN o.clock /\ Get(s.clock, q) = 0
          BY <1>2 DEF Get
        <5> QED BY <1>6, <3>2, <3>3, <5>1
      <4>2. t.clock[q] = Get(s.clock, q)
        BY <3>1, <3>3
      <4>3. PICK v \in s.seen : v.dot = [replica |-> q, counter |-> Get(s.clock, q)]
        BY <3>2, <4>1
      <4> QED BY <1>2, <3>2, <4>1, <4>2, <4>3
    <3>4. CASE ~(Get(s.clock, q) >= Get(o.clock, q))
      <4>1. q \in DOMAIN o.clock
        BY <1>6, <3>4 DEF Get
      <4>2. t.clock[q] = Get(o.clock, q)
        BY <3>1, <3>4
      <4>3. PICK v \in o.seen : v.dot = [replica |-> q, counter |-> Get(o.clock, q)]
        BY <3>2, <4>1
      <4> QED BY <1>2, <3>2, <4>1, <4>2, <4>3
    <3> QED BY <3>3, <3>4
  <2>6. HoldsWinners(t)
    BY <1>1, <1>2, <1>4, MergeKeepsWinners
  <2> QED BY <2>1, <2>3, <2>4, <2>5, <2>6 DEF StateOK
<1>8. \A v \in W : v \in b[v.dot.replica].seen
  <2> SUFFICES ASSUME NEW v \in W PROVE v \in b[v.dot.replica].seen
    OBVIOUS
  <2>1. v.dot.replica \in Replicas
    BY <1>1 DEF WritesOK, Dots
  <2>2. CASE v.dot.replica = r
    BY <1>1, <1>2, <1>3, <2>2 DEF s
  <2>3. CASE v.dot.replica # r
    BY <1>1, <1>3, <2>1, <2>3
  <2> QED BY <2>2, <2>3
<1>9. World(b, p)
  BY <1>1, <1>3, <1>5, <1>7, <1>8 DEF World
<1> QED BY <1>9 DEF b, t, s

-----------------------------------------------------------------------------
(* The invariant *)

\* The invariant holds initially: nobody has seen anything.
LEMMA InitIInv == ASSUME Init PROVE IInv
<1>1. /\ at = [r \in Replicas |-> Blank]
      /\ published = {} /\ now = 0
  BY DEF Init
<1>2. /\ Blank.seen = {} /\ DOMAIN Blank.clock = {} /\ DOMAIN Blank.map = {}
      /\ Blank.clock = [r \in DOMAIN Blank.clock |-> Blank.clock[r]]
  BY DEF Blank, NewClock, NewMap
<1>3. WrittenIn(at) = {}
  BY <1>1, <1>2 DEF WrittenIn
<1>4. StateOK(Blank, {})
  BY <1>2 DEF StateOK, HoldsWinners
<1> QED BY <1>1, <1>3, <1>4 DEF IInv, World, WritesOK

\* In the lane, both replicas write.
LEMMA WriteBothKeepsIInv ==
  ASSUME IInv, NEW k1, NEW k2, WriteBoth(k1, k2)
  PROVE  IInv'
<1> DEFINE a == [at EXCEPT ![1] = AfterWrite(at[1], 1, k1, now')]
           b == [a EXCEPT ![2] = AfterWrite(a[2], 2, k2, now')]
<1>1. /\ now' = now + 1 /\ published' = published
      /\ at' = [at EXCEPT ![1] = AfterWrite(at[1], 1, k1, now'),
                          ![2] = AfterWrite(at[2], 2, k2, now')]
  BY DEF WriteBoth
<1>2. World(at, published) /\ now' \in Nat /\ 1 \in Replicas /\ 2 \in Replicas
  BY <1>1, ReplicasAssumption DEF IInv
<1>3. World(a, published)
  BY <1>2, WriteKeepsWorld
<1>4. at = [r \in Replicas |-> at[r]]
  BY <1>2 DEF World
<1>5. at' = b
  <2>1. a[2] = at[2] /\ DOMAIN a = Replicas
    BY <1>2, <1>4
  <2>2. at' = [[at EXCEPT ![1] = AfterWrite(at[1], 1, k1, now')]
                 EXCEPT ![2] = AfterWrite(at[2], 2, k2, now')]
    BY <1>1
  <2> QED BY <2>1, <2>2
<1> HIDE DEF a
<1>6. World(b, published)
  BY <1>2, <1>3, WriteKeepsWorld
<1> QED BY <1>1, <1>2, <1>5, <1>6 DEF IInv

\* In the lane, the replicas merge each other's state, one after the other.
LEMMA SyncKeepsIInv ==
  ASSUME IInv, Sync
  PROVE  IInv'
<1> DEFINE first == AfterMerge(at[1], at[2])
           a == [at EXCEPT ![1] = first]
           b == [a EXCEPT ![2] = AfterMerge(a[2], a[1])]
<1>1. /\ now' = now /\ published' = published
      /\ at' = [at EXCEPT ![1] = first, ![2] = AfterMerge(at[2], first)]
  BY DEF Sync
<1>2. World(at, published) /\ now \in Nat /\ 1 \in Replicas /\ 2 \in Replicas
  BY ReplicasAssumption DEF IInv
<1>3. StateOK(at[2], WrittenIn(at))
  BY <1>2 DEF World
<1>4. World(a, published)
  BY <1>2, <1>3, MergeKeepsWorld
<1>5. at = [r \in Replicas |-> at[r]]
  BY <1>2 DEF World
<1>6. at' = b
  <2>1. a[1] = first /\ a[2] = at[2] /\ DOMAIN a = Replicas
    BY <1>2, <1>5
  <2>2. at' = [[at EXCEPT ![1] = first] EXCEPT ![2] = AfterMerge(at[2], first)]
    BY <1>1
  <2> QED BY <2>1, <2>2
<1> HIDE DEF a
<1>7. StateOK(a[1], WrittenIn(a))
  BY <1>2, <1>4 DEF World
<1>8. World(b, published)
  BY <1>2, <1>4, <1>7, MergeKeepsWorld
<1> QED BY <1>1, <1>2, <1>6, <1>8 DEF IInv

\* Every other step writes, publishes or receives at one replica.
LEMMA GossipKeepsIInv ==
  ASSUME IInv, NEW r \in Replicas,
         \/ \E k \in Keys, ts \in 1..MaxTs : Write(r, k, ts)
         \/ Publish(r)
         \/ \E s \in published : Receive(r, s)
  PROVE  IInv'
<1>1. World(at, published) /\ now \in Nat
  BY DEF IInv
<1>2. ASSUME NEW k \in Keys, NEW ts \in 1..MaxTs, Write(r, k, ts) PROVE IInv'
  <2>1. /\ at' = [at EXCEPT ![r] = AfterWrite(at[r], r, k, ts)]
        /\ published' = published /\ now' = now
    BY <1>2 DEF Write
  <2>2. ts \in Nat
    BY BoundsAssumption
  <2>3. World(at', published)
    BY <1>1, <2>1, <2>2, WriteKeepsWorld
  <2> QED BY <1>1, <2>1, <2>3 DEF IInv
<1>3. CASE Publish(r)
  <2>1. at' = at /\ published' = published \cup {at[r]} /\ now' = now
    BY <1>3 DEF Publish
  <2>2. World(at, published \cup {at[r]})
    BY <1>1 DEF World
  <2> QED BY <1>1, <2>1, <2>2 DEF IInv
<1>4. ASSUME NEW s \in published, Receive(r, s) PROVE IInv'
  <2>1. /\ at' = [at EXCEPT ![r] = AfterMerge(at[r], s)]
        /\ published' = published /\ now' = now
    BY <1>4 DEF Receive
  <2>2. StateOK(s, WrittenIn(at))
    BY <1>1 DEF World
  <2>3. World(at', published)
    BY <1>1, <2>1, <2>2, MergeKeepsWorld
  <2> QED BY <1>1, <2>1, <2>3 DEF IInv
<1> QED BY <1>2, <1>3, <1>4

\* Theorem: the inductive invariant of the replicas.
THEOREM InvariantHolds == Spec => []IInv
<1>1. IInv /\ [Next]_vars => IInv'
  <2> SUFFICES ASSUME IInv, [Next]_vars PROVE IInv'
    OBVIOUS
  <2>1. CASE UNCHANGED vars
    BY <2>1 DEF vars, IInv
  <2>2. CASE \E k1, k2 \in Keys : WriteBoth(k1, k2)
    BY <2>2, WriteBothKeepsIInv
  <2>3. CASE Sync
    BY <2>3, SyncKeepsIInv
  <2>4. CASE \E r \in Replicas :
               \/ \E k \in Keys, ts \in 1..MaxTs : Write(r, k, ts)
               \/ Publish(r)
               \/ \E s \in published : Receive(r, s)
    BY <2>4, GossipKeepsIInv
  <2> QED BY <2>1, <2>2, <2>3, <2>4 DEF Next
<1> QED BY <1>1, InitIInv, PTL DEF Spec

-----------------------------------------------------------------------------
(* What it means for maps and clocks *)

\* The states of a world are in order.
LEMMA StatesAreOK ==
  ASSUME IInv
  PROVE  /\ Written = WrittenIn(at)
         /\ WritesOK(Written)
         /\ \A s \in States : StateOK(s, Written)
BY DEF IInv, World, Written, WrittenIn, States

\* Theorem: strong eventual consistency of LwwMap (lww.rs): a map holds the
\* winners of the writes its replica has received, in whatever order they
\* arrived, and however often.
THEOREM MapsHoldWinners == Spec => []MapIsTheWinners
<1>1. IInv => MapIsTheWinners
  BY StatesAreOK DEF MapIsTheWinners, StateOK
<1> QED BY <1>1, InvariantHolds, PTL

\* One clock is at most another exactly when one history is part of the other.
LEMMA ClockOrderIsInclusion ==
  ASSUME NEW W, WritesOK(W), NEW s, StateOK(s, W), NEW t, StateOK(t, W)
  PROVE  (\A r \in DOMAIN s.clock : s.clock[r] <= Get(t.clock, r))
           <=> {w.dot : w \in s.seen} \subseteq {w.dot : w \in t.seen}
<1>1. \A w \in W : /\ w.dot.counter \in Nat \ {0}
                   /\ w \in s.seen <=> Get(s.clock, w.dot.replica) >= w.dot.counter
                   /\ w \in t.seen <=> Get(t.clock, w.dot.replica) >= w.dot.counter
  BY DEF WritesOK, Dots, StateOK, Covers
<1>2. \A r : Get(s.clock, r) \in Nat /\ Get(t.clock, r) \in Nat
  BY GetIsNat
<1>3. ASSUME \A r \in DOMAIN s.clock : s.clock[r] <= Get(t.clock, r), NEW w \in s.seen
      PROVE  w \in t.seen
  <2>1. w \in W
    BY DEF StateOK
  <2>2. Get(s.clock, w.dot.replica) >= w.dot.counter /\ w.dot.counter \in Nat \ {0}
    BY <1>1, <2>1
  <2>3. w.dot.replica \in DOMAIN s.clock
    BY <2>2 DEF Get
  <2>4. s.clock[w.dot.replica] <= Get(t.clock, w.dot.replica)
    BY <1>3, <2>3
  <2>5. Get(t.clock, w.dot.replica) >= w.dot.counter
    BY <1>2, <2>2, <2>3, <2>4 DEF Get
  <2> QED BY <1>1, <2>1, <2>5
<1>4. ASSUME {w.dot : w \in s.seen} \subseteq {w.dot : w \in t.seen},
             NEW r \in DOMAIN s.clock
      PROVE  s.clock[r] <= Get(t.clock, r)
  <2>1. PICK w \in s.seen : w.dot = [replica |-> r, counter |-> s.clock[r]]
    BY DEF StateOK
  <2>2. PICK v \in t.seen : v.dot = w.dot
    BY <1>4
  <2>3. v \in W
    BY DEF StateOK
  <2>4. Get(t.clock, r) >= s.clock[r]
    BY <1>1, <2>1, <2>2, <2>3
  <2>5. s.clock[r] \in Nat
    BY DEF StateOK
  <2> QED BY <1>2, <2>4, <2>5
<1> QED BY <1>3, <1>4

\* Clocks of one history are one clock.
LEMMA OneHistoryOneClock ==
  ASSUME NEW W, WritesOK(W), NEW s, StateOK(s, W), NEW t, StateOK(t, W),
         {w.dot : w \in s.seen} = {w.dot : w \in t.seen}
  PROVE  s.clock = t.clock
<1>1. \A r \in DOMAIN s.clock : s.clock[r] <= Get(t.clock, r) /\ s.clock[r] \in Nat \ {0}
  BY ClockOrderIsInclusion DEF StateOK
<1>2. \A r \in DOMAIN t.clock : t.clock[r] <= Get(s.clock, r) /\ t.clock[r] \in Nat \ {0}
  BY ClockOrderIsInclusion DEF StateOK
<1>3. DOMAIN s.clock = DOMAIN t.clock
  <2>1. ASSUME NEW r \in DOMAIN s.clock PROVE r \in DOMAIN t.clock
    <3>1. r \notin DOMAIN t.clock => Get(t.clock, r) = 0
      BY DEF Get
    <3> QED BY <1>1, <3>1
  <2>2. ASSUME NEW r \in DOMAIN t.clock PROVE r \in DOMAIN s.clock
    <3>1. r \notin DOMAIN s.clock => Get(s.clock, r) = 0
      BY DEF Get
    <3> QED BY <1>2, <3>1
  <2> QED BY <2>1, <2>2
<1>4. \A r \in DOMAIN s.clock : s.clock[r] = t.clock[r]
  BY <1>1, <1>2, <1>3 DEF Get
<1>5. /\ s.clock = [r \in DOMAIN s.clock |-> s.clock[r]]
      /\ t.clock = [r \in DOMAIN t.clock |-> t.clock[r]]
  BY DEF StateOK
<1> QED BY <1>3, <1>4, <1>5

\* What partial_cmp() answers.
LEMMA AnswersOfPartialCmp ==
  ASSUME NEW W, WritesOK(W), NEW s, StateOK(s, W), NEW t, StateOK(t, W)
  PROVE  LET le == \A r \in DOMAIN s.clock : s.clock[r] <= Get(t.clock, r)
             ge == \A r \in DOMAIN t.clock : t.clock[r] <= Get(s.clock, r)
             answer == PartialCmp(s.clock, t.clock)
         IN  /\ answer = "Equal" <=> le /\ ge
             /\ answer \in {"Equal", "Less"} <=> le
             /\ answer \in {"Equal", "Greater"} <=> ge
<1> DEFINE c == s.clock
           d == t.clock
           le == \A r \in DOMAIN c : c[r] <= Get(d, r)
           ge == \A r \in DOMAIN d : d[r] <= Get(c, r)
           GE == /\ \A r \in DOMAIN c : c[r] >= Get(d, r)
                 /\ \A r \in DOMAIN d : Get(c, r) >= d[r]
<1>1. \A r : Get(c, r) \in Nat /\ Get(d, r) \in Nat
  BY GetIsNat
<1>2. /\ \A r \in DOMAIN c : c[r] = Get(c, r)
      /\ \A r \in DOMAIN d : d[r] = Get(d, r)
      /\ \A r : r \notin DOMAIN d => Get(d, r) = 0
  BY DEF Get
<1>3. GE <=> ge
  <2> HIDE DEF c, d
  <2> QED BY <1>1, <1>2
<1>4. PartialCmp(c, d) = CASE le /\ GE -> "Equal" [] le /\ ~GE -> "Less"
                           [] ~le /\ GE -> "Greater" [] OTHER -> "None"
  BY DEF PartialCmp
<1> HIDE DEF c, d, le, ge, GE
<1>5. /\ PartialCmp(c, d) = "Equal" <=> le /\ ge
      /\ PartialCmp(c, d) \in {"Equal", "Less"} <=> le
      /\ PartialCmp(c, d) \in {"Equal", "Greater"} <=> ge
  BY <1>3, <1>4
<1> QED BY <1>5 DEF c, d, le, ge

\* Theorem: a clock is its replica's causal history (clock.rs): it covers the
\* writes received and no other, and comparing clocks compares histories.
THEOREM ClocksAreExact == Spec => []ClocksAreHistories
<1>1. IInv => ClocksAreHistories
  <2> SUFFICES ASSUME IInv PROVE ClocksAreHistories
    OBVIOUS
  <2>1. WritesOK(Written) /\ \A s \in States : StateOK(s, Written)
    BY StatesAreOK
  <2>2. ASSUME NEW s \in States, NEW w \in Written
        PROVE  Covers(s.clock, w.dot) <=> w.dot \in {v.dot : v \in s.seen}
    <3>1. StateOK(s, Written)
      BY <2>1
    <3>2. Covers(s.clock, w.dot) <=> w \in s.seen
      BY <3>1 DEF StateOK
    <3>3. s.seen \subseteq Written
      BY <3>1 DEF StateOK
    <3>4. w.dot \in {v.dot : v \in s.seen} <=> w \in s.seen
      BY <2>1, <3>3 DEF WritesOK
    <3> QED BY <3>2, <3>4
  <2>3. ASSUME NEW s \in States, NEW t \in States
        PROVE  LET Got(u) == {w.dot : w \in u.seen}
               IN  /\ PartialCmp(s.clock, t.clock) = "Equal" <=> Got(s) = Got(t)
                   /\ PartialCmp(s.clock, t.clock) \in {"Equal", "Less"} <=> Got(s) \subseteq Got(t)
                   /\ PartialCmp(s.clock, t.clock) \in {"Equal", "Greater"} <=> Got(t) \subseteq Got(s)
                   /\ Got(s) = Got(t) => s.clock = t.clock
    <3> DEFINE le == \A r \in DOMAIN s.clock : s.clock[r] <= Get(t.clock, r)
               ge == \A r \in DOMAIN t.clock : t.clock[r] <= Get(s.clock, r)
               S == {w.dot : w \in s.seen}
               T == {w.dot : w \in t.seen}
    <3>1. StateOK(s, Written) /\ StateOK(t, Written)
      BY <2>1
    <3>2. (le <=> S \subseteq T) /\ (ge <=> T \subseteq S)
      BY <2>1, <3>1, ClockOrderIsInclusion
    <3>3. /\ PartialCmp(s.clock, t.clock) = "Equal" <=> le /\ ge
          /\ PartialCmp(s.clock, t.clock) \in {"Equal", "Less"} <=> le
          /\ PartialCmp(s.clock, t.clock) \in {"Equal", "Greater"} <=> ge
      BY <2>1, <3>1, AnswersOfPartialCmp
    <3>4. S = T => s.clock = t.clock
      BY <2>1, <3>1, OneHistoryOneClock
    <3>5. S = T <=> S \subseteq T /\ T \subseteq S
      OBVIOUS
    <3> HIDE DEF le, ge, S, T
    <3>6. /\ PartialCmp(s.clock, t.clock) = "Equal" <=> S = T
          /\ PartialCmp(s.clock, t.clock) \in {"Equal", "Less"} <=> S \subseteq T
          /\ PartialCmp(s.clock, t.clock) \in {"Equal", "Greater"} <=> T \subseteq S
      BY <3>2, <3>3, <3>5
    <3> QED BY <3>4, <3>6 DEF S, T
  <2>4. \A s \in States, d \in {w.dot : w \in Written} :
          Covers(s.clock, d) <=> d \in {w.dot : w \in s.seen}
    BY <2>2
  <2> QED BY <2>3, <2>4, Zenon DEF ClocksAreHistories
<1> QED BY <1>1, InvariantHolds, PTL

-----------------------------------------------------------------------------
(* What the lane loses *)

\* The last write to its key, in a set of writes; a write that another was
\* based on; and those that are lost: neither.
TopOf(S, w) == \A v \in S : v.key = w.key /\ v # w => Loses(v, w)
Based(S, w) == \E v \in S : w.dot \in v.on
Lost(S) == {w \in S : ~TopOf(S, w) /\ ~Based(S, w)}

\* What is true of a replica's state s in the lane, when O are the writes that
\* the other one has seen and n rounds have been played: the writes since the
\* last sync are the latest;
Recent(s, O, n) ==
  /\ IsFiniteSet(s.seen)
  /\ \A w \in s.seen : w.ts \in Nat /\ w.ts <= n
  /\ \A w \in s.seen \ O, c \in s.seen \cap O : c.ts < w.ts

\* a write was based on earlier ones of its key, which the replica has seen;
OnEarlier(s) ==
  \A v \in s.seen : \A d \in v.on :
     \E w \in s.seen : w.dot = d /\ w.key = v.key /\ w.ts < v.ts

\* what is not held, and nothing was based on, was lost at an earlier sync;
Superseded(s, O) ==
  \A w \in s.seen :
     \/ TopOf(s.seen, w) \/ Based(s.seen, w)
     \/ w \in O /\ ~TopOf(s.seen \cap O, w)

\* of what both have seen, only the last write to a key is built upon;
OnTop(s, O) ==
  \A v \in s.seen \ O, c \in s.seen \cap O : c.dot \in v.on => TopOf(s.seen \cap O, c)

\* and a value written since the last sync knew, of the other's writes, those
\* that both have seen.
KnewCommon(s, O) ==
  \A h \in s.seen \ O : TopOf(s.seen, h) =>
     /\ \A v \in O : Covers(s.map[h.key].value.knew, v.dot) <=> v \in s.seen
     /\ \A q \in Replicas : /\ Get(s.map[h.key].value.knew, q) \in Nat
                            /\ Get(s.map[h.key].value.knew, q) <= Get(s.clock, q)

Side(s, O, n) ==
  Recent(s, O, n) /\ OnEarlier(s) /\ Superseded(s, O) /\ OnTop(s, O) /\ KnewCommon(s, O)

LaneInv ==
  mode = "lane" =>
    /\ \A r \in Replicas \ {1, 2} : at[r].seen = {}
    /\ Side(at[1], at[2].seen, now)
    /\ Side(at[2], at[1].seen, now)
    /\ over \in Nat /\ conc \in Nat /\ over >= conc
    /\ conc = Cardinality(Lost(at[1].seen \cap at[2].seen))

\* Of two writes only one comes first.
LEMMA LosesIsStrict ==
  ASSUME NEW W, WritesOK(W), NEW u \in W, NEW v \in W, Loses(u, v)
  PROVE  ~Loses(v, u) /\ u # v
<1>1. /\ u.ts \in Nat /\ v.ts \in Nat
      /\ u.dot.replica \in Nat /\ v.dot.replica \in Nat
      /\ u.dot.counter \in Nat /\ v.dot.counter \in Nat
  BY ReplicasAssumption DEF WritesOK, Dots
<1> QED BY <1>1 DEF Loses

\* A map holds the last writes to the keys it has, and no others.
LEMMA HeldIsTop ==
  ASSUME NEW W, WritesOK(W), NEW s, HoldsWinners(s), s.seen \subseteq W
  PROVE  /\ \A k \in DOMAIN s.map : \E h \in s.seen :
              /\ h.key = k /\ TopOf(s.seen, h) /\ h.dot = s.map[k].value.dot
              /\ h.ts = s.map[k].ts /\ h.dot.replica = s.map[k].replica
         /\ \A w \in s.seen :
              /\ w.key \in DOMAIN s.map
              /\ TopOf(s.seen, w) <=> w.dot = s.map[w.key].value.dot
              /\ TopOf(s.seen, w) => w.ts = s.map[w.key].ts /\ w.dot.replica = s.map[w.key].replica
<1>1. ASSUME NEW k \in DOMAIN s.map
      PROVE  \E h \in s.seen :
              /\ h.key = k /\ TopOf(s.seen, h) /\ h.dot = s.map[k].value.dot
              /\ h.ts = s.map[k].ts /\ h.dot.replica = s.map[k].replica
  BY HeldWinner DEF TopOf
<1>2. ASSUME NEW w \in s.seen
      PROVE  /\ w.key \in DOMAIN s.map
             /\ TopOf(s.seen, w) <=> w.dot = s.map[w.key].value.dot
             /\ TopOf(s.seen, w) => w.ts = s.map[w.key].ts /\ w.dot.replica = s.map[w.key].replica
  <2>1. w.key \in DOMAIN s.map
    BY DEF HoldsWinners
  <2>2. PICK h \in s.seen :
          /\ h.key = w.key /\ TopOf(s.seen, h) /\ h.dot = s.map[w.key].value.dot
          /\ h.ts = s.map[w.key].ts /\ h.dot.replica = s.map[w.key].replica
    BY <1>1, <2>1
  <2>3. CASE w = h
    BY <2>1, <2>2, <2>3
  <2>4. CASE w # h
    <3>1. Loses(w, h)
      BY <2>2, <2>4 DEF TopOf
    <3>2. ~Loses(h, w)
      BY <3>1, LosesIsStrict
    <3>3. ~TopOf(s.seen, w)
      BY <2>2, <2>4, <3>2 DEF TopOf
    <3>4. w.dot # h.dot
      BY <2>4 DEF WritesOK
    <3> QED BY <2>1, <2>2, <3>3, <3>4
  <2> QED BY <2>3, <2>4
<1> QED BY <1>1, <1>2

\* A round of the lane, seen from one side: the replica writes w, and the
\* other one wo.
LEMMA WriteKeepsSide ==
  ASSUME NEW n \in Nat, NEW V, WritesOK(V), NEW s, NEW O, s.seen \subseteq V, O \subseteq V,
         HoldsWinners(s), Side(s, O, n),
         \A q \in Replicas : Get(s.clock, q) \in Nat,
         \A v \in O : v \in s.seen <=> Covers(s.clock, v.dot),
         NEW r \in Replicas, NEW k,
         NEW w \in V, w = [key |-> k, ts |-> n + 1, dot |-> NextDot(s.clock, r), on |-> Held(s.map, k)],
         NEW wo \in V, wo \notin s.seen, ~Covers(s.clock, wo.dot),
         w # wo, w \notin s.seen, w \notin O,
         NEW t, t = AfterWrite(s, r, k, n + 1)
  PROVE  Side(t, O \cup {wo}, n + 1)
<1> DEFINE P == O \cup {wo}
           C == s.seen \cap O
           reg == [value |-> [dot |-> w.dot, knew |-> s.clock], ts |-> n + 1, replica |-> r]
<1>1. /\ t.seen = s.seen \cup {w}
      /\ t.map = Set(s.map, k, reg)
      /\ t.clock = Tick(s.clock, r)
      /\ w.key = k /\ w.ts = n + 1 /\ w.on = Held(s.map, k)
  BY DEF AfterWrite
<1>2. /\ t.seen \cap P = C
      /\ t.seen \ P = (s.seen \ O) \cup {w}
  BY <1>1
<1>3. \A q \in Replicas : Get(t.clock, q) \in Nat /\ Get(s.clock, q) <= Get(t.clock, q)
  BY <1>1 DEF Tick, Get
<1>4. \A v \in s.seen : v.ts \in Nat /\ v.ts < w.ts
  BY <1>1 DEF Side, Recent
<1>5. TopOf(t.seen, w)
  BY <1>1, <1>4 DEF TopOf, Loses
<1>6. \A v \in s.seen : ~Loses(w, v)
  <2> SUFFICES ASSUME NEW v \in s.seen PROVE ~Loses(w, v)
    OBVIOUS
  <2>1. Loses(v, w)
    BY <1>4 DEF Loses
  <2> QED BY <2>1, LosesIsStrict
<1>7. \A v \in s.seen : TopOf(t.seen, v) <=> TopOf(s.seen, v) /\ v.key # k
  BY <1>1, <1>4, <1>6 DEF TopOf
<1>8. /\ k \in DOMAIN t.map /\ t.map[k].value.knew = s.clock
      /\ \A j \in DOMAIN s.map : j # k => t.map[j] = s.map[j]
  <2>1. k \in DOMAIN s.map => Wins(reg, s.map[k])
    <3> SUFFICES ASSUME k \in DOMAIN s.map PROVE Wins(reg, s.map[k])
      OBVIOUS
    <3>1. PICK h \in s.seen : h.ts = s.map[k].ts
      BY HeldWinner
    <3>2. s.map[k].ts \in Nat /\ s.map[k].ts < reg.ts
      BY <1>1, <1>4, <3>1
    <3> QED BY <3>2 DEF Wins
  <2>2. t.map = [j \in DOMAIN s.map \cup {k} |-> IF j = k THEN reg ELSE s.map[j]]
    BY <1>1, <2>1 DEF Set
  <2> QED BY <2>2
<1>9. \A v \in s.seen : v.key = k => (v.dot \in w.on <=> TopOf(s.seen, v))
  <2> SUFFICES ASSUME NEW v \in s.seen, v.key = k PROVE v.dot \in w.on <=> TopOf(s.seen, v)
    OBVIOUS
  <2>1. k \in DOMAIN s.map /\ (TopOf(s.seen, v) <=> v.dot = s.map[k].value.dot)
    BY HeldIsTop
  <2>2. w.on = {s.map[k].value.dot}
    BY <1>1, <2>1 DEF Held
  <2> QED BY <2>1, <2>2
<1>10. \A d \in w.on : \E h \in s.seen : h.dot = d /\ h.key = k /\ TopOf(s.seen, h)
  <2> SUFFICES ASSUME NEW d \in w.on PROVE \E h \in s.seen : h.dot = d /\ h.key = k /\ TopOf(s.seen, h)
    OBVIOUS
  <2>1. k \in DOMAIN s.map /\ d = s.map[k].value.dot
    BY <1>1 DEF Held
  <2> QED BY <2>1, HeldIsTop
<1> HIDE DEF reg
<1>11. Recent(t, P, n + 1)
  <2>1. IsFiniteSet(t.seen)
    BY <1>1, FS_AddElement DEF Side, Recent
  <2>2. \A v \in t.seen : v.ts \in Nat /\ v.ts <= n + 1
    BY <1>1, <1>4
  <2>3. \A v \in t.seen \ P, c \in t.seen \cap P : c.ts < v.ts
    BY <1>2, <1>4 DEF Side, Recent
  <2> QED BY <2>1, <2>2, <2>3 DEF Recent
<1>12. OnEarlier(t)
  <2> SUFFICES ASSUME NEW v \in t.seen, NEW d \in v.on
               PROVE  \E u \in t.seen : u.dot = d /\ u.key = v.key /\ u.ts < v.ts
    BY DEF OnEarlier
  <2>1. CASE v = w
    BY <1>1, <1>4, <1>10, <2>1
  <2>2. CASE v \in s.seen
    BY <1>1, <2>2 DEF Side, OnEarlier
  <2> QED BY <1>1, <2>1, <2>2
<1>13. Superseded(t, P)
  <2> SUFFICES ASSUME NEW v \in t.seen
               PROVE  \/ TopOf(t.seen, v) \/ Based(t.seen, v)
                      \/ v \in P /\ ~TopOf(t.seen \cap P, v)
    BY DEF Superseded
  <2>1. CASE v = w
    BY <1>5, <2>1
  <2>2. CASE v \in s.seen /\ TopOf(s.seen, v) /\ v.key = k
    <3>1. v.dot \in w.on
      BY <1>9, <2>2
    <3> QED BY <1>1, <3>1 DEF Based
  <2>3. CASE v \in s.seen /\ TopOf(s.seen, v) /\ v.key # k
    BY <1>7, <2>3
  <2>4. CASE v \in s.seen /\ Based(s.seen, v)
    BY <1>1, <2>4 DEF Based
  <2>5. CASE v \in s.seen /\ v \in O /\ ~TopOf(C, v)
    BY <1>2, <2>5
  <2> QED BY <1>1, <2>1, <2>2, <2>3, <2>4, <2>5 DEF Side, Superseded
<1>14. OnTop(t, P)
  <2> SUFFICES ASSUME NEW v \in t.seen \ P, NEW c \in t.seen \cap P, c.dot \in v.on
               PROVE  TopOf(C, c)
    BY <1>2 DEF OnTop
  <2>1. CASE v = w
    <3>1. PICK h \in s.seen : h.dot = c.dot /\ TopOf(s.seen, h)
      BY <1>10, <2>1
    <3>2. h = c
      BY <1>2, <3>1 DEF WritesOK
    <3> QED BY <3>1, <3>2 DEF TopOf
  <2>2. CASE v \in s.seen \ O
    BY <1>2, <2>2 DEF Side, OnTop
  <2> QED BY <1>2, <2>1, <2>2
<1>15. KnewCommon(t, P)
  <2> SUFFICES ASSUME NEW h \in t.seen \ P, TopOf(t.seen, h)
               PROVE  /\ \A v \in P : Covers(t.map[h.key].value.knew, v.dot) <=> v \in t.seen
                      /\ \A q \in Replicas : /\ Get(t.map[h.key].value.knew, q) \in Nat
                                             /\ Get(t.map[h.key].value.knew, q) <= Get(t.clock, q)
    BY DEF KnewCommon
  <2>1. CASE h = w
    <3>1. t.map[h.key].value.knew = s.clock
      BY <1>1, <1>8, <2>1
    <3>2. \A v \in P : Covers(s.clock, v.dot) <=> v \in t.seen
      BY <1>1
    <3> QED BY <1>3, <3>1, <3>2
  <2>2. CASE h \in s.seen \ O
    <3>1. TopOf(s.seen, h) /\ h.key # k
      BY <1>7, <2>2
    <3>2. t.map[h.key] = s.map[h.key]
      <4>1. h.key \in DOMAIN s.map
        BY <2>2, HeldIsTop
      <4> QED BY <1>8, <3>1, <4>1
    <3> DEFINE knew == s.map[h.key].value.knew
    <3>3. /\ \A v \in O : Covers(knew, v.dot) <=> v \in s.seen
          /\ \A q \in Replicas : Get(knew, q) \in Nat /\ Get(knew, q) <= Get(s.clock, q)
      BY <2>2, <3>1 DEF Side, KnewCommon
    <3> HIDE DEF knew
    <3>4. ~Covers(knew, wo.dot)
      <4>1. wo.dot.replica \in Replicas /\ wo.dot.counter \in Nat
        BY DEF WritesOK, Dots
      <4> QED BY <3>3, <4>1 DEF Covers
    <3>5. \A v \in P : Covers(knew, v.dot) <=> v \in t.seen
      BY <1>1, <3>3, <3>4
    <3>6. \A q \in Replicas : Get(knew, q) \in Nat /\ Get(knew, q) <= Get(t.clock, q)
      BY <1>3, <3>3
    <3> QED BY <3>2, <3>5, <3>6 DEF knew
  <2> QED BY <1>2, <2>1, <2>2
<1> QED BY <1>11, <1>12, <1>13, <1>14, <1>15 DEF Side

\* t is what a sync leaves of x and y, at either replica.
Synced(t, x, y, n) ==
  Side(x, y.seen, n) /\ Side(y, x.seen, n) /\ t.seen = x.seen \cup y.seen

\* Then both have seen everything, and there is nothing else to keep.
LEMMA SyncKeepsSide ==
  ASSUME NEW n, NEW x, NEW y, NEW t, Synced(t, x, y, n)
  PROVE  Side(t, t.seen, n)
<1> USE DEF Synced
<1>1. Recent(t, t.seen, n)
  <2>1. IsFiniteSet(t.seen)
    BY FS_Union DEF Side, Recent
  <2> QED BY <2>1 DEF Side, Recent
<1>2. OnEarlier(t)
  <2> SUFFICES ASSUME NEW v \in t.seen, NEW d \in v.on
               PROVE  \E u \in t.seen : u.dot = d /\ u.key = v.key /\ u.ts < v.ts
    BY DEF OnEarlier
  <2>1. CASE v \in x.seen
    BY <2>1 DEF Side, OnEarlier
  <2>2. CASE v \in y.seen
    BY <2>2 DEF Side, OnEarlier
  <2> QED BY <2>1, <2>2
<1>3. Superseded(t, t.seen)
  BY DEF Superseded
<1>4. OnTop(t, t.seen) /\ KnewCommon(t, t.seen)
  BY DEF OnTop, KnewCommon
<1> QED BY <1>1, <1>2, <1>3, <1>4 DEF Side

\* The writes that only s has seen, and that a sync with the other replica,
\* which has seen O, loses.
LostAt(s, O) == {l \in Lost(s.seen \cup O) : l \notin O}

\* What is known when s is about to merge o, in a world of writes V: o has seen
\* O and perhaps some of s, and where it holds a write that s has not seen, it
\* holds the value that knew what is common.  (It is either the other
\* replica's state or what that replica's own merge left.)
Meets(V, s, O, n, o) ==
  /\ WritesOK(V) /\ s.seen \subseteq V /\ O \subseteq V
  /\ HoldsWinners(s) /\ Side(s, O, n)
  /\ \A v \in O : \A d \in v.on : \E u \in O : u.dot = d
  /\ \A u \in s.seen \ O, v \in O \ s.seen : u.dot.replica # v.dot.replica
  /\ HoldsWinners(o) /\ O \subseteq o.seen /\ o.seen \subseteq O \cup s.seen
  /\ \A g \in O \ s.seen : TopOf(o.seen, g) =>
        \A v \in s.seen : Covers(o.map[g.key].value.knew, v.dot) <=> v \in O

\* What merge_classified then counts as concurrent are those writes' keys.
LEMMA ConcurrentAreLost ==
  ASSUME NEW V, NEW s, NEW O, NEW n, NEW o, Meets(V, s, O, n, o)
  PROVE  Concurrent(s.map, o.map) = {w.key : w \in LostAt(s, O)}
<1> USE DEF Meets
<1> DEFINE W == s.seen \cup O
<1>1. o.seen \subseteq V
  OBVIOUS
<1>2. ASSUME NEW k \in Concurrent(s.map, o.map)
      PROVE  \E w \in Lost(W) : w \notin O /\ w.key = k
  <2>1. /\ k \in DOMAIN s.map /\ k \in DOMAIN o.map
        /\ Wins(o.map[k], s.map[k]) /\ ~Causal(s.map[k].value, o.map[k].value)
    BY <1>2 DEF Concurrent, Replaced
  <2>2. PICK h \in s.seen :
          /\ h.key = k /\ TopOf(s.seen, h) /\ h.dot = s.map[k].value.dot
          /\ h.ts = s.map[k].ts /\ h.dot.replica = s.map[k].replica
    BY <2>1, HeldIsTop
  <2>3. PICK g \in o.seen :
          /\ g.key = k /\ TopOf(o.seen, g) /\ g.dot = o.map[k].value.dot
          /\ g.ts = o.map[k].ts /\ g.dot.replica = o.map[k].replica
    BY <1>1, <2>1, HeldIsTop
  <2>4. Loses(h, g)
    BY <2>1, <2>2, <2>3 DEF Wins, Loses, Side, Recent
  <2>5. ~Loses(g, h) /\ h # g
    BY <1>1, <2>4, LosesIsStrict
  <2>6. g \in O \ s.seen
    BY <2>2, <2>3, <2>5 DEF TopOf
  <2>7. h \notin O
    <3>1. ~Covers(o.map[k].value.knew, h.dot)
      BY <2>1, <2>2, <2>3 DEF Causal
    <3> QED BY <2>3, <2>6, <3>1
  <2>8. ~TopOf(W, h)
    BY <2>2, <2>3, <2>5, <2>6 DEF TopOf
  <2>9. ~Based(W, h)
    <3> SUFFICES ASSUME NEW v \in W, h.dot \in v.on PROVE FALSE
      BY DEF Based
    <3>1. CASE v \in s.seen
      <4>1. PICK u \in s.seen : u.dot = h.dot /\ u.key = v.key /\ u.ts < v.ts
        BY <3>1 DEF Side, OnEarlier
      <4>2. u = h
        BY <4>1 DEF WritesOK
      <4>3. v # h /\ Loses(h, v)
        BY <3>1, <4>1, <4>2 DEF Loses, Side, Recent
      <4>4. ~Loses(v, h)
        BY <3>1, <4>3, LosesIsStrict
      <4> QED BY <2>2, <3>1, <4>1, <4>2, <4>3, <4>4 DEF TopOf
    <3>2. CASE v \in O
      <4>1. PICK u \in O : u.dot = h.dot
        BY <3>2
      <4> QED BY <2>7, <4>1 DEF WritesOK
    <3> QED BY <3>1, <3>2
  <2>10. h \in Lost(W)
    BY <2>8, <2>9 DEF Lost
  <2> QED BY <2>2, <2>7, <2>10
<1>3. ASSUME NEW w \in Lost(W), w \notin O
      PROVE  w.key \in Concurrent(s.map, o.map)
  <2>1. w \in s.seen /\ ~TopOf(W, w) /\ ~Based(W, w)
    BY <1>3 DEF Lost
  <2>2. TopOf(s.seen, w)
    <3>1. ~Based(s.seen, w)
      BY <2>1 DEF Based
    <3> QED BY <1>3, <2>1, <3>1 DEF Side, Superseded
  <2>3. PICK v \in W : v.key = w.key /\ v # w /\ ~Loses(v, w)
    BY <2>1 DEF TopOf
  <2>4. v \in O
    BY <2>2, <2>3 DEF TopOf
  <2>5. Loses(w, v)
    BY <2>1, <2>3, <2>4, LosesIsTotal
  <2>6. w.key \in DOMAIN s.map /\ w.key \in DOMAIN o.map
    <3>1. v \in o.seen
      BY <2>4
    <3> QED BY <2>1, <2>3, <3>1 DEF HoldsWinners
  <2>7. PICK g \in o.seen :
          /\ g.key = w.key /\ TopOf(o.seen, g) /\ g.dot = o.map[w.key].value.dot
          /\ g.ts = o.map[w.key].ts /\ g.dot.replica = o.map[w.key].replica
    BY <1>1, <2>6, HeldIsTop
  <2>8. Loses(w, g)
    <3>1. v = g \/ Loses(v, g)
      BY <2>3, <2>4, <2>7 DEF TopOf
    <3>2. w \in V /\ v \in V /\ g \in V
      BY <1>1, <2>1, <2>4
    <3> QED BY <2>5, <3>1, <3>2, LosesIsTransitive
  <2>9. ~Loses(g, w) /\ w # g
    BY <1>1, <2>1, <2>8, LosesIsStrict
  <2>10. g \in O \ s.seen
    BY <2>2, <2>7, <2>9 DEF TopOf
  <2>11. w.dot.replica # g.dot.replica
    BY <1>3, <2>1, <2>10
  <2>12. /\ w.dot = s.map[w.key].value.dot
         /\ w.ts = s.map[w.key].ts /\ w.dot.replica = s.map[w.key].replica
    BY <2>1, <2>2, HeldIsTop
  <2>13. Wins(o.map[w.key], s.map[w.key])
    <3>1. w.ts \in Nat /\ g.ts \in Nat
      BY <1>1, <2>1 DEF WritesOK
    <3>2. w.dot.replica \in Nat /\ g.dot.replica \in Nat
      BY <1>1, <2>1, ReplicasAssumption DEF WritesOK, Dots
    <3> QED BY <2>7, <2>8, <2>11, <2>12, <3>1, <3>2 DEF Wins, Loses
  <2>14. ~Causal(s.map[w.key].value, o.map[w.key].value)
    <3>1. ~Covers(o.map[w.key].value.knew, w.dot)
      BY <1>3, <2>1, <2>7, <2>10
    <3> QED BY <2>7, <2>11, <2>12, <3>1 DEF Causal
  <2> QED BY <2>6, <2>13, <2>14 DEF Concurrent, Replaced
<1> HIDE DEF W
<1>4. LostAt(s, O) = {l \in Lost(W) : l \notin O}
  BY DEF LostAt, W
<1> QED BY <1>2, <1>3, <1>4

\* They are counted right: no two of them are of one key.
LEMMA LostAreCounted ==
  ASSUME NEW V, NEW s, NEW O, NEW n, NEW o, Meets(V, s, O, n, o)
  PROVE  /\ IsFiniteSet(LostAt(s, O))
         /\ Cardinality(Concurrent(s.map, o.map)) = Cardinality(LostAt(s, O))
<1> DEFINE L == LostAt(s, O)
<1>1. /\ L \subseteq s.seen
      /\ \A w \in L : w \notin O /\ ~Based(s.seen, w)
  BY DEF LostAt, Lost, Based
<1>2. WritesOK(V) /\ s.seen \subseteq V /\ IsFiniteSet(s.seen) /\ Superseded(s, O)
  BY DEF Meets, Side, Recent
<1> HIDE DEF L
<1>3. IsFiniteSet(L) /\ \A w \in L : TopOf(s.seen, w)
  BY <1>1, <1>2, FS_Subset DEF Superseded
<1>4. \A u, v \in L : u.key = v.key => u = v
  <2> SUFFICES ASSUME NEW u \in L, NEW v \in L, u.key = v.key, u # v PROVE FALSE
    OBVIOUS
  <2>1. Loses(u, v) /\ Loses(v, u)
    BY <1>1, <1>3 DEF TopOf
  <2> QED BY <1>1, <1>2, <2>1, LosesIsStrict
<1> DEFINE K == {w.key : w \in L}
           f == [w \in L |-> w.key]
<1>5. f \in Bijection(L, K)
  BY <1>4 DEF Bijection, Injection, Surjection, IsInjective
<1>6. Cardinality(K) = Cardinality(L)
  <2> HIDE DEF f, K
  <2>1. ExistsBijection(L, K)
    BY <1>5 DEF ExistsBijection
  <2> QED BY <1>3, <2>1, FS_Bijection
<1>7. Concurrent(s.map, o.map) = K
  BY ConcurrentAreLost DEF L
<1> QED BY <1>3, <1>6, <1>7 DEF L

\* What was lost at earlier syncs stays lost, and of what both have seen
\* nothing else is.
LEMMA LostStays ==
  ASSUME NEW n, NEW x, NEW y, Side(x, y.seen, n), Side(y, x.seen, n)
  PROVE  {l \in Lost(x.seen \cup y.seen) : l \in x.seen /\ l \in y.seen} = Lost(x.seen \cap y.seen)
<1> DEFINE C == x.seen \cap y.seen
           W == x.seen \cup y.seen
<1>1. ASSUME NEW w \in Lost(C) PROVE w \in Lost(W) /\ w \in x.seen /\ w \in y.seen
  <2>1. w \in C /\ ~TopOf(C, w) /\ ~Based(C, w)
    BY <1>1 DEF Lost
  <2>2. ~TopOf(W, w)
    BY <2>1 DEF TopOf
  <2>3. ~Based(W, w)
    <3> SUFFICES ASSUME NEW v \in W, w.dot \in v.on PROVE FALSE
      BY DEF Based
    <3>1. CASE v \in C
      BY <2>1, <3>1 DEF Based
    <3>2. CASE v \in x.seen \ y.seen
      BY <2>1, <3>2 DEF Side, OnTop
    <3>3. CASE v \in y.seen \ x.seen
      <4>1. y.seen \cap x.seen = C
        OBVIOUS
      <4> QED BY <2>1, <3>3, <4>1 DEF Side, OnTop
    <3> QED BY <3>1, <3>2, <3>3
  <2> QED BY <2>1, <2>2, <2>3 DEF Lost
<1>2. ASSUME NEW w \in Lost(W), w \in x.seen, w \in y.seen PROVE w \in Lost(C)
  <2>1. ~TopOf(W, w) /\ ~Based(W, w)
    BY <1>2 DEF Lost
  <2>2. ~Based(C, w) /\ ~Based(x.seen, w) /\ ~Based(y.seen, w)
    BY <2>1 DEF Based
  <2>3. ~TopOf(C, w)
    <3> SUFFICES ASSUME TopOf(C, w) PROVE FALSE
      OBVIOUS
    <3>1. TopOf(x.seen, w)
      BY <1>2, <2>2 DEF Side, Superseded
    <3>2. TopOf(y.seen, w)
      <4>1. y.seen \cap x.seen = C
        OBVIOUS
      <4> QED BY <1>2, <2>2, <4>1 DEF Side, Superseded
    <3> QED BY <2>1, <3>1, <3>2 DEF TopOf
  <2> QED BY <1>2, <2>2, <2>3 DEF Lost
<1> HIDE DEF W, C
<1>3. {l \in Lost(W) : l \in x.seen /\ l \in y.seen} = Lost(C)
  BY <1>1, <1>2
<1> QED BY <1>3 DEF W, C

\* The sizes of two sets without a common element add up.
LEMMA DisjointUnion ==
  ASSUME NEW S, IsFiniteSet(S), NEW T, IsFiniteSet(T), S \cap T = {}
  PROVE  /\ IsFiniteSet(S \cup T)
         /\ Cardinality(S \cup T) = Cardinality(S) + Cardinality(T)
<1>1. Cardinality(S) \in Nat /\ Cardinality(T) \in Nat /\ Cardinality(S \cap T) = 0
  BY FS_CardinalityType, FS_EmptySet
<1>2. /\ IsFiniteSet(S \cup T)
      /\ Cardinality(S \cup T) = Cardinality(S) + Cardinality(T) - Cardinality(S \cap T)
  BY FS_Union
<1> QED BY <1>1, <1>2

\* Both counts of a merge are numbers, and what is concurrent was replaced.
LEMMA CountsAreNumbers ==
  ASSUME NEW s, HoldsWinners(s), IsFiniteSet(s.seen), NEW m
  PROVE  /\ Cardinality(Replaced(s.map, m)) \in Nat
         /\ Cardinality(Concurrent(s.map, m)) \in Nat
         /\ Cardinality(Concurrent(s.map, m)) <= Cardinality(Replaced(s.map, m))
<1> DEFINE K == {w.key : w \in s.seen}
           f == [w \in s.seen |-> w.key]
<1>1. f \in Surjection(s.seen, K)
  BY DEF Surjection
<1>2. IsFiniteSet(K)
  <2> HIDE DEF f, K
  <2> QED BY <1>1, FS_Surjection
<1>3. Replaced(s.map, m) \subseteq K
  BY DEF HoldsWinners, Replaced
<1>4. Concurrent(s.map, m) \subseteq Replaced(s.map, m)
  BY DEF Concurrent
<1>5. IsFiniteSet(Replaced(s.map, m))
  <2> HIDE DEF K
  <2> QED BY <1>2, <1>3, FS_Subset
<1> QED BY <1>4, <1>5, FS_Subset, FS_CardinalityType

\* A round of the lane keeps all of this.
LEMMA WriteBothKeepsLaneInv ==
  ASSUME IInv, IInv', LaneInv, NEW k1, NEW k2, WriteBoth(k1, k2)
  PROVE  LaneInv'
<1> DEFINE x == at[1]
           y == at[2]
           V == WrittenIn(at')
           w1 == [key |-> k1, ts |-> now + 1, dot |-> NextDot(x.clock, 1), on |-> Held(x.map, k1)]
           w2 == [key |-> k2, ts |-> now + 1, dot |-> NextDot(y.clock, 2), on |-> Held(y.map, k2)]
<1>1. /\ mode = "lane" /\ mode' = mode /\ over' = over /\ conc' = conc /\ now' = now + 1
      /\ at' = [at EXCEPT ![1] = AfterWrite(x, 1, k1, now + 1),
                          ![2] = AfterWrite(y, 2, k2, now + 1)]
  BY DEF WriteBoth
<1>2. 1 \in Replicas /\ 2 \in Replicas /\ now \in Nat
  BY ReplicasAssumption DEF IInv
<1>3. /\ World(at, published) /\ World(at', published')
      /\ at = [r \in Replicas |-> at[r]]
  BY DEF IInv, World
<1>4. /\ at'[1] = AfterWrite(x, 1, k1, now + 1)
      /\ at'[2] = AfterWrite(y, 2, k2, now + 1)
      /\ \A r \in Replicas \ {1, 2} : at'[r] = at[r]
  BY <1>1, <1>2, <1>3
<1>5. at'[1].seen = x.seen \cup {w1} /\ at'[2].seen = y.seen \cup {w2}
  BY <1>4 DEF AfterWrite
<1>6. /\ \A r \in Replicas \ {1, 2} : at[r].seen = {}
      /\ Side(x, y.seen, now) /\ Side(y, x.seen, now)
      /\ over \in Nat /\ conc \in Nat /\ over >= conc
      /\ conc = Cardinality(Lost(x.seen \cap y.seen))
  BY <1>1 DEF LaneInv
<1>7. WritesOK(V) /\ w1 \in V /\ w2 \in V /\ x.seen \subseteq V /\ y.seen \subseteq V
  BY <1>2, <1>3, <1>5 DEF World, WrittenIn
<1>8. /\ StateOK(x, WrittenIn(at)) /\ StateOK(y, WrittenIn(at))
      /\ x.seen \subseteq WrittenIn(at) /\ y.seen \subseteq WrittenIn(at)
  BY <1>2, <1>3 DEF World, StateOK
<1>9. /\ \A q \in Replicas : Get(x.clock, q) \in Nat /\ Get(y.clock, q) \in Nat
      /\ Get(y.clock, 1) <= Get(x.clock, 1) /\ Get(x.clock, 2) <= Get(y.clock, 2)
  <2> HIDE DEF x, y
  <2>1. Get(y.clock, 1) <= Get(at[1].clock, 1) /\ Get(x.clock, 2) <= Get(at[2].clock, 2)
    BY <1>2, <1>3, <1>8, NobodyIsAhead
  <2> QED BY <1>8, <2>1, GetIsNat DEF x, y
<1>10. /\ ~Covers(x.clock, w1.dot) /\ ~Covers(y.clock, w1.dot)
       /\ ~Covers(x.clock, w2.dot) /\ ~Covers(y.clock, w2.dot)
  <2>1. /\ w1.dot.replica = 1 /\ w1.dot.counter = Get(x.clock, 1) + 1
        /\ w2.dot.replica = 2 /\ w2.dot.counter = Get(y.clock, 2) + 1
    BY DEF NextDot
  <2> HIDE DEF w1, w2, x, y
  <2> QED BY <1>2, <1>9, <2>1 DEF Covers
<1>11. /\ \A v \in x.seen : Covers(x.clock, v.dot)
       /\ \A v \in y.seen : Covers(y.clock, v.dot)
       /\ \A v \in y.seen : v \in x.seen <=> Covers(x.clock, v.dot)
       /\ \A v \in x.seen : v \in y.seen <=> Covers(y.clock, v.dot)
  BY <1>8 DEF StateOK
<1>12. /\ w1 \notin x.seen /\ w1 \notin y.seen /\ w2 \notin x.seen /\ w2 \notin y.seen
       /\ w1 # w2
  <2>1. w1.dot.replica = 1 /\ w2.dot.replica = 2
    BY DEF NextDot
  <2> HIDE DEF w1, w2, x, y
  <2> QED BY <1>10, <1>11, <2>1
<1>13. HoldsWinners(x) /\ HoldsWinners(y)
  BY <1>8 DEF StateOK
<1>14. Side(at'[1], at'[2].seen, now + 1)
  <2>1. w1 = [key |-> k1, ts |-> now + 1, dot |-> NextDot(x.clock, 1), on |-> Held(x.map, k1)]
    OBVIOUS
  <2> HIDE DEF w1, w2, x, y, V
  <2>2. Side(at'[1], y.seen \cup {w2}, now + 1)
    BY <1>2, <1>4, <1>6, <1>7, <1>9, <1>10, <1>11, <1>12, <1>13, <2>1, WriteKeepsSide
  <2> QED BY <1>5, <2>2
<1>15. Side(at'[2], at'[1].seen, now + 1)
  <2>1. w2 = [key |-> k2, ts |-> now + 1, dot |-> NextDot(y.clock, 2), on |-> Held(y.map, k2)]
    OBVIOUS
  <2> HIDE DEF w1, w2, x, y, V
  <2>2. Side(at'[2], x.seen \cup {w1}, now + 1)
    BY <1>2, <1>4, <1>6, <1>7, <1>9, <1>10, <1>11, <1>12, <1>13, <2>1, WriteKeepsSide
  <2> QED BY <1>5, <2>2
<1>16. at'[1].seen \cap at'[2].seen = x.seen \cap y.seen
  BY <1>5, <1>12
<1>17. \A r \in Replicas \ {1, 2} : at'[r].seen = {}
  BY <1>4, <1>6
<1> HIDE DEF w1, w2, x, y, V
<1> QED BY <1>1, <1>6, <1>14, <1>15, <1>16, <1>17 DEF LaneInv

\* A sync counts what it loses.
LEMMA SyncKeepsLaneInv ==
  ASSUME IInv, IInv', LaneInv, Sync
  PROVE  LaneInv'
<1> DEFINE x == at[1]
           y == at[2]
           V == WrittenIn(at)
           W == x.seen \cup y.seen
           first == AfterMerge(x, y)
           inX == LostAt(x, y.seen)
           inY == LostAt(y, x.seen)
           inBoth == {l \in Lost(W) : l \in x.seen /\ l \in y.seen}
<1>1. /\ mode = "lane" /\ mode' = mode /\ now' = now
      /\ at' = [at EXCEPT ![1] = first, ![2] = AfterMerge(y, first)]
      /\ over' = over + Cardinality(Replaced(x.map, y.map))
                      + Cardinality(Replaced(y.map, first.map))
      /\ conc' = conc + Cardinality(Concurrent(x.map, y.map))
                      + Cardinality(Concurrent(y.map, first.map))
  BY DEF Sync
<1>2. 1 \in Replicas /\ 2 \in Replicas
  BY ReplicasAssumption
<1>3. /\ World(at, published) /\ World(at', published')
      /\ at = [r \in Replicas |-> at[r]]
  BY DEF IInv, World
<1>4. /\ at'[1] = first /\ at'[2] = AfterMerge(y, first)
      /\ \A r \in Replicas \ {1, 2} : at'[r] = at[r]
  BY <1>1, <1>2, <1>3
<1>5. first.seen = W /\ at'[1].seen = W /\ at'[2].seen = W
  BY <1>4 DEF AfterMerge
<1>6. first.map = MergeMaps(x.map, y.map)
  BY DEF AfterMerge
<1>7. /\ \A r \in Replicas \ {1, 2} : at[r].seen = {}
      /\ Side(x, y.seen, now) /\ Side(y, x.seen, now)
      /\ over \in Nat /\ conc \in Nat /\ over >= conc
      /\ conc = Cardinality(Lost(x.seen \cap y.seen))
  BY <1>1 DEF LaneInv
<1>8. /\ WritesOK(V) /\ StateOK(x, V) /\ StateOK(y, V) /\ StateOK(first, WrittenIn(at'))
      /\ \A v \in V : v \in at[v.dot.replica].seen
  BY <1>2, <1>3, <1>4 DEF World
<1>9. /\ x.seen \subseteq V /\ y.seen \subseteq V
      /\ HoldsWinners(x) /\ HoldsWinners(y) /\ HoldsWinners(first)
  BY <1>8 DEF StateOK
<1>10. /\ \A v \in x.seen \ y.seen : v.dot.replica = 1
       /\ \A v \in y.seen \ x.seen : v.dot.replica = 2
  <2>1. \A v \in V : v.dot.replica \in {1, 2}
    BY <1>7, <1>8 DEF WritesOK, Dots
  <2> QED BY <1>8, <1>9, <2>1
<1> HIDE DEF x, y, V, first
<1>11. Meets(V, x, y.seen, now, y)
  <2>1. \A g \in y.seen \ x.seen : TopOf(y.seen, g) =>
           \A v \in x.seen : Covers(y.map[g.key].value.knew, v.dot) <=> v \in y.seen
    BY <1>7 DEF Side, KnewCommon
  <2>2. \A v \in y.seen : \A d \in v.on : \E u \in y.seen : u.dot = d
    BY <1>7 DEF Side, OnEarlier
  <2>3. \A u \in x.seen \ y.seen, v \in y.seen \ x.seen : u.dot.replica # v.dot.replica
    BY <1>10
  <2> QED BY <1>7, <1>8, <1>9, <2>1, <2>2, <2>3 DEF Meets
<1>12. Meets(V, y, x.seen, now, first)
  <2>1. ASSUME NEW g \in x.seen \ y.seen, TopOf(first.seen, g)
        PROVE  \A v \in y.seen : Covers(first.map[g.key].value.knew, v.dot) <=> v \in x.seen
    <3>1. TopOf(x.seen, g)
      BY <1>5, <2>1 DEF TopOf
    <3>2. first.map[g.key] = x.map[g.key]
      <4>1. g.key \in DOMAIN x.map /\ first.seen \subseteq V /\ g \in first.seen
        BY <1>5, <1>9 DEF HoldsWinners
      <4>2. g.dot = first.map[g.key].value.dot
        BY <1>8, <1>9, <2>1, <4>1, HeldIsTop
      <4>3. SUFFICES ASSUME first.map[g.key] # x.map[g.key] PROVE FALSE
        OBVIOUS
      <4>4. g.key \in DOMAIN y.map /\ first.map[g.key] = y.map[g.key]
        BY <1>6, <4>1, <4>3 DEF MergeMaps, Replaced
      <4>5. PICK h \in y.seen : h.dot = y.map[g.key].value.dot
        BY <1>8, <1>9, <4>4, HeldIsTop
      <4> QED BY <1>8, <1>9, <4>2, <4>4, <4>5 DEF WritesOK
    <3> QED BY <1>7, <2>1, <3>1, <3>2 DEF Side, KnewCommon
  <2>2. \A v \in x.seen : \A d \in v.on : \E u \in x.seen : u.dot = d
    BY <1>7 DEF Side, OnEarlier
  <2>3. \A u \in y.seen \ x.seen, v \in x.seen \ y.seen : u.dot.replica # v.dot.replica
    BY <1>10
  <2>4. x.seen \subseteq first.seen /\ first.seen \subseteq x.seen \cup y.seen
    BY <1>5
  <2> QED BY <1>7, <1>8, <1>9, <2>1, <2>2, <2>3, <2>4 DEF Meets
<1>13. /\ IsFiniteSet(inX) /\ Cardinality(Concurrent(x.map, y.map)) = Cardinality(inX)
       /\ IsFiniteSet(inY) /\ Cardinality(Concurrent(y.map, first.map)) = Cardinality(inY)
  BY <1>11, <1>12, LostAreCounted
<1>14. inBoth = Lost(x.seen \cap y.seen) /\ IsFiniteSet(inBoth)
  <2>1. inBoth = Lost(x.seen \cap y.seen)
    BY <1>7, LostStays
  <2>2. inBoth \subseteq x.seen /\ IsFiniteSet(x.seen)
    BY <1>7 DEF Side, Recent
  <2> QED BY <2>1, <2>2, FS_Subset
<1>15. Cardinality(Lost(W)) = Cardinality(inBoth) + Cardinality(inX) + Cardinality(inY)
  <2>1. inX = {l \in Lost(W) : l \notin y.seen}
    BY DEF LostAt
  <2>2. inY = {l \in Lost(W) : l \notin x.seen}
    <3>1. y.seen \cup x.seen = W
      OBVIOUS
    <3> HIDE DEF W
    <3> QED BY <3>1 DEF LostAt
  <2>3. \A l \in Lost(W) : l \in x.seen \/ l \in y.seen
    BY DEF Lost
  <2> HIDE DEF W
  <2>4. /\ Lost(W) = (inBoth \cup inX) \cup inY
        /\ inBoth \cap inX = {} /\ (inBoth \cup inX) \cap inY = {}
    BY <2>1, <2>2, <2>3
  <2> HIDE DEF inX, inY, inBoth
  <2>5. /\ IsFiniteSet(inBoth \cup inX)
        /\ Cardinality(inBoth \cup inX) = Cardinality(inBoth) + Cardinality(inX)
    BY <1>13, <1>14, <2>4, DisjointUnion
  <2> QED BY <1>13, <2>4, <2>5, DisjointUnion
<1>16. /\ over' \in Nat /\ conc' \in Nat /\ over' >= conc'
       /\ conc' = Cardinality(Lost(W))
  <2>1. IsFiniteSet(x.seen) /\ IsFiniteSet(y.seen)
    BY <1>7 DEF Side, Recent
  <2>2. /\ Cardinality(Replaced(x.map, y.map)) \in Nat
        /\ Cardinality(Concurrent(x.map, y.map)) \in Nat
        /\ Cardinality(Concurrent(x.map, y.map)) <= Cardinality(Replaced(x.map, y.map))
    BY <1>9, <2>1, CountsAreNumbers
  <2>3. /\ Cardinality(Replaced(y.map, first.map)) \in Nat
        /\ Cardinality(Concurrent(y.map, first.map)) \in Nat
        /\ Cardinality(Concurrent(y.map, first.map)) <= Cardinality(Replaced(y.map, first.map))
    BY <1>9, <2>1, CountsAreNumbers
  <2> HIDE DEF inX, inY, inBoth, W
  <2> QED BY <1>1, <1>7, <1>13, <1>14, <1>15, <2>2, <2>3
<1>17. Side(at'[1], W, now) /\ Side(at'[2], W, now)
  <2>1. Synced(at'[1], x, y, now) /\ Synced(at'[2], x, y, now)
    BY <1>5, <1>7 DEF Synced
  <2>2. Side(at'[1], at'[1].seen, now) /\ Side(at'[2], at'[2].seen, now)
    BY <2>1, SyncKeepsSide
  <2> QED BY <1>5, <2>2
<1>18. \A r \in Replicas \ {1, 2} : at'[r].seen = {}
  BY <1>4, <1>7
<1> HIDE DEF W, inX, inY, inBoth
<1>19. at'[1].seen \cap at'[2].seen = W
  BY <1>5
<1> QED BY <1>1, <1>5, <1>16, <1>17, <1>18, <1>19 DEF LaneInv

\* Before the first round there is nothing to lose.
LEMMA InitLaneInv == ASSUME Init PROVE LaneInv
<1>1. /\ \A r \in Replicas : at[r].seen = {}
      /\ 1 \in Replicas /\ 2 \in Replicas
      /\ over = 0 /\ conc = 0
  BY ReplicasAssumption DEF Init, Blank
<1>2. Cardinality(Lost(at[1].seen \cap at[2].seen)) = 0
  <2>1. Lost(at[1].seen \cap at[2].seen) = {}
    BY <1>1 DEF Lost
  <2> QED BY <2>1, FS_EmptySet
<1>3. Side(at[1], at[2].seen, now) /\ Side(at[2], at[1].seen, now)
  BY <1>1, FS_EmptySet DEF Side, Recent, OnEarlier, Superseded, OnTop, KnewCommon
<1> QED BY <1>1, <1>2, <1>3 DEF LaneInv

\* Nothing else happens in the lane.
LEMMA NextKeepsLaneInv ==
  ASSUME IInv, IInv', LaneInv, [Next]_vars
  PROVE  LaneInv'
<1>1. CASE UNCHANGED vars
  BY <1>1 DEF vars, LaneInv
<1>2. CASE \E k1, k2 \in Keys : WriteBoth(k1, k2)
  BY <1>2, WriteBothKeepsLaneInv
<1>3. CASE Sync
  BY <1>3, SyncKeepsLaneInv
<1>4. CASE \/ \E r \in Replicas, k \in Keys, ts \in 1..MaxTs : Write(r, k, ts)
           \/ \E r \in Replicas : Publish(r)
           \/ \E r \in Replicas, s \in published : Receive(r, s)
  <2>1. mode' = "gossip"
    BY <1>4 DEF Write, Publish, Receive
  <2> QED BY <2>1 DEF LaneInv
<1> QED BY <1>1, <1>2, <1>3, <1>4 DEF Next

\* When both hold the same, what is lost in the bench's words is Lost.
LEMMA LaneInvCounts == ASSUME IInv, LaneInv PROVE LossesAreCounted
<1> SUFFICES ASSUME mode = "lane", at[1].map = at[2].map, at[1].clock = at[2].clock
             PROVE  LossesAreCounted
  BY DEF LossesAreCounted
<1> DEFINE x == at[1]
           kept == {x.map[k].value.dot : k \in DOMAIN x.map}
           lost == {w \in Written : w.dot \notin kept /\ \A v \in Written : w.dot \notin v.on}
<1>1. 1 \in Replicas /\ 2 \in Replicas
  BY ReplicasAssumption
<1>2. /\ Written = WrittenIn(at) /\ WritesOK(Written)
      /\ StateOK(x, Written) /\ StateOK(at[2], Written)
  BY <1>1, StatesAreOK DEF States
<1>3. x.seen \subseteq Written /\ HoldsWinners(x)
  BY <1>2 DEF StateOK
<1>4. x.seen = at[2].seen
  BY <1>2 DEF StateOK
<1>5. x.seen = Written
  <2>1. \A r \in Replicas \ {1, 2} : at[r].seen = {}
    BY DEF LaneInv
  <2> QED BY <1>1, <1>4, <2>1 DEF Written
<1> HIDE DEF x
<1>6. \A w \in Written : w.dot \in kept <=> TopOf(Written, w)
  <2> SUFFICES ASSUME NEW w \in Written PROVE w.dot \in kept <=> TopOf(Written, w)
    OBVIOUS
  <2>1. w.key \in DOMAIN x.map /\ (TopOf(x.seen, w) <=> w.dot = x.map[w.key].value.dot)
    BY <1>2, <1>3, <1>5, HeldIsTop
  <2>2. ASSUME NEW k \in DOMAIN x.map, w.dot = x.map[k].value.dot PROVE k = w.key
    <3>1. PICK h \in x.seen : h.key = k /\ h.dot = x.map[k].value.dot
      BY <1>2, <1>3, HeldIsTop
    <3> QED BY <1>2, <1>5, <2>2, <3>1 DEF WritesOK
  <2> QED BY <1>5, <2>1, <2>2
<1>7. lost = Lost(Written)
  BY <1>6 DEF Lost, Based
<1>8. over >= conc /\ conc = Cardinality(Lost(Written))
  BY <1>4, <1>5 DEF LaneInv, x
<1>9. conc = Cardinality(lost)
  BY <1>7, <1>8
<1> QED BY <1>8, <1>9 DEF LossesAreCounted, x

\* Theorem: crdt_bench.rs counts as concurrent exactly the writes that its
\* syncs lose, each once, for any keys and any moments of syncing.
THEOREM LossesAreExact == Spec => []LossesAreCounted
<1>1. IInv /\ IInv' /\ LaneInv /\ [Next]_vars => LaneInv'
  BY NextKeepsLaneInv
<1>2. Init => LaneInv
  BY InitLaneInv
<1>3. IInv /\ LaneInv => LossesAreCounted
  BY LaneInvCounts
<1> QED BY <1>1, <1>2, <1>3, InvariantHolds, PTL DEF Spec
=============================================================================
