---------------------------------- MODULE Lww ----------------------------------
(***************************************************************************)
(* lww.rs: last-writer-wins registers and maps.  A map is a function from  *)
(* the keys it holds to registers [value, ts, replica].                    *)
(***************************************************************************)
EXTENDS Naturals, FiniteSets

NewMap == <<>>

\* Fault: the replica id does not break ties.
WinsByTime(reg, mine) == reg.ts > mine.ts

\* The total order over (ts, replica).
Wins(reg, mine) ==
    \/ reg.ts > mine.ts
    \/ reg.ts = mine.ts /\ reg.replica > mine.replica

\* set(): a register is replaced only by one that wins.
Set(m, k, reg) ==
    IF k \in DOMAIN m /\ ~Wins(reg, m[k]) THEN m
    ELSE [j \in DOMAIN m \cup {k} |-> IF j = k THEN reg ELSE m[j]]

\* The keys whose value merge() replaces; it returns their number.
Replaced(m, other) == {k \in DOMAIN m \cap DOMAIN other : Wins(other[k], m[k])}

\* merge(): key by key, the winner of the two registers.
MergeMaps(m, other) ==
    [k \in DOMAIN m \cup DOMAIN other |->
        IF k \in Replaced(m, other) \/ k \notin DOMAIN m THEN other[k] ELSE m[k]]
================================================================================
