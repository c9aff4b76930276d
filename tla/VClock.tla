--------------------------------- MODULE VClock ---------------------------------
(***************************************************************************)
(* clock.rs: vector clocks and dots.  A clock is a function from some of   *)
(* the replicas to counters; a replica outside its domain counts as 0.     *)
(***************************************************************************)
EXTENDS Naturals

NewClock == <<>>

Get(c, r) == IF r \in DOMAIN c THEN c[r] ELSE 0

\* tick(): the clock, and the dot of the event it records.
Tick(c, r) == [p \in DOMAIN c \cup {r} |-> IF p = r THEN Get(c, r) + 1 ELSE c[p]]
NextDot(c, r) == [replica |-> r, counter |-> Get(c, r) + 1]

Covers(c, dot) == Get(c, dot.replica) >= dot.counter

\* merge(): pointwise max.
MergeClocks(c, d) ==
    [r \in DOMAIN c \cup DOMAIN d |-> IF Get(c, r) >= Get(d, r) THEN Get(c, r) ELSE Get(d, r)]

\* Fault: replicas only the other clock knows of are not looked at.
PartialCmpOneSided(c, d) ==
    LET le == \A r \in DOMAIN c : c[r] <= Get(d, r)
        ge == \A r \in DOMAIN c : c[r] >= Get(d, r)
    IN  CASE le /\ ge -> "Equal" [] le /\ ~ge -> "Less" [] ~le /\ ge -> "Greater" [] OTHER -> "None"

\* partial_cmp(): the partial order that defines "concurrent".
PartialCmp(c, d) ==
    LET le == \A r \in DOMAIN c : c[r] <= Get(d, r)
        ge == /\ \A r \in DOMAIN c : c[r] >= Get(d, r)
              /\ \A r \in DOMAIN d : Get(c, r) >= d[r]
    IN  CASE le /\ ge -> "Equal" [] le /\ ~ge -> "Less" [] ~le /\ ge -> "Greater" [] OTHER -> "None"
================================================================================
