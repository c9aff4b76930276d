------------------------------- MODULE NaiveEval -------------------------------
(***************************************************************************)
(* What every evaluator of eval.rs promises: rounds with snapshot          *)
(* semantics.  A round applies the recursive rule to the relation as it    *)
(* stood when the round began and merges what is new; the first round that *)
(* derives nothing new is the last.                                        *)
(***************************************************************************)
EXTENDS DatalogRules

VARIABLES prog,   \* the program under evaluation
          arc,    \* the input graph
          rel,    \* the relation derived so far
          pc      \* "load", "rounds" or "done"

nvars == <<prog, arc, rel, pc>>

NInit ==
    /\ prog \in Programs
    /\ arc \in Graphs
    /\ rel = {}
    /\ pc = "load"

NLoad ==
    /\ pc = "load"
    /\ rel' = BaseHeads(prog, arc)
    /\ pc' = "rounds"
    /\ UNCHANGED <<prog, arc>>

NRound ==
    /\ pc = "rounds"
    /\ rel' = rel \cup Consequences(prog, arc, rel)
    /\ pc' = IF rel' = rel THEN "done" ELSE "rounds"
    /\ UNCHANGED <<prog, arc>>

NNext == NLoad \/ NRound

NSpec == NInit /\ [][NNext]_nvars /\ WF_nvars(NNext)
================================================================================
