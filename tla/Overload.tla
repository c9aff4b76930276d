-------------------------------- MODULE Overload --------------------------------
(***************************************************************************)
(* sim.rs of topic 35: one FIFO server, open-loop arrivals, clients that   *)
(* abandon an attempt after a timeout and retry it, an outage that         *)
(* triggers overload, and an admission policy.                             *)
(*                                                                         *)
(* Time is in ticks, `Second` of them to the second that load and report   *)
(* windows are counted in.  The policy's three hooks see what the code     *)
(* passes; a policy is either NoPolicy or may answer anything.             *)
(***************************************************************************)
EXTENDS Integers, Sequences, FiniteSets, FiniteSetsExt

CONSTANTS Second,   \* ticks in a second
          Configs   \* the simulations to run

\* A simulation: SimConfig's fields and the policy.  A load above one request
\* a tick would never advance `t` past the first arrival.
ASSUME ConfigsAssumption ==
    /\ Second \in Nat \ {0}
    /\ \A c \in Configs :
          /\ {c.service, c.load, c.timeout, c.retries, c.outageStart, c.outage,
              c.duration, c.levels} \subseteq Nat
          /\ c.service > 0 /\ c.load \in 1..Second /\ c.policy \in {"none", "any"}

VARIABLES cfg,         \* the simulation that runs
          heap,        \* the attempts not yet processed
          seq,         \* the number of the next attempt
          serverFree,  \* when the server finishes what it has taken
          windows,     \* Report.windows
          perPriority, \* Report.per_priority
          log          \* history: every attempt popped, and what came of it

simVars == <<cfg, heap, seq, serverFree, windows, perPriority, log>>

Interval(c) == Second \div c.load
Levels(c) == IF c.levels > 1 THEN c.levels ELSE 1

Arrivals(c) == {t \in 0..(c.duration - 1) : t % Interval(c) = 0}

\* The original requests: one each interval; `origin` names the request that
\* an attempt belongs to.
Originals(c) ==
    {[arrival |-> t, seq |-> t \div Interval(c), left |-> c.retries,
      prio |-> (t \div Interval(c)) % Levels(c), origin |-> t \div Interval(c)] :
       t \in Arrivals(c)}

SimInit ==
    /\ cfg \in Configs
    /\ heap = Originals(cfg)
    /\ seq = Cardinality(heap)
    /\ serverFree = 0
    /\ windows = [w \in 0..(cfg.duration \div Second - 1) |->
                    [offered |-> 0, rejected |-> 0, goodput |-> 0]]
    /\ perPriority = [p \in 0..(Levels(cfg) - 1) |-> [successes |-> 0, attempts |-> 0]]
    /\ log = <<>>

-----------------------------------------------------------------------------
\* The heap's order: by arrival, then by number.
IsFirst(q) ==
    \A r \in heap : q.arrival < r.arrival \/ (q.arrival = r.arrival /\ q.seq <= r.seq)

\* Fault: work that would have waited into the outage is not held back.
StartOnArrival(q) ==
    IF q.arrival >= cfg.outageStart /\ q.arrival < cfg.outageStart + cfg.outage
    THEN Max({q.arrival, serverFree, cfg.outageStart + cfg.outage})
    ELSE Max({q.arrival, serverFree})

\* Fault: the outage holds nothing back.
StartInOutage(q) == Max({q.arrival, serverFree})

\* When the server starts on an attempt: when it is free, and not in the outage.
Start(q) ==
    LET free == Max({q.arrival, serverFree})
    IN  IF free >= cfg.outageStart /\ free < cfg.outageStart + cfg.outage
        THEN cfg.outageStart + cfg.outage
        ELSE free

\* Counts one more in a field of the window of a time, if there is one.
Bump(ws, time, field) ==
    [w \in DOMAIN ws |-> IF w = time \div Second THEN [ws[w] EXCEPT ![field] = @ + 1] ELSE ws[w]]

Offered(q) == Bump(windows, q.arrival, "offered")
Attempted(q) == [perPriority EXCEPT ![q.prio].attempts = @ + 1]

Logged(q, outcome, start) ==
    log' = Append(log, [q |-> q, outcome |-> outcome, start |-> start])

\* admit() may turn an attempt away: no work, no retry.
Reject(q) ==
    /\ cfg.policy = "any"
    /\ heap' = heap \ {q}
    /\ windows' = Bump(Offered(q), q.arrival, "rejected")
    /\ perPriority' = Attempted(q)
    /\ Logged(q, "rejected", q.arrival)
    /\ UNCHANGED <<cfg, seq, serverFree>>

\* Fault: a retry has as many retries left as the attempt it follows.
RetryAfresh(q) == [q EXCEPT !.arrival = q.arrival + cfg.timeout, !.seq = seq]

\* The retry: sent when the client gives up, at the end of the order.
Retry(q) == [q EXCEPT !.arrival = q.arrival + cfg.timeout, !.seq = seq, !.left = q.left - 1]

\* An admitted attempt: the server does its work whether or not the client is
\* still waiting; if it is not, a retry may follow, when allow_retry() agrees.
Serve(q) ==
    LET done == Start(q) + cfg.service
    IN  /\ serverFree' = done
        /\ UNCHANGED cfg
        /\ \/ /\ done - q.arrival <= cfg.timeout
              /\ heap' = heap \ {q}
              /\ windows' = Bump(Offered(q), done, "goodput")
              /\ perPriority' = [Attempted(q) EXCEPT ![q.prio].successes = @ + 1]
              /\ Logged(q, "success", Start(q))
              /\ UNCHANGED seq
           \/ /\ done - q.arrival > cfg.timeout
              /\ windows' = Offered(q)
              /\ perPriority' = Attempted(q)
              /\ \/ /\ q.left > 0
                    /\ heap' = (heap \ {q}) \cup {Retry(q)}
                    /\ seq' = seq + 1
                    /\ Logged(q, "retried", Start(q))
                 \/ /\ q.left = 0 \/ cfg.policy = "any"
                    /\ heap' = heap \ {q}
                    /\ Logged(q, "abandoned", Start(q))
                    /\ UNCHANGED seq

\* One iteration of the loop, and the end of it when the heap is empty.
SimNext == \E q \in heap : IsFirst(q) /\ (Reject(q) \/ Serve(q))

SimSpec == SimInit /\ [][SimNext]_simVars

-----------------------------------------------------------------------------
(* Properties *)

OutageEnd == cfg.outageStart + cfg.outage
InOutage(t) == cfg.outageStart <= t /\ t < OutageEnd

Served == {i \in DOMAIN log : log[i].outcome # "rejected"}
WorksAt(i, t) == log[i].start <= t /\ t < log[i].start + cfg.service

\* Property: the heap makes the server first-in first-out although retries
\* are pushed into it behind its back: attempts are popped in the order of
\* arrival (a retry never arrives in the past), the server works on one at a
\* time and in that order, starts none in the outage, and outside the outage
\* never idles while one is waiting.  So each hook of the policy sees time go
\* forwards, and no window has more goodput than the capacity.
ServerIsFifo ==
    /\ \A i, j \in DOMAIN log : i < j =>
          \/ log[i].q.arrival < log[j].q.arrival
          \/ log[i].q.arrival = log[j].q.arrival /\ log[i].q.seq < log[j].q.seq
    /\ \A i, j \in Served : i < j => log[i].start + cfg.service <= log[j].start
    /\ \A i \in Served :
          /\ ~InOutage(log[i].start)
          /\ \A t \in log[i].q.arrival..(log[i].start - 1) :
                InOutage(t) \/ \E j \in Served : WorksAt(j, t)
    /\ \A w \in DOMAIN windows : (windows[w].goodput - 1) * cfg.service < Second

AttemptsOf(o) == {i \in DOMAIN log : log[i].q.origin = o}
Pending(o) == {q \in heap : q.origin = o}

\* Property: the attempts of one request follow one another, `timeout` apart,
\* each only when the one before it timed out, and at most `retries` of them;
\* at most one succeeds, and as long as the last one was retried exactly one
\* is pending.  The report counts every attempt, and no request twice as a
\* success.
RetriesFollowTimeouts ==
    /\ \A first \in Originals(cfg) :
          LET o == first.origin
          IN  /\ Cardinality(AttemptsOf(o)) + Cardinality(Pending(o)) <= cfg.retries + 1
              /\ \A i \in AttemptsOf(o) :
                    LET earlier == {j \in AttemptsOf(o) : j < i}
                    IN  /\ log[i].q.arrival = first.arrival + Cardinality(earlier) * cfg.timeout
                        /\ \A j \in earlier : log[j].outcome = "retried"
              /\ Cardinality(Pending(o)) =
                    IF \A i \in AttemptsOf(o) : log[i].outcome = "retried" THEN 1 ELSE 0
    /\ \A p \in DOMAIN perPriority :
          /\ perPriority[p].attempts = Cardinality({i \in DOMAIN log : log[i].q.prio = p})
          /\ perPriority[p].successes <= Cardinality({q \in Originals(cfg) : q.prio = p})

\* Property: the metastable failure that the header of sim.rs describes, for
\* a server that keeps up without the outage, without a policy and with one
\* retry.  Above half of the capacity an outage of two timeouts or more tips
\* it for good: no attempt made after the outage began succeeds any more, the
\* whole time that requests keep coming.  Below it the same server heals: all
\* attempts succeed once the backlog of the outage has had time to drain.
HiddenCapacity ==
    LET vulnerable == 2 * cfg.service > Interval(cfg)
        gap     == Interval(cfg) - 2 * cfg.service
        healed  == OutageEnd + (cfg.outage * Interval(cfg)) \div gap
    IN  cfg.policy = "none" /\ cfg.retries = 1
            /\ cfg.service <= Interval(cfg) /\ cfg.service <= cfg.timeout =>
          \A i \in DOMAIN log :
             /\ vulnerable /\ cfg.outage >= 2 * cfg.timeout /\ log[i].q.arrival >= cfg.outageStart
                   => log[i].outcome # "success"
             /\ gap > 0 /\ log[i].q.arrival > healed => log[i].outcome = "success"
================================================================================
