------------------------------- MODULE OverloadMC -------------------------------
(***************************************************************************)
(* Instances of Overload: long simulations without a policy, at loads      *)
(* above and below half of the capacity, with outages from the start on    *)
(* and later, and short ones whose policy answers anything.                *)
(***************************************************************************)
EXTENDS Overload

MCSecond == 12

Simulations(policy, services, loads, timeouts, retries, starts, outages, durations, levels) ==
    [policy : {policy}, service : services, load : loads, timeout : timeouts,
     retries : retries, outageStart : starts, outage : outages,
     duration : durations, levels : levels]

MCConfigs ==
    Simulations("none", {1, 2, 4, 7}, {1, 2, 3, 4}, {4, 7, 12}, {1}, {0, 5, 13}, {0, 5, 14, 24}, {96}, {2})
    \cup Simulations("any", {2, 5}, {4}, {0, 3, 4}, {0, 1, 2}, {4}, {0, 5}, {12, 14}, {0, 3})
================================================================================
