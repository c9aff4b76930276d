------------------------------ MODULE WalKvMC ------------------------------
(***************************************************************************)
(* WalKv on a small instance, and recover()'s loop as kv.rs writes it, to  *)
(* check that WalKv's Recovered and ApplyWrites are what the loop computes *)
(* on every file a crash can leave.                                        *)
(***************************************************************************)
EXTENDS WalKv, SequencesExt

\* One record into the map: type 1 inserts, any other type removes.
ReplayRecord(m, r) ==
  [m EXCEPT ![r.key] = IF r.type = "put" THEN r.val ELSE Absent]

\* One turn of recover()'s loop.  st.broken: the loop has left by `break`.
ReplayStep(st, r) ==
  IF st.broken \/ r = Torn THEN [st EXCEPT !.broken = TRUE]
  ELSE IF r = Marker
       THEN [st EXCEPT !.mem = FoldLeft(ReplayRecord, @, st.batch),
                       !.batch = <<>>,
                       !.read = @ + 1,
                       !.last_good = st.read + 1]
       ELSE [st EXCEPT !.batch = Append(@, r), !.read = @ + 1]

ReplayLoop(file) ==
  FoldLeft(ReplayStep,
           [mem |-> EmptyMap, batch |-> <<>>, read |-> 0, last_good |-> 0,
            broken |-> FALSE],
           file)

\* On every file that a crash could leave now, the loop rebuilds the map and
\* finds the truncation point that Crash uses: "a batch counts only if its
\* commit marker is durable" (kv.rs), in the order the records were written.
RecoveryIsTheLoop ==
  \A tail \in SurvivingTails(buffered) :
    LET file == synced \o tail
        loop == ReplayLoop(file)
    IN  /\ loop.last_good = LastGood(file)
        /\ loop.mem = ApplyWrites(EmptyMap, Recovered(file))
=============================================================================
