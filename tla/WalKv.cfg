\* Two keys, two values and a log of at most five records: two batches of
\* two writes cannot both fit, a batch of one and a batch of two can, with
\* every tail a crash can leave of either.
CONSTANTS
  Keys = {k1, k2}
  Vals = {v1, v2}
  Absent = Absent
  NoKey = NoKey
  MaxLog = 5
SPECIFICATION Spec
INVARIANTS
  TypeOK
  ReadsSeeOwnWrites
  TailIsRepaired
  RecoveryIsTheLoop
PROPERTIES
  CommittedLogOnlyGrows
  ImplementsOracle
