# TLA+ models of database-learning-path

The repository is a course: some 58 topics, each a Rust crate under
`topics/<nn>-<name>/experiments` with a few complete lanes (a store, a
simulator, an algorithm) and several exercise stubs whose bodies are `todo!()`.
There is no single running system. What can be specified is the complete state
machines inside the topics, one specification each. Paths below are relative to
`src/topics/<nn>-<name>/experiments/src/` of the repository.

Eight of them are modelled. They are those with the most state, and with a promise
that a test samples but does not settle.

| part | code | modules | runs | proofs |
|---|---|---|---|---|
| crash-safe key-value store (16) | `kv.rs`, `sim_fs.rs`, `lib.rs` | `KvMaps` `KvModel` `WalKv` `WalKvMC` | `wal_kv` | `WalKvProofs` |
| table formats (49) | `store.rs`, `iceberg.rs`, `delta.rs`, `bin/table_bench.rs` | `ObjectStore` `Iceberg` `Delta` `TableFormats` | `iceberg` `iceberg_expiry` `iceberg_orphans` `delta` `table_formats` | `IcebergProofs` `TableFormatsProofs` |
| CSR plus delta (51) | `delta.rs`, `csr.rs`, `vecvec.rs`, `store.rs` | `GraphStore` `CsrDelta` `CsrDeltaMC` | `csr_delta` | `CsrDeltaProofs` |
| flash translation layer (45) | `ftl.rs` | `Ftl` | `ftl` | `SimulatorProofs` |
| Datalog evaluators (55) | `eval.rs` | `DatalogRules` `NaiveEval` `SemiNaive` | `datalog` | `SemiNaiveProofs` |
| e-graph and its two matchers (44) | `egraph.rs`, `pattern.rs`, `backtrack.rs`, `relational.rs` | `EGraph` `EMatch` `EMatchMC` | `egraph` | `EGraphProofs` |
| vector clocks and last-writer-wins maps (31) | `clock.rs`, `lww.rs`, `bin/crdt_bench.rs` | `VClock` `Lww` `LwwReplicas` | `crdt` | `LwwReplicasProofs` |
| overload simulator (35) | `sim.rs` | `Overload` `OverloadMC` | `overload` | `SimulatorProofs` |

`PROJECT.json` maps every modelling definition to the lines it stands for. In
the modules, a definition whose comment starts with "Fault" is no part of a
specification: it is a plausible bug (for topic 16, most are the ones `kv.rs`
injects) which, put in the place of the definition after it, makes the property
named in `PROJECT.json` fail.

## Inventory

### Topic 16: a store that survives crashes

*State.* `SimFile` holds the bytes that survive a crash (`synced`) and those that
may not (`buffered`). `KvStore` holds the file and the in-memory map from which
reads are served. The oracle `Model` holds the committed map and the writes since
the last commit. *Operations.* `put`, `delete`, `commit`, `crash` (which runs
recovery). *Interaction.* The store calls the file; `bin/crash_matrix.rs` drives
store and oracle with the same operations and compares them after every crash.
*Hard.* A crash keeps any prefix of the buffered bytes, cut anywhere. *Correct
when* the store never shows what the oracle does not expect, whatever
survived, after any number of crashes.

### Topic 49: two table formats on one object store

*State.* The object store: keys to bodies. The Iceberg writer: the snapshots
kept, the live manifests, the live files, the sequence number. The Delta
writer: the next version and the live files. *Operations.* Iceberg: append (fast
or merging), rewrite of the manifests, snapshot expiry. Delta: append, checkpoint.
Both: planning a scan, now or at an older version, in full or for one day; a plan
reads the store only and never the writer's memory. *Interaction.* Each format
calls the object store; `bin/table_bench.rs` puts the same commits into both and
asserts that the plans agree. *Hard.* What an object store holds must be a
complete, readable table for *every* version a reader may ask for, while
merges, rewrites, expiry and checkpoints replace and delete objects. *Correct
when* every plan that succeeds returns exactly the files of its version, and no
plan that should succeed fails.

### Topic 51: a matrix with pending changes

*State.* The settled CSR `M`, pending additions `DP` and deletions `DM`, their
counters, the threshold. *Operations.* insert, delete, flush; the reads contains,
for_each, num_edges. *Interaction.* Behind the traits `GraphRead` and
`GraphWrite`, as are two stores that write at once (`EagerCsr`, `VecVec`). *Hard.* An
edge may be in several of the three parts; the flush runs inside a write; array
offsets shift. *Correct when* no caller can tell the
store from a plain set of edges.

### Topic 45: a flash translation layer

*State.* Two page maps, a count of valid pages per block, the queue of erased
blocks, the active block and its write pointer. *Operations.* write, trim, and the
collection that write runs. *Hard.* Collection needs erased blocks to make erased
blocks. *Correct when* it never runs out, loses nothing, and ends.

### Topic 55: Datalog, a round at a time

*State.* Per evaluation: the relation, the delta of the last round, three counters.
*Operations.* Loading the base rule, a round, and the end when a round adds nothing;
for four programs (linear and nonlinear transitive closure, closure from one source,
same generation), under naive and one or two delta strategies. *Interaction.* None: an
evaluator is one function. *Hard.* A delta strategy must not lose the rule
instances whose tuples straddle two rounds, nor match one twice. *Correct when* each
strategy computes what naive evaluation computes, round by round, and its counters
say how much work that was.

### Topic 44: an e-graph with deferred rebuilding

*State.* A union-find, a hash-cons table, the e-nodes of each class. *Operations.*
add, union, rebuild; the searches of two pattern matchers. *Interaction.* The
backtracking matcher walks the classes; the relational one copies them into tables
and joins. *Hard.* Between a union and a rebuild the table and the classes are
stale; a rebuild changes the roots while it merges what it collected under the old
ones, in the order of a hash map. *Correct when* the equalities are those that the
unions force by congruence, no more and after a rebuild no fewer, and the two matchers
find the same instances.

### Topic 31: replicas that merge

*State.* Per replica: a vector clock, and a map of registers (value, timestamp,
replica). *Operations.* tick, merge and compare of clocks; set, merge and get of maps;
the bench's `merge_classified`, which counts what a merge loses. *Interaction.*
Replicas exchange whole states. *Hard.* State arrives late, twice, out of order, or
through a third replica; timestamps tie. *Correct when* clocks compare like
causal histories, maps depend only on the set of writes received, and the bench
counts each lost write once.

### Topic 35: a server in overload

*State.* The heap of attempts, the server's clock, the report. *Operations.* One
iteration of the simulation's loop: reject, serve in time, serve too late and
retry or give up. *Interaction.* A policy with three hooks (admit, allow a retry,
observe). *Hard.* A client abandons what the server still works on, and the retry
enters the heap behind the loop's back. *Correct when* the simulation is a
first-in first-out server with bounded retries, and shows the metastable failure
that its header describes.

### The rest

`PROJECT.json` lists every component with the reason it is not modelled. In short:

- *Stubs.* The state machines of topics 02-09 (skip list, B-tree, LSM, WAL, buffer
  pool, RESP, MVCC, concurrent set), 15 (Raft), 27, 28, 32, 33, 37, 38, and parts
  of 29, 31, 35, 44, 45, 49, 51, 54 and 56 are `todo!()`: there is no code to be
  faithful to. Of topic 31 that is the counters, the OR-Set, the sequence and the graph;
  of topic 35 the admission gate and the token bucket; of topic 44 the semi-naive
  and the binary-join matcher.
- *Kernels.* Topics 10-14, 17-20, 22-26, 36, 39-43, 46-48, 50, 52, 53 and 57 are
  measured algorithms over large data, or generators; most have no protocol.
- *Covered by another model.* The in-place engine of topic 45 (`inplace.rs`) drives the
  device with pairs of writes and keeps two counters; `Ftl` lets the host make any
  writes in any order, so what holds there holds under this engine.
- *Measurement.* The binaries, and topics 00, 01, 22, 34 and the capstone.
- *Planned.* See the plan at the end.

## How the modules correspond to the code

### KvMaps, KvModel, WalKv, WalKvMC

A map is a total function with `Absent` for the keys it lacks; a delete is the
write of `Absent`. `ApplyWrites` states the effect of a sequence of writes by the
last write of each key, without recursion.

`synced`, `buffered` and `mem` are the code's fields. The file is a sequence of
records instead of bytes. Only a crash can cut a record short, so one extra
record `Torn` stands for the 1 to 9 bytes of a cut one, whose length or checksum
replay rejects. `Crash` is the whole handler: the prefix that survives
(`SurvivingTails`), recovery's map, and the truncation of the file. `LastGood`
says what recovery's loop computes: the last commit marker before any bad record.
`WalKvMC` has the loop as `kv.rs` writes it (a fold with a batch, a position and a
broken flag) and `RecoveryIsTheLoop` compares the two on every file a crash could
leave in any reachable state.

`KvModel` is the oracle, and `ImplementsOracle` the refinement that
`crash_matrix.rs` samples: `committed` is what the durable log replays to, and
`pending` is what is buffered.

Left out: the `syncs` and `crashes` counters, the random seed (the choice of what
survives is nondeterministic).

### ObjectStore, Iceberg, Delta, TableFormats

An object store is a function from keys to bodies. Kinds of objects are kept
apart (`lists`, `bodies`, `catalog` for Iceberg; `commits`, `checkpoints`,
`lastCheckpoint` for Delta), since their key prefixes keep them apart in the
code. A snapshot id and a sequence number are one number, since the code derives
one from the other. A data file is a commit's number and a day. The catalog holds
the snapshot list of the metadata file it points to: metadata files are
immutable, only the newest is read, and the one writer's compare-and-swap on the
pointer cannot fail. The entry vectors are sets; `PlanCopies` counts duplicates,
which a set would hide. `merge_min` is 0 in the
model for `None`; `Some(0)`, which merges on every append just as `Some(1)` does,
has no value of its own.

Each operation is one action with all its PUTs and DELETEs: `&mut Store` admits no
reader in between, and nothing in the code survives a failure half way. An append
is `FastAppend` or `MergeAppend` by the threshold. `ExpireSnapshots` deletes, like
the code, the lists of the expired snapshots and those of *their own* manifests
that are not live. `truth` is a history variable: what each snapshot was committed
with.

`Delta` lists from the hint only for the newest version (`ListFrom`), takes the
newest checkpoint it listed, and replays the later commits. `TableFormats`
extends `Delta` with an instance of `Iceberg` and puts the commits of
`table_bench.rs` into both, with either format's maintenance allowed at any time.

Left out: JSON, byte counts, request meters, pages of a LIST, the metadata log.

### GraphStore, CsrDelta, CsrDeltaMC

`m`, `dp`, `dm` are sets of edges, `dpN` and `dmN` the counters. A row map whose
empty rows are removed is determined by its set of edges. `insert` and `delete`
are split by their early returns: `Resurrect`, `InsertPresent`, `InsertPending`;
`Retract`, `DeleteAbsent`, `DeleteSettled`. The flush at the end of a write is
`MaybeFlush`, in the same step. `reply` is what the call returned, so that the
refinement of `GraphStore` compares answers as well as graphs.

The array code is checked apart, in `CsrDeltaMC`: `FlushArrays` copies the
untouched ranges, shifts their offsets and merges the affected rows as `flush`
does; `ScanPerEdge` and `ScanSplit` are the two tombstone scans of `for_each`.
`EagerInsert` and `EagerDelete` are the splices of `EagerCsr`, `VecInsert` and
`VecDelete` those of `VecVec`. Each loop of the code is a fold of its one turn
(`MergeTurn`, `FlushRow`, `TestEdge`, `SkipTombstone`). Two invariants compare all of
these with the set model in every reachable state.

Left out: the timing statistics, memory accounting, and the empty row that
`entry(u).or_default()` could leave when the edge turns out to be present: it
cannot, because a row of `DP` or `DM` found there is never empty (an invariant of
the sets' representation; an edge that is in neither is always added).

### Ftl

The variables are the fields of `Ssd`, `is_free` being membership in `free`.
`write()` contains two loops, the one that collects until the reserve is back and
the one over a victim's pages. Their iterations are steps (`StartGc`, `Relocate`,
`FinishGc`), because any of them can find the device out of erased blocks;
`victim` and `next` are their loop variables. The host's calls wait for both
(`Idle`), since the device is called with `&mut self`. `Program` is disabled where
the code panics: `NeverPanics` says that never matters, and deadlock checking is
on. The write counters are left out.

### DatalogRules, NaiveEval, SemiNaive

`DatalogRules` states the four programs as sets of rule instances, one tuple per way
in which a body matches, since that is what the code counts. `NaiveEval` is the
abstract specification: the whole relation goes through the rule every round.
`SemiNaive` is the code, a round a step; `mode` is the strategy. `Version1` and
`Version2` are the two delta versions of the nonlinear rule, `Fresh` the set `seen`
filters, `Merge` the end of a round. A hash relation and the vectors that hold the same
tuples are one set. Each evaluation in the code has its own copy of this loop; the
model has one, parameterised by the rules.

Left out: time, and the tuples' order, on which nothing depends.

### EGraph, EMatch, EMatchMC

`parents`, `classes` and `memo` are the fields; an e-node is a record of a symbol and
its children. The vector of a class is a set: neither matcher can see its order or the
duplicates it has before a rebuild. `Union` takes the class of the losing root away and
adds its e-nodes to the winner's (`Gather`), `AddFresh` makes a class of its own. `rebuild()` is a loop whose scan
(`Scan`) collects the pairs to merge, in an arbitrary order of the classes, and whose
merges (`MergeNext`) are steps of their own, since each changes what the next one finds.
`asserted`, `terms` and `dirty` are history.

`EMatch` translates both matchers as folds over the same e-graph: the straight-line
program of `backtrack.rs` over sets of register files, and the generic join of
`relational.rs` over the tables, with its variable order. A pattern is a function
from positions (paths) to symbols and variables. `Represented` is the definition of a
match, which neither uses.

Left out: path compression (`find` without it answers the same), the timing. A
pattern that is a bare variable is not among the patterns: no code builds one, and on it
the two matchers do differ (the walk scans every class, the join binds nothing).

### VClock, Lww, LwwReplicas

`VClock` and `Lww` are the two files' operations on functions (a `HashMap` is a
function on a set of keys). `LwwReplicas` uses them in the two ways the topic has:
`lane`, which is `run_lww` of the bench with any keys and any moments of syncing; and
`gossip`, the use that `merge` is documented for, where snapshots of a replica's state
stay receivable for ever, so that one may be late, repeated, reordered or never
received. The contract of `lww.rs:25` (timestamps never go back at a replica) is a
guard of `Write`. `seen` is the causal history, which only the properties read.

A value is the identity of its write together with the writer's whole clock. The
bench keeps one entry of that clock, which for two replicas says the same.

Two remarks on the code, neither a failure of a property. A `set` at the timestamp
the register already holds, which the contract allows, is dropped silently unless its
replica is larger. And the comment on `LwwMap::merge` counts writes "that no
replica remembers", while the count includes those a later write had already
replaced knowingly; the bench tells the two apart (`LossesAreCounted`).

### Overload, OverloadMC

A step is one iteration of `run()`'s loop. The heap is a set whose first element is
the least by arrival and number, as `Ord` defines it. Time is in ticks. The policy is
either `NoPolicy` or one that answers anything: the hooks' answers are choices, which
covers the gate and the bucket that fill the trait when the exercises are
solved. `log` is history. Left out: the list of latencies.

## Runs

Times are on two workers. The runs of topics 16, 45, 49 and 51 check for deadlock;
in the four others the system stops by itself (an evaluation or a simulation ends), or
at a bound.

| run | bounds | distinct states | question |
|---|---|---|---|
| `wal_kv` | 2 keys, 2 values, at most 5 log records | 19,608 | does every history of writes, commits and crashes show what the oracle expects? |
| `iceberg` | 2 days, merge at never or 3 manifests, 5 snapshots | 109,258 | is the current table always complete, and is time travel never wrong? |
| `iceberg_expiry` | 1 day, no merging, 3 snapshots | violation | can every kept snapshot be planned? No |
| `iceberg_orphans` | same | violation | is every unreachable manifest deleted? No |
| `delta` | 2 days, checkpoint never or every 1, 2 or 3, 5 versions | 69,764 | can every version be read back for ever, and do checkpoints bound the replay? |
| `table_formats` | 2 days, merge at never or 2, checkpoint never or every 2, 4 snapshots and 4 versions | 325,688 | do the two formats always agree? |
| `csr_delta` | 4 vertices, 7 possible edges, thresholds 0, 1, 4, every initial graph | 16,896 | is the delta matrix a set of edges, and do its arrays and those of the eager stores compute it? |
| `ftl` | 2 pages per block, 2 logical and 2 spare blocks | 20,233 | does collection never run out, lose a page, or go on for ever? |
| `datalog` | every graph on 4 nodes | 146,815 | does every strategy compute what naive rounds compute, with exact counters? |
| `egraph` | symbols of arity 0, 1 and 2, 4 ids, 2 unions | 75,682 | are the equalities the forced ones, does a rebuild end, and do the matchers agree? |
| `crdt` | 3 replicas, 2 keys; gossip of 4 writes, 2 timestamps, 2 snapshots; 4 rounds of the lane | 668,081 | do clocks and maps depend on histories only, and is every loss counted once? |
| `overload` | 96 ticks over 576 choices of service, load, timeout and outage; 14 ticks with any policy | 298,769 | is the server first-in first-out, are the retries bounded, and does it fail and heal as the header says? |

Why the bounds are enough for the interesting cases:

- `wal_kv`: five records hold a committed batch, then a batch of one or two writes
  that is cut anywhere and repaired, then another commit. A key is overwritten and
  deleted within a batch and across batches. Every constant is arbitrary in the
  proofs.
- `iceberg`: five snapshots allow a merge over three manifests, a rewrite, an expiry
  of any number between any two of them, and appends after all have expired. A
  commit may have files in no day, one day or both, which is what pruning depends
  on. The violations need three.
- `delta` and `table_formats`: four or five versions hold an automatic checkpoint and commits before and
  after it, a manual checkpoint at any version, and a merge in the other format.
- `csr_delta`: a row of three edges, an empty row, a last row, and rows between
  affected ones. Threshold 4 leaves up to three changes pending in every mix;
  0 and 1 flush on every write.
- `ftl`: the least over-provisioning for which the properties hold. With one spare
  block fewer, a full device has no block with an invalid page
  (`VictimHasInvalidPage` fails), so the assumption `OpBlocksCoverReserve` is
  tight. `SsdConfig` does not validate this; its values in the repository are
  larger. A run with three logical blocks (2.9 million states) passed too, but
  takes four minutes and is not part of the project.

- `datalog`: four nodes hold cycles, a cycle with a tail, two components, and
  rounds beyond the second, in which the three parts of a nonlinear join (old with
  new, new with old, new with new) are all nonempty.
- `egraph`: four ids hold a congruence that follows from another congruence, and two
  unions without a rebuild between them, which is when e-nodes and table entries are
  over ids that are no longer roots, and a class moves twice. The five patterns have repeated variables at one depth
  and at two, and two and three roots.
- `crdt`: two writes at each of two timestamps, by any replicas, tie in every way;
  two snapshots that three replicas may receive in any order make every relay.
- `overload`: 96 ticks are at least eight times the longest timeout, and leave the
  backlog of the longest outage time to drain wherever it does. The thresholds of
  `HiddenCapacity` are tight: with an outage of one timeout the first half fails. Outages
  start with the first request, in the first second and in the second one.

### Fairness

Three specifications state fairness. In `Ftl` it is `WF_vars(GcStep)`: `write()` does
not return before its loops end, and nothing else runs meanwhile, so a step of the
loop that can be taken is taken; no fairness is assumed of the host. In `EGraph` it is
the same of the two steps of `rebuild()` (`RebuildReturns`). In `SemiNaive` and
`NaiveEval` it is weak fairness of the whole next-state relation: an evaluator is a
function that runs until it returns. `Overload` and `LwwReplicas` need none: that a
simulation ends follows from the bound on the attempts (`RetriesFollowTimeouts`), and
nothing says that a message arrives.

### What the violations show

The comment on `expire_snapshots` (`iceberg.rs:414`) says "a manifest is deleted when
no kept manifest list can reach it". The code asks instead whether a manifest of
an expired snapshot is live *now*.

- `iceberg_expiry`: after a rewrite (or a merge), a manifest of the oldest snapshot is
  no longer live, but a kept snapshot from before the rewrite still lists it.
  Expiring the oldest deletes it, and planning the kept snapshot panics.
  `table_bench.rs` expires all but the newest snapshot, which is never affected
  (`CurrentPlanExact`). `OnlyExpiryOfRewrittenBreaks` shows that this is the only
  way a kept snapshot is lost.
- `iceberg_orphans`: a manifest still live when its own snapshot expires is skipped,
  and never looked at again after a later rewrite replaces it: it stays in the
  store for ever.

## Proofs

Checked by TLAPS for every value of the constants that satisfies the named
assumptions.

`WalKvProofs` (from `AbsentIsNoValue`, `NoKeyIsNoKey`; the keys and values are any
sets): type correctness, `ReadsSeeOwnWrites`, `TailIsRepaired`,
`CommittedLogOnlyGrows`, `RecoveryIsTheLoop` and the refinement of the oracle. The
inductive invariant is the conjunction of the first three. It needs the tail: only
because the durable log ends with a marker does `LastGood(synced \o tail)` equal
`Len(synced)`, since the tail itself holds no marker (`buffered` never does, by
`TypeOK`). From this, a crash restores `synced` exactly, the map is
`ApplyWrites(EmptyMap, synced)`, and every step maps to a step of the oracle. The
lemmas on `ApplyWrites` show that applying a concatenation is applying its parts in
turn, and that a marker writes nothing. That recovery's loop computes `LastGood` and
`ApplyWrites` is an induction along the file: after each record the loop knows the
last marker so far, the map up to it, the batch since, and whether it met a bad
record (`LoopKnows`); `FoldExists` first shows that the recursion of the fold
has a solution, by a smallest prefix that has none.

`CsrDeltaProofs` has two parts. Of the sets (from `EdgesAreFinite`,
`ThresholdsAreNat`): the three invariants of
`delta.rs`'s header with type correctness, `PendingIsBounded`, `ScanMatchesLookup`
and the refinement of `GraphStore`. The inductive invariant adds that each counter
is the cardinality of its set (`CountersCount`): without it `num_edges` means
nothing, and neither does the threshold. One lemma, `FlushKeepsIInv`, covers the
end of both writes, flushing or not.
Of the arrays (also from `NumberOfVerticesIsNat`, `EdgesAreOfVertices`):
`ArraysFollowTheGraph` and `ScansSkipTombstones`. A sorted sequence is determined by
its set (`OrderIs`), and the arrays of a CSR by their edges (`CsrIs`, from `IsCsr`: the
offset of a row counts the edges before it, and each row is where its offset
says). So it is enough that a loop leaves a sorted sequence of the right set. Each
has an invariant: merge_row's output so far is sorted, holds what was read of both
inputs without the tombstones met, and is below all that is still to be read (`Merged`); the flush has
laid out the resulting graph up to its cursor (`Flushed`, `Laid`); a scan has put out
the part of the row it has passed, without its tombstones (`Tested`, `Skipped`). A splice moves what follows it
by one place, and so are the offsets after its row (`GrownRows`). That the deltas are
disjoint, and `DM` within `M`, is what merge_row needs of its inputs. The proof
uses no bound of the run.

`IcebergProofs` (from `DaysAreNat`, `DaysAreFinite`, `MergeMinsAreNat`, `MaxSeqIsNat`):
`CurrentPlanExact`, `TimeTravelExact` and `OnlyExpiryOfRewrittenBreaks`. `Complete` says
when references lead to a set of files: every manifest is there, its summary is right,
and no file is in two of them; then a plan is exact, because pruning drops no manifest
with a file of the day (`CompletePlansExactly`). The inductive invariant says this of
the live manifests, and of every kept list *all of whose manifests are there*: the
condition is what expiry breaks, and the reason why time travel is never wrong
although it may fail. It needs that nothing in the store is named after a snapshot
yet to come (`PathsArePast`), so that a commit overwrites no manifest and completes no
broken list by accident. One lemma, `CommitKeepsSound`, covers the end of all three
commits. That a finite set of days has a maximum is proved by a smallest counterexample.
The part of the invariant that holds whatever new files are appended is `Sound`;
`IInv` adds how `Iceberg`'s own actions name them (`TruthIsPast`).

`TableFormatsProofs` (from `MaxVersionsIsNat` and Iceberg's assumptions) has two parts.
Of the Delta table by itself: `PlansReplayTheLog` and `CheckpointBoundsReplay`. The
inductive invariant adds to the types that a checkpoint holds the union of all commits
up to its version (`CheckpointsAreComplete`) and that the hint names the newest
checkpoint (`HintIsNewest`). Replay is then a union split at the checkpoint's version.
Of both tables: `LatestPlansAgree` and `TimeTravelAgrees`. The inductive invariant,
`BothInv`, is Delta's `IInv`, Iceberg's `Sound`, and two ties between the tables: the files
of a commit bear its number (`FilesAreNamed`), so that what is appended is new to Iceberg,
which has its own, larger numbers once a rewrite has taken a snapshot; and the snapshot
of the n-th commit was committed with the files of the first n commits
(`SnapshotsAreCommits`). Each planner is exact about its own table, so they agree.
The proofs about Iceberg are used through an instance of `IcebergProofs`.

`SimulatorProofs` holds the proofs of the two simulators; the part about `Ftl` and the
part about `Overload` use nothing of each other, and the names of `Overload`'s
specification (`SimInit`, `SimNext`, `SimSpec`) keep the two apart.

About `Ftl` (from the three assumptions on the geometry): `MappingIsConsistent`,
`ErasedSpaceIsEmpty`, `NeverPanics`, `CollectionKeepsData` and
`VictimHasInvalidPage`, for any geometry. The inductive invariant adds
`CollectionHasRoom`: the victim's pages already looked at are unmapped (so a finished
victim is empty), and either an erased block is left or the rest of the active block
has room for the victim's valid pages (so a collection never runs out). That the victim
has an invalid page is a counting argument: there are at least as many candidates
as logical blocks; were all of them full, they and the page just written, which is in
the active block (`ActiveIsUsed`), would be more pages than there are logical
ones.

About `Overload` (from `ConfigsAssumption`: any set of simulations, whose loads are
positive and advance the clock): `ServerIsFifo` and `RetriesFollowTimeouts`. The
inductive invariant, `SimInv`, has four parts that do the work. What was popped is in
order and before all that is pending (`PopsAreOrdered`): a retry is never earlier than the
attempt just popped, and its number is larger than all before it (`NumbersAreTaken`;
initially because the originals of a set of multiples of the interval are numbered
without a gap). The server's time up to `serverFree` is packed (`WorkIsPacked`): the next
attempt came no earlier than the last one served, and that one waited in no gap.
Within a window, the last success ends at least a service time for each earlier one after
the window begins (`GoodputIsSpaced`), which is what bounds the goodput. And each request
has a chain (`ChainOf`): its popped attempts, all but the last retried, a timeout apart, and
the pending attempt that continues it, whose retries left and popped attempts add up to
the budget. That no priority has more successes than requests is an injection from
successes to originals: an earlier success of the same request would have been retried.

`SemiNaiveProofs` (from `NodesAssumption`: a finite set of nodes): `InductiveInvariant`
(whatever the rules derive from the tuples older than the delta is known already),
`DerivationsExact`, `ClosureIsReachability`, and the safety part of `ImplementsNaive`:
every round of every strategy is a round of naive evaluation. The lemmas distribute
each join over old and new tuples; the counters need the cardinality of a union of
disjoint sets of instances. When an evaluation ends its relation is closed under the
rule, and never holds more than what is reachable; that a closed relation
holds all that is reachable is proved by a smallest counterexample over the distance.

`EGraphProofs` (from `ArityAssumption`, `BoundsAssumption`; any symbols):
`MergesAreForced`, `AnswersAreTheTermAsked`, `RebuildRestores` and, about `EMatch`,
`MatchersAgree`. The union-find is a
`Forest`: every walk along parents ends, which gives the recursion of `find` one solution
and every id a root. The model computes the least congruence by an iteration that
joins one pair of labels at a time. Each join takes a label out of use, so the
iteration is a forest too (`DescentIsForest`), ends (`JoinsEnd`), and gives a
congruence (`LabelRespects`) within every other one (`LabelIsLeast`). The inductive
invariant says that the classes are kept under the roots (`Shape`), that the e-nodes of a
class and the
entries of the table, stale or not, are congruent to the terms of the id they are kept
under (`ClassesHoldTerms`, `MemoHoldsTerms`), that what was asserted is merged
(`AssertedAreMerged`), that nothing else is (`OnlyForced`), and that with no union
pending the classes are canonical and the table their exact index (`Restored`). The
first two carry `OnlyForced` through a rebuild: the pairs a scan collects are congruent
because their e-nodes are, although the roots change while they are merged. `Restored` and
`AssertedAreMerged` give the converse: after a rebuild, what is equal in the union-find is a
congruence, so it holds the least one.

The same module proves `MatchersAgree` (`MatchersAreExact`), for any patterns
(`PatternsAssumption`: finite trees, each symbol with the arguments of its arity, no bare
variable). Of the e-graph it uses what a rebuild restores (`Ready`: finitely many classes,
each with finitely many e-nodes over canonical ids, no e-node in two), of which each
matcher needs a part. The three sets that the property compares are each shown to be the
answers of one definition, `Matches`: a class for every position, such that the class of an
application has an e-node with the classes of the arguments as children, and a
variable has one class everywhere.

- The definition (`RepresentedIs`): the class that a substitution gives a subpattern is
  found bottom up, so the recursion has one solution, and an instance in the
  e-graph is a match. That a class is determined by its e-node is `Restored`.
- The walk (`WalkedIs`): when it comes to a position, the register files are those that
  agree with the e-graph on the positions before it in reading order (`FilesAt`). Every
  instruction extends that by its position: a scan and a bind set the registers of an
  application and of its arguments, which no earlier instruction set; a compare checks a
  variable against its first occurrence, which is before it.
- The join (`JoinedIs`): after some of the variables of the plan, the bindings are those
  for which every atom still has a tuple (`Found`), since the levels of a trie are the
  atom's variables in the order of the plan. With all variables bound these are the
  matches, whatever the order is; that the order lists every variable once is all that is
  used of the plan.

The two loops are folds over a range of numbers, and the proofs show that one has a
solution (`FoldExists`) and where it ends (`FoldEnds`). Reading order and the plan's
order are strict total orders, so counting predecessors lists them (`RanksAreExact`,
`ListingEnumerates`).

`LwwReplicasProofs` (from `ReplicasAssumption`, `BoundsAssumption`): `MapIsTheWinners`,
`ClocksAreHistories` and `LossesAreCounted`. The inductive invariant of the first two,
`World`, is about all states at once, replicas' and snapshots': a dot names one write, a
clock covers exactly the writes its state has seen up to a newest one of each replica,
and a replica has seen its own writes (so that no other state is ahead of it). The
first theorem does not use the contract on timestamps. The third has an invariant of
the bench's lane (`LaneInv`): the writes since the last sync are the latest (`Recent`); a
write was based on earlier ones (`OnEarlier`); what is neither held nor built upon was
lost at an earlier sync (`Superseded`); of the common writes only the last to a key
is built upon (`OnTop`); and a value written since the last sync knew, of the other
replica's writes, the common ones (`KnewCommon`). At a sync, the writes newly lost
correspond one to one to the keys at which the two held values are concurrent, and none
was lost before.

Induction. The library's induction theorems take an operator, which the provers cannot
instantiate. Where a proof above needs induction (over a distance, a file, a forest, a
finite set, the turns of a loop), it takes a smallest counterexample instead, from the least
element of a nonempty set of naturals.

Only model-checked:

- liveness: `WriteReturns`, `RebuildReturns`, and the termination in `ImplementsNaive`,
  which the provers cannot do;
- `HiddenCapacity`, which is about chosen numbers, and is a simulation rather than a
  theorem.

## Plan

In the order of what it would add:

1. Topic 29's versioned store with locks and timestamp oracle (`kv.rs`).
2. Topic 56's bump arena (its comment says that a reset reuses every chunk, while
   `grow()` looks at the next chunk only), and topic 54's bucketed join table with its
   two probes.
3. Topic 47's semi-join reduction against its definition, and topic 27's z-sets.

The exercise stubs come last: a stub is modelled when it has code.
