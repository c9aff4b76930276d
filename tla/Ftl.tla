-------------------------------- MODULE Ftl --------------------------------
(***************************************************************************)
(* Topic 45's page-mapped flash translation layer (ftl.rs).  Pages are     *)
(* written out of place, into the active erase block; when fewer than      *)
(* GC_RESERVE erased blocks are left, write() collects: it picks the block *)
(* with the fewest valid pages, programs those pages again, and erases it. *)
(*                                                                         *)
(* The loop in write() and the loop over a victim's pages are steps of     *)
(* their own here, because a step of theirs can run out of erased blocks   *)
(* ("device out of erased blocks" panics); the host waits for both loops.  *)
(* The write counters are left out: nothing depends on them.               *)
(***************************************************************************)
EXTENDS Integers, Sequences, FiniteSets

CONSTANTS
  PagesPerBlock,   \* SsdConfig.pages_per_block
  LogicalBlocks,   \* SsdConfig.logical_blocks: what the host can address
  OpBlocks         \* SsdConfig.op_blocks: over-provisioning

\* Fault: collection starts only after the last erased block is used.
NoReserve == 0

\* GC_RESERVE: erased blocks kept in reserve.
GcReserve == 2

ASSUME PagesArePositive == PagesPerBlock \in Nat \ {0}
ASSUME LogicalBlocksArePositive == LogicalBlocks \in Nat \ {0}
\* With less over-provisioning than the reserve, a full device may have no
\* block with an invalid page, and the loop of write() never ends.
ASSUME OpBlocksCoverReserve == OpBlocks \in Nat /\ OpBlocks >= GcReserve

VARIABLES
  l2p,      \* logical page -> physical page
  p2l,      \* physical page -> logical page
  valid,    \* block -> number of valid pages
  free,     \* the erased blocks, in the order they will be used
  active,   \* the block being written
  wp,       \* the next page in it
  victim,   \* the block being collected
  next      \* the next of its pages to look at

hostVars == <<l2p, p2l, valid, free, active, wp>>
vars == <<l2p, p2l, valid, free, active, wp, victim, next>>

Blocks == 0..(LogicalBlocks + OpBlocks - 1)
Pages == 0..((LogicalBlocks + OpBlocks) * PagesPerBlock - 1)
Lbas == 0..(LogicalBlocks * PagesPerBlock - 1)

None == -1      \* u32::MAX in the maps; no victim

BlockOf(p) == p \div PagesPerBlock
PageOf(b, i) == b * PagesPerBlock + i
IsFree(b) == \E i \in DOMAIN free : free[i] = b

-----------------------------------------------------------------------------
\* Ssd::new: block 0 is active, the others are erased.
Init ==
  /\ l2p = [l \in Lbas |-> None]
  /\ p2l = [p \in Pages |-> None]
  /\ valid = [b \in Blocks |-> 0]
  /\ free = [i \in 1..(LogicalBlocks + OpBlocks - 1) |-> i]
  /\ active = 0 /\ wp = 0
  /\ victim = None /\ next = 0

\* The maps without the old copy of lba (invalidate).
Unmapped(lba) ==
  IF l2p[lba] = None THEN p2l ELSE [p2l EXCEPT ![l2p[lba]] = None]
ValidWithout(lba) ==
  IF l2p[lba] = None THEN valid ELSE [valid EXCEPT ![BlockOf(l2p[lba])] = @ - 1]

\* Fault: the page's old copy is not invalidated.
PlaceOver(lba, b, i) ==
  /\ l2p' = [l2p EXCEPT ![lba] = PageOf(b, i)]
  /\ p2l' = [p2l EXCEPT ![PageOf(b, i)] = lba]
  /\ valid' = [valid EXCEPT ![b] = @ + 1]
  /\ active' = b
  /\ wp' = i + 1

\* The page goes to position i of block b, and its old copy is invalid.
Place(lba, b, i) ==
  /\ l2p' = [l2p EXCEPT ![lba] = PageOf(b, i)]
  /\ p2l' = [Unmapped(lba) EXCEPT ![PageOf(b, i)] = lba]
  /\ valid' = [ValidWithout(lba) EXCEPT ![b] = @ + 1]
  /\ active' = b
  /\ wp' = i + 1

\* program(lba): into the active block, or the next erased one when it is
\* full; the code panics when there is none.
Program(lba) ==
  \/ wp < PagesPerBlock /\ Place(lba, active, wp) /\ UNCHANGED free
  \/ /\ wp = PagesPerBlock /\ free # <<>>
     /\ Place(lba, Head(free), 0)
     /\ free' = Tail(free)

\* write() and trim() are called when no earlier call is still collecting.
Idle == victim = None /\ Len(free) >= GcReserve

Write(lba) ==
  /\ Idle
  /\ Program(lba)
  /\ UNCHANGED <<victim, next>>

Trim(lba) ==
  /\ Idle
  /\ l2p' = [l2p EXCEPT ![lba] = None]
  /\ p2l' = Unmapped(lba)
  /\ valid' = ValidWithout(lba)
  /\ UNCHANGED <<free, active, wp, victim, next>>

\* The blocks gc() may erase: neither the active block nor an erased one.
Candidates == {b \in Blocks : b # active /\ ~ IsFree(b)}

\* Fault: the block with the most valid pages is chosen.
Fullest ==
  CHOOSE b \in Candidates :
    \A c \in Candidates : valid[b] > valid[c] \/ (valid[b] = valid[c] /\ b <= c)

\* gc()'s choice: the first of those with the fewest valid pages.
Greedy ==
  CHOOSE b \in Candidates :
    \A c \in Candidates : valid[b] < valid[c] \/ (valid[b] = valid[c] /\ b <= c)

\* Fault: the victim is on the free list from the start of its collection.
FreeEarly ==
  /\ victim = None /\ Len(free) < GcReserve
  /\ victim' = Greedy
  /\ free' = Append(free, Greedy)
  /\ next' = 0
  /\ UNCHANGED <<l2p, p2l, valid, active, wp>>

\* The head of write()'s loop: another collection is needed.
StartGc ==
  /\ victim = None /\ Len(free) < GcReserve
  /\ victim' = Greedy
  /\ next' = 0
  /\ UNCHANGED hostVars

\* Fault: a page is dropped when it is the last valid one of the victim.
DropLast ==
  /\ victim # None /\ next < PagesPerBlock
  /\ LET lba == p2l[PageOf(victim, next)] IN
       IF lba # None /\ valid[victim] > 1
         THEN Program(lba)
         ELSE /\ l2p' = [l \in Lbas |-> IF l = lba THEN None ELSE l2p[l]]
              /\ p2l' = [p2l EXCEPT ![PageOf(victim, next)] = None]
              /\ valid' = IF lba = None THEN valid ELSE ValidWithout(lba)
              /\ UNCHANGED <<free, active, wp>>
  /\ next' = next + 1
  /\ UNCHANGED victim

\* One page of the victim: a valid one is programmed again.
Relocate ==
  /\ victim # None /\ next < PagesPerBlock
  /\ LET lba == p2l[PageOf(victim, next)] IN
       IF lba # None THEN Program(lba) ELSE UNCHANGED hostVars
  /\ next' = next + 1
  /\ UNCHANGED victim

\* The victim is erased.
FinishGc ==
  /\ victim # None /\ next = PagesPerBlock
  /\ free' = Append(free, victim)
  /\ victim' = None
  /\ UNCHANGED <<l2p, p2l, valid, active, wp, next>>

GcStep == StartGc \/ Relocate \/ FinishGc

Next == (\E lba \in Lbas : Write(lba) \/ Trim(lba)) \/ GcStep

\* write() runs its loops to the end.
Spec == Init /\ [][Next]_vars /\ WF_vars(GcStep)

-----------------------------------------------------------------------------
(* Properties. *)

TypeOK ==
  /\ l2p \in [Lbas -> Pages \cup {None}]
  /\ p2l \in [Pages -> Lbas \cup {None}]
  /\ valid \in [Blocks -> 0..PagesPerBlock]
  /\ free \in Seq(Blocks)
  /\ active \in Blocks /\ wp \in 0..PagesPerBlock
  /\ victim \in Blocks \cup {None} /\ next \in 0..PagesPerBlock

\* ftl.rs's test mapping_is_consistent, in every state, in the middle of a
\* collection too: the two maps are each other's inverse, and a block's
\* counter is the number of its mapped pages.
MappingIsConsistent ==
  /\ \A l \in Lbas : l2p[l] # None => p2l[l2p[l]] = l
  /\ \A p \in Pages : p2l[p] # None => l2p[p2l[p]] = p
  /\ \A b \in Blocks :
       valid[b] = Cardinality({i \in 0..(PagesPerBlock - 1) : p2l[PageOf(b, i)] # None})

\* Nothing is ever written over: an erased block holds no valid page (gc's
\* debug_assert), nor does the unwritten part of the active block, and no
\* block is erased twice, active or collected while it is erased.
ErasedSpaceIsEmpty ==
  /\ \A i \in DOMAIN free :
       /\ valid[free[i]] = 0
       /\ free[i] # active /\ free[i] # victim
       /\ \A j \in DOMAIN free : free[i] = free[j] => i = j
  /\ \A i \in wp..(PagesPerBlock - 1) : p2l[PageOf(active, i)] = None

\* A page is about to be programmed, by the host or by a relocation.
ProgramIsNext ==
  \/ Idle
  \/ victim # None /\ next < PagesPerBlock /\ p2l[PageOf(victim, next)] # None

\* program's "device out of erased blocks" never happens, and neither does
\* gc's "no GC victim".
NeverPanics ==
  /\ ProgramIsNext /\ wp = PagesPerBlock => free # <<>>
  /\ Len(free) < GcReserve => Candidates # {}

\* Every collection gains: the victim that greed picks has an invalid page.
VictimHasInvalidPage ==
  victim # None /\ next = 0 => valid[victim] < PagesPerBlock

\* A collection neither loses nor revives a logical page.
Mapped == {l \in Lbas : l2p[l] # None}
CollectionKeepsData == [][GcStep => Mapped' = Mapped]_vars

\* write() returns: however full the device is, collecting ends.
WriteReturns == ~ Idle ~> Idle
=============================================================================
