----------------------------- MODULE CsrDeltaMC -----------------------------
(***************************************************************************)
(* Model-checks CsrDelta, and checks in every state it reaches that the    *)
(* arrays compute what CsrDelta says of the sets: the flush that copies    *)
(* untouched vertex ranges and shifts their offsets (flush, merge_row),    *)
(* the two ways a scan skips the tombstones of a row (for_each), and the   *)
(* two stores that splice on every write (EagerCsr, VecVec).               *)
(* A slice of the code is a sequence; offsets count from 0 as in the code. *)
(***************************************************************************)
EXTENDS CsrDelta, SequencesExt

CONSTANT N      \* the number of vertices

Vertices == 0..(N - 1)

ASSUME NumberOfVerticesIsNat == N \in Nat
ASSUME EdgesAreOfVertices == Edges \subseteq Vertices \X Vertices

\* Vertex 1 has no edges and vertex 0 has a row of three.
MCEdges == {<<0, 0>>, <<0, 1>>, <<0, 3>>, <<2, 0>>, <<2, 1>>, <<3, 1>>, <<3, 3>>}

\* A set of numbers in order: the k-th is the one that has k - 1 before it.
InOrder(S) ==
  [k \in 1..Cardinality(S) |-> CHOOSE x \in S : Cardinality({y \in S : y < x}) = k - 1]

\* The row of u in a set of edges: the destinations, sorted.
RowOf(es, u) == InOrder({e[2] : e \in {x \in es : x[1] = u}})

\* Csr::from_edges, whose argument is sorted by (source, destination).
Before(d, e) == d[1] < e[1] \/ (d[1] = e[1] /\ d[2] < e[2])
FromEdges(es) ==
  LET nth(k) == CHOOSE e \in es : Cardinality({d \in es : Before(d, e)}) = k - 1 IN
  [offsets |-> [u \in 0..N |-> Cardinality({e \in es : e[1] < u})],
   edges   |-> [k \in 1..Cardinality(es) |-> nth(k)[2]]]

\* Csr::row
CsrRow(c, u) == SubSeq(c.edges, c.offsets[u] + 1, c.offsets[u + 1])

-----------------------------------------------------------------------------
\* One turn of merge_row's loop: the next of row goes out unless it is the next
\* tombstone, or the next of add if that is smaller.
TakesRow(st, row, add) == st.j > Len(add) \/ (st.i <= Len(row) /\ row[st.i] < add[st.j])

\* Fault: the next tombstone stays the first one when it has been used.
MergeStuck(st, row, add, del) ==
  IF ~ TakesRow(st, row, add)
    THEN [st EXCEPT !.j = @ + 1, !.out = Append(@, add[st.j])]
  ELSE IF st.d <= Len(del) /\ del[st.d] = row[st.i]
    THEN [st EXCEPT !.i = @ + 1]
    ELSE [st EXCEPT !.i = @ + 1, !.out = Append(@, row[st.i])]

MergeTurn(st, row, add, del) ==
  IF ~ TakesRow(st, row, add)
    THEN [st EXCEPT !.j = @ + 1, !.out = Append(@, add[st.j])]
  ELSE IF st.d <= Len(del) /\ del[st.d] = row[st.i]
    THEN [st EXCEPT !.i = @ + 1, !.d = @ + 1]
    ELSE [st EXCEPT !.i = @ + 1, !.out = Append(@, row[st.i])]

\* merge_row: a turn for each edge of row and of add.
MergeRow(row, add, del) ==
  FoldLeft(LAMBDA st, x : MergeTurn(st, row, add, del),
           [i |-> 1, j |-> 1, d |-> 1, out |-> <<>>], row \o add).out

\* The rows from cur up to (not including) u are copied in one go, and their
\* offsets shifted by as much as the edges before them grew or shrank.
CopyRange(c, acc, u) ==
  LET s == c.offsets[acc.cur]
      shift == Len(acc.edges) - s
  IN  [acc EXCEPT
         !.edges = @ \o SubSeq(c.edges, s + 1, c.offsets[u]),
         !.off = [x \in 0..N |-> IF acc.cur <= x /\ x < u THEN c.offsets[x] + shift
                                                           ELSE @[x]]]

\* One affected row: what lies before it, then the row merged.
FlushRow(c, add, del, acc, u) ==
  LET before == CopyRange(c, acc, u)
  IN  [cur   |-> u + 1,
       edges |-> before.edges \o MergeRow(CsrRow(c, u), RowOf(add, u), RowOf(del, u)),
       off   |-> [before.off EXCEPT ![u] = Len(before.edges)]]

\* flush: the affected rows in order, then the rest and the end offset.
FlushArrays(c, add, del) ==
  LET affected == InOrder({e[1] : e \in add \cup del})
      start == [cur |-> 0, edges |-> <<>>, off |-> [x \in 0..N |-> 0]]
      merged == FoldLeft(LAMBDA acc, u : FlushRow(c, add, del, acc, u), start, affected)
      rest == CopyRange(c, merged, N)
  IN  [edges   |-> rest.edges,
       offsets |-> [rest.off EXCEPT
                      ![N] = c.offsets[N] + Len(merged.edges) - c.offsets[merged.cur]]]

-----------------------------------------------------------------------------
\* Tombstones::PerEdge: every edge is tested against the next tombstone.
TestEdge(st, x, dels) ==
  IF st.j <= Len(dels) /\ dels[st.j] = x
    THEN [st EXCEPT !.j = @ + 1]
    ELSE [st EXCEPT !.out = Append(@, x)]
ScanPerEdge(row, dels) ==
  FoldLeft(LAMBDA st, x : TestEdge(st, x, dels), [j |-> 1, out |-> <<>>], row).out

\* partition_point of a row from an index on: how far its edges are below d.
PartitionPoint(row, from, d) == from + Cardinality({i \in from + 1..Len(row) : row[i] < d})

\* Fault: the run after a tombstone starts at the tombstone itself.
SkipToTombstone(st, d, row) ==
  LET at == PartitionPoint(row, st.from, d)
  IN  [out |-> st.out \o SubSeq(row, st.from + 1, at), from |-> at]

\* Tombstones::Split: the plain runs between the tombstones' positions, each
\* found by binary search in what is left of the row.
SkipTombstone(st, d, row) ==
  LET at == PartitionPoint(row, st.from, d)
  IN  [out |-> st.out \o SubSeq(row, st.from + 1, at), from |-> at + 1]
ScanSplit(row, dels) ==
  LET done == FoldLeft(LAMBDA st, d : SkipTombstone(st, d, row), [out |-> <<>>, from |-> 0], dels)
  IN  done.out \o SubSeq(row, done.from + 1, Len(row))

-----------------------------------------------------------------------------
(* The stores that write at once: EagerCsr splices the arrays of a CSR, and  *)
(* VecVec one row of its own and a count of the edges.  What they answer is   *)
(* what Found says before the write.                                         *)

\* What binary_search finds in a sorted row: v itself, or where it belongs.
Found(row, v) == \E i \in DOMAIN row : row[i] = v
Position(row, v) == 1 + Cardinality({i \in DOMAIN row : row[i] < v})

\* The offsets of all rows after u move by one.
ShiftAfter(offsets, u, by) == [x \in 0..N |-> IF x > u THEN offsets[x] + by ELSE offsets[x]]

\* EagerCsr::insert
EagerInsert(c, u, v) ==
  LET row == CsrRow(c, u) IN
  IF Found(row, v) THEN c
  ELSE [edges |-> InsertAt(c.edges, c.offsets[u] + Position(row, v), v),
        offsets |-> ShiftAfter(c.offsets, u, 1)]

\* EagerCsr::delete
EagerDelete(c, u, v) ==
  LET row == CsrRow(c, u) IN
  IF ~ Found(row, v) THEN c
  ELSE [edges |-> RemoveAt(c.edges, c.offsets[u] + Position(row, v)),
        offsets |-> ShiftAfter(c.offsets, u, -1)]

\* VecVec::from_edges
VecVec(es) == [adj |-> [u \in Vertices |-> RowOf(es, u)], edges |-> Cardinality(es)]

\* VecVec::insert
VecInsert(g, u, v) ==
  IF Found(g.adj[u], v) THEN g
  ELSE [adj |-> [g.adj EXCEPT ![u] = InsertAt(@, Position(@, v), v)], edges |-> g.edges + 1]

\* VecVec::delete
VecDelete(g, u, v) ==
  IF ~ Found(g.adj[u], v) THEN g
  ELSE [adj |-> [g.adj EXCEPT ![u] = RemoveAt(@, Position(@, v))], edges |-> g.edges - 1]

-----------------------------------------------------------------------------
\* Every way to write the arrays leads to the CSR of the edge set that results:
\* rows sorted, no edge twice, and every offset right, those of rows that no
\* change names included.  The flush gets there with all that is pending at
\* once, the eager stores with any one insert or delete, effective or not.
ArraysFollowTheGraph ==
  LET settled == FromEdges(m) IN
  /\ FlushArrays(settled, dp, dm) = FromEdges(Fold(dp, dm))
  /\ \A e \in Edges :
       /\ EagerInsert(settled, e[1], e[2]) = FromEdges(m \cup {e})
       /\ EagerDelete(settled, e[1], e[2]) = FromEdges(m \ {e})
       /\ VecInsert(VecVec(m), e[1], e[2]) = VecVec(m \cup {e})
       /\ VecDelete(VecVec(m), e[1], e[2]) = VecVec(m \ {e})

\* Both scans of a row visit the settled edges without a tombstone, in order.
ScansSkipTombstones ==
  \A u \in Vertices :
    LET row == CsrRow(FromEdges(m), u)
        dels == RowOf(dm, u)
    IN  /\ ScanSplit(row, dels) = RowOf(m \ dm, u)
        /\ ScanPerEdge(row, dels) = RowOf(m \ dm, u)
=============================================================================
