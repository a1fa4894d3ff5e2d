----------------------------- MODULE ChainScan -----------------------------
(***************************************************************************)
(* The two ways of learning what was anchored for a stream, and their      *)
(* comparison (completeness-checker/sources/chain.ts, compare.ts): the     *)
(* rows the subgraph serves, and the raw scan of blocks, which is to       *)
(* follow the mapping's rules without any indexer.                         *)
(*                                                                         *)
(* The scan reads transactions, not traces: it does not see calls that a   *)
(* contract makes, and it does see transactions that reverted.  It knows   *)
(* nothing of what lies before its first block.                            *)
(*                                                                         *)
(* An answer is what every source returns: rows sorted by position, the    *)
(* positions of the conflicts listed, and how many payloads were malformed.*)
(***************************************************************************)
EXTENDS AnchorIndex

Row(e) == [seq |-> e.seq, cd |-> e.cd, prev |-> e.prev, digest |-> Keccak(e)]

\* The elements of S from the first to the last of a total order on S, given
\* as the pairs it relates.
InOrder(S, before) ==
  [n \in 1 .. Cardinality(S) |-> CHOOSE x \in S : Cardinality({y \in S : <<y, x>> \in before}) = n - 1]

BySeq(rows) == {p \in rows \X rows : p[1].seq < p[2].seq}

Sorted(rows) == InOrder(rows, BySeq(rows))

ByCall(ids) == {p \in ids \X ids : p[1] < p[2]}

-----------------------------------------------------------------------------
(* scanChain *)

Scanned(from, to) == {i \in DOMAIN calls : calls[i].kind # "internal" /\ calls[i].tx \in from .. to}

\* Mutant: a re-submission of the same envelope counts as a conflict.
ScanCopiesCompete(s, from, to) ==
  LET ours == {i \in Scanned(from, to) : /\ calls[i].payload \in Envelopes
                                         /\ calls[i].payload.stream = s}
      SamePosition(i, j) == calls[i].payload.seq = calls[j].payload.seq
      first == {i \in ours : \A j \in ours : SamePosition(i, j) => i <= j}
      competing == ours \ first
  IN [anchors |-> Sorted({Row(calls[i].payload) : i \in first}),
      conflicts |-> [n \in 1 .. Cardinality(competing) |->
                       calls[InOrder(competing, ByCall(competing))[n]].payload.seq],
      malformed |-> Cardinality({i \in Scanned(from, to) : calls[i].payload \in Undecodable})]

Scan(s, from, to) ==
  LET ours == {i \in Scanned(from, to) : /\ calls[i].payload \in Envelopes
                                         /\ calls[i].payload.stream = s}
      SamePosition(i, j) == calls[i].payload.seq = calls[j].payload.seq
      first == {i \in ours : \A j \in ours : SamePosition(i, j) => i <= j}
      competing == {i \in ours : \E j \in first : /\ SamePosition(i, j)
                                                  /\ calls[i].payload # calls[j].payload}
  IN [anchors |-> Sorted({Row(calls[i].payload) : i \in first}),
      conflicts |-> [n \in 1 .. Cardinality(competing) |->
                       calls[InOrder(competing, ByCall(competing))[n]].payload.seq],
      malformed |-> Cardinality({i \in Scanned(from, to) : calls[i].payload \in Undecodable})]

-----------------------------------------------------------------------------
(* What the subgraph serves for a stream at this moment. *)

RowAt(k) == [seq |-> k[2], cd |-> anchors[k].cd, prev |-> anchors[k].prev, digest |-> anchors[k].digest]

RowsOf(s) == {RowAt(k) : k \in PositionsOf(s)}

ServedRows(s) == Sorted(RowsOf(s))

ConflictIds(s) == {k \in DOMAIN conflicts : k[1] = s}

BySeqThenTx(ids) == {p \in ids \X ids : p[1][2] < p[2][2] \/ (p[1][2] = p[2][2] /\ p[1][3] < p[2][3])}

ServedConflicts(s) ==
  LET ids == InOrder(ConflictIds(s), BySeqThenTx(ConflictIds(s)))
  IN [n \in DOMAIN ids |-> ids[n][2]]

IndexAnswer(s) ==
  [anchors |-> ServedRows(s), conflicts |-> ServedConflicts(s), malformed |-> Cardinality(malformed)]

-----------------------------------------------------------------------------
(* compareIndexes: positions and counts on which two answers differ.  A    *)
(* position served twice counts with its last row.                         *)

LastRow(rows, s) == rows[CHOOSE i \in DOMAIN rows :
                           /\ rows[i].seq = s
                           /\ \A j \in DOMAIN rows : rows[j].seq = s => j <= i]

SeqsOf(rows) == {rows[i].seq : i \in DOMAIN rows}

CompareIndexes(a, b) ==
  LET left == SeqsOf(a.anchors)
      right == SeqsOf(b.anchors)
  IN {<<"only one side", s>> : s \in (left \cup right) \ (left \cap right)}
       \cup {<<"differs", s>> : s \in {t \in left \cap right :
                                         LastRow(a.anchors, t) # LastRow(b.anchors, t)}}
       \cup (IF Len(a.conflicts) # Len(b.conflicts) THEN {<<"conflict count">>} ELSE {})
       \cup (IF a.malformed # b.malformed THEN {<<"malformed count">>} ELSE {})

-----------------------------------------------------------------------------
(* Properties. *)

StreamsPosted == {e.stream : e \in Envelopes}

\* A full scan up to the block graph-node has reached says what the index
\* says, for every stream: the scan is "the reference implementation of the
\* mapping's rules" (chain.ts).
ScanIsReference ==
  indexed = Len(calls) =>
    \A s \in StreamsPosted : CompareIndexes(IndexAnswer(s), Scan(s, 0, HeadTx)) = {}

\* The deployed build served the stream something else than was posted.
ServedDishonestly(s) ==
  \E i \in DOMAIN calls :
    /\ calls[i].payload \in Envelopes
    /\ calls[i].payload.stream = s
    /\ Withheld(calls[i].payload) \/ AsServed(calls[i].payload) # calls[i].payload

\* While every call is a top-level transaction that succeeded (the writer's
\* are, unless one reverts), the cross-check is exact: index and scan differ on
\* a stream if and only if the build withheld or changed an anchor of it.  Two
\* implementations of first-wins, duplicates, conflicts and malformed payloads,
\* one incremental over tables and one over a range of blocks, never disagree
\* otherwise (compareIndexes over fetchServedIndex and scanChain).
CrossCheckExact ==
  indexed = Len(calls) /\ (\A i \in DOMAIN calls : calls[i].kind = "top") =>
    \A s \in StreamsPosted :
      CompareIndexes(IndexAnswer(s), Scan(s, 0, HeadTx)) # {} <=> ServedDishonestly(s)
=============================================================================
