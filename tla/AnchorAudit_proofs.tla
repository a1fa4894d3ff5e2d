------------------------ MODULE AnchorAudit_proofs ------------------------
(***************************************************************************)
(* Theorems about what an auditor learns (ChainScan, AnchorAudit), for     *)
(* every set of payloads, page size, records file and number of runs.      *)
(*                                                                         *)
(*   - Listings: what sorting rows by position returns.                    *)
(*   - The scan: over calls that succeeded it finds what the index holds,  *)
(*     unless the build withheld or changed an anchor.                     *)
(*   - A `verify' at work: types, and the blocks its answer comes from.    *)
(*   - The answer: a row of it was anchored by the last request; what was  *)
(*     anchored by the first is in it, or comes on a page not asked for    *)
(*     yet, since new rows only move others to later pages.                *)
(*   - The pass: computeAnchors, by induction on the position, and what    *)
(*     exit code 0 says of the disclosure.                                 *)
(*   - The honest owner: up to a block where nothing reverted and nothing  *)
(*     competes, every source has the same rows; pages of an index that    *)
(*     stands still are counted; the files of an owner who never edits     *)
(*     hold what he anchored.                                              *)
(***************************************************************************)
EXTENDS AnchorAudit, AnchorWriter_proofs, SequenceTheorems

-----------------------------------------------------------------------------
(* Listings: what InOrder returns, for any total order given as pairs.     *)

TotalOrder(S, before) ==
  /\ \A x \in S : <<x, x>> \notin before
  /\ \A x, y \in S : x = y \/ <<x, y>> \in before \/ <<y, x>> \in before
  /\ \A x, y, z \in S : <<x, y>> \in before /\ <<y, z>> \in before => <<x, z>> \in before

Below(S, before, x) == {y \in S : <<y, x>> \in before}

Rank(S, before, x) == Cardinality(Below(S, before, x))

LEMMA RankFacts ==
  ASSUME NEW S, IsFiniteSet(S), NEW before, TotalOrder(S, before)
  PROVE  /\ \A x \in S : Rank(S, before, x) \in 0 .. (Cardinality(S) - 1)
         /\ \A x, y \in S : <<x, y>> \in before => Rank(S, before, x) < Rank(S, before, y)
<1>1. Cardinality(S) \in Nat  BY FS_CardinalityType
<1>2. ASSUME NEW x \in S
      PROVE  /\ IsFiniteSet(Below(S, before, x))
             /\ Rank(S, before, x) \in 0 .. (Cardinality(S) - 1)
  <2>1. Below(S, before, x) \in SUBSET S /\ x \notin Below(S, before, x)
    BY DEF Below, TotalOrder
  <2>2. /\ IsFiniteSet(Below(S, before, x))
        /\ Rank(S, before, x) <= Cardinality(S)
        /\ Rank(S, before, x) # Cardinality(S)
    BY <2>1, FS_Subset DEF Rank
  <2>3. Rank(S, before, x) \in Nat  BY <2>2, FS_CardinalityType DEF Rank
  <2>4. QED  BY <1>1, <2>2, <2>3
<1>3. ASSUME NEW x \in S, NEW y \in S, <<x, y>> \in before
      PROVE  Rank(S, before, x) < Rank(S, before, y)
  <2>1. Below(S, before, x) \in SUBSET Below(S, before, y)
    BY <1>3 DEF Below, TotalOrder
  <2>2. x \in Below(S, before, y) /\ x \notin Below(S, before, x)
    BY <1>3 DEF Below, TotalOrder
  <2>3. /\ Rank(S, before, x) <= Rank(S, before, y)
        /\ Rank(S, before, x) # Rank(S, before, y)
    BY <1>2, <2>1, <2>2, FS_Subset DEF Rank
  <2>4. Rank(S, before, x) \in Nat /\ Rank(S, before, y) \in Nat  BY <1>1, <1>2
  <2>5. QED  BY <2>3, <2>4
<1>4. QED  BY <1>2, <1>3

\* The listing holds every element once, each at the place of its rank.
LEMMA InOrderFacts ==
  ASSUME NEW S, IsFiniteSet(S), NEW before, TotalOrder(S, before)
  PROVE  /\ Cardinality(S) \in Nat
         /\ InOrder(S, before) \in [1 .. Cardinality(S) -> S]
         /\ Len(InOrder(S, before)) = Cardinality(S)
         /\ DOMAIN InOrder(S, before) = 1 .. Cardinality(S)
         /\ \A n \in 1 .. Cardinality(S) : Rank(S, before, InOrder(S, before)[n]) = n - 1
         /\ \A x \in S : /\ Rank(S, before, x) + 1 \in 1 .. Cardinality(S)
                         /\ InOrder(S, before)[Rank(S, before, x) + 1] = x
<1> DEFINE rank == [x \in S |-> Rank(S, before, x)]
           N == Cardinality(S)
<1>1. N \in Nat  BY FS_CardinalityType
<1>2. rank \in [S -> 0 .. (N - 1)]  BY RankFacts
<1>3. \A x, y \in S : rank[x] = rank[y] => x = y
  <2> SUFFICES ASSUME NEW x \in S, NEW y \in S, rank[x] = rank[y], x # y PROVE FALSE
    OBVIOUS
  <2>1. <<x, y>> \in before \/ <<y, x>> \in before  BY DEF TotalOrder
  <2>2. rank[x] < rank[y] \/ rank[y] < rank[x]  BY <2>1, RankFacts
  <2>3. rank[x] \in 0 .. (N - 1) /\ rank[y] \in 0 .. (N - 1)  BY <1>2
  <2>4. QED  BY <1>1, <2>2, <2>3
<1>4. rank \in Injection(S, 0 .. (N - 1))
  BY <1>2, <1>3 DEF Injection, IsInjective
<1>5. IsFiniteSet(0 .. (N - 1)) /\ Cardinality(0 .. (N - 1)) = N
  BY <1>1, FS_Interval
<1>6. rank \in Surjection(S, 0 .. (N - 1))
  BY <1>4, <1>5, FS_Injection
<1>7. ASSUME NEW n \in 1 .. N
      PROVE  InOrder(S, before)[n] \in S /\ Rank(S, before, InOrder(S, before)[n]) = n - 1
  <2>1. n - 1 \in 0 .. (N - 1)  BY <1>1
  <2>2. \E x \in S : Rank(S, before, x) = n - 1
    BY <1>6, <2>1 DEF Surjection
  <2>3. InOrder(S, before)[n] = CHOOSE x \in S : Rank(S, before, x) = n - 1
    BY DEF InOrder, Rank, Below
  <2>4. QED  BY <2>2, <2>3
<1>8. InOrder(S, before) \in [1 .. N -> S]
  BY <1>7 DEF InOrder
<1>9. DOMAIN InOrder(S, before) = 1 .. N /\ Len(InOrder(S, before)) = N
  BY <1>1, <1>8
<1>10. ASSUME NEW x \in S
       PROVE  /\ Rank(S, before, x) + 1 \in 1 .. N
              /\ InOrder(S, before)[Rank(S, before, x) + 1] = x
  <2>1. Rank(S, before, x) \in 0 .. (N - 1)  BY <1>2
  <2>2. PICK m \in 1 .. N : m = Rank(S, before, x) + 1  BY <1>1, <2>1
  <2>3. m - 1 = Rank(S, before, x)  BY <2>1, <2>2
  <2>4. InOrder(S, before)[m] \in S /\ Rank(S, before, InOrder(S, before)[m]) = m - 1
    BY <1>7
  <2>5. InOrder(S, before)[m] = x  BY <1>3, <2>3, <2>4
  <2>6. QED  BY <2>2, <2>5
<1>11. QED  BY <1>1, <1>7, <1>8, <1>9, <1>10

-----------------------------------------------------------------------------
(* Rows, one for each position they hold. *)

OneRowEach(R) ==
  /\ IsFiniteSet(R)
  /\ \A r \in R : r.seq \in Nat
  /\ \A q, r \in R : q.seq = r.seq => q = r

LEMMA SortedFacts ==
  ASSUME NEW R, OneRowEach(R)
  PROVE  /\ TotalOrder(R, BySeq(R))
         /\ Sorted(R) \in Seq(R)
         /\ Len(Sorted(R)) = Cardinality(R)
         /\ {Sorted(R)[i] : i \in DOMAIN Sorted(R)} = R
         /\ SeqsOf(Sorted(R)) = {r.seq : r \in R}
         /\ \A r \in R : LastRow(Sorted(R), r.seq) = r
<1>1. TotalOrder(R, BySeq(R))
  <2>1. \A x, y \in R : <<x, y>> \in BySeq(R) <=> x.seq < y.seq  BY DEF BySeq
  <2>2. QED  BY <2>1 DEF OneRowEach, TotalOrder
<1>2. /\ Cardinality(R) \in Nat
      /\ Sorted(R) \in [1 .. Cardinality(R) -> R]
      /\ Len(Sorted(R)) = Cardinality(R)
      /\ DOMAIN Sorted(R) = 1 .. Cardinality(R)
      /\ \A r \in R : \E i \in 1 .. Cardinality(R) : Sorted(R)[i] = r
  BY <1>1, InOrderFacts DEF Sorted, OneRowEach
<1>3. Sorted(R) \in Seq(R)  BY <1>2
<1>4. {Sorted(R)[i] : i \in DOMAIN Sorted(R)} = R  BY <1>2
<1>5. SeqsOf(Sorted(R)) = {r.seq : r \in R}
  <2>1. \A i \in DOMAIN Sorted(R) : Sorted(R)[i] \in R  BY <1>2
  <2>2. \A r \in R : \E i \in DOMAIN Sorted(R) : Sorted(R)[i] = r  BY <1>2
  <2>3. QED  BY <2>1, <2>2 DEF SeqsOf
<1>6. ASSUME NEW r \in R PROVE LastRow(Sorted(R), r.seq) = r
  <2> DEFINE v == Sorted(R)
             Is(i) == /\ v[i].seq = r.seq
                      /\ \A j \in DOMAIN v : v[j].seq = r.seq => j <= i
  <2>1. \A i \in DOMAIN v : v[i] \in R /\ i \in Nat  BY <1>2
  <2>2. \A i, j \in DOMAIN v : v[i] = v[j] => i = j
    <3>1. \A i \in 1 .. Cardinality(R) : Rank(R, BySeq(R), v[i]) = i - 1
      BY <1>1, InOrderFacts DEF Sorted, OneRowEach
    <3>2. QED  BY <1>2, <3>1
  <2>3. PICK k \in DOMAIN v : v[k] = r  BY <1>2
  <2>4. \A j \in DOMAIN v : v[j].seq = r.seq => j = k
    BY <2>1, <2>2, <2>3 DEF OneRowEach
  <2>5. Is(k)  BY <2>1, <2>3, <2>4
  <2>6. \A i \in DOMAIN v : Is(i) => i = k  BY <2>4
  <2>7. LastRow(v, r.seq) = v[CHOOSE i \in DOMAIN v : Is(i)]  BY DEF LastRow
  <2> HIDE DEF Is, v
  <2>8. (CHOOSE i \in DOMAIN v : Is(i)) = k  BY <2>3, <2>5, <2>6
  <2>9. QED  BY <2>3, <2>7, <2>8 DEF v
<1>7. QED  BY <1>1, <1>2, <1>3, <1>4, <1>5, <1>6

LEMMA LeastNatural ==
  ASSUME NEW T \in SUBSET Nat, NEW n \in T
  PROVE  \E m \in T : \A k \in T : m <= k
<1> DEFINE Under(k) == 0 .. (k - 1)
           Low == {k \in T : k <= n}
           F == {Under(k) : k \in Low}
           R == StrictSubsetOrdering(Under(n))
<1>1. IsWellFoundedOn(R, FiniteSubsetsOf(Under(n)))
  BY FS_Interval, FS_StrictSubsetOrderingWellFounded, n - 1 \in Int
<1>2. F \subseteq FiniteSubsetsOf(Under(n))
  <2> SUFFICES ASSUME NEW k \in Low PROVE Under(k) \in FiniteSubsetsOf(Under(n))
    OBVIOUS
  <2>1. IsFiniteSet(Under(k))  BY FS_Interval, k - 1 \in Int
  <2>2. Under(k) \subseteq Under(n)  OBVIOUS
  <2> QED  BY <2>1, <2>2 DEF FiniteSubsetsOf
<1>3. n \in Low /\ F # {}  OBVIOUS
<1> HIDE DEF F, R
<1>4. PICK X \in F : \A Y \in F : ~ (<<Y, X>> \in R)
  BY <1>1, <1>2, <1>3, WFMin
<1>5. PICK m \in Low : X = Under(m)  BY DEF F
<1>6. ASSUME NEW k \in T, k < m PROVE FALSE
  <2>1. k \in Low /\ Under(k) \in F  BY <1>6 DEF F
  <2>2. Under(k) \subseteq Under(m) /\ k \in Under(m) /\ k \notin Under(k)  BY <1>6
  <2>3. Under(k) \subseteq Under(n) /\ Under(m) \subseteq Under(n)  BY <2>1
  <2>4. <<Under(k), Under(m)>> \in R  BY <2>2, <2>3 DEF R, StrictSubsetOrdering
  <2> QED  BY <1>4, <1>5, <2>1, <2>4
<1> QED  BY <1>6, <1>5

-----------------------------------------------------------------------------
(* What a scan finds, and what the tables serve.                           *)

Ours(s, from, to) ==
  {i \in Scanned(from, to) : calls[i].payload \in Envelopes /\ calls[i].payload.stream = s}

FirstSeen(s, from, to) ==
  {i \in Ours(s, from, to) :
     \A j \in Ours(s, from, to) : calls[i].payload.seq = calls[j].payload.seq => i <= j}

Competing(s, from, to) ==
  {i \in Ours(s, from, to) :
     \E j \in FirstSeen(s, from, to) : /\ calls[i].payload.seq = calls[j].payload.seq
                                       /\ calls[i].payload # calls[j].payload}

ScannedRows(s, from, to) == {Row(calls[i].payload) : i \in FirstSeen(s, from, to)}

ScannedConflicts(s, from, to) == {calls[i].payload.seq : i \in Competing(s, from, to)}

LEMMA OursFacts ==
  ASSUME TypeOK, NEW s, NEW from, NEW to
  PROVE  /\ Ours(s, from, to) \subseteq DOMAIN calls
         /\ Ours(s, from, to) \subseteq Nat
         /\ IsFiniteSet(Ours(s, from, to))
         /\ \A i \in Ours(s, from, to) :
              /\ calls[i].payload \in Envelopes /\ calls[i].payload.seq \in Nat
              /\ calls[i].payload.stream = s
              /\ \E j \in FirstSeen(s, from, to) :
                   calls[j].payload.seq = calls[i].payload.seq /\ j <= i
<1>1. Len(calls) \in Nat /\ DOMAIN calls = 1 .. Len(calls)  BY CallsFacts
<1>2. Ours(s, from, to) \subseteq DOMAIN calls /\ Ours(s, from, to) \subseteq Nat
  BY <1>1 DEF Ours, Scanned
<1>3. IsFiniteSet(1 .. Len(calls))  BY <1>1, FS_Interval
<1>4. IsFiniteSet(Ours(s, from, to))  BY <1>1, <1>2, <1>3, FS_Subset
<1>5. ASSUME NEW i \in Ours(s, from, to)
      PROVE  /\ calls[i].payload \in Envelopes /\ calls[i].payload.seq \in Nat
             /\ calls[i].payload.stream = s
             /\ \E j \in FirstSeen(s, from, to) :
                  calls[j].payload.seq = calls[i].payload.seq /\ j <= i
  <2> DEFINE T == {j \in Ours(s, from, to) : calls[j].payload.seq = calls[i].payload.seq}
  <2>1. T \in SUBSET Nat /\ i \in T  BY <1>2
  <2>2. PICK m \in T : \A k \in T : m <= k
    <3> HIDE DEF T
    <3> QED  BY <2>1, LeastNatural
  <2>3. m \in FirstSeen(s, from, to)  BY <2>2 DEF FirstSeen
  <2>4. calls[i].payload \in Envelopes /\ calls[i].payload.stream = s  BY DEF Ours
  <2>5. QED  BY <2>1, <2>2, <2>3, <2>4, EnvelopeParts
<1>6. QED  BY <1>2, <1>4, <1>5

LEMMA ScannedRowsFacts ==
  ASSUME TypeOK, NEW s, NEW from, NEW to
  PROVE  /\ OneRowEach(ScannedRows(s, from, to))
         /\ {r.seq : r \in ScannedRows(s, from, to)} =
              {calls[i].payload.seq : i \in Ours(s, from, to)}
<1> DEFINE First == FirstSeen(s, from, to)
<1>1. First \subseteq Ours(s, from, to)  BY DEF FirstSeen
<1>2. IsFiniteSet(First)  BY <1>1, OursFacts, FS_Subset
<1>3. IsFiniteSet(ScannedRows(s, from, to))
  <2> DEFINE f == [i \in First |-> Row(calls[i].payload)]
  <2>1. f \in Surjection(First, ScannedRows(s, from, to))
    BY DEF Surjection, ScannedRows
  <2> HIDE DEF f, First
  <2> QED  BY <1>2, <2>1, FS_Surjection
<1>4. \A i \in First : Row(calls[i].payload).seq = calls[i].payload.seq
  BY DEF Row
<1>5. ASSUME NEW q \in ScannedRows(s, from, to), NEW r \in ScannedRows(s, from, to), q.seq = r.seq
      PROVE  q = r
  <2>1. PICK i \in First : q = Row(calls[i].payload)  BY DEF ScannedRows
  <2>2. PICK j \in First : r = Row(calls[j].payload)  BY DEF ScannedRows
  <2>3. calls[i].payload.seq = calls[j].payload.seq  BY <1>4, <1>5, <2>1, <2>2
  <2>4. i <= j /\ j <= i  BY <1>1, <2>3 DEF FirstSeen
  <2>5. i \in Nat /\ j \in Nat  BY <1>1, OursFacts
  <2>6. QED  BY <2>1, <2>2, <2>4, <2>5
<1>6. \A r \in ScannedRows(s, from, to) : r.seq \in Nat
  BY <1>1, <1>4, OursFacts DEF ScannedRows
<1>7. \A i \in Ours(s, from, to) : \E r \in ScannedRows(s, from, to) : r.seq = calls[i].payload.seq
  BY <1>4, OursFacts DEF ScannedRows
<1>8. \A r \in ScannedRows(s, from, to) : \E i \in Ours(s, from, to) : r.seq = calls[i].payload.seq
  BY <1>1, <1>4 DEF ScannedRows
<1>9. QED  BY <1>3, <1>5, <1>6, <1>7, <1>8 DEF OneRowEach

LEMMA ScanFacts ==
  ASSUME TypeOK, NEW s, NEW from, NEW to
  PROVE  LET a == Scan(s, from, to)
             c == Competing(s, from, to)
         IN /\ a.anchors = Sorted(ScannedRows(s, from, to))
            /\ IsFiniteSet(c)
            /\ Len(a.conflicts) = Cardinality(c)
            /\ Range(a.conflicts) = ScannedConflicts(s, from, to)
            /\ a.malformed = Cardinality({i \in Scanned(from, to) : calls[i].payload \in Undecodable})
<1> DEFINE c == Competing(s, from, to)
           before == ByCall(c)
           cs == [n \in 1 .. Cardinality(c) |-> calls[InOrder(c, before)[n]].payload.seq]
<1>1. Scan(s, from, to) =
        [anchors |-> Sorted(ScannedRows(s, from, to)), conflicts |-> cs,
         malformed |-> Cardinality({i \in Scanned(from, to) : calls[i].payload \in Undecodable})]
  BY DEF Scan, Ours, FirstSeen, Competing, ScannedRows
<1>2. c \subseteq Ours(s, from, to)  BY DEF Competing
<1>3. IsFiniteSet(c) /\ c \subseteq Nat  BY <1>2, OursFacts, FS_Subset
<1>4. TotalOrder(c, before)
  <2> HIDE DEF c
  <2>1. \A x, y \in c : <<x, y>> \in before <=> x < y  BY DEF ByCall
  <2>2. QED  BY <1>3, <2>1 DEF TotalOrder
<1> HIDE DEF before, c
<1>5. /\ Cardinality(c) \in Nat
      /\ \A n \in 1 .. Cardinality(c) : InOrder(c, before)[n] \in c
      /\ \A x \in c : \E n \in 1 .. Cardinality(c) : InOrder(c, before)[n] = x
  BY <1>3, <1>4, InOrderFacts
<1>6. DOMAIN cs = 1 .. Cardinality(c) /\ Len(cs) = Cardinality(c)  BY <1>5
<1>7. {cs[n] : n \in DOMAIN cs} = {calls[i].payload.seq : i \in c}
  <2>1. \A n \in DOMAIN cs : \E i \in c : cs[n] = calls[i].payload.seq  BY <1>5
  <2>2. \A i \in c : \E n \in DOMAIN cs : cs[n] = calls[i].payload.seq  BY <1>5
  <2>3. QED  BY <2>1, <2>2
<1> HIDE DEF cs
<1>8. /\ Scan(s, from, to).anchors = Sorted(ScannedRows(s, from, to))
      /\ Scan(s, from, to).conflicts = cs
      /\ Scan(s, from, to).malformed =
           Cardinality({i \in Scanned(from, to) : calls[i].payload \in Undecodable})
  BY <1>1
<1>9. Range(cs) = ScannedConflicts(s, from, to)
  BY <1>7 DEF Range, ScannedConflicts, c
<1>10. QED  BY <1>3, <1>6, <1>8, <1>9 DEF c

\* The rows and the conflicts of a stream, as the tables hold them.
LEMMA RowsOfFacts ==
  ASSUME IndexInv, NEW s
  PROVE  /\ OneRowEach(RowsOf(s))
         /\ IsFiniteSet(PositionsOf(s))
         /\ \A k \in PositionsOf(s) : k = <<s, k[2]>> /\ k[2] \in Nat
<1>1. TypeOK /\ FirstEnvelopeWins  BY DEF IndexInv
<1>2. ASSUME NEW k \in DOMAIN anchors PROVE k = <<k[1], k[2]>> /\ k[2] \in Nat
  <2>1. PICK i \in Handled(indexed) : Position(Served(i)) = k  BY <1>1 DEF FirstEnvelopeWins
  <2>2. Served(i).seq \in Nat  BY <2>1, AsServedKeepsPosition DEF Served, Handled
  <2>3. QED  BY <2>1, <2>2 DEF Position
<1>3. \A k \in PositionsOf(s) : k = <<s, k[2]>> /\ k[2] \in Nat  BY <1>2 DEF PositionsOf
<1>4. IsFiniteSet(PositionsOf(s))
  <2> DEFINE f == [i \in Handled(indexed) |-> Position(Served(i))]
  <2>1. f \in Surjection(Handled(indexed), DOMAIN anchors)
    BY <1>1 DEF Surjection, FirstEnvelopeWins
  <2> HIDE DEF f
  <2>2. IsFiniteSet(DOMAIN anchors)  BY <1>1, <2>1, HandledFacts, FS_Surjection
  <2>3. PositionsOf(s) \in SUBSET DOMAIN anchors  BY DEF PositionsOf
  <2>4. QED  BY <2>2, <2>3, FS_Subset
<1>5. IsFiniteSet(RowsOf(s))
  <2> DEFINE f == [k \in PositionsOf(s) |-> RowAt(k)]
  <2>1. f \in Surjection(PositionsOf(s), RowsOf(s))  BY DEF Surjection, RowsOf
  <2> HIDE DEF f
  <2>2. QED  BY <1>4, <2>1, FS_Surjection
<1>6. \A k \in PositionsOf(s) : RowAt(k).seq = k[2]  BY DEF RowAt
<1>7. \A q, r \in RowsOf(s) : q.seq = r.seq => q = r
  <2> SUFFICES ASSUME NEW j \in PositionsOf(s), NEW k \in PositionsOf(s),
                      RowAt(j).seq = RowAt(k).seq
               PROVE  RowAt(j) = RowAt(k)
    BY DEF RowsOf
  <2>1. j = k  BY <1>3, <1>6
  <2>2. QED  BY <2>1
<1>8. \A r \in RowsOf(s) : r.seq \in Nat  BY <1>3, <1>6 DEF RowsOf
<1>9. QED  BY <1>3, <1>4, <1>5, <1>7, <1>8 DEF OneRowEach

LEMMA ConflictIdsFacts ==
  ASSUME IndexInv, NEW s
  PROVE  LET ids == ConflictIds(s)
         IN /\ IsFiniteSet(ids)
            /\ \A k \in ids : k = <<s, k[2], k[3]>> /\ k[2] \in Nat /\ k[3] \in Nat
            /\ TotalOrder(ids, BySeqThenTx(ids))
            /\ Len(ServedConflicts(s)) = Cardinality(ids)
            /\ DOMAIN ServedConflicts(s) = 1 .. Cardinality(ids)
            /\ \A n \in 1 .. Cardinality(ids) :
                 ServedConflicts(s)[n] = InOrder(ids, BySeqThenTx(ids))[n][2]
            /\ {ServedConflicts(s)[n] : n \in DOMAIN ServedConflicts(s)} = {k[2] : k \in ids}
<1> DEFINE ids == ConflictIds(s)
           before == BySeqThenTx(ids)
<1>1. TypeOK /\ FirstEnvelopeWins /\ ConflictRowsExact  BY DEF IndexInv
<1>2. ASSUME NEW k \in DOMAIN conflicts
      PROVE  k = <<k[1], k[2], k[3]>> /\ k[2] \in Nat /\ k[3] \in Nat
  <2>1. PICK i \in Disputed : ConflictId(i) = k  BY <1>1 DEF ConflictRowsExact, ConflictsExact
  <2>2. i \in Handled(indexed) /\ i \in DOMAIN calls
    BY <1>1, <2>1, CallsFacts DEF Disputed, Handled, TypeOK
  <2>3. Served(i).seq \in Nat  BY <2>2, AsServedKeepsPosition DEF Served, Handled
  <2>4. calls[i].tx \in Nat  BY <1>1, <2>2, CallsFacts
  <2>5. QED  BY <2>1, <2>3, <2>4 DEF ConflictId
<1>3. \A k \in ids : k = <<s, k[2], k[3]>> /\ k[2] \in Nat /\ k[3] \in Nat
  BY <1>2 DEF ConflictIds
<1>4. IsFiniteSet(ids)
  <2> DEFINE f == [i \in Disputed |-> ConflictId(i)]
  <2>1. Disputed \in SUBSET Handled(indexed)  BY DEF Disputed
  <2>2. IsFiniteSet(Disputed)  BY <1>1, <2>1, HandledFacts, FS_Subset
  <2>3. f \in Surjection(Disputed, DOMAIN conflicts)
    BY <1>1 DEF Surjection, ConflictRowsExact, ConflictsExact
  <2> HIDE DEF f
  <2>4. IsFiniteSet(DOMAIN conflicts)  BY <2>2, <2>3, FS_Surjection
  <2>5. ids \in SUBSET DOMAIN conflicts  BY DEF ConflictIds
  <2> HIDE DEF ids
  <2>6. QED  BY <2>4, <2>5, FS_Subset
<1> HIDE DEF ids
<1>5. TotalOrder(ids, before)
  <2>1. \A x, y \in ids : <<x, y>> \in before <=>
          x[2] < y[2] \/ (x[2] = y[2] /\ x[3] < y[3])
    BY DEF BySeqThenTx
  <2>2. \A x, y \in ids : x[2] = y[2] /\ x[3] = y[3] => x = y  BY <1>3
  <2> HIDE DEF before
  <2>3. \A x \in ids : <<x, x>> \notin before  BY <1>3, <2>1
  <2>4. \A x, y \in ids : x = y \/ <<x, y>> \in before \/ <<y, x>> \in before
    <3> SUFFICES ASSUME NEW x \in ids, NEW y \in ids, x # y
                 PROVE  <<x, y>> \in before \/ <<y, x>> \in before
      OBVIOUS
    <3>1. x[2] # y[2] \/ x[3] # y[3]  BY <2>2
    <3>2. x[2] \in Nat /\ x[3] \in Nat /\ y[2] \in Nat /\ y[3] \in Nat  BY <1>3
    <3>3. \/ x[2] < y[2] \/ (x[2] = y[2] /\ x[3] < y[3])
          \/ y[2] < x[2] \/ (y[2] = x[2] /\ y[3] < x[3])
      BY <3>1, <3>2
    <3>4. QED  BY <2>1, <3>3
  <2>5. \A x, y, z \in ids : <<x, y>> \in before /\ <<y, z>> \in before => <<x, z>> \in before
    BY <1>3, <2>1
  <2>6. QED  BY <2>3, <2>4, <2>5 DEF TotalOrder
<1> HIDE DEF before
<1>6. /\ Cardinality(ids) \in Nat
      /\ DOMAIN InOrder(ids, before) = 1 .. Cardinality(ids)
      /\ \A n \in 1 .. Cardinality(ids) : InOrder(ids, before)[n] \in ids
      /\ \A x \in ids : \E n \in 1 .. Cardinality(ids) : InOrder(ids, before)[n] = x
  <2>1. /\ Cardinality(ids) \in Nat
        /\ InOrder(ids, before) \in [1 .. Cardinality(ids) -> ids]
        /\ DOMAIN InOrder(ids, before) = 1 .. Cardinality(ids)
    BY <1>4, <1>5, InOrderFacts
  <2>2. \A x \in ids : /\ Rank(ids, before, x) + 1 \in 1 .. Cardinality(ids)
                       /\ InOrder(ids, before)[Rank(ids, before, x) + 1] = x
    BY <1>4, <1>5, InOrderFacts
  <2>3. QED  BY <2>1, <2>2
<1>7. ServedConflicts(s) = [n \in 1 .. Cardinality(ids) |-> InOrder(ids, before)[n][2]]
  BY <1>6 DEF ServedConflicts, ids, before
<1>8. /\ Len(ServedConflicts(s)) = Cardinality(ids)
      /\ DOMAIN ServedConflicts(s) = 1 .. Cardinality(ids)
      /\ \A n \in 1 .. Cardinality(ids) : ServedConflicts(s)[n] = InOrder(ids, before)[n][2]
  BY <1>6, <1>7
<1>9. {ServedConflicts(s)[n] : n \in DOMAIN ServedConflicts(s)} = {k[2] : k \in ids}
  <2>1. \A n \in DOMAIN ServedConflicts(s) : \E k \in ids : ServedConflicts(s)[n] = k[2]
    BY <1>6, <1>8
  <2>2. \A k \in ids : \E n \in DOMAIN ServedConflicts(s) : ServedConflicts(s)[n] = k[2]
    BY <1>6, <1>8
  <2>3. QED  BY <2>1, <2>2
<1>10. QED  BY <1>3, <1>4, <1>5, <1>8, <1>9 DEF ids, before

-----------------------------------------------------------------------------
(* Blocks: unless another contract makes it, a call has a block of its own. *)

OwnBlocks ==
  \A i \in DOMAIN calls :
    /\ calls[i].tx > 0
    /\ calls[i].kind # "internal" => \A j \in 1 .. (i - 1) : calls[j].tx < calls[i].tx

LEMMA HeadIsLast ==
  ASSUME TypeOK, BlocksAscend
  PROVE  /\ HeadTx \in Nat
         /\ \A i \in DOMAIN calls : calls[i].tx <= HeadTx
         /\ Len(calls) > 0 => HeadTx = calls[Len(calls)].tx
<1>1. HeadTx \in Nat /\ Len(calls) \in Nat /\ DOMAIN calls = 1 .. Len(calls)  BY CallsFacts
<1>2. Len(calls) > 0 => HeadTx = calls[Len(calls)].tx
  BY CallsFacts DEF HeadTx
<1>3. \A i \in DOMAIN calls : calls[i].tx <= HeadTx
  BY <1>1, <1>2 DEF BlocksAscend
<1>4. QED  BY <1>1, <1>2, <1>3

LEMMA OwnBlocksJoined ==
  ASSUME TypeOK, OwnBlocks, NEW c, calls' = Append(calls, c),
         c.tx > 0,
         c.kind # "internal" => \A j \in DOMAIN calls : calls[j].tx < c.tx
  PROVE  OwnBlocks'
<1>1. Len(calls) \in Nat /\ DOMAIN calls = 1 .. Len(calls) /\ calls \in Seq(Call)  BY CallsFacts
<1>2. /\ DOMAIN calls' = DOMAIN calls \cup {Len(calls) + 1}
      /\ calls'[Len(calls) + 1] = c
      /\ \A i \in DOMAIN calls : calls'[i] = calls[i]
  BY <1>1
<1>3. ASSUME NEW i \in DOMAIN calls'
      PROVE  /\ calls'[i].tx > 0
             /\ calls'[i].kind # "internal" => \A j \in 1 .. (i - 1) : calls'[j].tx < calls'[i].tx
  <2>1. CASE i \in DOMAIN calls
    BY <1>1, <1>2, <2>1 DEF OwnBlocks
  <2>2. CASE i = Len(calls) + 1
    BY <1>1, <1>2, <2>2
  <2>3. QED  BY <1>2, <2>1, <2>2
<1>4. QED  BY <1>3 DEF OwnBlocks

LEMMA OwnBlocksMined ==
  ASSUME TypeOK, BlocksAscend, OwnBlocks, NEW p, NEW kind, NEW nonce, MineTx(p, kind, nonce)
  PROVE  OwnBlocks'
<1> DEFINE c == [tx |-> HeadTx + 1, kind |-> kind, nonce |-> nonce, payload |-> p]
<1>1. calls' = Append(calls, c) /\ c.tx = HeadTx + 1  BY DEF MineTx
<1> HIDE DEF c
<1>2. \A j \in DOMAIN calls : calls[j].tx < c.tx
  BY <1>1, HeadIsLast, CallsFacts
<1>3. c.tx > 0  BY <1>1, HeadIsLast
<1>4. QED  BY <1>1, <1>2, <1>3, OwnBlocksJoined

LEMMA OwnBlocksPosted ==
  ASSUME TypeOK, BlocksAscend, OwnBlocks, NEW p, AnyonePosts(p)
  PROVE  OwnBlocks'
<1>1. CASE \E kind \in CallKinds : MineTx(p, kind, 0)
  BY <1>1, OwnBlocksMined
<1>2. CASE /\ Len(calls) \in 1 .. (MaxCalls - 1)
           /\ calls[Len(calls)].kind = "internal"
           /\ calls' = Append(calls, [calls[Len(calls)] EXCEPT !.payload = p])
  <2> DEFINE c == [calls[Len(calls)] EXCEPT !.payload = p]
  <2>1. Len(calls) \in DOMAIN calls /\ calls[Len(calls)] \in Call
    BY <1>2, ChainAssumption, CallsFacts
  <2>2. c.tx = calls[Len(calls)].tx /\ c.kind = "internal"  BY <1>2, <2>1 DEF Call
  <2> HIDE DEF c
  <2>3. c.tx > 0  BY <2>1, <2>2 DEF OwnBlocks
  <2>4. calls' = Append(calls, c)  BY <1>2 DEF c
  <2>5. QED  BY <2>2, <2>3, <2>4, OwnBlocksJoined
<1>3. QED  BY <1>1, <1>2 DEF AnyonePosts

ChainInv == IndexInv /\ OwnBlocks

LEMMA ChainInvariant == Spec => []ChainInv
<1>1. Init => ChainInv
  <2> SUFFICES ASSUME Init PROVE ChainInv
    OBVIOUS
  <2>1. IndexInv
    BY TypeOKInitially
    DEF Init, IndexInit, EmptyTable, IndexInv, FirstEnvelopeWins, StreamSummaryExact,
        ConflictRowsExact, ConflictsExact, MalformedExact, Disputed, MalformedHandled, Handled, BlocksAscend
  <2>2. OwnBlocks  BY DEF Init, OwnBlocks
  <2>3. QED  BY <2>1, <2>2 DEF ChainInv
<1>2. ChainInv /\ [Next]_vars => ChainInv'
  <2> SUFFICES ASSUME ChainInv, [Next]_vars PROVE ChainInv'
    OBVIOUS
  <2>0. TypeOK /\ BlocksAscend /\ OwnBlocks /\ IndexInv  BY DEF ChainInv, IndexInv
  <2>1. IndexInv'  BY <2>0, NextIsStep, IndexInvInductive
  <2>2. CASE \E p \in Payloads : AnyonePosts(p)
    BY <2>0, <2>2, OwnBlocksPosted, <2>1 DEF ChainInv
  <2>3. CASE calls' = calls
    BY <2>0, <2>1, <2>3 DEF OwnBlocks, ChainInv
  <2>4. QED  BY <2>2, <2>3 DEF Next, Post, IndexNext, vars
<1>3. QED  BY <1>1, <1>2, PTL DEF Spec

-----------------------------------------------------------------------------
(* The cross-check. *)

\* The whole chain is top-level and indexed.
AllTop == indexed = Len(calls) /\ \A i \in DOMAIN calls : calls[i].kind = "top"

LEMMA TopIsScanned ==
  ASSUME ChainInv, AllTop, NEW s
  PROVE  /\ Scanned(0, HeadTx) = DOMAIN calls
         /\ Ours(s, 0, HeadTx) =
              {i \in DOMAIN calls : calls[i].payload \in Envelopes /\ calls[i].payload.stream = s}
         /\ Handled(indexed) =
              {i \in DOMAIN calls : calls[i].payload \in Envelopes /\ ~Withheld(calls[i].payload)}
<1>1. TypeOK /\ BlocksAscend  BY DEF ChainInv, IndexInv
<1>2. \A i \in DOMAIN calls : calls[i].tx \in 0 .. HeadTx /\ calls[i].kind = "top"
  BY <1>1, HeadIsLast, CallsFacts DEF AllTop
<1>3. Scanned(0, HeadTx) = DOMAIN calls  BY <1>2 DEF Scanned
<1>4. DOMAIN calls = 1 .. indexed  BY <1>1, CallsFacts DEF AllTop
<1>5. QED  BY <1>2, <1>3, <1>4 DEF Ours, Handled, Traced

\* What a build that tampers with nothing serves is the scan.
LEMMA HonestIndexIsScan ==
  ASSUME ChainInv, AllTop, NEW s, ~ServedDishonestly(s)
  PROVE  /\ RowsOf(s) = ScannedRows(s, 0, HeadTx)
         /\ Cardinality(ConflictIds(s)) = Cardinality(Competing(s, 0, HeadTx))
<1> DEFINE ours == Ours(s, 0, HeadTx)
           first == FirstSeen(s, 0, HeadTx)
           competing == Competing(s, 0, HeadTx)
<1>0. TypeOK /\ FirstEnvelopeWins /\ ConflictRowsExact /\ IndexInv /\ OwnBlocks
  BY DEF ChainInv, IndexInv
<1>1. ours = {i \in Handled(indexed) : Served(i).stream = s}
  <2>1. ASSUME NEW i \in ours PROVE i \in Handled(indexed) /\ Served(i).stream = s
    <3>1. /\ i \in DOMAIN calls /\ calls[i].payload \in Envelopes
          /\ calls[i].payload.stream = s
      BY TopIsScanned
    <3>2. ~Withheld(calls[i].payload) /\ AsServed(calls[i].payload) = calls[i].payload
      BY <3>1 DEF ServedDishonestly
    <3>3. QED  BY <3>1, <3>2, TopIsScanned DEF Served
  <2>2. ASSUME NEW i \in Handled(indexed), Served(i).stream = s PROVE i \in ours
    BY <2>2, TopIsScanned, AsServedKeepsPosition DEF Served
  <2>3. QED  BY <2>1, <2>2
<1>2. \A i \in ours : /\ Served(i) = calls[i].payload /\ calls[i].payload.stream = s
                      /\ i \in DOMAIN calls /\ calls[i].payload \in Envelopes
                      /\ Position(calls[i].payload) = <<s, calls[i].payload.seq>>
  BY TopIsScanned DEF ServedDishonestly, Served, Position
<1>3. ASSUME NEW k \in PositionsOf(s), NEW i \in ours,
             calls[i].payload.seq = k[2], \A j \in ours : calls[j].payload.seq = k[2] => i <= j
      PROVE  RowAt(k) = Row(calls[i].payload) /\ anchors[k].digest = Keccak(calls[i].payload)
  <2>0. k \in DOMAIN anchors /\ k = <<s, k[2]>>  BY <1>0, RowsOfFacts DEF PositionsOf
  <2>1. PICK j \in Handled(indexed) :
           /\ Position(Served(j)) = k
           /\ \A l \in Handled(indexed) : Position(Served(l)) = k => j <= l
           /\ anchors[k].digest = Keccak(Served(j))
           /\ anchors[k].cd = Served(j).cd /\ anchors[k].prev = Served(j).prev
    BY <1>0, <2>0, FirstAt
  <2>2. Served(j).stream = s /\ Served(j).seq = k[2]  BY <2>0, <2>1 DEF Position
  <2>3. j \in ours /\ calls[j].payload.seq = k[2]  BY <1>1, <1>2, <2>2
  <2>4. Position(Served(i)) = k /\ i \in Handled(indexed)  BY <1>1, <1>2, <1>3, <2>0
  <2>5. i <= j /\ j <= i  BY <1>3, <2>1, <2>3, <2>4
  <2>6. i = j  BY <1>0, <2>3, <2>5, OursFacts
  <2>7. QED  BY <1>2, <2>1, <2>2, <2>6 DEF RowAt, Row
<1>4. \A i \in ours : <<s, calls[i].payload.seq>> \in PositionsOf(s)
  BY <1>0, <1>1, <1>2 DEF FirstEnvelopeWins, PositionsOf
<1>5. \A k \in PositionsOf(s) : \E i \in first : calls[i].payload.seq = k[2]
  <2> SUFFICES ASSUME NEW k \in PositionsOf(s) PROVE \E i \in first : calls[i].payload.seq = k[2]
    OBVIOUS
  <2>1. k \in DOMAIN anchors /\ k = <<s, k[2]>>  BY <1>0, RowsOfFacts DEF PositionsOf
  <2>2. PICK j \in Handled(indexed) : Position(Served(j)) = k
    BY <1>0, <2>1 DEF FirstEnvelopeWins
  <2>3. Served(j).stream = s /\ Served(j).seq = k[2]  BY <2>1, <2>2 DEF Position
  <2>4. j \in ours /\ calls[j].payload.seq = k[2]  BY <1>1, <1>2, <2>3
  <2>5. QED  BY <1>0, <2>4, OursFacts
<1>6. RowsOf(s) = ScannedRows(s, 0, HeadTx)
  <2>1. ASSUME NEW k \in PositionsOf(s) PROVE RowAt(k) \in ScannedRows(s, 0, HeadTx)
    <3>1. PICK i \in first : calls[i].payload.seq = k[2]  BY <1>5
    <3>2. RowAt(k) = Row(calls[i].payload)  BY <1>3, <3>1 DEF FirstSeen
    <3>3. QED  BY <3>2 DEF ScannedRows
  <2>2. ASSUME NEW i \in first PROVE Row(calls[i].payload) \in RowsOf(s)
    <3>1. i \in ours  BY DEF FirstSeen
    <3>2. PICK k \in PositionsOf(s) : k[2] = calls[i].payload.seq
      BY <1>4, <3>1
    <3>3. RowAt(k) = Row(calls[i].payload)  BY <1>3, <3>1, <3>2 DEF FirstSeen
    <3>4. QED  BY <3>2, <3>3 DEF RowsOf
  <2>3. QED  BY <2>1, <2>2 DEF RowsOf, ScannedRows
<1>7. competing = {i \in Disputed : Served(i).stream = s}
  <2>1. ASSUME NEW i \in ours
        PROVE  i \in competing <=> i \in Disputed
    <3>1. PICK j \in first : calls[j].payload.seq = calls[i].payload.seq  BY <1>0, OursFacts
    <3>2. j \in ours /\ \A l \in first : calls[l].payload.seq = calls[i].payload.seq => l = j
      <4>1. j \in ours  BY DEF FirstSeen
      <4>2. ASSUME NEW l \in first, calls[l].payload.seq = calls[i].payload.seq PROVE l = j
        <5>1. l \in ours /\ l <= j /\ j <= l  BY <3>1, <4>1, <4>2 DEF FirstSeen
        <5>2. l \in Nat /\ j \in Nat  BY <1>0, <4>1, <5>1, OursFacts
        <5>3. QED  BY <5>1, <5>2
      <4>3. QED  BY <4>1, <4>2
    <3>3. i \in competing <=> calls[i].payload # calls[j].payload
      BY <3>1, <3>2 DEF Competing
    <3>4. anchors[<<s, calls[i].payload.seq>>].digest = Keccak(calls[j].payload)
      <4> DEFINE k == <<s, calls[i].payload.seq>>
      <4>1. k \in PositionsOf(s) /\ k[2] = calls[i].payload.seq  BY <1>4
      <4>2. QED  BY <1>3, <3>1, <3>2, <4>1 DEF FirstSeen
    <3>5. Position(Served(i)) = <<s, calls[i].payload.seq>> /\ Served(i) = calls[i].payload
      BY <1>2
    <3>6. i \in Disputed <=> Keccak(calls[i].payload) # Keccak(calls[j].payload)
      BY <1>1, <3>4, <3>5 DEF Disputed
    <3>7. QED  BY <3>3, <3>6, KeccakInjective
  <2>2. competing \subseteq ours  BY DEF Competing
  <2>3. Disputed \subseteq Handled(indexed)  BY DEF Disputed
  <2>4. \A i \in ours : Served(i).stream = s  BY <1>2
  <2>5. QED  BY <1>1, <2>1, <2>2, <2>3, <2>4
<1>8. Cardinality(ConflictIds(s)) = Cardinality(competing)
  <2> DEFINE f == [i \in competing |-> ConflictId(i)]
  <2>1. \A i \in competing : i \in ours /\ i \in Disputed /\ Served(i).stream = s
    BY <1>7 DEF Competing
  <2>2. \A i \in competing : ConflictId(i) \in ConflictIds(s)
    BY <1>0, <2>1 DEF ConflictRowsExact, ConflictsExact, ConflictIds, ConflictId
  <2>3. \A k \in ConflictIds(s) : \E i \in competing : ConflictId(i) = k
    BY <1>0, <1>7 DEF ConflictRowsExact, ConflictsExact, ConflictIds, ConflictId
  <2>4. \A i, j \in competing : ConflictId(i) = ConflictId(j) => i = j
    <3> SUFFICES ASSUME NEW i \in competing, NEW j \in competing, ConflictId(i) = ConflictId(j)
                 PROVE  i = j
      OBVIOUS
    <3>1. calls[i].tx = calls[j].tx  BY DEF ConflictId
    <3>2. i \in DOMAIN calls /\ j \in DOMAIN calls  BY <1>2, <2>1
    <3>3. calls[i].kind = "top" /\ calls[j].kind = "top"  BY <3>2 DEF AllTop
    <3>4. i \in Nat /\ j \in Nat /\ DOMAIN calls = 1 .. Len(calls) /\ Len(calls) \in Nat
      BY <1>0, <3>2, CallsFacts
    <3>5. calls[i].tx \in Nat  BY <1>0, <3>2, CallsFacts
    <3>6. i < j => calls[i].tx < calls[j].tx  BY <1>0, <3>2, <3>3, <3>4 DEF OwnBlocks
    <3>7. j < i => calls[j].tx < calls[i].tx  BY <1>0, <3>2, <3>3, <3>4 DEF OwnBlocks
    <3>8. QED  BY <3>1, <3>4, <3>5, <3>6, <3>7
  <2> HIDE DEF competing
  <2>5. f \in Bijection(competing, ConflictIds(s))
    BY <2>2, <2>3, <2>4 DEF Bijection, Injection, IsInjective, Surjection
  <2> HIDE DEF f
  <2>6. IsFiniteSet(competing)  BY <1>0, ScanFacts DEF competing
  <2>7. QED  BY <2>5, <2>6, FS_Bijection DEF ExistsBijection
<1>9. QED  BY <1>6, <1>8

LEMMA MalformedIsScanned ==
  ASSUME ChainInv, AllTop
  PROVE  Cardinality(malformed) =
           Cardinality({i \in Scanned(0, HeadTx) : calls[i].payload \in Undecodable})
<1> DEFINE T == {i \in Scanned(0, HeadTx) : calls[i].payload \in Undecodable}
           f == [i \in T |-> <<calls[i].tx, calls[i].payload>>]
<1>0. TypeOK /\ ConflictRowsExact /\ OwnBlocks  BY DEF ChainInv, IndexInv
<1>1. Scanned(0, HeadTx) = DOMAIN calls  BY TopIsScanned
<1>2. DOMAIN calls = 1 .. indexed /\ indexed \in Nat  BY <1>0, CallsFacts DEF AllTop
<1>3. T = MalformedHandled
  BY <1>1, <1>2 DEF MalformedHandled, Traced, AllTop
<1>4. \A i, j \in T : calls[i].tx = calls[j].tx => i = j
  <2> SUFFICES ASSUME NEW i \in T, NEW j \in T, calls[i].tx = calls[j].tx PROVE i = j
    OBVIOUS
  <2>1. i \in DOMAIN calls /\ j \in DOMAIN calls  BY <1>1
  <2>2. calls[i].kind = "top" /\ calls[j].kind = "top" /\ i \in Nat /\ j \in Nat
    BY <1>2, <2>1 DEF AllTop
  <2>3. calls[i].tx \in Nat  BY <1>0, <2>1, CallsFacts
  <2>4. i < j => calls[i].tx < calls[j].tx  BY <1>0, <1>2, <2>1, <2>2 DEF OwnBlocks
  <2>5. j < i => calls[j].tx < calls[i].tx  BY <1>0, <1>2, <2>1, <2>2 DEF OwnBlocks
  <2>6. QED  BY <2>2, <2>3, <2>4, <2>5
<1>5. malformed = {<<calls[i].tx, calls[i].payload>> : i \in T}
  BY <1>0, <1>3 DEF ConflictRowsExact, MalformedExact
<1>6. IsFiniteSet(T)
  <2>1. T \in SUBSET (1 .. indexed)  BY <1>1, <1>2
  <2>2. QED  BY <1>2, <2>1, FS_Interval, FS_Subset
<1> HIDE DEF T
<1>7. f \in Bijection(T, malformed)
  BY <1>4, <1>5 DEF Bijection, Injection, IsInjective, Surjection
<1> HIDE DEF f
<1>8. Cardinality(malformed) = Cardinality(T)  BY <1>6, <1>7, FS_Bijection DEF ExistsBijection
<1>9. QED  BY <1>8 DEF T

LEMMA TamperedIndexDiffers ==
  ASSUME ChainInv, AllTop, NEW s, ServedDishonestly(s)
  PROVE  CompareIndexes(IndexAnswer(s), Scan(s, 0, HeadTx)) # {}
<1> DEFINE ours == Ours(s, 0, HeadTx)
           left == SeqsOf(IndexAnswer(s).anchors)
           right == SeqsOf(Scan(s, 0, HeadTx).anchors)
<1>0. TypeOK /\ FirstEnvelopeWins /\ IndexInv  BY DEF ChainInv, IndexInv
<1>1. /\ IndexAnswer(s).anchors = Sorted(RowsOf(s))
      /\ Scan(s, 0, HeadTx).anchors = Sorted(ScannedRows(s, 0, HeadTx))
  BY <1>0, ScanFacts DEF IndexAnswer, ServedRows
<1>2. left = {r.seq : r \in RowsOf(s)} /\ right = {calls[i].payload.seq : i \in ours}
  <2>1. OneRowEach(RowsOf(s)) /\ OneRowEach(ScannedRows(s, 0, HeadTx))
    BY <1>0, RowsOfFacts, ScannedRowsFacts
  <2>2. /\ SeqsOf(Sorted(RowsOf(s))) = {r.seq : r \in RowsOf(s)}
        /\ SeqsOf(Sorted(ScannedRows(s, 0, HeadTx))) = {r.seq : r \in ScannedRows(s, 0, HeadTx)}
    BY <2>1, SortedFacts
  <2>3. {r.seq : r \in ScannedRows(s, 0, HeadTx)} = {calls[i].payload.seq : i \in ours}
    BY <1>0, ScannedRowsFacts
  <2>4. QED  BY <1>1, <2>2, <2>3
<1>3. PICK i \in DOMAIN calls :
        /\ calls[i].payload \in Envelopes
        /\ calls[i].payload.stream = s
        /\ Withheld(calls[i].payload) \/ AsServed(calls[i].payload) # calls[i].payload
  BY DEF ServedDishonestly
<1>4. i \in ours  BY <1>3, TopIsScanned
<1>5. CASE Withheld(calls[i].payload)
  <2>1. Mode = "DROP_EVERY_FOURTH" /\ calls[i].payload.seq % 4 = 3  BY <1>5 DEF Withheld
  <2>2. calls[i].payload.seq \in right  BY <1>2, <1>4
  <2>3. calls[i].payload.seq \notin left
    <3> SUFFICES ASSUME NEW k \in PositionsOf(s), k[2] = calls[i].payload.seq PROVE FALSE
      BY <1>2 DEF RowsOf, RowAt
    <3>1. PICK j \in Handled(indexed) : Position(Served(j)) = k
      BY <1>0 DEF FirstEnvelopeWins, PositionsOf
    <3>2. Served(j).seq = k[2] /\ Served(j).seq = calls[j].payload.seq
      BY <3>1, AsServedKeepsPosition DEF Position, Served, Handled
    <3>3. ~Withheld(calls[j].payload)  BY DEF Handled
    <3>4. QED  BY <2>1, <3>2, <3>3 DEF Withheld
  <2>4. <<"only one side", calls[i].payload.seq>>
          \in {<<"only one side", t>> : t \in (left \cup right) \ (left \cap right)}
    BY <2>2, <2>3
  <2>5. QED  BY <2>4 DEF CompareIndexes
<1>6. CASE ~Withheld(calls[i].payload) /\ AsServed(calls[i].payload) # calls[i].payload
  <2>1. Mode = "BREAK_CHAIN_AT_SEQ_FIVE" /\ calls[i].payload.seq = 5
    BY <1>6 DEF AsServed
  <2> DEFINE k == <<s, 5>>
  <2>2. k \in PositionsOf(s)
    <3>1. i \in Handled(indexed)  BY <1>3, <1>6, TopIsScanned
    <3>2. Position(Served(i)) = k  BY <1>3, <2>1, AsServedKeepsPosition DEF Served, Position
    <3>3. QED  BY <1>0, <3>1, <3>2 DEF FirstEnvelopeWins, PositionsOf
  <2>3. PICK j \in Handled(indexed) :
           /\ Position(Served(j)) = k
           /\ \A l \in Handled(indexed) : Position(Served(l)) = k => j <= l
           /\ anchors[k].digest = Keccak(Served(j))
           /\ anchors[k].cd = Served(j).cd /\ anchors[k].prev = Served(j).prev
    BY <1>0, <2>2, FirstAt DEF PositionsOf
  <2>4. j \in ours /\ calls[j].payload.seq = 5
    BY <2>3, TopIsScanned, AsServedKeepsPosition DEF Served, Position
  <2>5. PICK f \in FirstSeen(s, 0, HeadTx) : calls[f].payload.seq = 5 /\ f <= j
    BY <1>0, <2>4, OursFacts
  <2>6. f \in ours  BY DEF FirstSeen
  <2>7. f \in Handled(indexed) /\ Position(Served(f)) = k
    <3>1. ~Withheld(calls[f].payload)  BY <2>1 DEF Withheld
    <3>2. calls[f].payload \in Envelopes /\ f \in DOMAIN calls /\ calls[f].payload.stream = s
      BY <1>0, <2>6, OursFacts
    <3>3. f \in Handled(indexed)  BY <3>1, <3>2, TopIsScanned
    <3>4. QED  BY <2>5, <3>2, <3>3, AsServedKeepsPosition DEF Served, Position
  <2>8. f = j
    <3>1. j <= f /\ f \in Nat /\ j \in Nat  BY <1>0, <2>3, <2>4, <2>6, <2>7, OursFacts
    <3>2. QED  BY <2>5, <3>1
  <2>9. RowAt(k).prev = FlippedPrev(calls[j].payload.prev)
    BY <2>1, <2>3, <2>4 DEF RowAt, Served, AsServed, Envelope
  <2>10. Row(calls[j].payload).prev = calls[j].payload.prev
    BY <2>4 DEF Row
  <2>11. calls[j].payload \in Envelopes  BY <1>0, <2>4, OursFacts
  <2>12. RowAt(k) # Row(calls[j].payload)  BY <2>9, <2>10, <2>11, FlipAssumption
  <2>13. RowAt(k) \in RowsOf(s) /\ RowAt(k).seq = 5  BY <2>2 DEF RowsOf, RowAt
  <2>14. Row(calls[j].payload) \in ScannedRows(s, 0, HeadTx) /\ Row(calls[j].payload).seq = 5
    BY <2>4, <2>5, <2>8 DEF ScannedRows, Row
  <2>15. LastRow(IndexAnswer(s).anchors, 5) = RowAt(k)
    BY <1>0, <1>1, <2>13, SortedFacts, RowsOfFacts
  <2>16. LastRow(Scan(s, 0, HeadTx).anchors, 5) = Row(calls[j].payload)
    BY <1>0, <1>1, <2>14, SortedFacts, ScannedRowsFacts
  <2>17. 5 \in left /\ 5 \in right  BY <1>2, <2>4, <2>13
  <2>18. <<"differs", 5>>
           \in {<<"differs", t>> : t \in {u \in left \cap right :
                  LastRow(IndexAnswer(s).anchors, u) # LastRow(Scan(s, 0, HeadTx).anchors, u)}}
    BY <2>12, <2>15, <2>16, <2>17
  <2>19. QED  BY <2>18 DEF CompareIndexes
<1>7. QED  BY <1>3, <1>5, <1>6

\* While every call is a top-level transaction that succeeded, the cross-check
\* is exact: index and scan differ on a stream if and only if the build
\* withheld or changed an anchor of it (compareIndexes over fetchServedIndex
\* and scanChain), for every set of payloads and each build.
THEOREM CrossCheckAlwaysExact == Spec => []CrossCheckExact
<1>1. ASSUME ChainInv, AllTop, NEW s, ~ServedDishonestly(s)
      PROVE  CompareIndexes(IndexAnswer(s), Scan(s, 0, HeadTx)) = {}
  <2>0. TypeOK /\ IndexInv  BY <1>1 DEF ChainInv, IndexInv
  <2>1. IndexAnswer(s).anchors = Scan(s, 0, HeadTx).anchors
    <3>1. RowsOf(s) = ScannedRows(s, 0, HeadTx)  BY <1>1, HonestIndexIsScan
    <3>2. Scan(s, 0, HeadTx).anchors = Sorted(ScannedRows(s, 0, HeadTx))  BY <2>0, ScanFacts
    <3>3. IndexAnswer(s).anchors = Sorted(RowsOf(s))  BY DEF IndexAnswer, ServedRows
    <3>4. QED  BY <3>1, <3>2, <3>3
  <2>2. Len(IndexAnswer(s).conflicts) = Len(Scan(s, 0, HeadTx).conflicts)
    <3>1. Len(IndexAnswer(s).conflicts) = Cardinality(ConflictIds(s))
      BY <2>0, ConflictIdsFacts DEF IndexAnswer
    <3>2. Len(Scan(s, 0, HeadTx).conflicts) = Cardinality(Competing(s, 0, HeadTx))
      BY <2>0, ScanFacts
    <3>3. QED  BY <1>1, <3>1, <3>2, HonestIndexIsScan
  <2>3. IndexAnswer(s).malformed = Scan(s, 0, HeadTx).malformed
    <3>1. IndexAnswer(s).malformed = Cardinality(malformed)  BY DEF IndexAnswer
    <3>2. Scan(s, 0, HeadTx).malformed =
            Cardinality({i \in Scanned(0, HeadTx) : calls[i].payload \in Undecodable})
      BY <2>0, ScanFacts
    <3>3. QED  BY <1>1, <3>1, <3>2, MalformedIsScanned
  <2>4. QED  BY <2>1, <2>2, <2>3 DEF CompareIndexes
<1>2. ChainInv => CrossCheckExact
  BY <1>1, TamperedIndexDiffers DEF CrossCheckExact, AllTop
<1>3. QED  BY <1>2, ChainInvariant, PTL

-----------------------------------------------------------------------------
(* Types of a `verify', and the blocks its answer comes from. *)

\* The record of a `verify', field by field.
AuditFields ==
  {"step", "bundle", "source", "crossCheck", "answer", "skip", "since", "until", "scanned", "exit"}

AuditIs(a, step, bundle, source, crossCheck, answer, skip, since, until, scanned, exit) ==
  /\ DOMAIN a = AuditFields
  /\ a.step = step /\ a.bundle = bundle /\ a.source = source /\ a.crossCheck = crossCheck
  /\ a.answer = answer /\ a.skip = skip /\ a.since = since /\ a.until = until
  /\ a.scanned = scanned /\ a.exit = exit

VerifyTyped ==
  /\ DOMAIN audit = AuditFields
  /\ audit.step \in {"loading", "loaded", "done"}
  /\ audit.bundle # NoFile /\ FileOK(audit.bundle)
  /\ audit.source \in Sources
  /\ audit.crossCheck \in BOOLEAN
  /\ audit.skip \in Nat
  /\ audit.exit \in {"none", "OK", "FINDINGS", "GAP", "USAGE"}
  /\ audit.step = "done" <=> audit.exit # "none"
  /\ audit.since \in Nat /\ audit.until \in Nat /\ audit.scanned \in Nat
  /\ audit.since <= audit.until
  /\ audit.until <= HeadTx /\ audit.scanned <= HeadTx
  /\ audit.source # "chain" => audit.until <= ReachedBlock

VerifyInv == audit # NoAudit => VerifyTyped

ReachedOK ==
  /\ HeadTx \in Nat /\ ReachedBlock \in Nat /\ ReachedBlock <= HeadTx
  /\ indexed \in Nat /\ indexed <= Len(calls)
  /\ indexed > 0 => indexed \in DOMAIN calls
  /\ \A i \in DOMAIN calls : calls[i].tx <= HeadTx

LEMMA ReachedFacts == IndexInv => ReachedOK
<1> SUFFICES ASSUME IndexInv PROVE ReachedOK
  OBVIOUS
<1>1. TypeOK /\ BlocksAscend  BY DEF IndexInv
<1>2. Len(calls) \in Nat /\ DOMAIN calls = 1 .. Len(calls) /\ indexed \in 0 .. Len(calls)
  BY <1>1, CallsFacts DEF TypeOK
<1>3. HeadTx \in Nat /\ \A i \in DOMAIN calls : calls[i].tx \in Nat /\ calls[i].tx <= HeadTx
  BY <1>1, HeadIsLast, CallsFacts
<1>4. QED  BY <1>2, <1>3 DEF ReachedBlock, ReachedOK

LEMMA WriterStepAdvances ==
  ASSUME WriterInv, WriterInv', [WriterNext]_allVars
  PROVE  /\ HeadTx <= HeadTx' /\ ReachedBlock <= ReachedBlock'
         /\ CallsStay
         /\ indexed <= indexed'
<1>1. Step /\ IndexInv /\ IndexInv'  BY WriterStepIsIndexStep DEF WriterInv
<1>2. CallsStay  BY <1>1, StepKeepsCalls DEF IndexInv
<1>3. indexed <= indexed'
  <2>1. indexed \in Nat  BY <1>1, ReachedFacts DEF ReachedOK
  <2>2. indexed' \in {indexed, indexed + 1}  BY <1>1 DEF Step, ChainGrows, indexVars, IndexNext, vars
  <2>3. QED  BY <2>1, <2>2
<1>4. /\ HeadTx \in Nat /\ HeadTx' \in Nat /\ ReachedBlock \in Nat /\ ReachedBlock' \in Nat
      /\ indexed \in Nat /\ indexed' \in Nat /\ indexed <= Len(calls) /\ indexed' <= Len(calls')
      /\ indexed > 0 => indexed \in DOMAIN calls
      /\ indexed' > 0 => indexed' \in DOMAIN calls'
      /\ \A i \in DOMAIN calls' : calls'[i].tx <= HeadTx'
  <2>1. ReachedOK  BY <1>1, ReachedFacts
  <2>2. IndexInv' => ReachedOK'  BY ReachedFacts, PTL
  <2>3. QED  BY <1>1, <2>1, <2>2 DEF ReachedOK
<1>5. HeadTx <= HeadTx'
  <2>1. CASE Len(calls) = 0
    <3>1. HeadTx = 0  BY <1>1, <2>1 DEF HeadTx, IndexInv, TypeOK, ChainTypeOK
    <3>2. QED  BY <1>4, <3>1
  <2>2. CASE Len(calls) > 0
    <3>1. HeadTx = calls[Len(calls)].tx  BY <1>1, <2>2, HeadIsLast DEF IndexInv
    <3>2. Len(calls) \in DOMAIN calls' /\ calls'[Len(calls)] = calls[Len(calls)]
      BY <1>2, <2>2 DEF CallsStay
    <3>3. calls'[Len(calls)].tx <= HeadTx'  BY <1>4, <3>2
    <3>4. QED  BY <3>1, <3>2, <3>3
  <2>3. QED  BY <1>2, <2>1, <2>2 DEF CallsStay
<1>6. ReachedBlock <= ReachedBlock'
  <2>1. CASE indexed = 0
    BY <1>4, <2>1 DEF ReachedBlock
  <2>2. CASE indexed > 0
    <3>1. /\ indexed \in DOMAIN calls /\ indexed' \in DOMAIN calls' /\ indexed \in DOMAIN calls'
          /\ calls'[indexed] = calls[indexed] /\ indexed # 0 /\ indexed' # 0
      BY <1>2, <1>3, <1>4, <2>2 DEF CallsStay
    <3>2. calls'[indexed].tx <= calls'[indexed'].tx
      BY <1>1, <1>2, <1>3, <3>1 DEF IndexInv, BlocksAscend, CallsStay
    <3>3. QED  BY <3>1, <3>2 DEF ReachedBlock
  <2>3. QED  BY <1>4, <2>1, <2>2
<1>7. QED  BY <1>2, <1>3, <1>5, <1>6

-----------------------------------------------------------------------------
(* The steps of `verify', each with the whole record it leaves behind. *)

Starts ==
  /\ audit = NoAudit
  /\ disclosure # NoFile
  /\ \E source \in Sources, crossCheck \in BOOLEAN :
       AuditIs(audit', "loading", disclosure, source, crossCheck, NoAnswer, 0, 0, 0, 0, "none")

Now == IndexAnswer(audit.bundle.stream)

RowsPage == Page(Now.anchors)
ConflictsPage == Page(Now.conflicts)
MalformedPage == Page([i \in 1 .. Now.malformed |-> i])

MorePages == PageFull(RowsPage) \/ PageFull(ConflictsPage) \/ PageFull(MalformedPage)

PagedAnswer ==
  [anchors |-> IF MorePages THEN audit.answer.anchors \o RowsPage
               ELSE SortedPages(audit.answer.anchors \o RowsPage),
   conflicts |-> audit.answer.conflicts \o ConflictsPage,
   malformed |-> audit.answer.malformed + Len(MalformedPage)]

FirstRequest == IF audit.skip = 0 THEN ReachedBlock ELSE audit.since

Pages ==
  /\ audit.step = "loading" /\ audit.source = "unpinned"
  /\ AuditIs(audit', IF MorePages THEN "loading" ELSE "loaded", audit.bundle, audit.source,
                      audit.crossCheck, PagedAnswer, audit.skip + PageSize, FirstRequest,
                      ReachedBlock, ReachedBlock, audit.exit)

Pins ==
  /\ audit.step = "loading" /\ audit.source = "pinned"
  /\ AuditIs(audit', "loaded", audit.bundle, audit.source, audit.crossCheck, Now, audit.skip,
                      ReachedBlock, ReachedBlock, ReachedBlock, audit.exit)

ReadsChain ==
  /\ audit.step = "loading" /\ audit.source = "chain"
  /\ AuditIs(audit', "loaded", audit.bundle, audit.source, audit.crossCheck,
                      Scan(audit.bundle.stream, FromBlock, HeadTx), audit.skip,
                      HeadTx, HeadTx, HeadTx, audit.exit)

Ends(scanned, exit) ==
  AuditIs(audit', "done", audit.bundle, audit.source, audit.crossCheck, audit.answer, audit.skip,
                   audit.since, audit.until, scanned, exit)

Fails == audit.step = "loading" /\ Ends(audit.scanned, "USAGE")

Concludes == audit.step = "loaded" /\ Ends(audit.scanned, Verdict)

CrossChecks ==
  /\ audit.step = "loaded"
  /\ \E to \in {audit.until, HeadTx} :
       LET differences == CompareIndexes(audit.answer, Scan(audit.bundle.stream, FromBlock, to))
       IN Ends(to, IF differences # {} /\ Verdict = "OK" THEN "GAP" ELSE Verdict)

\* What the updates of the steps leave.
LEMMA AuditUpdates ==
  ASSUME NEW a, DOMAIN a = AuditFields,
         NEW answer, NEW skip, NEW step, NEW since, NEW until, NEW scanned, NEW exit
  PROVE  /\ AuditIs([a EXCEPT !.answer = answer, !.skip = skip, !.step = step, !.since = since,
                      !.until = until, !.scanned = scanned],
                step, a.bundle, a.source, a.crossCheck, answer, skip, since, until, scanned, a.exit)
         /\ AuditIs([a EXCEPT !.answer = answer, !.step = step, !.since = since, !.until = until,
                      !.scanned = scanned],
               step, a.bundle, a.source, a.crossCheck, answer, a.skip, since, until, scanned, a.exit)
         /\ AuditIs([a EXCEPT !.step = step, !.scanned = scanned, !.exit = exit],
              step, a.bundle, a.source, a.crossCheck, a.answer, a.skip, a.since, a.until, scanned, exit)
         /\ AuditIs([a EXCEPT !.step = step, !.exit = exit],
              step, a.bundle, a.source, a.crossCheck, a.answer, a.skip, a.since, a.until, a.scanned, exit)
BY DEF AuditIs, AuditFields

LEMMA VerifySteps ==
  ASSUME VerifyInv, Verify
  PROVE  /\ UNCHANGED allVars
         /\ \/ Starts
            \/ audit # NoAudit /\ VerifyTyped
                 /\ (Pages \/ Pins \/ ReadsChain \/ Fails \/ Concludes \/ CrossChecks)
<1>1. UNCHANGED allVars
  BY DEF Verify, StartVerify, FetchPage, FetchPinned, FetchChain, FetchFails, Conclude, CrossCheck
<1>2. CASE StartVerify
  <2>1. PICK source \in Sources, crossCheck \in BOOLEAN :
          audit' = [step |-> "loading", bundle |-> disclosure, source |-> source,
                    crossCheck |-> crossCheck /\ source # "chain", answer |-> NoAnswer,
                    skip |-> 0, since |-> 0, until |-> 0, scanned |-> 0, exit |-> "none"]
    BY <1>2 DEF StartVerify
  <2>2. AuditIs(audit', "loading", disclosure, source, crossCheck /\ source # "chain", NoAnswer,
                         0, 0, 0, 0, "none")
    BY <2>1 DEF AuditIs, AuditFields
  <2>3. (crossCheck /\ source # "chain") \in BOOLEAN  OBVIOUS
  <2>4. audit = NoAudit /\ disclosure # NoFile  BY <1>2 DEF StartVerify
  <2>5. Starts  BY <2>2, <2>3, <2>4 DEF Starts
  <2>6. QED  BY <1>1, <2>5
<1>3. CASE FetchPage \/ FetchPinned \/ FetchChain \/ FetchFails \/ Conclude \/ CrossCheck
  <2>1. audit # NoAudit
    BY <1>3 DEF FetchPage, FetchPinned, FetchChain, FetchFails, Conclude, CrossCheck, NoAudit
  <2>2. VerifyTyped  BY <2>1 DEF VerifyInv
  <2>3. DOMAIN audit = AuditFields  BY <2>2 DEF VerifyTyped
  <2>7. CASE FetchPage
    <3>1. /\ audit.step = "loading" /\ audit.source = "unpinned"
          /\ audit' = [audit EXCEPT !.answer = PagedAnswer, !.skip = audit.skip + PageSize,
                                    !.step = IF MorePages THEN "loading" ELSE "loaded",
                                    !.since = FirstRequest, !.until = ReachedBlock,
                                    !.scanned = ReachedBlock]
      <4>1. /\ audit.step = "loading" /\ audit.source = "unpinned"
            /\ LET now == IndexAnswer(audit.bundle.stream)
                   rows == Page(now.anchors)
                   competing == Page(now.conflicts)
                   rejected == Page([i \in 1 .. now.malformed |-> i])
                   more == PageFull(rows) \/ PageFull(competing) \/ PageFull(rejected)
                   soFar == audit.answer.anchors \o rows
               IN audit' = [audit EXCEPT
                    !.answer = [anchors |-> IF more THEN soFar ELSE SortedPages(soFar),
                                conflicts |-> audit.answer.conflicts \o competing,
                                malformed |-> audit.answer.malformed + Len(rejected)],
                    !.skip = audit.skip + PageSize,
                    !.step = IF more THEN "loading" ELSE "loaded",
                    !.since = IF audit.skip = 0 THEN ReachedBlock ELSE audit.since,
                    !.until = ReachedBlock, !.scanned = ReachedBlock]
        BY <2>2, <2>7, Zenon DEF FetchPage, VerifyTyped
      <4>2. QED
        BY <4>1 DEF PagedAnswer, MorePages, FirstRequest, RowsPage, ConflictsPage, MalformedPage, Now
    <3>2. PICK answer, step, since :
            /\ answer = PagedAnswer /\ since = FirstRequest
            /\ step = IF MorePages THEN "loading" ELSE "loaded"
      OBVIOUS
    <3>3. AuditIs(audit', step, audit.bundle, audit.source, audit.crossCheck, answer,
                           audit.skip + PageSize, since, ReachedBlock, ReachedBlock, audit.exit)
      BY <2>3, <3>1, <3>2, AuditUpdates
    <3>4. Pages  BY <3>1, <3>2, <3>3 DEF Pages
    <3>5. QED  BY <1>1, <2>1, <2>2, <3>4
  <2>8. CASE FetchPinned
    <3>1. /\ audit.step = "loading" /\ audit.source = "pinned"
          /\ audit' = [audit EXCEPT !.answer = Now, !.step = "loaded", !.since = ReachedBlock,
                                    !.until = ReachedBlock, !.scanned = ReachedBlock]
      BY <2>8 DEF FetchPinned, Now
    <3>2. Pins  BY <2>3, <3>1, AuditUpdates DEF Pins
    <3>3. QED  BY <1>1, <2>1, <2>2, <3>2
  <2>9. CASE FetchChain
    <3>1. PICK answer : answer = Scan(audit.bundle.stream, FromBlock, HeadTx)  OBVIOUS
    <3>2. /\ audit.step = "loading" /\ audit.source = "chain"
          /\ audit' = [audit EXCEPT !.answer = answer, !.step = "loaded", !.since = HeadTx,
                                    !.until = HeadTx, !.scanned = HeadTx]
      BY <2>9, <3>1 DEF FetchChain
    <3>3. AuditIs(audit', "loaded", audit.bundle, audit.source, audit.crossCheck, answer,
                           audit.skip, HeadTx, HeadTx, HeadTx, audit.exit)
      BY <2>3, <3>2, AuditUpdates
    <3>4. ReadsChain  BY <3>1, <3>2, <3>3 DEF ReadsChain
    <3>5. QED  BY <1>1, <2>1, <2>2, <3>4
  <2>10. CASE FetchFails
    <3>1. Fails  BY <2>3, <2>10, AuditUpdates DEF Fails, FetchFails, Ends
    <3>2. QED  BY <1>1, <2>1, <2>2, <3>1
  <2>11. CASE Conclude
    <3>1. Concludes  BY <2>3, <2>11, AuditUpdates DEF Concludes, Conclude, Ends
    <3>2. QED  BY <1>1, <2>1, <2>2, <3>1
  <2>12. CASE CrossCheck
    <3>1. /\ audit.step = "loaded"
          /\ \E to \in {audit.until, HeadTx} :
               LET differences == CompareIndexes(audit.answer, Scan(audit.bundle.stream, FromBlock, to))
               IN audit' = [audit EXCEPT !.step = "done", !.scanned = to,
                                         !.exit = IF differences # {} /\ Verdict = "OK" THEN "GAP"
                                                  ELSE Verdict]
      BY <2>12 DEF CrossCheck
    <3>2. PICK to \in {audit.until, HeadTx} :
            audit' = [audit EXCEPT !.step = "done", !.scanned = to,
                  !.exit = IF CompareIndexes(audit.answer, Scan(audit.bundle.stream, FromBlock, to)) # {}
                                /\ Verdict = "OK" THEN "GAP" ELSE Verdict]
      BY <3>1
    <3>3. PICK exit :
            exit = IF CompareIndexes(audit.answer, Scan(audit.bundle.stream, FromBlock, to)) # {}
                           /\ Verdict = "OK" THEN "GAP" ELSE Verdict
      OBVIOUS
    <3>4. audit' = [audit EXCEPT !.step = "done", !.scanned = to, !.exit = exit]
      BY <3>2, <3>3, Zenon
    <3>5. Ends(to, exit)  BY <2>3, <3>4, AuditUpdates DEF Ends
    <3>6. CrossChecks  BY <3>1, <3>3, <3>5 DEF CrossChecks
    <3>7. QED  BY <1>1, <2>1, <2>2, <3>6
  <2>13. QED  BY <1>3, <2>7, <2>8, <2>9, <2>10, <2>11, <2>12
<1>4. QED  BY <1>2, <1>3 DEF Verify

LEMMA VerdictIsACode == Verdict \in {"OK", "FINDINGS"}
BY DEF Verdict

AuditBase == WriterInv /\ VerifyInv

LEMMA VerifyKeepsTypes ==
  ASSUME AuditBase, Verify
  PROVE  VerifyTyped'
<1>0. /\ IndexInv /\ TypedInv /\ VerifyInv
      /\ HeadTx \in Nat /\ ReachedBlock \in Nat /\ ReachedBlock <= HeadTx
  BY ReachedFacts DEF AuditBase, WriterInv, ReachedOK
<1>1. UNCHANGED allVars  BY <1>0, VerifySteps
<1>2. HeadTx' = HeadTx /\ ReachedBlock' = ReachedBlock  BY <1>1 DEF allVars, HeadTx, ReachedBlock
<1>3. CASE Starts
  <2>1. FileOK(disclosure) /\ disclosure # NoFile  BY <1>0, <1>3 DEF TypedInv, Starts
  <2>2. PICK source \in Sources, crossCheck \in BOOLEAN :
          AuditIs(audit', "loading", disclosure, source, crossCheck, NoAnswer, 0, 0, 0, 0, "none")
    BY <1>3 DEF Starts
  <2>3. QED  BY <1>0, <1>2, <2>1, <2>2 DEF VerifyTyped, AuditIs
<1>4. CASE VerifyTyped /\ Pages
  <2>1. /\ PageSize \in Nat
        /\ AuditIs(audit', IF MorePages THEN "loading" ELSE "loaded", audit.bundle, audit.source,
                      audit.crossCheck, PagedAnswer, audit.skip + PageSize, FirstRequest,
                      ReachedBlock, ReachedBlock, audit.exit)
        /\ audit.step = "loading"
    BY <1>4, AuditAssumption DEF Pages
  <2>2. FirstRequest \in Nat /\ FirstRequest <= ReachedBlock
    BY <1>0, <1>4 DEF FirstRequest, VerifyTyped, Pages
  <2>3. PICK since, answer, step : since = FirstRequest /\ answer = PagedAnswer
                            /\ step = (IF MorePages THEN "loading" ELSE "loaded")
    OBVIOUS
  <2>4. step \in {"loading", "loaded"}  BY <2>3
  <2>5. AuditIs(audit', step, audit.bundle, audit.source,
                      audit.crossCheck, answer, audit.skip + PageSize, since,
                      ReachedBlock, ReachedBlock, audit.exit)
    BY <2>1, <2>3
  <2>6. QED  BY <1>0, <1>2, <1>4, <2>1, <2>2, <2>3, <2>4, <2>5 DEF VerifyTyped, AuditIs
<1>5. CASE VerifyTyped /\ (Pins \/ ReadsChain)
  <2>1. PICK answer, block :
          /\ AuditIs(audit', "loaded", audit.bundle, audit.source, audit.crossCheck, answer,
                              audit.skip, block, block, block, audit.exit)
          /\ block \in Nat /\ block <= HeadTx
          /\ audit.source # "chain" => block <= ReachedBlock
          /\ audit.step = "loading"
    BY <1>0, <1>5 DEF Pins, ReadsChain
  <2>2. QED  BY <1>0, <1>2, <1>5, <2>1 DEF VerifyTyped, AuditIs
<1>6. CASE VerifyTyped /\ (Fails \/ Concludes \/ CrossChecks)
  <2>1. PICK scanned, exit :
          /\ Ends(scanned, exit)
          /\ scanned \in Nat /\ scanned <= HeadTx
          /\ exit \in {"OK", "FINDINGS", "GAP", "USAGE"}
    BY <1>0, <1>6, VerdictIsACode DEF Fails, Concludes, CrossChecks, VerifyTyped
  <2>2. QED  BY <1>0, <1>2, <1>6, <2>1 DEF VerifyTyped, AuditIs, Ends
<1>7. QED  BY <1>0, <1>3, <1>4, <1>5, <1>6, VerifySteps

LEMMA AuditBaseInductive ==
  ASSUME AuditBase, [AuditNext]_auditVars
  PROVE  AuditBase'
<1>1. CASE Verify
  <2>1. UNCHANGED allVars  BY <1>1, VerifySteps DEF AuditBase
  <2>2. [WriterNext]_allVars  BY <2>1
  <2>3. WriterInv'  BY <2>2, WriterInvInductive DEF AuditBase
  <2>4. QED  BY <1>1, <2>3, VerifyKeepsTypes DEF AuditBase, VerifyInv
<1>2. CASE [WriterNext]_allVars /\ UNCHANGED audit
  <2>1. WriterInv'  BY <1>2, WriterInvInductive DEF AuditBase
  <2>2. /\ HeadTx <= HeadTx' /\ ReachedBlock <= ReachedBlock'
        /\ HeadTx \in Nat /\ HeadTx' \in Nat /\ ReachedBlock \in Nat /\ ReachedBlock' \in Nat
    <3>1. IndexInv /\ IndexInv'  BY <2>1 DEF AuditBase, WriterInv
    <3>2. ReachedOK  BY <3>1, ReachedFacts
    <3>3. IndexInv' => ReachedOK'  BY ReachedFacts, PTL
    <3>4. QED  BY <1>2, <2>1, <3>1, <3>2, <3>3, WriterStepAdvances DEF AuditBase, ReachedOK
  <2>3. ASSUME VerifyTyped PROVE VerifyTyped'
    BY <1>2, <2>2, <2>3 DEF VerifyTyped, FileOK
  <2>4. QED  BY <1>2, <2>1, <2>3 DEF AuditBase, VerifyInv
<1>3. QED  BY <1>1, <1>2 DEF AuditNext, auditVars

LEMMA AuditBaseInvariant == AuditSpec => []AuditBase
<1>1. AuditInit => AuditBase
  BY WriterInvInitially DEF AuditInit, AuditBase, VerifyInv
<1>2. QED  BY <1>1, AuditBaseInductive, PTL DEF AuditSpec

\* Types of a `verify', while everyone else goes on: it holds a bundle that was
\* disclosed, exits with a code when it is done and not before, and its first
\* request is not later than its last, nor either after the chain's head.
THEOREM AuditTypeCorrect == AuditSpec => []AuditTypeOK
<1>1. AuditBase => AuditTypeOK
  BY DEF AuditBase, VerifyInv, VerifyTyped, AuditTypeOK
<1>2. QED  BY <1>1, AuditBaseInvariant, PTL

-----------------------------------------------------------------------------
(* Pages. *)

\* The rows of the pages, sorted: all of them, none twice.
LEMMA SortedPagesFacts ==
  ASSUME NEW R, \A r \in R : r.seq \in Nat, NEW list \in Seq(R)
  PROVE  /\ SortedPages(list) \in Seq(R)
         /\ Len(SortedPages(list)) = Len(list)
         /\ Range(SortedPages(list)) = Range(list)
<1> DEFINE D == DOMAIN list
           before == {p \in D \X D : \/ list[p[1]].seq < list[p[2]].seq
                                     \/ list[p[1]].seq = list[p[2]].seq /\ p[1] < p[2]}
           order == InOrder(D, before)
<1>1. Len(list) \in Nat /\ D = 1 .. Len(list) /\ \A n \in D : list[n] \in R  OBVIOUS
<1>2. IsFiniteSet(D) /\ Cardinality(D) = Len(list)  BY <1>1, FS_Interval
<1>3. SortedPages(list) = [n \in DOMAIN order |-> list[order[n]]]  BY DEF SortedPages
<1>4. \A i, j \in D : <<i, j>> \in before <=> \/ list[i].seq < list[j].seq
                                              \/ list[i].seq = list[j].seq /\ i < j
  OBVIOUS
<1> HIDE DEF before, D
<1>5. \A i \in D : i \in Nat /\ list[i].seq \in Nat  BY <1>1
<1>6. TotalOrder(D, before)
  <2>1. \A x \in D : <<x, x>> \notin before  BY <1>4, <1>5
  <2>2. \A x, y \in D : x = y \/ <<x, y>> \in before \/ <<y, x>> \in before
    <3> SUFFICES ASSUME NEW x \in D, NEW y \in D, x # y
                 PROVE  <<x, y>> \in before \/ <<y, x>> \in before
      OBVIOUS
    <3>1. \/ list[x].seq < list[y].seq \/ (list[x].seq = list[y].seq /\ x < y)
          \/ list[y].seq < list[x].seq \/ (list[y].seq = list[x].seq /\ y < x)
      BY <1>5
    <3>2. QED  BY <1>4, <3>1
  <2>3. \A x, y, z \in D : <<x, y>> \in before /\ <<y, z>> \in before => <<x, z>> \in before
    <3> SUFFICES ASSUME NEW x \in D, NEW y \in D, NEW z \in D, <<x, y>> \in before, <<y, z>> \in before
                 PROVE  <<x, z>> \in before
      OBVIOUS
    <3>1. list[x].seq < list[y].seq \/ (list[x].seq = list[y].seq /\ x < y)  BY <1>4
    <3>2. list[y].seq < list[z].seq \/ (list[y].seq = list[z].seq /\ y < z)  BY <1>4
    <3>3. list[x].seq < list[z].seq \/ (list[x].seq = list[z].seq /\ x < z)
      BY <1>5, <3>1, <3>2
    <3>4. QED  BY <1>4, <3>3
  <2>4. QED  BY <2>1, <2>2, <2>3 DEF TotalOrder
<1>7. /\ DOMAIN order = 1 .. Len(list)
      /\ \A n \in 1 .. Len(list) : order[n] \in D
      /\ \A x \in D : \E n \in 1 .. Len(list) : order[n] = x
  <2>1. /\ order \in [1 .. Len(list) -> D]
        /\ DOMAIN order = 1 .. Len(list)
        /\ \A x \in D : /\ Rank(D, before, x) + 1 \in 1 .. Len(list)
                        /\ order[Rank(D, before, x) + 1] = x
    BY <1>2, <1>6, InOrderFacts
  <2> HIDE DEF order
  <2>2. QED  BY <2>1
<1> HIDE DEF order
<1>8. /\ DOMAIN SortedPages(list) = 1 .. Len(list)
      /\ \A n \in 1 .. Len(list) : SortedPages(list)[n] = list[order[n]]
  BY <1>3, <1>7
<1>9. SortedPages(list) \in Seq(R) /\ Len(SortedPages(list)) = Len(list)
  <2>1. SortedPages(list) \in [1 .. Len(list) -> R]  BY <1>1, <1>3, <1>7
  <2>2. QED  BY <1>1, <2>1
<1>10. Range(SortedPages(list)) = Range(list)
  <2>1. \A n \in DOMAIN SortedPages(list) : \E m \in D : SortedPages(list)[n] = list[m]
    BY <1>7, <1>8
  <2>2. \A m \in D : \E n \in DOMAIN SortedPages(list) : SortedPages(list)[n] = list[m]
    BY <1>7, <1>8
  <2>3. QED  BY <2>1, <2>2 DEF D, Range
<1>11. QED  BY <1>9, <1>10

\* A page holds the elements after those skipped, and all of them unless it is full.
LEMMA PageFacts ==
  ASSUME NEW R, NEW list \in Seq(R), audit.skip \in Nat
  PROVE  /\ Page(list) \in Seq(R)
         /\ \A m \in 1 .. Len(Page(list)) :
              audit.skip + m \in DOMAIN list /\ Page(list)[m] = list[audit.skip + m]
         /\ \A n \in DOMAIN list : n > audit.skip =>
              \/ \E m \in 1 .. Len(Page(list)) : Page(list)[m] = list[n]
              \/ n > audit.skip + PageSize /\ PageFull(Page(list))
         /\ Len(Page(list)) = IF Len(list) <= audit.skip THEN 0
                              ELSE IF Len(list) <= audit.skip + PageSize THEN Len(list) - audit.skip
                              ELSE PageSize
<1> DEFINE skip == audit.skip
           last == Min({skip + PageSize, Len(list)})
<1>0. skip \in Nat /\ PageSize \in Nat /\ PageSize > 0 /\ Len(list) \in Nat
  BY AuditAssumption
<1>1. /\ skip \in Nat /\ PageSize \in Nat /\ PageSize > 0 /\ Len(list) \in Nat
      /\ DOMAIN list = 1 .. Len(list)
  BY <1>0
<1>2. last = IF Len(list) <= skip + PageSize THEN Len(list) ELSE skip + PageSize
  <2> DEFINE S == {skip + PageSize, Len(list)}
             m == IF Len(list) <= skip + PageSize THEN Len(list) ELSE skip + PageSize
  <2>1. m \in S /\ \A y \in S : m <= y  BY <1>1
  <2>2. ASSUME NEW x \in S, \A y \in S : x <= y PROVE x = m
    <3>1. x \in {skip + PageSize, Len(list)} /\ x <= skip + PageSize /\ x <= Len(list)  BY <2>2
    <3>2. QED  BY <1>0, <3>1
  <2> HIDE DEF m, S
  <2>3. Min(S) = m  BY <2>1, <2>2 DEF Min
  <2>4. QED  BY <2>3 DEF m, S
<1>3. Page(list) = SubSeq(list, skip + 1, last)  BY DEF Page
<1> HIDE DEF last, skip
<1>4. \A n \in skip + 1 .. last : n \in DOMAIN list  BY <1>1, <1>2
<1>5. /\ SubSeq(list, skip + 1, last) \in Seq(R)
      /\ Len(SubSeq(list, skip + 1, last)) =
           (IF skip + 1 <= last THEN last - (skip + 1) + 1 ELSE 0)
      /\ \A i \in 1 .. (last - (skip + 1) + 1) : SubSeq(list, skip + 1, last)[i] = list[skip + 1 + i - 1]
  <2>1. skip + 1 \in Int /\ last \in Int  BY <1>1, <1>2
  <2>2. QED  BY <1>4, <2>1, SubSeqProperties
<1> DEFINE page == Page(list)
<1>6. page \in Seq(R)  BY <1>3, <1>5
<1>7. Len(page) = IF Len(list) <= skip THEN 0
                  ELSE IF Len(list) <= skip + PageSize THEN Len(list) - skip ELSE PageSize
  BY <1>1, <1>2, <1>3, <1>5
<1>8. \A m \in 1 .. Len(page) : skip + m \in DOMAIN list /\ page[m] = list[skip + m]
  <2> SUFFICES ASSUME NEW m \in 1 .. Len(page) PROVE skip + m \in DOMAIN list /\ page[m] = list[skip + m]
    OBVIOUS
  <2>1. m \in 1 .. (last - (skip + 1) + 1) /\ skip + m \in DOMAIN list
    <3>1. PICK l : l = Len(page)  OBVIOUS
    <3>2. /\ l = IF Len(list) <= skip THEN 0
                 ELSE IF Len(list) <= skip + PageSize THEN Len(list) - skip ELSE PageSize
          /\ m \in 1 .. l
      BY <1>7, <3>1
    <3>3. m \in 1 .. (last - (skip + 1) + 1)  BY <1>0, <1>2, <3>2
    <3>4. skip + m \in 1 .. Len(list)  BY <1>0, <3>2
    <3>5. QED  BY <1>1, <3>3, <3>4
  <2>2. page[m] = list[skip + 1 + m - 1]  BY <1>3, <1>5, <2>1
  <2>3. skip + 1 + m - 1 = skip + m  BY <1>1, <2>1
  <2>4. QED  BY <2>1, <2>2, <2>3
<1>9. ASSUME NEW n \in DOMAIN list, n > skip, n <= skip + PageSize \/ Len(page) # PageSize
      PROVE  \E m \in 1 .. Len(page) : page[m] = list[n]
  <2>1. PICK m \in Nat : n = skip + m /\ m > 0
    <3>1. n - skip \in Nat /\ n - skip > 0 /\ n = skip + (n - skip)  BY <1>1, <1>9
    <3>2. QED  BY <3>1
  <2>2. m <= Len(page)
    <3>1. PICK l : l = Len(page)  OBVIOUS
    <3>2. /\ l = IF Len(list) <= skip THEN 0
                 ELSE IF Len(list) <= skip + PageSize THEN Len(list) - skip ELSE PageSize
          /\ n <= skip + PageSize \/ l # PageSize
      BY <1>7, <1>9, <3>1
    <3>3. n <= Len(list)  BY <1>1
    <3>5. m <= l  BY <1>0, <2>1, <3>2, <3>3
    <3>6. QED  BY <3>1, <3>5
  <2>3. QED  BY <1>1, <1>8, <2>1, <2>2
<1>10. \A n \in DOMAIN list : n > skip =>
         \/ \E m \in 1 .. Len(page) : page[m] = list[n]
         \/ n > skip + PageSize /\ PageFull(page)
  BY <1>1, <1>9 DEF PageFull
<1>11. QED  BY <1>6, <1>7, <1>8, <1>10 DEF skip

\* An element of a listing is on the page, or its rank is past it.
LEMMA ListedPage ==
  ASSUME NEW S, IsFiniteSet(S), NEW before, TotalOrder(S, before), NEW list,
         DOMAIN list = 1 .. Cardinality(S), Len(list) = Cardinality(S),
         NEW R, list \in Seq(R),
         NEW x \in S, audit.skip \in Nat, Rank(S, before, x) >= audit.skip
  PROVE  LET n == Rank(S, before, x) + 1
         IN \/ \E m \in 1 .. Len(Page(list)) : Page(list)[m] = list[n]
            \/ PageFull(Page(list)) /\ Rank(S, before, x) >= audit.skip + PageSize
<1>1. PICK n : n = Rank(S, before, x) + 1  OBVIOUS
<1>2. n \in 1 .. Cardinality(S) /\ Rank(S, before, x) \in 0 .. (Cardinality(S) - 1)
  BY <1>1, InOrderFacts, RankFacts
<1>3. n \in DOMAIN list /\ n > audit.skip  BY <1>1, <1>2
<1>4. \/ \E m \in 1 .. Len(Page(list)) : Page(list)[m] = list[n]
      \/ n > audit.skip + PageSize /\ PageFull(Page(list))
  BY <1>3, PageFacts
<1>5. n > audit.skip + PageSize => Rank(S, before, x) >= audit.skip + PageSize
  BY <1>1, <1>2, AuditAssumption
<1>6. QED  BY <1>1, <1>4, <1>5

-----------------------------------------------------------------------------
(* What the auditor recomputes from a disclosure: the anchors of its records, *)
(* as the writer would make them.                                             *)

Contents(recs) == [k \in 0 .. (Len(recs) - 1) |-> recs[k + 1]]

LEMMA RecordsFacts ==
  ASSUME NEW recs \in RecordFiles
  PROVE  Len(recs) \in Nat /\ DOMAIN Contents(recs) = 0 .. (Len(recs) - 1)
BY WriterAssumption DEF Contents

\* By least counterexample: the equations of computeAnchors have one solution.
LEMMA ComputedAnchors ==
  ASSUME NEW s \in StreamIds, NEW recs \in RecordFiles
  PROVE  LET d == ComputeAnchors(s, Contents(recs))
             a == Anchors(s, recs)
         IN /\ DOMAIN d = 0 .. (Len(recs) - 1)
            /\ \A k \in 0 .. (Len(recs) - 1) :
                 /\ d[k].cd = a[k + 1].cd /\ d[k].prev = a[k + 1].prev
                 /\ d[k].digest = Keccak(a[k + 1])
                 /\ d[k].cd = CiphertextDigest(s, k, recs[k + 1])
<1> DEFINE contents == Contents(recs)
           D == 0 .. Max(DOMAIN contents \cup {0})
           a == Anchors(s, recs)
           Link(g, k) == IF k = 0 THEN ZERO32
                         ELSE IF k - 1 \in DOMAIN contents THEN g[k - 1].digest ELSE Null
           Cd(k) == CiphertextDigest(s, k, contents[k])
           Made(prev, k) == [cd |-> Cd(k), prev |-> prev,
                             digest |-> IF prev = Null THEN Null ELSE Keccak(Envelope(s, k, Cd(k), prev))]
           Is(g) == g = [k \in D |-> Made(Link(g, k), k)]
           Prev(k) == IF k = 0 THEN ZERO32 ELSE Keccak(a[k])
           f == [k \in D |-> Made(Prev(k), k)]
           N == Len(recs)
           anchor == CHOOSE g : Is(g)
<1>1. N \in Nat /\ DOMAIN contents = 0 .. (N - 1)  BY RecordsFacts
<1>2. D = IF N = 0 THEN 0 .. 0 ELSE 0 .. (N - 1)
  <2> DEFINE S == DOMAIN contents \cup {0}
             m == IF N = 0 THEN 0 ELSE N - 1
  <2>1. m \in S /\ \A y \in S : m >= y  BY <1>1
  <2>2. ASSUME NEW x \in S, \A y \in S : x >= y PROVE x = m
    BY <1>1, <2>1, <2>2
  <2> HIDE DEF S, m
  <2>3. Max(S) = m  BY <2>1, <2>2 DEF Max
  <2>4. QED  BY <1>1, <2>3 DEF S, m
<1>3. ComputeAnchors(s, contents) = [k \in DOMAIN contents |-> anchor[k]]
  BY DEF ComputeAnchors
<1> HIDE DEF contents, D, a, N
<1>4. \A k \in D : k \in Nat /\ (k > 0 => k - 1 \in DOMAIN contents /\ k - 1 \in D /\ k \in 1 .. N)
  BY <1>1, <1>2
<1>5. \A k \in 1 .. N : a[k] = Envelope(s, k - 1, CiphertextDigest(s, k - 1, recs[k]), Prev(k - 1))
  <2> SUFFICES ASSUME NEW k \in 1 .. N
               PROVE  a[k] = Envelope(s, k - 1, CiphertextDigest(s, k - 1, recs[k]), Prev(k - 1))
    OBVIOUS
  <2>1. a[k] = WriterEnvelope(s, k - 1, recs[k], IF k = 1 THEN ZERO32 ELSE Keccak(a[k - 1]))
    BY AnchorsExist DEF a, N
  <2>2. Prev(k - 1) = IF k = 1 THEN ZERO32 ELSE Keccak(a[k - 1])  BY <1>1
  <2>3. QED  BY <2>1, <2>2 DEF WriterEnvelope
<1>6. \A k \in 0 .. (N - 1) : contents[k] = recs[k + 1]  BY <1>1 DEF contents, Contents, N
<1>7. \A k : Prev(k) # Null  BY DEF ZERO32, Null, Keccak
<1>8. \A k \in 0 .. (N - 1) : /\ Made(Prev(k), k).digest = Keccak(a[k + 1])
                              /\ Made(Prev(k), k).cd = a[k + 1].cd
                              /\ Made(Prev(k), k).prev = a[k + 1].prev
                              /\ Made(Prev(k), k).cd = CiphertextDigest(s, k, recs[k + 1])
  <2> SUFFICES ASSUME NEW k \in 0 .. (N - 1)
               PROVE  /\ Made(Prev(k), k).digest = Keccak(a[k + 1])
                      /\ Made(Prev(k), k).cd = a[k + 1].cd
                      /\ Made(Prev(k), k).prev = a[k + 1].prev
                      /\ Made(Prev(k), k).cd = CiphertextDigest(s, k, recs[k + 1])
    OBVIOUS
  <2>1. PICK m \in 1 .. N : m = k + 1 /\ k = m - 1  BY <1>1
  <2>2. a[m] = Envelope(s, k, Cd(k), Prev(k))  BY <1>5, <1>6, <2>1
  <2>3. a[m].cd = Cd(k) /\ a[m].prev = Prev(k)  BY <2>2 DEF Envelope
  <2>4. Cd(k) = CiphertextDigest(s, k, recs[k + 1])  BY <1>6
  <2> HIDE DEF Prev, Cd
  <2>5. /\ Made(Prev(k), k).digest = Keccak(Envelope(s, k, Cd(k), Prev(k)))
        /\ Made(Prev(k), k).cd = Cd(k) /\ Made(Prev(k), k).prev = Prev(k)
    BY <1>7
  <2>6. QED  BY <2>1, <2>2, <2>3, <2>4, <2>5
<1>9. \A k \in D : Link(f, k) = Prev(k)
  <2> SUFFICES ASSUME NEW k \in D, k # 0 PROVE Link(f, k) = Prev(k)
    OBVIOUS
  <2>1. PICK j : j = k - 1  OBVIOUS
  <2>2. j \in DOMAIN contents /\ j \in D /\ j + 1 = k /\ j \in 0 .. (N - 1)  BY <1>1, <1>4, <2>1
  <2>3. f[j] = Made(Prev(j), j)  BY <2>2
  <2>4. f[j].digest = Keccak(a[k])  BY <1>8, <2>2, <2>3
  <2>5. QED  BY <2>1, <2>2, <2>4
<1>10. Is(f)
  BY <1>9
<1>11. Is(anchor)
  <2> HIDE DEF Is, f
  <2> QED  BY <1>10
<1> HIDE DEF anchor
<1>12. \A k \in D : anchor[k] = Made(Prev(k), k)
  <2> DEFINE T == {k \in D : anchor[k] # Made(Prev(k), k)}
  <2>1. T \in SUBSET Nat  BY <1>4
  <2> SUFFICES ASSUME T # {} PROVE FALSE
    OBVIOUS
  <2>2. PICK k \in T : \A l \in T : k <= l
    <3> HIDE DEF T
    <3> QED  BY <2>1, LeastNatural
  <2>3. k \in D /\ anchor[k] = Made(Link(anchor, k), k)  BY <1>11
  <2>4. CASE k = 0
    BY <2>2, <2>3, <2>4
  <2>5. CASE k # 0
    <3>1. PICK j : j = k - 1  OBVIOUS
    <3>2. j \in DOMAIN contents /\ j \in D /\ j + 1 = k /\ j \in 0 .. (N - 1) /\ j < k
      BY <1>1, <1>4, <2>3, <2>5, <3>1
    <3>3. anchor[j] = Made(Prev(j), j)
      <4>1. k \in Nat /\ j \in Nat /\ ~(k <= j)  BY <1>4, <2>3, <3>2
      <4>2. j \notin T
        <5> HIDE DEF T
        <5> QED  BY <2>2, <4>1
      <4>3. QED  BY <3>2, <4>2
    <3>4. anchor[j].digest = Keccak(a[k])  BY <1>8, <3>2, <3>3
    <3>5. Link(anchor, k) = Prev(k)  BY <2>5, <3>1, <3>2, <3>4
    <3>6. QED  BY <2>2, <2>3, <3>5
  <2>6. QED  BY <2>4, <2>5
<1>13. \A k \in 0 .. (N - 1) : k \in D /\ k \in DOMAIN contents  BY <1>1, <1>2
<1> DEFINE d == ComputeAnchors(s, contents)
<1>14. DOMAIN d = 0 .. (N - 1) /\ \A k \in 0 .. (N - 1) : d[k] = Made(Prev(k), k)
  BY <1>1, <1>3, <1>12, <1>13
<1> HIDE DEF d, Made, Prev
<1>15. \A k \in 0 .. (N - 1) :
                 /\ d[k].cd = a[k + 1].cd /\ d[k].prev = a[k + 1].prev
                 /\ d[k].digest = Keccak(a[k + 1])
                 /\ d[k].cd = CiphertextDigest(s, k, recs[k + 1])
  BY <1>8, <1>14
<1>16. QED  BY <1>14, <1>15 DEF d, contents, a, N

AnswerRows == Range(audit.answer.anchors)
AnswerConflicts == Range(audit.answer.conflicts)

DisclosedRows == {Row(Anchors(audit.bundle.stream, audit.bundle.recs)[k]) : k \in 1 .. Len(audit.bundle.recs)}

\* A pass: the answer's rows are those of the disclosed file, and no others.
LEMMA VerdictMeans ==
  ASSUME audit.bundle.stream \in StreamIds, audit.bundle.recs \in RecordFiles,
         Len(audit.answer.anchors) \in Nat
  PROVE  Verdict = "OK" <=>
           /\ AnswerConflicts = {}
           /\ Len(audit.answer.anchors) = Len(audit.bundle.recs)
           /\ AnswerRows = DisclosedRows
<1> DEFINE s == audit.bundle.stream
           recs == audit.bundle.recs
           d == ComputeAnchors(s, Contents(recs))
           a == Anchors(s, recs)
           v == audit.answer.anchors
           N == Len(recs)
           RowOf(k) == [seq |-> k, cd |-> d[k].cd, prev |-> d[k].prev, digest |-> d[k].digest]
<1>1. N \in Nat  BY RecordsFacts
<1>2. /\ DOMAIN d = 0 .. (N - 1)
      /\ \A k \in 0 .. (N - 1) :
                 /\ d[k].cd = a[k + 1].cd /\ d[k].prev = a[k + 1].prev
                 /\ d[k].digest = Keccak(a[k + 1])
  BY ComputedAnchors
<1>3. \A k \in 1 .. N : a[k].seq = k - 1  BY AnchorParts
<1>4. Verdict = "OK" <=> FaithfulTo(d, v, AnswerConflicts)
  BY DEF Verdict, Contents, AnswerConflicts, Range
<1>5. {RowOf(k) : k \in DOMAIN d} = DisclosedRows
  <2>1. ASSUME NEW k \in 0 .. (N - 1) PROVE RowOf(k) = Row(a[k + 1]) /\ k + 1 \in 1 .. N
    <3>1. PICK m \in 1 .. N : m = k + 1 /\ k = m - 1  BY <1>1
    <3>2. a[m].seq = k  BY <1>3, <3>1
    <3>3. d[k].cd = a[m].cd /\ d[k].prev = a[m].prev /\ d[k].digest = Keccak(a[m])
      BY <1>2, <3>1
    <3> HIDE DEF d, a
    <3>4. QED  BY <3>1, <3>2, <3>3 DEF Row
  <2>2. \A k \in 1 .. N : \E l \in 0 .. (N - 1) : k = l + 1  BY <1>1
  <2> HIDE DEF d, a, N, RowOf
  <2>3. DisclosedRows = {Row(a[k]) : k \in 1 .. N}  BY DEF DisclosedRows, a, N
  <2>4. \A k \in DOMAIN d : RowOf(k) \in {Row(a[l]) : l \in 1 .. N}  BY <1>2, <2>1
  <2>5. \A k \in 1 .. N : \E l \in DOMAIN d : Row(a[k]) = RowOf(l)  BY <1>2, <2>1, <2>2
  <2>6. QED  BY <2>3, <2>4, <2>5
<1>6. FaithfulTo(d, v, AnswerConflicts) <=>
        /\ AnswerConflicts = {}
        /\ Cardinality(DOMAIN d) = Len(v)
        /\ DOMAIN d = 0 .. (Len(v) - 1)
        /\ AnswerRows = {RowOf(k) : k \in DOMAIN d}
  BY DEF FaithfulTo, AnswerRows, Range
<1> HIDE DEF RowOf
<1>7. Cardinality(DOMAIN d) = N
  <2>1. Cardinality(0 .. (N - 1)) = N  BY <1>1, FS_Interval
  <2>2. QED  BY <1>2, <2>1
<1>8. QED  BY <1>2, <1>4, <1>5, <1>6, <1>7

-----------------------------------------------------------------------------
(* While no other contract makes calls, the n-th call is the call of block n. *)

Serial == \A i \in DOMAIN calls : calls[i].tx = i

LEMMA SerialFacts ==
  ASSUME IndexInv, Serial
  PROVE  HeadTx = Len(calls) /\ ReachedBlock = indexed
<1>1. TypeOK /\ BlocksAscend  BY DEF IndexInv
<1>2. Len(calls) \in Nat /\ DOMAIN calls = 1 .. Len(calls) /\ indexed \in 0 .. Len(calls)
  BY <1>1, CallsFacts DEF TypeOK
<1>3. HeadTx = Len(calls)
  <2>1. CASE Len(calls) = 0
    BY <1>1, <1>2, <2>1 DEF HeadTx, TypeOK, ChainTypeOK
  <2>2. CASE Len(calls) > 0
    BY <1>1, <1>2, <2>2, HeadIsLast DEF Serial
  <2>3. QED  BY <1>2, <2>1, <2>2
<1>4. ReachedBlock = indexed
  BY <1>2 DEF ReachedBlock, Serial
<1>5. QED  BY <1>3, <1>4

LEMMA SerialMined ==
  ASSUME IndexInv, Serial, NEW p, NEW kind, NEW nonce, MineTx(p, kind, nonce)
  PROVE  Serial'
<1> DEFINE c == [tx |-> HeadTx + 1, kind |-> kind, nonce |-> nonce, payload |-> p]
<1>1. calls' = Append(calls, c) /\ c.tx = Len(calls) + 1  BY SerialFacts DEF MineTx
<1> HIDE DEF c
<1>2. Len(calls) \in Nat /\ DOMAIN calls = 1 .. Len(calls) /\ calls \in Seq(Call)
  BY CallsFacts DEF IndexInv
<1>3. /\ DOMAIN calls' = DOMAIN calls \cup {Len(calls) + 1}
      /\ calls'[Len(calls) + 1] = c
      /\ \A i \in DOMAIN calls : calls'[i] = calls[i]
  BY <1>1, <1>2
<1>4. QED  BY <1>1, <1>3 DEF Serial

LEMMA SerialInductive ==
  ASSUME WriterInv, Serial, "internal" \notin CallKinds, [WriterNext]_allVars
  PROVE  Serial'
<1>1. IndexInv  BY DEF WriterInv
<1>2. CASE MineWriterTx
  BY <1>1, <1>2, SerialMined DEF MineWriterTx
<1>3. CASE RevertWriterTx
  BY <1>1, <1>3, SerialMined DEF RevertWriterTx
<1>4. CASE ForeignPost
  <2>1. PICK p \in ForeignPayloads, kind \in CallKinds : MineTx(p, kind, 0)
    BY <1>4 DEF ForeignPost, AnyonePosts
  <2>2. QED  BY <1>1, <2>1, SerialMined
<1>5. CASE calls' = calls
  BY <1>5 DEF Serial
<1>6. calls' = calls \/ MineWriterTx \/ RevertWriterTx \/ ForeignPost
  BY DEF WriterNext, StartPost, DryRun, Submit, ReceiptSucceeds, ReceiptFails, FinishPost, Crash,
     EvictWriterTx, Index, IndexNext, EditRecords, InitKeystore, Disclose, allVars, vars
<1>7. QED  BY <1>2, <1>3, <1>4, <1>5, <1>6

-----------------------------------------------------------------------------
(* An answer under way: its rows stand for anchored envelopes, and what was *)
(* anchored by the block of its first request is in it or comes on a later  *)
(* page.                                                                    *)

AnyRow == {Row(e) : e \in Envelopes}

RowsIn(a) == Range(a.anchors)
ConflictsIn(a) == Range(a.conflicts)

AnswerTyped(a) == a.anchors \in Seq(AnyRow) /\ a.conflicts \in Seq(Nat) /\ a.malformed \in Nat

AnchoredOn(s, block) ==
  {i \in DOMAIN calls : /\ Traced(calls[i])
                        /\ calls[i].tx <= block
                        /\ calls[i].payload \in Envelopes
                        /\ calls[i].payload.stream = s}

Backed(r, s, source, block) ==
  \E i \in DOMAIN calls :
    /\ calls[i].tx <= block
    /\ calls[i].payload \in Envelopes /\ calls[i].payload.stream = s
    /\ r = Row(calls[i].payload)
    /\ source # "chain" => Traced(calls[i])

\* The position of call i has a row, that of its envelope or next to a conflict.
Covered(i, a) ==
  \E r \in RowsIn(a) :
    /\ r.seq = calls[i].payload.seq
    /\ r = Row(calls[i].payload) \/ r.seq \in ConflictsIn(a)

RowRank(s, r) == Rank(RowsOf(s), BySeq(RowsOf(s)), r)
ConflictRank(s, id) == Rank(ConflictIds(s), BySeqThenTx(ConflictIds(s)), id)

\* The same of an answer whose first rows and conflicts are skipped from now
\* on.  More may be anchored meanwhile: that moves a row to later pages, never
\* to those already asked for.
Awaited(i, s, a, skip) ==
  \E k \in PositionsOf(s), r \in RowsOf(s) :
    /\ k = Position(calls[i].payload) /\ r = RowAt(k)
    /\ r \in RowsIn(a) \/ RowRank(s, r) >= skip
    /\ \/ r = Row(calls[i].payload)
       \/ calls[i].payload.seq \in ConflictsIn(a)
       \/ \E id \in ConflictIds(s) : id = ConflictId(i) /\ ConflictRank(s, id) >= skip

AnswerOK(a, s, source, step, skip, since, until, exit) ==
  /\ AnswerTyped(a)
  /\ step = "loading" /\ skip = 0 => a = NoAnswer
  /\ skip > 0 => source = "unpinned"
  /\ \A r \in RowsIn(a) : Backed(r, s, source, until)
  /\ step = "loading" /\ skip > 0 => \A i \in AnchoredOn(s, since) : Awaited(i, s, a, skip)
  /\ step = "loaded" \/ (step = "done" /\ exit # "USAGE") => \A i \in AnchoredOn(s, since) : Covered(i, a)

LEMMA RankGrows ==
  ASSUME NEW S, NEW T, S \subseteq T, IsFiniteSet(T), NEW before, NEW after, before \subseteq after,
         NEW x, NEW n \in Nat, Rank(S, before, x) >= n
  PROVE  Rank(T, after, x) >= n
<1>1. Below(T, after, x) \in SUBSET T /\ Below(S, before, x) \in SUBSET Below(T, after, x)
  BY DEF Below
<1>2. IsFiniteSet(Below(T, after, x)) BY <1>1, FS_Subset
<1>3. /\ IsFiniteSet(Below(S, before, x))
      /\ Rank(S, before, x) <= Rank(T, after, x)
  BY <1>1, <1>2, FS_Subset DEF Rank
<1>4. Rank(S, before, x) \in Nat /\ Rank(T, after, x) \in Nat
  BY <1>2, <1>3, FS_CardinalityType DEF Rank
<1>5. QED  BY <1>3, <1>4

TablesFinite == \A s : IsFiniteSet(RowsOf(s)) /\ IsFiniteSet(ConflictIds(s))

LEMMA TablesAreFinite == IndexInv => TablesFinite
BY RowsOfFacts, ConflictIdsFacts DEF OneRowEach, TablesFinite

\* What everyone else does meanwhile.
LEMMA TablesGrow ==
  ASSUME IndexInv, Step, NEW s
  PROVE  /\ PositionsOf(s) \subseteq PositionsOf(s)'
         /\ \A k \in PositionsOf(s) : RowAt(k)' = RowAt(k)
         /\ RowsOf(s) \subseteq RowsOf(s)'
         /\ ConflictIds(s) \subseteq ConflictIds(s)'
<1>1. TakesNothingBack  BY StepTakesNothingBack DEF IndexInv
<1>2. \A k \in DOMAIN anchors : /\ k \in DOMAIN anchors'
                                /\ anchors'[k].cd = anchors[k].cd
                                /\ anchors'[k].prev = anchors[k].prev
                                /\ anchors'[k].digest = anchors[k].digest
  <2>1. \A k \in DOMAIN anchors : /\ k \in DOMAIN anchors'
                                  /\ \A f \in {"cd", "prev", "digest", "tx"} : anchors'[k][f] = anchors[k][f]
    BY <1>1 DEF TakesNothingBack
  <2>2. QED  BY <2>1
<1>3. PositionsOf(s) \subseteq PositionsOf(s)'  BY <1>2 DEF PositionsOf
<1>4. \A k \in PositionsOf(s) : RowAt(k)' = RowAt(k)  BY <1>2 DEF PositionsOf, RowAt
<1>5. RowsOf(s) \subseteq RowsOf(s)'
  <2> SUFFICES ASSUME NEW k \in PositionsOf(s) PROVE RowAt(k) \in RowsOf(s)'
    BY DEF RowsOf
  <2>1. k \in PositionsOf(s)' /\ RowAt(k)' = RowAt(k)  BY <1>3, <1>4
  <2>2. QED  BY <2>1 DEF RowsOf
<1>6. ConflictIds(s) \subseteq ConflictIds(s)'
  BY <1>1 DEF TakesNothingBack, ConflictIds
<1>7. QED  BY <1>3, <1>4, <1>5, <1>6

LEMMA AwaitedStays ==
  ASSUME IndexInv, IndexInv', Step, NEW s, NEW i \in DOMAIN calls, NEW a, NEW skip \in Nat,
         Awaited(i, s, a, skip)
  PROVE  Awaited(i, s, a, skip)'
<1>1. CallsStay  BY StepKeepsCalls DEF IndexInv
<1>2. i \in DOMAIN calls' /\ calls'[i] = calls[i]  BY <1>1 DEF CallsStay
<1>3. TablesFinite'
  <2>1. IndexInv' => TablesFinite'  BY TablesAreFinite, PTL
  <2>2. QED  BY <2>1
<1>4. PICK k \in PositionsOf(s), r \in RowsOf(s) :
        /\ k = Position(calls[i].payload) /\ r = RowAt(k)
        /\ r \in RowsIn(a) \/ RowRank(s, r) >= skip
        /\ \/ r = Row(calls[i].payload)
           \/ calls[i].payload.seq \in ConflictsIn(a)
           \/ \E id \in ConflictIds(s) : id = ConflictId(i) /\ ConflictRank(s, id) >= skip
  BY Zenon DEF Awaited
<1>5. k \in PositionsOf(s) /\ k \in DOMAIN anchors /\ r = RowAt(k)  BY <1>4 DEF PositionsOf
<1>6. /\ k \in PositionsOf(s)' /\ RowAt(k)' = r /\ r \in RowsOf(s)'
      /\ k = Position(calls'[i].payload)
  BY <1>2, <1>4, <1>5, TablesGrow
<1>8. ASSUME RowRank(s, r) >= skip PROVE RowRank(s, r)' >= skip
  <2>1. IsFiniteSet(RowsOf(s)')  BY <1>3 DEF TablesFinite
  <2>2. RowsOf(s) \subseteq RowsOf(s)'  BY TablesGrow
  <2>3. BySeq(RowsOf(s)) \subseteq BySeq(RowsOf(s)')  BY <2>2 DEF BySeq
  <2>4. Rank(RowsOf(s)', BySeq(RowsOf(s)'), r) >= skip
    BY <1>8, <2>1, <2>2, <2>3, RankGrows DEF RowRank
  <2>5. QED  BY <2>4 DEF RowRank
<1>9. ASSUME NEW id \in ConflictIds(s), id = ConflictId(i), ConflictRank(s, id) >= skip
      PROVE  /\ id \in ConflictIds(s)' /\ id = ConflictId(i)'
             /\ ConflictRank(s, id)' >= skip
  <2>1. IsFiniteSet(ConflictIds(s)')  BY <1>3 DEF TablesFinite
  <2>2. ConflictIds(s) \subseteq ConflictIds(s)'  BY TablesGrow
  <2>3. BySeqThenTx(ConflictIds(s)) \subseteq BySeqThenTx(ConflictIds(s)')
    BY <2>2 DEF BySeqThenTx
  <2>4. Rank(ConflictIds(s)', BySeqThenTx(ConflictIds(s)'), id) >= skip
    BY <1>9, <2>1, <2>2, <2>3, RankGrows DEF ConflictRank
  <2>5. ConflictRank(s, id)' >= skip  BY <2>4 DEF ConflictRank
  <2>6. ConflictId(i)' = ConflictId(i)  BY <1>2 DEF ConflictId, Served
  <2>7. QED  BY <1>9, <2>2, <2>5, <2>6
<1>10. /\ r \in RowsIn(a) \/ RowRank(s, r)' >= skip
       /\ \/ r = Row(calls'[i].payload)
          \/ calls'[i].payload.seq \in ConflictsIn(a)
          \/ \E id \in ConflictIds(s)' : id = ConflictId(i)' /\ ConflictRank(s, id)' >= skip
  BY <1>2, <1>4, <1>8, <1>9
<1>11. QED  BY <1>6, <1>10 DEF Awaited

LEMMA AnswerStays ==
  ASSUME AuditBase, AuditBase', Serial, Serial', [WriterNext]_allVars,
         NEW a, NEW s, NEW source, NEW step, NEW skip \in Nat, NEW since \in Nat, NEW until, NEW exit,
         since <= HeadTx, AnswerOK(a, s, source, step, skip, since, until, exit)
  PROVE  AnswerOK(a, s, source, step, skip, since, until, exit)'
<1>1. /\ IndexInv /\ IndexInv' /\ Step
  BY WriterStepIsIndexStep DEF AuditBase, WriterInv
<1>2. CallsStay  BY <1>1, StepKeepsCalls DEF IndexInv
<1>3. HeadTx = Len(calls)  BY <1>1, SerialFacts
<1>4. AnchoredOn(s, since)' \subseteq AnchoredOn(s, since) /\ AnchoredOn(s, since) \subseteq DOMAIN calls
  <2>1. ASSUME NEW i \in DOMAIN calls', calls'[i].tx <= since PROVE i \in DOMAIN calls /\ calls'[i] = calls[i]
    <3>1. i <= since  BY <2>1 DEF Serial
    <3>2. QED  BY <1>2, <1>3, <3>1 DEF CallsStay
  <2>2. QED  BY <2>1 DEF AnchoredOn, Traced
<1>5. ASSUME NEW r, Backed(r, s, source, until) PROVE Backed(r, s, source, until)'
  BY <1>2, <1>5 DEF Backed, CallsStay, Traced
<1>6. ASSUME NEW i \in DOMAIN calls, Covered(i, a) PROVE Covered(i, a)'
  BY <1>2, <1>6 DEF Covered, CallsStay
<1>7. ASSUME NEW i \in DOMAIN calls, Awaited(i, s, a, skip) PROVE Awaited(i, s, a, skip)'
  BY <1>1, <1>7, AwaitedStays
<1>8. AnswerTyped(a)' = AnswerTyped(a)  BY DEF AnswerTyped
<1>9. QED  BY <1>4, <1>5, <1>6, <1>7, <1>8 DEF AnswerOK

-----------------------------------------------------------------------------
(* What the honest build serves at one moment. *)

LEMMA HonestHandles ==
  ASSUME IndexInv, Mode = "HONEST"
  PROVE  /\ Handled(indexed) = {i \in 1 .. indexed : Traced(calls[i]) /\ calls[i].payload \in Envelopes}
         /\ \A i : Served(i) = calls[i].payload
         /\ Handled(indexed) \subseteq DOMAIN calls
<1>1. \A e : ~Withheld(e) /\ AsServed(e) = e  BY DEF Withheld, AsServed
<1>2. DOMAIN calls = 1 .. Len(calls) /\ indexed \in 0 .. Len(calls) /\ Len(calls) \in Nat
  BY CallsFacts DEF IndexInv, TypeOK
<1>3. QED  BY <1>1, <1>2 DEF Handled, Served

LEMMA RowsAreBacked ==
  ASSUME IndexInv, Serial, Mode = "HONEST", NEW s, NEW source, NEW r \in RowsOf(s)
  PROVE  Backed(r, s, source, indexed) /\ r \in AnyRow
<1>1. PICK k \in PositionsOf(s) : r = RowAt(k)  BY DEF RowsOf
<1>2. k \in DOMAIN anchors /\ k[1] = s /\ FirstEnvelopeWins  BY DEF PositionsOf, IndexInv
<1>3. PICK i \in Handled(indexed) :
           /\ Position(Served(i)) = k
           /\ anchors[k].digest = Keccak(Served(i))
           /\ anchors[k].cd = Served(i).cd /\ anchors[k].prev = Served(i).prev
  BY <1>2, FirstAt
<1>4. /\ i \in DOMAIN calls /\ i \in 1 .. indexed /\ Served(i) = calls[i].payload
      /\ calls[i].payload \in Envelopes /\ Traced(calls[i])
  BY HonestHandles
<1>5. calls[i].payload.stream = s /\ calls[i].payload.seq = k[2]
  BY <1>2, <1>3, <1>4 DEF Position
<1>6. r = Row(calls[i].payload)  BY <1>1, <1>3, <1>4, <1>5 DEF RowAt, Row
<1>7. calls[i].tx <= indexed  BY <1>4 DEF Serial
<1>8. QED  BY <1>4, <1>5, <1>6, <1>7 DEF Backed, AnyRow

\* Whatever is anchored by the block graph-node has reached is served, as the
\* position's row or as a conflict.
LEMMA AnchoredIsServed ==
  ASSUME IndexInv, Serial, Mode = "HONEST", NEW s, NEW i \in AnchoredOn(s, indexed)
  PROVE  \E k \in PositionsOf(s), r \in RowsOf(s) :
           /\ k = Position(calls[i].payload) /\ r = RowAt(k)
           /\ r.seq = calls[i].payload.seq
           /\ \/ r = Row(calls[i].payload)
              \/ ConflictId(i) \in ConflictIds(s) /\ ConflictId(i)[2] = calls[i].payload.seq
<1>1. TypeOK /\ FirstEnvelopeWins /\ ConflictRowsExact  BY DEF IndexInv
<1>2. DOMAIN calls = 1 .. Len(calls) /\ indexed \in 0 .. Len(calls) /\ Len(calls) \in Nat
  BY <1>1, CallsFacts DEF TypeOK
<1>3. /\ i \in DOMAIN calls /\ calls[i].tx <= indexed /\ Traced(calls[i])
      /\ calls[i].payload \in Envelopes /\ calls[i].payload.stream = s
  BY DEF AnchoredOn
<1>4. i \in Handled(indexed) /\ Served(i) = calls[i].payload
  BY <1>2, <1>3, HonestHandles DEF Serial
<1>5. PICK k : k = Position(calls[i].payload)  OBVIOUS
<1>6. k = <<s, calls[i].payload.seq>> /\ k \in DOMAIN anchors /\ k \in PositionsOf(s)
  BY <1>1, <1>3, <1>4, <1>5 DEF FirstEnvelopeWins, Position, PositionsOf
<1>7. RowAt(k) \in RowsOf(s) /\ RowAt(k).seq = calls[i].payload.seq
  BY <1>6 DEF RowsOf, RowAt
<1>8. CASE anchors[k].digest = Keccak(calls[i].payload)
  <2>1. PICK j \in Handled(indexed) :
           /\ Position(Served(j)) = k
           /\ anchors[k].digest = Keccak(Served(j))
           /\ anchors[k].cd = Served(j).cd /\ anchors[k].prev = Served(j).prev
    BY <1>1, <1>6, FirstAt
  <2>2. Served(j) = calls[i].payload  BY <1>8, <2>1, KeccakInjective
  <2>3. RowAt(k) = Row(calls[i].payload)  BY <1>6, <1>8, <2>1, <2>2 DEF RowAt, Row
  <2>4. QED  BY <1>5, <1>6, <1>7, <2>3
<1>9. CASE anchors[k].digest # Keccak(calls[i].payload)
  <2>1. i \in Disputed  BY <1>4, <1>5, <1>9 DEF Disputed
  <2>2. ConflictId(i) \in DOMAIN conflicts  BY <1>1, <2>1 DEF ConflictRowsExact, ConflictsExact
  <2>3. ConflictId(i)[1] = s /\ ConflictId(i)[2] = calls[i].payload.seq
    BY <1>3, <1>4 DEF ConflictId
  <2>4. QED  BY <1>5, <1>6, <1>7, <2>2, <2>3 DEF ConflictIds
<1>10. QED  BY <1>8, <1>9

\* The answer at one moment, as sequences of rows and positions.
LEMMA NowFacts ==
  ASSUME IndexInv, Serial, Mode = "HONEST", audit # NoAudit
  PROVE  LET s == audit.bundle.stream
         IN /\ AnswerTyped(Now)
            /\ RowsIn(Now) = RowsOf(s)
            /\ Len(Now.anchors) = Cardinality(RowsOf(s))
            /\ DOMAIN Now.anchors = 1 .. Cardinality(RowsOf(s))
            /\ \A r \in RowsOf(s) : Now.anchors[RowRank(s, r) + 1] = r
            /\ ConflictsIn(Now) = {k[2] : k \in ConflictIds(s)}
            /\ Len(Now.conflicts) = Cardinality(ConflictIds(s))
            /\ DOMAIN Now.conflicts = 1 .. Cardinality(ConflictIds(s))
            /\ \A id \in ConflictIds(s) : Now.conflicts[ConflictRank(s, id) + 1] = id[2]
            /\ Now.malformed = Cardinality(malformed)
            /\ OneRowEach(RowsOf(s)) /\ IsFiniteSet(ConflictIds(s))
            /\ TotalOrder(RowsOf(s), BySeq(RowsOf(s)))
            /\ TotalOrder(ConflictIds(s), BySeqThenTx(ConflictIds(s)))
<1> DEFINE s == audit.bundle.stream
           R == RowsOf(s)
           ids == ConflictIds(s)
           before == BySeqThenTx(ids)
<1>1. /\ Now.anchors = Sorted(R) /\ Now.conflicts = ServedConflicts(s)
      /\ Now.malformed = Cardinality(malformed)
  BY DEF Now, IndexAnswer, ServedRows
<1>2. OneRowEach(R) /\ IsFiniteSet(R)  BY RowsOfFacts DEF OneRowEach
<1>3. /\ TotalOrder(R, BySeq(R)) /\ Sorted(R) \in Seq(R) /\ Len(Sorted(R)) = Cardinality(R)
      /\ {Sorted(R)[i] : i \in DOMAIN Sorted(R)} = R
  BY <1>2, SortedFacts
<1>4. /\ DOMAIN Sorted(R) = 1 .. Cardinality(R)
      /\ \A r \in R : Sorted(R)[RowRank(s, r) + 1] = r
  BY <1>2, <1>3, InOrderFacts DEF Sorted, RowRank
<1>5. R \subseteq AnyRow  BY RowsAreBacked
<1>6. Sorted(R) \in Seq(AnyRow)
  <2>1. Sorted(R) \in [1 .. Len(Sorted(R)) -> R] /\ Len(Sorted(R)) \in Nat  BY <1>3
  <2> HIDE DEF R
  <2>2. Sorted(R) \in [1 .. Len(Sorted(R)) -> AnyRow]  BY <1>5, <2>1
  <2>3. QED  BY <2>1, <2>2
<1>7. /\ IsFiniteSet(ids) /\ TotalOrder(ids, before)
      /\ \A k \in ids : k[2] \in Nat
      /\ Len(ServedConflicts(s)) = Cardinality(ids)
      /\ DOMAIN ServedConflicts(s) = 1 .. Cardinality(ids)
      /\ \A n \in 1 .. Cardinality(ids) : ServedConflicts(s)[n] = InOrder(ids, before)[n][2]
      /\ {ServedConflicts(s)[n] : n \in DOMAIN ServedConflicts(s)} = {k[2] : k \in ids}
  BY ConflictIdsFacts
<1>8. /\ Cardinality(ids) \in Nat
      /\ InOrder(ids, before) \in [1 .. Cardinality(ids) -> ids]
      /\ \A id \in ids : /\ ConflictRank(s, id) + 1 \in 1 .. Cardinality(ids)
                         /\ InOrder(ids, before)[ConflictRank(s, id) + 1] = id
  BY <1>7, InOrderFacts DEF ConflictRank
<1>9. \A id \in ids : ServedConflicts(s)[ConflictRank(s, id) + 1] = id[2]
  <2> SUFFICES ASSUME NEW id \in ids PROVE ServedConflicts(s)[ConflictRank(s, id) + 1] = id[2]
    OBVIOUS
  <2>1. PICK n \in 1 .. Cardinality(ids) : n = ConflictRank(s, id) + 1  BY <1>8
  <2>2. InOrder(ids, before)[n] = id  BY <1>8, <2>1
  <2>3. QED  BY <1>7, <2>1, <2>2
<1>10. ServedConflicts(s) \in Seq(Nat)
  <2> DEFINE c == ServedConflicts(s)
             N == Cardinality(ids)
             o == InOrder(ids, before)
  <2>1. \A n \in 1 .. N : o[n] \in ids  BY <1>8
  <2>2. \A n \in 1 .. N : c[n] \in Nat  BY <1>7, <2>1
  <2>3. c = [n \in 1 .. N |-> c[n]]
    <3>1. c = [n \in DOMAIN InOrder(ids, before) |-> InOrder(ids, before)[n][2]]  BY DEF ServedConflicts
    <3>2. DOMAIN c = 1 .. N  BY <1>7
    <3> HIDE DEF ids, before
    <3>3. QED  BY <3>1, <3>2
  <2> HIDE DEF c, N
  <2>4. c \in [1 .. N -> Nat]  BY <2>2, <2>3
  <2>5. N \in Nat  BY <1>8 DEF N
  <2>6. QED  BY <2>4, <2>5 DEF c
<1>11. Cardinality(malformed) \in Nat
  <2>1. malformed = {<<calls[i].tx, calls[i].payload>> : i \in MalformedHandled}
    BY DEF IndexInv, ConflictRowsExact, MalformedExact
  <2>2. MalformedHandled \in SUBSET (1 .. indexed) /\ indexed \in Nat
    BY DEF MalformedHandled, IndexInv, TypeOK
  <2>3. IsFiniteSet(MalformedHandled)
    <3>1. IsFiniteSet(1 .. indexed)  BY <2>2, FS_Interval
    <3>2. QED  BY <2>2, <3>1, FS_Subset
  <2> DEFINE f == [i \in MalformedHandled |-> <<calls[i].tx, calls[i].payload>>]
  <2>4. f \in Surjection(MalformedHandled, malformed)  BY <2>1 DEF Surjection
  <2> HIDE DEF f
  <2>5. IsFiniteSet(malformed)  BY <2>3, <2>4, FS_Surjection
  <2>6. QED  BY <2>5, FS_CardinalityType
<1>12. AnswerTyped(Now)  BY <1>1, <1>6, <1>10, <1>11 DEF AnswerTyped
<1>13. RowsIn(Now) = R  BY <1>1, <1>3 DEF RowsIn, Range
<1>14. ConflictsIn(Now) = {k[2] : k \in ids}  BY <1>1, <1>7 DEF ConflictsIn, Range
<1>15. /\ Len(Now.anchors) = Cardinality(R) /\ DOMAIN Now.anchors = 1 .. Cardinality(R)
       /\ \A r \in R : Now.anchors[RowRank(s, r) + 1] = r
  BY <1>1, <1>3, <1>4
<1>16. /\ Len(Now.conflicts) = Cardinality(ids) /\ DOMAIN Now.conflicts = 1 .. Cardinality(ids)
       /\ \A id \in ids : Now.conflicts[ConflictRank(s, id) + 1] = id[2]
  BY <1>1, <1>7, <1>9
<1>17. QED  BY <1>1, <1>2, <1>3, <1>7, <1>12, <1>13, <1>14, <1>15, <1>16

-----------------------------------------------------------------------------
(* One request of the paging loop. *)

LEMMA PagedFacts ==
  ASSUME IndexInv, Serial, Mode = "HONEST", audit # NoAudit, VerifyTyped, AnswerTyped(audit.answer)
  PROVE  /\ AnswerTyped(PagedAnswer)
         /\ RowsIn(PagedAnswer) = RowsIn(audit.answer) \cup Range(RowsPage)
         /\ ConflictsIn(PagedAnswer) =
              ConflictsIn(audit.answer) \cup Range(ConflictsPage)
         /\ Range(RowsPage) \subseteq RowsOf(audit.bundle.stream)
<1> DEFINE a == audit.answer
           soFar == a.anchors \o RowsPage
<1>1. audit.skip \in Nat  BY DEF VerifyTyped
<1>2. AnswerTyped(Now) /\ RowsIn(Now) = RowsOf(audit.bundle.stream)  BY NowFacts
<1>3. /\ RowsPage \in Seq(AnyRow)
      /\ \A n \in 1 .. Len(RowsPage) :
           audit.skip + n \in DOMAIN Now.anchors /\ RowsPage[n] = Now.anchors[audit.skip + n]
  BY <1>1, <1>2, PageFacts DEF AnswerTyped, RowsPage
<1>4. ConflictsPage \in Seq(Nat)
  BY <1>1, <1>2, PageFacts DEF AnswerTyped, ConflictsPage
<1>5. MalformedPage \in Seq(Nat)
  <2>1. [i \in 1 .. Now.malformed |-> i] \in Seq(Nat)
    <3>1. Now.malformed \in Nat  BY <1>2 DEF AnswerTyped
    <3>2. [i \in 1 .. Now.malformed |-> i] \in [1 .. Now.malformed -> Nat]  BY <3>1
    <3>3. QED  BY <3>1, <3>2
  <2>2. QED  BY <1>1, <2>1, PageFacts DEF MalformedPage
<1>6. Range(RowsPage) \subseteq RowsOf(audit.bundle.stream)
  <2>1. DOMAIN RowsPage = 1 .. Len(RowsPage)  BY <1>3
  <2>2. \A n \in DOMAIN RowsPage : RowsPage[n] \in RowsIn(Now)  BY <1>3, <2>1 DEF RowsIn, Range
  <2>3. QED  BY <1>2, <2>2 DEF Range
<1>7. a.anchors \in Seq(AnyRow) /\ a.conflicts \in Seq(Nat) /\ a.malformed \in Nat
  BY DEF AnswerTyped
<1>8. /\ soFar \in Seq(AnyRow)
      /\ Range(soFar) = RowsIn(a) \cup Range(RowsPage)
  BY <1>3, <1>7, ConcatProperties, RangeConcatenation DEF RowsIn
<1>9. \A r \in AnyRow : r.seq \in Nat
  <2>1. \A e \in Envelopes : Row(e).seq = e.seq  BY DEF Row
  <2>2. QED  BY <2>1, EnvelopeParts DEF AnyRow
<1>10. /\ SortedPages(soFar) \in Seq(AnyRow)
       /\ Range(SortedPages(soFar)) = Range(soFar)
  BY <1>8, <1>9, SortedPagesFacts
<1>11. /\ PagedAnswer.anchors = IF MorePages THEN soFar ELSE SortedPages(soFar)
       /\ PagedAnswer.conflicts = a.conflicts \o ConflictsPage
       /\ PagedAnswer.malformed = a.malformed + Len(MalformedPage)
  BY DEF PagedAnswer
<1> HIDE DEF soFar
<1>12. RowsIn(PagedAnswer) = RowsIn(a) \cup Range(RowsPage)
  BY <1>8, <1>10, <1>11 DEF RowsIn
<1>13. /\ a.conflicts \o ConflictsPage \in Seq(Nat)
       /\ ConflictsIn(PagedAnswer) =
            ConflictsIn(a) \cup Range(ConflictsPage)
  BY <1>4, <1>7, <1>11, ConcatProperties, RangeConcatenation DEF ConflictsIn
<1>14. Len(MalformedPage) \in Nat  BY <1>5
<1>15. AnswerTyped(PagedAnswer)  BY <1>7, <1>8, <1>10, <1>11, <1>13, <1>14 DEF AnswerTyped
<1>16. QED  BY <1>6, <1>12, <1>13, <1>15

\* What was awaited before a request is covered by its answer if that is the
\* last, and awaited from later pages if it is not.
LEMMA PageAdvances ==
  ASSUME IndexInv, Serial, Mode = "HONEST", audit # NoAudit, VerifyTyped, AnswerTyped(audit.answer),
         NEW i \in DOMAIN calls, calls[i].payload \in Envelopes,
         calls[i].payload.stream = audit.bundle.stream,
         Awaited(i, audit.bundle.stream, audit.answer, audit.skip)
  PROVE  /\ MorePages => Awaited(i, audit.bundle.stream, PagedAnswer, audit.skip + PageSize)
         /\ ~MorePages => Covered(i, PagedAnswer)
<1> DEFINE s == audit.bundle.stream
           a == audit.answer
           skip == audit.skip
<1>1. audit.skip \in Nat /\ PageSize \in Nat  BY AuditAssumption DEF VerifyTyped
<1>2. PICK k \in PositionsOf(s), r \in RowsOf(s) :
        /\ k = Position(calls[i].payload) /\ r = RowAt(k)
        /\ r \in RowsIn(a) \/ RowRank(s, r) >= skip
        /\ \/ r = Row(calls[i].payload)
           \/ calls[i].payload.seq \in ConflictsIn(a)
           \/ \E id \in ConflictIds(s) : id = ConflictId(i) /\ ConflictRank(s, id) >= skip
  BY DEF Awaited
<1>3. k \in PositionsOf(s) /\ r = RowAt(k)
  BY <1>2 DEF Awaited
<1>4. r.seq = calls[i].payload.seq  BY <1>2 DEF RowAt, Position
<1>5. /\ RowsIn(PagedAnswer) = RowsIn(a) \cup Range(RowsPage)
      /\ ConflictsIn(PagedAnswer) = ConflictsIn(a) \cup Range(ConflictsPage)
      /\ RowsPage \in Seq(AnyRow) /\ ConflictsPage \in Seq(Nat)
  <2>1. AnswerTyped(Now)  BY NowFacts
  <2>2. QED  BY <1>1, <2>1, PagedFacts, PageFacts DEF AnswerTyped, RowsPage, ConflictsPage
<1>6. ASSUME RowRank(s, r) >= skip
      PROVE  r \in RowsIn(PagedAnswer) \/ (PageFull(RowsPage) /\ RowRank(s, r) >= skip + PageSize)
  <2>1. /\ IsFiniteSet(RowsOf(s)) /\ TotalOrder(RowsOf(s), BySeq(RowsOf(s)))
        /\ Now.anchors \in Seq(AnyRow)
        /\ Len(Now.anchors) = Cardinality(RowsOf(s))
        /\ DOMAIN Now.anchors = 1 .. Cardinality(RowsOf(s))
        /\ Now.anchors[RowRank(s, r) + 1] = r
    BY <1>2, NowFacts DEF OneRowEach, AnswerTyped
  <2>2. \/ \E m \in 1 .. Len(RowsPage) : RowsPage[m] = Now.anchors[RowRank(s, r) + 1]
        \/ PageFull(RowsPage) /\ RowRank(s, r) >= skip + PageSize
    BY <1>1, <1>2, <1>6, <2>1, ListedPage DEF RowRank, RowsPage
  <2>3. \A m \in 1 .. Len(RowsPage) : RowsPage[m] \in Range(RowsPage)
    BY <1>5 DEF Range
  <2>4. \/ \E m \in 1 .. Len(RowsPage) : RowsPage[m] = r
        \/ PageFull(RowsPage) /\ RowRank(s, r) >= skip + PageSize
    <3> HIDE DEF s, skip
    <3>1. PICK x : x = Now.anchors[RowRank(s, r) + 1]  OBVIOUS
    <3>2. x = r  BY <2>1, <3>1
    <3>3. QED  BY <2>2, <3>1, <3>2
  <2>5. r \in Range(RowsPage) \/ (PageFull(RowsPage) /\ RowRank(s, r) >= skip + PageSize)
    BY <2>3, <2>4
  <2>6. QED  BY <1>5, <2>5
<1>7. ASSUME NEW id \in ConflictIds(s), id = ConflictId(i), ConflictRank(s, id) >= skip
      PROVE  \/ calls[i].payload.seq \in ConflictsIn(PagedAnswer)
             \/ PageFull(ConflictsPage) /\ ConflictRank(s, id) >= skip + PageSize
  <2>1. /\ IsFiniteSet(ConflictIds(s)) /\ TotalOrder(ConflictIds(s), BySeqThenTx(ConflictIds(s)))
        /\ Now.conflicts \in Seq(Nat)
        /\ Len(Now.conflicts) = Cardinality(ConflictIds(s))
        /\ DOMAIN Now.conflicts = 1 .. Cardinality(ConflictIds(s))
        /\ Now.conflicts[ConflictRank(s, id) + 1] = id[2]
    BY <1>2, NowFacts DEF AnswerTyped
  <2>2. \/ \E m \in 1 .. Len(ConflictsPage) : ConflictsPage[m] = Now.conflicts[ConflictRank(s, id) + 1]
        \/ PageFull(ConflictsPage) /\ ConflictRank(s, id) >= skip + PageSize
    BY <1>1, <1>7, <2>1, ListedPage DEF ConflictRank, ConflictsPage
  <2>3. \A m \in 1 .. Len(ConflictsPage) : ConflictsPage[m] \in Range(ConflictsPage)
    BY <1>5 DEF Range
  <2>4. id[2] = calls[i].payload.seq
    BY <1>7, HonestHandles DEF ConflictId
  <2>5. QED  BY <1>5, <2>1, <2>2, <2>3, <2>4
<1>8. CASE MorePages
  <2>1. r \in RowsIn(PagedAnswer) \/ RowRank(s, r) >= skip + PageSize
    BY <1>2, <1>5, <1>6
  <2>2. \/ r = Row(calls[i].payload)
        \/ calls[i].payload.seq \in ConflictsIn(PagedAnswer)
        \/ \E id \in ConflictIds(s) : id = ConflictId(i) /\ ConflictRank(s, id) >= skip + PageSize
    BY <1>2, <1>5, <1>7
  <2>3. Awaited(i, s, PagedAnswer, skip + PageSize)
    BY <1>2, <2>1, <2>2 DEF Awaited
  <2>4. QED  BY <1>8, <2>3
<1>9. CASE ~MorePages
  <2>1. ~PageFull(RowsPage) /\ ~PageFull(ConflictsPage)  BY <1>9 DEF MorePages
  <2>2. r \in RowsIn(PagedAnswer)  BY <1>2, <1>5, <1>6, <2>1
  <2>3. r = Row(calls[i].payload) \/ calls[i].payload.seq \in ConflictsIn(PagedAnswer)
    BY <1>2, <1>5, <1>7, <2>1
  <2>4. Covered(i, PagedAnswer)  BY <1>4, <2>2, <2>3 DEF Covered
  <2>5. QED  BY <1>9, <2>4
<1>10. QED  BY <1>8, <1>9

-----------------------------------------------------------------------------
(* The invariant of the answer. *)

Shows(a, s, source, step, skip, since, until, exit) ==
  /\ audit.answer = a /\ audit.bundle.stream = s /\ audit.source = source
  /\ audit.step = step /\ audit.skip = skip
  /\ audit.since = since /\ audit.until = until /\ audit.exit = exit

AnswerInv ==
  audit # NoAudit =>
    /\ \E a, s, source, step, skip, since, until, exit :
         /\ Shows(a, s, source, step, skip, since, until, exit)
         /\ AnswerOK(a, s, source, step, skip, since, until, exit)
    /\ audit.exit = "OK" => Verdict = "OK"

FullScans == ScanFrom = "0" \/ "chain" \notin Sources

\* A scan from the first block, as an answer.
ScanFound(s) ==
  LET found == Scan(s, 0, HeadTx)
  IN /\ RowsIn(found) = ScannedRows(s, 0, HeadTx)
     /\ ConflictsIn(found) = ScannedConflicts(s, 0, HeadTx)
     /\ AnswerTyped(found)

LEMMA ScanIsTyped ==
  ASSUME TypeOK, NEW s
  PROVE  ScanFound(s)
<1>0. PICK to : to = HeadTx  OBVIOUS
<1> DEFINE found == Scan(s, 0, to)
           R == ScannedRows(s, 0, to)
           c == Competing(s, 0, to)
           T == {i \in Scanned(0, to) : calls[i].payload \in Undecodable}
<1>1. /\ found.anchors = Sorted(R)
      /\ Range(found.conflicts) = ScannedConflicts(s, 0, to)
      /\ found.malformed = Cardinality(T)
  BY ScanFacts
<1>2. OneRowEach(R) /\ R \subseteq AnyRow
  <2>1. R \subseteq AnyRow
    BY OursFacts DEF ScannedRows, FirstSeen, AnyRow
  <2>2. QED  BY <2>1, ScannedRowsFacts
<1>3. Sorted(R) \in Seq(R) /\ {Sorted(R)[i] : i \in DOMAIN Sorted(R)} = R
  BY <1>2, SortedFacts
<1>4. Sorted(R) \in Seq(AnyRow)
  <2> HIDE DEF R
  <2>1. Sorted(R) \in [1 .. Len(Sorted(R)) -> R] /\ Len(Sorted(R)) \in Nat  BY <1>3
  <2>2. Sorted(R) \in [1 .. Len(Sorted(R)) -> AnyRow]  BY <1>2, <2>1
  <2>3. QED  BY <2>1, <2>2
<1>5. found.conflicts \in Seq(Nat)
  <2> DEFINE N == Cardinality(c)
             cs == [n \in 1 .. N |-> calls[InOrder(c, ByCall(c))[n]].payload.seq]
  <2>1. found.conflicts = cs  BY DEF Scan, Ours, FirstSeen, Competing
  <2>2. c \subseteq Ours(s, 0, to)  BY DEF Competing
  <2>3. \A i \in c : calls[i].payload.seq \in Nat /\ i \in Nat  BY <2>2, OursFacts
  <2>4. TotalOrder(c, ByCall(c))
    <3> HIDE DEF c
    <3>1. \A x, y \in c : <<x, y>> \in ByCall(c) <=> x < y  BY DEF ByCall
    <3>2. QED  BY <2>3, <3>1 DEF TotalOrder
  <2>5. IsFiniteSet(c)  BY <2>2, OursFacts, FS_Subset
  <2> HIDE DEF c
  <2>6. N \in Nat /\ \A n \in 1 .. N : InOrder(c, ByCall(c))[n] \in c
    BY <2>4, <2>5, InOrderFacts
  <2>7. cs \in [1 .. N -> Nat]  BY <2>3, <2>6
  <2> HIDE DEF cs, N
  <2>8. QED  BY <2>1, <2>6, <2>7
<1>6. Cardinality(T) \in Nat
  <2>1. T \in SUBSET DOMAIN calls  BY DEF Scanned
  <2>2. IsFiniteSet(DOMAIN calls)  BY CallsFacts, FS_Interval
  <2> HIDE DEF T
  <2>3. QED  BY <2>1, <2>2, FS_Subset, FS_CardinalityType
<1>7. RowsIn(found) = R  BY <1>1, <1>3 DEF RowsIn, Range
<1>8. ConflictsIn(found) = ScannedConflicts(s, 0, to)
  BY <1>1 DEF ConflictsIn
<1>9. AnswerTyped(found)  BY <1>1, <1>4, <1>5, <1>6 DEF AnswerTyped
<1>10. QED  BY <1>0, <1>7, <1>8, <1>9 DEF ScanFound

LEMMA BackedLonger ==
  ASSUME Serial, NEW r, NEW s, NEW source, NEW m \in Nat, NEW n \in Nat, m <= n, Backed(r, s, source, m),
         TypeOK
  PROVE  Backed(r, s, source, n)
<1>1. \A i \in DOMAIN calls : calls[i].tx \in Nat  BY CallsFacts
<1>2. QED  BY <1>1 DEF Backed

\* Before a request of the paging loop.
LEMMA BeforePage ==
  ASSUME IndexInv, Serial, Mode = "HONEST", NEW s, NEW a, NEW skip \in Nat, NEW since,
         skip = 0 => since = indexed,
         skip > 0 => \A i \in AnchoredOn(s, since) : Awaited(i, s, a, skip),
         NEW i \in AnchoredOn(s, since)
  PROVE  Awaited(i, s, a, skip)
<1>1. CASE skip = 0
  <2>1. PICK k \in PositionsOf(s), r \in RowsOf(s) :
           /\ k = Position(calls[i].payload) /\ r = RowAt(k)
           /\ \/ r = Row(calls[i].payload)
              \/ ConflictId(i) \in ConflictIds(s)
    BY <1>1, AnchoredIsServed
  <2>2. OneRowEach(RowsOf(s)) /\ TotalOrder(RowsOf(s), BySeq(RowsOf(s)))
    BY RowsOfFacts, SortedFacts
  <2>3. RowRank(s, r) >= skip
    <3>1. RowRank(s, r) \in 0 .. (Cardinality(RowsOf(s)) - 1)
      BY <2>2, RankFacts DEF RowRank, OneRowEach
    <3>2. QED  BY <1>1, <3>1
  <2>4. ASSUME NEW id \in ConflictIds(s) PROVE ConflictRank(s, id) >= skip
    <3>1. ConflictRank(s, id) \in 0 .. (Cardinality(ConflictIds(s)) - 1)
      BY RankFacts, ConflictIdsFacts DEF ConflictRank
    <3>2. QED  BY <1>1, <3>1
  <2>5. QED  BY <2>1, <2>3, <2>4 DEF Awaited
<1>2. QED  BY <1>1

\* The steps that read, each with what they leave.
LEMMA ReadingSteps ==
  ASSUME AuditBase, Serial, Mode = "HONEST", "internal" \notin CallKinds, FullScans, audit # NoAudit, VerifyTyped,
         NEW a, NEW s, NEW source, NEW step, NEW skip, NEW since, NEW until, NEW exit,
         Shows(a, s, source, step, skip, since, until, exit),
         AnswerOK(a, s, source, step, skip, since, until, exit)
  PROVE  /\ Pages => AnswerOK(PagedAnswer, s, source, IF MorePages THEN "loading" ELSE "loaded",
                              skip + PageSize, FirstRequest, ReachedBlock, exit)
         /\ Pins => AnswerOK(Now, s, source, "loaded", skip, ReachedBlock, ReachedBlock, exit)
         /\ ReadsChain => AnswerOK(Scan(s, FromBlock, HeadTx), s, source, "loaded", skip,
                                   HeadTx, HeadTx, exit)
<1>1. /\ IndexInv /\ TypeOK /\ a = audit.answer /\ s = audit.bundle.stream /\ source = audit.source
      /\ step = audit.step /\ skip = audit.skip /\ since = audit.since /\ until = audit.until
      /\ AnswerTyped(a) /\ skip \in Nat /\ PageSize \in Nat /\ PageSize > 0
      /\ until \in Nat
      /\ source # "chain" => until <= ReachedBlock
  BY AuditAssumption DEF AuditBase, WriterInv, IndexInv, Shows, AnswerOK, VerifyTyped
<1>2. ReachedBlock = indexed /\ HeadTx = Len(calls) /\ indexed \in Nat /\ Len(calls) \in Nat
  BY <1>1, SerialFacts, CallsFacts DEF TypeOK
<1>3. ASSUME Pages
      PROVE  AnswerOK(PagedAnswer, s, source, IF MorePages THEN "loading" ELSE "loaded",
                              skip + PageSize, FirstRequest, ReachedBlock, exit)
  <2>1. step = "loading" /\ source = "unpinned"  BY <1>1, <1>3 DEF Pages
  <2>2. /\ AnswerTyped(PagedAnswer)
        /\ RowsIn(PagedAnswer) = RowsIn(a) \cup Range(RowsPage)
        /\ Range(RowsPage) \subseteq RowsOf(s)
    BY <1>1, PagedFacts
  <2>3. ASSUME NEW r \in RowsIn(PagedAnswer) PROVE Backed(r, s, source, ReachedBlock)
    <3>1. CASE r \in RowsIn(a)
      <4>1. Backed(r, s, source, until)  BY <3>1 DEF AnswerOK
      <4>2. until <= indexed  BY <1>1, <1>2, <2>1
      <4>3. QED  BY <1>1, <1>2, <4>1, <4>2, BackedLonger
    <3>2. CASE r \in RowsOf(s)
      BY <1>1, <1>2, <3>2, RowsAreBacked
    <3>3. QED  BY <2>2, <2>3, <3>1, <3>2
  <2>4. \A i \in AnchoredOn(s, FirstRequest) : Awaited(i, s, a, skip)
    <3>1. PICK first : first = FirstRequest  OBVIOUS
    <3>2. skip = 0 => first = indexed  BY <1>1, <1>2, <3>1 DEF FirstRequest
    <3>3. skip > 0 => \A i \in AnchoredOn(s, first) : Awaited(i, s, a, skip)
      <4>1. skip > 0 => first = since  BY <1>1, <3>1 DEF FirstRequest
      <4>2. QED  BY <2>1, <4>1 DEF AnswerOK
    <3>4. QED  BY <1>1, <3>1, <3>2, <3>3, BeforePage
  <2>5. ASSUME NEW i \in AnchoredOn(s, FirstRequest)
        PROVE  /\ MorePages => Awaited(i, s, PagedAnswer, skip + PageSize)
               /\ ~MorePages => Covered(i, PagedAnswer)
    <3>1. i \in DOMAIN calls /\ calls[i].payload \in Envelopes /\ calls[i].payload.stream = s
      BY DEF AnchoredOn
    <3>2. QED  BY <1>1, <2>4, <3>1, PageAdvances
  <2>6. skip + PageSize > 0  BY <1>1
  <2>7. QED  BY <2>1, <2>2, <2>3, <2>5, <2>6 DEF AnswerOK
<1>4. ASSUME Pins
      PROVE  AnswerOK(Now, s, source, "loaded", skip, ReachedBlock, ReachedBlock, exit)
  <2>1. source = "pinned" /\ skip = 0  BY <1>1, <1>4 DEF Pins, AnswerOK
  <2>2. /\ AnswerTyped(Now) /\ RowsIn(Now) = RowsOf(s)
        /\ ConflictsIn(Now) = {k[2] : k \in ConflictIds(s)}
    BY <1>1, NowFacts
  <2>3. \A r \in RowsIn(Now) : Backed(r, s, source, ReachedBlock)
    BY <1>1, <1>2, <2>2, RowsAreBacked
  <2>4. ASSUME NEW i \in AnchoredOn(s, ReachedBlock) PROVE Covered(i, Now)
    <3>1. PICK r \in RowsOf(s) :
           /\ r.seq = calls[i].payload.seq
           /\ \/ r = Row(calls[i].payload)
              \/ ConflictId(i) \in ConflictIds(s) /\ ConflictId(i)[2] = calls[i].payload.seq
      BY <1>1, <1>2, AnchoredIsServed
    <3>2. r = Row(calls[i].payload) \/ r.seq \in ConflictsIn(Now)
      BY <2>2, <3>1
    <3>3. QED  BY <2>2, <3>1, <3>2 DEF Covered
  <2>5. QED  BY <2>1, <2>2, <2>3, <2>4 DEF AnswerOK
<1>5. ASSUME ReadsChain
      PROVE  AnswerOK(Scan(s, FromBlock, HeadTx), s, source, "loaded", skip, HeadTx, HeadTx, exit)
  <2> DEFINE found == Scan(s, FromBlock, HeadTx)
  <2>1. source = "chain" /\ FromBlock = 0 /\ skip = 0
    <3>1. source = "chain" /\ skip = 0  BY <1>1, <1>5 DEF ReadsChain, AnswerOK
    <3>2. ScanFrom = "0"  BY <1>1, <3>1 DEF FullScans, VerifyTyped
    <3>3. QED  BY <3>1, <3>2 DEF FromBlock
  <2>2. /\ RowsIn(found) = ScannedRows(s, 0, HeadTx)
        /\ ConflictsIn(found) = ScannedConflicts(s, 0, HeadTx)
        /\ AnswerTyped(found)
    <3>1. ScanFound(s) BY <1>1, ScanIsTyped
    <3>2. QED  BY <2>1, <3>1 DEF ScanFound
  <2>3. ASSUME NEW r \in RowsIn(found) PROVE Backed(r, s, source, HeadTx)
    <3>1. PICK i \in FirstSeen(s, 0, HeadTx) : r = Row(calls[i].payload)
      BY <2>2 DEF ScannedRows
    <3>2. i \in DOMAIN calls /\ calls[i].tx <= HeadTx /\ calls[i].payload \in Envelopes
          /\ calls[i].payload.stream = s
      BY <1>1, SerialFacts, ReachedFacts DEF FirstSeen, Ours, Scanned, ReachedOK
    <3>3. QED  BY <2>1, <3>1, <3>2 DEF Backed
  <2>4. ASSUME NEW i \in AnchoredOn(s, HeadTx) PROVE Covered(i, found)
    <3>1. i \in Ours(s, 0, HeadTx)
      <4>1. /\ i \in DOMAIN calls /\ Traced(calls[i]) /\ calls[i].tx <= HeadTx
            /\ calls[i].payload \in Envelopes /\ calls[i].payload.stream = s
        BY DEF AnchoredOn
      <4>2. calls[i].tx \in 0 .. HeadTx  BY <1>1, <1>2, <4>1, CallsFacts
      <4>3. calls[i].kind # "internal"  BY <1>1, <4>1, CallsFacts
      <4>4. QED  BY <4>1, <4>2, <4>3 DEF Ours, Scanned
    <3>2. PICK j \in FirstSeen(s, 0, HeadTx) : calls[j].payload.seq = calls[i].payload.seq
      BY <1>1, <3>1, OursFacts
    <3>3. PICK r : r = Row(calls[j].payload)  OBVIOUS
    <3>4. r \in RowsIn(found) /\ r.seq = calls[i].payload.seq
      BY <2>2, <3>2, <3>3 DEF ScannedRows, Row
    <3>5. calls[i].payload = calls[j].payload \/ i \in Competing(s, 0, HeadTx)
      BY <3>1, <3>2 DEF Competing
    <3>6. r = Row(calls[i].payload) \/ r.seq \in ConflictsIn(found)
      BY <2>2, <3>3, <3>4, <3>5 DEF ScannedConflicts
    <3>7. QED  BY <3>4, <3>6 DEF Covered
  <2>5. QED  BY <2>1, <2>2, <2>3, <2>4 DEF AnswerOK
<1>6. QED  BY <1>3, <1>4, <1>5

LEMMA SameVerdict ==
  ASSUME audit'.bundle = audit.bundle, audit'.answer = audit.answer
  PROVE  Verdict' = Verdict
BY DEF Verdict

LEMMA StutterKeepsAnswer ==
  ASSUME AuditBase, AuditBase', Serial, Serial', UNCHANGED allVars, VerifyTyped',
         NEW a, NEW s, NEW source, NEW step, NEW skip, NEW since, NEW until, NEW exit,
         Shows(a, s, source, step, skip, since, until, exit)',
         AnswerOK(a, s, source, step, skip, since, until, exit)
  PROVE  \E b, t, from, st, sk, si, un, ex :
           /\ Shows(b, t, from, st, sk, si, un, ex)'
           /\ AnswerOK(b, t, from, st, sk, si, un, ex)'
<1>1. skip \in Nat /\ since \in Nat /\ since <= HeadTx
  <2>1. HeadTx' = HeadTx  BY DEF allVars, HeadTx
  <2>2. skip = audit'.skip /\ since = audit'.since /\ until = audit'.until  BY DEF Shows
  <2>3. /\ audit'.skip \in Nat /\ audit'.since \in Nat /\ audit'.until \in Nat
        /\ audit'.since <= audit'.until /\ audit'.until <= HeadTx'
    BY DEF VerifyTyped
  <2>4. HeadTx \in Nat  BY ReachedFacts DEF AuditBase, WriterInv, ReachedOK
  <2>5. QED  BY <2>1, <2>2, <2>3, <2>4
<1>2. [WriterNext]_allVars  OBVIOUS
<1>3. AnswerOK(a, s, source, step, skip, since, until, exit)'
  BY <1>1, <1>2, AnswerStays
<1>4. QED  BY <1>3

LEMMA VerifyKeepsAnswer ==
  ASSUME AuditBase, AuditBase', Serial, AnswerInv, Mode = "HONEST", "internal" \notin CallKinds,
         FullScans, Verify
  PROVE  AnswerInv'
<1>1. UNCHANGED allVars /\ VerifyTyped'
  BY VerifySteps, VerifyKeepsTypes DEF AuditBase
<1>2. Serial'  BY <1>1 DEF Serial, allVars
<1>3. ASSUME NEW a, NEW s, NEW source, NEW step, NEW skip, NEW since, NEW until, NEW exit,
             Shows(a, s, source, step, skip, since, until, exit)',
             AnswerOK(a, s, source, step, skip, since, until, exit),
             exit = "OK" => Verdict' = "OK"
      PROVE  AnswerInv'
  <2>1. \E b, t, from, st, sk, si, un, ex :
           /\ Shows(b, t, from, st, sk, si, un, ex)'
           /\ AnswerOK(b, t, from, st, sk, si, un, ex)'
    BY <1>1, <1>2, <1>3, StutterKeepsAnswer
  <2>2. audit'.exit = exit  BY <1>3 DEF Shows
  <2>3. QED  BY <1>3, <2>1, <2>2 DEF AnswerInv
<1>4. CASE Starts
  <2>1. PICK source \in Sources, crossCheck \in BOOLEAN :
          AuditIs(audit', "loading", disclosure, source, crossCheck, NoAnswer, 0, 0, 0, 0, "none")
    BY <1>4 DEF Starts
  <2>2. Shows(NoAnswer, disclosure.stream, source, "loading", 0, 0, 0, "none")'
    BY <1>1, <2>1 DEF Shows, AuditIs, allVars
  <2>3. AnswerTyped(NoAnswer) /\ RowsIn(NoAnswer) = {}
    BY DEF AnswerTyped, RowsIn, NoAnswer, Range
  <2>4. AnswerOK(NoAnswer, disclosure.stream, source, "loading", 0, 0, 0, "none")
    BY <2>3 DEF AnswerOK
  <2>5. PICK s : s = disclosure.stream /\ disclosure'.stream = s  BY <1>1 DEF allVars
  <2>6. QED  BY <1>3, <2>2, <2>4, <2>5
<1>5. ASSUME audit # NoAudit, VerifyTyped,
             Pages \/ Pins \/ ReadsChain \/ Fails \/ Concludes \/ CrossChecks
      PROVE  AnswerInv'
  <2>1. PICK a, s, source, step, skip, since, until, exit :
          /\ Shows(a, s, source, step, skip, since, until, exit)
          /\ AnswerOK(a, s, source, step, skip, since, until, exit)
    BY <1>5 DEF AnswerInv
  <2>2. /\ a = audit.answer /\ s = audit.bundle.stream /\ source = audit.source
        /\ step = audit.step /\ skip = audit.skip /\ since = audit.since /\ until = audit.until
        /\ exit = audit.exit
    BY <2>1 DEF Shows
  <2>3. /\ Pages => AnswerOK(PagedAnswer, s, source, IF MorePages THEN "loading" ELSE "loaded",
                              skip + PageSize, FirstRequest, ReachedBlock, exit)
        /\ Pins => AnswerOK(Now, s, source, "loaded", skip, ReachedBlock, ReachedBlock, exit)
        /\ ReadsChain => AnswerOK(Scan(s, FromBlock, HeadTx), s, source, "loaded", skip,
                                   HeadTx, HeadTx, exit)
    BY <1>5, <2>1, ReadingSteps
  <2>4. step # "done" => exit = "none"  BY <1>5, <2>2 DEF VerifyTyped
  <2>5. CASE Pages
    <3>1. PICK b, st, sk, si, un :
            /\ b = PagedAnswer /\ st = (IF MorePages THEN "loading" ELSE "loaded")
            /\ sk = skip + PageSize /\ si = FirstRequest /\ un = ReachedBlock
      OBVIOUS
    <3>2. AuditIs(audit', st, audit.bundle, source, audit.crossCheck, b, sk, si, un, un, exit)
      BY <2>2, <2>5, <3>1 DEF Pages
    <3>3. Shows(b, s, source, st, sk, si, un, exit)'  BY <2>2, <3>2 DEF Shows, AuditIs
    <3>4. AnswerOK(b, s, source, st, sk, si, un, exit)  BY <2>3, <2>5, <3>1
    <3>5. exit = "none"  BY <2>2, <2>4, <2>5 DEF Pages
    <3>6. QED  BY <1>3, <3>3, <3>4, <3>5
  <2>6. CASE Pins
    <3>1. PICK b, un : b = Now /\ un = ReachedBlock
      OBVIOUS
    <3>2. AuditIs(audit', "loaded", audit.bundle, source, audit.crossCheck, b, skip, un, un, un, exit)
      BY <2>2, <2>6, <3>1 DEF Pins
    <3>3. Shows(b, s, source, "loaded", skip, un, un, exit)'  BY <2>2, <3>2 DEF Shows, AuditIs
    <3>4. AnswerOK(b, s, source, "loaded", skip, un, un, exit)  BY <2>3, <2>6, <3>1
    <3>5. exit = "none"  BY <2>2, <2>4, <2>6 DEF Pins
    <3>6. QED  BY <1>3, <3>3, <3>4, <3>5
  <2>7. CASE ReadsChain
    <3>1. PICK b, un : b = Scan(s, FromBlock, HeadTx) /\ un = HeadTx
      OBVIOUS
    <3>2. AuditIs(audit', "loaded", audit.bundle, source, audit.crossCheck, b, skip, un, un, un, exit)
      BY <2>2, <2>7, <3>1 DEF ReadsChain
    <3>3. Shows(b, s, source, "loaded", skip, un, un, exit)'  BY <2>2, <3>2 DEF Shows, AuditIs
    <3>4. AnswerOK(b, s, source, "loaded", skip, un, un, exit)  BY <2>3, <2>7, <3>1
    <3>5. exit = "none"  BY <2>2, <2>4, <2>7 DEF ReadsChain
    <3>6. QED  BY <1>3, <3>3, <3>4, <3>5
  <2>8. CASE Fails \/ Concludes \/ CrossChecks
    <3>1. PICK scanned, code :
            /\ Ends(scanned, code)
            /\ code = "OK" => Verdict = "OK"
            /\ code # "USAGE" => step = "loaded"
      BY <2>2, <2>8 DEF Fails, Concludes, CrossChecks
    <3>2. AuditIs(audit', "done", audit.bundle, source, audit.crossCheck, a, skip, since, until,
                  scanned, code)
      BY <2>2, <3>1 DEF Ends
    <3>3. Shows(a, s, source, "done", skip, since, until, code)'
      BY <2>2, <3>2 DEF Shows, AuditIs
    <3>4. AnswerOK(a, s, source, "done", skip, since, until, code)
      BY <2>1, <3>1 DEF AnswerOK
    <3>5. code = "OK" => Verdict' = "OK"
      BY <2>2, <3>1, <3>2, SameVerdict DEF AuditIs
    <3>6. QED  BY <1>3, <3>3, <3>4, <3>5
  <2>9. QED  BY <1>5, <2>5, <2>6, <2>7, <2>8
<1>6. QED  BY <1>4, <1>5, VerifySteps DEF AuditBase

LEMMA OthersKeepAnswer ==
  ASSUME AuditBase, AuditBase', Serial, Serial', AnswerInv, [WriterNext]_allVars, UNCHANGED audit
  PROVE  AnswerInv'
<1>1. CASE audit = NoAudit
  BY <1>1 DEF AnswerInv
<1>2. CASE audit # NoAudit
  <2>1. VerifyTyped  BY <1>2 DEF AuditBase, VerifyInv
  <2>2. PICK a, s, source, step, skip, since, until, exit :
          /\ Shows(a, s, source, step, skip, since, until, exit)
          /\ AnswerOK(a, s, source, step, skip, since, until, exit)
    BY <1>2 DEF AnswerInv
  <2>3. skip \in Nat /\ since \in Nat /\ since <= HeadTx
    <3>1. skip = audit.skip /\ since = audit.since /\ until = audit.until  BY <2>2 DEF Shows
    <3>2. HeadTx \in Nat  BY ReachedFacts DEF AuditBase, WriterInv, ReachedOK
    <3>3. QED  BY <2>1, <3>1, <3>2 DEF VerifyTyped
  <2>4. AnswerOK(a, s, source, step, skip, since, until, exit)'
    BY <2>2, <2>3, AnswerStays
  <2>5. Shows(a, s, source, step, skip, since, until, exit)'  BY <2>2 DEF Shows
  <2>6. Verdict' = Verdict  BY SameVerdict
  <2>7. QED  BY <1>2, <2>4, <2>5, <2>6 DEF AnswerInv
<1>3. QED  BY <1>1, <1>2

-----------------------------------------------------------------------------
(* The invariant of an audit. *)

PassInv == AuditBase /\ Serial /\ AnswerInv

LEMMA PassInvInvariant ==
  ASSUME Mode = "HONEST", "internal" \notin CallKinds, FullScans
  PROVE  AuditSpec => []PassInv
<1>1. AuditInit => PassInv
  <2> SUFFICES ASSUME AuditInit PROVE PassInv
    OBVIOUS
  <2>1. AuditBase  BY WriterInvInitially DEF AuditInit, AuditBase, VerifyInv
  <2>2. Serial  BY DEF AuditInit, WriterInit, Init, Serial
  <2>3. AnswerInv  BY DEF AuditInit, AnswerInv
  <2>4. QED  BY <2>1, <2>2, <2>3 DEF PassInv
<1>2. PassInv /\ [AuditNext]_auditVars => PassInv'
  <2> SUFFICES ASSUME PassInv, [AuditNext]_auditVars PROVE PassInv'
    OBVIOUS
  <2>1. AuditBase /\ Serial /\ AnswerInv /\ AuditBase'
    BY AuditBaseInductive DEF PassInv
  <2>2. CASE Verify
    <3>1. Serial'
      <4>1. UNCHANGED allVars  BY <2>1, <2>2, VerifySteps DEF AuditBase
      <4>2. QED  BY <2>1, <4>1 DEF Serial, allVars
    <3>2. AnswerInv'  BY <2>1, <2>2, VerifyKeepsAnswer
    <3>3. QED  BY <2>1, <3>1, <3>2 DEF PassInv
  <2>3. CASE [WriterNext]_allVars /\ UNCHANGED audit
    <3>1. Serial'  BY <2>1, <2>3, SerialInductive DEF AuditBase
    <3>2. AnswerInv'  BY <2>1, <2>3, <3>1, OthersKeepAnswer
    <3>3. QED  BY <2>1, <3>1, <3>2 DEF PassInv
  <2>4. QED  BY <2>2, <2>3 DEF AuditNext, auditVars
<1>3. QED  BY <1>1, <1>2, PTL DEF AuditSpec

\* A pass means what the usage text of cli.ts promises, for an answer of the
\* subgraph however its pages are interleaved with new anchors and for a scan
\* from the first block over transactions none of which reverted.  The honest
\* build is assumed, and that nobody anchors through a contract: two calls of
\* one transaction share a conflict row's id, and the scan does not see them.
THEOREM PassAlwaysSound ==
  ASSUME Mode = "HONEST", "internal" \notin CallKinds, FullScans
  PROVE  AuditSpec => []PassIsSound
<1>1. ASSUME PassInv, audit.step = "done", audit.exit = "OK",
             audit.source = "chain" => NothingReverted(audit.until)
      PROVE  DisclosedIsAnchored
  <2>1. VerifyTyped /\ audit # NoAudit
    <3>1. audit # NoAudit  BY <1>1 DEF NoAudit
    <3>2. QED  BY <1>1, <3>1 DEF PassInv, AuditBase, VerifyInv
  <2>2. Verdict = "OK"  BY <1>1, <2>1 DEF PassInv, AnswerInv
  <2>3. PICK s, recs, since, until :
          /\ s = audit.bundle.stream /\ recs = audit.bundle.recs
          /\ since = audit.since /\ until = audit.until
    OBVIOUS
  <2>4. /\ AnswerTyped(audit.answer)
        /\ \A r \in AnswerRows : Backed(r, s, audit.source, until)
        /\ \A i \in AnchoredOn(s, since) : Covered(i, audit.answer)
    <3>1. PICK a, t, source, step, skip, si, un, exit :
            /\ Shows(a, t, source, step, skip, si, un, exit)
            /\ AnswerOK(a, t, source, step, skip, si, un, exit)
      BY <1>1, <2>1 DEF PassInv, AnswerInv
    <3>2. /\ a = audit.answer /\ t = s /\ source = audit.source /\ step = audit.step
          /\ skip = audit.skip /\ si = since /\ un = until /\ exit = audit.exit
      BY <2>3, <3>1 DEF Shows
    <3>3. QED  BY <1>1, <3>1, <3>2 DEF AnswerOK, AnswerRows, RowsIn
  <2>5. s \in StreamIds /\ recs \in RecordFiles /\ Len(audit.answer.anchors) \in Nat
    BY <2>1, <2>3, <2>4 DEF VerifyTyped, FileOK, AnswerTyped
  <2>6. AnswerConflicts = {} /\ AnswerRows = DisclosedRows
    BY <2>2, <2>3, <2>5, VerdictMeans
  <2>7. Len(recs) \in Nat  BY <2>5, RecordsFacts
  <2>8. ASSUME NEW k \in 1 .. Len(recs)
        PROVE  LET r == Row(Anchors(s, recs)[k])
               IN /\ r \in DisclosedRows /\ r.seq = k - 1
                  /\ r.cd = CiphertextDigest(s, k - 1, recs[k])
    BY <2>3, <2>5, AnchorParts DEF Row, DisclosedRows
  <2>9. \A r \in DisclosedRows : \E k \in 1 .. Len(recs) : r = Row(Anchors(s, recs)[k])
    BY <2>3 DEF DisclosedRows
  <2>10. ASSUME NEW i \in AnchoredOn(s, since)
         PROVE  /\ calls[i].payload.seq \in 0 .. (Len(recs) - 1)
                /\ calls[i].payload.cd =
                     CiphertextDigest(s, calls[i].payload.seq, recs[calls[i].payload.seq + 1])
    <3>1. PICK r \in AnswerRows : /\ r.seq = calls[i].payload.seq
                                  /\ r = Row(calls[i].payload)
      BY <2>4, <2>6 DEF Covered, RowsIn, ConflictsIn, AnswerRows, AnswerConflicts
    <3>2. PICK k \in 1 .. Len(recs) : r = Row(Anchors(s, recs)[k])  BY <2>6, <2>9, <3>1
    <3>3. r.seq = k - 1 /\ r.cd = CiphertextDigest(s, k - 1, recs[k])  BY <2>8, <3>2
    <3>4. r.cd = calls[i].payload.cd  BY <3>1 DEF Row
    <3>5. PICK m : m = calls[i].payload.seq  OBVIOUS
    <3>6. m = k - 1 /\ m \in 0 .. (Len(recs) - 1) /\ m + 1 = k  BY <2>7, <3>1, <3>3, <3>5
    <3>7. QED  BY <3>3, <3>4, <3>5, <3>6
  <2>11. ASSUME NEW m \in 0 .. (Len(recs) - 1)
         PROVE  \E i \in AnchoredOn(s, until) : calls[i].payload.seq = m
    <3>1. PICK k \in 1 .. Len(recs) : k - 1 = m
      <4>1. m + 1 \in 1 .. Len(recs) /\ (m + 1) - 1 = m  BY <2>7
      <4>2. QED  BY <4>1
    <3>2. PICK r \in AnswerRows : r.seq = m  BY <2>6, <2>8, <3>1
    <3>3. PICK i \in DOMAIN calls :
             /\ calls[i].tx <= until
             /\ calls[i].payload \in Envelopes /\ calls[i].payload.stream = s
             /\ r = Row(calls[i].payload)
             /\ audit.source # "chain" => Traced(calls[i])
      BY <2>4 DEF Backed
    <3>4. Traced(calls[i])  BY <1>1, <2>3, <3>3 DEF NothingReverted
    <3>5. calls[i].payload.seq = m  BY <3>2, <3>3 DEF Row
    <3>6. QED  BY <3>3, <3>4, <3>5 DEF AnchoredOn
  <2>12. \A block : AnchoredBy(block) = AnchoredOn(s, block)
    BY <2>3 DEF AnchoredBy, AnchoredOn
  <2>13. QED  BY <2>3, <2>10, <2>11, <2>12 DEF DisclosedIsAnchored
<1>2. PassInv => PassIsSound
  BY <1>1 DEF PassIsSound
<1>3. QED  BY <1>2, PassInvInvariant, PTL

-----------------------------------------------------------------------------
(* A settled stretch of a stream: up to a block nothing reverted, and no two *)
(* envelopes compete.  There every source gives the same answer.             *)

AnchoredRows(s, block) == {Row(calls[i].payload) : i \in AnchoredOn(s, block)}

UndecodableBy(block) == {i \in Scanned(0, block) : calls[i].payload \in Undecodable}

Undisputed(s, block) ==
  \A i, j \in AnchoredOn(s, block) :
    calls[i].payload.seq = calls[j].payload.seq => calls[i].payload = calls[j].payload

Settled(s, block) == NothingReverted(block) /\ Undisputed(s, block)

Counts(a, rows, competing, rejected) ==
  Len(a.anchors) = rows /\ Len(a.conflicts) = competing /\ a.malformed = rejected

WholeAnswer(a, s, block) ==
  Counts(a, Cardinality(AnchoredRows(s, block)), 0, Cardinality(UndecodableBy(block)))

\* Blocks that are mined do not change any more.
LEMMA PastStays ==
  ASSUME IndexInv, IndexInv', Serial, Serial', CallsStay, NEW s, NEW block \in Nat, block <= HeadTx
  PROVE  /\ AnchoredOn(s, block)' = AnchoredOn(s, block)
         /\ AnchoredRows(s, block)' = AnchoredRows(s, block)
         /\ UndecodableBy(block)' = UndecodableBy(block)
         /\ Settled(s, block)' <=> Settled(s, block)
<1>1. HeadTx = Len(calls) /\ Len(calls) \in Nat  BY SerialFacts, CallsFacts DEF IndexInv, TypeOK
<1>2. \A i \in DOMAIN calls : i \in DOMAIN calls' /\ calls'[i] = calls[i]
  BY DEF CallsStay
<1>3. ASSUME NEW i \in DOMAIN calls', calls'[i].tx <= block
      PROVE  i \in DOMAIN calls
  <2>1. i <= block  BY <1>3 DEF Serial
  <2>2. QED  BY <1>1, <1>3, <2>1 DEF CallsStay
<1>4. AnchoredOn(s, block)' = AnchoredOn(s, block)
  BY <1>2, <1>3 DEF AnchoredOn, Traced
<1>5. AnchoredOn(s, block) \subseteq DOMAIN calls  BY DEF AnchoredOn
<1>6. AnchoredRows(s, block)' = AnchoredRows(s, block)
  BY <1>2, <1>4, <1>5 DEF AnchoredRows
<1>7. UndecodableBy(block)' = UndecodableBy(block)
  <2>1. ASSUME NEW i \in DOMAIN calls', calls'[i].tx \in 0 .. block PROVE i \in DOMAIN calls
    BY <1>3, <2>1
  <2>2. QED  BY <1>2, <2>1 DEF UndecodableBy, Scanned
<1>8. NothingReverted(block)' <=> NothingReverted(block)
  BY <1>2, <1>3 DEF NothingReverted, Traced
<1>9. Undisputed(s, block)' <=> Undisputed(s, block)
  BY <1>2, <1>4, <1>5 DEF Undisputed
<1>10. QED  BY <1>4, <1>6, <1>7, <1>8, <1>9 DEF Settled

LEMMA AnchoredRowsFacts ==
  ASSUME TypeOK, NEW s, NEW block, Undisputed(s, block)
  PROVE  /\ OneRowEach(AnchoredRows(s, block))
         /\ Cardinality(AnchoredRows(s, block)) \in Nat
<1> DEFINE A == AnchoredOn(s, block)
<1>1. A \subseteq DOMAIN calls /\ \A i \in A : calls[i].payload \in Envelopes  BY DEF AnchoredOn
<1>2. IsFiniteSet(DOMAIN calls)  BY CallsFacts, FS_Interval
<1>3. IsFiniteSet(A)  BY <1>1, <1>2, FS_Subset
<1>4. IsFiniteSet(AnchoredRows(s, block))
  <2> DEFINE f == [i \in A |-> Row(calls[i].payload)]
  <2>1. f \in Surjection(A, AnchoredRows(s, block))
    BY DEF Surjection, AnchoredRows
  <2> HIDE DEF f, A
  <2>2. QED  BY <1>3, <2>1, FS_Surjection
<1>5. \A i \in A : Row(calls[i].payload).seq = calls[i].payload.seq /\ calls[i].payload.seq \in Nat
  BY <1>1, EnvelopeParts DEF Row
<1>6. \A q, r \in AnchoredRows(s, block) : q.seq = r.seq => q = r
  <2> SUFFICES ASSUME NEW i \in A, NEW j \in A, Row(calls[i].payload).seq = Row(calls[j].payload).seq
               PROVE  Row(calls[i].payload) = Row(calls[j].payload)
    BY DEF AnchoredRows
  <2>1. calls[i].payload = calls[j].payload  BY <1>5 DEF Undisputed
  <2>2. QED  BY <2>1
<1>7. \A r \in AnchoredRows(s, block) : r.seq \in Nat
  BY <1>5 DEF AnchoredRows
<1>8. OneRowEach(AnchoredRows(s, block))  BY <1>4, <1>6, <1>7 DEF OneRowEach
<1>9. QED  BY <1>4, <1>8, FS_CardinalityType

\* The index of a settled stretch.
LEMMA SettledIndex ==
  ASSUME IndexInv, Serial, Mode = "HONEST", "internal" \notin CallKinds, NEW s, Settled(s, indexed)
  PROVE  /\ RowsOf(s) = AnchoredRows(s, indexed)
         /\ ConflictIds(s) = {}
         /\ Cardinality(malformed) = Cardinality(UndecodableBy(indexed))
<1>1. TypeOK /\ FirstEnvelopeWins /\ ConflictRowsExact  BY DEF IndexInv
<1>2. DOMAIN calls = 1 .. Len(calls) /\ indexed \in 0 .. Len(calls) /\ Len(calls) \in Nat
  BY <1>1, CallsFacts DEF TypeOK
<1>3. \A i \in DOMAIN calls : calls[i].tx = i /\ calls[i].kind # "internal"
  BY <1>1, CallsFacts DEF Serial
<1>4. \A i \in DOMAIN calls : i <= indexed => Traced(calls[i])
  BY <1>3 DEF Settled, NothingReverted
<1>5. ConflictIds(s) = {}
  <2> SUFFICES ASSUME NEW id \in ConflictIds(s) PROVE FALSE
    OBVIOUS
  <2>1. id \in DOMAIN conflicts /\ id[1] = s  BY DEF ConflictIds
  <2>2. PICK j \in Disputed : ConflictId(j) = id  BY <1>1, <2>1 DEF ConflictRowsExact, ConflictsExact
  <2>3. j \in Handled(indexed) /\ Keccak(Served(j)) # anchors[Position(Served(j))].digest
    BY DEF Disputed
  <2>4. PICK k : k = Position(Served(j))  OBVIOUS
  <2>5. k \in DOMAIN anchors  BY <1>1, <2>3, <2>4 DEF FirstEnvelopeWins
  <2>6. PICK i \in Handled(indexed) : Position(Served(i)) = k /\ anchors[k].digest = Keccak(Served(i))
    BY <1>1, <2>5, FirstAt
  <2>7. /\ Served(i) = calls[i].payload /\ Served(j) = calls[j].payload
        /\ i \in DOMAIN calls /\ j \in DOMAIN calls /\ i <= indexed /\ j <= indexed
        /\ Traced(calls[i]) /\ Traced(calls[j])
        /\ calls[i].payload \in Envelopes /\ calls[j].payload \in Envelopes
    BY <2>3, HonestHandles
  <2>8. calls[j].payload.stream = s  BY <2>1, <2>2, <2>7 DEF ConflictId
  <2>9. calls[i].payload.stream = s /\ calls[i].payload.seq = calls[j].payload.seq
    BY <2>4, <2>6, <2>7, <2>8 DEF Position
  <2>10. i \in AnchoredOn(s, indexed) /\ j \in AnchoredOn(s, indexed)
    BY <1>3, <2>7, <2>8, <2>9 DEF AnchoredOn
  <2>11. calls[i].payload = calls[j].payload  BY <2>9, <2>10 DEF Settled, Undisputed
  <2>12. QED  BY <2>3, <2>4, <2>6, <2>7, <2>11
<1>6. RowsOf(s) = AnchoredRows(s, indexed)
  <2>1. ASSUME NEW r \in RowsOf(s) PROVE r \in AnchoredRows(s, indexed)
    <3>1. PICK i \in DOMAIN calls :
            /\ calls[i].tx <= indexed
            /\ calls[i].payload \in Envelopes /\ calls[i].payload.stream = s
            /\ r = Row(calls[i].payload)
            /\ "unpinned" # "chain" => Traced(calls[i])
      <4>1. Backed(r, s, "unpinned", indexed)  BY RowsAreBacked
      <4>2. QED  BY <4>1 DEF Backed
    <3>2. i \in AnchoredOn(s, indexed)  BY <3>1 DEF AnchoredOn
    <3>3. QED  BY <3>1, <3>2 DEF AnchoredRows
  <2>2. ASSUME NEW i \in AnchoredOn(s, indexed) PROVE Row(calls[i].payload) \in RowsOf(s)
    BY <1>5, AnchoredIsServed
  <2>3. QED  BY <2>1, <2>2 DEF AnchoredRows
<1>7. Cardinality(malformed) = Cardinality(UndecodableBy(indexed))
  <2> DEFINE M == UndecodableBy(indexed)
             f == [i \in M |-> <<calls[i].tx, calls[i].payload>>]
  <2>1. M = MalformedHandled
    BY <1>2, <1>3, <1>4 DEF UndecodableBy, Scanned, MalformedHandled
  <2>2. malformed = {<<calls[i].tx, calls[i].payload>> : i \in M}
    BY <1>1, <2>1 DEF ConflictRowsExact, MalformedExact
  <2>3. M \subseteq DOMAIN calls  BY DEF UndecodableBy, Scanned
  <2>4. IsFiniteSet(M)
    <3>1. IsFiniteSet(1 .. Len(calls))  BY <1>2, FS_Interval
    <3>2. QED  BY <1>2, <2>3, <3>1, FS_Subset
  <2>5. \A i, j \in M : <<calls[i].tx, calls[i].payload>> = <<calls[j].tx, calls[j].payload>> => i = j
    BY <1>3, <2>3
  <2> HIDE DEF M
  <2>6. f \in Bijection(M, malformed)
    BY <2>2, <2>5 DEF Bijection, Injection, IsInjective, Surjection
  <2> HIDE DEF f
  <2>7. Cardinality(M) = Cardinality(malformed)  BY <2>4, <2>6, FS_Bijection DEF ExistsBijection
  <2>8. QED  BY <2>7 DEF M
<1>8. QED  BY <1>5, <1>6, <1>7

\* The scan of a settled stretch.
SettledFound(s, to) ==
  LET found == Scan(s, 0, to)
  IN /\ WholeAnswer(found, s, to)
     /\ found.anchors \in Seq(AnchoredRows(s, to))
     /\ RowsIn(found) = AnchoredRows(s, to)

LEMMA SettledScan ==
  ASSUME IndexInv, Serial, "internal" \notin CallKinds, NEW s, NEW to \in Nat, Settled(s, to)
  PROVE  SettledFound(s, to)
<1> DEFINE found == Scan(s, 0, to)
<1>1. TypeOK  BY DEF IndexInv
<1>2. \A i \in DOMAIN calls : calls[i].tx \in Nat /\ calls[i].kind # "internal"
  BY <1>1, CallsFacts
<1>3. Ours(s, 0, to) = AnchoredOn(s, to)
  <2>1. \A i \in DOMAIN calls : calls[i].tx \in 0 .. to <=> calls[i].tx <= to  BY <1>2
  <2>2. \A i \in DOMAIN calls : calls[i].tx <= to => Traced(calls[i])
    BY DEF Settled, NothingReverted
  <2>3. QED  BY <1>2, <2>1, <2>2 DEF Ours, Scanned, AnchoredOn
<1>4. FirstSeen(s, 0, to) \subseteq AnchoredOn(s, to)  BY <1>3 DEF FirstSeen
<1>5. Competing(s, 0, to) = {}
  BY <1>3, <1>4 DEF Competing, Settled, Undisputed
<1>6. ScannedRows(s, 0, to) = AnchoredRows(s, to)
  <2>1. ASSUME NEW i \in AnchoredOn(s, to) PROVE Row(calls[i].payload) \in ScannedRows(s, 0, to)
    <3>1. PICK j \in FirstSeen(s, 0, to) : calls[j].payload.seq = calls[i].payload.seq
      BY <1>1, <1>3, OursFacts
    <3>2. calls[j].payload = calls[i].payload  BY <1>4, <3>1 DEF Settled, Undisputed
    <3>3. QED  BY <3>1, <3>2 DEF ScannedRows
  <2>2. QED  BY <1>4, <2>1 DEF ScannedRows, AnchoredRows
<1>7. /\ found.anchors = Sorted(ScannedRows(s, 0, to))
      /\ Len(found.conflicts) = Cardinality(Competing(s, 0, to))
      /\ found.malformed = Cardinality(UndecodableBy(to))
  BY <1>1, ScanFacts DEF UndecodableBy
<1>8. Len(found.conflicts) = 0
  BY <1>5, <1>7, FS_EmptySet
<1> DEFINE R == AnchoredRows(s, to)
<1>9. OneRowEach(R)  BY <1>1, AnchoredRowsFacts DEF Settled
<1>10. /\ Sorted(R) \in Seq(R) /\ Len(Sorted(R)) = Cardinality(R)
       /\ {Sorted(R)[i] : i \in DOMAIN Sorted(R)} = R
  BY <1>9, SortedFacts
<1>11. RowsIn(found) = R  BY <1>6, <1>7, <1>10 DEF RowsIn, Range
<1>12. QED  BY <1>6, <1>7, <1>8, <1>10, <1>11 DEF SettledFound, WholeAnswer, Counts

\* An answer of one moment, over a settled stretch.
LEMMA SettledAnswer ==
  ASSUME NEW a, NEW s, NEW source, NEW step, NEW skip, NEW block, NEW exit,
         AnswerOK(a, s, source, step, skip, block, block, exit),
         step = "loaded" \/ (step = "done" /\ exit # "USAGE"),
         Settled(s, block), Len(a.conflicts) = 0
  PROVE  RowsIn(a) = AnchoredRows(s, block) /\ ConflictsIn(a) = {}
<1>1. ConflictsIn(a) = {}
  <2>1. a.conflicts \in Seq(Nat)  BY DEF AnswerOK, AnswerTyped
  <2>2. DOMAIN a.conflicts = {}  BY <2>1
  <2>3. QED  BY <2>2 DEF ConflictsIn, Range
<1>2. ASSUME NEW r \in RowsIn(a) PROVE r \in AnchoredRows(s, block)
  <2>1. PICK i \in DOMAIN calls :
          /\ calls[i].tx <= block
          /\ calls[i].payload \in Envelopes /\ calls[i].payload.stream = s
          /\ r = Row(calls[i].payload)
    BY <1>2 DEF AnswerOK, Backed
  <2>2. Traced(calls[i])  BY <2>1 DEF Settled, NothingReverted
  <2>3. i \in AnchoredOn(s, block)  BY <2>1, <2>2 DEF AnchoredOn
  <2>4. QED  BY <2>1, <2>3 DEF AnchoredRows
<1>3. ASSUME NEW i \in AnchoredOn(s, block) PROVE Row(calls[i].payload) \in RowsIn(a)
  <2>1. Covered(i, a)  BY <1>3 DEF AnswerOK
  <2>2. QED  BY <1>1, <2>1 DEF Covered
<1>4. QED  BY <1>1, <1>2, <1>3 DEF AnchoredRows

\* The last row at a position is one of the rows.
LEMMA LastRowFacts ==
  ASSUME NEW R, NEW rows \in Seq(R), NEW s \in SeqsOf(rows)
  PROVE  LastRow(rows, s) \in Range(rows) /\ LastRow(rows, s).seq = s
<1> DEFINE N == Len(rows)
           T == {m \in 0 .. N : \E i \in 1 .. N : m = N - i /\ rows[i].seq = s}
<1>1. N \in Nat /\ DOMAIN rows = 1 .. N  OBVIOUS
<1>2. PICK i \in 1 .. N : rows[i].seq = s  BY <1>1 DEF SeqsOf
<1>3. N - i \in T  BY <1>1, <1>2
<1>4. T \in SUBSET Nat  BY <1>1
<1>5. PICK m \in T : \A k \in T : m <= k
  <2> HIDE DEF T
  <2>1. QED  BY <1>3, <1>4, LeastNatural
<1>6. PICK l \in 1 .. N : m = N - l /\ rows[l].seq = s  BY <1>5
<1>7. ASSUME NEW j \in 1 .. N, rows[j].seq = s PROVE j <= l
  <2>1. N - j \in T
    <3>1. N - j \in 0 .. N
      <4> HIDE DEF N
      <4>1. N \in Nat /\ j \in 1 .. N  BY <1>1, <1>7
      <4>2. QED  BY <4>1
    <3>2. QED  BY <1>7, <3>1
  <2>2. m <= N - j  BY <1>5, <2>1
  <2>3. QED  BY <1>1, <1>6, <2>2
<1> HIDE DEF N, T
<1>8. \E k \in DOMAIN rows : rows[k].seq = s /\ \A j \in DOMAIN rows : rows[j].seq = s => j <= k
  BY <1>1, <1>6, <1>7
<1>9. PICK k \in DOMAIN rows : LastRow(rows, s) = rows[k] /\ rows[k].seq = s
  BY <1>8 DEF LastRow
<1>10. QED  BY <1>9 DEF Range

\* Two answers with the same rows and the same counts do not differ.
LEMMA NoDifference ==
  ASSUME NEW R, OneRowEach(R), NEW a, NEW b, a.anchors \in Seq(R), b.anchors \in Seq(R),
         RowsIn(a) = R, RowsIn(b) = R,
         Len(a.conflicts) = Len(b.conflicts), a.malformed = b.malformed
  PROVE  CompareIndexes(a, b) = {}
<1> DEFINE left == SeqsOf(a.anchors)
           right == SeqsOf(b.anchors)
<1>1. left = right
  <2>1. left = {r.seq : r \in RowsIn(a)}  BY DEF SeqsOf, RowsIn, Range
  <2>2. right = {r.seq : r \in RowsIn(b)}  BY DEF SeqsOf, RowsIn, Range
  <2>3. QED  BY <2>1, <2>2
<1>2. ASSUME NEW t \in left PROVE LastRow(a.anchors, t) = LastRow(b.anchors, t)
  <2>1. LastRow(a.anchors, t) \in R /\ LastRow(a.anchors, t).seq = t
    BY <1>2, LastRowFacts DEF RowsIn
  <2>2. LastRow(b.anchors, t) \in R /\ LastRow(b.anchors, t).seq = t
    BY <1>1, <1>2, LastRowFacts DEF RowsIn
  <2>3. QED  BY <2>1, <2>2 DEF OneRowEach
<1> HIDE DEF left, right
<1>3. CompareIndexes(a, b) =
        {<<"only one side", s>> : s \in (left \cup right) \ (left \cap right)}
          \cup {<<"differs", s>> : s \in {t \in left \cap right :
                                         LastRow(a.anchors, t) # LastRow(b.anchors, t)}}
  BY DEF CompareIndexes, left, right
<1>4. (left \cup right) \ (left \cap right) = {}  BY <1>1
<1>5. {t \in left \cap right : LastRow(a.anchors, t) # LastRow(b.anchors, t)} = {}  BY <1>2
<1>6. QED  BY <1>3, <1>4, <1>5

-----------------------------------------------------------------------------
(* Answers of one moment, counted. *)

Lesser(m, n) == IF m <= n THEN m ELSE n

\* The pages fetched so far of tables that have not changed since.
HalfAnswer(a, s, skip) ==
  Counts(a, Lesser(skip, Cardinality(RowsOf(s))), Lesser(skip, Cardinality(ConflictIds(s))),
         Lesser(skip, Cardinality(malformed)))

MomentOK(a, s, step, skip, since, until, scanned, exit, verdict) ==
  /\ step = "loading" /\ skip > 0 /\ since = indexed => HalfAnswer(a, s, skip)
  /\ step # "loading" /\ exit # "USAGE" /\ since = until /\ Settled(s, until)
       => WholeAnswer(a, s, until)
  /\ step = "done" /\ exit # "USAGE" /\ since = until /\ until = scanned /\ Settled(s, until)
       => exit = verdict

ShowsAll(a, s, step, skip, since, until, scanned, exit, verdict) ==
  /\ audit.answer = a /\ audit.bundle.stream = s
  /\ audit.step = step /\ audit.skip = skip
  /\ audit.since = since /\ audit.until = until /\ audit.scanned = scanned /\ audit.exit = exit
  /\ Verdict = verdict

MomentInv ==
  audit # NoAudit =>
    \E a, s, step, skip, since, until, scanned, exit, verdict :
      /\ ShowsAll(a, s, step, skip, since, until, scanned, exit, verdict)
      /\ MomentOK(a, s, step, skip, since, until, scanned, exit, verdict)

\* The length of the pages fetched so far.
LEMMA PageLength ==
  ASSUME NEW R, NEW list \in Seq(R), audit.skip \in Nat
  PROVE  /\ Len(Page(list)) \in Nat
         /\ Lesser(audit.skip, Len(list)) + Len(Page(list)) = Lesser(audit.skip + PageSize, Len(list))
         /\ ~PageFull(Page(list)) => Lesser(audit.skip + PageSize, Len(list)) = Len(list)
<1>1. PICK l, n, k : l = Len(Page(list)) /\ n = Len(list) /\ k = audit.skip
  OBVIOUS
<1>2. /\ n \in Nat /\ k \in Nat /\ PageSize \in Nat /\ PageSize > 0
      /\ l = IF n <= k THEN 0 ELSE IF n <= k + PageSize THEN n - k ELSE PageSize
  BY <1>1, PageFacts, AuditAssumption
<1>3. /\ l \in Nat
      /\ Lesser(k, n) + l = Lesser(k + PageSize, n)
      /\ l # PageSize => Lesser(k + PageSize, n) = n
  BY <1>2 DEF Lesser
<1>4. QED  BY <1>1, <1>3 DEF PageFull

\* One request of the paging loop, counted.
LEMMA PageCounts ==
  ASSUME IndexInv, Serial, Mode = "HONEST", audit # NoAudit, VerifyTyped, AnswerTyped(audit.answer),
         HalfAnswer(audit.answer, audit.bundle.stream, audit.skip)
  PROVE  LET s == audit.bundle.stream
         IN /\ HalfAnswer(PagedAnswer, s, audit.skip + PageSize)
            /\ ~MorePages => Counts(PagedAnswer, Cardinality(RowsOf(s)), Cardinality(ConflictIds(s)),
                                    Cardinality(malformed))
<1> DEFINE s == audit.bundle.stream
           a == audit.answer
           skip == audit.skip
           soFar == a.anchors \o RowsPage
<1>1. skip \in Nat  BY DEF VerifyTyped
<1>2. /\ Now.anchors \in Seq(AnyRow) /\ Now.conflicts \in Seq(Nat) /\ Now.malformed \in Nat
      /\ Len(Now.anchors) = Cardinality(RowsOf(s))
      /\ Len(Now.conflicts) = Cardinality(ConflictIds(s))
      /\ Now.malformed = Cardinality(malformed)
  BY NowFacts DEF AnswerTyped
<1>3. PICK junk : junk = [i \in 1 .. Now.malformed |-> i]  OBVIOUS
<1>4. junk \in Seq(Nat) /\ Len(junk) = Now.malformed
  <2>1. junk \in [1 .. Now.malformed -> Nat]  BY <1>2, <1>3
  <2>2. QED  BY <1>2, <2>1
<1>5. PICK rows, competing, rejected :
        rows = RowsPage /\ competing = ConflictsPage /\ rejected = MalformedPage
  OBVIOUS
<1>6. /\ rows = Page(Now.anchors) /\ competing = Page(Now.conflicts) /\ rejected = Page(junk)
  BY <1>3, <1>5 DEF RowsPage, ConflictsPage, MalformedPage
<1>7. /\ rows \in Seq(AnyRow) /\ competing \in Seq(Nat) /\ rejected \in Seq(Nat)
  BY <1>1, <1>2, <1>4, <1>6, PageFacts
<1>8. /\ Len(rows) \in Nat
      /\ Lesser(skip, Len(Now.anchors)) + Len(rows) = Lesser(skip + PageSize, Len(Now.anchors))
      /\ ~PageFull(rows) => Lesser(skip + PageSize, Len(Now.anchors)) = Len(Now.anchors)
  BY <1>1, <1>2, <1>6, PageLength
<1>9. /\ Len(competing) \in Nat
      /\ Lesser(skip, Len(Now.conflicts)) + Len(competing) = Lesser(skip + PageSize, Len(Now.conflicts))
      /\ ~PageFull(competing) => Lesser(skip + PageSize, Len(Now.conflicts)) = Len(Now.conflicts)
  BY <1>1, <1>2, <1>6, PageLength
<1>10. /\ Len(rejected) \in Nat
       /\ Lesser(skip, Now.malformed) + Len(rejected) = Lesser(skip + PageSize, Now.malformed)
       /\ ~PageFull(rejected) => Lesser(skip + PageSize, Now.malformed) = Now.malformed
  BY <1>1, <1>4, <1>6, PageLength
<1>11. /\ Len(a.anchors) = Lesser(skip, Len(Now.anchors))
       /\ Len(a.conflicts) = Lesser(skip, Len(Now.conflicts))
       /\ a.malformed = Lesser(skip, Now.malformed)
  BY <1>2 DEF HalfAnswer, Counts
<1>12. a.anchors \in Seq(AnyRow) /\ a.conflicts \in Seq(Nat)  BY DEF AnswerTyped
<1>13. /\ PagedAnswer.anchors = IF MorePages THEN soFar ELSE SortedPages(soFar)
       /\ PagedAnswer.conflicts = a.conflicts \o competing
       /\ PagedAnswer.malformed = a.malformed + Len(rejected)
  BY <1>5 DEF PagedAnswer
<1>14. soFar \in Seq(AnyRow) /\ Len(soFar) = Len(a.anchors) + Len(rows)
  BY <1>5, <1>7, <1>12, ConcatProperties
<1>15. Len(SortedPages(soFar)) = Len(soFar)
  <2>1. \A r \in AnyRow : r.seq \in Nat
    <3>1. \A e \in Envelopes : Row(e).seq = e.seq  BY DEF Row
    <3>2. QED  BY <3>1, EnvelopeParts DEF AnyRow
  <2> HIDE DEF soFar
  <2>2. QED  BY <1>14, <2>1, SortedPagesFacts
<1> HIDE DEF soFar
<1>16. Len(PagedAnswer.anchors) = Len(a.anchors) + Len(rows)  BY <1>13, <1>14, <1>15
<1>17. Len(PagedAnswer.conflicts) = Len(a.conflicts) + Len(competing)
  BY <1>7, <1>12, <1>13, ConcatProperties
<1>18. /\ Len(PagedAnswer.anchors) = Lesser(skip + PageSize, Cardinality(RowsOf(s)))
       /\ Len(PagedAnswer.conflicts) = Lesser(skip + PageSize, Cardinality(ConflictIds(s)))
       /\ PagedAnswer.malformed = Lesser(skip + PageSize, Cardinality(malformed))
  BY <1>2, <1>8, <1>9, <1>10, <1>11, <1>13, <1>16, <1>17
<1>19. ~MorePages => ~PageFull(rows) /\ ~PageFull(competing) /\ ~PageFull(rejected)
  BY <1>5 DEF MorePages
<1>20. QED  BY <1>2, <1>8, <1>9, <1>10, <1>18, <1>19 DEF HalfAnswer, Counts

LEMMA AnswerNow ==
  ASSUME AnswerInv, audit # NoAudit
  PROVE  /\ AnswerTyped(audit.answer)
         /\ audit.step = "loading" /\ audit.skip = 0 => audit.answer = NoAnswer
         /\ audit.skip > 0 => audit.source = "unpinned"
<1>1. PICK a, s, source, step, skip, since, until, exit :
        /\ Shows(a, s, source, step, skip, since, until, exit)
        /\ AnswerOK(a, s, source, step, skip, since, until, exit)
  BY DEF AnswerInv
<1>2. QED  BY <1>1 DEF Shows, AnswerOK

LEMMA TablesStay ==
  ASSUME UNCHANGED indexVars, NEW a, NEW s, NEW skip, HalfAnswer(a, s, skip)
  PROVE  HalfAnswer(a, s, skip)'
<1>1. /\ RowsOf(s)' = RowsOf(s) /\ ConflictIds(s)' = ConflictIds(s) /\ malformed' = malformed
  BY DEF indexVars, RowsOf, RowAt, PositionsOf, ConflictIds
<1>2. QED  BY <1>1 DEF HalfAnswer, Counts

\* What everyone else does meanwhile: the blocks asked for stay as they are, and
\* if the tables move on, the first request is of an earlier moment.
LEMMA MomentStays ==
  ASSUME AuditBase, AuditBase', Serial, Serial', [WriterNext]_allVars,
         NEW a, NEW s, NEW step, NEW skip \in Nat, NEW since \in Nat, NEW until \in Nat,
         NEW scanned, NEW exit, NEW verdict,
         until <= HeadTx, step = "loading" /\ skip > 0 => since <= indexed,
         MomentOK(a, s, step, skip, since, until, scanned, exit, verdict)
  PROVE  MomentOK(a, s, step, skip, since, until, scanned, exit, verdict)'
<1>1. /\ IndexInv /\ IndexInv' /\ WriterInv /\ WriterInv' /\ Step
  BY WriterStepIsIndexStep DEF AuditBase, WriterInv
<1>2. CallsStay /\ indexed <= indexed'  BY <1>1, WriterStepAdvances
<1>3. /\ AnchoredRows(s, until)' = AnchoredRows(s, until)
      /\ UndecodableBy(until)' = UndecodableBy(until)
      /\ Settled(s, until)' <=> Settled(s, until)
  BY <1>1, <1>2, PastStays
<1>4. ASSUME step = "loading", skip > 0, since = indexed'
      PROVE  HalfAnswer(a, s, skip)'
  <2>1. indexed \in Nat /\ indexed' \in Nat
    <3>1. IndexInv' => ReachedOK'  BY ReachedFacts, PTL
    <3>2. QED  BY <1>1, <3>1, ReachedFacts DEF ReachedOK
  <2>2. since = indexed /\ indexed' = indexed  BY <1>2, <1>4, <2>1
  <2>3. UNCHANGED indexVars
    BY <1>1, <2>1, <2>2 DEF Step, ChainGrows, IndexNext, indexVars, vars
  <2>4. HalfAnswer(a, s, skip)  BY <1>4, <2>2 DEF MomentOK
  <2>5. QED  BY <2>3, <2>4, TablesStay
<1>5. WholeAnswer(a, s, until)' <=> WholeAnswer(a, s, until)
  BY <1>3 DEF WholeAnswer, Counts
<1>6. QED  BY <1>3, <1>4, <1>5 DEF MomentOK

\* The steps that read, each with what they leave.
LEMMA MomentReads ==
  ASSUME AuditBase, Serial, Mode = "HONEST", "internal" \notin CallKinds, ScanFrom = "0",
         AnswerInv, audit # NoAudit, VerifyTyped,
         NEW s, NEW verdict, s = audit.bundle.stream,
         audit.step = "loading" /\ audit.skip > 0 /\ audit.since = indexed
           => HalfAnswer(audit.answer, s, audit.skip)
  PROVE  /\ Pages => MomentOK(PagedAnswer, s, IF MorePages THEN "loading" ELSE "loaded",
                              audit.skip + PageSize, FirstRequest, ReachedBlock, ReachedBlock,
                              audit.exit, verdict)
         /\ Pins => MomentOK(Now, s, "loaded", audit.skip, ReachedBlock, ReachedBlock, ReachedBlock,
                             audit.exit, verdict)
         /\ ReadsChain => MomentOK(Scan(s, FromBlock, HeadTx), s, "loaded", audit.skip,
                                   HeadTx, HeadTx, HeadTx, audit.exit, verdict)
<1>1. /\ IndexInv /\ audit.skip \in Nat /\ AnswerTyped(audit.answer)
      /\ audit.step = "loading" /\ audit.skip = 0 => audit.answer = NoAnswer
  BY AnswerNow DEF AuditBase, WriterInv, VerifyTyped
<1>2. ReachedBlock = indexed /\ HeadTx \in Nat
  BY <1>1, SerialFacts, ReachedFacts DEF ReachedOK
<1>3. Settled(s, indexed) =>
        /\ Cardinality(RowsOf(s)) = Cardinality(AnchoredRows(s, indexed))
        /\ Cardinality(ConflictIds(s)) = 0
        /\ Cardinality(malformed) = Cardinality(UndecodableBy(indexed))
  BY <1>1, SettledIndex, FS_EmptySet
<1>4. ASSUME Pages
      PROVE  MomentOK(PagedAnswer, s, IF MorePages THEN "loading" ELSE "loaded",
                      audit.skip + PageSize, FirstRequest, ReachedBlock, ReachedBlock,
                      audit.exit, verdict)
  <2>1. audit.step = "loading"  BY <1>4 DEF Pages
  <2>2. ASSUME FirstRequest = indexed
        PROVE  HalfAnswer(audit.answer, s, audit.skip)
    <3>1. CASE audit.skip = 0
      <4>1. Counts(NoAnswer, 0, 0, 0)  BY DEF Counts, NoAnswer
      <4>2. /\ Cardinality(RowsOf(s)) \in Nat /\ Cardinality(ConflictIds(s)) \in Nat
            /\ Cardinality(malformed) \in Nat
        <5>1. AnswerTyped(Now)  BY <1>1, NowFacts
        <5>2. Now.malformed = Cardinality(malformed)  BY <1>1, NowFacts
        <5>3. IsFiniteSet(RowsOf(s)) /\ IsFiniteSet(ConflictIds(s))
          BY <1>1, TablesAreFinite DEF TablesFinite
        <5>4. QED  BY <5>1, <5>2, <5>3, FS_CardinalityType DEF AnswerTyped
      <4>3. \A n \in Nat : Lesser(0, n) = 0  BY DEF Lesser
      <4>4. QED  BY <1>1, <2>1, <3>1, <4>1, <4>2, <4>3 DEF HalfAnswer
    <3>2. CASE audit.skip > 0
      BY <2>1, <2>2, <3>2 DEF FirstRequest
    <3>3. QED  BY <1>1, <3>1, <3>2
  <2>3. ASSUME FirstRequest = indexed
        PROVE  /\ HalfAnswer(PagedAnswer, s, audit.skip + PageSize)
               /\ ~MorePages => Counts(PagedAnswer, Cardinality(RowsOf(s)), Cardinality(ConflictIds(s)),
                                       Cardinality(malformed))
    BY <1>1, <2>2, <2>3, PageCounts
  <2>4. ASSUME FirstRequest = indexed, Settled(s, indexed), ~MorePages
        PROVE  WholeAnswer(PagedAnswer, s, indexed)
    BY <1>3, <2>3, <2>4 DEF WholeAnswer
  <2>5. PICK more, b, first : more = MorePages /\ b = PagedAnswer /\ first = FirstRequest
    OBVIOUS
  <2>6. /\ first = indexed => HalfAnswer(b, s, audit.skip + PageSize)
        /\ first = indexed /\ Settled(s, indexed) /\ ~more => WholeAnswer(b, s, indexed)
    BY <2>3, <2>4, <2>5
  <2>7. MomentOK(b, s, IF more THEN "loading" ELSE "loaded", audit.skip + PageSize, first,
                 indexed, indexed, audit.exit, verdict)
    BY <2>6 DEF MomentOK
  <2>8. QED  BY <1>2, <2>5, <2>7
<1>5. ASSUME Pins
      PROVE  MomentOK(Now, s, "loaded", audit.skip, ReachedBlock, ReachedBlock, ReachedBlock,
                      audit.exit, verdict)
  <2>1. /\ Len(Now.anchors) = Cardinality(RowsOf(s))
        /\ Len(Now.conflicts) = Cardinality(ConflictIds(s))
        /\ Now.malformed = Cardinality(malformed)
    BY <1>1, NowFacts
  <2>2. Settled(s, indexed) => WholeAnswer(Now, s, indexed)
    BY <1>3, <2>1 DEF WholeAnswer, Counts
  <2>3. QED  BY <1>2, <2>2 DEF MomentOK
<1>6. ASSUME ReadsChain
      PROVE  MomentOK(Scan(s, FromBlock, HeadTx), s, "loaded", audit.skip,
                      HeadTx, HeadTx, HeadTx, audit.exit, verdict)
  <2>1. FromBlock = 0  BY DEF FromBlock
  <2>2. PICK to : to = HeadTx  OBVIOUS
  <2>3. Settled(s, to) => WholeAnswer(Scan(s, 0, to), s, to)
    BY <1>1, <1>2, <2>2, SettledScan DEF SettledFound
  <2>4. PICK b : b = Scan(s, 0, to)  OBVIOUS
  <2>5. MomentOK(b, s, "loaded", audit.skip, to, to, to, audit.exit, verdict)
    BY <2>3, <2>4 DEF MomentOK
  <2>6. QED  BY <2>1, <2>2, <2>4, <2>5
<1>7. QED  BY <1>4, <1>5, <1>6

\* Over a settled stretch the cross-check finds no difference.
LEMMA CrossCheckAgrees ==
  ASSUME AuditBase, Serial, "internal" \notin CallKinds, ScanFrom = "0", AnswerInv,
         audit # NoAudit, VerifyTyped, audit.step = "loaded", audit.since = audit.until,
         NEW s, NEW to, s = audit.bundle.stream, to = audit.until,
         Settled(s, to), WholeAnswer(audit.answer, s, to)
  PROVE  CompareIndexes(audit.answer, Scan(s, FromBlock, to)) = {}
<1> DEFINE R == AnchoredRows(s, to)
<1>1. FromBlock = 0 /\ IndexInv /\ TypeOK /\ to \in Nat
  BY DEF FromBlock, AuditBase, WriterInv, IndexInv, VerifyTyped
<1>2. PICK a, b : a = audit.answer /\ b = Scan(s, 0, to)  OBVIOUS
<1>3. /\ WholeAnswer(b, s, to) /\ b.anchors \in Seq(R) /\ RowsIn(b) = R
  BY <1>1, <1>2, SettledScan DEF SettledFound
<1>4. RowsIn(a) = R /\ a.anchors \in Seq(AnyRow)
  <2>1. PICK source, skip, exit : AnswerOK(a, s, source, "loaded", skip, to, to, exit)
    BY <1>2 DEF AnswerInv, Shows
  <2>2. Len(a.conflicts) = 0  BY <1>2 DEF WholeAnswer, Counts
  <2>3. RowsIn(a) = R  BY <2>1, <2>2, SettledAnswer
  <2>4. QED  BY <2>1, <2>3 DEF AnswerOK, AnswerTyped
<1>5. OneRowEach(R)  BY <1>1, AnchoredRowsFacts DEF Settled
<1> HIDE DEF R
<1>6. a.anchors \in Seq(R)
  <2>1. a.anchors \in [1 .. Len(a.anchors) -> AnyRow] /\ Len(a.anchors) \in Nat  BY <1>4
  <2>2. \A n \in 1 .. Len(a.anchors) : a.anchors[n] \in R  BY <1>4, <2>1 DEF RowsIn, Range
  <2>3. a.anchors \in [1 .. Len(a.anchors) -> R]  BY <2>1, <2>2
  <2>4. QED  BY <2>1, <2>3
<1>7. Len(a.conflicts) = Len(b.conflicts) /\ a.malformed = b.malformed
  BY <1>2, <1>3 DEF WholeAnswer, Counts
<1>8. CompareIndexes(a, b) = {}  BY <1>3, <1>4, <1>5, <1>6, <1>7, NoDifference
<1>9. QED  BY <1>1, <1>2, <1>8

LEMMA VerifyKeepsMoment ==
  ASSUME AuditBase, AuditBase', Serial, Serial', AnswerInv, AnswerInv', MomentInv,
         Mode = "HONEST", "internal" \notin CallKinds, ScanFrom = "0", Verify
  PROVE  MomentInv'
<1>1. UNCHANGED allVars /\ VerifyTyped'
  BY VerifySteps, VerifyKeepsTypes DEF AuditBase
<1>2. /\ [WriterNext]_allVars /\ HeadTx' = HeadTx /\ ReachedBlock' = ReachedBlock
      /\ IndexInv /\ indexed \in Nat /\ ReachedBlock = indexed
  BY <1>1, SerialFacts, ReachedFacts
  DEF allVars, HeadTx, ReachedBlock, AuditBase, WriterInv, ReachedOK
<1>3. ASSUME NEW a, NEW s, NEW step, NEW skip, NEW since, NEW until, NEW scanned, NEW exit,
             NEW verdict, verdict = Verdict',
             audit'.answer = a, audit'.bundle.stream = s, audit'.step = step, audit'.skip = skip,
             audit'.since = since, audit'.until = until, audit'.scanned = scanned,
             audit'.exit = exit, audit' # NoAudit,
             MomentOK(a, s, step, skip, since, until, scanned, exit, verdict)
      PROVE  MomentInv'
  <2>1. ShowsAll(a, s, step, skip, since, until, scanned, exit, verdict)'
    BY <1>3 DEF ShowsAll
  <2>2. /\ skip \in Nat /\ since \in Nat /\ until \in Nat /\ until <= HeadTx /\ since <= until
        /\ audit'.source # "chain" => until <= ReachedBlock
    BY <1>1, <1>2, <1>3 DEF VerifyTyped
  <2>3. step = "loading" /\ skip > 0 => since <= indexed
    <3>1. AnswerInv' /\ (audit # NoAudit)' => (audit.skip > 0 => audit.source = "unpinned")'
      BY AnswerNow, PTL
    <3>2. skip > 0 => audit'.source # "chain"  BY <1>3, <3>1
    <3>3. QED  BY <1>2, <2>2, <3>2
  <2>4. MomentOK(a, s, step, skip, since, until, scanned, exit, verdict)'
    BY <1>2, <1>3, <2>2, <2>3, MomentStays
  <2>5. QED  BY <2>1, <2>4 DEF MomentInv
<1>4. audit' # NoAudit
  BY <1>1 DEF VerifyTyped, AuditFields, NoAudit
<1>5. CASE Starts
  <2>1. PICK source \in Sources, crossCheck \in BOOLEAN :
          AuditIs(audit', "loading", disclosure, source, crossCheck, NoAnswer, 0, 0, 0, 0, "none")
    BY <1>5 DEF Starts
  <2>2. PICK verdict : verdict = Verdict'  OBVIOUS
  <2>3. PICK s : s = audit'.bundle.stream  OBVIOUS
  <2>4. MomentOK(NoAnswer, s, "loading", 0, 0, 0, 0, "none", verdict)
    BY DEF MomentOK
  <2>5. QED  BY <1>3, <1>4, <2>1, <2>2, <2>3, <2>4 DEF AuditIs
<1>6. ASSUME audit # NoAudit, VerifyTyped,
             Pages \/ Pins \/ ReadsChain \/ Fails \/ Concludes \/ CrossChecks
      PROVE  MomentInv'
  <2>1. PICK a, s, step, skip, since, until, scanned, exit, verdict :
          /\ ShowsAll(a, s, step, skip, since, until, scanned, exit, verdict)
          /\ MomentOK(a, s, step, skip, since, until, scanned, exit, verdict)
    BY <1>6 DEF MomentInv
  <2>2. /\ a = audit.answer /\ s = audit.bundle.stream
        /\ step = audit.step /\ skip = audit.skip /\ since = audit.since /\ until = audit.until
        /\ exit = audit.exit /\ verdict = Verdict
    BY <2>1 DEF ShowsAll
  <2>3. step = "loading" /\ skip > 0 /\ since = indexed => HalfAnswer(a, s, skip)
    BY <2>1 DEF MomentOK
  <2>4. PICK v : v = Verdict'  OBVIOUS
  <2>5. /\ Pages => MomentOK(PagedAnswer, s, IF MorePages THEN "loading" ELSE "loaded",
                              skip + PageSize, FirstRequest, ReachedBlock, ReachedBlock, exit, v)
        /\ Pins => MomentOK(Now, s, "loaded", skip, ReachedBlock, ReachedBlock, ReachedBlock,
                             exit, v)
        /\ ReadsChain => MomentOK(Scan(s, FromBlock, HeadTx), s, "loaded", skip,
                                   HeadTx, HeadTx, HeadTx, exit, v)
    BY <1>6, <2>2, <2>3, MomentReads
  <2>6. CASE Pages
    <3>1. PICK b, st, sk, si, un :
            /\ b = PagedAnswer /\ st = (IF MorePages THEN "loading" ELSE "loaded")
            /\ sk = skip + PageSize /\ si = FirstRequest /\ un = ReachedBlock
      OBVIOUS
    <3>2. AuditIs(audit', st, audit.bundle, audit.source, audit.crossCheck, b, sk, si, un, un, exit)
      BY <2>2, <2>6, <3>1 DEF Pages
    <3>3. MomentOK(b, s, st, sk, si, un, un, exit, v)  BY <2>5, <2>6, <3>1
    <3>4. QED  BY <1>3, <1>4, <2>2, <2>4, <3>2, <3>3 DEF AuditIs
  <2>7. CASE Pins \/ ReadsChain
    <3>1. PICK b, un :
            /\ AuditIs(audit', "loaded", audit.bundle, audit.source, audit.crossCheck, b,
                       skip, un, un, un, exit)
            /\ MomentOK(b, s, "loaded", skip, un, un, un, exit, v)
      BY <2>2, <2>5, <2>7 DEF Pins, ReadsChain
    <3>2. QED  BY <1>3, <1>4, <2>2, <2>4, <3>1 DEF AuditIs
  <2>8. CASE Fails \/ Concludes \/ CrossChecks
    <3>1. ASSUME step = "loaded", since = until, Settled(s, until)
          PROVE  CompareIndexes(a, Scan(s, FromBlock, until)) = {}
      <4>1. exit = "none"  BY <1>6, <2>2, <3>1 DEF VerifyTyped
      <4>2. WholeAnswer(a, s, until)  BY <2>1, <3>1, <4>1 DEF MomentOK
      <4>3. QED  BY <1>6, <2>2, <3>1, <4>2, CrossCheckAgrees
    <3>2. PICK to, code :
            /\ Ends(to, code)
            /\ code # "USAGE" => step = "loaded"
            /\ code = "USAGE" \/ code = verdict
                 \/ CompareIndexes(a, Scan(s, FromBlock, to)) # {}
      BY <2>2, <2>8 DEF Fails, Concludes, CrossChecks
    <3>3. AuditIs(audit', "done", audit.bundle, audit.source, audit.crossCheck, a, skip, since, until,
                  to, code)
      BY <2>2, <3>2 DEF Ends
    <3>4. v = verdict  BY <2>2, <2>4, <3>3, SameVerdict DEF AuditIs
    <3>5. code # "USAGE" /\ since = until /\ Settled(s, until) => WholeAnswer(a, s, until)
      <4>1. step = "loaded" => exit = "none"  BY <1>6, <2>2 DEF VerifyTyped
      <4>2. QED  BY <2>1, <3>2, <4>1 DEF MomentOK
    <3>6. code # "USAGE" /\ since = until /\ until = to /\ Settled(s, until) => code = v
      BY <3>1, <3>2, <3>4
    <3>7. MomentOK(a, s, "done", skip, since, until, to, code, v)
      BY <3>5, <3>6 DEF MomentOK
    <3>8. QED  BY <1>3, <1>4, <2>2, <2>4, <3>3, <3>7 DEF AuditIs
  <2>9. QED  BY <1>6, <2>6, <2>7, <2>8
<1>7. QED  BY <1>5, <1>6, VerifySteps DEF AuditBase

LEMMA OthersKeepMoment ==
  ASSUME AuditBase, AuditBase', Serial, Serial', AnswerInv, MomentInv, [WriterNext]_allVars,
         UNCHANGED audit
  PROVE  MomentInv'
<1>1. CASE audit = NoAudit
  BY <1>1 DEF MomentInv
<1>2. CASE audit # NoAudit
  <2>1. VerifyTyped  BY <1>2 DEF AuditBase, VerifyInv
  <2>2. PICK a, s, step, skip, since, until, scanned, exit, verdict :
          /\ ShowsAll(a, s, step, skip, since, until, scanned, exit, verdict)
          /\ MomentOK(a, s, step, skip, since, until, scanned, exit, verdict)
    BY <1>2 DEF MomentInv
  <2>3. skip = audit.skip /\ since = audit.since /\ until = audit.until /\ step = audit.step
    BY <2>2 DEF ShowsAll
  <2>4. ReachedBlock = indexed  BY SerialFacts DEF AuditBase, WriterInv
  <2>5. /\ skip \in Nat /\ since \in Nat /\ until \in Nat /\ until <= HeadTx /\ since <= until
        /\ audit.source # "chain" => until <= indexed
        /\ skip > 0 => audit.source = "unpinned"
    BY <1>2, <2>1, <2>3, <2>4, AnswerNow DEF VerifyTyped
  <2>6. indexed \in Nat  BY ReachedFacts DEF AuditBase, WriterInv, ReachedOK
  <2>7. MomentOK(a, s, step, skip, since, until, scanned, exit, verdict)'
    BY <2>2, <2>5, <2>6, MomentStays
  <2>8. Verdict' = Verdict  BY SameVerdict
  <2>9. ShowsAll(a, s, step, skip, since, until, scanned, exit, verdict)'
    BY <2>2, <2>8 DEF ShowsAll
  <2>10. QED  BY <2>7, <2>9 DEF MomentInv
<1>3. QED  BY <1>1, <1>2

-----------------------------------------------------------------------------
(* The files of an owner who never edits, and the audit of one of them. *)

\* The file is of the one stream and the one records file, and if it says
\* submitted its records were posted within its blocks.
OwnFile(f) ==
  changes = 0 /\ f # NoFile =>
    /\ f.stream = keystore /\ f.recs = records
    /\ f.submitted =>
         \A k \in 0 .. (Len(f.recs) - 1) : \E i \in DOMAIN calls :
           Posted(i, f.stream, f.recs, k, f.startBlock, f.endBlock)

FilesInv ==
  OwnFile(archive) /\ OwnFile(disclosure) /\ (audit # NoAudit => OwnFile(audit.bundle))

LEMMA OwnersKeep ==
  ASSUME WriterInv, [WriterNext]_allVars
  PROVE  /\ changes' = 0 => changes = 0 /\ keystore' = keystore /\ records' = records
         /\ CallsStay
<1>1. changes \in Nat  BY DEF WriterInv, TypedInv
<1>2. EditRecords \/ InitKeystore => changes' # 0
  BY <1>1 DEF EditRecords, InitKeystore
<1>3. EditRecords \/ InitKeystore \/ UNCHANGED <<keystore, records, changes>>
  BY DEF WriterNext, StartPost, DryRun, Submit, ReceiptSucceeds, ReceiptFails, FinishPost, Crash,
      MineWriterTx, RevertWriterTx, EvictWriterTx, ForeignPost, Index, Disclose, ownerVars, allVars
<1>4. CallsStay
  BY WriterStepIsIndexStep, StepKeepsCalls DEF WriterInv, IndexInv
<1>5. QED  BY <1>2, <1>3, <1>4

LEMMA OwnFileStays ==
  ASSUME WriterInv, [WriterNext]_allVars, NEW f, OwnFile(f)
  PROVE  OwnFile(f)'
<1>1. SUFFICES ASSUME changes' = 0, f # NoFile
               PROVE  /\ f.stream = keystore' /\ f.recs = records'
                      /\ f.submitted =>
                           \A k \in 0 .. (Len(f.recs) - 1) : \E i \in DOMAIN calls' :
                             Posted(i, f.stream, f.recs, k, f.startBlock, f.endBlock)'
  BY DEF OwnFile
<1>2. changes = 0 /\ keystore' = keystore /\ records' = records /\ CallsStay
  BY <1>1, OwnersKeep
<1>3. f.stream = keystore /\ f.recs = records
  BY <1>1, <1>2 DEF OwnFile
<1>4. ASSUME f.submitted, NEW k \in 0 .. (Len(f.recs) - 1)
      PROVE  \E i \in DOMAIN calls' : Posted(i, f.stream, f.recs, k, f.startBlock, f.endBlock)'
  <2>1. PICK i \in DOMAIN calls : Posted(i, f.stream, f.recs, k, f.startBlock, f.endBlock)
    BY <1>1, <1>2, <1>4 DEF OwnFile
  <2>2. PICK s, r, start, end : /\ s = f.stream /\ r = f.recs
                                /\ start = f.startBlock /\ end = f.endBlock
    OBVIOUS
  <2>3. i \in DOMAIN calls' /\ Posted(i, s, r, k, start, end)'  BY <1>2, <2>1, <2>2, PostedStays
  <2>4. QED  BY <2>2, <2>3
<1>5. QED  BY <1>2, <1>3, <1>4

LEMMA WriterKeepsFiles ==
  ASSUME WriterInv, WriterInv', [WriterNext]_allVars, OwnFile(archive), OwnFile(disclosure)
  PROVE  OwnFile(archive)' /\ OwnFile(disclosure)'
<1>1. changes' = 0 => changes = 0 /\ keystore' = keystore /\ records' = records
  BY OwnersKeep
<1>2. OwnFile(archive)'
  <2>1. PICK f : f = archive  OBVIOUS
  <2>2. CASE archive' = archive
    BY <2>1, <2>2, OwnFileStays DEF OwnFile
  <2>3. ASSUME DryRun \/ FinishPost, changes' = 0
        PROVE  archive'.stream = keystore' /\ archive'.recs = records'
    <3>1. CASE DryRun
      BY <1>1, <2>3, <3>1 DEF DryRun, ArchiveOf
    <3>2. CASE FinishPost
      <4>1. writer # Idle  BY <3>2 DEF FinishPost, Idle
      <4>2. writer.stream = keystore /\ writer.recs = records
        BY <1>1, <2>3, <4>1 DEF WriterInv, OwnInv
      <4>3. QED  BY <1>1, <2>3, <3>2, <4>2 DEF FinishPost, ArchiveOf
    <3>3. QED  BY <2>3, <3>1, <3>2
  <2>4. ArchiveInv'  BY DEF WriterInv
  <2>5. CASE DryRun \/ FinishPost
    <3>1. SUFFICES ASSUME changes' = 0, archive' # NoFile
                   PROVE  /\ archive'.stream = keystore' /\ archive'.recs = records'
                          /\ archive'.submitted =>
                               \A k \in 0 .. (Len(archive'.recs) - 1) : \E i \in DOMAIN calls' :
                                 Posted(i, archive.stream, archive.recs, k, archive.startBlock,
                                        archive.endBlock)'
      BY DEF OwnFile
    <3>2. archive'.stream = keystore' /\ archive'.recs = records'  BY <2>3, <2>5, <3>1
    <3>3. archive'.submitted =>
            \A k \in 0 .. (Len(archive'.recs) - 1) : \E i \in DOMAIN calls' :
              Posted(i, archive.stream, archive.recs, k, archive.startBlock, archive.endBlock)'
      BY <2>4 DEF ArchiveInv
    <3>4. QED  BY <3>2, <3>3
  <2>6. QED
    BY <2>2, <2>5
    DEF WriterNext, StartPost, Submit, ReceiptSucceeds, ReceiptFails, Crash, MineWriterTx,
        RevertWriterTx, EvictWriterTx, ForeignPost, Index, EditRecords, InitKeystore, Disclose,
        ownerVars, allVars
<1>3. OwnFile(disclosure)'
  <2>1. CASE disclosure' = disclosure
    <3>1. PICK f : f = disclosure  OBVIOUS
    <3>2. OwnFile(f)'  BY <3>1, OwnFileStays
    <3>3. QED  BY <2>1, <3>1, <3>2 DEF OwnFile
  <2>2. CASE Disclose
    <3>1. PICK f : f = ArchiveOf(keystore, records, archive.submitted, archive.startBlock, archive.endBlock)
      OBVIOUS
    <3>2. disclosure' = f /\ archive # NoFile  BY <2>2, <3>1 DEF Disclose
    <3>3. /\ f.stream = keystore /\ f.recs = records /\ f.submitted = archive.submitted
          /\ f.startBlock = archive.startBlock /\ f.endBlock = archive.endBlock
      BY <3>1 DEF ArchiveOf
    <3>4. OwnFile(f)
      <4>1. changes = 0 => archive.stream = f.stream /\ archive.recs = f.recs
        BY <3>2, <3>3 DEF OwnFile
      <4>2. QED  BY <3>2, <3>3, <4>1 DEF OwnFile
    <3>5. OwnFile(f)'  BY <3>4, OwnFileStays
    <3>6. QED  BY <3>2, <3>5 DEF OwnFile
  <2>3. QED
    BY <2>1, <2>2
    DEF WriterNext, StartPost, DryRun, Submit, ReceiptSucceeds, ReceiptFails, FinishPost, Crash,
        MineWriterTx, RevertWriterTx, EvictWriterTx, ForeignPost, Index, EditRecords, InitKeystore,
        ownerVars, allVars
<1>4. QED  BY <1>2, <1>3

LEMMA FilesInvInductive ==
  ASSUME AuditBase, AuditBase', [AuditNext]_auditVars, FilesInv
  PROVE  FilesInv'
<1>1. WriterInv /\ WriterInv' /\ OwnFile(archive) /\ OwnFile(disclosure)  BY DEF AuditBase, FilesInv
<1>2. CASE Verify
  <2>1. UNCHANGED allVars  BY <1>2, VerifySteps DEF AuditBase
  <2>2. [WriterNext]_allVars  BY <2>1
  <2>3. OwnFile(archive)' /\ OwnFile(disclosure)'  BY <1>1, <2>2, WriterKeepsFiles
  <2>4. PICK f : f = audit'.bundle  OBVIOUS
  <2>5. OwnFile(f)
    <3>1. CASE Starts
      <4>1. f = disclosure  BY <2>4, <3>1 DEF Starts, AuditIs
      <4>2. QED  BY <1>1, <4>1
    <3>2. ASSUME audit # NoAudit, Pages \/ Pins \/ ReadsChain \/ Fails \/ Concludes \/ CrossChecks
          PROVE  OwnFile(f)
      <4>1. f = audit.bundle
        BY <2>4, <3>2 DEF Pages, Pins, ReadsChain, Fails, Concludes, CrossChecks, Ends, AuditIs
      <4>2. QED  BY <3>2, <4>1 DEF FilesInv
    <3>3. QED  BY <1>2, <3>1, <3>2, VerifySteps DEF AuditBase
  <2>6. OwnFile(f)'  BY <1>1, <2>2, <2>5, OwnFileStays
  <2>7. OwnFile(audit.bundle)'  BY <2>4, <2>6 DEF OwnFile
  <2>8. QED  BY <2>3, <2>7 DEF FilesInv
<1>3. CASE [WriterNext]_allVars /\ UNCHANGED audit
  <2>1. OwnFile(archive)' /\ OwnFile(disclosure)'  BY <1>1, <1>3, WriterKeepsFiles
  <2>2. ASSUME audit # NoAudit PROVE OwnFile(audit.bundle)'
    <3>1. PICK f : f = audit.bundle  OBVIOUS
    <3>2. OwnFile(f)'  BY <1>1, <1>3, <2>2, <3>1, OwnFileStays DEF FilesInv
    <3>3. QED  BY <1>3, <3>1, <3>2 DEF OwnFile
  <2>3. QED  BY <1>3, <2>1, <2>2 DEF FilesInv
<1>4. QED  BY <1>2, <1>3 DEF AuditNext, auditVars

HonestInv == PassInv /\ MomentInv /\ FilesInv

LEMMA HonestInvInvariant ==
  ASSUME Mode = "HONEST", "internal" \notin CallKinds, ScanFrom = "0"
  PROVE  AuditSpec => []HonestInv
<1>1. AuditInit => MomentInv /\ FilesInv
  BY DEF AuditInit, WriterInit, MomentInv, FilesInv, OwnFile
<1>2. PassInv /\ PassInv' /\ MomentInv /\ FilesInv /\ [AuditNext]_auditVars => MomentInv' /\ FilesInv'
  <2> SUFFICES ASSUME PassInv, PassInv', MomentInv, FilesInv, [AuditNext]_auditVars
               PROVE  MomentInv' /\ FilesInv'
    OBVIOUS
  <2>1. /\ AuditBase /\ AuditBase' /\ Serial /\ Serial' /\ AnswerInv /\ AnswerInv'
    BY DEF PassInv
  <2>2. CASE Verify
    BY <2>1, <2>2, VerifyKeepsMoment, FilesInvInductive
  <2>3. CASE [WriterNext]_allVars /\ UNCHANGED audit
    BY <2>1, <2>3, OthersKeepMoment, FilesInvInductive
  <2>4. QED  BY <2>2, <2>3 DEF AuditNext, auditVars
<1>3. FullScans  BY DEF FullScans
<1>4. AuditSpec => []PassInv  BY <1>3, PassInvInvariant
<1>5. QED  BY <1>1, <1>2, <1>4, PTL DEF AuditSpec, HonestInv

LEMMA DisclosedCount ==
  ASSUME audit.bundle.stream \in StreamIds, audit.bundle.recs \in RecordFiles
  PROVE  Cardinality(DisclosedRows) = Len(audit.bundle.recs)
<1> DEFINE N == Len(audit.bundle.recs)
           a == Anchors(audit.bundle.stream, audit.bundle.recs)
           f == [k \in 1 .. N |-> Row(a[k])]
<1>1. N \in Nat  BY RecordsFacts
<1>2. \A k \in 1 .. N : Row(a[k]).seq = k - 1  BY AnchorParts DEF Row
<1>3. DisclosedRows = {Row(a[k]) : k \in 1 .. N}  BY DEF DisclosedRows
<1> HIDE DEF N, a
<1>4. \A j, k \in 1 .. N : Row(a[j]) = Row(a[k]) => j = k
  <2> SUFFICES ASSUME NEW j \in 1 .. N, NEW k \in 1 .. N, Row(a[j]) = Row(a[k]) PROVE j = k
    OBVIOUS
  <2>1. j - 1 = k - 1  BY <1>2
  <2>2. QED  BY <1>1, <2>1
<1>5. f \in Bijection(1 .. N, DisclosedRows)
  BY <1>3, <1>4 DEF Bijection, Injection, IsInjective, Surjection
<1>6. IsFiniteSet(1 .. N) /\ Cardinality(1 .. N) = N  BY <1>1, FS_Interval
<1> HIDE DEF f
<1>7. QED  BY <1>5, <1>6, FS_Bijection DEF ExistsBijection, N

\* An owner who never edits and whose archive says submitted passes every audit
\* of one moment of a stream nobody else posted to, from the archive's last
\* block on: not a rerun, a duplicate, a late transaction, the paging or the
\* cross-check raises a false alarm (cli.ts cmdPost, cmdDisclose, cmdVerify).
THEOREM HonestOwnerAlwaysPasses ==
  ASSUME Mode = "HONEST", "internal" \notin CallKinds, ScanFrom = "0"
  PROVE  AuditSpec => []HonestOwnerPasses
<1>1. ASSUME HonestInv, audit.step = "done", audit.exit # "USAGE",
             changes = 0, audit.bundle.submitted, ~ForeignOn(audit.bundle.stream),
             audit.since = audit.until, audit.until = audit.scanned,
             audit.until >= audit.bundle.endBlock, NothingReverted(audit.until)
      PROVE  audit.exit = "OK"
  <2>1. /\ VerifyTyped /\ audit # NoAudit /\ WriterInv /\ IndexInv /\ TypeOK /\ Serial
        /\ AnswerInv /\ MomentInv /\ FilesInv
    <3>1. audit # NoAudit  BY <1>1 DEF NoAudit
    <3>2. QED  BY <1>1, <3>1 DEF HonestInv, PassInv, AuditBase, VerifyInv, WriterInv, IndexInv
  <2>2. PICK s, recs, block :
          s = audit.bundle.stream /\ recs = audit.bundle.recs /\ block = audit.until
    OBVIOUS
  <2>3. /\ s \in StreamIds /\ recs \in RecordFiles /\ Len(recs) \in Nat
        /\ block \in Nat /\ audit.bundle.endBlock \in Nat /\ audit.bundle.endBlock <= block
    BY <1>1, <2>1, <2>2, RecordsFacts DEF VerifyTyped, FileOK
  <2>4. OwnFile(audit.bundle) /\ audit.bundle # NoFile  BY <2>1 DEF FilesInv, VerifyTyped
  <2>5. /\ s = keystore /\ recs = records
        /\ \A k \in 0 .. (Len(recs) - 1) : \E i \in DOMAIN calls :
             Posted(i, s, recs, k, audit.bundle.startBlock, audit.bundle.endBlock)
    BY <1>1, <2>2, <2>4 DEF OwnFile
  <2>6. ASSUME NEW k \in 1 .. Len(recs)
        PROVE  /\ Anchors(s, recs)[k] \in Envelopes
               /\ Anchors(s, recs)[k].stream = s /\ Anchors(s, recs)[k].seq = k - 1
    BY <2>3, AnchorParts
  <2>7. ASSUME NEW i \in AnchoredOn(s, block)
        PROVE  \E k \in 1 .. Len(recs) : calls[i].payload = Anchors(s, recs)[k]
    <3>1. i \in DOMAIN calls /\ calls[i].payload \in Envelopes /\ calls[i].payload.stream = s
      BY DEF AnchoredOn
    <3>2. calls[i].nonce > 0
      <4>1. calls[i].nonce \in Nat  BY <2>1, <3>1, CallsFacts
      <4>2. calls[i].nonce # 0  BY <1>1, <2>2, <3>1 DEF ForeignOn
      <4>3. QED  BY <4>1, <4>2
    <3>3. Own(calls[i].payload)  BY <1>1, <2>1, <3>1, <3>2 DEF WriterInv, OwnInv
    <3>4. QED  BY <2>5, <3>3 DEF Own
  <2>8. Settled(s, block)
    <3>1. ASSUME NEW i \in AnchoredOn(s, block), NEW j \in AnchoredOn(s, block),
                 calls[i].payload.seq = calls[j].payload.seq
          PROVE  calls[i].payload = calls[j].payload
      <4>1. PICK k \in 1 .. Len(recs) : calls[i].payload = Anchors(s, recs)[k]  BY <2>7
      <4>2. PICK l \in 1 .. Len(recs) : calls[j].payload = Anchors(s, recs)[l]  BY <2>7
      <4>3. k - 1 = l - 1  BY <2>6, <3>1, <4>1, <4>2
      <4>4. k = l  BY <2>3, <4>3
      <4>5. QED  BY <4>1, <4>2, <4>4
    <3>2. QED  BY <1>1, <2>2, <3>1 DEF Settled, Undisputed
  <2>9. WholeAnswer(audit.answer, s, block) /\ audit.exit = Verdict
    <3>1. PICK a, t, step, skip, since, until, scanned, exit, verdict :
            /\ ShowsAll(a, t, step, skip, since, until, scanned, exit, verdict)
            /\ MomentOK(a, t, step, skip, since, until, scanned, exit, verdict)
      BY <2>1 DEF MomentInv
    <3>2. /\ a = audit.answer /\ t = s /\ step = "done" /\ since = block /\ until = block
          /\ scanned = block /\ exit = audit.exit /\ verdict = Verdict
      BY <1>1, <2>2, <3>1 DEF ShowsAll
    <3>3. QED  BY <1>1, <2>8, <3>1, <3>2 DEF MomentOK
  <2>10. RowsIn(audit.answer) = AnchoredRows(s, block) /\ ConflictsIn(audit.answer) = {}
    <3>1. PICK a, t, source, step, skip, since, until, exit :
            /\ Shows(a, t, source, step, skip, since, until, exit)
            /\ AnswerOK(a, t, source, step, skip, since, until, exit)
      BY <2>1 DEF AnswerInv
    <3>2. /\ a = audit.answer /\ t = s /\ step = "done" /\ since = block /\ until = block
          /\ exit # "USAGE"
      BY <1>1, <2>2, <3>1 DEF Shows
    <3>3. AnswerOK(a, s, source, "done", skip, block, block, exit)  BY <3>1, <3>2
    <3>4. Len(a.conflicts) = 0  BY <2>9, <3>2 DEF WholeAnswer, Counts
    <3>5. QED  BY <2>8, <3>2, <3>3, <3>4, SettledAnswer
  <2>11. AnchoredRows(s, block) = DisclosedRows
    <3>1. DisclosedRows = {Row(Anchors(s, recs)[k]) : k \in 1 .. Len(recs)}
      BY <2>2 DEF DisclosedRows
    <3>2. ASSUME NEW k \in 1 .. Len(recs)
          PROVE  \E i \in AnchoredOn(s, block) : calls[i].payload = Anchors(s, recs)[k]
      <4>1. PICK m \in 0 .. (Len(recs) - 1) : m + 1 = k
        <5>1. k - 1 \in 0 .. (Len(recs) - 1) /\ (k - 1) + 1 = k  BY <2>3
        <5>2. QED  BY <5>1
      <4>2. PICK i \in DOMAIN calls :
              Posted(i, s, recs, m, audit.bundle.startBlock, audit.bundle.endBlock)
        BY <2>5
      <4>3. /\ calls[i].kind = "top" /\ calls[i].tx <= audit.bundle.endBlock
            /\ calls[i].payload = Anchors(s, recs)[k]
        BY <4>1, <4>2 DEF Posted
      <4>4. calls[i].tx \in Nat  BY <2>1, CallsFacts
      <4>5. calls[i].tx <= block  BY <2>3, <4>3, <4>4
      <4>6. i \in AnchoredOn(s, block)
        BY <2>6, <4>3, <4>5 DEF AnchoredOn, Traced
      <4>7. QED  BY <4>3, <4>6
    <3>3. QED  BY <2>7, <3>1, <3>2 DEF AnchoredRows
  <2>12. Len(audit.answer.anchors) = Len(recs)
    BY <2>2, <2>3, <2>9, <2>11, DisclosedCount DEF WholeAnswer, Counts
  <2>13. Verdict = "OK"
    BY <2>2, <2>3, <2>10, <2>11, <2>12, VerdictMeans
    DEF RowsIn, ConflictsIn, AnswerRows, AnswerConflicts
  <2>14. QED  BY <2>9, <2>13
<1>2. HonestInv => HonestOwnerPasses
  BY <1>1 DEF HonestOwnerPasses
<1>3. QED  BY <1>2, HonestInvInvariant, PTL
=============================================================================
