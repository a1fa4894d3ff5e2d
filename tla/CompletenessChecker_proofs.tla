--------------------- MODULE CompletenessChecker_proofs ---------------------
(***************************************************************************)
(* Theorems about CompletenessChecker, for every stream, every set of      *)
(* disclosures and everything a source may serve.                          *)
(***************************************************************************)
EXTENDS CompletenessChecker, TLAPS, FiniteSetTheorems, FunctionTheorems

-----------------------------------------------------------------------------
(* Numbers and finite sets. *)

LEMMA LeastNatural ==
  ASSUME NEW T \in SUBSET Nat, NEW n \in T
  PROVE  \E m \in T : \A k \in T : m <= k
<1> DEFINE Below(k) == 0 .. (k - 1)
           Low == {k \in T : k <= n}
           F == {Below(k) : k \in Low}
           R == StrictSubsetOrdering(Below(n))
<1>1. IsWellFoundedOn(R, FiniteSubsetsOf(Below(n)))
  BY FS_Interval, FS_StrictSubsetOrderingWellFounded, n - 1 \in Int
<1>2. F \subseteq FiniteSubsetsOf(Below(n))
  <2> SUFFICES ASSUME NEW k \in Low PROVE Below(k) \in FiniteSubsetsOf(Below(n))
    OBVIOUS
  <2>1. IsFiniteSet(Below(k))  BY FS_Interval, k - 1 \in Int
  <2>2. Below(k) \subseteq Below(n)  OBVIOUS
  <2> QED  BY <2>1, <2>2 DEF FiniteSubsetsOf
<1>3. n \in Low /\ F # {}  OBVIOUS
<1> HIDE DEF F, R
<1>4. PICK X \in F : \A Y \in F : ~ (<<Y, X>> \in R)
  BY <1>1, <1>2, <1>3, WFMin
<1>5. PICK m \in Low : X = Below(m)  BY DEF F
<1>6. ASSUME NEW k \in T, k < m PROVE FALSE
  <2>1. k \in Low /\ Below(k) \in F  BY <1>6 DEF F
  <2>2. Below(k) \subseteq Below(m) /\ k \in Below(m) /\ k \notin Below(k)  BY <1>6
  <2>3. Below(k) \subseteq Below(n) /\ Below(m) \subseteq Below(n)  BY <2>1
  <2>4. <<Below(k), Below(m)>> \in R  BY <2>2, <2>3 DEF R, StrictSubsetOrdering
  <2> QED  BY <1>4, <1>5, <2>1, <2>4
<1> QED  BY <1>6, <1>5

\* A finite set of naturals with no hole below any of its members.
LEMMA InitialSegment ==
  ASSUME NEW T \in SUBSET Nat, IsFiniteSet(T),
         \A t \in T : 0 .. t \subseteq T
  PROVE  T = 0 .. (Cardinality(T) - 1)
<1>1. PICK n \in Nat : n \notin T
  <2>1. Cardinality(T) \in Nat  BY FS_CardinalityType
  <2>2. IsFiniteSet(0 .. Cardinality(T)) /\ Cardinality(0 .. Cardinality(T)) = Cardinality(T) + 1
    BY <2>1, FS_Interval
  <2>3. ASSUME 0 .. Cardinality(T) \subseteq T PROVE FALSE
    BY <2>1, <2>2, <2>3, FS_Subset
  <2> QED  BY <2>1, <2>3
<1>2. PICK m \in Nat \ T : \A k \in Nat \ T : m <= k
  <2>1. Nat \ T \in SUBSET Nat /\ n \in Nat \ T  BY <1>1
  <2> QED  BY <2>1, LeastNatural
<1>3. T = 0 .. (m - 1)
  <2>1. ASSUME NEW t \in T PROVE t < m
    <3>1. m \in Nat /\ t \in Nat  BY <1>2
    <3>2. m \notin 0 .. t  BY <1>2
    <3> QED  BY <3>1, <3>2
  <2>2. ASSUME NEW k \in 0 .. (m - 1) PROVE k \in T
    BY <1>2
  <2>3. \A t \in T : t \in 0 .. (m - 1)  BY <2>1
  <2> QED  BY <2>2, <2>3
<1>4. Cardinality(T) = m  BY <1>3, FS_Interval, m - 1 \in Int
<1> QED  BY <1>3, <1>4

\* As many rows as positions: no position is served twice.
LEMMA RowsDistinct ==
  ASSUME NEW n \in Nat, NEW q \in [1 .. n -> Nat], NEW T,
         T = {q[i] : i \in 1 .. n}, Cardinality(T) = n
  PROVE  \A i, j \in 1 .. n : q[i] = q[j] => i = j
<1>1. q \in Surjection(1 .. n, T)
  <2>1. q \in [1 .. n -> T]  OBVIOUS
  <2> QED  BY <2>1 DEF Surjection
<1>2. IsFiniteSet(1 .. n) /\ Cardinality(1 .. n) = n  BY FS_Interval
<1>3. q \in Injection(1 .. n, T)  BY <1>1, <1>2, FS_SurjSameCardinalityImpliesInj
<1> QED  BY <1>3 DEF Injection, IsInjective

LEMMA LowestCodeIsACode ==
  ASSUME NEW found \in SUBSET (Codes \X (Nat \cup {NoPosition}))
  PROVE  IF found = {} THEN LowestCode(found) = 0
         ELSE /\ LowestCode(found) \in {ExitFor[c] : c \in Codes}
              /\ LowestCode(found) # 0
<1> DEFINE S == {ExitFor[f[1]] : f \in found}
<1>1. \A f \in found : f[1] \in Codes  OBVIOUS
<1>2. \A c \in Codes : ExitFor[c] \in 2 .. 8  BY DEF Codes, ExitFor
<1>3. CASE found = {}  BY <1>3 DEF LowestCode
<1>4. CASE found # {}
  <2>1. S \in SUBSET Nat /\ S # {}  BY <1>1, <1>2, <1>4
  <2>2. PICK m \in S : \A k \in S : m <= k  BY <2>1, LeastNatural
  <2>3. \E x \in S : \A f \in found : x <= ExitFor[f[1]]  BY <2>2
  <2>4. LowestCode(found) \in S  BY <1>4, <2>3 DEF LowestCode
  <2> QED  BY <1>1, <1>2, <1>4, <2>4
<1> QED  BY <1>3, <1>4

-----------------------------------------------------------------------------
(* Type correctness. *)

\* The fields of a recomputed anchor.
LEMMA DisclosedParts ==
  ASSUME WellFormedDisclosure(disclosed), NEW s \in Disclosed
  PROVE  /\ s \in Nat
         /\ disclosed[s] = [cd |-> disclosed[s].cd, prev |-> disclosed[s].prev,
                            digest |-> disclosed[s].digest]
         /\ disclosed[s].prev = IF s = 0 THEN ZERO32
                                ELSE IF s - 1 \in Disclosed THEN disclosed[s - 1].digest
                                ELSE Null
         /\ disclosed[s].digest =
              IF disclosed[s].prev = Null THEN Null
              ELSE Keccak(Envelope(Stream, s, disclosed[s].cd, disclosed[s].prev))
BY DEF WellFormedDisclosure, Recomputed, Disclosed

LEMMA RowParts ==
  ASSUME WellFormedServing(rows)
  PROVE  /\ Len(rows) \in Nat
         /\ DOMAIN rows = 1 .. Len(rows)
         /\ \A i \in DOMAIN rows : ServedRow(rows[i]) /\ rows[i].seq \in Nat
         /\ ServedSeqs \subseteq Nat
<1>1. Len(rows) \in Nat /\ DOMAIN rows = 1 .. Len(rows)
  BY DEF WellFormedServing
<1>2. \A i \in DOMAIN rows : ServedRow(rows[i]) /\ rows[i].seq \in Nat
  BY <1>1 DEF WellFormedServing, ServedRow
<1> QED  BY <1>1, <1>2 DEF ServedSeqs

LEMMA ReportType ==
  ASSUME NEW code \in Codes, NEW positions \in SUBSET Nat
  PROVE  Report(code, positions) \subseteq Codes \X (Nat \cup {NoPosition})
BY DEF Report

(***************************************************************************)
(* Nothing has been found before the comparison is called: without it the  *)
(* sets of flagged positions could name positions of the previous inputs.  *)
(***************************************************************************)
NothingFound ==
  findings = {} /\ inconsistent = {} /\ altered = {} /\ broken = {} /\ unvisited = {}

TypedInv == CheckerTypeOK /\ (phase = "idle" => NothingFound)

LEMMA TypedInitially == CheckerInit => TypedInv
<1> SUFFICES ASSUME CheckerInit PROVE TypedInv
  OBVIOUS
<1>1. WellFormedDisclosure(disclosed)
  <2>1. disclosed = [s \in {} |-> Null] /\ DOMAIN disclosed = {}  BY DEF CheckerInit
  <2> QED  BY <2>1, FS_EmptySet DEF WellFormedDisclosure, Recomputed
<1>2. WellFormedServing(rows)
  BY DEF CheckerInit, WellFormedServing
<1> QED  BY <1>1, <1>2 DEF CheckerInit, TypedInv, NothingFound, CheckerTypeOK, Phases

LEMMA TypedInductive == TypedInv /\ [CheckerNext]_checkerVars => TypedInv'
<1> SUFFICES ASSUME TypedInv, [CheckerNext]_checkerVars PROVE TypedInv'
  OBVIOUS
<1>0. /\ CheckerTypeOK
      /\ WellFormedDisclosure(disclosed) /\ WellFormedServing(rows)
      /\ Disclosed \subseteq Nat /\ ServedSeqs \subseteq Nat /\ Both \subseteq Nat
      /\ findings \subseteq Codes \X (Nat \cup {NoPosition})
  BY RowParts DEF TypedInv, CheckerTypeOK, WellFormedDisclosure, Disclosed, Both
<1>1. CASE Called
  <2>1. PICK d \in Disclosures, v \in Servings, c \in Conflicts : Compare(d, v, c)
    BY <1>1 DEF Called
  <2>2. NothingFound /\ phase' = "rows" /\ disclosed' = d /\ rows' = v /\ contested' = c
    BY <1>1, <2>1 DEF Called, Compare, TypedInv
  <2>3. WellFormedDisclosure(d) /\ WellFormedServing(v) /\ c \subseteq Nat
    BY CheckerAssumption
  <2> QED  BY <1>0, <2>1, <2>2, <2>3 DEF Compare, NothingFound, TypedInv, CheckerTypeOK, Phases
<1>2. ASSUME UNCHANGED inputs
      PROVE  /\ WellFormedDisclosure(disclosed)' /\ WellFormedServing(rows)'
             /\ contested' \subseteq Nat
             /\ Disclosed' = Disclosed /\ ServedSeqs' = ServedSeqs /\ Both' = Both
  BY <1>0, <1>2 DEF inputs, CheckerTypeOK, Disclosed, ServedSeqs, Both
<1>3. CASE CheckRows
  <2>1. inconsistent' \subseteq ServedSeqs  BY <1>3 DEF CheckRows, ServedSeqs
  <2>2. Report("ENVELOPE-MISMATCH", inconsistent') \subseteq Codes \X (Nat \cup {NoPosition})
    BY <1>0, <2>1 DEF Report, Codes
  <2> QED  BY <1>0, <1>2, <1>3, <2>1, <2>2 DEF CheckRows, TypedInv, CheckerTypeOK, Phases
<1>4. CASE CheckContiguity
  <2>1. UNION {0 .. h : h \in Disclosed \cup ServedSeqs} \subseteq Nat  BY <1>0
  <2>2. Report("GAP", {s \in UNION {0 .. h : h \in Disclosed \cup ServedSeqs} : Gap(s)})
          \subseteq Codes \X (Nat \cup {NoPosition})
    BY <2>1 DEF Report, Codes
  <2> QED  BY <1>0, <1>2, <1>4, <2>2 DEF CheckContiguity, TypedInv, CheckerTypeOK, Phases
<1>5. CASE CompareRecords
  <2>1. altered' \subseteq Both  BY <1>5 DEF CompareRecords
  <2>2. /\ Report("ALTERED", altered') \subseteq Codes \X (Nat \cup {NoPosition})
        /\ Report("MISSING", ServedSeqs \ Disclosed) \subseteq Codes \X (Nat \cup {NoPosition})
    BY <1>0, <2>1 DEF Report, Codes
  <2> QED  BY <1>0, <1>2, <1>5, <2>1, <2>2 DEF CompareRecords, TypedInv, CheckerTypeOK, Phases
<1>6. CASE FollowServedLink
  <2>1. PICK s \in unvisited :
          /\ unvisited' = unvisited \ {s}
          /\ broken' = IF BreaksChain(s) THEN broken \cup {s} ELSE broken
          /\ findings' = findings \cup Report("CHAIN-BREAK", broken' \ broken)
    BY <1>6 DEF FollowServedLink
  <2>2. broken' \subseteq ServedSeqs /\ s \in ServedSeqs  BY <1>0, <2>1 DEF CheckerTypeOK
  <2>3. Report("CHAIN-BREAK", broken' \ broken) \subseteq Codes \X (Nat \cup {NoPosition})
    BY <1>0, <2>2 DEF Report, Codes
  <2> QED  BY <1>0, <1>2, <1>6, <2>1, <2>2, <2>3 DEF FollowServedLink, TypedInv, CheckerTypeOK, Phases
<1>7. CASE ServedChainDone
  BY <1>0, <1>2, <1>7 DEF ServedChainDone, TypedInv, CheckerTypeOK, Phases
<1>8. CASE CompareChains
  <2>1. PICK b \in SUBSET Both, m \in SUBSET Both :
          findings' = findings \cup Report("CHAIN-BREAK", b) \cup Report("ENVELOPE-MISMATCH", m)
    BY <1>8 DEF CompareChains
  <2>2. /\ Report("CHAIN-BREAK", b) \subseteq Codes \X (Nat \cup {NoPosition})
        /\ Report("ENVELOPE-MISMATCH", m) \subseteq Codes \X (Nat \cup {NoPosition})
    BY <1>0 DEF Report, Codes
  <2> QED  BY <1>0, <1>2, <1>8, <2>1, <2>2 DEF CompareChains, TypedInv, CheckerTypeOK, Phases
<1>9. CASE CountAndConclude
  <2>1. Report("CONFLICT", contested) \subseteq Codes \X (Nat \cup {NoPosition})
    BY <1>0 DEF CheckerTypeOK, Report, Codes
  <2>2. <<"COUNT-MISMATCH", NoPosition>> \in Codes \X (Nat \cup {NoPosition})  BY DEF Codes
  <2>3. findings' \subseteq Codes \X (Nat \cup {NoPosition})  BY <1>0, <1>9, <2>1, <2>2 DEF CountAndConclude
  <2>4. exitCode' \in {0} \cup {ExitFor[c] : c \in Codes}
    BY <1>9, <2>3, LowestCodeIsACode DEF CountAndConclude
  <2> QED  BY <1>0, <1>2, <1>9, <2>3, <2>4 DEF CountAndConclude, TypedInv, CheckerTypeOK, Phases
<1>10. CASE UNCHANGED checkerVars
  <2>1. UNCHANGED inputs  BY <1>10 DEF checkerVars, inputs
  <2> QED  BY <1>0, <1>2, <1>10, <2>1 DEF checkerVars, TypedInv, NothingFound, CheckerTypeOK
<1> QED  BY <1>1, <1>3, <1>4, <1>5, <1>6, <1>7, <1>8, <1>9, <1>10 DEF CheckerNext, CheckerStep

\* The type invariant holds of every comparison: each pass keeps its findings
\* to known codes and to positions of the two sides (compare.ts).
THEOREM TypeCorrect == CheckerSpec => []CheckerTypeOK
<1>1. TypedInv => CheckerTypeOK  BY DEF TypedInv
<1> QED  BY <1>1, TypedInitially, TypedInductive, PTL DEF CheckerSpec

-----------------------------------------------------------------------------
(* What a faithful disclosure looks like row by row. *)

LEMMA DistinctRows ==
  ASSUME CheckerTypeOK, \A i, j \in DOMAIN rows : rows[i].seq = rows[j].seq => i = j
  PROVE  \A i \in DOMAIN rows : ServedAt(rows[i].seq) = rows[i]
<1> SUFFICES ASSUME NEW i \in DOMAIN rows PROVE ServedAt(rows[i].seq) = rows[i]
  OBVIOUS
<1>1. \A j \in DOMAIN rows : rows[j].seq = rows[i].seq => j <= i
  BY RowParts DEF CheckerTypeOK
<1>2. (CHOOSE k \in DOMAIN rows :
         /\ rows[k].seq = rows[i].seq
         /\ \A j \in DOMAIN rows : rows[j].seq = rows[i].seq => j <= k) = i
  BY <1>1
<1> QED  BY <1>2 DEF ServedAt

\* Served as often as there are positions, each row is the row of its position.
LEMMA OneRowEach ==
  ASSUME CheckerTypeOK, Cardinality(ServedSeqs) = Len(rows)
  PROVE  \A i \in DOMAIN rows : ServedAt(rows[i].seq) = rows[i]
<1>1. /\ Len(rows) \in Nat /\ DOMAIN rows = 1 .. Len(rows)
      /\ \A i \in DOMAIN rows : rows[i].seq \in Nat
  BY RowParts DEF CheckerTypeOK
<1> DEFINE q == [i \in 1 .. Len(rows) |-> rows[i].seq]
<1>2. q \in [1 .. Len(rows) -> Nat] /\ ServedSeqs = {q[i] : i \in 1 .. Len(rows)}
  BY <1>1 DEF ServedSeqs
<1>3. \A i, j \in 1 .. Len(rows) : q[i] = q[j] => i = j
  <2> HIDE DEF q
  <2> QED  BY <1>1, <1>2, RowsDistinct
<1>4. \A i, j \in DOMAIN rows : rows[i].seq = rows[j].seq => i = j
  BY <1>1, <1>3
<1> QED  BY <1>4, DistinctRows

LEMMA NullIsNoDigest ==
  /\ ZERO32 # Null
  /\ \A e : Keccak(e) # Null
<1>1. ZERO32[1] = "zero32" /\ Null[1] = "null"  BY DEF ZERO32, Null
<1>2. \A e : Keccak(e)[1] = "keccak"  BY DEF Keccak
<1> QED  BY <1>1, <1>2

\* With no record missing before it, a record's link and digest are known.
LEMMA ContiguousIsResolved ==
  ASSUME CheckerTypeOK, NEW n \in Nat, Disclosed = 0 .. (n - 1), NEW s \in Disclosed
  PROVE  disclosed[s].prev # Null /\ disclosed[s].digest # Null
<1> DEFINE Lost == {t \in Disclosed : disclosed[t].prev = Null \/ disclosed[t].digest = Null}
<1>0. WellFormedDisclosure(disclosed)  BY DEF CheckerTypeOK
<1>1. Disclosed = 0 .. (n - 1)  OBVIOUS
<1>2. SUFFICES ASSUME NEW t \in Lost PROVE FALSE
  OBVIOUS
<1>3. PICK m \in Lost : \A k \in Lost : m <= k
  <2>1. Lost \in SUBSET Nat  BY <1>0, <1>1
  <2> QED  BY <2>1, <1>2, LeastNatural
<1>4. m = 0 \/ (m - 1 \in Disclosed /\ m - 1 \notin Lost)
  BY <1>0, <1>1, <1>3
<1>5. disclosed[m].prev # Null
  <2>1. disclosed[m].prev = IF m = 0 THEN ZERO32
                             ELSE IF m - 1 \in Disclosed THEN disclosed[m - 1].digest
                             ELSE Null
    BY <1>0, <1>3, DisclosedParts
  <2>2. m = 0 \/ disclosed[m - 1].digest # Null  BY <1>4
  <2> QED  BY <1>4, <2>1, <2>2, NullIsNoDigest
<1>6. disclosed[m].digest # Null
  <2>1. disclosed[m].digest = Keccak(Envelope(Stream, m, disclosed[m].cd, disclosed[m].prev))
    BY <1>0, <1>3, <1>5, DisclosedParts
  <2> QED  BY <2>1, NullIsNoDigest
<1> QED  BY <1>3, <1>5, <1>6

LEMMA FaithfulRows ==
  ASSUME CheckerTypeOK, Faithful
  PROVE  /\ ServedSeqs = Disclosed
         /\ \A s \in Disclosed :
              ServedAt(s) = [seq |-> s, cd |-> disclosed[s].cd, prev |-> disclosed[s].prev,
                             digest |-> disclosed[s].digest]
         /\ \A i \in DOMAIN rows : ~Inconsistent(rows[i])
         /\ \A s \in Disclosed : LinkHolds(s)
         /\ \A s \in Nat : ~Gap(s)
<1> DEFINE RowOf(s) == [seq |-> s, cd |-> disclosed[s].cd, prev |-> disclosed[s].prev,
                        digest |-> disclosed[s].digest]
<1>0. WellFormedDisclosure(disclosed) /\ Len(rows) \in Nat /\ WellFormedServing(rows)
  BY RowParts DEF CheckerTypeOK
<1>1. Disclosed = 0 .. (Len(rows) - 1) /\ Cardinality(Disclosed) = Len(rows)
  BY DEF Faithful, FaithfulTo, Disclosed
<1>2. {rows[i] : i \in DOMAIN rows} = {RowOf(s) : s \in Disclosed}
  BY DEF Faithful, FaithfulTo, Disclosed
<1>3. \A i \in DOMAIN rows : rows[i].seq \in Disclosed /\ rows[i] = RowOf(rows[i].seq)
  <2> SUFFICES ASSUME NEW i \in DOMAIN rows
               PROVE  rows[i].seq \in Disclosed /\ rows[i] = RowOf(rows[i].seq)
    OBVIOUS
  <2>1. PICK s \in Disclosed : rows[i] = RowOf(s)  BY <1>2
  <2>2. rows[i].seq = s  BY <2>1
  <2> QED  BY <2>1, <2>2
<1>4. \A s \in Disclosed : \E i \in DOMAIN rows : rows[i] = RowOf(s)
  BY <1>2
<1>5. ServedSeqs = Disclosed
  <2>1. \A s \in Disclosed : s \in ServedSeqs
    <3> SUFFICES ASSUME NEW s \in Disclosed PROVE s \in ServedSeqs
      OBVIOUS
    <3>1. PICK i \in DOMAIN rows : rows[i] = RowOf(s)  BY <1>4
    <3>2. rows[i].seq = s  BY <3>1
    <3> QED  BY <3>2 DEF ServedSeqs
  <2> QED  BY <1>3, <2>1 DEF ServedSeqs
<1>6. \A s \in Disclosed : ServedAt(s) = RowOf(s)
  <2> SUFFICES ASSUME NEW s \in Disclosed PROVE ServedAt(s) = RowOf(s)
    OBVIOUS
  <2>1. PICK i \in DOMAIN rows : rows[i] = RowOf(s)  BY <1>4
  <2>2. rows[i].seq = s  BY <2>1
  <2> QED  BY <1>1, <1>5, <2>1, <2>2, OneRowEach
<1>7. \A i \in DOMAIN rows : ~Inconsistent(rows[i])
  <2> SUFFICES ASSUME NEW i \in DOMAIN rows PROVE Rebuilt(rows[i]) = rows[i].digest
    BY DEF Inconsistent
  <2>1. PICK s \in Disclosed : rows[i] = RowOf(s)  BY <1>3
  <2>2. rows[i].seq = s /\ rows[i].cd = disclosed[s].cd /\ rows[i].prev = disclosed[s].prev
        /\ rows[i].digest = disclosed[s].digest
    BY <2>1
  <2>3. disclosed[s].digest = Keccak(Envelope(Stream, s, disclosed[s].cd, disclosed[s].prev))
    BY <1>0, <1>1, ContiguousIsResolved, DisclosedParts
  <2> QED  BY <2>2, <2>3 DEF Rebuilt
<1>8. \A s \in Disclosed : LinkHolds(s)
  <2> SUFFICES ASSUME NEW s \in Disclosed PROVE LinkHolds(s)
    OBVIOUS
  <2>1. ServedAt(s).prev = disclosed[s].prev  BY <1>6
  <2>2. s = 0 \/ (s - 1 \in Disclosed /\ ServedAt(s - 1).digest = disclosed[s - 1].digest)
    <3>1. s = 0 \/ s - 1 \in Disclosed  BY <1>0, <1>1
    <3> QED  BY <1>6, <3>1
  <2> QED  BY <1>0, <2>1, <2>2, DisclosedParts DEF LinkHolds
<1>9. \A s \in Nat : ~Gap(s)
  BY <1>0, <1>1, <1>5 DEF Gap
<1> QED  BY <1>5, <1>6, <1>7, <1>8, <1>9

-----------------------------------------------------------------------------
(***************************************************************************)
(* The verdict is exact.  The invariant says what each pass has            *)
(* established: a faithful disclosure has raised nothing so far, and if    *)
(* nothing has been raised so far, then the checks made so far all hold.   *)
(***************************************************************************)
NothingFlagged == findings = {} /\ inconsistent = {} /\ altered = {} /\ broken = {}

FaithfulRaisesNothing == phase # "idle" /\ Faithful => NothingFlagged

PastRows == {"contiguity", "records", "served chain", "disclosed chain", "counts", "done"}
PastContiguity == PastRows \ {"contiguity"}
PastRecords == PastContiguity \ {"records"}
PastServedChain == PastRecords \ {"served chain"}

UpToHighWater == UNION {0 .. h : h \in Disclosed \cup ServedSeqs}

SameRecords ==
  /\ ServedSeqs \subseteq Disclosed
  /\ \A s \in Both : disclosed[s].cd = ServedAt(s).cd

CheckedSoFar ==
  /\ inconsistent = {} /\ altered = {} /\ broken = {}
  /\ phase \in PastRows => \A i \in DOMAIN rows : ~Inconsistent(rows[i])
  /\ phase \in PastContiguity => \A s \in UpToHighWater : ~Gap(s)
  /\ phase \in PastRecords => SameRecords
  /\ phase \in PastRecords =>
       \A s \in ServedSeqs \ unvisited : LinkResolves(s) => LinkHolds(s)
  /\ phase \in PastServedChain => unvisited = {}
  /\ phase = "done" => contested = {} /\ Cardinality(Disclosed) = Len(rows)

SilenceMeansChecked == findings = {} => CheckedSoFar

VerdictInv ==
  /\ TypedInv
  /\ FaithfulRaisesNothing
  /\ SilenceMeansChecked
  /\ phase = "done" => exitCode = LowestCode(findings)

LEMMA ReportOfNone ==
  ASSUME NEW code, NEW positions
  PROVE  Report(code, positions) = {} <=> positions = {}
BY DEF Report

\* What the passes established is that the disclosure is faithful.
LEMMA CheckedIsFaithful ==
  ASSUME CheckerTypeOK, CheckedSoFar, phase = "done"
  PROVE  Faithful
<1>0. /\ WellFormedDisclosure(disclosed) /\ WellFormedServing(rows)
      /\ Disclosed \in SUBSET Nat /\ IsFiniteSet(Disclosed) /\ ServedSeqs \subseteq Nat
      /\ Len(rows) \in Nat
  BY RowParts DEF CheckerTypeOK, WellFormedDisclosure, Disclosed
<1>1. /\ \A i \in DOMAIN rows : ~Inconsistent(rows[i])
      /\ \A s \in UpToHighWater : ~Gap(s)
      /\ SameRecords
      /\ \A s \in ServedSeqs : LinkResolves(s) => LinkHolds(s)
      /\ contested = {} /\ Cardinality(Disclosed) = Len(rows)
  BY DEF CheckedSoFar, PastRows, PastContiguity, PastRecords, PastServedChain
<1>2. \A t \in Disclosed \cup ServedSeqs : \A s \in 0 .. t : s \in UpToHighWater
  BY DEF UpToHighWater
<1>3. ServedSeqs = Disclosed
  <2>1. ASSUME NEW s \in Disclosed PROVE s \in ServedSeqs
    <3>1. s \in 0 .. s  BY <1>0
    <3> QED  BY <1>1, <1>2, <2>1, <3>1 DEF Gap
  <2> QED  BY <1>1, <2>1 DEF SameRecords
<1>4. \A t \in Disclosed : 0 .. t \subseteq Disclosed
  <2> SUFFICES ASSUME NEW t \in Disclosed, NEW s \in 0 .. t PROVE s \in Disclosed
    OBVIOUS
  <2>1. s \in UpToHighWater  BY <1>2
  <2>2. s = t \/ s < t  BY <1>0
  <2> QED  BY <1>1, <1>3, <2>1, <2>2 DEF Gap
<1>5. Disclosed = 0 .. (Len(rows) - 1)
  BY <1>0, <1>1, <1>4, InitialSegment
<1>6. \A i \in DOMAIN rows : ServedAt(rows[i].seq) = rows[i]
  BY <1>1, <1>3, OneRowEach
<1>7. ASSUME NEW s \in Disclosed
      PROVE  \E i \in DOMAIN rows : rows[i].seq = s /\ ServedAt(s) = rows[i]
  <2>1. PICK i \in DOMAIN rows : rows[i].seq = s  BY <1>3 DEF ServedSeqs
  <2> QED  BY <1>6, <2>1
<1>8. \A s \in Disclosed : /\ ServedAt(s).seq = s
                           /\ ServedAt(s).cd = disclosed[s].cd
                           /\ ServedAt(s).digest =
                                Keccak(Envelope(Stream, s, ServedAt(s).cd, ServedAt(s).prev))
  <2> SUFFICES ASSUME NEW s \in Disclosed
               PROVE  /\ ServedAt(s).seq = s
                      /\ ServedAt(s).cd = disclosed[s].cd
                      /\ ServedAt(s).digest =
                           Keccak(Envelope(Stream, s, ServedAt(s).cd, ServedAt(s).prev))
    OBVIOUS
  <2>1. PICK i \in DOMAIN rows : rows[i].seq = s /\ ServedAt(s) = rows[i]  BY <1>7
  <2>2. s \in Both  BY <1>3 DEF Both
  <2> QED  BY <1>1, <2>1, <2>2 DEF SameRecords, Inconsistent, Rebuilt
<1> DEFINE Off == {s \in Disclosed : \/ disclosed[s].prev # ServedAt(s).prev
                                     \/ disclosed[s].digest # ServedAt(s).digest}
<1>9. Off = {}
  <2> SUFFICES ASSUME NEW n \in Off PROVE FALSE
    OBVIOUS
  <2>1. PICK m \in Off : \A k \in Off : m <= k
    <3>1. Off \in SUBSET Nat  BY <1>0
    <3> QED  BY <3>1, LeastNatural
  <2>2. m \in Disclosed /\ m \in Nat  BY <1>0, <2>1
  <2>3. m = 0 \/ (m - 1 \in Disclosed /\ m - 1 \notin Off)
    BY <1>0, <1>5, <2>1, <2>2
  <2>4. LinkHolds(m)
    BY <1>1, <1>3, <2>2, <2>3 DEF LinkResolves
  <2>5. disclosed[m].prev = ServedAt(m).prev
    <3>1. m # 0 => disclosed[m - 1].digest = ServedAt(m - 1).digest  BY <2>3
    <3>2. disclosed[m].prev = IF m = 0 THEN ZERO32
                              ELSE IF m - 1 \in Disclosed THEN disclosed[m - 1].digest
                              ELSE Null
      BY <1>0, <2>2, DisclosedParts
    <3> QED  BY <2>3, <2>4, <3>1, <3>2 DEF LinkHolds
  <2>6. disclosed[m].prev # Null
    <3>1. m = 0 => disclosed[m].prev = ZERO32  BY <1>0, <2>2, DisclosedParts
    <3>2. m # 0 => disclosed[m].prev = disclosed[m - 1].digest
      BY <1>0, <2>2, <2>3, DisclosedParts
    <3>3. m # 0 => disclosed[m - 1].digest = ServedAt(m - 1).digest  BY <2>3
    <3>4. m # 0 => disclosed[m].prev =
                     Keccak(Envelope(Stream, m - 1, ServedAt(m - 1).cd, ServedAt(m - 1).prev))
      BY <1>8, <2>3, <3>2, <3>3
    <3> QED  BY <3>1, <3>4, NullIsNoDigest
  <2>7. disclosed[m].digest = ServedAt(m).digest
    <3>1. disclosed[m].digest = Keccak(Envelope(Stream, m, disclosed[m].cd, disclosed[m].prev))
      BY <1>0, <2>2, <2>6, DisclosedParts
    <3> QED  BY <1>8, <2>2, <2>5, <3>1
  <2> QED  BY <2>1, <2>5, <2>7
<1> DEFINE RowOf(s) == [seq |-> s, cd |-> disclosed[s].cd, prev |-> disclosed[s].prev,
                        digest |-> disclosed[s].digest]
<1>10. \A i \in DOMAIN rows : rows[i].seq \in Disclosed /\ rows[i] = RowOf(rows[i].seq)
  <2> SUFFICES ASSUME NEW i \in DOMAIN rows
               PROVE  rows[i].seq \in Disclosed /\ rows[i] = RowOf(rows[i].seq)
    OBVIOUS
  <2>1. rows[i].seq \in Disclosed  BY <1>3 DEF ServedSeqs
  <2>2. rows[i] = [seq |-> rows[i].seq, cd |-> rows[i].cd, prev |-> rows[i].prev,
                   digest |-> rows[i].digest]
    BY <1>0, RowParts DEF ServedRow
  <2>3. ServedAt(rows[i].seq) = rows[i]  BY <1>6
  <2>4. rows[i].cd = disclosed[rows[i].seq].cd  BY <1>8, <2>1, <2>3
  <2>5. rows[i].prev = disclosed[rows[i].seq].prev /\ rows[i].digest = disclosed[rows[i].seq].digest
    BY <1>9, <2>1, <2>3
  <2> QED  BY <2>1, <2>2, <2>4, <2>5
<1>11. \A s \in Disclosed : \E i \in DOMAIN rows : rows[i] = RowOf(s)
  <2> SUFFICES ASSUME NEW s \in Disclosed PROVE \E i \in DOMAIN rows : rows[i] = RowOf(s)
    OBVIOUS
  <2>1. PICK i \in DOMAIN rows : rows[i].seq = s  BY <1>7
  <2>2. rows[i] = RowOf(rows[i].seq)  BY <1>10
  <2> QED  BY <2>1, <2>2
<1>12. {rows[i] : i \in DOMAIN rows} = {RowOf(s) : s \in Disclosed}
  BY <1>10, <1>11
<1> QED  BY <1>1, <1>5, <1>12 DEF Faithful, FaithfulTo, Disclosed

\* The inputs decide all of these.
LEMMA InputsDecide ==
  ASSUME UNCHANGED inputs
  PROVE  /\ Faithful' <=> Faithful
         /\ SameRecords' <=> SameRecords
         /\ Disclosed' = Disclosed /\ ServedSeqs' = ServedSeqs
         /\ UpToHighWater' = UpToHighWater
         /\ \A s : Gap(s)' <=> Gap(s)
         /\ \A s : LinkResolves(s)' <=> LinkResolves(s)
         /\ \A s : LinkHolds(s)' <=> LinkHolds(s)
         /\ \A r : Inconsistent(r)' <=> Inconsistent(r)
<1>1. disclosed' = disclosed /\ rows' = rows /\ contested' = contested  BY DEF inputs
<1>2. Disclosed' = Disclosed /\ ServedSeqs' = ServedSeqs  BY <1>1 DEF Disclosed, ServedSeqs
<1>3. \A s : ServedAt(s)' = ServedAt(s)  BY <1>1 DEF ServedAt
<1>4. Faithful' <=> Faithful  BY <1>1, <1>2 DEF Faithful, FaithfulTo, Disclosed
<1>5. SameRecords' <=> SameRecords  BY <1>1, <1>2, <1>3 DEF SameRecords, Both
<1>6. UpToHighWater' = UpToHighWater  BY <1>2 DEF UpToHighWater
<1>7. \A s : Gap(s)' <=> Gap(s)  BY <1>2 DEF Gap
<1>8. \A s : LinkResolves(s)' <=> LinkResolves(s)  BY <1>2 DEF LinkResolves
<1>9. \A s : LinkHolds(s)' <=> LinkHolds(s)  BY <1>3 DEF LinkHolds
<1>10. \A r : Inconsistent(r)' <=> Inconsistent(r)  BY DEF Inconsistent, Rebuilt
<1> QED  BY <1>1, <1>2, <1>4, <1>5, <1>6, <1>7, <1>8, <1>9, <1>10

\* A faithful disclosure gives no pass anything to report.
LEMMA FaithfulStaysSilent ==
  ASSUME TypedInv, FaithfulRaisesNothing, CheckerNext
  PROVE  FaithfulRaisesNothing'
<1>0. CheckerTypeOK /\ ServedSeqs \subseteq Nat  BY RowParts DEF TypedInv, CheckerTypeOK
<1>1. CASE Called
  BY <1>1 DEF Called, Compare, TypedInv, NothingFound, FaithfulRaisesNothing, NothingFlagged
<1>2. CASE CheckerStep
  <2>1. UNCHANGED inputs /\ phase # "idle"
    BY <1>2 DEF CheckerStep, CheckRows, CheckContiguity, CompareRecords, FollowServedLink,
                ServedChainDone, CompareChains, CountAndConclude
  <2> SUFFICES ASSUME Faithful PROVE NothingFlagged'
    BY <2>1, InputsDecide DEF FaithfulRaisesNothing
  <2>2. NothingFlagged  BY <2>1 DEF FaithfulRaisesNothing
  <2>3. /\ ServedSeqs = Disclosed
        /\ \A s \in Disclosed :
              ServedAt(s) = [seq |-> s, cd |-> disclosed[s].cd, prev |-> disclosed[s].prev,
                             digest |-> disclosed[s].digest]
        /\ \A i \in DOMAIN rows : ~Inconsistent(rows[i])
        /\ \A s \in Disclosed : LinkHolds(s)
        /\ \A s \in Nat : ~Gap(s)
    BY <1>0, FaithfulRows
  <2>4. Both = Disclosed  BY <2>3 DEF Both
  <2>5. CASE CheckRows
    <3>1. inconsistent' = {}  BY <2>3, <2>5 DEF CheckRows
    <3> QED  BY <2>2, <2>5, <3>1, ReportOfNone DEF CheckRows, NothingFlagged
  <2>6. CASE CheckContiguity
    <3>1. {s \in UNION {0 .. h : h \in Disclosed \cup ServedSeqs} : Gap(s)} = {}
      BY <1>0, <2>3
    <3> QED  BY <2>2, <2>6, <3>1, ReportOfNone DEF CheckContiguity, NothingFlagged
  <2>7. CASE CompareRecords
    <3>1. altered' = {}
      <4>1. altered' = {s \in Both : disclosed[s].cd # ServedAt(s).cd}
        BY <2>7 DEF CompareRecords
      <4>2. \A s \in Both : disclosed[s].cd = ServedAt(s).cd  BY <2>3, <2>4
      <4> QED  BY <4>1, <4>2
    <3>2. ServedSeqs \ Disclosed = {}  BY <2>3
    <3> QED  BY <2>2, <2>7, <3>1, <3>2, ReportOfNone DEF CompareRecords, NothingFlagged
  <2>8. CASE FollowServedLink
    <3>1. PICK s \in unvisited :
            /\ broken' = IF BreaksChain(s) THEN broken \cup {s} ELSE broken
            /\ findings' = findings \cup Report("CHAIN-BREAK", broken' \ broken)
      BY <2>8 DEF FollowServedLink
    <3>2. ~BreaksChain(s)  BY <1>0, <2>3, <3>1 DEF CheckerTypeOK, BreaksChain
    <3>3. broken' \ broken = {}  BY <3>1, <3>2
    <3> QED  BY <2>2, <2>8, <3>1, <3>2, <3>3, ReportOfNone DEF FollowServedLink, NothingFlagged
  <2>9. CASE ServedChainDone
    BY <2>2, <2>9 DEF ServedChainDone, NothingFlagged
  <2>10. CASE CompareChains
    <3> DEFINE resolved == {s \in Both : disclosed[s].prev # Null}
               breaks == {s \in resolved : /\ LinkDiffers(s)
                                           /\ BothSidesAgree(s - 1)
                                           /\ s \notin broken}
               mismatched == {s \in resolved : /\ ~LinkDiffers(s)
                                               /\ disclosed[s].digest # Null
                                               /\ s \notin altered
                                               /\ disclosed[s].digest # ServedAt(s).digest}
    <3>1. findings' = findings \cup Report("CHAIN-BREAK", breaks)
                                \cup Report("ENVELOPE-MISMATCH", mismatched)
      BY <2>10 DEF CompareChains
    <3>2. \A s \in Both : ~LinkDiffers(s) /\ disclosed[s].digest = ServedAt(s).digest
      BY <2>3, <2>4 DEF LinkDiffers
    <3>3. breaks = {} /\ mismatched = {}  BY <3>2
    <3> HIDE DEF breaks, mismatched
    <3> QED  BY <2>2, <2>10, <3>1, <3>3, ReportOfNone DEF CompareChains, NothingFlagged
  <2>11. CASE CountAndConclude
    <3>1. contested = {} /\ Cardinality(Disclosed) = Len(rows)  BY DEF Faithful, FaithfulTo, Disclosed
    <3> QED  BY <2>2, <2>11, <3>1, ReportOfNone DEF CountAndConclude, NothingFlagged
  <2> QED  BY <1>2, <2>5, <2>6, <2>7, <2>8, <2>9, <2>10, <2>11 DEF CheckerStep
<1> QED  BY <1>1, <1>2 DEF CheckerNext

\* As long as nothing is reported, each pass adds what it checks.
LEMMA SilenceStaysMeaningful ==
  ASSUME TypedInv, SilenceMeansChecked, CheckerNext
  PROVE  SilenceMeansChecked'
<1> USE DEF PastRows, PastContiguity, PastRecords, PastServedChain
<1>0. CheckerTypeOK /\ ServedSeqs \subseteq Nat  BY RowParts DEF TypedInv, CheckerTypeOK
<1> SUFFICES ASSUME findings' = {} PROVE CheckedSoFar'
  BY DEF SilenceMeansChecked
<1>1. CASE Called
  BY <1>1 DEF Called, Compare, TypedInv, NothingFound, CheckedSoFar
<1>2. CASE CheckerStep
  <2>1. UNCHANGED inputs /\ findings = {} /\ phase # "idle"
    BY <1>2 DEF CheckerStep, CheckRows, CheckContiguity, CompareRecords, FollowServedLink,
                ServedChainDone, CompareChains, CountAndConclude
  <2>2. CheckedSoFar  BY <2>1 DEF SilenceMeansChecked
  <2>3. rows' = rows /\ disclosed' = disclosed /\ contested' = contested
    BY <2>1 DEF inputs
  <2> USE <2>1, <2>2, <2>3, InputsDecide
  <2>4. CASE CheckRows
    <3>1. inconsistent' = {}  BY <2>4, ReportOfNone DEF CheckRows
    <3>2. \A i \in DOMAIN rows : ~Inconsistent(rows[i])  BY <2>4, <3>1 DEF CheckRows
    <3> QED  BY <2>4, <3>1, <3>2 DEF CheckRows, CheckedSoFar
  <2>5. CASE CheckContiguity
    <3>1. {s \in UpToHighWater : Gap(s)} = {}
      BY <2>5, ReportOfNone DEF CheckContiguity, UpToHighWater
    <3> QED  BY <2>5, <3>1 DEF CheckContiguity, CheckedSoFar
  <2>6. CASE CompareRecords
    <3>1. altered' = {} /\ ServedSeqs \ Disclosed = {} /\ unvisited' = ServedSeqs
      <4>1. /\ Report("ALTERED", altered') = {} /\ Report("MISSING", ServedSeqs \ Disclosed) = {}
            /\ unvisited' = ServedSeqs
        BY <2>6 DEF CompareRecords
      <4> QED  BY <4>1, ReportOfNone
    <3>2. SameRecords  BY <2>6, <3>1 DEF CompareRecords, SameRecords
    <3> QED  BY <2>6, <3>1, <3>2 DEF CompareRecords, CheckedSoFar
  <2>7. CASE FollowServedLink
    <3>1. PICK s \in unvisited :
            /\ unvisited' = unvisited \ {s}
            /\ broken' = IF BreaksChain(s) THEN broken \cup {s} ELSE broken
            /\ findings' = findings \cup Report("CHAIN-BREAK", broken' \ broken)
      BY <2>7 DEF FollowServedLink
    <3>2. phase = "served chain" /\ phase' = phase /\ UNCHANGED <<inconsistent, altered>>
      BY <2>7 DEF FollowServedLink
    <3>3. broken = {} /\ inconsistent = {}  BY DEF CheckedSoFar
    <3>4. broken' \ broken = {}  BY <3>1, ReportOfNone
    <3>5. broken' = {} /\ ~BreaksChain(s)  BY <3>1, <3>3, <3>4
    <3>6. LinkResolves(s) => LinkHolds(s)
      BY <3>3, <3>5 DEF BreaksChain, ServedRowTrusted
    <3>7. \A t \in ServedSeqs \ unvisited' : LinkResolves(t) => LinkHolds(t)
      BY <3>1, <3>2, <3>6 DEF CheckedSoFar
    <3> QED  BY <3>2, <3>5, <3>7 DEF CheckedSoFar
  <2>8. CASE ServedChainDone
    BY <2>8 DEF ServedChainDone, CheckedSoFar
  <2>9. CASE CompareChains
    <3>1. phase = "disclosed chain" /\ phase' = "counts"
          /\ UNCHANGED <<inconsistent, altered, broken, unvisited>>
      BY <2>9 DEF CompareChains
    <3> QED  BY <3>1 DEF CheckedSoFar
  <2>10. CASE CountAndConclude
    <3>1. contested = {}  BY <2>10, ReportOfNone DEF CountAndConclude
    <3>2. Cardinality(Disclosed) = Len(rows)  BY <2>10 DEF CountAndConclude
    <3> QED  BY <2>10, <3>1, <3>2 DEF CountAndConclude, CheckedSoFar
  <2> QED  BY <1>2, <2>4, <2>5, <2>6, <2>7, <2>8, <2>9, <2>10 DEF CheckerStep
<1> QED  BY <1>1, <1>2 DEF CheckerNext

LEMMA VerdictInitially == CheckerInit => VerdictInv
BY TypedInitially
   DEF CheckerInit, VerdictInv, FaithfulRaisesNothing, SilenceMeansChecked, CheckedSoFar,
       PastRows, PastContiguity, PastRecords, PastServedChain

LEMMA VerdictInductive == VerdictInv /\ [CheckerNext]_checkerVars => VerdictInv'
<1> SUFFICES ASSUME VerdictInv, [CheckerNext]_checkerVars PROVE VerdictInv'
  OBVIOUS
<1>1. TypedInv'  BY TypedInductive DEF VerdictInv
<1>2. CASE CheckerNext
  <2>1. FaithfulRaisesNothing' /\ SilenceMeansChecked'
    BY <1>2, FaithfulStaysSilent, SilenceStaysMeaningful DEF VerdictInv
  <2>2. phase' = "done" => exitCode' = LowestCode(findings')
    BY <1>2 DEF CheckerNext, CheckerStep, Called, Compare, CheckRows, CheckContiguity,
                CompareRecords, FollowServedLink, ServedChainDone, CompareChains, CountAndConclude
  <2>3. LowestCode(findings)' = LowestCode(findings')  BY DEF LowestCode
  <2> QED  BY <1>1, <2>1, <2>2, <2>3 DEF VerdictInv
<1>3. CASE UNCHANGED checkerVars
  <2>1. UNCHANGED inputs  BY <1>3 DEF checkerVars, inputs
  <2>2. UNCHANGED <<phase, findings, inconsistent, altered, broken, unvisited, exitCode,
                    disclosed, rows, contested>>
    BY <1>3 DEF checkerVars
  <2>3. FaithfulRaisesNothing'
    BY <2>1, <2>2, InputsDecide DEF VerdictInv, FaithfulRaisesNothing, NothingFlagged
  <2>4. SilenceMeansChecked'
    BY <2>1, <2>2, InputsDecide
       DEF VerdictInv, SilenceMeansChecked, CheckedSoFar, PastRows, PastContiguity, PastRecords,
           PastServedChain
  <2> QED  BY <1>1, <2>2, <2>3, <2>4 DEF VerdictInv, LowestCode
<1> QED  BY <1>2, <1>3

\* For every disclosure and every answer, exit code 0 means exactly that the
\* disclosed records are the anchored ones, one row each, from position 0
\* without a hole, uncontested (compareDisclosureToIndex).
THEOREM VerdictAlwaysExact == CheckerSpec => []VerdictExact
<1>1. VerdictInv => VerdictExact
  <2> SUFFICES ASSUME VerdictInv, phase = "done" PROVE exitCode = 0 <=> Faithful
    BY DEF VerdictExact
  <2>1. CheckerTypeOK /\ findings \in SUBSET (Codes \X (Nat \cup {NoPosition}))
    BY DEF VerdictInv, TypedInv, CheckerTypeOK
  <2>2. exitCode = 0 <=> findings = {}
    BY <2>1, LowestCodeIsACode DEF VerdictInv
  <2>3. findings = {} => Faithful
    BY <2>1, CheckedIsFaithful DEF VerdictInv, SilenceMeansChecked
  <2>4. Faithful => findings = {}
    BY DEF VerdictInv, FaithfulRaisesNothing, NothingFlagged
  <2> QED  BY <2>2, <2>3, <2>4
<1> QED  BY <1>1, VerdictInitially, VerdictInductive, PTL DEF CheckerSpec

-----------------------------------------------------------------------------
(***************************************************************************)
(* Who is blamed.  Over rows that are distinct, self-consistent and        *)
(* chained as far as they reach, the findings are at every moment exactly  *)
(* those of the passes made: no link is ever reported, however many        *)
(* records differ.  Honest rows are such rows, and so is what is left of   *)
(* them when some are withheld.                                            *)
(***************************************************************************)
SoundRows ==
  /\ \A i, j \in DOMAIN rows : rows[i].seq = rows[j].seq => i = j
  /\ \A i \in DOMAIN rows : ~Inconsistent(rows[i])
  /\ \A s \in ServedSeqs : LinkResolves(s) => LinkHolds(s)

Gaps == Report("GAP", {s \in UpToHighWater : Gap(s)})

Differing == {s \in Both : disclosed[s].cd # ServedAt(s).cd}

RecordFindings == Report("ALTERED", Differing) \cup Report("MISSING", ServedSeqs \ Disclosed)

LastFindings ==
  Report("CONFLICT", contested)
    \cup (IF Cardinality(Disclosed) # Len(rows) THEN {<<"COUNT-MISMATCH", NoPosition>>} ELSE {})

BlameSoFar ==
  /\ inconsistent = {} /\ broken = {}
  /\ phase \in PastRecords => altered = Differing
  /\ findings = (IF phase \in PastContiguity THEN Gaps ELSE {})
                  \cup (IF phase \in PastRecords THEN RecordFindings ELSE {})
                  \cup (IF phase = "done" THEN LastFindings ELSE {})

BlameInv == TypedInv /\ (phase # "idle" /\ SoundRows => BlameSoFar)

\* Over sound rows the two chains never disagree on a link that can be told.
LEMMA SoundLinksAgree ==
  ASSUME CheckerTypeOK, SoundRows, NEW s \in Both, disclosed[s].prev # Null
  PROVE  /\ BothSidesAgree(s - 1) => ~LinkDiffers(s)
         /\ ~LinkDiffers(s) /\ disclosed[s].cd = ServedAt(s).cd
              => disclosed[s].digest = ServedAt(s).digest
<1>0. /\ WellFormedDisclosure(disclosed)
      /\ s \in Disclosed /\ s \in ServedSeqs /\ s \in Nat
  BY DisclosedParts DEF CheckerTypeOK, Both
<1>1. PICK i \in DOMAIN rows : rows[i].seq = s /\ ServedAt(s) = rows[i]
  <2>1. PICK i \in DOMAIN rows : rows[i].seq = s  BY <1>0 DEF ServedSeqs
  <2> QED  BY <2>1, DistinctRows DEF SoundRows
<1>2. ServedAt(s).digest = Keccak(Envelope(Stream, s, ServedAt(s).cd, ServedAt(s).prev))
  BY <1>1 DEF SoundRows, Inconsistent, Rebuilt
<1>3. ASSUME BothSidesAgree(s - 1) PROVE ~LinkDiffers(s)
  <2>1. CASE s = 0
    <3>1. LinkHolds(s)  BY <1>0, <2>1 DEF SoundRows, LinkResolves
    <3> QED  BY <1>0, <2>1, <3>1, DisclosedParts DEF LinkHolds, LinkDiffers
  <2>2. CASE s # 0
    <3>1. s - 1 \in Both /\ disclosed[s - 1].digest = ServedAt(s - 1).digest
      BY <1>0, <1>3, <2>2 DEF BothSidesAgree
    <3>2. LinkHolds(s)  BY <1>0, <3>1 DEF SoundRows, LinkResolves, Both
    <3>3. disclosed[s].prev = disclosed[s - 1].digest
      BY <1>0, <2>2, <3>1, DisclosedParts DEF Both
    <3> QED  BY <2>2, <3>1, <3>2, <3>3 DEF LinkHolds, LinkDiffers
  <2> QED  BY <2>1, <2>2
<1>4. ASSUME ~LinkDiffers(s), disclosed[s].cd = ServedAt(s).cd
      PROVE  disclosed[s].digest = ServedAt(s).digest
  <2>1. disclosed[s].digest = Keccak(Envelope(Stream, s, disclosed[s].cd, disclosed[s].prev))
    BY <1>0, DisclosedParts
  <2> QED  BY <1>2, <1>4, <2>1 DEF LinkDiffers
<1> QED  BY <1>3, <1>4

LEMMA InputsDecideBlame ==
  ASSUME UNCHANGED inputs
  PROVE  /\ SoundRows' <=> SoundRows
         /\ Gaps' = Gaps /\ Differing' = Differing
         /\ RecordFindings' = RecordFindings /\ LastFindings' = LastFindings
<1>1. disclosed' = disclosed /\ rows' = rows /\ contested' = contested  BY DEF inputs
<1>2. \A s : ServedAt(s)' = ServedAt(s)  BY <1>1 DEF ServedAt
<1>3. SoundRows' <=> SoundRows  BY <1>1, InputsDecide DEF SoundRows
<1>4. Gaps' = Gaps  BY InputsDecide DEF Gaps, Report
<1>5. Differing' = Differing  BY <1>1, <1>2, InputsDecide DEF Differing, Both
<1>6. RecordFindings' = RecordFindings  BY <1>5, InputsDecide DEF RecordFindings, Report
<1>7. LastFindings' = LastFindings  BY <1>1, InputsDecide DEF LastFindings, Report
<1> QED  BY <1>3, <1>4, <1>5, <1>6, <1>7

LEMMA BlameInductive == BlameInv /\ [CheckerNext]_checkerVars => BlameInv'
<1> SUFFICES ASSUME BlameInv, [CheckerNext]_checkerVars PROVE BlameInv'
  OBVIOUS
<1> USE DEF PastRows, PastContiguity, PastRecords, PastServedChain
<1>0. TypedInv /\ CheckerTypeOK /\ TypedInv'  BY TypedInductive DEF BlameInv, TypedInv
<1>1. CASE Called
  BY <1>0, <1>1 DEF Called, Compare, TypedInv, NothingFound, BlameInv, BlameSoFar
<1>2. CASE CheckerStep
  <2>1. UNCHANGED inputs /\ phase # "idle"
    BY <1>2 DEF CheckerStep, CheckRows, CheckContiguity, CompareRecords, FollowServedLink,
                ServedChainDone, CompareChains, CountAndConclude
  <2> SUFFICES ASSUME SoundRows PROVE BlameSoFar'
    BY <1>0, <2>1, InputsDecideBlame DEF BlameInv
  <2>2. BlameSoFar  BY <2>1 DEF BlameInv
  <2>3. /\ Gaps' = Gaps /\ Differing' = Differing
        /\ RecordFindings' = RecordFindings /\ LastFindings' = LastFindings
    BY <2>1, InputsDecideBlame
  <2>4. CASE CheckRows
    <3>1. inconsistent' = {}  BY <2>4 DEF CheckRows, SoundRows
    <3>2. Report("ENVELOPE-MISMATCH", inconsistent') = {}  BY <3>1, ReportOfNone
    <3> QED  BY <2>2, <2>4, <3>1, <3>2 DEF CheckRows, BlameSoFar
  <2>5. CASE CheckContiguity
    <3>1. findings' = findings \cup Gaps  BY <2>5 DEF CheckContiguity, Gaps, UpToHighWater
    <3> QED  BY <2>2, <2>3, <2>5, <3>1 DEF CheckContiguity, BlameSoFar
  <2>6. CASE CompareRecords
    <3>1. altered' = Differing  BY <2>6 DEF CompareRecords, Differing
    <3>2. findings' = findings \cup RecordFindings
      BY <2>6, <3>1 DEF CompareRecords, RecordFindings
    <3> QED  BY <2>2, <2>3, <2>6, <3>1, <3>2 DEF CompareRecords, BlameSoFar
  <2>7. CASE FollowServedLink
    <3>1. PICK s \in unvisited :
            /\ broken' = IF BreaksChain(s) THEN broken \cup {s} ELSE broken
            /\ findings' = findings \cup Report("CHAIN-BREAK", broken' \ broken)
      BY <2>7 DEF FollowServedLink
    <3>2. ~BreaksChain(s)  BY <1>0, <3>1 DEF CheckerTypeOK, BreaksChain, SoundRows
    <3>3. broken' = broken  BY <3>1, <3>2
    <3>4. Report("CHAIN-BREAK", broken' \ broken) = {}  BY <3>3, ReportOfNone
    <3>5. phase' = phase /\ UNCHANGED <<inconsistent, altered, findings>>
      BY <2>7, <3>1, <3>4 DEF FollowServedLink
    <3> QED  BY <2>2, <2>3, <3>3, <3>5 DEF BlameSoFar
  <2>8. CASE ServedChainDone
    BY <2>2, <2>3, <2>8 DEF ServedChainDone, BlameSoFar
  <2>9. CASE CompareChains
    <3> DEFINE resolved == {s \in Both : disclosed[s].prev # Null}
               breaks == {s \in resolved : /\ LinkDiffers(s)
                                           /\ BothSidesAgree(s - 1)
                                           /\ s \notin broken}
               mismatched == {s \in resolved : /\ ~LinkDiffers(s)
                                               /\ disclosed[s].digest # Null
                                               /\ s \notin altered
                                               /\ disclosed[s].digest # ServedAt(s).digest}
    <3>1. /\ findings' = findings \cup Report("CHAIN-BREAK", breaks)
                                  \cup Report("ENVELOPE-MISMATCH", mismatched)
          /\ phase = "disclosed chain" /\ phase' = "counts"
          /\ UNCHANGED <<inconsistent, altered, broken>>
      BY <2>9 DEF CompareChains
    <3>2. altered = Differing  BY <2>2, <3>1 DEF BlameSoFar
    <3>3. breaks = {}  BY <1>0, SoundLinksAgree
    <3>4. mismatched = {}  BY <1>0, <3>2, SoundLinksAgree DEF Differing
    <3> HIDE DEF breaks, mismatched
    <3>5. findings' = findings  BY <3>1, <3>3, <3>4, ReportOfNone
    <3> QED  BY <2>2, <2>3, <3>1, <3>5 DEF BlameSoFar
  <2>10. CASE CountAndConclude
    <3>1. findings' = findings \cup LastFindings  BY <2>10 DEF CountAndConclude, LastFindings
    <3> QED  BY <2>2, <2>3, <2>10, <3>1 DEF CountAndConclude, BlameSoFar
  <2> QED  BY <1>2, <2>4, <2>5, <2>6, <2>7, <2>8, <2>9, <2>10 DEF CheckerStep
<1>3. CASE UNCHANGED checkerVars
  <2>1. UNCHANGED inputs  BY <1>3 DEF checkerVars, inputs
  <2> QED  BY <1>0, <1>3, <2>1, InputsDecideBlame DEF checkerVars, BlameInv, BlameSoFar
<1> QED  BY <1>1, <1>2, <1>3 DEF CheckerNext

LEMMA BlameInvariant == CheckerSpec => []BlameInv
<1>1. CheckerInit => BlameInv
  BY TypedInitially DEF CheckerInit, BlameInv
<1> QED  BY <1>1, BlameInductive, PTL DEF CheckerSpec

\* At the end of a comparison over sound rows.
LEMMA FinalBlame ==
  ASSUME BlameInv, phase = "done", SoundRows
  PROVE  findings = Gaps \cup RecordFindings \cup LastFindings
BY DEF BlameInv, BlameSoFar, PastContiguity, PastRecords, PastRows

\* Distinct rows are as many as the positions they are for.
LEMMA AsManyRowsAsPositions ==
  ASSUME CheckerTypeOK, \A i, j \in DOMAIN rows : rows[i].seq = rows[j].seq => i = j
  PROVE  IsFiniteSet(ServedSeqs) /\ Cardinality(ServedSeqs) = Len(rows)
<1> DEFINE q == [i \in 1 .. Len(rows) |-> rows[i].seq]
<1>1. Len(rows) \in Nat /\ DOMAIN rows = 1 .. Len(rows)  BY RowParts DEF CheckerTypeOK
<1>2. q \in [1 .. Len(rows) -> ServedSeqs]  BY <1>1 DEF ServedSeqs
<1>3. q \in Bijection(1 .. Len(rows), ServedSeqs)
  <2>1. \A a, b \in 1 .. Len(rows) : q[a] = q[b] => a = b  BY <1>1
  <2>2. \A s \in ServedSeqs : \E i \in 1 .. Len(rows) : q[i] = s  BY <1>1 DEF ServedSeqs
  <2> HIDE DEF q
  <2> QED  BY <1>2, <2>1, <2>2, Fun_IsBij
<1>4. IsFiniteSet(1 .. Len(rows)) /\ Cardinality(1 .. Len(rows)) = Len(rows)  BY <1>1, FS_Interval
<1> HIDE DEF q
<1>5. ExistsBijection(1 .. Len(rows), ServedSeqs)  BY <1>3 DEF ExistsBijection
<1> QED  BY <1>4, <1>5, FS_Bijection

\* Against an honest index every finding names a record the discloser altered,
\* left out or made up, and none the links that change with it (compare.ts on
\* DOWNSTREAM and UNRESOLVABLE-LINK notes).
THEOREM DiscloserAlwaysBlamedExactly == CheckerSpec => []DiscloserBlamedExactly
<1>1. ASSUME BlameInv, phase = "done", HonestlyServed
      PROVE  findings =
               Report("ALTERED", {s \in Both : disclosed[s].cd # ServedAt(s).cd})
                 \cup Report("MISSING", ServedSeqs \ Disclosed)
                 \cup Report("GAP", {s \in UNION {0 .. h : h \in Disclosed} : s \in Disclosed \ ServedSeqs})
                 \cup Report("CONFLICT", contested)
                 \cup (IF Cardinality(Disclosed) = Cardinality(ServedSeqs) THEN {}
                       ELSE {<<"COUNT-MISMATCH", NoPosition>>})
  <2>0. /\ CheckerTypeOK /\ Disclosed \subseteq Nat /\ ServedSeqs \subseteq Nat
        /\ Len(rows) \in Nat /\ DOMAIN rows = 1 .. Len(rows)
    BY <1>1, RowParts DEF BlameInv, TypedInv, CheckerTypeOK, WellFormedDisclosure, Disclosed
  <2>1. SoundRows
    BY <1>1, <2>0 DEF HonestlyServed, SoundRows
  <2>2. Cardinality(ServedSeqs) = Len(rows)  BY <2>0, <2>1, AsManyRowsAsPositions DEF SoundRows
  <2>3. ServedSeqs = 0 .. (Len(rows) - 1)
    <3>1. ASSUME NEW s \in ServedSeqs PROVE s \in 0 .. (Len(rows) - 1)
      BY <1>1, <2>0 DEF ServedSeqs, HonestlyServed
    <3>2. ASSUME NEW s \in 0 .. (Len(rows) - 1) PROVE s \in ServedSeqs
      <4>1. s + 1 \in DOMAIN rows /\ rows[s + 1].seq = (s + 1) - 1
        BY <1>1, <2>0 DEF HonestlyServed
      <4> QED  BY <2>0, <4>1 DEF ServedSeqs
    <3> QED  BY <3>1, <3>2
  <2>4. {s \in UpToHighWater : Gap(s)} =
          {s \in UNION {0 .. h : h \in Disclosed} : s \in Disclosed \ ServedSeqs}
    <3>1. ASSUME NEW s \in UpToHighWater, Gap(s)
          PROVE  s \in UNION {0 .. h : h \in Disclosed} /\ s \in Disclosed \ ServedSeqs
      <4>1. s \in Nat /\ s \notin ServedSeqs  BY <2>0, <3>1 DEF UpToHighWater, Gap
      <4>2. s \in Disclosed  BY <2>0, <2>3, <3>1, <4>1 DEF Gap
      <4> QED  BY <4>1, <4>2
    <3>2. ASSUME NEW s \in Disclosed \ ServedSeqs PROVE s \in UpToHighWater /\ Gap(s)
      BY <2>0, <3>2 DEF UpToHighWater, Gap
    <3> QED  BY <3>1, <3>2
  <2>5. findings = Gaps \cup RecordFindings \cup LastFindings  BY <1>1, <2>1, FinalBlame
  <2> QED  BY <2>2, <2>4, <2>5 DEF Gaps, RecordFindings, LastFindings, Differing
<1>2. BlameInv => DiscloserBlamedExactly  BY <1>1 DEF DiscloserBlamedExactly
<1> QED  BY <1>2, BlameInvariant, PTL

\* Rows withheld from a faithful answer are reported as gaps at exactly the
\* withheld positions and as a count, never as broken links (the build of
\* mapping-badserver-gap.ts that drops every fourth anchor).
THEOREM WithholdingAlwaysBlamedExactly == CheckerSpec => []WithholdingBlamedExactly
<1>1. ASSUME BlameInv, phase = "done", WithheldRows, Disclosed # ServedSeqs
      PROVE  findings = Report("GAP", Disclosed \ ServedSeqs) \cup {<<"COUNT-MISMATCH", NoPosition>>}
  <2> DEFINE n == Cardinality(Disclosed)
  <2>0. /\ CheckerTypeOK /\ WellFormedDisclosure(disclosed)
        /\ Disclosed \subseteq Nat /\ IsFiniteSet(Disclosed) /\ ServedSeqs \subseteq Nat
        /\ Len(rows) \in Nat /\ DOMAIN rows = 1 .. Len(rows)
    BY <1>1, RowParts DEF BlameInv, TypedInv, CheckerTypeOK, WellFormedDisclosure, Disclosed
  <2>1. n \in Nat /\ Disclosed = 0 .. (n - 1)
    BY <1>1, <2>0, FS_CardinalityType DEF WithheldRows
  <2>2. \A i, j \in DOMAIN rows : rows[i].seq = rows[j].seq => i = j
    BY <1>1 DEF WithheldRows
  <2>3. \A i \in DOMAIN rows :
          /\ ServedAt(rows[i].seq) = rows[i] /\ rows[i].seq \in Disclosed
          /\ rows[i].cd = disclosed[rows[i].seq].cd
          /\ rows[i].prev = disclosed[rows[i].seq].prev
          /\ rows[i].digest = disclosed[rows[i].seq].digest
    <3> SUFFICES ASSUME NEW i \in DOMAIN rows
                 PROVE  /\ ServedAt(rows[i].seq) = rows[i] /\ rows[i].seq \in Disclosed
                        /\ rows[i].cd = disclosed[rows[i].seq].cd
                        /\ rows[i].prev = disclosed[rows[i].seq].prev
                        /\ rows[i].digest = disclosed[rows[i].seq].digest
      OBVIOUS
    <3>1. ServedAt(rows[i].seq) = rows[i]  BY <2>0, <2>2, DistinctRows
    <3>2. /\ rows[i].seq \in Disclosed
          /\ rows[i] = [seq |-> rows[i].seq, cd |-> disclosed[rows[i].seq].cd,
                        prev |-> disclosed[rows[i].seq].prev,
                        digest |-> disclosed[rows[i].seq].digest]
      BY <1>1 DEF WithheldRows
    <3>3. PICK s, c, p, d : rows[i] = [seq |-> s, cd |-> c, prev |-> p, digest |-> d]
                            /\ c = disclosed[rows[i].seq].cd /\ p = disclosed[rows[i].seq].prev
                            /\ d = disclosed[rows[i].seq].digest
      BY <3>2
    <3>4. rows[i].cd = c /\ rows[i].prev = p /\ rows[i].digest = d  BY <3>3
    <3> QED  BY <3>1, <3>2, <3>3, <3>4
  <2>4. \A s \in ServedSeqs :
          /\ s \in Disclosed
          /\ ServedAt(s).cd = disclosed[s].cd /\ ServedAt(s).prev = disclosed[s].prev
          /\ ServedAt(s).digest = disclosed[s].digest
    BY <2>3 DEF ServedSeqs
  <2>5. SoundRows
    <3> HIDE DEF n
    <3>1. ASSUME NEW i \in DOMAIN rows PROVE ~Inconsistent(rows[i])
      <4>1. disclosed[rows[i].seq].prev # Null  BY <2>0, <2>1, <2>3, ContiguousIsResolved
      <4>2. disclosed[rows[i].seq].digest =
              Keccak(Envelope(Stream, rows[i].seq, disclosed[rows[i].seq].cd,
                              disclosed[rows[i].seq].prev))
        BY <2>0, <2>3, <4>1, DisclosedParts
      <4> QED  BY <2>3, <4>2 DEF Inconsistent, Rebuilt
    <3>2. ASSUME NEW s \in ServedSeqs, LinkResolves(s) PROVE LinkHolds(s)
      <4>1. CASE s = 0
        BY <2>0, <2>4, <4>1, DisclosedParts DEF LinkHolds
      <4>2. CASE s # 0
        <5>1. s - 1 \in ServedSeqs /\ s - 1 \in Disclosed
          BY <2>4, <3>2, <4>2 DEF LinkResolves
        <5>2. disclosed[s].prev = disclosed[s - 1].digest
          BY <2>0, <2>4, <4>2, <5>1, DisclosedParts
        <5> QED  BY <2>4, <4>2, <5>1, <5>2 DEF LinkHolds
      <4> QED  BY <4>1, <4>2
    <3> QED  BY <2>2, <3>1, <3>2 DEF SoundRows
  <2>6. findings = Gaps \cup RecordFindings \cup LastFindings  BY <1>1, <2>5, FinalBlame
  <2>7. ServedSeqs \subseteq Disclosed  BY <2>4
  <2>8. {s \in UpToHighWater : Gap(s)} = Disclosed \ ServedSeqs
    <3> HIDE DEF n
    <3>1. ASSUME NEW s \in UpToHighWater, Gap(s) PROVE s \in Disclosed \ ServedSeqs
      BY <2>1, <2>7, <3>1 DEF UpToHighWater, Gap
    <3>2. ASSUME NEW s \in Disclosed \ ServedSeqs PROVE s \in UpToHighWater /\ Gap(s)
      <4>1. s \in 0 .. s /\ s \in Disclosed \cup ServedSeqs  BY <2>0
      <4> QED  BY <3>2, <4>1 DEF UpToHighWater, Gap
    <3> QED  BY <3>1, <3>2
  <2>9. RecordFindings = {}
    <3>1. Differing = {}  BY <2>4 DEF Differing, Both
    <3>2. ServedSeqs \ Disclosed = {}  BY <2>7
    <3> QED  BY <3>1, <3>2, ReportOfNone DEF RecordFindings
  <2>10. Cardinality(Disclosed) # Len(rows)
    <3>1. Cardinality(ServedSeqs) = Len(rows)  BY <2>0, <2>2, AsManyRowsAsPositions
    <3>2. Cardinality(ServedSeqs) < Cardinality(Disclosed)
      <4>1. Cardinality(ServedSeqs) \in Nat /\ Cardinality(Disclosed) \in Nat
        BY <2>0, <3>1, FS_CardinalityType
      <4>2. Cardinality(ServedSeqs) <= Cardinality(Disclosed)
            /\ Cardinality(ServedSeqs) # Cardinality(Disclosed)
        BY <1>1, <2>0, <2>7, FS_Subset
      <4> QED  BY <4>1, <4>2
    <3> QED  BY <2>0, <3>1, <3>2
  <2>11. LastFindings = {<<"COUNT-MISMATCH", NoPosition>>}
    <3>1. Report("CONFLICT", contested) = {}  BY <1>1, ReportOfNone DEF WithheldRows
    <3> QED  BY <2>10, <3>1 DEF LastFindings
  <2> QED  BY <2>6, <2>8, <2>9, <2>11 DEF Gaps
<1>2. BlameInv => WithholdingBlamedExactly  BY <1>1 DEF WithholdingBlamedExactly
<1> QED  BY <1>2, BlameInvariant, PTL
=============================================================================
