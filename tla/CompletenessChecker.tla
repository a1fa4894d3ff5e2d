------------------------ MODULE CompletenessChecker ------------------------
(***************************************************************************)
(* compareDisclosureToIndex (completeness-checker/compare.ts): the verdict *)
(* on a disclosure, whose anchors are recomputed from the disclosed        *)
(* records, against the rows that some source served for the stream.       *)
(*                                                                         *)
(* Each pass of the code over the rows is one step.  The pass that follows *)
(* the served hash chain decides each link from the verdict on the one     *)
(* before, so there each position is a step of its own.                    *)
(*                                                                         *)
(* `disclosed' maps the disclosed positions to what was recomputed there;  *)
(* a link that rests on an undisclosed record is Null.  `rows' are the     *)
(* served rows in the order they came: a source that pages through a       *)
(* moving index can serve a position twice.                                *)
(***************************************************************************)
EXTENDS AnchorDisclosure

CONSTANTS Stream,       \* the audited stream
          Disclosures,  \* the disclosures that may be presented
          Servings,     \* the sequences of rows a source may serve
          Conflicts     \* the sets of positions it may list conflicts for

(***************************************************************************)
(* computeAnchors (anchor-core/stream.ts) as the equations its output      *)
(* satisfies: the link of a record is the digest of its predecessor's      *)
(* envelope, and without that predecessor neither link nor digest exists.  *)
(***************************************************************************)
Recomputed(d) ==
  \A s \in DOMAIN d :
    LET prev == IF s = 0 THEN ZERO32
                ELSE IF s - 1 \in DOMAIN d THEN d[s - 1].digest ELSE Null
        digest == IF prev = Null THEN Null ELSE Keccak(Envelope(Stream, s, d[s].cd, prev))
    IN d[s] = [cd |-> d[s].cd, prev |-> prev, digest |-> digest]

ServedRow(r) ==
  /\ r = [seq |-> r.seq, cd |-> r.cd, prev |-> r.prev, digest |-> r.digest]
  /\ r.seq \in Nat

\* Disclosed seqs are distinct (computeAnchors throws on a repeated one).
WellFormedDisclosure(d) ==
  /\ d = [s \in DOMAIN d |-> d[s]]
  /\ DOMAIN d \subseteq Nat
  /\ IsFiniteSet(DOMAIN d)
  /\ Recomputed(d)

WellFormedServing(v) ==
  /\ Len(v) \in Nat
  /\ v = [i \in 1 .. Len(v) |-> v[i]]
  /\ \A i \in 1 .. Len(v) : ServedRow(v[i])

ASSUME CheckerAssumption ==
  /\ \A d \in Disclosures : WellFormedDisclosure(d)
  /\ \A v \in Servings : WellFormedServing(v)
  /\ \A c \in Conflicts : c \subseteq Nat

VARIABLES phase,         \* the next pass
          disclosed, rows, contested,  \* the inputs
          findings,      \* pairs <<code, seq>>; NoPosition when the finding has no position
          inconsistent,  \* positions whose served row does not hash to its digest
          altered,       \* positions whose disclosed record is not what was anchored
          broken,        \* positions whose served link is broken
          unvisited,     \* served positions the chain pass has still to visit
          exitCode

checkerVars == <<phase, disclosed, rows, contested, findings, inconsistent, altered,
                 broken, unvisited, exitCode>>
inputs == <<disclosed, rows, contested>>

NoPosition == -1

Codes == {"ALTERED", "MISSING", "GAP", "CHAIN-BREAK", "CONFLICT", "ENVELOPE-MISMATCH",
          "COUNT-MISMATCH"}

ExitFor == [c \in Codes |->
  CASE c = "ALTERED" -> 2
    [] c = "MISSING" -> 3
    [] c = "GAP" -> 4
    [] c = "CHAIN-BREAK" -> 5
    [] c = "CONFLICT" -> 6
    [] c = "ENVELOPE-MISMATCH" -> 7
    [] c = "COUNT-MISMATCH" -> 8]

Report(code, positions) == {<<code, s>> : s \in positions}

-----------------------------------------------------------------------------
(* The two maps the code builds over its inputs. *)

Disclosed == DOMAIN disclosed

ServedSeqs == {rows[i].seq : i \in DOMAIN rows}

\* servedBySeq: a later row for a position replaces an earlier one.
ServedAt(s) ==
  rows[CHOOSE i \in DOMAIN rows :
         /\ rows[i].seq = s
         /\ \A j \in DOMAIN rows : rows[j].seq = s => j <= i]

Both == Disclosed \cap ServedSeqs

Rebuilt(r) == Keccak(Envelope(Stream, r.seq, r.cd, r.prev))

CheckerInit ==
  /\ phase = "idle"
  /\ disclosed = [s \in {} |-> Null]
  /\ rows = <<>>
  /\ contested = {}
  /\ findings = {}
  /\ inconsistent = {}
  /\ altered = {}
  /\ broken = {}
  /\ unvisited = {}
  /\ exitCode = 0

\* The comparison is called on a disclosure and an answer.
Compare(d, v, c) ==
  /\ phase' = "rows"
  /\ disclosed' = d
  /\ rows' = v
  /\ contested' = c
  /\ UNCHANGED <<findings, inconsistent, altered, broken, unvisited, exitCode>>

Called == phase = "idle" /\ \E d \in Disclosures, v \in Servings, c \in Conflicts : Compare(d, v, c)

\* Every row must hash to the digest it was served with.
Inconsistent(r) == Rebuilt(r) # r.digest

CheckRows ==
  /\ phase = "rows"
  /\ inconsistent' = {rows[i].seq : i \in {j \in DOMAIN rows : Inconsistent(rows[j])}}
  /\ findings' = findings \cup Report("ENVELOPE-MISMATCH", inconsistent')
  /\ phase' = "contiguity"
  /\ UNCHANGED <<inputs, altered, broken, unvisited, exitCode>>

\* Disclosed positions nobody serves, and served positions that leave a hole.
Gap(s) ==
  /\ s \notin ServedSeqs
  /\ s \in Disclosed \/ \E t \in ServedSeqs : s < t

\* Mutant: the loop stops one short of the high water mark.
CheckContiguityBelow ==
  /\ phase = "contiguity"
  /\ LET belowHighWater == UNION {0 .. (h - 1) : h \in Disclosed \cup ServedSeqs}
     IN findings' = findings \cup Report("GAP", {s \in belowHighWater : Gap(s)})
  /\ phase' = "records"
  /\ UNCHANGED <<inputs, inconsistent, altered, broken, unvisited, exitCode>>

CheckContiguity ==
  /\ phase = "contiguity"
  /\ LET upToHighWater == UNION {0 .. h : h \in Disclosed \cup ServedSeqs}
     IN findings' = findings \cup Report("GAP", {s \in upToHighWater : Gap(s)})
  /\ phase' = "records"
  /\ UNCHANGED <<inputs, inconsistent, altered, broken, unvisited, exitCode>>

\* Mutant: a record that is missing on one side counts as altered.
CompareRecordsEverywhere ==
  /\ phase = "records"
  /\ altered' = {s \in Disclosed \cup ServedSeqs :
                   s \notin Both \/ disclosed[s].cd # ServedAt(s).cd}
  /\ findings' = findings \cup Report("ALTERED", altered')
                          \cup Report("MISSING", ServedSeqs \ Disclosed)
  /\ unvisited' = ServedSeqs
  /\ phase' = "served chain"
  /\ UNCHANGED <<inputs, inconsistent, broken, exitCode>>

CompareRecords ==
  /\ phase = "records"
  /\ altered' = {s \in Both : disclosed[s].cd # ServedAt(s).cd}
  /\ findings' = findings \cup Report("ALTERED", altered')
                          \cup Report("MISSING", ServedSeqs \ Disclosed)
  /\ unvisited' = ServedSeqs
  /\ phase' = "served chain"
  /\ UNCHANGED <<inputs, inconsistent, broken, exitCode>>

-----------------------------------------------------------------------------
(* The served rows must chain: each link is the digest of the row before. *)

ServedRowTrusted(s) == s \notin inconsistent /\ s \notin broken

LinkResolves(s) == s = 0 \/ s - 1 \in ServedSeqs

LinkHolds(s) == ServedAt(s).prev = IF s = 0 THEN ZERO32 ELSE ServedAt(s - 1).digest

BreaksChain(s) ==
  /\ LinkResolves(s)
  /\ ~LinkHolds(s)
  /\ s = 0 \/ ServedRowTrusted(s - 1)

FollowServedLink ==
  /\ phase = "served chain"
  /\ \E s \in unvisited :
       /\ \A t \in unvisited : s <= t
       /\ unvisited' = unvisited \ {s}
       /\ broken' = IF BreaksChain(s) THEN broken \cup {s} ELSE broken
       /\ findings' = findings \cup Report("CHAIN-BREAK", broken' \ broken)
  /\ UNCHANGED <<phase, inputs, inconsistent, altered, exitCode>>

ServedChainDone ==
  /\ phase = "served chain"
  /\ unvisited = {}
  /\ phase' = "disclosed chain"
  /\ UNCHANGED <<inputs, findings, inconsistent, altered, broken, unvisited, exitCode>>

-----------------------------------------------------------------------------
(* The recomputed links must be the served ones, where they can be told. *)

\* Mutant: every predecessor is taken to agree.
AlwaysAgrees(s) == s \in Int

BothSidesAgree(s) ==
  \/ s < 0
  \/ /\ s \in Both
     /\ s \notin altered \cup inconsistent \cup broken
     /\ disclosed[s].digest # Null
     /\ disclosed[s].digest = ServedAt(s).digest

LinkDiffers(s) == disclosed[s].prev # ServedAt(s).prev

CompareChains ==
  /\ phase = "disclosed chain"
  /\ LET resolved == {s \in Both : disclosed[s].prev # Null}
         breaks == {s \in resolved : /\ LinkDiffers(s)
                                     /\ BothSidesAgree(s - 1)
                                     /\ s \notin broken}
         mismatched == {s \in resolved : /\ ~LinkDiffers(s)
                                         /\ disclosed[s].digest # Null
                                         /\ s \notin altered
                                         /\ disclosed[s].digest # ServedAt(s).digest}
     IN findings' = findings \cup Report("CHAIN-BREAK", breaks)
                             \cup Report("ENVELOPE-MISMATCH", mismatched)
  /\ phase' = "counts"
  /\ UNCHANGED <<inputs, inconsistent, altered, broken, unvisited, exitCode>>

LowestCode(found) ==
  IF found = {} THEN 0
  ELSE CHOOSE n \in {ExitFor[f[1]] : f \in found} : \A f \in found : n <= ExitFor[f[1]]

\* Mutant: the two sides are not counted.
ConcludeUncounted ==
  /\ phase = "counts"
  /\ findings' = findings \cup Report("CONFLICT", contested)
  /\ exitCode' = LowestCode(findings')
  /\ phase' = "done"
  /\ UNCHANGED <<inputs, inconsistent, altered, broken, unvisited>>

CountAndConclude ==
  /\ phase = "counts"
  /\ findings' = findings \cup Report("CONFLICT", contested)
                          \cup (IF Cardinality(Disclosed) # Len(rows)
                                  THEN {<<"COUNT-MISMATCH", NoPosition>>} ELSE {})
  /\ exitCode' = LowestCode(findings')
  /\ phase' = "done"
  /\ UNCHANGED <<inputs, inconsistent, altered, broken, unvisited>>

CheckerStep ==
  \/ CheckRows
  \/ CheckContiguity
  \/ CompareRecords
  \/ FollowServedLink
  \/ ServedChainDone
  \/ CompareChains
  \/ CountAndConclude

CheckerNext == Called \/ CheckerStep

CheckerSpec == CheckerInit /\ [][CheckerNext]_checkerVars
-----------------------------------------------------------------------------
(* Properties. *)

Phases == {"idle", "rows", "contiguity", "records", "served chain", "disclosed chain",
           "counts", "done"}

\* The type invariant: inputs of the shape the callers build, findings that
\* name a known code and a position, and sets of served positions.
CheckerTypeOK ==
  /\ phase \in Phases
  /\ WellFormedDisclosure(disclosed)
  /\ WellFormedServing(rows)
  /\ contested \subseteq Nat
  /\ findings \subseteq Codes \X (Nat \cup {NoPosition})
  /\ inconsistent \cup broken \cup unvisited \subseteq ServedSeqs
  /\ altered \subseteq Both
  /\ exitCode \in {0} \cup {ExitFor[c] : c \in Codes}

Faithful == FaithfulTo(disclosed, rows, contested)

\* The verdict is exact: the process exits 0 if and only if the disclosure is
\* faithful to what was served, whatever was disclosed and whatever was
\* served (the passes of compare.ts together leave no tamper unseen, however
\* it is combined with others, and raise no alarm without one).
VerdictExact == phase = "done" => (exitCode = 0 <=> Faithful)

\* The rows an honest index serves: positions from 0, self-consistent, chained.
HonestlyServed ==
  /\ \A i \in DOMAIN rows : rows[i].seq = i - 1
  /\ \A i \in DOMAIN rows : ~Inconsistent(rows[i])
  /\ \A s \in ServedSeqs : LinkHolds(s)

\* Against an honest index every finding names a record the discloser altered,
\* left out or made up: a changed record changes every later recomputed link,
\* and none of those is reported ("one tamper produces one finding",
\* compare.ts on DOWNSTREAM and UNRESOLVABLE-LINK notes).
DiscloserBlamedExactly ==
  phase = "done" /\ HonestlyServed =>
    findings =
      Report("ALTERED", {s \in Both : disclosed[s].cd # ServedAt(s).cd})
        \cup Report("MISSING", ServedSeqs \ Disclosed)
        \cup Report("GAP", {s \in UNION {0 .. h : h \in Disclosed} : s \in Disclosed \ ServedSeqs})
        \cup Report("CONFLICT", contested)
        \cup (IF Cardinality(Disclosed) = Cardinality(ServedSeqs) THEN {}
              ELSE {<<"COUNT-MISMATCH", NoPosition>>})

\* Rows withheld from an otherwise faithful answer are reported as gaps at
\* exactly the withheld positions and as a count, and nothing else is: the
\* links that rest on a withheld row are not failures (the dishonest build
\* that drops every fourth anchor: "GAP at exactly these positions").
WithheldRows ==
  /\ contested = {}
  /\ Disclosed = 0 .. (Cardinality(Disclosed) - 1)
  /\ \A i, j \in DOMAIN rows : i # j => rows[i].seq # rows[j].seq
  /\ \A i \in DOMAIN rows :
       /\ rows[i].seq \in Disclosed
       /\ rows[i] = [seq |-> rows[i].seq, cd |-> disclosed[rows[i].seq].cd,
                     prev |-> disclosed[rows[i].seq].prev,
                     digest |-> disclosed[rows[i].seq].digest]

WithholdingBlamedExactly ==
  phase = "done" /\ WithheldRows /\ Disclosed # ServedSeqs =>
    findings = Report("GAP", Disclosed \ ServedSeqs) \cup {<<"COUNT-MISMATCH", NoPosition>>}

\* compare.ts on its findings: "A chain link whose predecessor is already
\* flagged (altered, absent, or itself broken) is reported as a downstream
\* note", so a chain break never follows a flagged position.
FindingsDoNotCascade ==
  \A f \in findings :
    f[1] = "CHAIN-BREAK" /\ f[2] > 0 =>
      /\ f[2] - 1 \notin altered \cup broken
      /\ f[2] - 1 \in ServedSeqs
=============================================================================
