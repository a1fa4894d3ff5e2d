---------------------------- MODULE AnchorAudit ----------------------------
(***************************************************************************)
(* `completeness-checker verify' (completeness-checker/cli.ts) at work     *)
(* while the owner, the chain and the subgraph of AnchorWriter go on.      *)
(*                                                                         *)
(* The auditor reads a disclosure bundle, then a source: the subgraph page *)
(* by page as it is at each request, the subgraph pinned to a block, or    *)
(* the chain.  Then he compares, and perhaps scans the chain as a second   *)
(* opinion.  Between these steps everyone else moves.                      *)
(*                                                                         *)
(* The comparison itself is CompletenessChecker, of which it is proved     *)
(* that it exits 0 exactly on a faithful answer; so FaithfulTo is its      *)
(* verdict here.                                                           *)
(***************************************************************************)
EXTENDS AnchorWriter, ChainScan, AnchorDisclosure

CONSTANTS PageSize,    \* PAGE_SIZE of graphql.ts
          Sources,     \* the sources the auditor may choose
          ScanFrom     \* --from-block: "0", or "manifest" when it is not given

AllSources == {"unpinned", "pinned", "chain"}

ASSUME AuditAssumption ==
  /\ PageSize \in Nat \ {0}
  /\ Sources \subseteq AllSources
  /\ ScanFrom \in {"0", "manifest"}

VARIABLE audit   \* the running or finished `verify'

auditVars == <<allVars, audit>>

NoAudit == [step |-> "none"]

NoAnswer == [anchors |-> <<>>, conflicts |-> <<>>, malformed |-> 0]

AuditInit == WriterInit /\ audit = NoAudit

-----------------------------------------------------------------------------
(* cmdVerify: the bundle is read once; `since' and `until' are the blocks   *)
(* graph-node (or the chain) had reached at the first and the last request, *)
(* `scanned' the last block the chain was scanned to.                       *)

\* Mutant: whether there is a disclosure is not looked at.
StartVerifyRegardless ==
  /\ audit = NoAudit
  /\ \E source \in Sources, crossCheck \in BOOLEAN :
       audit' = [step |-> "loading", bundle |-> disclosure, source |-> source,
                 crossCheck |-> crossCheck /\ source # "chain", answer |-> NoAnswer,
                 skip |-> 0, since |-> 0, until |-> 0, scanned |-> 0, exit |-> "none"]
  /\ UNCHANGED allVars

StartVerify ==
  /\ audit = NoAudit
  /\ disclosure # NoFile
  /\ \E source \in Sources, crossCheck \in BOOLEAN :
       audit' = [step |-> "loading", bundle |-> disclosure, source |-> source,
                 crossCheck |-> crossCheck /\ source # "chain", answer |-> NoAnswer,
                 skip |-> 0, since |-> 0, until |-> 0, scanned |-> 0, exit |-> "none"]
  /\ UNCHANGED allVars

\* The rows of all pages by position, in the order served where that is one.
SortedPages(list) ==
  LET Earlier(i, j) == list[i].seq < list[j].seq \/ (list[i].seq = list[j].seq /\ i < j)
      order == InOrder(DOMAIN list, {p \in (DOMAIN list) \X (DOMAIN list) : Earlier(p[1], p[2])})
  IN [n \in DOMAIN order |-> list[order[n]]]

ReachedBlock == IF indexed = 0 THEN 0 ELSE calls[indexed].tx

\* first: PAGE_SIZE, skip
Page(list) == SubSeq(list, audit.skip + 1, Min({audit.skip + PageSize, Len(list)}))

\* Mutant: a page is taken for full only if it holds more than it can.
PageOverfull(page) == Len(page) > PageSize

PageFull(page) == Len(page) = PageSize

\* Mutant: each page's conflicts replace those of the page before.
FetchPageForgets ==
  /\ audit.step = "loading"
  /\ audit.source = "unpinned"
  /\ LET now == IndexAnswer(audit.bundle.stream)
         rows == Page(now.anchors)
         competing == Page(now.conflicts)
         rejected == Page([i \in 1 .. now.malformed |-> i])
         more == PageFull(rows) \/ PageFull(competing) \/ PageFull(rejected)
         soFar == audit.answer.anchors \o rows
     IN audit' = [audit EXCEPT
          !.answer = [anchors |-> IF more THEN soFar ELSE SortedPages(soFar),
                      conflicts |-> competing,
                      malformed |-> audit.answer.malformed + Len(rejected)],
          !.skip = @ + PageSize,
          !.step = IF more THEN "loading" ELSE "loaded",
          !.since = IF audit.skip = 0 THEN ReachedBlock ELSE @,
          !.until = ReachedBlock, !.scanned = ReachedBlock]
  /\ UNCHANGED allVars

\* fetchServedIndex without a block: one request, answered from the tables as
\* they are; the loop ends with the first request none of whose lists is full.
FetchPage ==
  /\ audit.step = "loading"
  /\ audit.source = "unpinned"
  /\ LET now == IndexAnswer(audit.bundle.stream)
         rows == Page(now.anchors)
         competing == Page(now.conflicts)
         rejected == Page([i \in 1 .. now.malformed |-> i])
         more == PageFull(rows) \/ PageFull(competing) \/ PageFull(rejected)
         soFar == audit.answer.anchors \o rows
     IN audit' = [audit EXCEPT
          !.answer = [anchors |-> IF more THEN soFar ELSE SortedPages(soFar),
                      conflicts |-> @.conflicts \o competing,
                      malformed |-> @.malformed + Len(rejected)],
          !.skip = @ + PageSize,
          !.step = IF more THEN "loading" ELSE "loaded",
          !.since = IF audit.skip = 0 THEN ReachedBlock ELSE @,
          !.until = ReachedBlock, !.scanned = ReachedBlock]
  /\ UNCHANGED allVars

\* Pinned to a block, all requests are answered from the tables of that block,
\* here the one graph-node has just finished: the answer does not depend on
\* when, or in how many pages, it is asked for.
FetchPinned ==
  /\ audit.step = "loading"
  /\ audit.source = "pinned"
  /\ indexed < Len(calls) => calls[indexed + 1].tx # ReachedBlock
  /\ audit' = [audit EXCEPT !.answer = IndexAnswer(audit.bundle.stream), !.step = "loaded",
                            !.since = ReachedBlock, !.until = ReachedBlock,
                            !.scanned = ReachedBlock]
  /\ UNCHANGED allVars

FromBlock == IF ScanFrom = "0" THEN 0 ELSE audit.bundle.startBlock

\* The chain up to its head; blocks that are scanned do not change any more.
FetchChain ==
  /\ audit.step = "loading"
  /\ audit.source = "chain"
  /\ audit' = [audit EXCEPT !.answer = Scan(audit.bundle.stream, FromBlock, HeadTx),
                            !.step = "loaded",
                            !.since = HeadTx, !.until = HeadTx, !.scanned = HeadTx]
  /\ UNCHANGED allVars

\* An HTTP or GraphQL error, or a block graph-node does not have: exit code 1.
FetchFails ==
  /\ audit.step = "loading"
  /\ audit' = [audit EXCEPT !.step = "done", !.exit = "USAGE"]
  /\ UNCHANGED allVars

\* compareDisclosureToIndex: exit code 0, or that of its lowest finding.
Verdict ==
  LET recs == audit.bundle.recs
      expected == ComputeAnchors(audit.bundle.stream,
                                 [k \in 0 .. (Len(recs) - 1) |-> recs[k + 1]])
      competing == {audit.answer.conflicts[i] : i \in DOMAIN audit.answer.conflicts}
  IN IF FaithfulTo(expected, audit.answer.anchors, competing) THEN "OK" ELSE "FINDINGS"

Conclude ==
  /\ audit.step = "loaded"
  /\ ~audit.crossCheck
  /\ audit' = [audit EXCEPT !.step = "done", !.exit = Verdict]
  /\ UNCHANGED allVars

\* --to-block is the block of the answer, or not given: then it is the head.
\* A disagreement turns a pass into GAP.
CrossCheck ==
  /\ audit.step = "loaded"
  /\ audit.crossCheck
  /\ \E to \in {audit.until, HeadTx} :
       LET differences == CompareIndexes(audit.answer, Scan(audit.bundle.stream, FromBlock, to))
       IN audit' = [audit EXCEPT !.step = "done", !.scanned = to,
                                 !.exit = IF differences # {} /\ Verdict = "OK" THEN "GAP"
                                          ELSE Verdict]
  /\ UNCHANGED allVars

Verify == StartVerify \/ FetchPage \/ FetchPinned \/ FetchChain \/ FetchFails \/ Conclude
            \/ CrossCheck

AuditNext == Verify \/ (WriterNext /\ UNCHANGED audit)

AuditSpec == AuditInit /\ [][AuditNext]_auditVars
-----------------------------------------------------------------------------
(* Properties. *)

\* The type invariant of a `verify'.
AuditTypeOK ==
  \/ audit = NoAudit
  \/ /\ audit.step \in {"loading", "loaded", "done"}
     /\ audit.bundle # NoFile /\ FileOK(audit.bundle)
     /\ audit.source \in Sources
     /\ audit.exit \in {"none", "OK", "FINDINGS", "GAP", "USAGE"}
     /\ audit.step = "done" <=> audit.exit # "none"
     /\ audit.since <= audit.until
     /\ audit.until <= HeadTx /\ audit.scanned <= HeadTx

\* The envelopes anchored for the audited stream by the end of a block: those
\* of calls that did not revert.
AnchoredBy(block) ==
  {i \in DOMAIN calls : /\ Traced(calls[i])
                        /\ calls[i].tx <= block
                        /\ calls[i].payload \in Envelopes
                        /\ calls[i].payload.stream = audit.bundle.stream}

\* What the usage text of cli.ts promises: "A pass means the disclosed records
\* are exactly what was anchored".  The answer's requests are not made at one
\* moment: by the block of the first nothing else is anchored, at no position
\* and at none of the disclosed ones, and by the block of the last every record
\* is.
DisclosedIsAnchored ==
  LET recs == audit.bundle.recs
      Positions(block) == {calls[i].payload.seq : i \in AnchoredBy(block)}
      Disclosed == 0 .. (Len(recs) - 1)
  IN /\ Positions(audit.since) \subseteq Disclosed
     /\ Disclosed \subseteq Positions(audit.until)
     /\ \A i \in AnchoredBy(audit.since) :
          calls[i].payload.cd =
            CiphertextDigest(audit.bundle.stream, calls[i].payload.seq, recs[calls[i].payload.seq + 1])

PassMeansAnchored == audit.step = "done" /\ audit.exit = "OK" => DisclosedIsAnchored

NothingReverted(block) == \A i \in DOMAIN calls : calls[i].tx <= block => Traced(calls[i])

\* The same where it holds: for answers of the subgraph, however its pages are
\* interleaved with new anchors and new positions, and for scans from the first
\* block over transactions none of which reverted.  What is anchored during the
\* paging may be missed, at the next position too: the three lists share a skip,
\* which a full list moves past the end of a shorter one.
PassIsSound ==
  audit.step = "done" /\ audit.exit = "OK" /\ (audit.source = "chain" => NothingReverted(audit.until))
    => DisclosedIsAnchored

\* An owner who posted and disclosed one file honestly, however often a run was
\* cut short, passes every audit that reads one moment of a stream nobody else
\* posted to, at or after the archive's last block (no false alarm from reruns,
\* duplicates, late transactions, paging or the cross-check).
HonestOwnerPasses ==
  /\ audit.step = "done" /\ audit.exit # "USAGE"
  /\ changes = 0 /\ audit.bundle.submitted /\ ~ForeignOn(audit.bundle.stream)
  /\ audit.since = audit.until /\ audit.until = audit.scanned
  /\ audit.until >= audit.bundle.endBlock
  /\ NothingReverted(audit.until)
  => audit.exit = "OK"
=============================================================================
