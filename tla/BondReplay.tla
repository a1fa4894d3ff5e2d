----------------------------- MODULE BondReplay -----------------------------
(***************************************************************************)
(* bond-replay: `fetch' saves the served anchor set at a pinned block,     *)
(* `reconcile' later replays a disclosure against it and against the chain.*)
(*                                                                         *)
(* Between the two the chain goes on, and graph-node does too; as nothing  *)
(* reads its tables a second time, it is not interleaved after the fetch.  *)
(* The serving layer may serve another log than its tables hold, and the   *)
(* issuer may disclose other records than were anchored.  The attestation  *)
(* is assumed to verify: whoever serves also signs.                        *)
(*                                                                         *)
(* A record stands for its recomputed commitment.  Every way not to exit   *)
(* with 0 is one outcome, "FAIL", whether it is a failed check or an error.*)
(***************************************************************************)
EXTENDS BondSubgraph

CONSTANTS PAGE_LIMIT,   \* rows per collection in the audit query
          Tampering     \* which parties deviate: subset of {"server", "issuer"}

ASSUME ReplayAssumption ==
  /\ PAGE_LIMIT \in Nat \ {0}
  /\ Tampering \subseteq {"server", "issuer"}

VARIABLES bundle,  \* the audit bundle file: absent, or one
          report   \* the reconcile report: absent, or one

vars == <<bondVars, graphVars, bundle, report>>

-----------------------------------------------------------------------------
(* merkle.rs *)

\* Mutant: an unpaired node gets a zero sibling.
NextLevelZeroPadded(nodes) ==
  [i \in 1 .. (Len(nodes) + 1) \div 2 |->
     <<nodes[2 * i - 1], IF 2 * i <= Len(nodes) THEN nodes[2 * i] ELSE <<0>>>>]

NextLevel(nodes) ==
  [i \in 1 .. (Len(nodes) + 1) \div 2 |->
     <<nodes[2 * i - 1], IF 2 * i <= Len(nodes) THEN nodes[2 * i] ELSE nodes[2 * i - 1]>>]

BuildMerkleRoot(leaves) ==
  LET Level[k \in Nat] == IF k = 0 THEN [i \in DOMAIN leaves |-> <<leaves[i]>>]
                                   ELSE NextLevel(Level[k - 1])
      top == CHOOSE k \in 0 .. Len(leaves) :
               Len(Level[k]) = 1 /\ \A j \in 0 .. (k - 1) : Len(Level[j]) > 1
  IN Level[top][1]

\* An error unless every count is between one and the served leaves.
RootHistoryOK(leaves, counts) == \A i \in DOMAIN counts : counts[i] \in 1 .. Len(leaves)

RootHistory(leaves, counts) ==
  [i \in DOMAIN counts |-> BuildMerkleRoot(SubSeq(leaves, 1, counts[i]))]

-----------------------------------------------------------------------------
(* anchors.rs: the audit query and what is checked of its answer *)

VisibleAt(table, pin) == {id \in DOMAIN table : table[id].block <= pin}

\* The bond's address is served with its row: from the first call a handler ran
\* on, or from the first block walked.
BondAt(pin) ==
  LET served == IF deployment = "calls" THEN VisibleAt(store.lifecycleCalls, pin) # {} ELSE pin > 0
  IN IF served THEN "PrivateBond" ELSE "none"

InOrder(ids) ==
  [k \in 1 .. Cardinality(ids) |-> CHOOSE id \in ids : Cardinality({i \in ids : i < id}) = k - 1]

FirstPage(list) == SubSeq(list, 1, Min({Len(list), PAGE_LIMIT}))

\* Time-travel query: rows of blocks up to the pin, each list one page.
AuditAnswer(pin) ==
  LET leaves == InOrder(VisibleAt(store.commitments, pin))
      lifecycle == InOrder(VisibleAt(store.lifecycleCalls, pin))
  IN [bond |-> BondAt(pin),
      commitments |-> FirstPage([k \in DOMAIN leaves |->
                                   [leafIndex |-> leaves[k], value |-> store.commitments[leaves[k]].value]]),
      counts |-> FirstPage([k \in DOMAIN lifecycle |-> store.lifecycleCalls[lifecycle[k]].leafCountAfter]),
      nullifiers |-> Min({PAGE_LIMIT, Cardinality(VisibleAt(store.nullifiers, pin))}),
      roots |-> Min({PAGE_LIMIT, Cardinality(VisibleAt(store.rootClaimeds, pin))})]

\* A page that comes back full may be cut.
ParseOK(answer) ==
  /\ Len(answer.commitments) < PAGE_LIMIT
  /\ Len(answer.counts) < PAGE_LIMIT
  /\ answer.nullifiers < PAGE_LIMIT
  /\ answer.roots < PAGE_LIMIT

Indices(answer) == {answer.commitments[k].leafIndex : k \in DOMAIN answer.commitments}

\* Every index once, and none missing.
Contiguous(answer) == Indices(answer) = 0 .. (Len(answer.commitments) - 1)

OrderedCommitments(answer) ==
  [k \in 1 .. Len(answer.commitments) |->
     (CHOOSE row \in ToSet(answer.commitments) : row.leafIndex = k - 1).value]

Monotone(counts) == \A i, j \in DOMAIN counts : i < j => counts[i] <= counts[j]

-----------------------------------------------------------------------------
(* records.rs: a disclosure is the manifest with its records.  Entries are  *)
(* listed by leaf index, which must be contiguous for the manifest to load. *)

Disclosed(claim, record) == [class |-> "disclosed", commitment |-> claim, record |-> record]
BurnOutputZero(claim) == [class |-> "burn-output-zero", commitment |-> claim, record |-> claim]

IsRecord(entry) == entry.class = "disclosed"

\* What accounts for the leaf: the recomputed commitment, or the claimed one.
Accounts(entry) == IF IsRecord(entry) THEN entry.record ELSE entry.commitment

-----------------------------------------------------------------------------
(* reconcile.rs *)

RecordsOK(served, entries) ==
  \A k \in DOMAIN entries :
    IsRecord(entries[k]) => k \in DOMAIN served /\ served[k] = entries[k].record

\* A manifest that disagrees with its records is a failure of its own.
ManifestOK(entries) ==
  \A k \in DOMAIN entries : IsRecord(entries[k]) => entries[k].commitment = entries[k].record

\* Mutant: only disclosed leaves are looked for, not served ones.
AccountingOneWay(served, entries) == \A k \in DOMAIN entries : k \in DOMAIN served

AccountingOK(served, entries) ==
  /\ \A k \in DOMAIN served : k \in DOMAIN entries /\ Accounts(entries[k]) = served[k]
  /\ \A k \in DOMAIN entries : k \in DOMAIN served

\* The served call boundaries, or the manifest's if none were served.
Boundaries(answer, manifestCounts) ==
  IF answer.counts = <<>> THEN manifestCounts ELSE answer.counts

\* Mutant: one recorded root is enough.
SomeRootKnown(roots, block) == roots # <<>> => \E i \in DOMAIN roots : roots[i] \in KnownRoots(block)

RootsKnown(roots, block) == \A i \in DOMAIN roots : roots[i] \in KnownRoots(block)

\* Mutant: a leaf that is not in the array is passed over.
CrossCheckLenient(served, block) ==
  \A k \in DOMAIN served \cap DOMAIN LeavesAt(block) : LeavesAt(block)[k] = served[k]

\* --verify-onchain: the getter reverts beyond the array, which is an error.
CrossCheckOK(served, block) ==
  \A k \in DOMAIN served : k \in DOMAIN LeavesAt(block) /\ LeavesAt(block)[k] = served[k]

(***************************************************************************)
(* reconcile.  The chain is read at the node's latest block, once per root *)
(* and per leaf.  All reads are taken at one block here: roots and leaves  *)
(* are never removed, so a run whose reads are spread passes only if it    *)
(* would at the last block it read, and fails only if it would at the      *)
(* first.  Without an RPC endpoint every rebuilt root is a failure.        *)
(*                                                                         *)
(* What cannot be read is an error; of what can, every check is made,      *)
(* whichever fails.                                                        *)
(***************************************************************************)
\* open_chain: the contract named, else the one served.
Asked(answer, run) == IF run.contract = "named" THEN "PrivateBond" ELSE answer.bond

\* Another contract than the bond holds whatever is looked for.
OfAnother(answer, run) == Asked(answer, run) = "another"

Opens(answer, run) == run.rpc => Asked(answer, run) # "none"

Readable(answer, disclosure) ==
  /\ ParseOK(answer)
  /\ Contiguous(answer)
  /\ Monotone(answer.counts)
  /\ RootHistoryOK(OrderedCommitments(answer), Boundaries(answer, disclosure.counts))

Checks == <<"records", "manifest", "accounting", "on chain", "roots">>

CheckOK(check, answer, disclosure, run) ==
  LET served == OrderedCommitments(answer)
      counts == Boundaries(answer, disclosure.counts)
  IN CASE check = "records" -> RecordsOK(served, disclosure.entries)
       [] check = "manifest" -> ManifestOK(disclosure.entries)
       [] check = "accounting" -> AccountingOK(served, disclosure.entries)
       [] check = "roots" -> IF ~run.rpc THEN counts = <<>>
                              ELSE OfAnother(answer, run) \/ RootsKnown(RootHistory(served, counts), run.block)
       [] check = "on chain" -> run.rpc /\ run.verifyOnchain => OfAnother(answer, run) \/ CrossCheckOK(served, run.block)

Failures(answer, disclosure, run) == {check \in ToSet(Checks) : ~CheckOK(check, answer, disclosure, run)}

Passes(answer, disclosure, run) ==
  /\ Opens(answer, run)
  /\ Readable(answer, disclosure)
  /\ \A k \in DOMAIN Checks : CheckOK(Checks[k], answer, disclosure, run)

\* With an RPC endpoint, possibly behind the chain, or without one; over an
\* altered answer, as a bound, with one that has seen all of it.  Where the
\* address served is the bond's it makes no difference who names it.
Runs(answer, honest) ==
  [rpc : {TRUE}, contract : {"named"} \cup (IF answer.bond = "PrivateBond" THEN {} ELSE {"served"}),
   verifyOnchain : BOOLEAN, block : IF honest THEN 0 .. (head - 1) ELSE {head - 1}]
    \cup (IF honest
          THEN [rpc : {FALSE}, contract : {"named"}, verifyOnchain : {FALSE}, block : {0}] ELSE {})

-----------------------------------------------------------------------------
(* What the serving layer may serve, and the issuer disclose. *)

AllLeaves == LeavesAfter(Len(bondCalls))

\* 0 is a note nobody anchored.
Notes == 0 .. Len(AllLeaves)

\* One row of a list replaced, added or left out; rows[k] may be put in place k.
Rewrites(list, rows) ==
  {Append(list, row) : row \in rows[Len(list) + 1]}
    \cup {RemoveAt(list, k) : k \in DOMAIN list}
    \cup UNION {{[list EXCEPT ![k] = row] : row \in rows[k]} : k \in DOMAIN list}

\* Another log, under call boundaries that are cut or made to reach its end, or
\* a log that another contract holds.
AlteredAnswers(answer) ==
  LET list == answer.commitments
      rows == [k \in 1 .. (Len(list) + 1) |-> {[leafIndex |-> k - 1, value |-> v] : v \in Notes}]
      madeUp == [k \in DOMAIN list |-> [leafIndex |-> k - 1, value |-> 0]]
      Under(log) == Prefixes(answer.counts) \cup {Append(c, Len(log)) : c \in Prefixes(answer.counts)}
  IN {[answer EXCEPT !.commitments = madeUp, !.bond = "another"]} \cup
     UNION {{[answer EXCEPT !.commitments = log, !.counts = counts] : counts \in Under(log)} :
              log \in Rewrites(list, rows) \cup {list}}

AppendedByBurn(k) ==
  \E i \in DOMAIN bondCalls :
    bondCalls[i].fn = "BURN" /\ Len(LeavesAfter(i - 1)) < k /\ k <= Len(LeavesAfter(i))

\* The manifest and records of an issuer who tells what was anchored.
HonestDisclosure(pin) ==
  LET leaves == LeavesAt(pin)
  IN [entries |-> [k \in DOMAIN leaves |-> IF AppendedByBurn(k) THEN BurnOutputZero(leaves[k])
                                           ELSE Disclosed(leaves[k], leaves[k])],
      counts |-> [i \in 1 .. Cardinality(CallsUpTo(pin)) |-> Len(LeavesAfter(i))]]

\* One record altered, alone or with its entry in the manifest; one entry
\* reclassified, added or left out.
AlteredDisclosures(pin) ==
  LET honest == HonestDisclosure(pin)
      others == {Disclosed(v, v) : v \in Notes} \cup {BurnOutputZero(v) : v \in Notes}
      Records == {k \in DOMAIN honest.entries : IsRecord(honest.entries[k])}
      Contradicted == {[honest.entries EXCEPT ![k].record = v] : k \in Records, v \in Notes}
  IN {[honest EXCEPT !.entries = list] :
        list \in Rewrites(honest.entries, [k \in 1 .. (Len(honest.entries) + 1) |-> others]) \cup Contradicted}

\* Records made to fit what is served, whose manifest may name no boundaries.
FittingDisclosures(pin, answer) ==
  LET served == OrderedCommitments(answer)
      entries == [k \in DOMAIN served |-> Disclosed(served[k], served[k])]
  IN IF Contiguous(answer)
     THEN {[entries |-> entries, counts |-> c] : c \in {HonestDisclosure(pin).counts, <<>>}}
     ELSE {}

-----------------------------------------------------------------------------
(* The program: each of its two commands, run once. *)

Fetch ==
  /\ bundle = <<>>
  /\ \E pin \in 0 .. metaBlock :
       LET honest == AuditAnswer(pin)
       IN \E answer \in {honest} \cup (IF "server" \in Tampering THEN AlteredAnswers(honest) ELSE {}) :
            ParseOK(answer) /\ bundle' = <<[pin |-> pin, answer |-> answer, honest |-> answer = honest]>>
  /\ UNCHANGED <<bondVars, graphVars, report>>

Disclosures(pin, answer, honest) ==
  {HonestDisclosure(pin)} \cup
    CASE "issuer" \notin Tampering -> {}
      [] honest -> AlteredDisclosures(pin)
      [] OTHER -> FittingDisclosures(pin, answer)

Reconcile ==
  /\ bundle # <<>> /\ report = <<>>
  /\ \E run \in Runs(bundle[1].answer, bundle[1].honest),
        disclosure \in Disclosures(bundle[1].pin, bundle[1].answer, bundle[1].honest) :
       report' = <<[disclosure |-> disclosure, run |-> run,
                    pass |-> Passes(bundle[1].answer, disclosure, run)]>>
  /\ UNCHANGED <<bondVars, graphVars, bundle>>

Init == BondInit /\ GraphInit /\ bundle = <<>> /\ report = <<>>

Next ==
  \/ report = <<>> /\ BondNext /\ UNCHANGED <<graphVars, bundle, report>>
  \/ bundle = <<>> /\ GraphNext /\ UNCHANGED <<bondVars, bundle, report>>
  \/ Fetch
  \/ Reconcile

Spec == Init /\ [][Next]_vars

-----------------------------------------------------------------------------
(* Properties. *)

(***************************************************************************)
(* Type invariant: tables are filled without holes, and the Bond's running *)
(* totals are their sizes.                                                 *)
(***************************************************************************)
ReplayTypeOK ==
  /\ head \in 1 .. MaxBlock /\ metaBlock \in 0 .. (head - 1)
  /\ handled \in 0 .. Len(bondCalls)
  /\ DOMAIN store.commitments = 0 .. (store.bond.leafCount - 1)
  /\ DOMAIN store.lifecycleCalls = 0 .. (store.bond.callCount - 1)
  /\ Cardinality(DOMAIN store.nullifiers) = store.bond.nullifierCount
  /\ Len(bundle) \in 0 .. 1 /\ Len(report) \in 0 .. Len(bundle)

ServedLeaves == [k \in 1 .. store.bond.leafCount |-> store.commitments[k - 1].value]

ServedCountAfter(i) == store.lifecycleCalls[i - 1].leafCountAfter

ServedRoots(id) == {row.root : row \in {r \in Range(store.rootClaimeds) : r.call = id}}

(***************************************************************************)
(* The call handlers serve what the contract anchored: each leaf at its    *)
(* position in the array and under the call that appended it, the leaf     *)
(* count after each call, every spent nullifier, and every root a call     *)
(* cited.  The block walk serves a prefix of the array.                    *)
(***************************************************************************)
LogMirrorsCalls ==
  /\ deployment = "blocks" => IsPrefix(ServedLeaves, LeavesAt(metaBlock))
  /\ deployment = "calls" =>
       /\ ServedLeaves = LeavesAfter(handled)
       /\ DOMAIN store.nullifiers = ToSet(SpentAfter(handled))
       /\ \A i \in 1 .. handled :
            /\ store.lifecycleCalls[i - 1].fn = bondCalls[i].fn
            /\ ServedCountAfter(i) = Len(LeavesAfter(i))
            /\ \A k \in (Len(LeavesAfter(i - 1)) + 1) .. ServedCountAfter(i) :
                 store.commitments[k - 1].call = i - 1
            /\ ServedRoots(i - 1) = RootsCitedBy(bondCalls[i])

\* The served log itself reproduces every root a call cited, from before that call.
CitedRootsReplayed ==
  deployment = "calls" =>
    \A i \in 1 .. handled :
      RootsCitedBy(bondCalls[i]) \subseteq
        {BuildMerkleRoot(SubSeq(ServedLeaves, 1, ServedCountAfter(j))) : j \in 1 .. (i - 1)}

(***************************************************************************)
(* The served log is the contract's history, with the roots it stands for. *)
(* Once a bundle is saved nobody looks at the tables again.                *)
(***************************************************************************)
ServedLogExact == bundle = <<>> => LogMirrorsCalls /\ CitedRootsReplayed

Accounted == [k \in DOMAIN report[1].disclosure.entries |-> Accounts(report[1].disclosure.entries[k])]

ServedHonestly == bundle[1].honest
DisclosedHonestly == report[1].disclosure = HonestDisclosure(bundle[1].pin)

\* The auditor's node is not behind the block the bundle is pinned to.
NodeCaughtUp == report[1].run.rpc /\ report[1].run.block >= bundle[1].pin

\* The chain is asked about the bond.
BondAsked == report[1].run.rpc /\ Asked(bundle[1].answer, report[1].run) = "PrivateBond"

\* No block up to the pin outgrew the block walk.
WalkKeptUp ==
  deployment = "blocks" =>
    \A b \in 1 .. bundle[1].pin :
      Len(LeavesAt(b)) <= Len(LeavesAt(b - 1)) + MAX_NEW_LEAVES_PER_BLOCK

(***************************************************************************)
(* An honest issuer audited over an honest serving layer passes, whatever  *)
(* the chain did since the bundle was saved, with either build.            *)
(***************************************************************************)
HonestReplayPasses ==
  report # <<>> =>
    (ServedHonestly /\ DisclosedHonestly /\ NodeCaughtUp /\ BondAsked /\ WalkKeptUp => report[1].pass)

(***************************************************************************)
(* If the serving layer is honest, a PASS means the disclosure accounts    *)
(* for every leaf anchored up to the pinned block, in order, with a        *)
(* manifest that agrees with its records, and that the chain was asked.    *)
(***************************************************************************)
HonestServerPassIsComplete ==
  report # <<>> =>
    (ServedHonestly /\ WalkKeptUp /\ report[1].pass =>
       /\ Accounted = LeavesAt(bundle[1].pin)
       /\ \A e \in ToSet(report[1].disclosure.entries) : e.commitment = Accounts(e)
       /\ Accounted # <<>> => report[1].run.rpc)

(***************************************************************************)
(* Whatever is served and disclosed, a PASS with --verify-onchain means    *)
(* that the disclosed records are the first leaves of the array, provided  *)
(* the auditor names the contract or the one served is the bond.           *)
(***************************************************************************)
CheckedPassIsPrefix ==
  report # <<>> =>
    (report[1].pass /\ BondAsked /\ report[1].run.verifyOnchain =>
       IsPrefix(Accounted, LeavesAt(report[1].run.block)))

(***************************************************************************)
(* Whatever is served and disclosed, root replay alone binds the records   *)
(* up to the last call boundary it rebuilt: they begin with all that was   *)
(* anchored up to some call, and what follows can only repeat those notes. *)
(* Past that boundary it binds nothing.                                    *)
(***************************************************************************)
RootReplayBinds ==
  report # <<>> =>
    (report[1].pass /\ BondAsked =>
       LET counts == Boundaries(bundle[1].answer, report[1].disclosure.counts)
           Anchored == {LeavesAfter(i) : i \in CallsUpTo(report[1].run.block)}
       IN \A c \in ToSet(counts) :
            \E leaves \in Anchored :
              /\ IsPrefix(leaves, Accounted)
              /\ \A k \in (Len(leaves) + 1) .. c : Accounted[k] \in ToSet(leaves))

(***************************************************************************)
(* mapping-fallback-a.ts:23-26: the ordered log survives, so with the      *)
(* block walk "reconciliation and the root replay against knownRoots work  *)
(* unchanged": once the walk has caught up, an honest audit passes.        *)
(***************************************************************************)
ReplayWorksUnchanged ==
  (/\ report # <<>>
   /\ ServedHonestly /\ DisclosedHonestly /\ NodeCaughtUp /\ BondAsked
   /\ Len(bundle[1].answer.commitments) = Len(LeavesAt(bundle[1].pin)))
    => report[1].pass
=============================================================================
