# Verification project: private bond audit replay and encrypted anchoring

TLA+ models of the two programs of this repository and of the proxy in front of
them, the TLC runs that check them on small instances, and the theorems TLAPS
proves about them. Paths below are relative to `src/`; `02/` and `01/`
abbreviate `items/02-encrypted-anchoring/src/` and
`items/01-private-bond-replay/src/`.

Run a model check with `tlc -config <cfg> <module>`, a proof with
`tlapm <module>_proofs.tla`. `PROJECT.json` maps every definition that models
code to the lines it models.

## 1. The system

### Item 02, encrypted anchoring

An owner keeps a file of records secret and anchors it: record k becomes an
envelope (stream, position k, digest of the ciphertext, digest of the envelope
before) posted as calldata. A subgraph serves what was posted. Later the owner
discloses records and key, and an auditor checks the disclosure against what is
served, or against the raw chain.

| Component | State | Operations | Hard parts |
|---|---|---|---|
| anchor-core (`02/anchor-core/`) | none | encode/decode envelopes, encrypt, `computeAnchors` | a link exists only if the predecessor is known |
| AnchorDataEdge (`02/contracts/src/`) | none: calldata only | `postAnchor(bytes)` by anyone | no order, no authorship, contract callers, reverted calls |
| subgraph mapping (`02/subgraph/src/anchor.ts`, same file in `subgraphs/`) | Stream, Anchor, ConflictingAnchor, MalformedAnchor tables | `indexAnchorCall` per call trace; two dishonest builds | any order of positions, duplicates, competition, ids that collide |
| anchor-writer (`02/anchor-writer/`) | keystore, archive, disclosure files; pending transactions | `init`, `post` (also dry run), `disclose` | the archive is written last; crashes, timeouts, reverts, reruns, edited records |
| completeness-checker (`02/completeness-checker/`) | none | `compareDisclosureToIndex`, `compareIndexes`, `scanChain`, `fetchServedIndex`, `verify` | findings that suppress findings; pages of a moving index; two sources read at two moments |

Interactions: the writer reaches the contract through an RPC node (mempool,
receipts), the contract reaches the subgraph through call traces, the checker
reads the subgraph page by page, the chain block by block and the disclosure
from files.

### Item 01, private bond audit replay

| Component | State | Operations | Hard parts |
|---|---|---|---|
| PrivateBond (external contract) | commitments, nullifiers, roots | mint, mintBatch, transfer, burn, atomicSwap | not in this repository |
| AnchoredAuditLog (`01/contracts/src/`) | records, anchored roots, last index | `commitRecord`, `anchorRoot` | ranges anchored out of order |
| bond subgraph (`01/subgraph/src/`) | Bond, LifecycleCall, Commitment, Nullifier, RootClaimed | one handler per entry point; block-handler fallback | order of leaves within a call, short input arrays, the cap of the block walk |
| `fetch`, `reconcile` (`01/replay/src/`) | the saved bundle, the report | audit query at a block, Merkle replay, accounting, on-chain cross-check | two sources at two blocks; boundaries that are served too |
| `consistency`, `verify-attestation` (`main.rs`, `consistency.rs`) | report, saved bundles | pin a block, list indexers, ask each, sample, collect, classify | who counts as independent; routes that answer with someone else; evidence that must survive |
| `tamper` (`tamper.rs`) | none | three tripwires | each must be caught by its own check, not by another |
| attestations, gateway client (`attestation.rs`, `gateway.rs`) | none | four offline checks, signer resolution, request rewriting | what the signature covers is not what the client posts |

Interactions: call traces (or the array itself, per block) reach the subgraph,
`fetch` saves one attested answer pinned to a block, and `reconcile` compares
that file later with the issuer's records and with the chain as the auditor's
node then sees it. `consistency` asks several indexers the identical query
through the gateway, which may pick, fail or meddle, and asks the network
subgraph who is behind each signature.

### Shared

| Component | State | Operations | Hard parts |
|---|---|---|---|
| attested query proxy (`worker/src/index.js`) | edge cache, rate counters | one request handler | read-then-write counters, a cache filled after the answer |
| verification page (`site/partials/verify.tail.js`) | none | bond and stream checks in the browser | none beyond those of the checks it repeats |
| deployment, seeding, integration scripts, documentation site | none | run once | no logic of their own |

What makes each correct, in the order of importance:

1. **Mapping**: its tables are a function of the calls it handled. First
   envelope wins, copies are counted, competitors are kept, nothing is taken back.
2. **Checker**: exit code 0 if and only if the disclosure is faithful to what
   was served; findings name the position that was tampered with.
3. **Writer**: rerunning after any failure never makes the owner conflict with
   himself, leaves no hole, and in the end serves each record exactly once;
   an archive marked submitted is true.
4. **Audit as a whole**: a PASS through index, pages and scan means what the
   usage text says, and an honest owner gets one.
5. **Bond subgraph**: the served log is the contract's array, with its call
   boundaries. **Replay CLI**: honest parties pass whatever the chain did in
   between; a PASS binds what the checks it ran can bind, and no less; a
   tripwire counts as caught only where it was set.
6. **Consistency**: a PASS is that many distinct staked indexers over the same
   bytes; honest head drift is no divergence; divergence leaves its evidence on
   file; the command ends.
7. **Proxy**: no visitor gets more than the limit but by counts that were lost,
   none is refused before having had it, and every answer verifies.

The hazards behind these, each at its line, are listed in `PROJECT.json`.

## 2. Modules

```
AnchorEnvelope            envelopes, digests
   AnchorChain            the log of calls; who may post, how calls share a transaction
      AnchorIndex         the mapping (4 tables)          AnchorIndex_proofs
         AnchorWriter     the writer, mempool, files      AnchorWriter_proofs
                          (implements RecordLog)
         ChainScan        the raw scan against the index
            AnchorAudit   verify, over the writer and   AnchorAudit_proofs
                          ChainScan
   AnchorDisclosure       computeAnchors, faithfulness
      CompletenessChecker the verdict                     CompletenessChecker_proofs
RecordLog                 abstract: each record appended once, in order
BondContract              external: the bond's calls, array and roots
   BondSubgraph           both builds of the subgraph over them
      BondReplay          fetch and reconcile             BondReplay_proofs
Attestation               what an attestation binds
   Tamper                 tamper, over BondReplay         BondAudit_proofs
   Gateway                requests, routes, the client
      Consistency         consistency, verify-attestation Consistency_proofs
      Proxy               the worker                      Proxy_proofs
MC*.tla, MC*.cfg          instances for TLC
```

**AnchorEnvelope.** An envelope is a record of its four fields; `Keccak` is an
injective constructor, so equal digests come from equal envelopes only.
Encryption is deterministic, and a ciphertext digest is the triple of stream,
position and plaintext. The collision-freedom of both is assumed.

**AnchorChain.** `calls` is the log of `postAnchor` calls in block order. A call
is a top-level transaction that succeeded, one that was mined and reverted, or a
call another contract made; only the last kind may share a transaction. Every
transaction has a block of its own, so `tx` is both hash and block number.

**AnchorIndex.** One action per way through `indexAnchorCall`: `RecordMalformed`,
`WithholdAnchor` (dishonest build), `FirstAnchor`, `DuplicateAnchor`,
`ConflictAnchor`; each includes the stream update and the saves of that path.
`Save` is `entity.save()`: it overwrites. ConflictingAnchor and MalformedAnchor
are immutable entities, but their id names the transaction, so one id is only
ever saved within one block, where the last save wins (finding 5).
`SkipReverted` is graph-node: a reverted call leaves no
trace the handler is run on. Raw envelope bytes, submitters and timestamps are
left out.

**CompletenessChecker.** One step per pass of `compareDisclosureToIndex`; the
pass over the served chain takes one step per position because each link is
judged by the verdict on the one before. `findings` holds pairs of code and
position, which is what `addFinding` keeps distinct. `computeAnchors` is modelled
by the equations its output satisfies (`Recomputed`). Notes and the summary
counters are left out: no decision depends on them. `CountAndConclude` is what
follows the passes: the count of rows, the conflicts and the exit code.

**AnchorWriter.** `post` is `StartPost`, then `Submit` and `ReceiptSucceeds` per
record, then `FinishPost`; a reverted or lost transaction ends the run in
`ReceiptFails`, a crash in `Crash`, both without a file. `mempool` outlives the
run. `MineWriterTx` takes it in nonce order, `EvictWriterTx` drops a suffix
(what is behind a dropped nonce cannot be mined). `EditRecords`, `InitKeystore`
(`init --force`) and `Disclose` are the owner's; `MayForce` says whether he ever
passes `--force`. It EXTENDS AnchorIndex: the chain and the tables are the same
variables.

**AnchorDisclosure** holds `computeAnchors` as a function and `FaithfulTo`, what
a PASS claims. The checker is proved to exit 0 exactly then, so AnchorAudit uses
`FaithfulTo` as the verdict instead of stepping through the passes again.

**ChainScan.** `Scan` is `scanChain` over a range of blocks, written over the
log of calls as a whole (first call at a position, calls that differ from it);
the mapping does the same one call at a time over tables. `CompareIndexes` is the
cross-check. The scan sees reverted transactions and no contract-made calls.

**AnchorAudit.** `verify` as one process beside the owner, the chain and
graph-node: `StartVerify` reads the bundle, then one of `FetchPage` (per request,
three lists with one `skip`), `FetchPinned`, `FetchChain`, then `Conclude` or
`CrossCheck`. `since`, `until` and `scanned` only remember which blocks the
answers came from, for the properties.

**RecordLog.** What anchoring promises without chain and crashes: each record of
the file is appended once, in order. `AnchorWriter!Log` maps the anchors served
for the stream to that log.

**BondContract** (external). `bondCalls` is the log of successful calls, each
with the array and the spent nullifiers it left; `knownRoots` is derived. Salted
notes are fresh, so the k-th leaf is the number k. `AnchoredRoot` defines the
root from the top down, independently of the CLI's level-by-level
`BuildMerkleRoot` that is checked against it. Poseidon is an injective pair.

**BondSubgraph.** `deployment`, chosen once, is the build. Each of the five call
handlers is one action, composing the source's helpers (`RecordCall`,
`MarkNullifiers`, `AppendCommitments`, `RecordClaimedRoot`, `FinalizeCall`) over
one value `store`, in the source's order. The loops over a call's arrays are
written in closed form: row k of the loop is the row at the running count plus
k. `FinishBlock` makes an indexed block visible to queries. `HandleBlock` is the
whole fallback handler with its capped walk over the array.

**BondReplay.** `Fetch` saves the answer for any indexed block, marked `honest`
if it is what the tables hold; `Reconcile` runs once, with or without RPC and
`--verify-onchain`, at any block the auditor's node may be at, over the contract
he names or the one the answer names. It opens the chain (`Opens`), reads the
answer (`Readable`: an error otherwise) and makes all five `Checks`, whichever
fails. A disclosure entry is a record, standing for its recomputed commitment,
or a zero output of a burn. An altered answer is the true one with a row
rewritten, added or dropped and with its call boundaries cut or made to reach
the end, or a made-up log of another contract; an altered disclosure the like, or
records made to fit an altered answer. The many reads of a run are taken at one
block: roots and leaves are never removed, so spread reads pass only if all
would at the last block and fail only if one would at the first. Here the
attestation is assumed to verify, which says who serves and not what; Tamper and
Consistency check it.

**Attestation.** A signature is a constructor over domain, request, response and
deployment, with the key that made it. Recovering it under another domain or for
other digests gives the address of a key nobody holds, never that of a stranger:
`Address` is a sequence of one key, what a mismatch recovers is a pair. The four
offline checks are each a Boolean, all made whichever fails.

**Gateway.** What the client posts is not what the indexer signs over:
`CanonicalRequest` is the gateway's rewriting, `CanonicalRequestString` the
client's reconstruction of it. The main route answers with whom it likes, the
targeted one with the indexer named. `FetchResult` fails closed on an answer
without an attestation.

**Consistency.** The command request by request: `Pin`, `FetchActiveIndexers`,
`AskIndexer` per candidate, `Collect` (offline checks and resolution of one
answer), `FallBack` to `Sample` on the main route, `WriteReport`; then
`VerifyAttestation` on any file left, altered or not. `inFlight` is the answer
fetched and not yet resolved: between the two the network moves
(`CloseAllocation`, `WithdrawStake`, `Advance`). Indexers are honest, write the
same data in other bytes, or lie; the gateway misroutes, alters, re-signs,
garbles, strips and replays. The answer to `_meta` is not checked, so whoever
gives it chooses the pin.

**Proxy.** One handler of many: `Arrive` (all that is declined before the cache,
the kill switch included), `Lookup`, `ReadCounter`, `WriteCounter`, `AskGateway`, then
`Fill` after the answer has been given, or never. Cache entries expire with the
clock; an evicted counter is `EvictCounter`. `admitted` and `lost` are history,
for the properties.

**Tamper.** EXTENDS BondReplay and Attestation: on a saved bundle and the
issuer's files, one of the three tripwires, each with the check that must fail.
The attestation of the saved bundle is checked, and re-signed with a throwaway
key by the third. Whether a commitment with another first digit is still below
the field order is a choice (`inField`), since both happen to honest commitments
(finding 7).

The proof modules hold the theorems of section 4; each EXTENDS its component and
adds only lemmas, invariants and proofs.

**MC modules.** Each instantiates one component. Three put two of them in one run.
`MCVerify` (the command at work, or its comparison pass by pass) and
`MCBondAndProxy` (the audit of the bond, or the proxy) have a variable, chosen in
the initial state, that says which of the two acts; the other stays in an initial
state, so no behaviour of either is lost. `MCAnchoring` has an owner, next to a
foreign poster, or no owner (`NoOwner` in place of a running `post`) and anyone
posting everything. Both are on the same index, and every property is checked of
both. `OthersSucceed`, the constraint of that run, bounds what others post next to
an owner to top-level transactions that succeed.

## 3. Runs

| Run | Instance | Shows |
|---|---|---|
| anchoring | *anyone*: 7 payloads over two streams (first, competing, second and fourth position, two undecodable), 4 calls: top-level, contract-made in shared transactions, reverted. *The owner*: two files differing in the first record, 2 streams, 1 edit or new keystore, 1 failure, a foreign poster whose transactions succeed, 4 calls. The build that withholds every fourth anchor | `TypeOK`, `FirstEnvelopeWins`, `StreamSummaryExact`, `ConflictsReported`, `CrossCheckExact` (scan and index differ exactly where build, reverts or callers make them), `ServedOnlyGrows`; `NoPositionSkipped`, `ChainHoldsUnlessConflict`, `ArchiveIsOnChain`, `ArchivedIsServedOrDisputed` |
| index_reverted | three competing envelopes, some reverted | **violation** of `ScanIsReference` (finding 2) |
| index_dropped | three competing envelopes, calls made by contracts | **violation** of `NothingDropped` (finding 5) |
| writer_retry | one file of 2 records, 2 failures of any kind, `--force` after a dry run, fairness | `WriterTypeOK`, `RetriesNeverConflict`, `ServedExactlyOnce` (refinement of RecordLog with liveness) |
| verify | *the command*: files of 1 and of 2 records, 1 failure, a stranger who competes, anchors out of order and posts junk, 4 calls, pages of one row, all three sources. *The comparison*: all disclosures of up to 3 records over 2 contents, all servings of up to 3 rows right or wrong in each field, repeated rows, conflicts or none | `AuditTypeOK`, `PassIsSound`, `HonestOwnerPasses`; `CheckerTypeOK`, `VerdictExact`, `DiscloserBlamedExactly`, `WithholdingBlamedExactly` |
| checker_cascade | the comparison alone | **violation** of `FindingsDoNotCascade` (finding 1) |
| audit_manifest | two files, 1 failure, 1 edit, chain source with the default `--from-block` | **violation** of `PassMeansAnchored` (finding 3) |
| bond_and_proxy | *the bond*: up to 3 calls of all five kinds, empty batches and batches of three, 4 leaves, 2 closed blocks, either build, every pin, altered and honest answers and disclosures, then a tripwire. *The proxy*: 2 handlers, 2 visitors, 3 deployments of which 2 served, an allowance of 2, 4 requests, 2 windows | `ReplayTypeOK`, `ServedLogExact`, `HonestReplayPasses`, `HonestServerPassIsComplete`, `CheckedPassIsPrefix`, `RootReplayBinds`, `CaughtWhereExpected`, `TripwiresExactInField`; `ProxyTypeOK`, `AllowanceHolds`, `RefusalJustified`, `AnswersVerify` |
| bond_walk | a batch of three under a walk of at most two leaves a block, honest parties | **violation** of `ReplayWorksUnchanged` (finding 4) |
| tamper_field | one call, honest parties, each tripwire | **violation** of `TripwiresCaughtAsDocumented` (finding 7) |
| consistency | 2 indexers, 3 allocations on the deployment and one elsewhere, every way the gateway deviates, one departure of the network at a time, one move of it during the command | `ConsistencyTypeOK`, `PassIsReal`, `NoFalseDivergence`, `HonestAgreementPasses`, `EvidenceKept`, `VerifiedIsAttributed`, `CommandEnds` |
| consistency_evidence | the same indexers sampled on the main route, one of them lying, a gateway that alters answers | **violation** of `DivergencePreserved` (finding 6) |

**What some properties say, and why not more.**

- What root replay alone does not bind is stated by `RootReplayBinds`, and is the
  reason `CheckedPassIsPrefix` asks for `--verify-onchain`: rows past the last
  served boundary are under no root, and since an unpaired node is hashed with
  itself, the log 1, 2, 3, 3 has the root of 1, 2, 3. The attested answer names
  its boundaries, so only who serves can do this, never an issuer alone
  (`HonestServerPassIsComplete`).
- `PassIsSound` places the disclosed records between what was anchored by the
  first request and by the last one. Unpinned paging is no snapshot: the lists of
  `fetchServedIndex` share one `skip`, so what joins a short list after a long
  one has moved the `skip` past it is not fetched. A file of one record shows it
  (a position anchored meanwhile is missed); a pinned answer or a scan has one
  request, and there the two bounds meet.
- `ConflictsReported` asks for the row of an envelope that is alone, in its
  transaction, in competing for its position; that every one gets a row, as the
  comment on the handler has it, is `NothingDropped`, which fails (finding 5).
- `EvidenceKept` is about commands that reach their report. One that ends before
  it keeps nothing (`DivergencePreserved`, finding 6); a theorem says that only
  an answer failing its offline checks does that after answers diverged.
- `PassIsReal` is about the verdict. On the way, signers whose allocation cannot
  be resolved do count as distinct (`consistency.rs:133`); the report still
  fails, because they are listed as unresolved.
- `AllowanceHolds` has the counts that concurrent requests lose as a term: the
  limiter reads, decides and writes back (`worker/src/index.js:62`).
- `CaughtWhereExpected` is about tripwires reported as caught, whatever was served
  and disclosed. That honest files make each of them caught is
  `TripwiresExactInField`, and only while the commitment the third tripwire
  alters is still below the field order: past it the tripwire is an error
  (`TripwiresCaughtAsDocumented`, finding 7).
- A reconcile without `--contract` asks the contract the answer names
  (`main.rs:735`), so the serving layer chooses what it is compared with.
  `onchain.rs:9-10` says that nothing about the check requires trusting the
  indexer; that holds with `--contract` only. `CheckedPassIsPrefix` and
  `RootReplayBinds` ask for a run over the bond, and no property covers the others.
- `onchain.rs:5-8` says that a serving layer that alters the log fails root
  replay, and `reconcile.rs:124-126` writes into every report that one "fails this
  check". `RootReplayBinds` is what is true of it: the leaves under the served
  boundaries are the contract's up to a repeated tail. So an altered log passes
  root replay if the alteration is past the last served boundary, if no boundary
  is served and the manifest has none either, if it repeats the tail of an odd
  level, if it drops calls from the end, or if the address served is another
  contract's. The cross-check of `--verify-onchain` finds the first three;
  dropped calls pass it too, since an array that has grown since the pin looks
  the same (`CheckedPassIsPrefix` says prefix); the last is the item above.
- The cross-check reads at the node's latest block (`main.rs:744`), each read for
  itself, although `onchain.rs:31-32` speaks of one block. The verdict is still
  one that some single block gives (section 2, BondReplay).

**Bounds.** `MaxCalls` bounds the log, `MaxFailures` crashes, evictions and
reverts, `MaxChanges` edits and new keystores. Four calls are enough for a
position to be taken, copied and competed for twice, or for two positions in the
wrong order plus a copy and a competitor; two files of two records and one
failure are enough for a run cut short in the middle, an edit, and a full second
The anchoring run has one of the three builds; the theorems cover all of them.
In writer_retry six calls hold every transaction two failures can produce, so the
bound never stops the loop: 2 records, restarted twice, are at most 6
submissions. Pages of one row make an audit of two records page three times, the
last time an empty page, with the index moving in between. Three positions let a
chain finding be preceded by a finding that is itself preceded by one.

In bond_and_proxy four leaves reach the odd-node rule at two levels (three leaves,
and a list whose tail repeats); `MAX_NEW_LEAVES_PER_BLOCK` is 3 there, so one
block can outgrow the walk, and 2 in bond_walk; the real cap is 512. `PAGE_LIMIT`
is 5, for 1000, so that what is honestly anchored fits and an altered answer of
five rows is refused; that an honest log of a full page is refused too, and not
taken for all there is, is left to the theorem `PassIsComplete`. An altered answer is audited only with the node at the head
of the chain, an honest one also with a node behind.

In consistency two indexers, one of them with two allocations, are the least that
tell allocations from indexers (`MinSigners` is 2), and the allocation elsewhere
lets a signature come from the wrong deployment. Two blocks let heads differ by
one, `MaxMoves` lets one allocation close, one stake go or one head advance
between two requests. Three sampling attempts and two candidates (`FIRST`) reach
both loops' limits and a repeated answer. `MCSetups` takes departures from the
well-behaved network one at a time; the theorems need no such restriction.

Of the proxy, two handlers are what a lost count or a double fill takes, four
requests exceed an allowance of two by a lost count and still leave one refused,
and a clock of two moments with a window and a time to live of one lets counter and
cache entry each expire between the steps of a handler. Handlers, visitors and
served deployments are interchangeable, hence the symmetry: these model values
occur in the proxy's variables only, and the run has no liveness property.

`CHECK_DEADLOCK FALSE` everywhere: at the bounds, after a verdict, a report, a
post or an answer, the program really is done.

**Fairness.** writer_retry: weak fairness of each step of the posting loop (a
sequential async function), of mining what is broadcast and of indexing, and of
the owner starting `post` again until an archive says it was submitted. The last
is an assumption about the owner, not about the code; nothing else is retried
automatically. Crashes, reverts and evictions are bounded, not fair.
consistency: weak fairness of the command as a whole, again one sequential
function. That every request it awaits ends is an assumption on the transport:
the HTTP client sets no timeout.

### Findings

1. *An ALTERED position can be followed by a CHAIN-BREAK* (`checker_cascade`):
   `compare.ts:86-88` says that a link whose predecessor is altered is only a
   note; `servedRowTrusted` (`compare.ts:196`) does not consult `altered`. The
   exit code is the same; the number of findings is not.
2. *A reverted postAnchor is an anchor to the raw scan* (`index_reverted`):
   `chain.ts:40-44` filters by recipient and selector and reads no receipt;
   `chain.ts:18-21` calls the scan the reference implementation of the mapping's
   rules. Without reverted and contract-made calls the two agree
   (`CrossCheckExact`).
3. *A chain audit with the default start block can pass what is not anchored*
   (`audit_manifest`): `cli.ts:107` starts at the manifest's `startBlock`, the
   first receipt of the last run. A first run cut short after position 0, an
   edited record, a second run: the scan starts behind the first envelope and
   takes the second for it. `cli.ts:56-57` says a pass means that the records are
   exactly what was anchored. With `--from-block 0` it does (`PassIsSound`).
4. *A block with more leaves than the walk's cap spoils every later audit*
   (`bond_walk`): `mapping-fallback-a.ts:72` stops in the middle of a call and
   serves a `leafCountAfter` that no call ended at. `knownRoots` has no such
   root, and `reconcile` rebuilds one for every served boundary, so an honest
   audit fails for good; the manifest's boundaries would do, but are used only if
   none are served. The comment at 23-26 says the replay works unchanged, the one
   at 37-38 that the walk merely resumes.
5. *Two competing envelopes in one transaction leave one conflict row*
   (`index_dropped`): `anchor.ts:164` makes the id from position and transaction,
   so the second is saved over the first, while `conflictCount` counts both. It
   takes a contract that calls `postAnchor` twice. `anchor.ts:86-88` says nothing
   is dropped and a second different envelope becomes a ConflictingAnchor.
6. *Divergence evidence is lost when a later answer is bad*
   (`consistency_evidence`): bundles are written last, and an answer that fails
   its offline checks ends the command through `collect(...).await?`
   (`main.rs:556`, `577`), also when answers collected before it diverged.
   `main.rs:628` says divergence evidence is always preserved, `main.rs:210` that
   bundles are always written on divergence.
7. *The third tripwire may end in an error before root replay* (`tamper_field`):
   the altered first digit can carry a commitment over the field order (`0x2f...`
   becomes `0x3f...`, about one in three), and `reconcile.rs:292-295` then refuses
   the answer before any root is rebuilt. `tamper.rs:10-12` and `44` say that the
   failure lands on root replay.

## 4. Proofs

Every theorem holds for all values of the constants that satisfy the named
assumptions, which TLC evaluates in the runs.

**AnchorIndex_proofs** (`ChainAssumption`, `ModeAssumption`). `IndexCases` splits
a step into the five paths of the handler.

- `TypeCorrect`: `HandlesType` types each path.
- `FirstEnvelopeWinsAlways`. With `TypeOK` the property is inductive: handling
  call n+1 changes `HandledAt` at one position only (`HandledAtExtended`,
  `PositionUntouched`), and `HandlesKeepsFirst` treats that position path by path.
- `StreamSummaryAlwaysExact`. Not inductive alone: `lastBlock` is the highest
  block of the stream only if blocks of the log ascend, so it is conjoined with
  `BlocksAscend`, and with `FirstEnvelopeWins` for the digests.
- `ConflictsAlwaysReported`, by `ConflictRowsAlwaysExact`: each id ends with the
  envelope of the last competing call it names, which follows from the first three.
- `ServedOnlyGrowsAlways`: the action property, from `TypeOK`.

**CompletenessChecker_proofs** (`CheckerAssumption`: disclosures are outputs of
`computeAnchors`, rows have their four fields).

- `TypeCorrect`: a call is the first event, so the strengthening `TypedInv` says
  what is still empty before it.
- `VerdictAlwaysExact`. Two invariants carry the two directions.
  `FaithfulRaisesNothing`: on a faithful disclosure no pass finds anything.
  `SilenceMeansChecked`: if nothing was found so far, each pass behind us
  established its fact. At the end `CheckedIsFaithful` takes a least position
  where a recomputed anchor differs (`LeastNatural`) and counts rows
  (`RowsDistinct`). The pass `CompareChains` is not needed for this direction.
- `DiscloserAlwaysBlamedExactly`, `WithholdingAlwaysBlamedExactly`: over rows that
  are an honest index's (`SoundRows`), `BlameInv` says after each pass exactly
  what is in `findings`.

**AnchorWriter_proofs** (`WriterAssumption`, which includes that `computeAnchors`
has a result for each file; three theorems name the builds they hold for).
`WriterInv` is the conjunction of `IndexInv` (AnchorIndex's invariant, reused
step by step since the writer EXTENDS it), `TypedInv`, `NonceInv` (the
owner's transactions are mined in nonce order, the mempool's after all of them),
`LinkInv` (every envelope the owner sent for k > 0 links to one already on
chain), `RunInv` (what the running post has submitted),
`ArchiveInv` (what a submitted archive names is mined) and `OwnInv` (without edits
every envelope of the owner is the one of its position). The six properties follow:
`WriterTypeCorrect`, `RetriesNeverConflictAlways`, `NoPositionSkippedAlways`,
`ChainHoldsUnlessConflictAlways`, `ArchiveIsAlwaysOnChain`,
`ArchivedIsServedOrDisputedAlways`.

`WriterImplementsLog` is the refinement, `WriterSpec => Log!Spec`: initial states
map to the empty log, each step appends the next record of the file or leaves
the log alone. It holds for a build that withholds nothing (the one that breaks
links is allowed: the log is of records), for `MaxChanges = 0`, since RecordLog is
about one file, and under `StrangersElsewhere`, since a stranger's envelope would
be served too. A step serves at most one position more (`StepServesAtMostOne`);
by `NoPositionSkipped` in the state after it that is the next one
(`NextPosition`), so what is served is always a beginning of the file's positions
(`ServesBeginning`); and there stands the record, since every envelope on the
stream is the owner's (`QuietInv`, `OwnInv`).

**AnchorAudit_proofs** (the assumptions of AnchorWriter, `AuditAssumption`, and
`FlipAssumption`: changing the first byte of a link changes it).

- *Listings.* `InOrderFacts`: in a listing of a finite set by a total order the
  element with n others before it stands at place n + 1, so each is listed once.
- `CrossCheckAlwaysExact`. Over calls that succeeded `Scan` and the tables are the
  same functions of the log (`HonestIndexIsScan`), and a dishonest build shows
  wherever it did something. For each of the three builds.
- `AuditTypeCorrect`: `AuditBase` is `WriterInv` with `VerifyInv`, the types of a
  `verify` at work and the order of the blocks its answers come from.
- `PassAlwaysSound`. `AnswerInv` says of the pages fetched so far that each row
  of them was anchored by the last request (`Covered`), and that what was
  anchored by the first is in them or comes on a page still to be asked for
  (`Awaited`): the index only grows, so a row only ever moves to a later page. At
  the end the disclosure's anchors are compared with it position by position, by
  induction along the links.
- `HonestOwnerAlwaysPasses`. Up to a block before which nothing reverted and
  nothing competes (`Settled`) index, pinned answer and scan have the same rows.
  `MomentInv` counts the pages of an index that stands still: in the end they
  have as many rows as there are. `FilesInv` says of the files of an owner who
  never edits that they hold what he anchored. `HonestInv` is both with `PassInv`.
- Hypotheses of the last two: the honest build, no contract-made calls, and scans
  from block 0 (for `PassAlwaysSound` only if the chain is among the sources).
  Without the last, finding 3. Contract-made calls are excluded because the scan
  does not see them, and because two of them in one transaction share a conflict
  row's id, so that a row may be overwritten between two pages.

**BondReplay_proofs** (`BondAssumption`, `WalkAssumption`, `ReplayAssumption`).
`ReplayInv` is `ContractInv` (the array and the spent notes count up, calls are
ordered by block), `GraphInv`, `BundleInv` and `ReportInv`. `GraphInv` is the
part that is needed and not obvious: tables have no holes (`WellFilled`), rows
keep their block (`RowsInv`), and what is visible at an indexed block is an initial
segment of the array, the whole of it if the walk has kept up (`VisibleInv`). Each
handler is a composition of helpers, and each helper has a lemma (`AppendAdds`,
`MarkAdds`, `RecordFacts`, ...). `PassFacts` says what a PASS of the five checks
implies, `HonestLogExact` and `LeavesComeWithCalls` connect it to the chain.
Theorems: `TypeCorrect`, `PassIsComplete`, `CheckedPassNeverInvents`.

**BondAudit_proofs** (also `TamperAssumption`: neither key in play is
`NoAddress`) is about the audit as a whole.

- *Whose each leaf is.* `LogInv`, on top of `ReplayInv`: every call handled is
  `Entered` as it was made, with its leaves under it, the count after it and the
  roots it cited; no handler touches an earlier call's rows (`Ascribes`,
  `FinalizeFacts`). `HistoryInv` adds that a root cited is one some earlier call
  left (`RootsInv`), that an indexed block is indexed in full (`HandledInv`) and
  what a row of the walk stands for (`WalkedInv`). It is inductive
  (`HistoryInvariance`). From it `LogAlwaysMirrorsCalls`, and with the next item
  `ServedLogIsHistory`.
- *Roots.* `BuildMerkleRoot` works level by level, `AnchoredRoot` from the top
  down over a padded tree. `MerkleRootIsAnchored` shows them equal, and further
  lemmas that a root determines its leaves up to repeats at the end.
  `RootReplayAlwaysBinds` is what root replay then tells an auditor.
- *Honest parties.* `HonestReplayAlwaysPasses`: by `HistoryInv` each of the five
  checks passes over honest files.
- *Tripwires.* `TamperingIsOutside`: every behaviour of `TamperSpec` is one of
  BondReplay's `Spec`, so the theorems above hold for it. `NeverCaughtElsewhere`
  by `CaughtInv`, `TripwiresAlwaysExactInField` by `TripwireInv`; the premise that
  the altered commitment is in the field is needed (finding 7).

**Consistency_proofs** (`ConsistencyAssumption`). `CommandInv` is `NetworkOK`
(what moves may change), `ProgressOK` (where the command is against what it has
asked and collected), `EvidenceOK` (each collected answer verifies, and was
resolved to one of the allocations) and `OutcomeOK` (report, files and verdict
against what was collected). The invariants of the run follow; `HonestAgreementAlwaysPasses` also needs that resolved signers are kept
one per indexer. `EvidenceOnlyLostByBadAnswer` says of finding 6 that there is
no other way: where `DivergencePreserved` fails, the command ended on an answer
that does not verify.

**Proxy_proofs** (`ProxyAssumption`). `ProxyInv` is `TypedInv`, `RepliesInv`
(every cached or given answer is one the gateway gave to that request) and
`CountsInv` (a counter, and what a handler has read of it, is at most what was let pass; what
was let pass is at most the counter and the limit times the counts lost). Four theorems.

**Induction.** No library theorem for it can be used here, since each takes an
operator as parameter. What recursive functions compute (`computeAnchors`, the
Merkle levels, roots) is proved through least counterexamples instead:
`LeastNatural`, that a nonempty set of naturals has a least element, follows from
the well-foundedness of proper inclusion on finite sets, and the claim is made of
the set of indices at which it fails.

## 5. Only model-checked

- Liveness: `CommandEnds`, and of `ServedExactlyOnce` that the whole file is
  served in the end. Its safety part is `WriterImplementsLog`.
- Every other invariant and action property of a passing run has a theorem, listed
  in `PROJECT.json` under its name. Where a theorem has hypotheses its run
  satisfies them; outside them are the findings and the cases section 4 names.
- `WriterAssumption` includes that the envelopes `computeAnchors` makes of a file
  are among `Payloads`, which is what makes a choice of `Payloads` large enough.
  TLC evaluates it.

## 6. Plan, and what is left of it

Done, in this order: mapping, checker, writer, audit; bond subgraph, replay,
tripwires; attestations, gateway, consistency; proxy; proofs of each, and of the
audits end to end. Left:

1. `PassAlwaysSound` with contract-made calls, for answers fetched between blocks
   only (the index of the model may be asked in the middle of one).
2. Two replays of the same bundle by different auditors, which would relate the
   reports of one indexer over time.

A run is one question, or the questions of two components checked side by side
(section 2, MC modules).

## 7. Not modelled, and why

- *Verification page*: one pass over a fixed, finished stream in the browser,
  repeating checks that CompletenessChecker and Attestation model; nothing
  depends on what it shows.
- *AnchoredAuditLog*: no program calls it. Its two operations append; that
  `lastAnchoredIndex` follows the last call and not the highest range
  (`AnchoredAuditLog.sol:69`) is all there is, and nothing reads it.
- *Item 02 tools, deployment, seeding and integration scripts*: generators and
  runners of the programs above, without state.
- *Byte formats, HKDF, AES-GCM, Poseidon, field arithmetic, JSON, argument
  parsing, printing*: their readers tell apart only what the constructors keep.
- *Reorganisations*: graph-node reverts the tables with the block, and the code
  has no handler for it.
