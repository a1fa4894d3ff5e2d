---------------------------- MODULE AnchorWriter ----------------------------
(***************************************************************************)
(* The anchor-writer of item 02 (anchor-writer/cli.ts, chain.ts) at work   *)
(* on the chain and the subgraph of AnchorIndex.                           *)
(*                                                                         *)
(* `post' numbers the records of a file from 0, chains their envelopes and *)
(* submits them one at a time, each awaited to a receipt.  The archive,    *)
(* the only record of what was submitted, is written after the last        *)
(* receipt: a process that dies or gives up before leaves anchors on chain *)
(* and no trace on disk, and perhaps one transaction still in the mempool. *)
(* The owner then runs `post' again, which starts over from position 0.    *)
(*                                                                         *)
(* computeAnchors runs before the first submission; the link of position k *)
(* is the digest of the envelope of k - 1, which `prev' carries here.      *)
(***************************************************************************)
EXTENDS AnchorIndex

CONSTANTS RecordFiles,      \* the contents the owner's records file may have
          StreamIds,        \* the streams `init' may generate
          ForeignPayloads,  \* what accounts other than the writer's post
          MayForce,         \* whether the owner ever passes --force
          MaxFailures,      \* bound: crashes, evictions and reverts
          MaxChanges        \* bound: edits of the records, new keystores

WriterEnvelope(stream, k, content, prev) ==
  Envelope(stream, k, CiphertextDigest(stream, k, content), prev)

\* What computeAnchors makes of a records file, position by position.
AnchorsOf(stream, recs, anchor) ==
  \A k \in 1 .. Len(recs) :
    anchor[k] = WriterEnvelope(stream, k - 1, recs[k],
                               IF k = 1 THEN ZERO32 ELSE Keccak(anchor[k - 1]))

ASSUME WriterAssumption ==
  /\ ForeignPayloads \subseteq Payloads
  /\ \A s \in StreamIds, f \in RecordFiles :
       \E anchor \in [1 .. Len(f) -> Envelopes] : AnchorsOf(s, f, anchor)
  /\ \A f \in RecordFiles : Len(f) \in Nat /\ f = [i \in 1 .. Len(f) |-> f[i]]
  /\ MayForce \in BOOLEAN
  /\ MaxFailures \in Nat /\ MaxChanges \in Nat

VARIABLES keystore,   \* the stream of the keystore file
          records,    \* the records file
          writer,     \* the running `post', or Idle
          mempool,    \* transactions broadcast and not yet mined, in nonce order
          sent,       \* number of the last transaction broadcast, standing for its hash
          archive,    \* the archive file
          disclosure, \* the disclosure bundle
          failures, changes

ownerVars == <<keystore, records, archive, disclosure, failures, changes>>
netVars == <<mempool, sent>>
allVars == <<calls, indexed, anchors, conflicts, malformed, streams,
             keystore, records, writer, mempool, sent, archive, disclosure,
             failures, changes>>

Idle == [step |-> "idle"]
NoFile == [submitted |-> FALSE]

\* Block 0 stands for a null block number in a file: calls start at block 1.
NoBlock == 0

WriterInit ==
  /\ Init
  /\ keystore \in StreamIds
  /\ records \in RecordFiles
  /\ writer = Idle
  /\ mempool = <<>>
  /\ sent = 0
  /\ archive = NoFile
  /\ disclosure = NoFile
  /\ failures = 0
  /\ changes = 0

MayWriteArchive == archive = NoFile \/ MayForce

ArchiveOf(stream, recs, submitted, start, end) ==
  [recs |-> recs, submitted |-> submitted, stream |-> stream, startBlock |-> start, endBlock |-> end]

-----------------------------------------------------------------------------
(* post *)

StartPost ==
  /\ writer = Idle
  /\ MayWriteArchive
  /\ writer' = [step |-> "ready", stream |-> keystore, recs |-> records, next |-> 0,
                prev |-> ZERO32, startBlock |-> NoBlock, endBlock |-> NoBlock]
  /\ UNCHANGED <<vars, ownerVars, netVars>>

\* post --dry-run: the archive alone, marked as not submitted.
DryRun ==
  /\ writer = Idle
  /\ MayWriteArchive
  /\ archive' = ArchiveOf(keystore, records, FALSE, NoBlock, NoBlock)
  /\ UNCHANGED <<vars, keystore, records, writer, netVars, disclosure, failures, changes>>

\* Mutant: a run that starts over links to whatever was anchored last.
NextEnvelopeOnHead ==
  LET last == calls[Len(calls)].payload
  IN WriterEnvelope(writer.stream, writer.next, writer.recs[writer.next + 1],
                    IF calls = <<>> THEN ZERO32 ELSE Keccak(last))

\* Mutant: the records are numbered from the last one.
NextEnvelopeReversed ==
  WriterEnvelope(writer.stream, writer.next, writer.recs[Len(writer.recs) - writer.next],
                 writer.prev)

NextEnvelope ==
  WriterEnvelope(writer.stream, writer.next, writer.recs[writer.next + 1], writer.prev)

\* chain.submit: broadcast, then wait for the receipt.
Submit ==
  /\ writer.step = "ready"
  /\ writer.next < Len(writer.recs)
  /\ sent' = sent + 1
  /\ mempool' = Append(mempool, [nonce |-> sent + 1, payload |-> NextEnvelope])
  /\ writer' = [writer EXCEPT !.step = "awaiting"]
  /\ UNCHANGED <<vars, ownerVars>>

Receipts == {i \in DOMAIN calls : calls[i].nonce = sent}

\* Mutant: the receipt's status is not checked.
AnyReceiptSucceeds ==
  /\ writer.step = "awaiting"
  /\ \E i \in Receipts :
       writer' = [writer EXCEPT !.step = "ready", !.next = @ + 1,
                                !.prev = Keccak(calls[i].payload),
                                !.startBlock = IF @ = NoBlock THEN calls[i].tx ELSE @,
                                !.endBlock = calls[i].tx]
  /\ UNCHANGED <<vars, ownerVars, netVars>>

\* Mutant: the link is not carried to the next record.
ReceiptKeepsPrev ==
  /\ writer.step = "awaiting"
  /\ \E i \in Receipts :
       /\ calls[i].kind = "top"
       /\ writer' = [writer EXCEPT !.step = "ready", !.next = @ + 1,
                                   !.startBlock = IF @ = NoBlock THEN calls[i].tx ELSE @,
                                   !.endBlock = calls[i].tx]
  /\ UNCHANGED <<vars, ownerVars, netVars>>

\* Mutant: the loop goes on waiting.
ReceiptStillAwaited ==
  /\ writer.step = "awaiting"
  /\ \E i \in Receipts :
       /\ calls[i].kind = "top"
       /\ writer' = [writer EXCEPT !.next = @ + 1, !.prev = Keccak(calls[i].payload),
                                   !.startBlock = IF @ = NoBlock THEN calls[i].tx ELSE @,
                                   !.endBlock = calls[i].tx]
  /\ UNCHANGED <<vars, ownerVars, netVars>>

ReceiptSucceeds ==
  /\ writer.step = "awaiting"
  /\ \E i \in Receipts :
       /\ calls[i].kind = "top"
       /\ writer' = [writer EXCEPT
            !.step = "ready",
            !.next = @ + 1,
            !.prev = Keccak(calls[i].payload),
            !.startBlock = IF @ = NoBlock THEN calls[i].tx ELSE @,
            !.endBlock = calls[i].tx]
  /\ UNCHANGED <<vars, ownerVars, netVars>>

\* A reverted transaction, or one that never appears until the wait times out,
\* throws out of the posting loop: the process exits and writes nothing.
ReceiptFails ==
  /\ writer.step = "awaiting"
  /\ \A i \in Receipts : calls[i].kind = "reverted"
  /\ \A j \in DOMAIN mempool : mempool[j].nonce # sent
  /\ writer' = Idle
  /\ UNCHANGED <<vars, ownerVars, netVars>>

\* Mutant: the archive is written before the last receipt.
FinishPostEarly ==
  /\ writer.step = "ready"
  /\ archive' = ArchiveOf(writer.stream, writer.recs, TRUE, writer.startBlock, writer.endBlock)
  /\ writer' = Idle
  /\ UNCHANGED <<vars, keystore, records, netVars, disclosure, failures, changes>>

FinishPost ==
  /\ writer.step = "ready"
  /\ writer.next = Len(writer.recs)
  /\ archive' = ArchiveOf(writer.stream, writer.recs, TRUE, writer.startBlock, writer.endBlock)
  /\ writer' = Idle
  /\ UNCHANGED <<vars, keystore, records, netVars, disclosure, failures, changes>>

\* The process dies, or an RPC call fails, or the wait times out while the
\* transaction is still pending.
Crash ==
  /\ writer # Idle
  /\ failures < MaxFailures
  /\ writer' = Idle
  /\ failures' = failures + 1
  /\ UNCHANGED <<vars, keystore, records, netVars, archive, disclosure, changes>>

-----------------------------------------------------------------------------
(* The network: the writer's account spends its nonces in order. *)

MineWriterTx ==
  /\ mempool # <<>>
  /\ mempool' = Tail(mempool)
  /\ MineTx(Head(mempool).payload, "top", Head(mempool).nonce)
  /\ UNCHANGED <<indexVars, ownerVars, writer, sent>>

RevertWriterTx ==
  /\ mempool # <<>>
  /\ failures < MaxFailures
  /\ failures' = failures + 1
  /\ mempool' = Tail(mempool)
  /\ MineTx(Head(mempool).payload, "reverted", Head(mempool).nonce)
  /\ UNCHANGED <<indexVars, keystore, records, writer, sent, archive, disclosure, changes>>

\* Dropped by the nodes, and with it those behind it: they need its nonce.
EvictWriterTx ==
  /\ failures < MaxFailures
  /\ failures' = failures + 1
  /\ \E i \in DOMAIN mempool : mempool' = SubSeq(mempool, 1, i - 1)
  /\ UNCHANGED <<vars, keystore, records, writer, sent, archive, disclosure, changes>>

ForeignPost ==
  /\ \E p \in ForeignPayloads : AnyonePosts(p)
  /\ UNCHANGED <<indexVars, ownerVars, writer, netVars>>

Index ==
  /\ IndexNext
  /\ UNCHANGED <<ownerVars, writer, netVars>>

-----------------------------------------------------------------------------
(* The owner, between and during runs. *)

EditRecords ==
  /\ changes < MaxChanges
  /\ changes' = changes + 1
  /\ records' \in RecordFiles \ {records}
  /\ UNCHANGED <<vars, keystore, writer, netVars, archive, disclosure, failures>>

\* init --force: a fresh stream and key replace the keystore.
InitKeystore ==
  /\ changes < MaxChanges
  /\ changes' = changes + 1
  /\ keystore' \in StreamIds \ {keystore}
  /\ UNCHANGED <<vars, records, writer, netVars, archive, disclosure, failures>>

\* disclose compares the stream and the number of records, not the records.
Disclose ==
  /\ archive # NoFile
  /\ archive.stream = keystore
  /\ Len(archive.recs) = Len(records)
  /\ disclosure' = ArchiveOf(keystore, records, archive.submitted,
                             archive.startBlock, archive.endBlock)
  /\ UNCHANGED <<vars, keystore, records, writer, netVars, archive, failures, changes>>

WriterNext ==
  \/ StartPost \/ DryRun \/ Submit \/ ReceiptSucceeds \/ ReceiptFails \/ FinishPost \/ Crash
  \/ MineWriterTx \/ RevertWriterTx \/ EvictWriterTx \/ ForeignPost \/ Index
  \/ EditRecords \/ InitKeystore \/ Disclose

WriterSpec == WriterInit /\ [][WriterNext]_allVars
(***************************************************************************)
(* Fairness.  The posting loop is one promise after another, so each of    *)
(* its steps is taken once it can be; the chain mines what is broadcast;   *)
(* graph-node keeps indexing.  That the owner runs `post' again after a    *)
(* failure, with --force if a dry run left an archive, is an assumption    *)
(* about the owner.                                                        *)
(***************************************************************************)
FairWriterSpec ==
  /\ WriterSpec
  /\ WF_allVars(Submit) /\ WF_allVars(ReceiptSucceeds) /\ WF_allVars(ReceiptFails)
  /\ WF_allVars(FinishPost)
  /\ WF_allVars(MineWriterTx)
  /\ WF_allVars(Index)
  /\ WF_allVars(~archive.submitted /\ StartPost)

-----------------------------------------------------------------------------
(* Properties. *)

FileOK(f) ==
  \/ f = NoFile
  \/ /\ f = ArchiveOf(f.stream, f.recs, f.submitted, f.startBlock, f.endBlock)
     /\ f.stream \in StreamIds /\ f.recs \in RecordFiles /\ f.submitted \in BOOLEAN
     /\ f.startBlock \in Nat /\ f.endBlock \in Nat

\* The type invariant of the writer, its files and the network.
WriterTypeOK ==
  /\ TypeOK
  /\ keystore \in StreamIds /\ records \in RecordFiles
  /\ \/ writer = Idle
     \/ /\ writer = [step |-> writer.step, stream |-> writer.stream, recs |-> writer.recs,
                      next |-> writer.next, prev |-> writer.prev,
                      startBlock |-> writer.startBlock, endBlock |-> writer.endBlock]
        /\ writer.step \in {"ready", "awaiting"}
        /\ writer.stream \in StreamIds /\ writer.recs \in RecordFiles
        /\ writer.next \in 0 .. Len(writer.recs)
        /\ writer.step = "awaiting" => writer.next < Len(writer.recs)
        /\ writer.startBlock \in Nat /\ writer.endBlock \in Nat
  /\ mempool \in Seq([nonce : 1 .. sent, payload : Envelopes])
  /\ sent \in Nat
  /\ FileOK(archive) /\ FileOK(disclosure)
  /\ failures \in 0 .. MaxFailures /\ changes \in 0 .. MaxChanges

\* Accounts other than the writer's have posted an envelope for this stream.
ForeignOn(s) ==
  \E i \in DOMAIN calls :
    /\ calls[i].nonce = 0
    /\ calls[i].payload \in Envelopes
    /\ calls[i].payload.stream = s

\* Starting over is harmless: while the owner changes neither the records nor
\* the keystore, no crash, revert, eviction or late transaction, in any number
\* of runs, ever puts two different envelopes at one position (deterministic
\* encryption and numbering from 0, cli.ts cmdPost).
RetriesNeverConflict ==
  changes = 0 =>
    \A s \in DOMAIN streams : ~ForeignOn(s) => ~streams[s].hasConflicts

\* Awaiting each receipt keeps the index contiguous: whatever runs were cut
\* short and whatever was edited in between, a position is never served before
\* the one below it ("sequential submission from a single EOA is what makes
\* seq order and block order agree", chain.ts).
NoPositionSkipped ==
  \A k \in DOMAIN anchors :
    ~ForeignOn(k[1]) /\ k[2] > 0 =>
      /\ <<k[1], k[2] - 1>> \in DOMAIN anchors
      /\ anchors[<<k[1], k[2] - 1>>].tx < anchors[k].tx

\* The served hash chain is sound or the stream says why not: if runs over
\* edited records left a link that does not hold, the stream has conflicts.
ChainHoldsUnlessConflict ==
  \A k \in DOMAIN anchors :
    ~ForeignOn(k[1]) /\ ~streams[k[1]].hasConflicts =>
      anchors[k].prev = IF k[2] = 0 THEN ZERO32 ELSE anchors[<<k[1], k[2] - 1>>].digest

\* An archive that says `submitted' tells the truth: each of its records was
\* mined by a transaction of the writer that did not revert, within the
\* archive's blocks, and each link is the digest of the envelope below.
ArchiveIsOnChain ==
  archive.submitted =>
    \A k \in 0 .. (Len(archive.recs) - 1) :
      \E i \in DOMAIN calls :
        /\ calls[i].nonce > 0 /\ calls[i].kind = "top"
        /\ calls[i].tx \in archive.startBlock .. archive.endBlock
        /\ calls[i].payload.stream = archive.stream
        /\ calls[i].payload.seq = k
        /\ calls[i].payload.cd =
             CiphertextDigest(archive.stream, k, archive.recs[k + 1])
        /\ IF k = 0 THEN calls[i].payload.prev = ZERO32
           ELSE \E j \in 1 .. (i - 1) : calls[i].payload.prev = Keccak(calls[j].payload)

(***************************************************************************)
(* Exactly once: with the records file fixed, posting at least once, with  *)
(* crashes, implements a log to which each record is appended once.  What  *)
(* the index serves for the stream is that log.                            *)
(***************************************************************************)
ServedLog ==
  LET n == Cardinality({k \in DOMAIN anchors : k[1] = keystore})
  IN [i \in 1 .. n |-> anchors[<<keystore, i - 1>>].cd[3]]

Log == INSTANCE RecordLog WITH log <- ServedLog, File <- records

\* Every step appends the next record of the file or nothing, and the whole
\* file is eventually served.
ServedExactlyOnce == Log!FairSpec

\* A submitted archive cannot be contradicted in silence: once the index has
\* passed the archive's blocks, every position of it is served, with the
\* archived record or next to a conflict that says the record is disputed.
\* This covers reruns with --force over edited records, and accounts that
\* anchor at the stream's positions before the writer does.
ArchivedIsServedOrDisputed ==
  archive.submitted /\ (\A i \in indexed + 1 .. Len(calls) : calls[i].tx > archive.endBlock) =>
    \A k \in 0 .. (Len(archive.recs) - 1) :
      LET p == <<archive.stream, k>>
      IN /\ p \in DOMAIN anchors
         /\ \/ anchors[p].cd = CiphertextDigest(archive.stream, k, archive.recs[k + 1])
            \/ \E c \in DOMAIN conflicts : c[1] = archive.stream /\ c[2] = k
=============================================================================
