------------------------ MODULE AnchorWriter_proofs ------------------------
(***************************************************************************)
(* Theorems about AnchorWriter, for every set of records files, streams    *)
(* and foreign posts, and any number of runs, failures and edits.          *)
(*                                                                         *)
(* The index is a function of the calls (AnchorIndex_proofs); what is      *)
(* added here is an invariant of the chain, the mempool and the run: what  *)
(* the writer broadcasts is the next anchor of the file it read, and it    *)
(* broadcasts it after the one before was mined.  Without edits the served *)
(* log then implements RecordLog.                                          *)
(***************************************************************************)
EXTENDS AnchorWriter, AnchorIndex_proofs

\* The anchors of a records file on a stream.
Anchors(s, f) == CHOOSE a \in [1 .. Len(f) -> Envelopes] : AnchorsOf(s, f, a)

LEMMA AnchorsExist ==
  ASSUME NEW s \in StreamIds, NEW f \in RecordFiles
  PROVE  /\ Anchors(s, f) \in [1 .. Len(f) -> Envelopes]
         /\ \A k \in 1 .. Len(f) :
              Anchors(s, f)[k] =
                WriterEnvelope(s, k - 1, f[k], IF k = 1 THEN ZERO32 ELSE Keccak(Anchors(s, f)[k - 1]))
<1>1. \E a \in [1 .. Len(f) -> Envelopes] : AnchorsOf(s, f, a)
  BY WriterAssumption
<1>2. Anchors(s, f) \in [1 .. Len(f) -> Envelopes] /\ AnchorsOf(s, f, Anchors(s, f))
  BY <1>1 DEF Anchors
<1>3. QED  BY <1>2 DEF AnchorsOf

LEMMA AnchorParts ==
  ASSUME NEW s \in StreamIds, NEW f \in RecordFiles, NEW k \in 1 .. Len(f)
  PROVE  LET e == Anchors(s, f)[k]
         IN /\ e \in Envelopes
            /\ e.stream = s /\ e.seq = k - 1
            /\ e.cd = CiphertextDigest(s, k - 1, f[k])
            /\ e.prev = IF k = 1 THEN ZERO32 ELSE Keccak(Anchors(s, f)[k - 1])
<1> DEFINE prev == IF k = 1 THEN ZERO32 ELSE Keccak(Anchors(s, f)[k - 1])
<1>1. /\ Anchors(s, f)[k] \in Envelopes
      /\ Anchors(s, f)[k] = WriterEnvelope(s, k - 1, f[k], prev)
  BY AnchorsExist
<1> HIDE DEF prev
<1>2. LET e == WriterEnvelope(s, k - 1, f[k], prev)
      IN e.stream = s /\ e.seq = k - 1 /\ e.cd = CiphertextDigest(s, k - 1, f[k]) /\ e.prev = prev
  BY DEF WriterEnvelope, Envelope
<1>3. QED  BY <1>1, <1>2 DEF prev

LEMMA KeccakInjective ==
  ASSUME NEW d, NEW e, Keccak(d) = Keccak(e)
  PROVE  d = e
BY DEF Keccak

-----------------------------------------------------------------------------
(* The invariant. *)

Links == {ZERO32} \cup {Keccak(e) : e \in Envelopes}

Run ==
  [step : {"ready", "awaiting"}, stream : StreamIds, recs : RecordFiles, next : Nat,
   prev : Links, startBlock : Nat, endBlock : Nat]

Pending == [nonce : 1 .. sent, payload : Envelopes]

RunTyped ==
  writer # Idle =>
    /\ writer \in Run
    /\ writer.next <= Len(writer.recs)
    /\ writer.step = "awaiting" => writer.next < Len(writer.recs)

TypedInv ==
  /\ keystore \in StreamIds /\ records \in RecordFiles
  /\ RunTyped
  /\ sent \in Nat
  /\ mempool \in Seq(Pending)
  /\ FileOK(archive) /\ FileOK(disclosure)
  /\ failures \in 0 .. MaxFailures /\ changes \in 0 .. MaxChanges

\* The writer's transactions are mined in the order of their nonces, each in
\* a block of its own, and no number is used twice.
NonceInv ==
  /\ \A i \in DOMAIN calls :
       /\ calls[i].nonce <= sent
       /\ calls[i].nonce > 0 => calls[i].kind # "internal" /\ calls[i].tx > 0
  /\ \A j \in DOMAIN calls : calls[j].nonce > 0 =>
       \A i \in 1 .. (j - 1) : calls[i].nonce < calls[j].nonce /\ calls[i].tx < calls[j].tx
  /\ \A m \in DOMAIN mempool :
       /\ \A i \in DOMAIN calls : calls[i].nonce < mempool[m].nonce
       /\ \A l \in 1 .. (m - 1) : mempool[l].nonce < mempool[m].nonce

\* An envelope of the writer continues the chain that a prefix of the log holds.
BuiltOn(e, n) ==
  /\ e.seq = 0 => e.prev = ZERO32
  /\ e.seq > 0 =>
       \E j \in 1 .. n :
         /\ calls[j].nonce > 0 /\ calls[j].kind = "top"
         /\ calls[j].payload.stream = e.stream /\ calls[j].payload.seq = e.seq - 1
         /\ e.prev = Keccak(calls[j].payload)

LinkInv ==
  /\ \A i \in DOMAIN calls : calls[i].nonce > 0 =>
       calls[i].payload \in Envelopes /\ BuiltOn(calls[i].payload, i - 1)
  /\ \A m \in DOMAIN mempool : BuiltOn(mempool[m].payload, Len(calls))

\* Call i anchors record k of the file, within the blocks given.
Posted(i, s, f, k, start, end) ==
  /\ calls[i].nonce > 0 /\ calls[i].kind = "top"
  /\ start <= calls[i].tx /\ calls[i].tx <= end
  /\ calls[i].payload = Anchors(s, f)[k + 1]
  /\ k > 0 => \E j \in 1 .. (i - 1) : calls[j].payload = Anchors(s, f)[k]

\* What the running `post' knows of itself is so.
RunInv ==
  writer # Idle =>
    LET a == Anchors(writer.stream, writer.recs)
    IN /\ writer.prev = IF writer.next = 0 THEN ZERO32 ELSE Keccak(a[writer.next])
       /\ writer.next > 0 => writer.startBlock > 0
       /\ \A k \in 0 .. (writer.next - 1) : \E i \in DOMAIN calls :
            /\ Posted(i, writer.stream, writer.recs, k, writer.startBlock, writer.endBlock)
            /\ writer.step = "awaiting" => calls[i].nonce < sent
       /\ writer.next = 0 => writer.startBlock = NoBlock
       /\ writer.step = "awaiting" =>
            /\ sent > 0
            /\ \A i \in Receipts : calls[i].payload = a[writer.next + 1]
            /\ \A m \in DOMAIN mempool :
                 mempool[m].nonce = sent => mempool[m].payload = a[writer.next + 1]

ArchiveInv ==
  archive.submitted =>
    \A k \in 0 .. (Len(archive.recs) - 1) : \E i \in DOMAIN calls :
      Posted(i, archive.stream, archive.recs, k, archive.startBlock, archive.endBlock)

\* While nothing was edited, the writer has only ever sent the anchors of the
\* one file on the one stream.
Own(e) == \E k \in 1 .. Len(records) : e = Anchors(keystore, records)[k]

OwnInv ==
  changes = 0 =>
    /\ writer # Idle => writer.stream = keystore /\ writer.recs = records
    /\ \A i \in DOMAIN calls : calls[i].nonce > 0 => Own(calls[i].payload)
    /\ \A m \in DOMAIN mempool : Own(mempool[m].payload)

IndexInv == TypeOK /\ FirstEnvelopeWins /\ StreamSummaryExact /\ ConflictRowsExact /\ BlocksAscend

WriterInv == IndexInv /\ TypedInv /\ NonceInv /\ LinkInv /\ RunInv /\ ArchiveInv /\ OwnInv

-----------------------------------------------------------------------------
(* What the steps do to the chain. *)

LEMMA IndexInvInductive ==
  ASSUME IndexInv, Step
  PROVE  IndexInv'
BY TypeOKInductive, FirstEnvelopeWinsInductive, StreamSummaryInductive, ConflictRowsInductive,
   BlocksAscendInductive DEF IndexInv

\* A call joins the log.
Joins(c) ==
  /\ c \in Call /\ HeadTx <= c.tx
  /\ calls' = Append(calls, c)
  /\ UNCHANGED indexVars

LEMMA CallsFacts ==
  ASSUME TypeOK
  PROVE  /\ Len(calls) \in Nat
         /\ DOMAIN calls = 1 .. Len(calls)
         /\ calls \in Seq(Call)
         /\ HeadTx \in Nat
         /\ \A i \in DOMAIN calls :
              /\ calls[i] \in Call
              /\ calls[i].nonce \in Nat /\ calls[i].tx \in Nat /\ calls[i].payload \in Payloads
              /\ calls[i].kind \in CallKinds
<1>1. calls \in Seq(Call) /\ HeadTx \in Nat  BY HeadTxIsNatural DEF TypeOK, ChainTypeOK
<1>2. Len(calls) \in Nat /\ DOMAIN calls = 1 .. Len(calls)  BY <1>1
<1>3. \A i \in DOMAIN calls : calls[i] \in Call  BY <1>1, <1>2
<1>4. \A c \in Call : /\ c.nonce \in Nat /\ c.tx \in Nat /\ c.payload \in Payloads
                      /\ c.kind \in CallKinds
  BY DEF Call
<1>5. QED  BY <1>1, <1>2, <1>3, <1>4

LEMMA JoinsFacts ==
  ASSUME TypeOK, NEW c, Joins(c)
  PROVE  /\ Len(calls') = Len(calls) + 1
         /\ DOMAIN calls' = DOMAIN calls \cup {Len(calls) + 1}
         /\ \A i \in DOMAIN calls : i \in DOMAIN calls' /\ calls'[i] = calls[i]
         /\ calls'[Len(calls) + 1] = c
         /\ Len(calls) + 1 \notin DOMAIN calls
         /\ ChainGrows
<1>1. ChainGrows  BY DEF Joins, ChainGrows
<1>2. QED  BY <1>1, CallsFacts DEF Joins

\* What a foreign account adds is not the writer's.
LEMMA ForeignJoins ==
  ASSUME TypeOK, NonceInv, ForeignPost
  PROVE  \E c : Joins(c) /\ c.nonce = 0 /\ c.payload \in ForeignPayloads
<1>1. PICK p \in ForeignPayloads : AnyonePosts(p)
  BY DEF ForeignPost
<1>2. p \in Payloads  BY WriterAssumption
<1>3. HeadTx \in Nat  BY CallsFacts
<1>4. UNCHANGED indexVars  BY DEF ForeignPost
<1>5. ASSUME NEW kind \in CallKinds, MineTx(p, kind, 0)
      PROVE  \E c : Joins(c) /\ c.nonce = 0 /\ c.payload \in ForeignPayloads
  <2> DEFINE c == [tx |-> HeadTx + 1, kind |-> kind, nonce |-> 0, payload |-> p]
  <2>1. c \in Call /\ HeadTx <= c.tx /\ c.nonce = 0 /\ c.payload = p  BY <1>2, <1>3 DEF Call
  <2>2. calls' = Append(calls, c)  BY <1>5 DEF MineTx
  <2>3. Joins(c)  BY <1>4, <2>1, <2>2 DEF Joins
  <2> HIDE DEF c
  <2>4. QED  BY <2>1, <2>3
<1>6. ASSUME Len(calls) \in 1 .. (MaxCalls - 1), calls[Len(calls)].kind = "internal",
             calls' = Append(calls, [calls[Len(calls)] EXCEPT !.payload = p])
      PROVE  \E c : Joins(c) /\ c.nonce = 0 /\ c.payload \in ForeignPayloads
  <2> DEFINE c == [calls[Len(calls)] EXCEPT !.payload = p]
  <2>1. Len(calls) \in DOMAIN calls  BY <1>6, CallsFacts
  <2>2. calls[Len(calls)].nonce = 0  BY <1>6, <2>1, CallsFacts DEF NonceInv
  <2>3. c \in Call /\ c.tx = calls[Len(calls)].tx /\ c.nonce = 0 /\ c.payload = p
    BY <1>2, <2>1, <2>2, CallsFacts DEF Call
  <2>4. HeadTx = calls[Len(calls)].tx /\ HeadTx <= c.tx
    BY <1>3, <1>6, <2>3 DEF HeadTx
  <2>5. Joins(c)  BY <1>4, <1>6, <2>3, <2>4 DEF Joins
  <2> HIDE DEF c
  <2>6. QED  BY <2>3, <2>5
<1>7. QED  BY <1>1, <1>5, <1>6 DEF AnyonePosts

MinedCall(kind) ==
  [tx |-> HeadTx + 1, kind |-> kind, nonce |-> Head(mempool).nonce, payload |-> Head(mempool).payload]

LEMMA MempoolFacts ==
  ASSUME TypedInv
  PROVE  /\ Len(mempool) \in Nat /\ DOMAIN mempool = 1 .. Len(mempool)
         /\ \A m \in DOMAIN mempool :
              /\ mempool[m].nonce \in 1 .. sent
              /\ mempool[m].payload \in Envelopes
<1>1. mempool \in Seq(Pending)  BY DEF TypedInv
<1>2. \A m \in 1 .. Len(mempool) : mempool[m] \in Pending  BY <1>1
<1>3. QED  BY <1>1, <1>2 DEF Pending

LEMMA WriterTxJoins ==
  ASSUME TypeOK, BlocksAscend, TypedInv, NEW kind, mempool # <<>>, UNCHANGED indexVars,
         MineTx(Head(mempool).payload, kind, Head(mempool).nonce)
  PROVE  /\ Joins(MinedCall(kind))
         /\ 1 \in DOMAIN mempool /\ Head(mempool) = mempool[1]
         /\ MinedCall(kind).nonce = mempool[1].nonce /\ MinedCall(kind).payload = mempool[1].payload
         /\ MinedCall(kind).kind = kind
         /\ \A i \in DOMAIN calls : calls[i].tx < MinedCall(kind).tx
<1>1. 1 \in DOMAIN mempool /\ Head(mempool) = mempool[1]
  BY MempoolFacts DEF TypedInv
<1>2. mempool[1].nonce \in Nat /\ mempool[1].payload \in Payloads
  BY <1>1, MempoolFacts DEF Envelopes
<1>3. MinedCall(kind) \in Call /\ HeadTx <= MinedCall(kind).tx
  BY <1>1, <1>2, CallsFacts DEF MineTx, Call, MinedCall
<1>4. Joins(MinedCall(kind))  BY <1>3 DEF MineTx, Joins, MinedCall
<1>5. ASSUME NEW i \in DOMAIN calls PROVE calls[i].tx < MinedCall(kind).tx
  <2>1. Len(calls) \in 1 .. Len(calls) /\ i \in 1 .. Len(calls)  BY CallsFacts
  <2>2. HeadTx = calls[Len(calls)].tx  BY <2>1, CallsFacts DEF HeadTx, TypeOK, ChainTypeOK
  <2>3. calls[i].tx <= calls[Len(calls)].tx  BY <2>1 DEF BlocksAscend
  <2>4. QED  BY <2>1, <2>2, <2>3, CallsFacts DEF MinedCall
<1>6. QED  BY <1>1, <1>4, <1>5 DEF MinedCall

\* What `post' broadcasts next is the next anchor of the file it read.
LEMMA NextIsNext ==
  ASSUME WriterInv, writer # Idle, writer.next < Len(writer.recs)
  PROVE  /\ NextEnvelope = Anchors(writer.stream, writer.recs)[writer.next + 1]
         /\ writer.next + 1 \in 1 .. Len(writer.recs)
         /\ NextEnvelope \in Envelopes
<1>1. /\ writer.stream \in StreamIds /\ writer.recs \in RecordFiles
      /\ writer.next \in Nat
  BY DEF WriterInv, TypedInv, RunTyped, Run
<1>2. Len(writer.recs) \in Nat  BY <1>1, WriterAssumption
<1>3. writer.next + 1 \in 1 .. Len(writer.recs)  BY <1>1, <1>2
<1>4. writer.prev = IF writer.next = 0 THEN ZERO32
                    ELSE Keccak(Anchors(writer.stream, writer.recs)[writer.next])
  BY DEF WriterInv, RunInv
<1>5. Anchors(writer.stream, writer.recs)[writer.next + 1] =
        WriterEnvelope(writer.stream, writer.next, writer.recs[writer.next + 1], writer.prev)
  BY <1>1, <1>3, <1>4, AnchorsExist
<1>6. QED  BY <1>1, <1>3, <1>5, AnchorsExist DEF NextEnvelope

LEMMA ReceiptFacts ==
  ASSUME WriterInv, writer.step = "awaiting", NEW i \in Receipts
  PROVE  /\ writer # Idle /\ writer \in Run
         /\ writer.next + 1 \in 1 .. Len(writer.recs)
         /\ i \in DOMAIN calls /\ calls[i].nonce = sent /\ sent > 0
         /\ calls[i].payload = Anchors(writer.stream, writer.recs)[writer.next + 1]
         /\ calls[i].payload \in Envelopes
         /\ calls[i].tx \in Nat
         /\ calls[i].tx > 0
<1>1. writer # Idle  BY DEF Idle
<1>2. /\ writer \in Run /\ writer.next < Len(writer.recs)
      /\ sent > 0
      /\ calls[i].payload = Anchors(writer.stream, writer.recs)[writer.next + 1]
  BY <1>1 DEF WriterInv, TypedInv, RunTyped, RunInv
<1>3. i \in DOMAIN calls /\ calls[i].nonce = sent /\ calls[i].tx \in Nat
  BY CallsFacts DEF Receipts, WriterInv, IndexInv
<1>4. writer.next + 1 \in 1 .. Len(writer.recs)  BY <1>1, <1>2, NextIsNext
<1>5. calls[i].payload \in Envelopes
  BY <1>2, <1>4, AnchorParts DEF Run
<1>6. calls[i].tx > 0
  BY <1>2, <1>3 DEF WriterInv, NonceInv
<1>7. QED  BY <1>1, <1>2, <1>3, <1>4, <1>5, <1>6

-----------------------------------------------------------------------------
(* The parts of the invariant, one lemma each. *)

LEMMA WriterStepIsIndexStep ==
  ASSUME WriterInv, [WriterNext]_allVars
  PROVE  Step
<1>1. TypeOK /\ TypedInv /\ NonceInv /\ BlocksAscend  BY DEF WriterInv, IndexInv
<1>2. CASE MineWriterTx
  BY <1>1, <1>2, WriterTxJoins, JoinsFacts DEF MineWriterTx, Step
<1>3. CASE RevertWriterTx
  BY <1>1, <1>3, WriterTxJoins, JoinsFacts DEF RevertWriterTx, Step
<1>4. CASE ForeignPost
  BY <1>1, <1>4, ForeignJoins, JoinsFacts DEF Step
<1>5. CASE Index
  BY <1>5 DEF Index, Step
<1>6. CASE \/ StartPost \/ DryRun \/ Submit \/ ReceiptSucceeds \/ ReceiptFails \/ FinishPost \/ Crash
           \/ EvictWriterTx \/ EditRecords \/ InitKeystore \/ Disclose \/ UNCHANGED allVars
  <2>1. UNCHANGED vars
    BY <1>6 DEF StartPost, DryRun, Submit, ReceiptSucceeds, ReceiptFails, FinishPost, Crash,
       EvictWriterTx, EditRecords, InitKeystore, Disclose, allVars, vars
  <2>2. QED  BY <2>1 DEF Step
<1>7. QED  BY <1>2, <1>3, <1>4, <1>5, <1>6 DEF WriterNext

LEMMA WriterTxMines ==
  ASSUME WriterInv, MineWriterTx \/ RevertWriterTx
  PROVE  \E kind \in {"top", "reverted"} :
           /\ Joins(MinedCall(kind))
           /\ kind = "reverted" => RevertWriterTx
           /\ 1 \in DOMAIN mempool /\ Head(mempool) = mempool[1]
           /\ MinedCall(kind).nonce = mempool[1].nonce
           /\ MinedCall(kind).payload = mempool[1].payload
           /\ MinedCall(kind).kind = kind
           /\ \A i \in DOMAIN calls : calls[i].tx < MinedCall(kind).tx
BY WriterTxJoins DEF WriterInv, IndexInv, MineWriterTx, RevertWriterTx

LEMMA TailFacts ==
  ASSUME TypedInv, mempool # <<>>, mempool' = Tail(mempool)
  PROVE  /\ DOMAIN mempool' = 1 .. (Len(mempool) - 1)
         /\ \A m \in DOMAIN mempool' : m + 1 \in DOMAIN mempool /\ mempool'[m] = mempool[m + 1]
         /\ mempool' \in Seq(Pending)
<1>1. mempool \in Seq(Pending)  BY DEF TypedInv
<1>2. Len(mempool) \in Nat \ {0} /\ DOMAIN mempool = 1 .. Len(mempool)  BY <1>1
<1>3. mempool' \in Seq(Pending) /\ Len(mempool') = Len(mempool) - 1  BY <1>1, <1>2
<1>4. \A m \in 1 .. (Len(mempool) - 1) : mempool'[m] = mempool[m + 1]  BY <1>1, <1>2
<1>5. QED  BY <1>2, <1>3, <1>4

LEMMA EvictFacts ==
  ASSUME TypedInv, EvictWriterTx
  PROVE  /\ mempool' \in Seq(Pending)
         /\ \A m \in DOMAIN mempool' : m \in DOMAIN mempool /\ mempool'[m] = mempool[m]
<1>1. mempool \in Seq(Pending)  BY DEF TypedInv
<1>2. PICK i \in DOMAIN mempool : mempool' = SubSeq(mempool, 1, i - 1)
  BY DEF EvictWriterTx
<1>3. Len(mempool) \in Nat /\ i \in 1 .. Len(mempool)  BY <1>1, <1>2
<1>4. /\ mempool' \in Seq(Pending) /\ Len(mempool') = i - 1
      /\ \A m \in 1 .. (i - 1) : mempool'[m] = mempool[m]
  BY <1>1, <1>2, <1>3
<1>5. QED  BY <1>1, <1>3, <1>4

LEMMA SubmitFacts ==
  ASSUME WriterInv, Submit
  PROVE  /\ sent' = sent + 1
         /\ DOMAIN mempool' = DOMAIN mempool \cup {Len(mempool) + 1}
         /\ Len(mempool) + 1 \notin DOMAIN mempool
         /\ \A m \in DOMAIN mempool : mempool'[m] = mempool[m]
         /\ mempool'[Len(mempool) + 1].nonce = sent + 1
         /\ mempool'[Len(mempool) + 1].payload = NextEnvelope
         /\ mempool' \in Seq(Pending')
<1>1. mempool \in Seq(Pending) /\ sent \in Nat  BY DEF WriterInv, TypedInv
<1>2. NextEnvelope \in Envelopes  BY NextIsNext DEF Submit, Idle
<1> DEFINE tx == [nonce |-> sent + 1, payload |-> NextEnvelope]
<1>3. sent' = sent + 1 /\ mempool' = Append(mempool, tx)  BY DEF Submit
<1>4. Pending' = [nonce : 1 .. (sent + 1), payload : Envelopes]  BY <1>3 DEF Pending
<1>5. Pending \subseteq Pending' /\ tx \in Pending'
  <2>1. 1 .. sent \subseteq 1 .. (sent + 1) /\ sent + 1 \in 1 .. (sent + 1)  BY <1>1
  <2>2. tx \in Pending'  BY <1>2, <1>4, <2>1
  <2>3. Pending \subseteq Pending'  BY <1>4, <2>1 DEF Pending
  <2>4. QED  BY <2>2, <2>3
<1>6. tx.nonce = sent + 1 /\ tx.payload = NextEnvelope  OBVIOUS
<1> HIDE DEF tx
<1>7. \A m \in 1 .. Len(mempool) : mempool[m] \in Pending'  BY <1>1, <1>5
<1>8. Len(mempool) \in Nat /\ DOMAIN mempool = 1 .. Len(mempool)  BY <1>1
<1>9. /\ Len(mempool') = Len(mempool) + 1 /\ DOMAIN mempool' = 1 .. Len(mempool')
      /\ \A m \in 1 .. Len(mempool) : mempool'[m] = mempool[m]
      /\ mempool'[Len(mempool) + 1] = tx
  BY <1>1, <1>3, <1>8
<1>10. DOMAIN mempool' = DOMAIN mempool \cup {Len(mempool) + 1}  BY <1>8, <1>9
<1>11. \A m \in DOMAIN mempool' : mempool'[m] \in Pending'
  BY <1>5, <1>7, <1>8, <1>9, <1>10
<1>12. mempool' \in Seq(Pending')
  <2>1. mempool \in Seq(Pending')
    BY <1>1, <1>5, <1>7
  <2>2. QED  BY <1>3, <1>5, <2>1
<1>13. QED  BY <1>3, <1>6, <1>8, <1>9, <1>10, <1>12

LEMMA FilesKept ==
  ASSUME NEW f, NEW stream \in StreamIds, NEW recs \in RecordFiles, NEW submitted \in BOOLEAN,
         NEW start \in Nat, NEW end \in Nat, f = ArchiveOf(stream, recs, submitted, start, end)
  PROVE  FileOK(f)
BY DEF FileOK, ArchiveOf

LEMMA TypedInvInductive ==
  ASSUME WriterInv, [WriterNext]_allVars
  PROVE  TypedInv'
<1>1. TypedInv /\ TypeOK  BY DEF WriterInv, IndexInv
<1>2. failures \in Nat /\ changes \in Nat /\ MaxFailures \in Nat /\ MaxChanges \in Nat
  BY <1>1, WriterAssumption DEF TypedInv
<1>3. CASE StartPost
  <2>1. writer' \in Run /\ writer'.next = 0 /\ writer'.step = "ready" /\ writer'.recs = records
    BY <1>1, <1>3 DEF StartPost, Run, TypedInv, Links, NoBlock
  <2>2. Len(records) \in Nat  BY <1>1, WriterAssumption DEF TypedInv
  <2>3. QED
    BY <1>1, <1>3, <2>1, <2>2 DEF StartPost, TypedInv, RunTyped, ownerVars, netVars, Pending
<1>4. CASE DryRun
  <2>1. FileOK(archive')
    BY <1>1, <1>4, FilesKept DEF DryRun, TypedInv, NoBlock
  <2>2. QED  BY <1>1, <1>4, <2>1 DEF DryRun, TypedInv, RunTyped, netVars, Pending
<1>5. CASE Submit
  <2>1. /\ writer # Idle /\ writer \in Run /\ writer.next < Len(writer.recs)
    BY <1>1, <1>5 DEF Submit, TypedInv, RunTyped, Idle
  <2>2. writer' = [writer EXCEPT !.step = "awaiting"]  BY <1>5 DEF Submit
  <2>3. writer' \in Run /\ writer'.next = writer.next /\ writer'.recs = writer.recs
    BY <2>1, <2>2 DEF Run
  <2>4. writer.next \in Nat /\ Len(writer.recs) \in Nat
    BY <2>1, WriterAssumption DEF Run
  <2>5. sent' \in Nat /\ mempool' \in Seq(Pending')
    BY <1>1, <1>5, SubmitFacts DEF TypedInv
  <2>6. QED  BY <1>1, <1>5, <2>1, <2>3, <2>4, <2>5 DEF Submit, TypedInv, RunTyped, ownerVars
<1>6. CASE ReceiptSucceeds
  <2>1. PICK i \in Receipts :
          writer' = [writer EXCEPT !.step = "ready", !.next = @ + 1,
                                   !.prev = Keccak(calls[i].payload),
                                   !.startBlock = IF @ = NoBlock THEN calls[i].tx ELSE @,
                                   !.endBlock = calls[i].tx]
    BY <1>6 DEF ReceiptSucceeds
  <2>2. /\ writer \in Run /\ writer.next + 1 \in 1 .. Len(writer.recs)
        /\ calls[i].payload \in Envelopes /\ calls[i].tx \in Nat
    BY <1>6, ReceiptFacts DEF ReceiptSucceeds
  <2> DEFINE start == IF writer.startBlock = NoBlock THEN calls[i].tx ELSE writer.startBlock
             prev == Keccak(calls[i].payload)
  <2>3. start \in Nat /\ prev \in Links /\ writer.next + 1 \in Nat
    BY <2>2 DEF Run, Links
  <2>4. writer' = [writer EXCEPT !.step = "ready", !.next = writer.next + 1, !.prev = prev,
                                 !.startBlock = start, !.endBlock = calls[i].tx]
    BY <2>1, <2>2 DEF Run
  <2> HIDE DEF start, prev
  <2>5. /\ writer' \in Run /\ writer'.step = "ready"
        /\ writer'.next = writer.next + 1 /\ writer'.recs = writer.recs
    BY <2>2, <2>3, <2>4 DEF Run
  <2>6. writer'.next <= Len(writer'.recs)  BY <2>2, <2>5
  <2>7. QED
    BY <1>1, <1>6, <2>5, <2>6 DEF ReceiptSucceeds, TypedInv, RunTyped, ownerVars, netVars, Pending
<1>7. CASE FinishPost
  <2>1. writer # Idle /\ writer \in Run  BY <1>1, <1>7 DEF FinishPost, TypedInv, RunTyped, Idle
  <2>2. FileOK(archive')
    BY <1>7, <2>1, FilesKept DEF FinishPost, Run
  <2>3. QED  BY <1>1, <1>7, <2>2 DEF FinishPost, TypedInv, RunTyped, netVars, Pending
<1>8. CASE ReceiptFails
  BY <1>1, <1>8 DEF ReceiptFails, TypedInv, RunTyped, ownerVars, netVars, Pending
<1>9. CASE Crash
  BY <1>1, <1>2, <1>9 DEF Crash, TypedInv, RunTyped, netVars, Pending
<1>10. CASE MineWriterTx
  BY <1>1, <1>10, TailFacts DEF MineWriterTx, TypedInv, RunTyped, ownerVars, Pending
<1>11. CASE RevertWriterTx
  BY <1>1, <1>2, <1>11, TailFacts DEF RevertWriterTx, TypedInv, RunTyped, Pending
<1>12. CASE EvictWriterTx
  <2>1. mempool' \in Seq(Pending)  BY <1>1, <1>12, EvictFacts
  <2>2. /\ failures' \in 0 .. MaxFailures
        /\ UNCHANGED <<keystore, records, writer, sent, archive, disclosure, changes>>
    BY <1>2, <1>12 DEF EvictWriterTx
  <2>3. Pending' = Pending  BY <2>2 DEF Pending
  <2>4. QED  BY <1>1, <2>1, <2>2, <2>3 DEF TypedInv, RunTyped
<1>13. CASE ForeignPost \/ Index \/ UNCHANGED allVars
  BY <1>1, <1>13 DEF ForeignPost, Index, allVars, TypedInv, RunTyped, ownerVars, netVars, Pending
<1>14. CASE EditRecords
  BY <1>1, <1>2, <1>14 DEF EditRecords, TypedInv, RunTyped, netVars, Pending
<1>15. CASE InitKeystore
  BY <1>1, <1>2, <1>15 DEF InitKeystore, TypedInv, RunTyped, netVars, Pending
<1>16. CASE Disclose
  <2>1. FileOK(disclosure')
    <3>1. archive = ArchiveOf(archive.stream, archive.recs, archive.submitted,
                              archive.startBlock, archive.endBlock)
          /\ archive.submitted \in BOOLEAN /\ archive.startBlock \in Nat /\ archive.endBlock \in Nat
      BY <1>1, <1>16 DEF Disclose, TypedInv, FileOK
    <3>2. QED  BY <1>1, <1>16, <3>1, FilesKept DEF Disclose, TypedInv
  <2>2. QED  BY <1>1, <1>16, <2>1 DEF Disclose, TypedInv, RunTyped, netVars, Pending
<1>17. QED
  BY <1>3, <1>4, <1>5, <1>6, <1>7, <1>8, <1>9, <1>10, <1>11, <1>12, <1>13, <1>14, <1>15, <1>16
  DEF WriterNext

LEMMA NonceInvInductive ==
  ASSUME WriterInv, [WriterNext]_allVars
  PROVE  NonceInv'
<1>1. NonceInv /\ TypedInv /\ TypeOK  BY DEF WriterInv, IndexInv
<1>2. CASE \/ StartPost \/ DryRun \/ ReceiptSucceeds \/ ReceiptFails \/ FinishPost \/ Crash
           \/ Index \/ EditRecords \/ InitKeystore \/ Disclose \/ UNCHANGED allVars
  <2>1. UNCHANGED <<calls, mempool, sent>>
    BY <1>2 DEF StartPost, DryRun, ReceiptSucceeds, ReceiptFails, FinishPost, Crash,
       Index, IndexNext, EditRecords, InitKeystore, Disclose, allVars, vars, netVars
  <2>2. QED  BY <1>1, <2>1 DEF NonceInv
<1>3. CASE Submit
  <2>1. calls' = calls  BY <1>3 DEF Submit, vars
  <2>2. sent \in Nat /\ sent' = sent + 1  BY <1>1, <1>3, SubmitFacts DEF TypedInv
  <2>3. \A i \in DOMAIN calls : calls[i].nonce \in Nat /\ calls[i].nonce <= sent
    BY <1>1, CallsFacts DEF NonceInv
  <2>4. \A m \in DOMAIN mempool : mempool[m].nonce \in Nat /\ mempool[m].nonce <= sent
    BY <1>1, MempoolFacts
  <2>5. \A i \in DOMAIN calls' : /\ calls'[i].nonce <= sent'
                                 /\ calls'[i].nonce > 0 => calls'[i].kind # "internal" /\ calls'[i].tx > 0
    BY <1>1, <2>1, <2>2, <2>3 DEF NonceInv
  <2>6. ASSUME NEW m \in DOMAIN mempool'
        PROVE  /\ \A i \in DOMAIN calls' : calls'[i].nonce < mempool'[m].nonce
               /\ \A l \in 1 .. (m - 1) : mempool'[l].nonce < mempool'[m].nonce
    <3>1. CASE m \in DOMAIN mempool
      <4>1. 1 .. (m - 1) \subseteq DOMAIN mempool  BY <1>1, <3>1, MempoolFacts
      <4>2. mempool'[m] = mempool[m] /\ \A l \in 1 .. (m - 1) : mempool'[l] = mempool[l]
        BY <1>3, <3>1, <4>1, SubmitFacts
      <4>3. QED  BY <1>1, <2>1, <3>1, <4>2 DEF NonceInv
    <3>2. CASE m = Len(mempool) + 1
      <4>1. mempool'[m].nonce = sent + 1  BY <1>3, <3>2, SubmitFacts
      <4>2. \A l \in 1 .. (m - 1) : l \in DOMAIN mempool /\ mempool'[l] = mempool[l]
        BY <1>1, <1>3, <3>2, MempoolFacts, SubmitFacts
      <4>3. QED  BY <2>1, <2>2, <2>3, <2>4, <4>1, <4>2
    <3>3. QED  BY <1>3, <2>6, <3>1, <3>2, SubmitFacts
  <2>7. QED  BY <1>1, <2>1, <2>5, <2>6 DEF NonceInv
<1>4. CASE MineWriterTx \/ RevertWriterTx
  <2>1. PICK kind \in {"top", "reverted"} :
          /\ Joins(MinedCall(kind))
          /\ 1 \in DOMAIN mempool
          /\ MinedCall(kind).nonce = mempool[1].nonce
          /\ MinedCall(kind).kind = kind
          /\ \A i \in DOMAIN calls : calls[i].tx < MinedCall(kind).tx
    BY <1>4, WriterTxMines
  <2>2. sent' = sent /\ mempool # <<>> /\ mempool' = Tail(mempool)
    BY <1>4 DEF MineWriterTx, RevertWriterTx
  <2> DEFINE n == Len(calls) + 1
  <2>3. /\ Len(calls) \in Nat /\ DOMAIN calls = 1 .. Len(calls)
        /\ DOMAIN calls' = DOMAIN calls \cup {n}
        /\ \A i \in DOMAIN calls : calls'[i] = calls[i]
        /\ calls'[n] = MinedCall(kind)
    BY <1>1, <2>1, JoinsFacts, CallsFacts
  <2>4. MinedCall(kind).tx > 0
    BY <1>1, CallsFacts DEF MinedCall
  <2>5. mempool[1].nonce \in 1 .. sent  BY <1>1, <2>1, MempoolFacts
  <2>6. \A i \in DOMAIN calls' : /\ calls'[i].nonce <= sent'
                                 /\ calls'[i].nonce > 0 => calls'[i].kind # "internal" /\ calls'[i].tx > 0
    BY <1>1, <2>1, <2>2, <2>3, <2>4, <2>5 DEF NonceInv
  <2>7. ASSUME NEW j \in DOMAIN calls', calls'[j].nonce > 0
        PROVE  \A i \in 1 .. (j - 1) : calls'[i].nonce < calls'[j].nonce /\ calls'[i].tx < calls'[j].tx
    <3>1. CASE j \in DOMAIN calls
      <4>1. 1 .. (j - 1) \subseteq DOMAIN calls  BY <2>3, <3>1
      <4>2. QED  BY <1>1, <2>3, <2>7, <3>1, <4>1 DEF NonceInv
    <3>2. CASE j = n
      <4>1. 1 .. (j - 1) \subseteq DOMAIN calls  BY <2>3, <3>2
      <4>2. \A i \in DOMAIN calls : calls[i].nonce < mempool[1].nonce
        BY <1>1, <2>1 DEF NonceInv
      <4>3. QED  BY <2>1, <2>3, <3>2, <4>1, <4>2
    <3>3. QED  BY <2>3, <2>7, <3>1, <3>2
  <2>8. ASSUME NEW m \in DOMAIN mempool'
        PROVE  /\ \A i \in DOMAIN calls' : calls'[i].nonce < mempool'[m].nonce
               /\ \A l \in 1 .. (m - 1) : mempool'[l].nonce < mempool'[m].nonce
    <3>1. /\ DOMAIN mempool' = 1 .. (Len(mempool) - 1) /\ Len(mempool) \in Nat
          /\ \A l \in DOMAIN mempool' : l + 1 \in DOMAIN mempool /\ mempool'[l] = mempool[l + 1]
      BY <1>1, <2>2, TailFacts, MempoolFacts
    <3>2. /\ \A i \in DOMAIN calls : calls[i].nonce < mempool[m + 1].nonce
          /\ \A l \in 1 .. m : mempool[l].nonce < mempool[m + 1].nonce
      BY <1>1, <3>1 DEF NonceInv
    <3>3. \A l \in 1 .. (m - 1) : l \in DOMAIN mempool' /\ l + 1 \in 1 .. m
      BY <3>1
    <3>4. 1 \in 1 .. m  BY <3>1
    <3>5. QED  BY <2>1, <2>3, <3>1, <3>2, <3>3, <3>4
  <2>9. QED  BY <2>6, <2>7, <2>8 DEF NonceInv
<1>5. CASE EvictWriterTx
  <2>1. calls' = calls /\ sent' = sent  BY <1>5 DEF EvictWriterTx, vars
  <2>2. ASSUME NEW m \in DOMAIN mempool'
        PROVE  /\ \A i \in DOMAIN calls' : calls'[i].nonce < mempool'[m].nonce
               /\ \A l \in 1 .. (m - 1) : mempool'[l].nonce < mempool'[m].nonce
    <3>1. m \in DOMAIN mempool /\ mempool'[m] = mempool[m]  BY <1>1, <1>5, EvictFacts
    <3>2. \A l \in 1 .. (m - 1) : l \in DOMAIN mempool' /\ mempool'[l] = mempool[l]
      <4>1. mempool' \in Seq(Pending)  BY <1>1, <1>5, EvictFacts
      <4>2. \A l \in 1 .. (m - 1) : l \in DOMAIN mempool'  BY <2>2, <4>1
      <4>3. QED  BY <1>1, <1>5, <4>2, EvictFacts
    <3>3. QED  BY <1>1, <2>1, <3>1, <3>2 DEF NonceInv
  <2>3. QED  BY <1>1, <2>1, <2>2 DEF NonceInv
<1>6. CASE ForeignPost
  <2>1. PICK c : Joins(c) /\ c.nonce = 0  BY <1>1, <1>6, ForeignJoins
  <2>2. /\ Len(calls) \in Nat /\ DOMAIN calls = 1 .. Len(calls)
        /\ DOMAIN calls' = DOMAIN calls \cup {Len(calls) + 1}
        /\ \A i \in DOMAIN calls : calls'[i] = calls[i]
        /\ calls'[Len(calls) + 1] = c
    BY <1>1, <2>1, JoinsFacts, CallsFacts
  <2>3. sent' = sent /\ mempool' = mempool  BY <1>6 DEF ForeignPost, netVars
  <2>4. ASSUME NEW j \in DOMAIN calls', calls'[j].nonce > 0
        PROVE  /\ j \in DOMAIN calls /\ calls'[j] = calls[j]
               /\ \A i \in 1 .. (j - 1) : i \in DOMAIN calls /\ calls'[i] = calls[i]
    <3>1. j \in DOMAIN calls  BY <2>1, <2>2, <2>4
    <3>2. QED  BY <2>2, <3>1
  <2>5. \A j \in DOMAIN calls' : calls'[j].nonce > 0 =>
          \A i \in 1 .. (j - 1) : calls'[i].nonce < calls'[j].nonce /\ calls'[i].tx < calls'[j].tx
    BY <1>1, <2>4 DEF NonceInv
  <2>6. \A i \in DOMAIN calls' : /\ calls'[i].nonce <= sent'
                                 /\ calls'[i].nonce > 0 => calls'[i].kind # "internal" /\ calls'[i].tx > 0
    BY <1>1, <2>1, <2>2, <2>3 DEF NonceInv, TypedInv
  <2>7. \A m \in DOMAIN mempool' :
          /\ \A i \in DOMAIN calls' : calls'[i].nonce < mempool'[m].nonce
          /\ \A l \in 1 .. (m - 1) : mempool'[l].nonce < mempool'[m].nonce
    BY <1>1, <2>1, <2>2, <2>3, MempoolFacts DEF NonceInv
  <2>8. QED  BY <2>5, <2>6, <2>7 DEF NonceInv
<1>7. QED  BY <1>2, <1>3, <1>4, <1>5, <1>6 DEF WriterNext

\* Calls stay in the log.
CallsStay ==
  /\ Len(calls) \in Nat /\ Len(calls') \in Nat /\ Len(calls) <= Len(calls')
  /\ DOMAIN calls = 1 .. Len(calls) /\ DOMAIN calls' = 1 .. Len(calls')
  /\ \A i \in DOMAIN calls : calls'[i] = calls[i]

LEMMA StepKeepsCalls ==
  ASSUME TypeOK, Step
  PROVE  CallsStay
<1>1. Len(calls) \in Nat /\ DOMAIN calls = 1 .. Len(calls)  BY CallsFacts
<1>2. CASE ChainGrows
  <2>1. /\ ChainTypeOK' /\ Len(calls') = Len(calls) + 1
        /\ \A i \in 1 .. Len(calls) : calls'[i] = calls[i]
    BY <1>2, GrowsByOne DEF TypeOK
  <2>2. DOMAIN calls' = 1 .. Len(calls')  BY <2>1 DEF ChainTypeOK
  <2>3. QED  BY <1>1, <2>1, <2>2 DEF CallsStay
<1>3. CASE calls' = calls  BY <1>1, <1>3 DEF CallsStay
<1>4. QED  BY <1>2, <1>3 DEF Step, IndexNext, vars

LEMMA BuiltOnStays ==
  ASSUME CallsStay, NEW e, NEW n, NEW m \in Nat, n \in 0 .. Len(calls), n <= m, BuiltOn(e, n)
  PROVE  BuiltOn(e, m)'
<1>1. \A j \in 1 .. n : j \in 1 .. m /\ calls'[j] = calls[j]
  BY DEF CallsStay
<1>2. QED  BY <1>1 DEF BuiltOn

LEMMA PostedStays ==
  ASSUME CallsStay, NEW i \in DOMAIN calls, NEW s, NEW f, NEW k, NEW start, NEW end,
         Posted(i, s, f, k, start, end)
  PROVE  i \in DOMAIN calls' /\ Posted(i, s, f, k, start, end)'
<1>1. i \in DOMAIN calls' /\ calls'[i] = calls[i]  BY DEF CallsStay
<1>2. \A j \in 1 .. (i - 1) : calls'[j] = calls[j]  BY DEF CallsStay
<1>3. QED  BY <1>1, <1>2 DEF Posted

\* What the run broadcasts continues what it knows to be mined.
LEMMA NextIsBuiltOn ==
  ASSUME WriterInv, Submit
  PROVE  BuiltOn(NextEnvelope, Len(calls))
<1>1. writer # Idle /\ writer \in Run /\ writer.next < Len(writer.recs)
  BY DEF Submit, Idle, WriterInv, TypedInv, RunTyped
<1> DEFINE a == Anchors(writer.stream, writer.recs)
<1>2. /\ NextEnvelope = a[writer.next + 1] /\ writer.next + 1 \in 1 .. Len(writer.recs)
  BY <1>1, NextIsNext
<1>3. writer.stream \in StreamIds /\ writer.recs \in RecordFiles /\ writer.next \in Nat
  BY <1>1 DEF Run
<1>4. /\ NextEnvelope.stream = writer.stream /\ NextEnvelope.seq = writer.next
      /\ NextEnvelope.prev = IF writer.next = 0 THEN ZERO32 ELSE Keccak(a[writer.next])
  BY <1>2, <1>3, AnchorParts
<1>5. ASSUME writer.next > 0
      PROVE  \E j \in 1 .. Len(calls) :
               /\ calls[j].nonce > 0 /\ calls[j].kind = "top"
               /\ calls[j].payload.stream = writer.stream
               /\ calls[j].payload.seq = writer.next - 1
               /\ NextEnvelope.prev = Keccak(calls[j].payload)
  <2>1. writer.next - 1 \in 0 .. (writer.next - 1)  BY <1>3, <1>5
  <2>2. PICK j \in DOMAIN calls :
          Posted(j, writer.stream, writer.recs, writer.next - 1, writer.startBlock, writer.endBlock)
    BY <1>1, <2>1 DEF WriterInv, RunInv
  <2>3. calls[j].payload = a[writer.next] /\ writer.next \in 1 .. Len(writer.recs)
    BY <1>2, <1>3, <1>5, <2>2 DEF Posted
  <2>4. calls[j].payload.stream = writer.stream /\ calls[j].payload.seq = writer.next - 1
    BY <1>3, <2>3, AnchorParts
  <2>5. j \in 1 .. Len(calls)  BY CallsFacts DEF WriterInv, IndexInv
  <2>6. QED  BY <1>3, <1>4, <1>5, <2>2, <2>3, <2>4, <2>5 DEF Posted
<1>6. QED  BY <1>3, <1>4, <1>5 DEF BuiltOn

LEMMA LinkInvInductive ==
  ASSUME WriterInv, [WriterNext]_allVars
  PROVE  LinkInv'
<1>1. LinkInv /\ TypedInv /\ NonceInv /\ TypeOK /\ Step
  BY WriterStepIsIndexStep DEF WriterInv, IndexInv
<1>2. CallsStay  BY <1>1, StepKeepsCalls
\* What was built on a prefix of the log still is.
<1>3. ASSUME NEW i \in DOMAIN calls, calls[i].nonce > 0
      PROVE  calls'[i].payload \in Envelopes /\ BuiltOn(calls[i].payload, i - 1)'
  <2>1. calls'[i] = calls[i] /\ i - 1 \in 0 .. Len(calls)  BY <1>2, <1>3 DEF CallsStay
  <2>2. BuiltOn(calls[i].payload, i - 1) /\ calls[i].payload \in Envelopes
    BY <1>1, <1>3, <2>1 DEF LinkInv
  <2>3. PICK e, n : e = calls[i].payload /\ n = i - 1  OBVIOUS
  <2>4. BuiltOn(e, n)'  BY <1>2, <2>1, <2>2, <2>3, BuiltOnStays
  <2>5. QED  BY <2>1, <2>2, <2>3, <2>4 DEF BuiltOn
<1>4. ASSUME NEW m \in DOMAIN mempool, NEW l \in DOMAIN mempool', mempool'[l] = mempool[m]
      PROVE  BuiltOn(mempool[l].payload, Len(calls))'
  <2>1. PICK e, n : e = mempool[m].payload /\ n = Len(calls')  OBVIOUS
  <2>2. BuiltOn(e, Len(calls))  BY <1>1, <2>1 DEF LinkInv
  <2>3. BuiltOn(e, n)'  BY <1>2, <2>1, <2>2, BuiltOnStays DEF CallsStay
  <2>4. QED  BY <1>4, <2>1, <2>3 DEF BuiltOn
<1>5. ASSUME calls' = calls PROVE \A i \in DOMAIN calls' : calls'[i].nonce > 0 =>
              calls'[i].payload \in Envelopes /\ BuiltOn(calls[i].payload, i - 1)'
  BY <1>3, <1>5
<1>6. CASE \/ StartPost \/ DryRun \/ ReceiptSucceeds \/ ReceiptFails \/ FinishPost \/ Crash
           \/ Index \/ EditRecords \/ InitKeystore \/ Disclose \/ UNCHANGED allVars
  <2>1. UNCHANGED <<calls, mempool>>
    BY <1>6 DEF StartPost, DryRun, ReceiptSucceeds, ReceiptFails, FinishPost, Crash,
       Index, IndexNext, EditRecords, InitKeystore, Disclose, allVars, vars, netVars
  <2>2. QED  BY <1>4, <1>5, <2>1 DEF LinkInv
<1>7. CASE Submit
  <2>1. calls' = calls  BY <1>7 DEF Submit, vars
  <2>2. ASSUME NEW l \in DOMAIN mempool' PROVE BuiltOn(mempool[l].payload, Len(calls))'
    <3>1. CASE l \in DOMAIN mempool
      BY <1>4, <1>7, <3>1, SubmitFacts
    <3>2. CASE l = Len(mempool) + 1
      <4>1. mempool'[l].payload = NextEnvelope  BY <1>7, <3>2, SubmitFacts
      <4>2. BuiltOn(NextEnvelope, Len(calls))  BY <1>7, NextIsBuiltOn
      <4>3. PICK e : e = NextEnvelope  OBVIOUS
      <4>4. QED  BY <2>1, <4>1, <4>2, <4>3 DEF BuiltOn
    <3>3. QED  BY <1>7, <2>2, <3>1, <3>2, SubmitFacts
  <2>3. QED  BY <1>5, <2>1, <2>2 DEF LinkInv
<1>8. CASE MineWriterTx \/ RevertWriterTx
  <2>1. PICK kind \in {"top", "reverted"} :
          /\ Joins(MinedCall(kind)) /\ 1 \in DOMAIN mempool
          /\ MinedCall(kind).payload = mempool[1].payload
    BY <1>8, WriterTxMines
  <2>2. mempool # <<>> /\ mempool' = Tail(mempool)  BY <1>8 DEF MineWriterTx, RevertWriterTx
  <2>3. PICK n : n = Len(calls) + 1  OBVIOUS
  <2>4. /\ DOMAIN calls' = DOMAIN calls \cup {n}
        /\ calls'[n] = MinedCall(kind)
    BY <1>1, <2>1, <2>3, JoinsFacts
  <2>5. calls'[n].payload \in Envelopes  BY <1>1, <2>1, <2>4, MempoolFacts
  <2>6. BuiltOn(calls[n].payload, n - 1)'
    <3>1. PICK e, k : e = mempool[1].payload /\ k = Len(calls)  OBVIOUS
    <3>2. BuiltOn(e, k)  BY <1>1, <2>1, <3>1 DEF LinkInv
    <3>3. k \in Nat /\ k \in 0 .. Len(calls)  BY <1>2, <3>1 DEF CallsStay
    <3>4. BuiltOn(e, k)'  BY <1>2, <3>2, <3>3, BuiltOnStays
    <3>5. n - 1 = k /\ calls'[n].payload = e  BY <2>1, <2>3, <2>4, <3>1, <3>3
    <3>6. QED  BY <3>4, <3>5 DEF BuiltOn
  <2>7. \A l \in DOMAIN mempool' : BuiltOn(mempool[l].payload, Len(calls))'
    BY <1>1, <1>4, <2>2, TailFacts
  <2>8. \A i \in DOMAIN calls' : calls'[i].nonce > 0 =>
          calls'[i].payload \in Envelopes /\ BuiltOn(calls[i].payload, i - 1)'
    <3>1. \A i \in DOMAIN calls : calls'[i] = calls[i]  BY <1>2 DEF CallsStay
    <3>2. QED  BY <1>3, <2>4, <2>5, <2>6, <3>1
  <2>9. QED  BY <2>7, <2>8 DEF LinkInv
<1>9. CASE EvictWriterTx
  <2>1. calls' = calls  BY <1>9 DEF EvictWriterTx, vars
  <2>2. QED  BY <1>1, <1>4, <1>5, <1>9, <2>1, EvictFacts DEF LinkInv
<1>10. CASE ForeignPost
  <2>1. PICK c : Joins(c) /\ c.nonce = 0  BY <1>1, <1>10, ForeignJoins
  <2>2. /\ DOMAIN calls' = DOMAIN calls \cup {Len(calls) + 1}
        /\ \A i \in DOMAIN calls : calls'[i] = calls[i]
        /\ calls'[Len(calls) + 1].nonce = 0
    BY <1>1, <2>1, JoinsFacts
  <2>3. mempool' = mempool  BY <1>10 DEF ForeignPost, netVars
  <2>4. QED  BY <1>3, <1>4, <2>2, <2>3 DEF LinkInv
<1>11. QED  BY <1>6, <1>7, <1>8, <1>9, <1>10 DEF WriterNext

LEMMA ArchiveInvInductive ==
  ASSUME WriterInv, [WriterNext]_allVars
  PROVE  ArchiveInv'
<1>1. TypedInv /\ TypeOK /\ ArchiveInv /\ RunInv /\ Step
  BY WriterStepIsIndexStep DEF WriterInv, IndexInv
<1>2. CallsStay  BY <1>1, StepKeepsCalls
<1>3. CASE archive' = archive
  <2>1. ASSUME archive.submitted, NEW k \in 0 .. (Len(archive.recs) - 1)
        PROVE  \E i \in DOMAIN calls' :
                 Posted(i, archive.stream, archive.recs, k, archive.startBlock, archive.endBlock)'
    <3>1. PICK i \in DOMAIN calls :
            Posted(i, archive.stream, archive.recs, k, archive.startBlock, archive.endBlock)
      BY <1>1, <2>1 DEF ArchiveInv
    <3>2. PICK s, f, start, end : /\ s = archive.stream /\ f = archive.recs
                                  /\ start = archive.startBlock /\ end = archive.endBlock
      OBVIOUS
    <3>3. i \in DOMAIN calls' /\ Posted(i, s, f, k, start, end)'
      BY <1>2, <3>1, <3>2, PostedStays
    <3>4. QED  BY <1>3, <3>2, <3>3 DEF Posted
  <2>2. QED  BY <1>3, <2>1 DEF ArchiveInv
<1>4. CASE DryRun
  BY <1>4 DEF DryRun, ArchiveOf, ArchiveInv
<1>5. CASE FinishPost
  <2>1. /\ writer # Idle /\ writer.next = Len(writer.recs) /\ calls' = calls
        /\ archive' = ArchiveOf(writer.stream, writer.recs, TRUE, writer.startBlock, writer.endBlock)
    BY <1>5 DEF FinishPost, Idle, vars
  <2>2. /\ archive'.stream = writer.stream /\ archive'.recs = writer.recs
        /\ archive'.startBlock = writer.startBlock /\ archive'.endBlock = writer.endBlock
    BY <2>1 DEF ArchiveOf
  <2>3. \A k \in 0 .. (Len(writer.recs) - 1) : \E i \in DOMAIN calls :
          Posted(i, writer.stream, writer.recs, k, writer.startBlock, writer.endBlock)
    BY <1>1, <2>1 DEF RunInv
  <2>4. ASSUME NEW k \in 0 .. (Len(archive'.recs) - 1)
        PROVE  \E i \in DOMAIN calls' :
                 Posted(i, archive.stream, archive.recs, k, archive.startBlock, archive.endBlock)'
    <3>1. PICK i \in DOMAIN calls :
            Posted(i, writer.stream, writer.recs, k, writer.startBlock, writer.endBlock)
      BY <2>2, <2>3
    <3>2. i \in DOMAIN calls'  BY <2>1
    <3>3. Posted(i, archive.stream, archive.recs, k, archive.startBlock, archive.endBlock)'
      BY <2>1, <2>2, <3>1 DEF Posted
    <3>4. QED  BY <3>2, <3>3
  <2>5. QED  BY <2>4 DEF ArchiveInv
<1>6. QED
  BY <1>3, <1>4, <1>5
  DEF WriterNext, StartPost, Submit, ReceiptSucceeds, ReceiptFails, Crash, MineWriterTx,
      RevertWriterTx, EvictWriterTx, ForeignPost, Index, EditRecords, InitKeystore, Disclose,
      ownerVars, allVars

\* The nonce of a receipt's call is the last one broadcast, so the run's
\* earlier calls were mined before it.
LEMMA RunInvInductive ==
  ASSUME WriterInv, [WriterNext]_allVars
  PROVE  RunInv'
<1>1. TypedInv /\ TypeOK /\ NonceInv /\ RunInv /\ Step
  BY WriterStepIsIndexStep DEF WriterInv, IndexInv
<1>2. CallsStay  BY <1>1, StepKeepsCalls
<1> DEFINE a == Anchors(writer.stream, writer.recs)
\* While the run itself does nothing, what it knows stays so.
<1>3. ASSUME writer' = writer, sent' = sent,
             \A i \in DOMAIN calls' \ DOMAIN calls :
               calls'[i].nonce # sent \/ \E m \in DOMAIN mempool : /\ mempool[m].nonce = sent
                                                                 /\ calls'[i].payload = mempool[m].payload,
             \A m \in DOMAIN mempool' : \E l \in DOMAIN mempool : mempool'[m] = mempool[l]
      PROVE  RunInv'
  <2>1. SUFFICES ASSUME writer # Idle
                 PROVE  /\ \A k \in 0 .. (writer.next - 1) : \E i \in DOMAIN calls' :
                             /\ Posted(i, writer.stream, writer.recs, k, writer.startBlock, writer.endBlock)'
                             /\ writer.step = "awaiting" => calls'[i].nonce < sent
                        /\ writer.step = "awaiting" =>
                             /\ \A i \in Receipts' : calls'[i].payload = a[writer.next + 1]
                             /\ \A m \in DOMAIN mempool' :
                                  mempool'[m].nonce = sent => mempool'[m].payload = a[writer.next + 1]
    BY <1>1, <1>3 DEF RunInv
  <2>2. ASSUME NEW k \in 0 .. (writer.next - 1)
        PROVE  \E i \in DOMAIN calls' :
                 /\ Posted(i, writer.stream, writer.recs, k, writer.startBlock, writer.endBlock)'
                 /\ writer.step = "awaiting" => calls'[i].nonce < sent
    <3>1. PICK i \in DOMAIN calls :
            /\ Posted(i, writer.stream, writer.recs, k, writer.startBlock, writer.endBlock)
            /\ writer.step = "awaiting" => calls[i].nonce < sent
      BY <1>1, <2>1 DEF RunInv
    <3>2. PICK s, f, start, end : /\ s = writer.stream /\ f = writer.recs
                                  /\ start = writer.startBlock /\ end = writer.endBlock
      OBVIOUS
    <3>3. i \in DOMAIN calls' /\ Posted(i, s, f, k, start, end)'
      BY <1>2, <3>1, <3>2, PostedStays
    <3>4. calls'[i] = calls[i]  BY <1>2 DEF CallsStay
    <3>5. QED  BY <1>3, <3>1, <3>2, <3>3, <3>4 DEF Posted
  <2>3. ASSUME writer.step = "awaiting", NEW i \in Receipts'
        PROVE  calls'[i].payload = a[writer.next + 1]
    <3>1. i \in DOMAIN calls' /\ calls'[i].nonce = sent  BY <1>3 DEF Receipts
    <3>2. CASE i \in DOMAIN calls
      <4>1. calls'[i] = calls[i] /\ i \in Receipts  BY <1>2, <3>1, <3>2 DEF CallsStay, Receipts
      <4>2. QED  BY <1>1, <2>1, <2>3, <4>1 DEF RunInv
    <3>3. CASE i \notin DOMAIN calls
      BY <1>1, <1>3, <2>1, <2>3, <3>1, <3>3 DEF RunInv
    <3>4. QED  BY <3>2, <3>3
  <2>4. ASSUME writer.step = "awaiting", NEW m \in DOMAIN mempool', mempool'[m].nonce = sent
        PROVE  mempool'[m].payload = a[writer.next + 1]
    BY <1>1, <1>3, <2>1, <2>4 DEF RunInv
  <2>5. QED  BY <2>2, <2>3, <2>4
<1>4. CASE StartPost
  <2>1. /\ writer'.next = 0 /\ writer'.step = "ready" /\ writer'.startBlock = NoBlock
        /\ writer'.prev = ZERO32
    BY <1>4 DEF StartPost
  <2>2. QED  BY <2>1 DEF RunInv
<1>5. CASE ReceiptFails \/ FinishPost \/ Crash
  BY <1>5 DEF ReceiptFails, FinishPost, Crash, RunInv
<1>6. CASE \/ DryRun \/ Index \/ EditRecords \/ InitKeystore \/ Disclose \/ UNCHANGED allVars
  <2>1. UNCHANGED <<calls, mempool, sent, writer>>
    BY <1>6 DEF DryRun, Index, IndexNext, EditRecords, InitKeystore, Disclose, allVars, vars, netVars
  <2>2. QED  BY <1>3, <2>1
<1>7. CASE EvictWriterTx
  <2>1. UNCHANGED <<calls, sent, writer>>  BY <1>7 DEF EvictWriterTx, vars
  <2>2. QED  BY <1>1, <1>3, <1>7, <2>1, EvictFacts
<1>8. CASE ForeignPost
  <2>1. PICK c : Joins(c) /\ c.nonce = 0  BY <1>1, <1>8, ForeignJoins
  <2>2. /\ DOMAIN calls' = DOMAIN calls \cup {Len(calls) + 1}
        /\ calls'[Len(calls) + 1].nonce = 0
    BY <1>1, <2>1, JoinsFacts
  <2>3. UNCHANGED <<mempool, sent, writer>>  BY <1>8 DEF ForeignPost, netVars
  <2>4. CASE sent = 0
    <3>1. writer # Idle => writer.step # "awaiting"  BY <1>1, <2>4 DEF RunInv
    <3>2. ASSUME writer # Idle, NEW k \in 0 .. (writer.next - 1)
          PROVE  \E i \in DOMAIN calls' :
                   Posted(i, writer.stream, writer.recs, k, writer.startBlock, writer.endBlock)'
      <4>1. PICK i \in DOMAIN calls :
              Posted(i, writer.stream, writer.recs, k, writer.startBlock, writer.endBlock)
        BY <1>1, <3>2 DEF RunInv
      <4>2. PICK s, f, start, end : /\ s = writer.stream /\ f = writer.recs
                                    /\ start = writer.startBlock /\ end = writer.endBlock
        OBVIOUS
      <4>3. i \in DOMAIN calls' /\ Posted(i, s, f, k, start, end)'
        BY <1>2, <4>1, <4>2, PostedStays
      <4>4. QED  BY <2>3, <4>2, <4>3 DEF Posted
    <3>3. QED  BY <1>1, <2>3, <3>1, <3>2 DEF RunInv
  <2>5. CASE sent # 0
    BY <1>3, <2>2, <2>3, <2>5
  <2>6. QED  BY <2>4, <2>5
<1>9. CASE MineWriterTx \/ RevertWriterTx
  <2>1. PICK kind \in {"top", "reverted"} :
          /\ Joins(MinedCall(kind)) /\ 1 \in DOMAIN mempool
          /\ MinedCall(kind).payload = mempool[1].payload
          /\ MinedCall(kind).nonce = mempool[1].nonce
    BY <1>9, WriterTxMines
  <2>2. /\ mempool # <<>> /\ mempool' = Tail(mempool) /\ UNCHANGED <<writer, sent>>
    BY <1>9 DEF MineWriterTx, RevertWriterTx
  <2>3. /\ DOMAIN calls' = DOMAIN calls \cup {Len(calls) + 1}
        /\ calls'[Len(calls) + 1] = MinedCall(kind)
    BY <1>1, <2>1, JoinsFacts
  <2>4. \A i \in DOMAIN calls' \ DOMAIN calls :
          calls'[i].nonce # sent \/ \E m \in DOMAIN mempool : /\ mempool[m].nonce = sent
                                                            /\ calls'[i].payload = mempool[m].payload
    BY <2>1, <2>3
  <2>5. \A m \in DOMAIN mempool' : \E l \in DOMAIN mempool : mempool'[m] = mempool[l]
    BY <1>1, <2>2, TailFacts
  <2>6. QED  BY <1>3, <2>2, <2>4, <2>5
<1>10. CASE Submit
  <2>1. /\ writer # Idle /\ writer \in Run /\ writer.step = "ready" /\ calls' = calls
        /\ writer' = [writer EXCEPT !.step = "awaiting"] /\ sent' = sent + 1
        /\ writer.next < Len(writer.recs)
    BY <1>1, <1>10 DEF Submit, Idle, vars, TypedInv, RunTyped
  <2>2. /\ writer'.stream = writer.stream /\ writer'.recs = writer.recs
        /\ writer'.next = writer.next /\ writer'.prev = writer.prev
        /\ writer'.startBlock = writer.startBlock /\ writer'.endBlock = writer.endBlock
    BY <2>1 DEF Run
  <2>3. sent \in Nat /\ sent' > 0  BY <1>1, <2>1 DEF TypedInv
  <2>4. \A i \in DOMAIN calls : calls[i].nonce < sent'
    BY <1>1, <2>1, <2>3, CallsFacts DEF NonceInv
  <2>5. Receipts' = {}
    <3>1. \A i \in DOMAIN calls' : calls'[i].nonce # sent'
      BY <1>1, <2>1, <2>3, <2>4, CallsFacts
    <3>2. QED  BY <3>1 DEF Receipts
  <2>6. \A m \in DOMAIN mempool' : mempool'[m].nonce = sent' => mempool'[m].payload = a[writer.next + 1]
    <3>1. NextEnvelope = a[writer.next + 1]  BY <2>1, NextIsNext
    <3>2. \A m \in DOMAIN mempool : mempool'[m].nonce # sent'
      BY <1>1, <1>10, <2>1, <2>3, SubmitFacts, MempoolFacts
    <3>3. QED  BY <1>10, <3>1, <3>2, SubmitFacts
  <2>7. \A k \in 0 .. (writer.next - 1) : \E i \in DOMAIN calls' :
          /\ Posted(i, writer.stream, writer.recs, k, writer.startBlock, writer.endBlock)'
          /\ calls'[i].nonce < sent'
    BY <1>1, <2>1, <2>2, <2>4 DEF RunInv, Posted
  <2>8. QED  BY <1>1, <2>1, <2>2, <2>3, <2>5, <2>6, <2>7 DEF RunInv
<1>11. CASE ReceiptSucceeds
  <2>1. PICK i \in Receipts :
          /\ calls[i].kind = "top"
          /\ writer' = [writer EXCEPT !.step = "ready", !.next = @ + 1,
                                   !.prev = Keccak(calls[i].payload),
                                   !.startBlock = IF @ = NoBlock THEN calls[i].tx ELSE @,
                                   !.endBlock = calls[i].tx]
    BY <1>11 DEF ReceiptSucceeds
  <2>2. /\ writer # Idle /\ writer \in Run /\ writer.step = "awaiting"
        /\ i \in DOMAIN calls /\ calls[i].nonce = sent /\ sent > 0
        /\ calls[i].payload = a[writer.next + 1]
        /\ calls[i].tx \in Nat /\ calls[i].tx > 0
    BY <1>11, ReceiptFacts DEF ReceiptSucceeds
  <2> DEFINE start == IF writer.startBlock = NoBlock THEN calls[i].tx ELSE writer.startBlock
  <2>3. /\ writer'.step = "ready" /\ writer'.next = writer.next + 1
        /\ writer'.prev = Keccak(calls[i].payload)
        /\ writer'.stream = writer.stream /\ writer'.recs = writer.recs
        /\ writer'.startBlock = start /\ writer'.endBlock = calls[i].tx
    BY <2>1, <2>2 DEF Run
  <2>4. calls' = calls  BY <1>11 DEF ReceiptSucceeds, vars
  <2>5. writer.next \in Nat /\ writer.startBlock \in Nat /\ writer.endBlock \in Nat
    BY <2>2 DEF Run
  <2>6. ASSUME NEW j \in DOMAIN calls, calls[j].nonce > 0, calls[j].nonce < sent
        PROVE  j \in 1 .. (i - 1) /\ calls[j].tx <= calls[i].tx
    <3>1. j \in Nat /\ i \in Nat /\ j >= 1 /\ calls[j].tx \in Nat /\ calls[j].nonce \in Nat
      BY <1>1, <2>2, CallsFacts
    <3>2. j < i
      <4>1. SUFFICES ASSUME j > i PROVE FALSE  BY <2>2, <2>6, <3>1
      <4>2. i \in 1 .. (j - 1)  BY <1>1, <2>2, <3>1, <4>1, CallsFacts
      <4>3. calls[i].nonce < calls[j].nonce  BY <1>1, <2>6, <4>2 DEF NonceInv
      <4>4. QED  BY <1>1, <2>2, <2>6, <3>1, <4>3 DEF TypedInv
    <3>3. j \in 1 .. (i - 1)  BY <3>1, <3>2
    <3>4. calls[j].tx < calls[i].tx  BY <1>1, <2>2, <3>3 DEF NonceInv
    <3>5. QED  BY <2>2, <3>1, <3>3, <3>4
  <2>7. \A k \in 0 .. (writer.next - 1) : \E j \in DOMAIN calls :
          /\ Posted(j, writer.stream, writer.recs, k, writer.startBlock, writer.endBlock)
          /\ calls[j].nonce < sent
    BY <1>1, <2>2 DEF RunInv
  <2>8. writer.next > 0 => start = writer.startBlock /\ start > 0
    BY <1>1, <2>2 DEF RunInv, NoBlock
  <2>9. start > 0  BY <2>2, <2>5 DEF NoBlock
  <2>10. ASSUME NEW k \in 0 .. (writer.next - 1)
         PROVE  \E j \in DOMAIN calls :
                  /\ Posted(j, writer.stream, writer.recs, k, start, calls[i].tx)
                  /\ j \in 1 .. (i - 1)
    <3>1. PICK j \in DOMAIN calls :
            /\ Posted(j, writer.stream, writer.recs, k, writer.startBlock, writer.endBlock)
            /\ calls[j].nonce < sent
      BY <2>7
    <3>2. j \in 1 .. (i - 1) /\ calls[j].tx <= calls[i].tx
      BY <2>6, <3>1 DEF Posted
    <3>3. start = writer.startBlock  BY <2>5, <2>8
    <3>4. QED  BY <3>1, <3>2, <3>3 DEF Posted
  <2>11. Posted(i, writer.stream, writer.recs, writer.next, start, calls[i].tx)
    <3>1. start <= calls[i].tx
      <4>1. CASE writer.next = 0
        BY <1>1, <2>2, <4>1 DEF RunInv
      <4>2. CASE writer.next > 0
        <5>1. 0 \in 0 .. (writer.next - 1)  BY <2>5, <4>2
        <5>2. PICK j \in DOMAIN calls : Posted(j, writer.stream, writer.recs, 0, start, calls[i].tx)
          BY <2>10, <5>1
        <5>3. calls[j].tx \in Nat  BY <1>1, CallsFacts
        <5>4. QED  BY <2>2, <2>5, <5>2, <5>3 DEF Posted
      <4>3. QED  BY <2>5, <4>1, <4>2
    <3>2. ASSUME writer.next > 0
          PROVE  \E j \in 1 .. (i - 1) : calls[j].payload = a[writer.next]
      <4>1. writer.next - 1 \in 0 .. (writer.next - 1) /\ (writer.next - 1) + 1 = writer.next
        BY <2>5, <3>2
      <4>2. QED  BY <2>10, <4>1 DEF Posted
    <3>3. QED  BY <2>1, <2>2, <3>1, <3>2 DEF Posted
  <2>12. ASSUME NEW k \in 0 .. (writer'.next - 1)
         PROVE  \E j \in DOMAIN calls' :
                  Posted(j, writer.stream, writer.recs, k, writer.startBlock, writer.endBlock)'
    <3>1. \E j \in DOMAIN calls : Posted(j, writer.stream, writer.recs, k, start, calls[i].tx)
      <4>1. k \in 0 .. (writer.next - 1) \/ k = writer.next  BY <2>3, <2>5
      <4>2. QED  BY <2>2, <2>10, <2>11, <4>1
    <3>2. QED  BY <2>3, <2>4, <3>1 DEF Posted
  <2>13. writer'.prev = Keccak(a[writer'.next]) /\ writer'.next > 0
    BY <2>2, <2>3, <2>5
  <2>14. QED
    <3> HIDE DEF start
    <3>1. writer'.step = "ready" /\ writer'.startBlock > 0 /\ writer'.next # 0
      BY <2>3, <2>5, <2>9, <2>13
    <3>2. a' = a  BY <2>3
    <3>3. QED  BY <2>12, <2>13, <3>1, <3>2 DEF RunInv
<1>12. QED
  BY <1>4, <1>5, <1>6, <1>7, <1>8, <1>9, <1>10, <1>11 DEF WriterNext

LEMMA OwnInvInductive ==
  ASSUME WriterInv, [WriterNext]_allVars
  PROVE  OwnInv'
<1>1. TypedInv /\ TypeOK /\ NonceInv /\ OwnInv
  BY DEF WriterInv, IndexInv
<1>2. changes \in Nat  BY <1>1 DEF TypedInv
<1>3. CASE EditRecords \/ InitKeystore
  <2>1. changes' # 0  BY <1>2, <1>3 DEF EditRecords, InitKeystore
  <2>2. QED  BY <2>1 DEF OwnInv
<1>4. ASSUME UNCHANGED <<keystore, records, changes>>, changes = 0,
             writer' # Idle => writer'.stream = keystore /\ writer'.recs = records,
             \A i \in DOMAIN calls' : calls'[i].nonce > 0 => Own(calls'[i].payload),
             \A m \in DOMAIN mempool' : Own(mempool'[m].payload)
      PROVE  OwnInv'
  BY <1>4 DEF OwnInv, Own
<1>5. CASE changes # 0 /\ changes' = changes
  BY <1>5 DEF OwnInv
<1>6. ASSUME changes = 0
      PROVE  /\ writer # Idle => writer.stream = keystore /\ writer.recs = records
             /\ \A i \in DOMAIN calls : calls[i].nonce > 0 => Own(calls[i].payload)
             /\ \A m \in DOMAIN mempool : Own(mempool[m].payload)
  BY <1>1, <1>6 DEF OwnInv
<1>7. CASE changes = 0 /\ StartPost
  BY <1>4, <1>6, <1>7 DEF StartPost, vars, ownerVars, netVars
<1>8. CASE changes = 0 /\ (ReceiptFails \/ FinishPost \/ Crash)
  <2>1. writer' = Idle /\ UNCHANGED <<keystore, records, changes, calls, mempool>>
    BY <1>8 DEF ReceiptFails, FinishPost, Crash, vars, ownerVars, netVars
  <2>2. QED  BY <1>4, <1>6, <1>8, <2>1
<1>9. CASE changes = 0 /\ (DryRun \/ Index \/ Disclose \/ UNCHANGED allVars)
  <2>1. UNCHANGED <<writer, keystore, records, changes, calls, mempool>>
    BY <1>9 DEF DryRun, Index, IndexNext, Disclose, allVars, vars, ownerVars, netVars
  <2>2. QED  BY <1>4, <1>6, <1>9, <2>1
<1>10. CASE changes = 0 /\ Submit
  <2>1. /\ writer # Idle /\ writer \in Run /\ writer.next < Len(writer.recs)
        /\ writer' = [writer EXCEPT !.step = "awaiting"]
        /\ UNCHANGED <<keystore, records, changes, calls>>
    BY <1>1, <1>10 DEF Submit, Idle, TypedInv, RunTyped, vars, ownerVars
  <2>2. writer'.stream = writer.stream /\ writer'.recs = writer.recs  BY <2>1 DEF Run
  <2>3. writer.stream = keystore /\ writer.recs = records  BY <1>6, <1>10, <2>1
  <2>4. Own(NextEnvelope)  BY <2>1, <2>3, NextIsNext DEF Own
  <2>5. \A m \in DOMAIN mempool' : Own(mempool'[m].payload)
    BY <1>6, <1>10, <2>4, SubmitFacts
  <2>6. QED  BY <1>4, <1>6, <1>10, <2>1, <2>2, <2>3, <2>5
<1>11. CASE changes = 0 /\ ReceiptSucceeds
  <2>1. /\ writer \in Run /\ writer # Idle /\ UNCHANGED <<keystore, records, changes, calls, mempool>>
        /\ \E i : writer' = [writer EXCEPT !.step = "ready", !.next = @ + 1,
                                   !.prev = Keccak(calls[i].payload),
                                   !.startBlock = IF @ = NoBlock THEN calls[i].tx ELSE @,
                                   !.endBlock = calls[i].tx]
    BY <1>11, ReceiptFacts DEF ReceiptSucceeds, vars, ownerVars, netVars
  <2>2. writer'.stream = writer.stream /\ writer'.recs = writer.recs  BY <2>1 DEF Run
  <2>3. QED  BY <1>4, <1>6, <1>11, <2>1, <2>2
<1>12. CASE changes = 0 /\ (MineWriterTx \/ RevertWriterTx)
  <2>1. PICK kind \in {"top", "reverted"} :
          /\ Joins(MinedCall(kind)) /\ 1 \in DOMAIN mempool
          /\ MinedCall(kind).payload = mempool[1].payload
    BY <1>12, WriterTxMines
  <2>2. /\ mempool # <<>> /\ mempool' = Tail(mempool)
        /\ UNCHANGED <<writer, keystore, records, changes>>
    BY <1>12 DEF MineWriterTx, RevertWriterTx, ownerVars
  <2>3. /\ DOMAIN calls' = DOMAIN calls \cup {Len(calls) + 1}
        /\ \A i \in DOMAIN calls : calls'[i] = calls[i]
        /\ calls'[Len(calls) + 1] = MinedCall(kind)
    BY <1>1, <2>1, JoinsFacts
  <2>4. \A i \in DOMAIN calls' : calls'[i].nonce > 0 => Own(calls'[i].payload)
    BY <1>6, <1>12, <2>1, <2>3
  <2>5. \A m \in DOMAIN mempool' : Own(mempool'[m].payload)
    BY <1>1, <1>6, <1>12, <2>2, TailFacts
  <2>6. QED  BY <1>4, <1>6, <1>12, <2>2, <2>4, <2>5
<1>13. CASE changes = 0 /\ EvictWriterTx
  <2>1. UNCHANGED <<writer, keystore, records, changes, calls>>
    BY <1>13 DEF EvictWriterTx, vars
  <2>2. \A m \in DOMAIN mempool' : Own(mempool'[m].payload)
    BY <1>1, <1>6, <1>13, EvictFacts
  <2>3. QED  BY <1>4, <1>6, <1>13, <2>1, <2>2
<1>14. CASE changes = 0 /\ ForeignPost
  <2>1. PICK c : Joins(c) /\ c.nonce = 0  BY <1>1, <1>14, ForeignJoins
  <2>2. /\ DOMAIN calls' = DOMAIN calls \cup {Len(calls) + 1}
        /\ \A i \in DOMAIN calls : calls'[i] = calls[i]
        /\ calls'[Len(calls) + 1] = c
    BY <1>1, <2>1, JoinsFacts
  <2>3. UNCHANGED <<writer, keystore, records, changes, mempool>>
    BY <1>14 DEF ForeignPost, ownerVars, netVars
  <2>4. \A i \in DOMAIN calls' : calls'[i].nonce > 0 => Own(calls'[i].payload)
    BY <1>6, <1>14, <2>1, <2>2
  <2>5. QED  BY <1>4, <1>6, <1>14, <2>3, <2>4
<1>15. changes' = changes \/ EditRecords \/ InitKeystore
  BY DEF WriterNext, StartPost, DryRun, Submit, ReceiptSucceeds, ReceiptFails, FinishPost, Crash,
     MineWriterTx, RevertWriterTx, EvictWriterTx, ForeignPost, Index, Disclose, ownerVars, allVars
<1>16. QED
  BY <1>3, <1>5, <1>7, <1>8, <1>9, <1>10, <1>11, <1>12, <1>13, <1>14, <1>15 DEF WriterNext

LEMMA WriterInvInitially ==
  ASSUME WriterInit
  PROVE  WriterInv
<1>1. IndexInv
  BY TypeOKInitially
  DEF WriterInit, Init, IndexInit, EmptyTable, IndexInv, FirstEnvelopeWins, StreamSummaryExact,
      ConflictRowsExact, ConflictsExact, MalformedExact, Disputed, MalformedHandled, Handled, BlocksAscend
<1>2. TypedInv
  BY WriterAssumption DEF WriterInit, TypedInv, RunTyped, FileOK
<1>3. NonceInv /\ LinkInv
  BY DEF WriterInit, Init, NonceInv, LinkInv
<1>4. RunInv /\ ArchiveInv /\ OwnInv
  BY DEF WriterInit, Init, RunInv, ArchiveInv, OwnInv, NoFile
<1>5. QED  BY <1>1, <1>2, <1>3, <1>4 DEF WriterInv

LEMMA WriterInvInductive ==
  ASSUME WriterInv, [WriterNext]_allVars
  PROVE  WriterInv'
<1>1. IndexInv'  BY WriterStepIsIndexStep, IndexInvInductive DEF WriterInv
<1>2. QED
  BY <1>1, TypedInvInductive, NonceInvInductive, LinkInvInductive, RunInvInductive,
     ArchiveInvInductive, OwnInvInductive DEF WriterInv

LEMMA WriterInvariant == WriterSpec => []WriterInv
BY WriterInvInitially, WriterInvInductive, PTL DEF WriterSpec

-----------------------------------------------------------------------------
(* The theorems. *)

\* Types: keystore, files, run, mempool and tables always hold what the code
\* puts there, whatever fails.
THEOREM WriterTypeCorrect == WriterSpec => []WriterTypeOK
<1>1. ASSUME WriterInv PROVE WriterTypeOK
  <2>1. TypedInv /\ TypeOK  BY <1>1 DEF WriterInv, IndexInv
  <2>2. CASE writer = Idle
    BY <2>1, <2>2 DEF TypedInv, WriterTypeOK, Pending
  <2>3. CASE writer # Idle
    <3>1. /\ writer \in Run /\ writer.next <= Len(writer.recs)
          /\ writer.step = "awaiting" => writer.next < Len(writer.recs)
      BY <2>1, <2>3 DEF TypedInv, RunTyped
    <3>2. writer = [step |-> writer.step, stream |-> writer.stream, recs |-> writer.recs,
                    next |-> writer.next, prev |-> writer.prev,
                    startBlock |-> writer.startBlock, endBlock |-> writer.endBlock]
      BY <3>1 DEF Run
    <3>3. /\ writer.step \in {"ready", "awaiting"}
          /\ writer.stream \in StreamIds /\ writer.recs \in RecordFiles /\ writer.next \in Nat
          /\ writer.startBlock \in Nat /\ writer.endBlock \in Nat
      BY <3>1 DEF Run
    <3>4. writer.next \in 0 .. Len(writer.recs)  BY <3>1, <3>3, WriterAssumption
    <3>5. QED  BY <2>1, <3>1, <3>2, <3>3, <3>4 DEF TypedInv, WriterTypeOK, Pending
  <2>4. QED  BY <2>2, <2>3
<1>2. QED  BY <1>1, WriterInvariant, PTL

\* Handled calls of a stream no stranger posted to are the writer's.
LEMMA HandledIsOwn ==
  ASSUME TypeOK, NEW i \in Handled(indexed), ~ForeignOn(Served(i).stream)
  PROVE  /\ i \in DOMAIN calls /\ calls[i].nonce > 0
         /\ calls[i].payload \in Envelopes
         /\ Served(i).stream = calls[i].payload.stream
         /\ Served(i).seq = calls[i].payload.seq
<1>1. i \in DOMAIN calls  BY CallsFacts DEF Handled, TypeOK
<1>2. calls[i].payload \in Envelopes  BY DEF Handled
<1>3. Served(i).stream = calls[i].payload.stream /\ Served(i).seq = calls[i].payload.seq
  BY <1>2, AsServedKeepsPosition DEF Served
<1>4. calls[i].nonce \in Nat  BY <1>1, CallsFacts
<1>5. QED  BY <1>1, <1>2, <1>3, <1>4 DEF ForeignOn

\* The first handled call at a served position holds the row.
LEMMA FirstAt ==
  ASSUME FirstEnvelopeWins, NEW k \in DOMAIN anchors
  PROVE  \E i \in Handled(indexed) :
           /\ Position(Served(i)) = k
           /\ \A j \in Handled(indexed) : Position(Served(j)) = k => i <= j
           /\ anchors[k].digest = Keccak(Served(i))
           /\ anchors[k].cd = Served(i).cd /\ anchors[k].prev = Served(i).prev
           /\ anchors[k].tx = calls[i].tx
BY DEF FirstEnvelopeWins, HoldsFirst, Copies, HandledAt

\* Starting over is harmless: without edits, no crash, revert, eviction or
\* late transaction makes the owner conflict with himself (cli.ts cmdPost).
THEOREM RetriesNeverConflictAlways == WriterSpec => []RetriesNeverConflict
<1>1. ASSUME WriterInv, changes = 0, NEW s \in DOMAIN streams, ~ForeignOn(s)
      PROVE  ~streams[s].hasConflicts
  <2>1. TypeOK /\ FirstEnvelopeWins /\ StreamSummaryExact /\ TypedInv /\ OwnInv
    BY <1>1 DEF WriterInv, IndexInv
  <2>2. SUFFICES ASSUME streams[s].hasConflicts PROVE FALSE  OBVIOUS
  <2>3. Disputed \cap HandledOf(s) # {}
    <3>1. Cardinality(Disputed \cap HandledOf(s)) > 0
      BY <2>1, <2>2 DEF StreamSummaryExact, SummaryOK
    <3>2. QED  BY <3>1, FS_EmptySet
  <2>4. PICK i \in Handled(indexed) :
          /\ Keccak(Served(i)) # anchors[Position(Served(i))].digest
          /\ Served(i).stream = s
    BY <2>3 DEF Disputed, HandledOf
  <2>5. Position(Served(i)) \in DOMAIN anchors  BY <2>1 DEF FirstEnvelopeWins
  <2>6. PICK j \in Handled(indexed) :
          /\ Position(Served(j)) = Position(Served(i))
          /\ anchors[Position(Served(i))].digest = Keccak(Served(j))
    BY <2>1, <2>5, FirstAt
  <2>7. Served(j).stream = Served(i).stream /\ Served(j).seq = Served(i).seq
    BY <2>6 DEF Position
  <2>8. /\ i \in DOMAIN calls /\ calls[i].nonce > 0 /\ Served(i).seq = calls[i].payload.seq
        /\ j \in DOMAIN calls /\ calls[j].nonce > 0 /\ Served(j).seq = calls[j].payload.seq
    BY <1>1, <2>1, <2>4, <2>7, HandledIsOwn
  <2>9. Own(calls[i].payload) /\ Own(calls[j].payload)
    BY <1>1, <2>1, <2>8 DEF OwnInv
  <2>10. calls[i].payload = calls[j].payload
    <3>1. keystore \in StreamIds /\ records \in RecordFiles /\ Len(records) \in Nat
      BY <2>1, WriterAssumption DEF TypedInv
    <3>2. PICK k \in 1 .. Len(records) : calls[i].payload = Anchors(keystore, records)[k]
      BY <2>9 DEF Own
    <3>3. PICK l \in 1 .. Len(records) : calls[j].payload = Anchors(keystore, records)[l]
      BY <2>9 DEF Own
    <3>4. calls[i].payload.seq = k - 1 /\ calls[j].payload.seq = l - 1
      BY <3>1, <3>2, <3>3, AnchorParts
    <3>5. k = l  BY <2>7, <2>8, <3>1, <3>4
    <3>6. QED  BY <3>2, <3>3, <3>5
  <2>11. QED  BY <2>4, <2>6, <2>10 DEF Served
<1>2. WriterInv => RetriesNeverConflict  BY <1>1 DEF RetriesNeverConflict
<1>3. QED  BY <1>2, WriterInvariant, PTL

\* An archive marked submitted tells the truth (cli.ts writes it after the
\* last receipt, and a reverted receipt ends the run).
THEOREM ArchiveIsAlwaysOnChain == WriterSpec => []ArchiveIsOnChain
<1>1. ASSUME WriterInv, archive.submitted, NEW k \in 0 .. (Len(archive.recs) - 1)
      PROVE  \E i \in DOMAIN calls :
        /\ calls[i].nonce > 0 /\ calls[i].kind = "top"
        /\ calls[i].tx \in archive.startBlock .. archive.endBlock
        /\ calls[i].payload.stream = archive.stream
        /\ calls[i].payload.seq = k
        /\ calls[i].payload.cd = CiphertextDigest(archive.stream, k, archive.recs[k + 1])
        /\ IF k = 0 THEN calls[i].payload.prev = ZERO32
           ELSE \E j \in 1 .. (i - 1) : calls[i].payload.prev = Keccak(calls[j].payload)
  <2>1. TypeOK /\ TypedInv /\ ArchiveInv  BY <1>1 DEF WriterInv, IndexInv
  <2>2. /\ archive.stream \in StreamIds /\ archive.recs \in RecordFiles
        /\ archive.startBlock \in Nat /\ archive.endBlock \in Nat
    <3>1. archive # NoFile  BY <1>1 DEF NoFile
    <3>2. QED  BY <2>1, <3>1 DEF TypedInv, FileOK
  <2>3. k + 1 \in 1 .. Len(archive.recs) /\ (k + 1) - 1 = k
    BY <1>1, <2>2, WriterAssumption
  <2>4. PICK i \in DOMAIN calls :
          Posted(i, archive.stream, archive.recs, k, archive.startBlock, archive.endBlock)
    BY <1>1, <2>1 DEF ArchiveInv
  <2>5. LET e == Anchors(archive.stream, archive.recs)[k + 1]
        IN /\ e.stream = archive.stream /\ e.seq = k
           /\ e.cd = CiphertextDigest(archive.stream, k, archive.recs[k + 1])
           /\ e.prev = IF k = 0 THEN ZERO32 ELSE Keccak(Anchors(archive.stream, archive.recs)[k])
    <3>1. PICK n : n = k + 1  OBVIOUS
    <3>2. n \in 1 .. Len(archive.recs) /\ n - 1 = k /\ (n = 1 <=> k = 0)  BY <2>3, <3>1
    <3>3. QED  BY <2>2, <3>1, <3>2, AnchorParts
  <2>6. calls[i].tx \in Nat  BY <2>1, CallsFacts
  <2>7. IF k = 0 THEN calls[i].payload.prev = ZERO32
        ELSE \E j \in 1 .. (i - 1) : calls[i].payload.prev = Keccak(calls[j].payload)
    BY <2>4, <2>5 DEF Posted
  <2>8. QED  BY <2>2, <2>4, <2>5, <2>6, <2>7 DEF Posted
<1>2. WriterInv => ArchiveIsOnChain  BY <1>1 DEF ArchiveIsOnChain
<1>3. QED  BY <1>2, WriterInvariant, PTL

LEMMA ServedHasPosition ==
  ASSUME TypeOK, FirstEnvelopeWins, NEW i \in Handled(indexed)
  PROVE  Position(Served(i)) \in DOMAIN anchors
BY DEF FirstEnvelopeWins

\* A build that withholds nothing handles every envelope of the writer.
LEMMA WriterCallIsHandled ==
  ASSUME Mode # "DROP_EVERY_FOURTH", TypeOK, NEW i \in DOMAIN calls, i <= indexed,
         calls[i].kind = "top", calls[i].payload \in Envelopes
  PROVE  /\ i \in Handled(indexed)
         /\ Served(i).stream = calls[i].payload.stream
         /\ Served(i).seq = calls[i].payload.seq
         /\ Served(i).cd = calls[i].payload.cd
<1>1. indexed \in Nat /\ i \in 1 .. indexed  BY CallsFacts DEF TypeOK
<1>2. i \in Handled(indexed)  BY <1>1 DEF Handled, Traced, Withheld
<1>3. Served(i).cd = calls[i].payload.cd  BY AsServedKeepsPosition DEF Served
<1>4. QED  BY <1>2, <1>3, AsServedKeepsPosition DEF Served

\* Below a handled call of the writer there is another, handled before it.
LEMMA BelowIsHandled ==
  ASSUME Mode # "DROP_EVERY_FOURTH", WriterInv, NEW i \in Handled(indexed),
         ~ForeignOn(Served(i).stream), Served(i).seq > 0
  PROVE  \E j \in Handled(indexed) :
           /\ j < i
           /\ Served(j).stream = Served(i).stream
           /\ Served(j).seq = Served(i).seq - 1
           /\ calls[i].payload.prev = Keccak(calls[j].payload)
<1>1. TypeOK /\ LinkInv  BY DEF WriterInv, IndexInv
<1>2. /\ i \in DOMAIN calls /\ calls[i].nonce > 0
      /\ calls[i].payload \in Envelopes
      /\ Served(i).stream = calls[i].payload.stream
      /\ Served(i).seq = calls[i].payload.seq
  BY <1>1, HandledIsOwn
<1>3. PICK j \in 1 .. (i - 1) :
        /\ calls[j].nonce > 0 /\ calls[j].kind = "top"
        /\ calls[j].payload.stream = calls[i].payload.stream
        /\ calls[j].payload.seq = calls[i].payload.seq - 1
        /\ calls[i].payload.prev = Keccak(calls[j].payload)
  BY <1>1, <1>2 DEF LinkInv, BuiltOn
<1>4. i \in 1 .. indexed /\ indexed \in Nat  BY <1>1, CallsFacts DEF Handled, TypeOK
<1>5. j \in DOMAIN calls /\ j <= indexed /\ j < i  BY <1>1, <1>2, <1>3, <1>4, CallsFacts
<1>6. calls[j].payload \in Envelopes  BY <1>1, <1>3, <1>5 DEF LinkInv
<1>7. j \in Handled(indexed) /\ Served(j).stream = calls[j].payload.stream
      /\ Served(j).seq = calls[j].payload.seq
  BY <1>1, <1>3, <1>5, <1>6, WriterCallIsHandled
<1>8. QED  BY <1>2, <1>3, <1>5, <1>7

\* Awaiting each receipt keeps the index contiguous and its rows in block
\* order, through any crashes, edits and reruns (chain.ts submit, cmdPost).
THEOREM NoPositionSkippedAlways ==
  ASSUME Mode # "DROP_EVERY_FOURTH"
  PROVE  WriterSpec => []NoPositionSkipped
<1>1. ASSUME WriterInv, NEW k \in DOMAIN anchors, ~ForeignOn(k[1]), k[2] > 0
      PROVE  /\ <<k[1], k[2] - 1>> \in DOMAIN anchors
             /\ anchors[<<k[1], k[2] - 1>>].tx < anchors[k].tx
  <2> DEFINE below == <<k[1], k[2] - 1>>
  <2>1. TypeOK /\ FirstEnvelopeWins /\ NonceInv  BY <1>1 DEF WriterInv, IndexInv
  <2>2. PICK i \in Handled(indexed) : Position(Served(i)) = k /\ anchors[k].tx = calls[i].tx
    BY <2>1, FirstAt
  <2>3. k[1] = Served(i).stream /\ k[2] = Served(i).seq  BY <2>2 DEF Position
  <2>4. i \in DOMAIN calls /\ calls[i].nonce > 0  BY <1>1, <2>1, <2>3, HandledIsOwn
  <2>5. PICK j \in Handled(indexed) :
          j < i /\ Served(j).stream = Served(i).stream /\ Served(j).seq = Served(i).seq - 1
    BY <1>1, <2>3, BelowIsHandled
  <2>6. Position(Served(j)) = below  BY <2>3, <2>5 DEF Position
  <2>7. below \in DOMAIN anchors  BY <2>1, <2>6, ServedHasPosition
  <2>8. PICK h \in Handled(indexed) : h <= j /\ anchors[below].tx = calls[h].tx
    BY <2>1, <2>6, <2>7, FirstAt
  <2>9. h \in 1 .. (i - 1)
    BY <2>1, <2>4, <2>5, <2>8, CallsFacts DEF Handled, TypeOK
  <2>10. calls[h].tx < calls[i].tx  BY <2>1, <2>4, <2>9 DEF NonceInv
  <2>11. QED  BY <2>2, <2>7, <2>8, <2>10
<1>2. WriterInv => NoPositionSkipped  BY <1>1 DEF NoPositionSkipped
<1>3. QED  BY <1>2, WriterInvariant, PTL

\* The served chain holds, or the stream says it has conflicts: a run over
\* edited records cannot leave a broken link and a clean stream.
THEOREM ChainHoldsUnlessConflictAlways ==
  ASSUME Mode = "HONEST"
  PROVE  WriterSpec => []ChainHoldsUnlessConflict
<1>1. ASSUME WriterInv, NEW k \in DOMAIN anchors, ~ForeignOn(k[1]), ~streams[k[1]].hasConflicts
      PROVE  anchors[k].prev = IF k[2] = 0 THEN ZERO32 ELSE anchors[<<k[1], k[2] - 1>>].digest
  <2>1. TypeOK /\ FirstEnvelopeWins /\ StreamSummaryExact /\ LinkInv
    BY <1>1 DEF WriterInv, IndexInv
  <2>2. PICK i \in Handled(indexed) :
          Position(Served(i)) = k /\ anchors[k].prev = Served(i).prev
    BY <2>1, FirstAt
  <2>3. k[1] = Served(i).stream /\ k[2] = Served(i).seq  BY <2>2 DEF Position
  <2>4. \A h \in Handled(indexed) : Served(h) = calls[h].payload  BY DEF Served, AsServed
  <2>5. /\ i \in DOMAIN calls /\ calls[i].nonce > 0 /\ calls[i].payload \in Envelopes
        /\ k[2] = calls[i].payload.seq
    BY <1>1, <2>1, <2>3, HandledIsOwn
  <2>6. CASE k[2] = 0
    <3>1. calls[i].payload.prev = ZERO32  BY <2>1, <2>5, <2>6 DEF LinkInv, BuiltOn
    <3>2. QED  BY <2>2, <2>4, <2>6, <3>1
  <2>7. CASE k[2] # 0
    <3>1. k[2] > 0  BY <2>5, <2>7, ChainAssumption
    <3>2. PICK j \in Handled(indexed) :
            /\ Served(j).stream = Served(i).stream /\ Served(j).seq = Served(i).seq - 1
            /\ calls[i].payload.prev = Keccak(calls[j].payload)
      BY <1>1, <2>3, <3>1, BelowIsHandled
    <3>3. Position(Served(j)) = <<k[1], k[2] - 1>>  BY <2>3, <3>2 DEF Position
    <3>4. k[1] \in DOMAIN streams /\ j \in HandledOf(k[1])
      BY <2>1, <2>3, <3>2 DEF StreamSummaryExact, HandledOf
    <3>5. Disputed \cap HandledOf(k[1]) = {}
      <4>1. IsFiniteSet(Disputed \cap HandledOf(k[1]))
        <5>1. IsFiniteSet(Handled(indexed))  BY <2>1, HandledFacts
        <5>2. QED  BY <5>1, FS_Subset DEF HandledOf
      <4>2. Cardinality(Disputed \cap HandledOf(k[1])) \in Nat  BY <4>1, FS_CardinalityType
      <4>3. ~(Cardinality(Disputed \cap HandledOf(k[1])) > 0)
        BY <1>1, <2>1, <3>4 DEF StreamSummaryExact, SummaryOK
      <4>4. QED  BY <4>1, <4>2, <4>3, FS_EmptySet
    <3>6. Keccak(Served(j)) = anchors[<<k[1], k[2] - 1>>].digest
      BY <3>3, <3>4, <3>5 DEF Disputed, HandledOf
    <3>7. QED  BY <2>2, <2>4, <2>7, <3>2, <3>6
  <2>8. QED  BY <2>6, <2>7
<1>2. WriterInv => ChainHoldsUnlessConflict  BY <1>1 DEF ChainHoldsUnlessConflict
<1>3. QED  BY <1>2, WriterInvariant, PTL

\* No submitted archive is contradicted in silence: what it says was posted
\* is served, or disputed by a row that anyone can read (anchor.ts keeps every
\* competing envelope).
THEOREM ArchivedIsServedOrDisputedAlways ==
  ASSUME Mode # "DROP_EVERY_FOURTH"
  PROVE  WriterSpec => []ArchivedIsServedOrDisputed
<1>1. ASSUME WriterInv, archive.submitted,
             \A i \in indexed + 1 .. Len(calls) : calls[i].tx > archive.endBlock,
             NEW k \in 0 .. (Len(archive.recs) - 1)
      PROVE  LET p == <<archive.stream, k>>
             IN /\ p \in DOMAIN anchors
                /\ \/ anchors[p].cd = CiphertextDigest(archive.stream, k, archive.recs[k + 1])
                   \/ \E c \in DOMAIN conflicts : c[1] = archive.stream /\ c[2] = k
  <2> DEFINE p == <<archive.stream, k>>
  <2>1. TypeOK /\ FirstEnvelopeWins /\ ConflictRowsExact /\ TypedInv /\ ArchiveInv
    BY <1>1 DEF WriterInv, IndexInv
  <2>2. archive.stream \in StreamIds /\ archive.recs \in RecordFiles /\ archive.endBlock \in Nat
    <3>1. archive # NoFile  BY <1>1 DEF NoFile
    <3>2. QED  BY <2>1, <3>1 DEF TypedInv, FileOK
  <2>3. PICK n : n = k + 1  OBVIOUS
  <2>4. n \in 1 .. Len(archive.recs) /\ n - 1 = k  BY <2>2, <2>3, WriterAssumption
  <2>5. PICK i \in DOMAIN calls :
          Posted(i, archive.stream, archive.recs, k, archive.startBlock, archive.endBlock)
    BY <1>1, <2>1 DEF ArchiveInv
  <2>6. calls[i].payload = Anchors(archive.stream, archive.recs)[n]
    BY <2>3, <2>5 DEF Posted
  <2>7. /\ calls[i].payload \in Envelopes
        /\ calls[i].payload.stream = archive.stream /\ calls[i].payload.seq = k
        /\ calls[i].payload.cd = CiphertextDigest(archive.stream, k, archive.recs[n])
    <3>1. LET e == Anchors(archive.stream, archive.recs)[n]
          IN /\ e \in Envelopes
             /\ e.stream = archive.stream /\ e.seq = n - 1
             /\ e.cd = CiphertextDigest(archive.stream, n - 1, archive.recs[n])
      BY <2>2, <2>4, AnchorParts
    <3>2. QED  BY <2>4, <2>6, <3>1
  <2>8. i <= indexed
    <3>1. calls[i].tx \in Nat /\ calls[i].tx <= archive.endBlock
      BY <2>1, <2>5, CallsFacts DEF Posted
    <3>2. ~(calls[i].tx > archive.endBlock)  BY <2>2, <3>1
    <3>3. i \notin indexed + 1 .. Len(calls)  BY <1>1, <3>2
    <3>4. QED  BY <2>1, <3>3, CallsFacts DEF TypeOK
  <2>9. /\ i \in Handled(indexed)
        /\ Served(i).stream = archive.stream /\ Served(i).seq = k
        /\ Served(i).cd = CiphertextDigest(archive.stream, k, archive.recs[n])
    BY <2>1, <2>5, <2>7, <2>8, WriterCallIsHandled DEF Posted
  <2>10. Position(Served(i)) = p /\ p \in DOMAIN anchors
    BY <2>1, <2>9, ServedHasPosition DEF Position
  <2>11. CASE i \in Disputed
    <3>1. ConflictId(i) \in DOMAIN conflicts  BY <2>1, <2>11 DEF ConflictRowsExact, ConflictsExact
    <3>2. ConflictId(i)[1] = archive.stream /\ ConflictId(i)[2] = k  BY <2>9 DEF ConflictId
    <3>3. QED  BY <2>10, <3>1, <3>2
  <2>12. CASE i \notin Disputed
    <3>1. anchors[p].digest = Keccak(Served(i))  BY <2>9, <2>10, <2>12 DEF Disputed
    <3>2. PICK h \in Handled(indexed) :
            anchors[p].digest = Keccak(Served(h)) /\ anchors[p].cd = Served(h).cd
      BY <2>1, <2>10, FirstAt
    <3>3. Served(h) = Served(i)  BY <3>1, <3>2, KeccakInjective
    <3>4. QED  BY <2>3, <2>9, <2>10, <3>2, <3>3
  <2>13. QED  BY <2>11, <2>12
<1>2. WriterInv => ArchivedIsServedOrDisputed  BY <1>1 DEF ArchivedIsServedOrDisputed
<1>3. QED  BY <1>2, WriterInvariant, PTL

-----------------------------------------------------------------------------
(* The abstract log.  With one records file and nobody else on the owner's *)
(* streams, what is served at every moment is a beginning of the file, and *)
(* a step serves the next record or none: RecordLog, whose steps these are. *)

\* No stranger posts an envelope for a stream of the owner's.
StrangersElsewhere ==
  \A p \in ForeignPayloads : p \in Envelopes => p.stream \notin StreamIds

QuietInv == \A s \in StreamIds : ~ForeignOn(s)

LEMMA QuietInvInductive ==
  ASSUME StrangersElsewhere, WriterInv, QuietInv, [WriterNext]_allVars
  PROVE  QuietInv'
<1>1. TypeOK /\ TypedInv /\ NonceInv  BY DEF WriterInv, IndexInv
<1>2. ASSUME NEW c, Joins(c),
             c.nonce = 0 => (c.payload \in Envelopes => c.payload.stream \notin StreamIds)
      PROVE  QuietInv'
  BY <1>1, <1>2, JoinsFacts DEF QuietInv, ForeignOn
<1>3. CASE ForeignPost
  BY <1>1, <1>2, <1>3, ForeignJoins DEF StrangersElsewhere
<1>4. CASE MineWriterTx \/ RevertWriterTx
  <2>1. PICK kind : Joins(MinedCall(kind)) /\ 1 \in DOMAIN mempool
                    /\ MinedCall(kind).nonce = mempool[1].nonce
    BY <1>4, WriterTxMines
  <2>2. MinedCall(kind).nonce # 0
    <3>1. mempool[1].nonce \in 1 .. sent /\ sent \in Nat  BY <1>1, <2>1, MempoolFacts DEF TypedInv
    <3>2. QED  BY <2>1, <3>1
  <2>3. QED  BY <1>2, <2>1, <2>2
<1>5. CASE calls' = calls
  BY <1>5 DEF QuietInv, ForeignOn
<1>6. \/ ForeignPost \/ MineWriterTx \/ RevertWriterTx \/ calls' = calls
  BY DEF WriterNext, StartPost, DryRun, Submit, ReceiptSucceeds, ReceiptFails, FinishPost, Crash,
      EvictWriterTx, Index, IndexNext, EditRecords, InitKeystore, Disclose, vars, allVars
<1>7. QED  BY <1>3, <1>4, <1>5, <1>6

\* A step serves at most one position more, and forgets none.
LEMMA StepServesAtMostOne ==
  ASSUME WriterInv, [WriterNext]_allVars
  PROVE  \E s, k : k \in Nat /\ DOMAIN anchors' \in {DOMAIN anchors, DOMAIN anchors \cup {<<s, k>>}}
<1>1. CASE IndexNext
  <2> DEFINE c == calls[indexed + 1]
             e == Served(indexed + 1)
  <2>1. \/ anchors' = anchors
        \/ Handles(c, e) /\ c.payload \in Envelopes
    BY <1>1, IndexCases DEF WriterInv, IndexInv, PassesOver
  <2>2. c.payload \in Envelopes => e.seq \in Nat
    BY AsServedKeepsPosition DEF Served
  <2> HIDE DEF c, e
  <2>3. Handles(c, e) => DOMAIN anchors' \in {DOMAIN anchors, DOMAIN anchors \cup {<<e.stream, e.seq>>}}
    BY DEF Handles, FirstAnchor, DuplicateAnchor, ConflictAnchor, Save, Position
  <2>4. CASE anchors' = anchors
    <3>1. 0 \in Nat  OBVIOUS
    <3>2. QED  BY <2>4, <3>1
  <2>5. QED  BY <2>1, <2>2, <2>3, <2>4
<1>2. CASE ChainGrows \/ UNCHANGED vars
  <2>1. anchors' = anchors  BY <1>2 DEF ChainGrows, indexVars, vars
  <2>2. 0 \in Nat  OBVIOUS
  <2>3. QED  BY <2>1, <2>2
<1>3. QED  BY <1>1, <1>2, WriterStepIsIndexStep DEF Step

\* The served positions of the owner's stream are the first n.
ServesFirst(n) == PositionsOf(keystore) = {<<keystore, j>> : j \in 0 .. (n - 1)}

ServesBeginning == \E n \in Nat : ServesFirst(n)

\* The position added is the next one: the one below it is served.
LEMMA NextPosition ==
  ASSUME NoPositionSkipped', QuietInv', keystore \in StreamIds, keystore' = keystore,
         NEW n \in Nat, ServesFirst(n),
         NEW k \in Nat, <<keystore, k>> \notin PositionsOf(keystore),
         PositionsOf(keystore)' = PositionsOf(keystore) \cup {<<keystore, k>>}
  PROVE  ServesFirst(n + 1)'
<1> DEFINE P == {<<keystore, j>> : j \in 0 .. (n - 1)}
<1>1. PositionsOf(keystore) = P  BY DEF ServesFirst
<1>2. PositionsOf(keystore)' = P \cup {<<keystore, k>>} /\ <<keystore, k>> \notin P  BY <1>1
<1>3. ~(k < n)  BY <1>2
<1>4. CASE k = 0
  <2>1. n = 0 /\ k = n  BY <1>3, <1>4
  <2>2. QED  BY <1>2, <2>1 DEF ServesFirst
<1>5. CASE k > 0
  <2>1. <<keystore, k>> \in DOMAIN anchors'  BY <1>2 DEF PositionsOf
  <2>2. ~ForeignOn(keystore)'  BY DEF QuietInv
  <2>3. <<keystore, k - 1>> \in DOMAIN anchors'
    BY <1>5, <2>1, <2>2 DEF NoPositionSkipped
  <2>4. <<keystore, k - 1>> \in PositionsOf(keystore)'  BY <2>3 DEF PositionsOf
  <2>5. k - 1 # k /\ <<keystore, k - 1>> # <<keystore, k>>  OBVIOUS
  <2>6. <<keystore, k - 1>> \in P  BY <1>2, <2>4, <2>5
  <2>7. k - 1 < n  BY <2>6
  <2>8. k = n  BY <1>3, <2>7
  <2>9. {<<keystore, j>> : j \in 0 .. n} = P \cup {<<keystore, n>>}  OBVIOUS
  <2>10. QED  BY <1>2, <2>8, <2>9 DEF ServesFirst
<1>6. QED  BY <1>4, <1>5

LEMMA ServesBeginningInductive ==
  ASSUME WriterInv, NoPositionSkipped', QuietInv', ServesBeginning,
         keystore' = keystore, [WriterNext]_allVars
  PROVE  \E n \in Nat : ServesFirst(n) /\ (ServesFirst(n)' \/ ServesFirst(n + 1)')
<1>1. PICK n \in Nat : ServesFirst(n)  BY DEF ServesBeginning
<1>2. keystore \in StreamIds  BY DEF WriterInv, TypedInv
<1>3. PICK s, k : k \in Nat /\ DOMAIN anchors' \in {DOMAIN anchors, DOMAIN anchors \cup {<<s, k>>}}
  BY StepServesAtMostOne
<1>4. CASE PositionsOf(keystore)' = PositionsOf(keystore)
  BY <1>1, <1>4 DEF ServesFirst
<1>5. CASE PositionsOf(keystore)' # PositionsOf(keystore)
  <2>1. s = keystore /\ <<keystore, k>> \notin PositionsOf(keystore)
        /\ PositionsOf(keystore)' = PositionsOf(keystore) \cup {<<keystore, k>>}
    BY <1>3, <1>5 DEF PositionsOf
  <2>2. ServesFirst(n + 1)'  BY <1>1, <1>2, <1>3, <2>1, NextPosition
  <2>3. QED  BY <1>1, <2>2
<1>6. QED  BY <1>4, <1>5

-----------------------------------------------------------------------------
(* What is served there. *)

LEMMA ServedIsTheRecord ==
  ASSUME Mode # "DROP_EVERY_FOURTH", WriterInv, changes = 0, ~ForeignOn(keystore),
         NEW j \in Nat, <<keystore, j>> \in DOMAIN anchors
  PROVE  /\ j < Len(records)
         /\ anchors[<<keystore, j>>].cd[3] = records[j + 1]
<1>1. /\ TypeOK /\ FirstEnvelopeWins /\ OwnInv
      /\ keystore \in StreamIds /\ records \in RecordFiles /\ Len(records) \in Nat
  BY WriterAssumption DEF WriterInv, IndexInv, TypedInv
<1>2. PICK i \in Handled(indexed) :
        Position(Served(i)) = <<keystore, j>> /\ anchors[<<keystore, j>>].cd = Served(i).cd
  BY <1>1, FirstAt
<1>3. Served(i).stream = keystore /\ Served(i).seq = j  BY <1>2 DEF Position
<1>4. /\ i \in DOMAIN calls /\ calls[i].nonce > 0 /\ calls[i].payload \in Envelopes
      /\ calls[i].payload.seq = j
  BY <1>1, <1>3, HandledIsOwn
<1>5. Served(i).cd = calls[i].payload.cd  BY <1>4, AsServedKeepsPosition DEF Served
<1>6. Own(calls[i].payload)  BY <1>1, <1>4 DEF OwnInv
<1>7. PICK k \in 1 .. Len(records) : calls[i].payload = Anchors(keystore, records)[k]
  BY <1>6 DEF Own
<1>8. /\ calls[i].payload.seq = k - 1
      /\ calls[i].payload.cd = CiphertextDigest(keystore, k - 1, records[k])
  BY <1>1, <1>7, AnchorParts
<1>9. k = j + 1  BY <1>1, <1>4, <1>8
<1>10. CiphertextDigest(keystore, k - 1, records[k])[3] = records[k]  BY DEF CiphertextDigest
<1>11. QED  BY <1>1, <1>2, <1>5, <1>8, <1>9, <1>10

\* The served log, when the first n positions are served.
LEMMA ServedLogIs ==
  ASSUME Mode # "DROP_EVERY_FOURTH", WriterInv, changes = 0, ~ForeignOn(keystore),
         NEW n \in Nat, ServesFirst(n)
  PROVE  /\ n <= Len(records)
         /\ ServedLog = [i \in 1 .. n |-> records[i]]
<1> DEFINE P == {<<keystore, j>> : j \in 0 .. (n - 1)}
<1>0. Len(records) \in Nat  BY WriterAssumption DEF WriterInv, TypedInv
<1>1. {k \in DOMAIN anchors : k[1] = keystore} = P  BY DEF ServesFirst, PositionsOf
<1>2. Cardinality(P) = n
  <2> DEFINE f == [i \in 1 .. n |-> <<keystore, i - 1>>]
  <2>1. f \in Bijection(1 .. n, P)
    <3>1. \A p \in P : \E i \in 1 .. n : f[i] = p
      <4>1. TAKE p \in P
      <4>2. PICK j \in 0 .. (n - 1) : p = <<keystore, j>>  OBVIOUS
      <4>3. j + 1 \in 1 .. n /\ (j + 1) - 1 = j  OBVIOUS
      <4>4. QED  BY <4>2, <4>3
    <3>2. f \in [1 .. n -> P]  OBVIOUS
    <3>3. \A a, b \in 1 .. n : f[a] = f[b] => a = b  OBVIOUS
    <3>4. QED  BY <3>1, <3>2, <3>3 DEF Bijection, Injection, Surjection, IsInjective
  <2>2. IsFiniteSet(1 .. n) /\ Cardinality(1 .. n) = n  BY FS_Interval
  <2>3. QED  BY <2>1, <2>2, FS_Bijection DEF ExistsBijection
<1>3. ServedLog = [i \in 1 .. n |-> anchors[<<keystore, i - 1>>].cd[3]]
  BY <1>1, <1>2 DEF ServedLog
<1>4. ASSUME NEW i \in 1 .. n
      PROVE  i <= Len(records) /\ anchors[<<keystore, i - 1>>].cd[3] = records[i]
  <2>1. i - 1 \in Nat /\ (i - 1) + 1 = i  OBVIOUS
  <2>2. <<keystore, i - 1>> \in P  BY <2>1
  <2>3. <<keystore, i - 1>> \in DOMAIN anchors  BY <1>1, <2>2
  <2>4. PICK j \in Nat : j = i - 1  BY <2>1
  <2>5. j < Len(records) /\ anchors[<<keystore, j>>].cd[3] = records[j + 1]
    BY <2>3, <2>4, ServedIsTheRecord
  <2>6. QED  BY <1>0, <2>4, <2>5
<1>5. n <= Len(records)
  <2>1. CASE n = 0  BY <1>0, <2>1
  <2>2. CASE n # 0
    <3>1. n \in 1 .. n  BY <2>2
    <3>2. QED  BY <1>4, <3>1
  <2>3. QED  BY <2>1, <2>2
<1>6. QED  BY <1>3, <1>4, <1>5

\* Whatever the number of positions served, the log is that much of the file.
LogIsBeginning ==
  \A n \in Nat : ServesFirst(n) =>
    n <= Len(records) /\ ServedLog = [i \in 1 .. n |-> records[i]]

LEMMA LogStep ==
  ASSUME records \in RecordFiles, records' = records,
         LogIsBeginning, LogIsBeginning',
         \E n \in Nat : ServesFirst(n) /\ (ServesFirst(n)' \/ ServesFirst(n + 1)')
  PROVE  [Log!AppendNext]_<<ServedLog, records>>
<1>1. PICK n \in Nat : ServesFirst(n) /\ (ServesFirst(n)' \/ ServesFirst(n + 1)')  OBVIOUS
<1>2. n <= Len(records) /\ ServedLog = [i \in 1 .. n |-> records[i]]
  BY <1>1 DEF LogIsBeginning
<1>3. Len(records) \in Nat  BY WriterAssumption
<1>4. CASE ServesFirst(n)'
  <2>1. ServedLog' = [i \in 1 .. n |-> records'[i]]  BY <1>1, <1>4 DEF LogIsBeginning
  <2>2. QED  BY <1>2, <2>1
<1>5. CASE ServesFirst(n + 1)'
  <2>1. n + 1 <= Len(records') /\ ServedLog' = [i \in 1 .. (n + 1) |-> records'[i]]
    BY <1>1, <1>5 DEF LogIsBeginning
  <2> DEFINE before == [i \in 1 .. n |-> records[i]]
             after == [i \in 1 .. (n + 1) |-> records[i]]
  <2>2. n < Len(records)  BY <1>1, <1>3, <2>1
  <2>3. Len(before) = n  OBVIOUS
  <2>4. after = Append(before, records[n + 1])  OBVIOUS
  <2>5. QED  BY <1>2, <2>1, <2>2, <2>3, <2>4 DEF Log!AppendNext
<1>6. QED  BY <1>1, <1>4, <1>5

(***************************************************************************)
(* What `post' promises (cli.ts cmdPost, through every crash, revert,      *)
(* eviction and rerun): while the file is not edited and no stranger posts *)
(* on the owner's streams, the served log is the abstract one.  Each step  *)
(* appends the next record of the file or leaves the log as it is.  That   *)
(* the whole file is served in the end is ServedExactlyOnce's liveness.    *)
(***************************************************************************)
THEOREM WriterImplementsLog ==
  ASSUME Mode # "DROP_EVERY_FOURTH", MaxChanges = 0, StrangersElsewhere
  PROVE  WriterSpec => Log!Spec
<1>1. WriterInit => QuietInv /\ ServesFirst(0) /\ Log!Init
  <2> SUFFICES ASSUME WriterInit PROVE QuietInv /\ ServesFirst(0) /\ Log!Init  OBVIOUS
  <2>1. calls = <<>> /\ DOMAIN anchors = {}
    BY DEF WriterInit, Init, IndexInit, EmptyTable
  <2>2. QuietInv  BY <2>1 DEF QuietInv, ForeignOn
  <2>3. PositionsOf(keystore) = {} /\ {k \in DOMAIN anchors : k[1] = keystore} = {}
    BY <2>1 DEF PositionsOf
  <2>4. ServesFirst(0)  BY <2>3 DEF ServesFirst
  <2>5. Cardinality({k \in DOMAIN anchors : k[1] = keystore}) = 0  BY <2>3, FS_EmptySet
  <2>6. ServedLog = [i \in 1 .. 0 |-> anchors[<<keystore, i - 1>>].cd[3]]  BY <2>5 DEF ServedLog
  <2>7. ServedLog = <<>>  BY <2>6
  <2>8. QED  BY <2>2, <2>4, <2>7 DEF Log!Init
<1>2. WriterInit => ServesBeginning  BY <1>1 DEF ServesBeginning
<1>3. WriterInv => records \in RecordFiles /\ changes = 0  BY DEF WriterInv, TypedInv
<1>4. WriterInv /\ QuietInv => LogIsBeginning
  <2>1. WriterInv /\ QuietInv => ~ForeignOn(keystore)
    BY DEF WriterInv, TypedInv, QuietInv
  <2>2. QED  BY <1>3, <2>1, ServedLogIs DEF LogIsBeginning
<1>5. WriterInv /\ [WriterNext]_allVars => keystore' = keystore /\ records' = records
  <2> SUFFICES ASSUME WriterInv, [WriterNext]_allVars PROVE keystore' = keystore /\ records' = records
    OBVIOUS
  <2>1. changes = 0  BY <1>3
  <2>2. ~EditRecords /\ ~InitKeystore  BY <2>1 DEF EditRecords, InitKeystore
  <2>3. QED
    BY <2>2 DEF WriterNext, StartPost, DryRun, Submit, ReceiptSucceeds, ReceiptFails, FinishPost,
       Crash, MineWriterTx, RevertWriterTx, EvictWriterTx, ForeignPost, Index, Disclose,
       ownerVars, allVars
<1>6. WriterInv /\ QuietInv /\ [WriterNext]_allVars => QuietInv'  BY QuietInvInductive
<1>7. WriterInv /\ NoPositionSkipped' /\ QuietInv' /\ ServesBeginning /\ [WriterNext]_allVars
      => \E n \in Nat : ServesFirst(n) /\ (ServesFirst(n)' \/ ServesFirst(n + 1)')
  BY <1>5, ServesBeginningInductive
<1>8. (\E n \in Nat : ServesFirst(n) /\ (ServesFirst(n)' \/ ServesFirst(n + 1)')) => ServesBeginning'
  BY DEF ServesBeginning
<1>9. /\ WriterInv /\ [WriterNext]_allVars /\ LogIsBeginning /\ LogIsBeginning'
      /\ \E n \in Nat : ServesFirst(n) /\ (ServesFirst(n)' \/ ServesFirst(n + 1)')
      => [Log!AppendNext]_<<ServedLog, records>>
  BY <1>3, <1>5, LogStep
<1>10. WriterSpec => []NoPositionSkipped  BY NoPositionSkippedAlways
<1>11. WriterSpec => [](WriterInv /\ NoPositionSkipped /\ QuietInv /\ ServesBeginning /\ LogIsBeginning)
  BY <1>1, <1>2, <1>4, <1>6, <1>7, <1>8, <1>10, WriterInvariant, PTL DEF WriterSpec
<1>12. WriterSpec => [][Log!AppendNext]_<<ServedLog, records>>
  BY <1>7, <1>9, <1>11, PTL DEF WriterSpec
<1>13. QED  BY <1>1, <1>12, PTL DEF WriterSpec, Log!Spec
=============================================================================
