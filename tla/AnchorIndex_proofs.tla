------------------------- MODULE AnchorIndex_proofs -------------------------
(***************************************************************************)
(* Theorems about AnchorIndex, for every set of payloads, every kind of    *)
(* call, every number of calls and each of the three builds.               *)
(***************************************************************************)
EXTENDS AnchorIndex, TLAPS, FiniteSetTheorems, FunctionTheorems

LEMMA EnvelopeParts ==
  ASSUME NEW e \in Envelopes
  PROVE  /\ e \in Payloads
         /\ e = Envelope(e.stream, e.seq, e.cd, e.prev)
         /\ e.seq \in Nat
BY ChainAssumption DEF Envelopes

\* What is served for an envelope is an envelope at the same position.
LEMMA AsServedKeepsPosition ==
  ASSUME NEW e \in Envelopes
  PROVE  /\ AsServed(e).stream = e.stream
         /\ AsServed(e).seq = e.seq
         /\ AsServed(e).seq \in Nat
         /\ AsServed(e).cd = e.cd
BY EnvelopeParts DEF AsServed, Envelope

LEMMA CallParts ==
  ASSUME ChainTypeOK, NEW i \in 1 .. Len(calls)
  PROVE  /\ calls[i] \in Call
         /\ calls[i].tx \in Nat
         /\ calls[i].payload \in Payloads
<1>1. calls[i] \in Call  BY DEF ChainTypeOK
<1>2. QED  BY <1>1 DEF Call

(***************************************************************************)
(* The chain gets one call longer, in block order, and the tables stay as  *)
(* they are: what any poster does.  The lemmas below are about this and    *)
(* about IndexNext, so that they also serve a module with other posters.   *)
(***************************************************************************)
ChainGrows ==
  /\ \E c \in Call :
       /\ HeadTx <= c.tx
       /\ calls' = Append(calls, c)
  /\ UNCHANGED indexVars

Step == ChainGrows \/ IndexNext \/ UNCHANGED vars

LEMMA HeadTxIsNatural ==
  ASSUME ChainTypeOK
  PROVE  HeadTx \in Nat
BY CallParts DEF HeadTx, ChainTypeOK

LEMMA MinedTxGrows ==
  ASSUME ChainTypeOK, NEW p \in Payloads, NEW kind, NEW nonce \in Nat, MineTx(p, kind, nonce),
         UNCHANGED indexVars
  PROVE  ChainGrows
<1>1. HeadTx \in Nat  BY HeadTxIsNatural
<1> DEFINE c == [tx |-> HeadTx + 1, kind |-> kind, nonce |-> nonce, payload |-> p]
<1>2. c \in Call /\ HeadTx <= c.tx  BY <1>1 DEF MineTx, Call
<1>3. QED  BY <1>2 DEF MineTx, ChainGrows

LEMMA PostedGrows ==
  ASSUME ChainTypeOK, NEW p \in Payloads, AnyonePosts(p), UNCHANGED indexVars
  PROVE  ChainGrows
<1>1. ASSUME NEW kind \in CallKinds, MineTx(p, kind, 0)
      PROVE  ChainGrows
  BY <1>1, MinedTxGrows
<1>2. ASSUME Len(calls) \in 1 .. (MaxCalls - 1),
             calls' = Append(calls, [calls[Len(calls)] EXCEPT !.payload = p])
      PROVE  ChainGrows
  <2> DEFINE c == [calls[Len(calls)] EXCEPT !.payload = p]
  <2>1. calls[Len(calls)] \in Call /\ calls[Len(calls)].tx \in Nat
    BY <1>2, CallParts, ChainAssumption DEF ChainTypeOK
  <2>2. c \in Call /\ c.tx = calls[Len(calls)].tx
    BY <2>1 DEF Call
  <2>3. HeadTx <= c.tx  BY <1>2, <2>1, <2>2 DEF HeadTx
  <2>4. QED  BY <1>2, <2>2, <2>3 DEF ChainGrows
<1>3. QED  BY <1>1, <1>2 DEF AnyonePosts

LEMMA NextIsStep ==
  ASSUME TypeOK, [Next]_vars
  PROVE  Step
BY PostedGrows DEF TypeOK, Next, Post, Step

LEMMA GrowsByOne ==
  ASSUME ChainTypeOK, ChainGrows
  PROVE  /\ ChainTypeOK'
         /\ Len(calls') = Len(calls) + 1
         /\ \A i \in 1 .. Len(calls) : calls'[i] = calls[i]
         /\ HeadTx <= calls'[Len(calls')].tx
<1>1. PICK c \in Call : HeadTx <= c.tx /\ calls' = Append(calls, c)
  BY DEF ChainGrows
<1>2. QED  BY <1>1 DEF ChainTypeOK

-----------------------------------------------------------------------------
(* Type correctness. *)

LEMMA SaveKeepsRowType ==
  ASSUME NEW table, NEW R, table \in [DOMAIN table -> R], NEW id, NEW row \in R
  PROVE  Save(table, id, row) \in [DOMAIN Save(table, id, row) -> R]
BY DEF Save

LEMMA StreamRowOfCall ==
  ASSUME TypeOK, NEW id, NEW tx \in Nat
  PROVE  LoadOrCreateStream(id, tx) \in StreamRow
BY DEF TypeOK, StreamRow, LoadOrCreateStream, NewStream, NoSeq

\* What graph-node's next step may be: it passes over the call, or it handles
\* the envelope the call carries in one of three ways.
PassesOver(c) ==
  /\ ~(Traced(c) /\ c.payload \in Envelopes /\ ~Withheld(c.payload))
  /\ malformed' \in {malformed, malformed \cup {<<c.tx, c.payload>>}}
  /\ c.payload \notin Undecodable => malformed' = malformed
  /\ UNCHANGED <<anchors, conflicts, streams>>

Handles(c, e) == FirstAnchor(c, e) \/ DuplicateAnchor(c, e) \/ ConflictAnchor(c, e)

LEMMA UndecodableIsNoEnvelope ==
  ASSUME NEW p \in Undecodable PROVE p \notin Envelopes
BY DEF Undecodable, Envelopes

LEMMA IndexCases ==
  ASSUME TypeOK, IndexNext
  PROVE  /\ indexed + 1 \in 1 .. Len(calls)
         /\ indexed' = indexed + 1
         /\ calls' = calls
         /\ \/ PassesOver(calls[indexed + 1])
            \/ /\ Traced(calls[indexed + 1])
               /\ calls[indexed + 1].payload \in Envelopes
               /\ ~Withheld(calls[indexed + 1].payload)
               /\ Handles(calls[indexed + 1], Served(indexed + 1))
<1>1. /\ indexed + 1 \in 1 .. Len(calls)
      /\ indexed' = indexed + 1
      /\ calls' = calls
  BY DEF TypeOK, ChainTypeOK, IndexNext
<1>2. CASE SkipReverted(calls[indexed + 1])
  BY <1>1, <1>2 DEF SkipReverted, PassesOver
<1>3. CASE IndexAnchorCall(calls[indexed + 1])
  <2>1. CASE RecordMalformed(calls[indexed + 1])
    BY <1>1, <2>1, UndecodableIsNoEnvelope DEF RecordMalformed, PassesOver
  <2>2. CASE WithholdAnchor(calls[indexed + 1])
    BY <1>1, <2>2 DEF WithholdAnchor, PassesOver
  <2>3. CASE /\ calls[indexed + 1].payload \in Envelopes
             /\ ~Withheld(calls[indexed + 1].payload)
             /\ Handles(calls[indexed + 1], Served(indexed + 1))
    BY <1>1, <1>3, <2>3 DEF IndexAnchorCall
  <2>4. QED  BY <1>3, <2>1, <2>2, <2>3 DEF IndexAnchorCall, Handles, Served
<1>4. QED  BY <1>2, <1>3 DEF IndexNext

\* The ways a Stream row is updated, one field at a time.
LEMMA StreamRowUpdates ==
  ASSUME NEW s \in StreamRow
  PROVE  /\ \A n \in Nat : [s EXCEPT !.anchorCount = n] \in StreamRow
         /\ \A q \in Nat \cup {NoSeq} : [s EXCEPT !.latestSeq = q] \in StreamRow
         /\ \A d \in Digests \cup {ZERO32} : [s EXCEPT !.head = d] \in StreamRow
         /\ [s EXCEPT !.hasConflicts = TRUE] \in StreamRow
         /\ \A n \in Nat : [s EXCEPT !.conflictCount = n] \in StreamRow
         /\ \A n \in Nat : [s EXCEPT !.lastBlock = n] \in StreamRow
BY DEF StreamRow

LEMMA HandlesType ==
  ASSUME TypeOK, NEW c, c.tx \in Nat, NEW e \in ServedEnvelopes, e.seq \in Nat, Handles(c, e)
  PROVE  /\ anchors' \in [DOMAIN anchors' -> AnchorRow]
         /\ conflicts' \in [DOMAIN conflicts' -> Digests]
         /\ streams' \in [DOMAIN streams' -> StreamRow]
         /\ malformed' = malformed
<1> DEFINE s == LoadOrCreateStream(e.stream, c.tx)
<1>s. s \in StreamRow  BY StreamRowOfCall
<1>d. Keccak(e) \in Digests  BY DEF Digests
<1> HIDE DEF s
<1>1. CASE FirstAnchor(c, e)
  <2> DEFINE row == [cd |-> e.cd, prev |-> e.prev, digest |-> Keccak(e),
                     tx |-> c.tx, duplicateCount |-> 0]
             advances == e.seq > s.latestSeq
             srow == [s EXCEPT !.anchorCount = @ + 1,
                               !.latestSeq = IF advances THEN e.seq ELSE @,
                               !.head = IF advances THEN Keccak(e) ELSE @,
                               !.lastBlock = c.tx]
  <2>1. row \in AnchorRow  BY <1>d DEF AnchorRow
  <2>2. srow \in StreamRow
    <3> DEFINE latest == IF advances THEN e.seq ELSE s.latestSeq
               head == IF advances THEN Keccak(e) ELSE s.head
    <3>1. /\ s.anchorCount + 1 \in Nat
          /\ latest \in Nat \cup {NoSeq}
          /\ head \in Digests \cup {ZERO32}
      BY <1>s, <1>d DEF StreamRow
    <3>2. srow = [s EXCEPT !.anchorCount = s.anchorCount + 1, !.latestSeq = latest,
                           !.head = head, !.lastBlock = c.tx]
      BY <1>s DEF StreamRow
    <3> HIDE DEF latest, head
    <3>3. [s EXCEPT !.anchorCount = s.anchorCount + 1, !.latestSeq = latest,
                    !.head = head, !.lastBlock = c.tx] \in StreamRow
      BY <1>s, <3>1, StreamRowUpdates
    <3>4. QED  BY <3>2, <3>3
  <2>3. /\ anchors' = Save(anchors, Position(e), row)
        /\ streams' = Save(streams, e.stream, srow)
        /\ UNCHANGED <<conflicts, malformed>>
    BY <1>1 DEF FirstAnchor, s
  <2> HIDE DEF row, srow
  <2>4. QED  BY <2>1, <2>2, <2>3, SaveKeepsRowType DEF TypeOK
<1>2. CASE DuplicateAnchor(c, e)
  <2> DEFINE srow == [s EXCEPT !.lastBlock = c.tx]
  <2>1. srow \in StreamRow  BY <1>s DEF StreamRow
  <2>2. /\ anchors' = [anchors EXCEPT ![Position(e)].duplicateCount = @ + 1]
        /\ streams' = Save(streams, e.stream, srow)
        /\ UNCHANGED <<conflicts, malformed>>
    BY <1>2 DEF DuplicateAnchor, s
  <2>3. anchors' \in [DOMAIN anchors' -> AnchorRow]
    <3>1. \A r \in AnchorRow : [r EXCEPT !.duplicateCount = @ + 1] \in AnchorRow
      BY DEF AnchorRow
    <3>2. anchors' = [k \in DOMAIN anchors |->
                       IF k = Position(e) THEN [anchors[k] EXCEPT !.duplicateCount = @ + 1]
                       ELSE anchors[k]]
      BY <2>2 DEF TypeOK
    <3>3. QED  BY <3>1, <3>2 DEF TypeOK
  <2> HIDE DEF srow
  <2>4. QED  BY <2>1, <2>2, <2>3, SaveKeepsRowType DEF TypeOK
<1>3. CASE ConflictAnchor(c, e)
  <2> DEFINE srow == [s EXCEPT !.hasConflicts = TRUE, !.conflictCount = @ + 1,
                               !.lastBlock = c.tx]
  <2>1. srow \in StreamRow
    <3>1. s.conflictCount + 1 \in Nat  BY <1>s DEF StreamRow
    <3>2. [s EXCEPT !.hasConflicts = TRUE, !.conflictCount = s.conflictCount + 1,
                    !.lastBlock = c.tx] \in StreamRow
      BY <1>s, <3>1, StreamRowUpdates
    <3>3. QED  BY <3>2
  <2>2. /\ conflicts' = Save(conflicts, <<e.stream, e.seq, c.tx>>, Keccak(e))
        /\ streams' = Save(streams, e.stream, srow)
        /\ UNCHANGED <<anchors, malformed>>
    BY <1>3 DEF ConflictAnchor, s
  <2> HIDE DEF srow
  <2>3. QED  BY <1>d, <2>1, <2>2, SaveKeepsRowType DEF TypeOK
<1>4. QED  BY <1>1, <1>2, <1>3 DEF Handles

LEMMA TypeOKInductive ==
  ASSUME TypeOK, Step
  PROVE  TypeOK'
<1>1. CASE ChainGrows
  <2>1. ChainTypeOK' /\ Len(calls') = Len(calls) + 1
    BY <1>1, GrowsByOne DEF TypeOK
  <2>2. indexed' \in 0 .. Len(calls')
    BY <1>1, <2>1 DEF ChainGrows, indexVars, TypeOK, ChainTypeOK
  <2>3. QED  BY <1>1, <2>1, <2>2 DEF ChainGrows, indexVars, TypeOK
<1>2. CASE IndexNext
  <2>1. ChainTypeOK' /\ indexed' \in 0 .. Len(calls')
    BY <1>2, IndexCases DEF TypeOK, ChainTypeOK
  <2>2. CASE PassesOver(calls[indexed + 1])
    <3>1. calls[indexed + 1].tx \in Nat
      BY <1>2, IndexCases, CallParts DEF TypeOK
    <3>2. malformed' \subseteq Nat \X Undecodable
      BY <2>2, <3>1 DEF PassesOver, TypeOK
    <3>3. QED  BY <2>1, <2>2, <3>2 DEF PassesOver, TypeOK
  <2>3. CASE /\ calls[indexed + 1].payload \in Envelopes
             /\ Handles(calls[indexed + 1], Served(indexed + 1))
    <3>1. /\ calls[indexed + 1].tx \in Nat
          /\ Served(indexed + 1) \in ServedEnvelopes
          /\ Served(indexed + 1).seq \in Nat
      BY <1>2, <2>3, IndexCases, CallParts, AsServedKeepsPosition DEF TypeOK, Served, ServedEnvelopes
    <3>2. QED  BY <2>1, <2>3, <3>1, HandlesType DEF TypeOK
  <2>4. QED  BY <1>2, <2>2, <2>3, IndexCases
<1>3. CASE UNCHANGED vars
  BY <1>3 DEF vars, TypeOK, ChainTypeOK
<1>4. QED  BY <1>1, <1>2, <1>3 DEF Step

LEMMA TypeOKInitially ==
  ASSUME Init PROVE TypeOK
BY DEF Init, IndexInit, EmptyTable, TypeOK, ChainTypeOK

\* Every reachable state of the subgraph is well typed.
THEOREM TypeCorrect == Spec => []TypeOK
BY TypeOKInitially, TypeOKInductive, NextIsStep, PTL DEF Spec

-----------------------------------------------------------------------------
(* The tables as a function of the calls handled so far. *)

LEMMA HandledFacts ==
  ASSUME TypeOK
  PROVE  /\ Handled(indexed) \subseteq 1 .. indexed
         /\ IsFiniteSet(Handled(indexed))
         /\ \A i \in Handled(indexed) : Position(Served(i)) = Position(calls[i].payload)
<1>1. Handled(indexed) \subseteq 1 .. indexed  BY DEF Handled
<1>2. IsFiniteSet(1 .. indexed)  BY FS_Interval DEF TypeOK
<1>3. ASSUME NEW i \in Handled(indexed)
      PROVE  Position(Served(i)) = Position(calls[i].payload)
  BY AsServedKeepsPosition DEF Handled, Served, Position
<1>4. QED  BY <1>1, <1>2, <1>3, FS_Subset

\* Calls that arrive change nothing about those handled before.
LEMMA GrowsKeepsHandled ==
  ASSUME TypeOK, ChainGrows
  PROVE  /\ Handled(indexed)' = Handled(indexed)
         /\ \A i \in 1 .. indexed : calls'[i] = calls[i] /\ Served(i)' = Served(i)
<1>1. \A i \in 1 .. Len(calls) : calls'[i] = calls[i]
  BY GrowsByOne DEF TypeOK
<1>2. \A i \in 1 .. indexed : calls'[i] = calls[i]
  BY <1>1 DEF TypeOK, ChainTypeOK
<1>3. indexed' = indexed  BY DEF ChainGrows, indexVars
<1>4. QED  BY <1>2, <1>3 DEF Handled, Served, Traced

\* A handled envelope joins the handled calls; nothing else does.
LEMMA IndexExtendsHandled ==
  ASSUME TypeOK, IndexNext
  PROVE  LET c == calls[indexed + 1]
         IN /\ Handled(indexed)' =
                 IF Traced(c) /\ c.payload \in Envelopes /\ ~Withheld(c.payload)
                   THEN Handled(indexed) \cup {indexed + 1} ELSE Handled(indexed)
            /\ indexed + 1 \notin Handled(indexed)
            /\ \A i : Served(i)' = Served(i)
<1>1. calls' = calls /\ indexed' = indexed + 1 /\ indexed \in Nat
  BY IndexCases DEF TypeOK
<1>2. 1 .. indexed' = (1 .. indexed) \cup {indexed + 1}
  BY <1>1
<1>3. \A i : Served(i)' = Served(i)  BY <1>1 DEF Served
<1>4. indexed + 1 \notin Handled(indexed)  BY <1>1 DEF Handled
<1>5. QED  BY <1>1, <1>2, <1>3, <1>4 DEF Handled, Traced

\* What handling an envelope does at a position whose anchor keeps its digest.
LEMMA HandledAtExtended ==
  ASSUME TypeOK, IndexNext, Handled(indexed)' = Handled(indexed) \cup {indexed + 1}, NEW k
  PROVE  /\ HandledAt(indexed, k)' =
              IF Position(Served(indexed + 1)) = k
                THEN HandledAt(indexed, k) \cup {indexed + 1} ELSE HandledAt(indexed, k)
         /\ anchors'[k].digest = anchors[k].digest =>
              Copies(k)' =
                IF Position(Served(indexed + 1)) = k
                     /\ Keccak(Served(indexed + 1)) = anchors[k].digest
                  THEN Copies(k) \cup {indexed + 1} ELSE Copies(k)
<1>1. \A i : Served(i)' = Served(i)  BY IndexExtendsHandled
<1>2. HandledAt(indexed, k)' =
        {i \in Handled(indexed) \cup {indexed + 1} : Position(Served(i)) = k}
  BY <1>1 DEF HandledAt
<1>3. HandledAt(indexed, k)' =
        IF Position(Served(indexed + 1)) = k
          THEN HandledAt(indexed, k) \cup {indexed + 1} ELSE HandledAt(indexed, k)
  BY <1>2 DEF HandledAt
<1>4. ASSUME anchors'[k].digest = anchors[k].digest
      PROVE  Copies(k)' = {i \in HandledAt(indexed, k)' : Keccak(Served(i)) = anchors[k].digest}
  BY <1>1, <1>4 DEF Copies
<1>5. QED  BY <1>3, <1>4 DEF Copies

PositionOK(k) ==
  HoldsFirst(k) /\ anchors[k].duplicateCount + 1 = Cardinality(Copies(k))

\* When neither a position's anchor nor the calls handled there change, what
\* holds of the position keeps holding.
LEMMA PositionUntouched ==
  ASSUME NEW k, PositionOK(k),
         anchors'[k] = anchors[k],
         HandledAt(indexed, k)' = HandledAt(indexed, k),
         Copies(k)' = Copies(k),
         \A i \in HandledAt(indexed, k) : Served(i)' = Served(i) /\ calls'[i] = calls[i]
  PROVE  PositionOK(k)'
<1>1. PICK i \in Copies(k) :
        /\ \A j \in HandledAt(indexed, k) : i <= j
        /\ anchors[k].cd = Served(i).cd
        /\ anchors[k].prev = Served(i).prev
        /\ anchors[k].tx = calls[i].tx
  BY DEF PositionOK, HoldsFirst
<1>2. i \in HandledAt(indexed, k)  BY <1>1 DEF Copies
<1>3. HoldsFirst(k)'  BY <1>1, <1>2 DEF HoldsFirst
<1>4. QED  BY <1>3 DEF PositionOK

LEMMA HandlesKeepsFirst ==
  ASSUME TypeOK, FirstEnvelopeWins, IndexNext,
         NEW n, n = indexed + 1,
         NEW e, e = Served(n),
         NEW p, p = Position(e),
         Handled(indexed)' = Handled(indexed) \cup {n},
         e \in ServedEnvelopes,
         Handles(calls[n], e)
  PROVE  FirstEnvelopeWins'
<1>1. /\ calls' = calls
      /\ \A i : Served(i)' = Served(i)
      /\ n \notin Handled(indexed)
      /\ n \in Nat
      /\ \A i \in Handled(indexed) : i \in Nat /\ i < n
  BY IndexCases, IndexExtendsHandled, HandledFacts DEF TypeOK
<1>2. \A k \in DOMAIN anchors : PositionOK(k)
  BY DEF FirstEnvelopeWins, PositionOK
<1>3. DOMAIN anchors' = DOMAIN anchors \cup {p}
  BY DEF Handles, FirstAnchor, DuplicateAnchor, ConflictAnchor, Save
<1>4. DOMAIN anchors' = {Position(Served(i)') : i \in Handled(indexed)'}
  BY <1>1, <1>3 DEF FirstEnvelopeWins
<1>5. ASSUME NEW k \in DOMAIN anchors', k # p
      PROVE  PositionOK(k)'
  <2>1. k \in DOMAIN anchors /\ PositionOK(k)  BY <1>2, <1>3, <1>5
  <2>2. anchors'[k] = anchors[k]
    BY <1>5, <2>1 DEF Handles, FirstAnchor, DuplicateAnchor, ConflictAnchor, Save, TypeOK
  <2>3. HandledAt(indexed, k)' = HandledAt(indexed, k) /\ Copies(k)' = Copies(k)
    BY <1>5, <2>2, HandledAtExtended
  <2>4. QED  BY <1>1, <2>1, <2>2, <2>3, PositionUntouched
<1>6. PositionOK(p)'
  <2>1. CASE FirstAnchor(calls[n], e)
    <3>1. /\ p \notin DOMAIN anchors
          /\ anchors'[p] = [cd |-> e.cd, prev |-> e.prev, digest |-> Keccak(e),
                            tx |-> calls[n].tx, duplicateCount |-> 0]
      BY <2>1 DEF FirstAnchor, Save
    <3>2. HandledAt(indexed, p) = {}
      BY <3>1 DEF FirstEnvelopeWins, HandledAt
    <3>3. HandledAt(indexed, p)' = {n}
      BY <3>2, HandledAtExtended
    <3>4. Copies(p)' = {n}
      BY <1>1, <3>1, <3>3 DEF Copies
    <3>5. HoldsFirst(p)'
      <4>1. Served(n)' = e  BY <1>1
      <4>2. anchors'[p].cd = e.cd /\ anchors'[p].prev = e.prev /\ anchors'[p].tx = calls'[n].tx
        BY <1>1, <3>1
      <4>3. QED  BY <1>1, <3>3, <3>4, <4>1, <4>2 DEF HoldsFirst
    <3>6. Cardinality(Copies(p)') = 1  BY <3>4, FS_Singleton
    <3>7. QED  BY <3>1, <3>5, <3>6 DEF PositionOK
  <2>2. CASE DuplicateAnchor(calls[n], e)
    <3>1. /\ p \in DOMAIN anchors
          /\ anchors[p].digest = Keccak(e)
          /\ anchors[p] \in AnchorRow
          /\ anchors'[p] = [anchors[p] EXCEPT !.duplicateCount = @ + 1]
      BY <2>2 DEF DuplicateAnchor, TypeOK
    <3>2. /\ anchors'[p].digest = anchors[p].digest
          /\ anchors'[p].cd = anchors[p].cd
          /\ anchors'[p].prev = anchors[p].prev
          /\ anchors'[p].tx = anchors[p].tx
          /\ anchors'[p].duplicateCount = anchors[p].duplicateCount + 1
          /\ anchors[p].duplicateCount \in Nat
      BY <3>1 DEF AnchorRow
    <3>3. /\ HandledAt(indexed, p)' = HandledAt(indexed, p) \cup {n}
          /\ Copies(p)' = Copies(p) \cup {n}
      BY <3>1, <3>2, HandledAtExtended
    <3>4. PICK i \in Copies(p) :
            /\ \A j \in HandledAt(indexed, p) : i <= j
            /\ anchors[p].cd = Served(i).cd
            /\ anchors[p].prev = Served(i).prev
            /\ anchors[p].tx = calls[i].tx
      BY <1>2, <3>1 DEF PositionOK, HoldsFirst
    <3>5. i < n  BY <1>1, <3>4 DEF Copies, HandledAt
    <3>6. i \in Nat  BY <1>1, <3>4 DEF Copies, HandledAt
    <3>7. \A j \in HandledAt(indexed, p)' : i <= j
      BY <1>1, <3>3, <3>4, <3>5, <3>6
    <3>8. HoldsFirst(p)'
      BY <1>1, <3>2, <3>3, <3>4, <3>7 DEF HoldsFirst
    <3>9. Cardinality(Copies(p)') = Cardinality(Copies(p)) + 1
      <4>1. Copies(p) \subseteq Handled(indexed)  BY DEF Copies, HandledAt
      <4>2. IsFiniteSet(Copies(p)) /\ n \notin Copies(p)
        BY <1>1, <4>1, HandledFacts, FS_Subset
      <4>3. QED  BY <3>3, <4>2, FS_AddElement
    <3>10. QED  BY <1>2, <3>1, <3>2, <3>8, <3>9 DEF PositionOK
  <2>3. CASE ConflictAnchor(calls[n], e)
    <3>1. /\ p \in DOMAIN anchors
          /\ anchors[p].digest # Keccak(e)
          /\ anchors' = anchors
      BY <2>3 DEF ConflictAnchor
    <3>2. /\ HandledAt(indexed, p)' = HandledAt(indexed, p) \cup {n}
          /\ Copies(p)' = Copies(p)
      BY <3>1, HandledAtExtended
    <3>3. PICK i \in Copies(p) :
            /\ \A j \in HandledAt(indexed, p) : i <= j
            /\ anchors[p].cd = Served(i).cd
            /\ anchors[p].prev = Served(i).prev
            /\ anchors[p].tx = calls[i].tx
      BY <1>2, <3>1 DEF PositionOK, HoldsFirst
    <3>4. i \in Nat /\ i < n  BY <1>1, <3>3 DEF Copies, HandledAt
    <3>5. HoldsFirst(p)'
      BY <1>1, <3>1, <3>2, <3>3, <3>4 DEF HoldsFirst
    <3>6. QED  BY <1>2, <3>1, <3>2, <3>5 DEF PositionOK
  <2>4. QED  BY <2>1, <2>2, <2>3 DEF Handles
<1>7. QED  BY <1>3, <1>4, <1>5, <1>6 DEF FirstEnvelopeWins, PositionOK

LEMMA FirstEnvelopeWinsInductive ==
  ASSUME TypeOK, FirstEnvelopeWins, Step
  PROVE  FirstEnvelopeWins'
<1>1. CASE ChainGrows \/ UNCHANGED vars
  <2>1. /\ Handled(indexed)' = Handled(indexed)
        /\ \A i \in Handled(indexed) : calls'[i] = calls[i] /\ Served(i)' = Served(i)
        /\ anchors' = anchors
    BY <1>1, GrowsKeepsHandled, HandledFacts DEF ChainGrows, indexVars, vars, Handled, Served, Traced
  <2>2. \A k : HandledAt(indexed, k)' = HandledAt(indexed, k) /\ Copies(k)' = Copies(k)
    BY <2>1 DEF HandledAt, Copies
  <2>3. \A k : HandledAt(indexed, k) \subseteq Handled(indexed)  BY DEF HandledAt
  <2>4. \A k \in DOMAIN anchors' : PositionOK(k)'
    BY <2>1, <2>2, <2>3, PositionUntouched DEF FirstEnvelopeWins, PositionOK
  <2>5. DOMAIN anchors' = {Position(Served(i)') : i \in Handled(indexed)'}
    BY <2>1 DEF FirstEnvelopeWins
  <2>6. QED  BY <2>4, <2>5 DEF FirstEnvelopeWins, PositionOK
<1>2. CASE IndexNext /\ PassesOver(calls[indexed + 1])
  <2>1. /\ Handled(indexed)' = Handled(indexed)
        /\ calls' = calls /\ \A i : Served(i)' = Served(i)
        /\ anchors' = anchors
    BY <1>2, IndexExtendsHandled, IndexCases DEF PassesOver
  <2>2. \A k : HandledAt(indexed, k)' = HandledAt(indexed, k) /\ Copies(k)' = Copies(k)
    BY <2>1 DEF HandledAt, Copies
  <2>3. \A k \in DOMAIN anchors' : PositionOK(k)'
    BY <2>1, <2>2, PositionUntouched DEF FirstEnvelopeWins, PositionOK
  <2>4. DOMAIN anchors' = {Position(Served(i)') : i \in Handled(indexed)'}
    BY <2>1 DEF FirstEnvelopeWins
  <2>5. QED  BY <2>3, <2>4 DEF FirstEnvelopeWins, PositionOK
<1>3. CASE IndexNext /\ ~PassesOver(calls[indexed + 1])
  <2>1. /\ Handled(indexed)' = Handled(indexed) \cup {indexed + 1}
        /\ Handles(calls[indexed + 1], Served(indexed + 1))
        /\ Served(indexed + 1) \in ServedEnvelopes
    BY <1>3, IndexCases, IndexExtendsHandled DEF Served, ServedEnvelopes
  <2>2. PICK n, e, p : n = indexed + 1 /\ e = Served(n) /\ p = Position(e)
    OBVIOUS
  <2>3. QED  BY <1>3, <2>1, <2>2, HandlesKeepsFirst
<1>4. QED  BY <1>1, <1>2, <1>3 DEF Step

\* After any interleaving of posters and of the indexer, each position holds
\* the first envelope anchored there and has counted its re-submissions.
THEOREM FirstEnvelopeWinsAlways == Spec => []FirstEnvelopeWins
<1>1. Init => FirstEnvelopeWins
  BY DEF Init, IndexInit, EmptyTable, FirstEnvelopeWins, Handled
<1>2. TypeOK /\ FirstEnvelopeWins /\ [Next]_vars => FirstEnvelopeWins'
  BY FirstEnvelopeWinsInductive, NextIsStep
<1>3. QED  BY <1>1, <1>2, TypeCorrect, PTL DEF Spec

-----------------------------------------------------------------------------
(* Nothing served is taken back. *)

LEMMA RowFacts ==
  ASSUME TypeOK
  PROVE  /\ \A k \in DOMAIN anchors : anchors[k].duplicateCount \in Nat
         /\ \A s \in DOMAIN streams :
              /\ streams[s] \in StreamRow
              /\ streams[s].latestSeq \in Int
              /\ streams[s].anchorCount \in Nat
              /\ streams[s].conflictCount \in Nat
<1>1. \A r \in AnchorRow : r.duplicateCount \in Nat  BY DEF AnchorRow
<1>2. \A r \in StreamRow : r.latestSeq \in Int /\ r.anchorCount \in Nat /\ r.conflictCount \in Nat
  BY DEF StreamRow, NoSeq
<1>3. QED  BY <1>1, <1>2 DEF TypeOK

LEMMA StandingStillTakesNothingBack ==
  ASSUME TypeOK, UNCHANGED <<anchors, conflicts, streams>>, malformed \subseteq malformed'
  PROVE  TakesNothingBack
BY RowFacts DEF TakesNothingBack

\* How the row of the call's stream grows, in each of the three cases.
LEMMA StreamRowGrows ==
  ASSUME TypeOK, NEW c, NEW e, e.seq \in Nat, Handles(c, e), NEW s \in DOMAIN streams
  PROVE  /\ s \in DOMAIN streams'
         /\ streams'[s].latestSeq >= streams[s].latestSeq
         /\ streams'[s].anchorCount >= streams[s].anchorCount
         /\ streams'[s].conflictCount >= streams[s].conflictCount
         /\ streams[s].hasConflicts => streams'[s].hasConflicts
<1> DEFINE r == LoadOrCreateStream(e.stream, c.tx)
<1>1. \/ streams' = Save(streams, e.stream,
                        [r EXCEPT !.anchorCount = @ + 1,
                                  !.latestSeq = IF e.seq > r.latestSeq THEN e.seq ELSE @,
                                  !.head = IF e.seq > r.latestSeq THEN Keccak(e) ELSE @,
                                  !.lastBlock = c.tx])
      \/ streams' = Save(streams, e.stream, [r EXCEPT !.lastBlock = c.tx])
      \/ streams' = Save(streams, e.stream,
                        [r EXCEPT !.hasConflicts = TRUE, !.conflictCount = @ + 1,
                                  !.lastBlock = c.tx])
  BY DEF Handles, FirstAnchor, DuplicateAnchor, ConflictAnchor
<1>2. s = e.stream => r = streams[s]  BY DEF LoadOrCreateStream
<1> HIDE DEF r
<1>3. CASE s # e.stream
  <2>1. s \in DOMAIN streams' /\ streams'[s] = streams[s]  BY <1>1, <1>3 DEF Save
  <2>2. QED  BY <2>1, RowFacts
<1>4. CASE s = e.stream
  <2>1. s \in DOMAIN streams'  BY <1>1, <1>4 DEF Save
  <2>2. \/ streams'[s] = [r EXCEPT !.anchorCount = @ + 1,
                               !.latestSeq = IF e.seq > r.latestSeq THEN e.seq ELSE @,
                               !.head = IF e.seq > r.latestSeq THEN Keccak(e) ELSE @,
                               !.lastBlock = c.tx]
        \/ streams'[s] = [r EXCEPT !.lastBlock = c.tx]
        \/ streams'[s] = [r EXCEPT !.hasConflicts = TRUE, !.conflictCount = @ + 1,
                               !.lastBlock = c.tx]
    BY <1>1, <1>4 DEF Save
  <2>3. /\ r \in StreamRow
        /\ r.latestSeq \in Int /\ r.anchorCount \in Nat /\ r.conflictCount \in Nat
        /\ r = streams[s]
    BY <1>2, <1>4, RowFacts
  <2>4. /\ streams'[s].latestSeq >= r.latestSeq
        /\ streams'[s].anchorCount >= r.anchorCount
        /\ streams'[s].conflictCount >= r.conflictCount
    <3>1. \A n, tx, q, d : LET x == [r EXCEPT !.anchorCount = n, !.latestSeq = q, !.head = d,
                                             !.lastBlock = tx]
                           IN /\ x.latestSeq = q
                              /\ x.anchorCount = n
                              /\ x.conflictCount = r.conflictCount
      BY <2>3 DEF StreamRow
    <3>2. CASE streams'[s] = [r EXCEPT !.anchorCount = @ + 1,
                                       !.latestSeq = IF e.seq > r.latestSeq THEN e.seq ELSE @,
                                       !.head = IF e.seq > r.latestSeq THEN Keccak(e) ELSE @,
                                       !.lastBlock = c.tx]
      <4>1. PICK q, d : /\ q = IF e.seq > r.latestSeq THEN e.seq ELSE r.latestSeq
                        /\ d = IF e.seq > r.latestSeq THEN Keccak(e) ELSE r.head
        OBVIOUS
      <4>2. streams'[s] = [r EXCEPT !.anchorCount = r.anchorCount + 1, !.latestSeq = q,
                                    !.head = d, !.lastBlock = c.tx]
        BY <2>3, <3>2, <4>1 DEF StreamRow
      <4>3. q >= r.latestSeq  BY <2>3, <4>1
      <4>4. QED  BY <2>3, <3>1, <4>2, <4>3
    <3>3. CASE streams'[s] = [r EXCEPT !.lastBlock = c.tx]
      BY <2>3, <3>3 DEF StreamRow
    <3>4. CASE streams'[s] = [r EXCEPT !.hasConflicts = TRUE, !.conflictCount = @ + 1,
                                       !.lastBlock = c.tx]
      BY <2>3, <3>4 DEF StreamRow
    <3>5. QED  BY <2>2, <3>2, <3>3, <3>4
  <2>5. r.hasConflicts => streams'[s].hasConflicts
    BY <2>2, <2>3 DEF StreamRow
  <2>6. QED  BY <2>1, <2>3, <2>4, <2>5
<1>5. QED  BY <1>3, <1>4

LEMMA HandlingTakesNothingBack ==
  ASSUME TypeOK, NEW c, NEW e, e.seq \in Nat, Handles(c, e)
  PROVE  TakesNothingBack
<1>1. ASSUME NEW k \in DOMAIN anchors
      PROVE  /\ k \in DOMAIN anchors'
             /\ \A f \in {"cd", "prev", "digest", "tx"} : anchors'[k][f] = anchors[k][f]
             /\ anchors'[k].duplicateCount >= anchors[k].duplicateCount
  <2>1. anchors[k] \in AnchorRow /\ anchors[k].duplicateCount \in Nat
    BY RowFacts DEF TypeOK
  <2>2. \/ k \in DOMAIN anchors' /\ anchors'[k] = anchors[k]
        \/ k \in DOMAIN anchors' /\ anchors'[k] = [anchors[k] EXCEPT !.duplicateCount = @ + 1]
    BY DEF Handles, FirstAnchor, DuplicateAnchor, ConflictAnchor, Save, TypeOK
  <2>3. QED  BY <2>1, <2>2 DEF AnchorRow
<1>2. DOMAIN conflicts \subseteq DOMAIN conflicts' /\ malformed' = malformed
  BY DEF Handles, FirstAnchor, DuplicateAnchor, ConflictAnchor, Save
<1>3. QED  BY <1>1, <1>2, StreamRowGrows DEF TakesNothingBack

LEMMA StepTakesNothingBack ==
  ASSUME TypeOK, Step
  PROVE  TakesNothingBack
<1>1. CASE ChainGrows
  BY <1>1, StandingStillTakesNothingBack DEF ChainGrows, indexVars
<1>2. CASE IndexNext /\ PassesOver(calls[indexed + 1])
  BY <1>2, StandingStillTakesNothingBack DEF PassesOver
<1>3. CASE IndexNext /\ ~PassesOver(calls[indexed + 1])
  <2>1. /\ Handles(calls[indexed + 1], Served(indexed + 1))
        /\ Served(indexed + 1).seq \in Nat
    BY <1>3, IndexCases, AsServedKeepsPosition DEF Served
  <2>2. QED  BY <2>1, HandlingTakesNothingBack
<1>4. CASE UNCHANGED vars
  BY <1>4, StandingStillTakesNothingBack DEF vars
<1>5. QED  BY <1>1, <1>2, <1>3, <1>4 DEF Step

\* No step of a poster or of the indexer takes back what is served: every
\* handler saves over entities and removes none.
THEOREM ServedOnlyGrowsAlways == Spec => ServedOnlyGrows
BY TypeCorrect, NextIsStep, StepTakesNothingBack, PTL DEF Spec, ServedOnlyGrows

-----------------------------------------------------------------------------
(* The stream summaries.                                                   *)

\* Calls are logged in block order; the bounds of a stream's blocks rest on it.
BlocksAscend == \A i, j \in 1 .. Len(calls) : i <= j => calls[i].tx <= calls[j].tx

LEMMA BlocksAscendInductive ==
  ASSUME TypeOK, BlocksAscend, Step
  PROVE  BlocksAscend'
<1>1. CASE calls' = calls
  BY <1>1 DEF BlocksAscend
<1>2. CASE ChainGrows
  <2>1. ChainTypeOK'  BY <1>2, GrowsByOne DEF TypeOK
  <2>2. /\ Len(calls) \in Nat
        /\ Len(calls') = Len(calls) + 1
        /\ \A i \in 1 .. Len(calls) : calls'[i] = calls[i] /\ calls[i].tx \in Nat
    BY <1>2, GrowsByOne, CallParts DEF TypeOK, ChainTypeOK
  <2>3. Len(calls) # 0 => calls[Len(calls)].tx <= calls'[Len(calls')].tx
    BY <1>2, <2>2, GrowsByOne DEF HeadTx, TypeOK, ChainTypeOK
  <2>4. ASSUME NEW i \in 1 .. Len(calls'), NEW j \in 1 .. Len(calls'), i <= j
        PROVE  calls'[i].tx <= calls'[j].tx
    <3>1. CASE j <= Len(calls)
      BY <2>2, <2>4, <3>1 DEF BlocksAscend
    <3>2. CASE i = Len(calls')
      <4>1. i = j  BY <2>2, <2>4, <3>2
      <4>2. calls'[i] \in Call
        BY <2>1 DEF ChainTypeOK
      <4>3. calls'[i].tx \in Nat  BY <4>2 DEF Call
      <4>4. QED  BY <4>1, <4>3
    <3>3. CASE i <= Len(calls) /\ j = Len(calls')
      <4>1. /\ i \in 1 .. Len(calls) /\ Len(calls) \in 1 .. Len(calls)
            /\ calls'[i].tx = calls[i].tx
        BY <2>2, <3>3
      <4>2. calls[i].tx <= calls[Len(calls)].tx  BY <2>2, <4>1 DEF BlocksAscend
      <4>3. calls[i].tx \in Nat /\ calls[Len(calls)].tx \in Nat  BY <2>2, <4>1
      <4>4. calls'[Len(calls')] \in Call  BY <2>1, <2>2 DEF ChainTypeOK
      <4>5. calls'[Len(calls')].tx \in Nat  BY <4>4 DEF Call
      <4>6. QED  BY <2>2, <2>3, <3>3, <4>1, <4>2, <4>3, <4>5
    <3>4. QED  BY <2>2, <2>4, <3>1, <3>2, <3>3
  <2>5. QED  BY <2>4 DEF BlocksAscend
<1>3. QED  BY <1>1, <1>2 DEF Step, IndexNext, vars

\* What a stream's summary reads; unless it changes, the summary holds on.
LEMMA SummaryUntouched ==
  ASSUME NEW s, SummaryOK(s),
         streams'[s] = streams[s],
         PositionsOf(s)' = PositionsOf(s),
         HandledOf(s)' = HandledOf(s),
         (Disputed \cap HandledOf(s))' = Disputed \cap HandledOf(s),
         \A k \in PositionsOf(s) : anchors'[k].digest = anchors[k].digest,
         \A i \in HandledOf(s) : calls'[i] = calls[i]
  PROVE  SummaryOK(s)'
BY DEF SummaryOK

LEMMA StreamFacts ==
  ASSUME TypeOK, FirstEnvelopeWins, NEW s
  PROVE  /\ HandledOf(s) \subseteq Handled(indexed)
         /\ PositionsOf(s) = {Position(Served(i)) : i \in HandledOf(s)}
         /\ IsFiniteSet(HandledOf(s))
         /\ IsFiniteSet(PositionsOf(s))
         /\ IsFiniteSet(Disputed \cap HandledOf(s))
         /\ \A k \in PositionsOf(s) : k = <<s, k[2]>> /\ k[2] \in Nat
<1>1. HandledOf(s) \subseteq Handled(indexed)  BY DEF HandledOf
<1>2. PositionsOf(s) = {Position(Served(i)) : i \in HandledOf(s)}
  BY DEF FirstEnvelopeWins, PositionsOf, HandledOf, Position
<1>3. IsFiniteSet(HandledOf(s))  BY <1>1, HandledFacts, FS_Subset
<1>4. IsFiniteSet(PositionsOf(s))
  <2> DEFINE f == [i \in HandledOf(s) |-> Position(Served(i))]
  <2>1. /\ f \in [HandledOf(s) -> PositionsOf(s)]
        /\ \A k \in PositionsOf(s) : \E i \in HandledOf(s) : f[i] = k
    BY <1>2
  <2> HIDE DEF f
  <2>2. f \in Surjection(HandledOf(s), PositionsOf(s))  BY <2>1, Fun_IsSurj
  <2>3. QED  BY <1>3, <2>2, FS_Surjection
<1>5. IsFiniteSet(Disputed \cap HandledOf(s))  BY <1>3, FS_Subset
<1>6. ASSUME NEW k \in PositionsOf(s) PROVE k = <<s, k[2]>> /\ k[2] \in Nat
  <2>1. PICK i \in HandledOf(s) : k = Position(Served(i))  BY <1>2
  <2>2. Served(i).seq \in Nat
    BY <1>1, <2>1, AsServedKeepsPosition DEF Handled, Served
  <2>3. QED  BY <2>1, <2>2 DEF HandledOf, Position
<1>7. QED  BY <1>1, <1>2, <1>3, <1>4, <1>5, <1>6

LEMMA HandlesKeepsSummaries ==
  ASSUME TypeOK, FirstEnvelopeWins, StreamSummaryExact, BlocksAscend, IndexNext,
         NEW n, n = indexed + 1,
         NEW e, e = Served(n),
         NEW p, p = Position(e),
         Handled(indexed)' = Handled(indexed) \cup {n},
         e \in ServedEnvelopes, e.seq \in Nat,
         Handles(calls[n], e)
  PROVE  StreamSummaryExact'
<1> DEFINE row == LoadOrCreateStream(e.stream, calls[n].tx)
<1>1. /\ calls' = calls
      /\ \A i : Served(i)' = Served(i)
      /\ n \in 1 .. Len(calls)
      /\ n \notin Handled(indexed)
      /\ \A i \in Handled(indexed) : i \in 1 .. Len(calls) /\ i < n
  BY IndexCases, IndexExtendsHandled, HandledFacts DEF TypeOK, ChainTypeOK
<1>2. /\ \A k \in DOMAIN anchors : k \in DOMAIN anchors' /\ anchors'[k].digest = anchors[k].digest
      /\ DOMAIN anchors' = DOMAIN anchors \cup {p}
  <2>1. TakesNothingBack  BY HandlingTakesNothingBack
  <2>2. DOMAIN anchors' = DOMAIN anchors \cup {p}
    BY DEF Handles, FirstAnchor, DuplicateAnchor, ConflictAnchor, Save
  <2>3. \A k \in DOMAIN anchors : anchors'[k]["digest"] = anchors[k]["digest"]
    BY <2>1 DEF TakesNothingBack
  <2>4. QED  BY <2>2, <2>3
<1>3. /\ DOMAIN streams' = DOMAIN streams \cup {e.stream}
      /\ \A s \in DOMAIN streams : s # e.stream => streams'[s] = streams[s]
  BY DEF Handles, FirstAnchor, DuplicateAnchor, ConflictAnchor, Save
<1>4. DOMAIN streams' = {Served(i)'.stream : i \in Handled(indexed)'}
  BY <1>1, <1>3 DEF StreamSummaryExact
<1>5. \A i \in Handled(indexed) : Position(Served(i)) \in DOMAIN anchors
  BY DEF FirstEnvelopeWins
<1>6. Disputed' = Disputed \cup {i \in {n} : Keccak(e) # anchors'[p].digest}
  BY <1>1, <1>2, <1>5 DEF Disputed
<1>7. \A s : HandledOf(s)' = HandledOf(s) \cup {i \in {n} : e.stream = s}
  BY <1>1 DEF HandledOf
<1>8. p[1] = e.stream /\ p[2] = e.seq /\ p = <<e.stream, e.seq>>
  BY DEF Position
<1>9. \A s : PositionsOf(s)' = PositionsOf(s) \cup {k \in {p} : e.stream = s}
  BY <1>2, <1>8 DEF PositionsOf
<1>10. ASSUME NEW s \in DOMAIN streams', s # e.stream
       PROVE  SummaryOK(s)'
  <2>1. s \in DOMAIN streams /\ SummaryOK(s) /\ streams'[s] = streams[s]
    BY <1>3, <1>10 DEF StreamSummaryExact
  <2>2. n \notin HandledOf(s) /\ HandledOf(s)' = HandledOf(s) /\ PositionsOf(s)' = PositionsOf(s)
    BY <1>1, <1>7, <1>9, <1>10 DEF HandledOf
  <2>3. (Disputed \cap HandledOf(s))' = Disputed \cap HandledOf(s)
    BY <1>6, <2>2
  <2>4. \A k \in PositionsOf(s) : anchors'[k].digest = anchors[k].digest
    BY <1>2 DEF PositionsOf
  <2>5. QED  BY <1>1, <2>1, <2>2, <2>3, <2>4, SummaryUntouched
<1>11. PICK s, r : s = e.stream /\ r = LoadOrCreateStream(e.stream, calls[n].tx)
  OBVIOUS
<1>12. /\ HandledOf(s)' = HandledOf(s) \cup {n}
       /\ PositionsOf(s)' = PositionsOf(s) \cup {p}
  BY <1>7, <1>9, <1>11
<1>13. calls[n].tx \in Nat /\ r \in StreamRow
  BY <1>1, <1>11, CallParts, StreamRowOfCall DEF TypeOK
<1>14. /\ r.anchorCount = Cardinality(PositionsOf(s))
       /\ r.conflictCount = Cardinality(Disputed \cap HandledOf(s))
       /\ r.hasConflicts <=> r.conflictCount > 0
       /\ \A k \in PositionsOf(s) : k[2] <= r.latestSeq
       /\ PositionsOf(s) # {} => /\ <<s, r.latestSeq>> \in PositionsOf(s)
                                 /\ r.head = anchors[<<s, r.latestSeq>>].digest
       /\ PositionsOf(s) = {} => r.latestSeq = NoSeq
       /\ \E i \in HandledOf(s)' : calls'[i].tx = r.firstBlock
       /\ \A i \in HandledOf(s)' : calls'[i].tx \in r.firstBlock .. calls[n].tx
  <2>1. \A i \in HandledOf(s) : i \in 1 .. Len(calls) /\ i < n
    BY <1>1 DEF HandledOf
  <2>2. \A i \in HandledOf(s) : calls[i].tx \in Nat /\ calls[i].tx <= calls[n].tx
    BY <1>1, <2>1, CallParts DEF BlocksAscend, TypeOK
  <2>3. CASE s \in DOMAIN streams
    <3>1. SummaryOK(s) /\ r = streams[s]
      BY <1>11, <2>3 DEF StreamSummaryExact, LoadOrCreateStream
    <3>2. \E i \in HandledOf(s) : calls[i].tx = r.firstBlock
      BY <3>1 DEF SummaryOK
    <3>3. r.firstBlock \in Nat  BY <1>13 DEF StreamRow
    <3>4. \A i \in HandledOf(s) : r.firstBlock <= calls[i].tx
      BY <3>1 DEF SummaryOK
    <3>5. \A i \in HandledOf(s)' : calls'[i].tx \in r.firstBlock .. calls[n].tx
      BY <1>1, <1>12, <1>13, <2>2, <3>2, <3>3, <3>4
    <3>6. \E i \in HandledOf(s)' : calls'[i].tx = r.firstBlock
      BY <1>1, <1>12, <3>2
    <3>7. QED  BY <3>1, <3>5, <3>6 DEF SummaryOK
  <2>4. CASE s \notin DOMAIN streams
    <3>1. r = NewStream(calls[n].tx)
      BY <1>11, <2>4 DEF LoadOrCreateStream
    <3>2. HandledOf(s) = {}
      BY <2>4 DEF StreamSummaryExact, HandledOf
    <3>3. PositionsOf(s) = {}
      BY <3>2, StreamFacts
    <3>4. /\ r.anchorCount = 0 /\ r.conflictCount = 0 /\ r.hasConflicts = FALSE
          /\ r.latestSeq = NoSeq /\ r.firstBlock = calls[n].tx
      BY <3>1 DEF NewStream
    <3>5. Cardinality({}) = 0  BY FS_EmptySet
    <3>6. HandledOf(s)' = {n}  BY <1>12, <3>2
    <3>7. \A i \in HandledOf(s)' : calls'[i].tx \in r.firstBlock .. calls[n].tx
      BY <1>1, <1>13, <3>4, <3>6
    <3>8. \E i \in HandledOf(s)' : calls'[i].tx = r.firstBlock
      BY <1>1, <3>4, <3>6
    <3>9. Disputed \cap HandledOf(s) = {}  BY <3>2
    <3>10. r.anchorCount = Cardinality(PositionsOf(s)) /\ r.conflictCount = Cardinality(Disputed \cap HandledOf(s))
      BY <3>3, <3>4, <3>5, <3>9
    <3>11. r.hasConflicts <=> r.conflictCount > 0  BY <3>4
    <3>12. QED  BY <3>3, <3>4, <3>7, <3>8, <3>10, <3>11
  <2>5. QED  BY <2>3, <2>4
<1>15. SummaryOK(s)'
  <2> DEFINE moved == streams'[s]
  <2>1. /\ IsFiniteSet(PositionsOf(s))
        /\ IsFiniteSet(Disputed \cap HandledOf(s))
        /\ n \notin Disputed \cap HandledOf(s)
    BY <1>1, StreamFacts DEF HandledOf
  <2>2. /\ r.anchorCount \in Nat /\ r.conflictCount \in Nat
        /\ r.latestSeq \in Int /\ r.latestSeq >= NoSeq
        /\ r.hasConflicts \in BOOLEAN
    BY <1>13 DEF StreamRow, NoSeq
  <2>3. calls'[n].tx = calls[n].tx /\ n \in HandledOf(s)'  BY <1>1, <1>12
  <2>4. CASE FirstAnchor(calls[n], e)
    <3>1. /\ p \notin PositionsOf(s)
          /\ anchors'[p].digest = Keccak(e)
          /\ moved = [r EXCEPT !.anchorCount = @ + 1,
                              !.latestSeq = IF e.seq > r.latestSeq THEN e.seq ELSE @,
                              !.head = IF e.seq > r.latestSeq THEN Keccak(e) ELSE @,
                              !.lastBlock = calls[n].tx]
      BY <1>11, <2>4 DEF FirstAnchor, Save, PositionsOf
    <3>2. /\ moved.anchorCount = r.anchorCount + 1
          /\ moved.latestSeq = IF e.seq > r.latestSeq THEN e.seq ELSE r.latestSeq
          /\ moved.head = IF e.seq > r.latestSeq THEN Keccak(e) ELSE r.head
          /\ moved.lastBlock = calls[n].tx
          /\ moved.conflictCount = r.conflictCount
          /\ moved.firstBlock = r.firstBlock
          /\ moved.hasConflicts = r.hasConflicts
      BY <1>13, <3>1 DEF StreamRow
    <3>3. Cardinality(PositionsOf(s)') = r.anchorCount + 1
      <4>1. Cardinality(PositionsOf(s) \cup {p}) = Cardinality(PositionsOf(s)) + 1
        BY <2>1, <3>1, FS_AddElement
      <4>2. QED  BY <1>12, <1>14, <4>1
    <3>4. (Disputed \cap HandledOf(s))' = Disputed \cap HandledOf(s)
      BY <1>1, <1>6, <1>12, <3>1 DEF Disputed
    <3>5. <<s, moved.latestSeq>> \in PositionsOf(s)' /\ moved.head = anchors'[<<s, moved.latestSeq>>].digest
      <4>1. CASE e.seq > r.latestSeq
        BY <1>8, <1>11, <1>12, <3>1, <3>2, <4>1
      <4>2. CASE ~(e.seq > r.latestSeq)
        <5>1. r.latestSeq # NoSeq  BY <2>2, <4>2 DEF NoSeq
        <5>2. /\ <<s, r.latestSeq>> \in PositionsOf(s)
              /\ r.head = anchors[<<s, r.latestSeq>>].digest
          BY <1>14, <5>1
        <5>3. anchors'[<<s, r.latestSeq>>].digest = anchors[<<s, r.latestSeq>>].digest
          BY <1>2, <5>2 DEF PositionsOf
        <5>4. QED  BY <1>12, <3>2, <4>2, <5>2, <5>3
      <4>3. QED  BY <4>1, <4>2
    <3>6. \A k \in PositionsOf(s)' : k[2] <= moved.latestSeq
      <4>1. \A k \in PositionsOf(s) : k[2] \in Nat  BY StreamFacts
      <4>2. QED  BY <1>8, <1>12, <1>14, <2>2, <3>2, <4>1
    <3>7. QED  BY <1>14, <2>3, <3>2, <3>3, <3>4, <3>5, <3>6 DEF SummaryOK
  <2>5. ASSUME p \in PositionsOf(s), UNCHANGED <<DOMAIN anchors>>,
               moved.anchorCount = r.anchorCount,
               moved.latestSeq = r.latestSeq,
               moved.head = r.head,
               moved.lastBlock = calls[n].tx,
               moved.firstBlock = r.firstBlock,
               moved.conflictCount = Cardinality((Disputed \cap HandledOf(s))'),
               moved.hasConflicts <=> moved.conflictCount > 0
        PROVE  SummaryOK(s)'
    <3>1. PositionsOf(s)' = PositionsOf(s)  BY <1>12, <2>5
    <3>2. /\ <<s, r.latestSeq>> \in PositionsOf(s)
          /\ r.head = anchors[<<s, r.latestSeq>>].digest
      BY <1>14, <2>5
    <3>3. anchors'[<<s, r.latestSeq>>].digest = anchors[<<s, r.latestSeq>>].digest
      BY <1>2, <3>2 DEF PositionsOf
    <3>4. QED  BY <1>14, <2>3, <2>5, <3>1, <3>2, <3>3 DEF SummaryOK
  <2>6. CASE DuplicateAnchor(calls[n], e)
    <3>1. /\ p \in PositionsOf(s)
          /\ anchors[p].digest = Keccak(e)
          /\ DOMAIN anchors' = DOMAIN anchors
          /\ moved = [r EXCEPT !.lastBlock = calls[n].tx]
      BY <1>8, <1>11, <2>6 DEF DuplicateAnchor, Save, PositionsOf
    <3>2. /\ moved.anchorCount = r.anchorCount
          /\ moved.latestSeq = r.latestSeq
          /\ moved.head = r.head
          /\ moved.lastBlock = calls[n].tx
          /\ moved.conflictCount = r.conflictCount
          /\ moved.firstBlock = r.firstBlock
          /\ moved.hasConflicts = r.hasConflicts
      BY <1>13, <3>1 DEF StreamRow
    <3>3. anchors'[p].digest = Keccak(e)  BY <1>2, <3>1 DEF PositionsOf
    <3>4. (Disputed \cap HandledOf(s))' = Disputed \cap HandledOf(s)
      BY <1>1, <1>6, <1>12, <3>3 DEF Disputed
    <3>5. QED  BY <1>14, <2>5, <3>1, <3>2, <3>4
  <2>7. CASE ConflictAnchor(calls[n], e)
    <3>1. /\ p \in PositionsOf(s)
          /\ anchors[p].digest # Keccak(e)
          /\ anchors' = anchors
          /\ moved = [r EXCEPT !.hasConflicts = TRUE, !.conflictCount = @ + 1,
                              !.lastBlock = calls[n].tx]
      BY <1>8, <1>11, <2>7 DEF ConflictAnchor, Save, PositionsOf
    <3>2. /\ moved.anchorCount = r.anchorCount
          /\ moved.latestSeq = r.latestSeq
          /\ moved.head = r.head
          /\ moved.lastBlock = calls[n].tx
          /\ moved.conflictCount = r.conflictCount + 1
          /\ moved.firstBlock = r.firstBlock
      BY <1>13, <3>1 DEF StreamRow
    <3>3. moved.hasConflicts = TRUE  BY <1>13, <3>1 DEF StreamRow
    <3>4. (Disputed \cap HandledOf(s))' = (Disputed \cap HandledOf(s)) \cup {n}
      BY <1>1, <1>6, <1>12, <3>1
    <3>5. moved.conflictCount = Cardinality((Disputed \cap HandledOf(s))')
      <4>1. Cardinality((Disputed \cap HandledOf(s)) \cup {n}) =
              Cardinality(Disputed \cap HandledOf(s)) + 1
        BY <2>1, FS_AddElement
      <4>2. QED  BY <1>14, <3>2, <3>4, <4>1
    <3>6. moved.conflictCount > 0  BY <2>2, <3>2
    <3>7. QED  BY <2>5, <3>1, <3>2, <3>3, <3>5, <3>6
  <2>8. QED  BY <2>4, <2>6, <2>7 DEF Handles
<1>16. QED  BY <1>3, <1>4, <1>10, <1>11, <1>15 DEF StreamSummaryExact

LEMMA StreamSummaryInductive ==
  ASSUME TypeOK, FirstEnvelopeWins, StreamSummaryExact, BlocksAscend, Step
  PROVE  StreamSummaryExact'
<1>1. ASSUME Handled(indexed)' = Handled(indexed),
             UNCHANGED <<anchors, streams>>,
             \A i \in Handled(indexed) : calls'[i] = calls[i] /\ Served(i)' = Served(i)
      PROVE  StreamSummaryExact'
  <2>1. DOMAIN streams' = {Served(i)'.stream : i \in Handled(indexed)'}
    BY <1>1 DEF StreamSummaryExact
  <2>2. ASSUME NEW s \in DOMAIN streams' PROVE SummaryOK(s)'
    <3>1. SummaryOK(s) /\ streams'[s] = streams[s]  BY <1>1, <2>2 DEF StreamSummaryExact
    <3>2. HandledOf(s)' = HandledOf(s) /\ HandledOf(s) \subseteq Handled(indexed)
      BY <1>1 DEF HandledOf
    <3>3. PositionsOf(s)' = PositionsOf(s)  BY <1>1 DEF PositionsOf
    <3>4. Disputed' = Disputed  BY <1>1 DEF Disputed
    <3>5. QED  BY <1>1, <3>1, <3>2, <3>3, <3>4, SummaryUntouched
  <2>3. QED  BY <2>1, <2>2 DEF StreamSummaryExact
<1>2. CASE ChainGrows
  BY <1>1, <1>2, GrowsKeepsHandled, HandledFacts DEF ChainGrows, indexVars
<1>3. CASE UNCHANGED vars
  BY <1>1, <1>3 DEF vars, Handled, Served, Traced
<1>4. CASE IndexNext /\ PassesOver(calls[indexed + 1])
  BY <1>1, <1>4, IndexExtendsHandled, IndexCases DEF PassesOver
<1>5. CASE IndexNext /\ ~PassesOver(calls[indexed + 1])
  <2>1. /\ Handled(indexed)' = Handled(indexed) \cup {indexed + 1}
        /\ Handles(calls[indexed + 1], Served(indexed + 1))
        /\ Served(indexed + 1) \in ServedEnvelopes
        /\ Served(indexed + 1).seq \in Nat
    BY <1>5, IndexCases, IndexExtendsHandled, AsServedKeepsPosition DEF Served, ServedEnvelopes
  <2>2. PICK n, e, p : n = indexed + 1 /\ e = Served(n) /\ p = Position(e)
    OBVIOUS
  <2>3. QED  BY <1>5, <2>1, <2>2, HandlesKeepsSummaries
<1>6. QED  BY <1>2, <1>3, <1>4, <1>5 DEF Step

\* Every stream row summarises exactly the calls handled so far, whatever was
\* posted and in whatever order.
THEOREM StreamSummaryAlwaysExact == Spec => []StreamSummaryExact
<1> DEFINE IInv == StreamSummaryExact /\ BlocksAscend
<1>1. Init => IInv
  BY DEF Init, IndexInit, EmptyTable, StreamSummaryExact, Handled, BlocksAscend
<1>2. TypeOK /\ FirstEnvelopeWins /\ IInv /\ [Next]_vars => IInv'
  BY StreamSummaryInductive, BlocksAscendInductive, NextIsStep
<1>3. QED  BY <1>1, <1>2, TypeCorrect, FirstEnvelopeWinsAlways, PTL DEF Spec

-----------------------------------------------------------------------------
(* The rows of the two tables that only collect. *)

\* The handled envelope joins the disputed ones exactly if it competes.
LEMMA DisputedExtended ==
  ASSUME TypeOK, FirstEnvelopeWins, IndexNext,
         NEW n, n = indexed + 1,
         NEW e, e = Served(n), e.seq \in Nat,
         Handled(indexed)' = Handled(indexed) \cup {n},
         Handles(calls[n], e)
  PROVE  /\ Disputed' = Disputed \cup {i \in {n} : Keccak(e) # anchors'[Position(e)].digest}
         /\ \A i \in Disputed : i \in Nat /\ i < n
         /\ \A i : ConflictId(i)' = ConflictId(i) /\ Served(i)' = Served(i)
<1>1. /\ calls' = calls
      /\ \A i : Served(i)' = Served(i)
      /\ \A i \in Handled(indexed) : i \in Nat /\ i < n
  BY IndexCases, IndexExtendsHandled, HandledFacts DEF TypeOK
<1>2. TakesNothingBack  BY HandlingTakesNothingBack
<1>3. \A k \in DOMAIN anchors : anchors'[k]["digest"] = anchors[k]["digest"]
  BY <1>2 DEF TakesNothingBack
<1>4. \A i \in Handled(indexed) : Position(Served(i)) \in DOMAIN anchors
  BY DEF FirstEnvelopeWins
<1>5. Disputed' = Disputed \cup {i \in {n} : Keccak(e) # anchors'[Position(e)].digest}
  BY <1>1, <1>3, <1>4 DEF Disputed
<1>6. \A i \in Disputed : i \in Nat /\ i < n
  BY <1>1 DEF Disputed
<1>7. \A i : ConflictId(i)' = ConflictId(i)  BY <1>1 DEF ConflictId
<1>8. QED  BY <1>1, <1>5, <1>6, <1>7

(***************************************************************************)
(* The inductive form of what the two tables keep: one ConflictingAnchor   *)
(* for every position and transaction in which an envelope competed,       *)
(* holding the last one that did, and every undecodable payload.           *)
(***************************************************************************)
ConflictsExact ==
  /\ DOMAIN conflicts = {ConflictId(i) : i \in Disputed}
  /\ \A k \in DOMAIN conflicts : \E i \in Disputed :
       /\ ConflictId(i) = k /\ conflicts[k] = Keccak(Served(i))
       /\ \A j \in Disputed : ConflictId(j) = k => j <= i

LEMMA HandlesKeepsConflicts ==
  ASSUME TypeOK, FirstEnvelopeWins, ConflictsExact, IndexNext,
         NEW n, n = indexed + 1,
         NEW e, e = Served(n), e.seq \in Nat,
         Handled(indexed)' = Handled(indexed) \cup {n},
         Handles(calls[n], e)
  PROVE  ConflictsExact'
<1>1. /\ Disputed' = Disputed \cup {i \in {n} : Keccak(e) # anchors'[Position(e)].digest}
      /\ \A i \in Disputed : i \in Nat /\ i < n
      /\ \A i : ConflictId(i)' = ConflictId(i) /\ Served(i)' = Served(i)
  BY DisputedExtended
<1>2. CASE ConflictAnchor(calls[n], e)
  <2>1. /\ anchors' = anchors
        /\ anchors[Position(e)].digest # Keccak(e)
        /\ conflicts' = Save(conflicts, ConflictId(n), Keccak(e))
    BY <1>2 DEF ConflictAnchor, ConflictId
  <2>2. Disputed' = Disputed \cup {n}  BY <1>1, <2>1
  <2>3. DOMAIN conflicts' = DOMAIN conflicts \cup {ConflictId(n)}
    BY <2>1 DEF Save
  <2>4. DOMAIN conflicts' = {ConflictId(i)' : i \in Disputed'}
    BY <1>1, <2>2, <2>3 DEF ConflictsExact
  <2>5. ASSUME NEW k \in DOMAIN conflicts'
        PROVE  \E i \in Disputed' :
                 /\ ConflictId(i) = k /\ conflicts'[k] = Keccak(Served(i))
                 /\ \A j \in Disputed' : ConflictId(j) = k => j <= i
    <3>1. CASE k = ConflictId(n)
      <4>1. conflicts'[k] = Keccak(Served(n))  BY <2>1, <3>1 DEF Save
      <4>2. n \in Nat  BY DEF TypeOK
      <4>3. \A j \in Disputed' : j <= n  BY <1>1, <2>2, <4>2
      <4>4. QED  BY <2>2, <3>1, <4>1, <4>3
    <3>2. CASE k # ConflictId(n)
      <4>1. k \in DOMAIN conflicts /\ conflicts'[k] = conflicts[k]
        BY <2>1, <2>3, <3>2 DEF Save
      <4>2. QED  BY <2>2, <3>2, <4>1 DEF ConflictsExact
    <3>3. QED  BY <3>1, <3>2
  <2>6. QED  BY <1>1, <2>4, <2>5 DEF ConflictsExact
<1>3. CASE FirstAnchor(calls[n], e) \/ DuplicateAnchor(calls[n], e)
  <2>1. conflicts' = conflicts  BY <1>3 DEF FirstAnchor, DuplicateAnchor
  <2>2. anchors'[Position(e)].digest = Keccak(e)
    <3>1. CASE FirstAnchor(calls[n], e)
      BY <3>1 DEF FirstAnchor, Save
    <3>2. CASE DuplicateAnchor(calls[n], e)
      <4>1. /\ Position(e) \in DOMAIN anchors
            /\ anchors[Position(e)].digest = Keccak(e)
        BY <3>2 DEF DuplicateAnchor
      <4>2. anchors'[Position(e)]["digest"] = anchors[Position(e)]["digest"]
        BY <4>1, HandlingTakesNothingBack DEF TakesNothingBack
      <4>3. QED  BY <4>1, <4>2
    <3>3. QED  BY <1>3, <3>1, <3>2
  <2>3. Disputed' = Disputed  BY <1>1, <2>2
  <2>4. QED  BY <1>1, <2>1, <2>3 DEF ConflictsExact
<1>4. QED  BY <1>2, <1>3 DEF Handles

MalformedExact ==
  malformed = {<<calls[i].tx, calls[i].payload>> : i \in MalformedHandled}

LEMMA MalformedExactInductive ==
  ASSUME TypeOK, MalformedExact, Step
  PROVE  MalformedExact'
<1>1. CASE ChainGrows \/ UNCHANGED vars
  <2>1. /\ \A i \in 1 .. indexed : calls'[i] = calls[i]
        /\ indexed' = indexed /\ malformed' = malformed
    BY <1>1, GrowsByOne DEF ChainGrows, indexVars, vars, TypeOK, ChainTypeOK
  <2>2. MalformedHandled' = MalformedHandled
    BY <2>1 DEF MalformedHandled, Traced
  <2>3. \A i \in MalformedHandled : calls'[i] = calls[i]
    BY <2>1 DEF MalformedHandled
  <2>4. QED  BY <2>1, <2>2, <2>3 DEF MalformedExact
<1>2. CASE IndexNext
  <2> DEFINE c == calls[indexed + 1]
  <2>1. calls' = calls /\ indexed' = indexed + 1 /\ indexed \in Nat
    BY <1>2, IndexCases DEF TypeOK
  <2>2. 1 .. indexed' = (1 .. indexed) \cup {indexed + 1}  BY <2>1
  <2>3. MalformedHandled' =
          MalformedHandled \cup {i \in {indexed + 1} : Traced(c) /\ c.payload \in Undecodable}
    BY <2>1, <2>2 DEF MalformedHandled, Traced
  <2>4. malformed' = malformed \cup {<<c.tx, c.payload>> : i \in
                       {j \in {indexed + 1} : Traced(c) /\ c.payload \in Undecodable}}
    <3>1. CASE SkipReverted(c)
      BY <3>1 DEF SkipReverted
    <3>2. CASE Traced(c) /\ RecordMalformed(c)
      BY <3>2 DEF RecordMalformed
    <3>3. CASE Traced(c) /\ c.payload \in Envelopes /\ malformed' = malformed
      BY <3>3, UndecodableIsNoEnvelope
    <3>4. QED
      BY <1>2, <3>1, <3>2, <3>3
      DEF IndexNext, IndexAnchorCall, WithholdAnchor, FirstAnchor, DuplicateAnchor, ConflictAnchor
  <2>5. QED  BY <2>1, <2>3, <2>4 DEF MalformedExact
<1>3. QED  BY <1>1, <1>2 DEF Step

ConflictRowsExact == ConflictsExact /\ MalformedExact

LEMMA ConflictRowsInductive ==
  ASSUME TypeOK, FirstEnvelopeWins, ConflictRowsExact, Step
  PROVE  ConflictRowsExact'
<1>1. ConflictsExact /\ MalformedExact  BY DEF ConflictRowsExact
<1>2. ASSUME Handled(indexed)' = Handled(indexed),
             UNCHANGED <<anchors, conflicts>>,
             \A i \in Handled(indexed) : calls'[i] = calls[i] /\ Served(i)' = Served(i)
      PROVE  ConflictsExact'
  <2>1. Disputed' = Disputed  BY <1>2 DEF Disputed
  <2>2. \A i \in Disputed : ConflictId(i)' = ConflictId(i) /\ Served(i)' = Served(i)
    BY <1>2 DEF Disputed, ConflictId
  <2>3. {ConflictId(i)' : i \in Disputed'} = {ConflictId(i) : i \in Disputed}
    BY <2>1, <2>2
  <2>4. QED  BY <1>1, <1>2, <2>1, <2>2, <2>3 DEF ConflictsExact
<1>3. ConflictsExact'
  <2>1. CASE ChainGrows
    BY <1>2, <2>1, GrowsKeepsHandled, HandledFacts DEF ChainGrows, indexVars
  <2>2. CASE UNCHANGED vars
    BY <1>2, <2>2 DEF vars, Handled, Served, Traced
  <2>3. CASE IndexNext /\ PassesOver(calls[indexed + 1])
    BY <1>2, <2>3, IndexExtendsHandled, IndexCases DEF PassesOver
  <2>4. CASE IndexNext /\ ~PassesOver(calls[indexed + 1])
    <3>1. /\ Handled(indexed)' = Handled(indexed) \cup {indexed + 1}
          /\ Handles(calls[indexed + 1], Served(indexed + 1))
          /\ Served(indexed + 1).seq \in Nat
      BY <2>4, IndexCases, IndexExtendsHandled, AsServedKeepsPosition DEF Served
    <3>2. PICK n, e : n = indexed + 1 /\ e = Served(n)
      OBVIOUS
    <3>3. QED  BY <1>1, <2>4, <3>1, <3>2, HandlesKeepsConflicts
  <2>5. QED  BY <2>1, <2>2, <2>3, <2>4 DEF Step
<1>4. MalformedExact'  BY <1>1, MalformedExactInductive
<1>5. QED  BY <1>3, <1>4 DEF ConflictRowsExact

\* What is kept of competing envelopes and undecodable payloads is exactly
\* what ConflictRowsExact says: of the competing envelopes that share a
\* position and a transaction the last one is kept, the others are lost.
THEOREM ConflictRowsAlwaysExact == Spec => []ConflictRowsExact
<1>1. Init => ConflictRowsExact
  BY DEF Init, IndexInit, EmptyTable, ConflictRowsExact, ConflictsExact, MalformedExact,
         Disputed, Handled, MalformedHandled
<1>2. TypeOK /\ FirstEnvelopeWins /\ ConflictRowsExact /\ [Next]_vars => ConflictRowsExact'
  BY ConflictRowsInductive, NextIsStep
<1>3. QED  BY <1>1, <1>2, TypeCorrect, FirstEnvelopeWinsAlways, PTL DEF Spec

LEMMA ExactRowsReport ==
  ASSUME ConflictsExact
  PROVE  ConflictsReported
<1>1. ASSUME NEW i \in Disputed, HasOwnRow(i)
      PROVE  Kept(i)
  <2>1. ConflictId(i) \in DOMAIN conflicts  BY DEF ConflictsExact
  <2>2. PICK j \in Disputed : /\ ConflictId(j) = ConflictId(i)
                              /\ conflicts[ConflictId(i)] = Keccak(Served(j))
    BY <2>1 DEF ConflictsExact
  <2>3. j = i  BY <1>1, <2>2 DEF HasOwnRow
  <2>4. <<ConflictId(i)[1], ConflictId(i)[2]>> = Position(Served(i))
    BY DEF ConflictId, Position
  <2>5. QED  BY <2>1, <2>2, <2>3, <2>4 DEF Kept
<1>2. QED  BY <1>1 DEF ConflictsReported, ConflictsExact

\* Every envelope that competes, alone at its position in its transaction, is
\* reported as what it is, and no conflict is reported that nobody posted,
\* whatever else is posted, in whatever order and by whomever.
THEOREM ConflictsAlwaysReported == Spec => []ConflictsReported
<1>1. ConflictRowsExact => ConflictsReported
  BY ExactRowsReport DEF ConflictRowsExact
<1>2. QED  BY <1>1, ConflictRowsAlwaysExact, PTL
=============================================================================
