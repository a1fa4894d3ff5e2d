---------------------------- MODULE AnchorIndex ----------------------------
(***************************************************************************)
(* The subgraph of item 02 (subgraph/src/anchor.ts): indexAnchorCall, run  *)
(* by graph-node for each postAnchor call in block order.  graph-node      *)
(* feeds the handler from call traces: calls made inside a transaction are *)
(* seen, reverted ones are not.                                            *)
(*                                                                         *)
(* An entity table is a function from ids to rows.  The property that      *)
(* matters is that the four tables are, at every moment, a function of the *)
(* calls handled so far: the first envelope at a position wins, later ones *)
(* are counted as duplicates or kept as conflicts, and none is lost.       *)
(***************************************************************************)
EXTENDS AnchorChain

CONSTANT Mode   \* which of the three builds of the handler is deployed

Modes == {"HONEST", "DROP_EVERY_FOURTH", "BREAK_CHAIN_AT_SEQ_FIVE"}

ASSUME ModeAssumption == Mode \in Modes

VARIABLES indexed,    \* how many calls graph-node has handled
          anchors,    \* <<stream, seq>> -> Anchor row
          conflicts,  \* <<stream, seq, tx>> -> ConflictingAnchor row
          malformed,  \* <<tx, payload>> ids of MalformedAnchor rows
          streams     \* stream -> Stream row

indexVars == <<indexed, anchors, conflicts, malformed, streams>>
vars == <<calls, indexed, anchors, conflicts, malformed, streams>>

-----------------------------------------------------------------------------
(* entity.save(): insert, or overwrite the row that has this id. *)
Save(table, id, row) ==
  [x \in DOMAIN table \cup {id} |-> IF x = id THEN row ELSE table[x]]

(* The two dishonest builds, used only by the negative tests. *)
Withheld(e) == Mode = "DROP_EVERY_FOURTH" /\ e.seq % 4 = 3

FlippedPrev(prev) == <<"flipped", prev>>

\* flipFirstByte changes the first byte of a link, whatever it is.
ASSUME FlipAssumption == \A e \in Envelopes : FlippedPrev(e.prev) # e.prev

AsServed(e) ==
  IF Mode = "BREAK_CHAIN_AT_SEQ_FIVE" /\ e.seq = 5
    THEN Envelope(e.stream, e.seq, e.cd, FlippedPrev(e.prev))
    ELSE e

NoSeq == -1  \* latestSeq = null

NewStream(tx) ==
  [anchorCount |-> 0, latestSeq |-> NoSeq, head |-> ZERO32, hasConflicts |-> FALSE,
   conflictCount |-> 0, firstBlock |-> tx, lastBlock |-> tx]

LoadOrCreateStream(id, tx) == IF id \in DOMAIN streams THEN streams[id] ELSE NewStream(tx)

-----------------------------------------------------------------------------
(* indexAnchorCall, one action per way through it. *)

\* Mutant: the decoder's verdict is not looked at.
RecordAnyPayload(c) ==
  /\ malformed' = malformed \cup {<<c.tx, c.payload>>}
  /\ UNCHANGED <<anchors, conflicts, streams>>

RecordMalformed(c) ==
  /\ c.payload \in Undecodable
  /\ malformed' = malformed \cup {<<c.tx, c.payload>>}
  /\ UNCHANGED <<anchors, conflicts, streams>>

WithholdAnchor(c) ==
  /\ c.payload \in Envelopes
  /\ Withheld(c.payload)
  /\ UNCHANGED <<anchors, conflicts, malformed, streams>>

\* Mutant: the existing row is not looked up.
ReplaceAnchor(c, e) ==
  LET s == LoadOrCreateStream(e.stream, c.tx)
  IN /\ anchors' = Save(anchors, Position(e),
                        [cd |-> e.cd, prev |-> e.prev, digest |-> Keccak(e),
                         tx |-> c.tx, duplicateCount |-> 0])
     /\ streams' = Save(streams, e.stream, [s EXCEPT !.lastBlock = c.tx])
     /\ UNCHANGED <<conflicts, malformed>>

\* Mutant: the head follows the latest call, not the highest position.
FirstAnchorMovesHead(c, e) ==
  LET s == LoadOrCreateStream(e.stream, c.tx)
  IN /\ Position(e) \notin DOMAIN anchors
     /\ anchors' = Save(anchors, Position(e),
                        [cd |-> e.cd, prev |-> e.prev, digest |-> Keccak(e),
                         tx |-> c.tx, duplicateCount |-> 0])
     /\ streams' = Save(streams, e.stream,
                        [s EXCEPT !.anchorCount = @ + 1, !.latestSeq = e.seq,
                                  !.head = Keccak(e), !.lastBlock = c.tx])
     /\ UNCHANGED <<conflicts, malformed>>

FirstAnchor(c, e) ==
  LET s == LoadOrCreateStream(e.stream, c.tx)
      advances == e.seq > s.latestSeq
  IN /\ Position(e) \notin DOMAIN anchors
     /\ anchors' = Save(anchors, Position(e),
                        [cd |-> e.cd, prev |-> e.prev, digest |-> Keccak(e),
                         tx |-> c.tx, duplicateCount |-> 0])
     /\ streams' = Save(streams, e.stream,
                        [s EXCEPT !.anchorCount = @ + 1,
                                  !.latestSeq = IF advances THEN e.seq ELSE @,
                                  !.head = IF advances THEN Keccak(e) ELSE @,
                                  !.lastBlock = c.tx])
     /\ UNCHANGED <<conflicts, malformed>>

\* Mutant: a re-submission refreshes the row's transaction.
DuplicateAnchorRefreshes(c, e) ==
  LET s == LoadOrCreateStream(e.stream, c.tx)
  IN /\ Position(e) \in DOMAIN anchors
     /\ anchors[Position(e)].digest = Keccak(e)
     /\ anchors' = [anchors EXCEPT ![Position(e)].duplicateCount = @ + 1,
                                   ![Position(e)].tx = c.tx]
     /\ streams' = Save(streams, e.stream, [s EXCEPT !.lastBlock = c.tx])
     /\ UNCHANGED <<conflicts, malformed>>

\* Mutant: the two digests are not compared.
DuplicateAnchorOfAnything(c, e) ==
  LET s == LoadOrCreateStream(e.stream, c.tx)
  IN /\ Position(e) \in DOMAIN anchors
     /\ anchors' = [anchors EXCEPT ![Position(e)].duplicateCount = @ + 1]
     /\ streams' = Save(streams, e.stream, [s EXCEPT !.lastBlock = c.tx])
     /\ UNCHANGED <<conflicts, malformed>>

DuplicateAnchor(c, e) ==
  LET s == LoadOrCreateStream(e.stream, c.tx)
  IN /\ Position(e) \in DOMAIN anchors
     /\ anchors[Position(e)].digest = Keccak(e)
     /\ anchors' = [anchors EXCEPT ![Position(e)].duplicateCount = @ + 1]
     /\ streams' = Save(streams, e.stream, [s EXCEPT !.lastBlock = c.tx])
     /\ UNCHANGED <<conflicts, malformed>>

\* Mutant: a stream already in conflict keeps no further rows.
FirstConflictOnly(c, e) ==
  LET s == LoadOrCreateStream(e.stream, c.tx)
  IN /\ Position(e) \in DOMAIN anchors
     /\ anchors[Position(e)].digest # Keccak(e)
     /\ conflicts' = IF s.hasConflicts THEN conflicts
                     ELSE Save(conflicts, <<e.stream, e.seq, c.tx>>, Keccak(e))
     /\ streams' = Save(streams, e.stream,
                        [s EXCEPT !.hasConflicts = TRUE,
                                  !.conflictCount = @ + 1,
                                  !.lastBlock = c.tx])
     /\ UNCHANGED <<anchors, malformed>>

ConflictAnchor(c, e) ==
  LET s == LoadOrCreateStream(e.stream, c.tx)
  IN /\ Position(e) \in DOMAIN anchors
     /\ anchors[Position(e)].digest # Keccak(e)
     /\ conflicts' = Save(conflicts, <<e.stream, e.seq, c.tx>>, Keccak(e))
     /\ streams' = Save(streams, e.stream,
                        [s EXCEPT !.hasConflicts = TRUE,
                                  !.conflictCount = @ + 1,
                                  !.lastBlock = c.tx])
     /\ UNCHANGED <<anchors, malformed>>

\* A reverted call has no successful trace: graph-node never runs the handler.
Traced(c) == c.kind # "reverted"

SkipReverted(c) ==
  /\ ~Traced(c)
  /\ UNCHANGED <<anchors, conflicts, malformed, streams>>

IndexAnchorCall(c) ==
  /\ Traced(c)
  /\ \/ RecordMalformed(c)
     \/ WithholdAnchor(c)
     \/ /\ c.payload \in Envelopes
        /\ ~Withheld(c.payload)
        /\ \/ FirstAnchor(c, AsServed(c.payload))
           \/ DuplicateAnchor(c, AsServed(c.payload))
           \/ ConflictAnchor(c, AsServed(c.payload))

\* graph-node advances over the next call of the log.
IndexNext ==
  /\ indexed < Len(calls)
  /\ SkipReverted(calls[indexed + 1]) \/ IndexAnchorCall(calls[indexed + 1])
  /\ indexed' = indexed + 1
  /\ UNCHANGED calls

EmptyTable == [x \in {} |-> 0]

IndexInit ==
  /\ indexed = 0
  /\ anchors = EmptyTable
  /\ conflicts = EmptyTable
  /\ malformed = {}
  /\ streams = EmptyTable

Init == calls = <<>> /\ IndexInit

Post == (\E p \in Payloads : AnyonePosts(p)) /\ UNCHANGED indexVars

Next == Post \/ IndexNext

Spec == Init /\ [][Next]_vars
-----------------------------------------------------------------------------
(* Properties. *)

ServedEnvelopes == {AsServed(e) : e \in Envelopes}

Digests == {Keccak(e) : e \in ServedEnvelopes}

AnchorRow ==
  [cd : {e.cd : e \in ServedEnvelopes}, prev : {e.prev : e \in ServedEnvelopes},
   digest : Digests, tx : Nat, duplicateCount : Nat]

StreamRow ==
  [anchorCount : Nat, latestSeq : Nat \cup {NoSeq}, head : Digests \cup {ZERO32},
   hasConflicts : BOOLEAN, conflictCount : Nat, firstBlock : Nat, lastBlock : Nat]

\* The type invariant: tables of rows of the schema's types, and an index that
\* is never ahead of the chain.
TypeOK ==
  /\ ChainTypeOK
  /\ indexed \in 0 .. Len(calls)
  /\ anchors \in [DOMAIN anchors -> AnchorRow]
  /\ conflicts \in [DOMAIN conflicts -> Digests]
  /\ streams \in [DOMAIN streams -> StreamRow]
  /\ malformed \subseteq Nat \X Undecodable

(***************************************************************************)
(* The handled calls that carry an envelope, and those at one position.    *)
(* Everything below says that the tables are a function of these.          *)
(***************************************************************************)
Handled(n) ==
  {i \in 1 .. n : /\ Traced(calls[i])
                  /\ calls[i].payload \in Envelopes
                  /\ ~Withheld(calls[i].payload)}

Served(i) == AsServed(calls[i].payload)

HandledAt(n, k) == {i \in Handled(n) : Position(Served(i)) = k}

\* Handled calls whose envelope is not the one the position's anchor holds.
Disputed == {i \in Handled(indexed) : Keccak(Served(i)) # anchors[Position(Served(i))].digest}

\* Handled calls that post the very envelope a position's anchor holds.
Copies(k) == {i \in HandledAt(indexed, k) : Keccak(Served(i)) = anchors[k].digest}

HoldsFirst(k) ==
  \E i \in Copies(k) :
    /\ \A j \in HandledAt(indexed, k) : i <= j
    /\ anchors[k].cd = Served(i).cd
    /\ anchors[k].prev = Served(i).prev
    /\ anchors[k].tx = calls[i].tx

\* Each position that was ever anchored holds exactly the first envelope
\* anchored there, and counts its re-submissions: a later envelope neither
\* replaces it nor is forgotten (the existing == null branches of
\* indexAnchorCall, over any order of calls by any number of posters).
FirstEnvelopeWins ==
  /\ DOMAIN anchors = {Position(Served(i)) : i \in Handled(indexed)}
  /\ \A k \in DOMAIN anchors :
       /\ HoldsFirst(k)
       /\ anchors[k].duplicateCount + 1 = Cardinality(Copies(k))

PositionsOf(s) == {k \in DOMAIN anchors : k[1] = s}

HandledOf(s) == {i \in Handled(indexed) : Served(i).stream = s}

SummaryOK(s) ==
  LET row == streams[s]
  IN /\ row.anchorCount = Cardinality(PositionsOf(s))
     /\ row.conflictCount = Cardinality(Disputed \cap HandledOf(s))
     /\ row.hasConflicts <=> row.conflictCount > 0
     /\ <<s, row.latestSeq>> \in PositionsOf(s)
     /\ row.head = anchors[<<s, row.latestSeq>>].digest
     /\ \A k \in PositionsOf(s) : k[2] <= row.latestSeq
     /\ \E i \in HandledOf(s) : calls[i].tx = row.firstBlock
     /\ \E i \in HandledOf(s) : calls[i].tx = row.lastBlock
     /\ \A i \in HandledOf(s) : calls[i].tx \in row.firstBlock .. row.lastBlock

\* The counters of a Stream row agree with the calls it summarises: distinct
\* positions, competing envelopes, the highest position and its digest, and
\* the blocks of the first and the last call.
StreamSummaryExact ==
  /\ DOMAIN streams = {Served(i).stream : i \in Handled(indexed)}
  /\ \A s \in DOMAIN streams : SummaryOK(s)

ConflictId(i) == <<Served(i).stream, Served(i).seq, calls[i].tx>>

MalformedHandled ==
  {i \in 1 .. indexed : Traced(calls[i]) /\ calls[i].payload \in Undecodable}

\* No other competing envelope came to the same position in the same
\* transaction: the id of a ConflictingAnchor has no room for two.
HasOwnRow(i) == \A j \in Disputed : ConflictId(j) = ConflictId(i) => j = i

\* The competing envelope of call i is in the table of its position.
Kept(i) ==
  \E k \in DOMAIN conflicts :
    /\ <<k[1], k[2]>> = Position(Served(i))
    /\ conflicts[k] = Keccak(Served(i))

\* Competition is reported, and only real competition: every envelope that
\* differs from its position's anchor, alone in doing so in its transaction,
\* is kept under an id of its own, over any number of competing calls and
\* streams; and every row is of such a call, so no copy of the anchor and no
\* other position ever looks disputed (the last branch of indexAnchorCall).
ConflictsReported ==
  /\ \A i \in Disputed : HasOwnRow(i) => Kept(i)
  /\ \A k \in DOMAIN conflicts :
       \E i \in Disputed : ConflictId(i) = k /\ conflicts[k] = Keccak(Served(i))

\* What the comment above indexAnchorCall (anchor.ts:86-88) promises: nothing
\* is dropped, whoever shares a transaction with whom.  Every competing
\* envelope becomes a ConflictingAnchor, every undecodable payload a
\* MalformedAnchor.
NothingDropped ==
  /\ \A i \in Disputed : Kept(i)
  /\ \A i \in MalformedHandled : <<calls[i].tx, calls[i].payload>> \in malformed

\* The serving layer never takes back what it served: an anchor's digest and
\* transaction stay, no table loses a row, and the duplicates, the stream's
\* counters and the position of its head only grow (every entity is saved
\* over, none is removed).
TakesNothingBack ==
  /\ \A k \in DOMAIN anchors :
       /\ k \in DOMAIN anchors'
       /\ \A f \in {"cd", "prev", "digest", "tx"} : anchors'[k][f] = anchors[k][f]
       /\ anchors'[k].duplicateCount >= anchors[k].duplicateCount
  /\ DOMAIN conflicts \subseteq DOMAIN conflicts'
  /\ malformed \subseteq malformed'
  /\ \A s \in DOMAIN streams :
       /\ s \in DOMAIN streams'
       /\ streams'[s].latestSeq >= streams[s].latestSeq
       /\ streams'[s].anchorCount >= streams[s].anchorCount
       /\ streams'[s].conflictCount >= streams[s].conflictCount
       /\ streams[s].hasConflicts => streams'[s].hasConflicts

ServedOnlyGrows == [][TakesNothingBack]_vars
=============================================================================
