---------------------------- MODULE BondSubgraph ----------------------------
(***************************************************************************)
(* The bond subgraph: the tables graph-node fills, by either of the two    *)
(* builds over the same schema.                                            *)
(*                                                                         *)
(* subgraph.yaml ("calls"): one handler per entry point, run on every call *)
(* that succeeded, in order.  Each handler is one action: it loads the     *)
(* singleton, records the call, its roots, nullifiers and leaves, and      *)
(* writes the leaf count back.                                             *)
(*                                                                         *)
(* subgraph.fallback-a.yaml ("blocks"): one handler per block, which reads *)
(* the commitments array as of that block, at most                         *)
(* MAX_NEW_LEAVES_PER_BLOCK leaves of it.                                  *)
(*                                                                         *)
(* The tables are one value, `store'.  Ids are padded numbers, which sort  *)
(* as numbers do, so a table with such ids is a function on numbers.  The  *)
(* bond's address and id, proofs, transactions, callers and timestamps are *)
(* left out; an absent Bond and a fresh one read the same.                 *)
(***************************************************************************)
EXTENDS BondContract, FiniteSetsExt

CONSTANT MAX_NEW_LEAVES_PER_BLOCK

ASSUME WalkAssumption == MAX_NEW_LEAVES_PER_BLOCK \in Nat \ {0}

VARIABLES deployment,  \* which build serves: "calls" or "blocks"
          store,       \* its tables
          handled,     \* how many calls the call handlers have seen
          metaBlock    \* _meta.block.number: the last block indexed in full

graphVars == <<deployment, store, handled, metaBlock>>

EmptyStore ==
  [bond |-> [leafCount |-> 0, nullifierCount |-> 0, callCount |-> 0],
   commitments |-> <<>>, nullifiers |-> <<>>, rootClaimeds |-> <<>>, lifecycleCalls |-> <<>>]

\* entity.save(): a row with an id that is there is replaced.
SaveAll(table, rows) ==
  [id \in DOMAIN table \cup DOMAIN rows |-> IF id \in DOMAIN rows THEN rows[id] ELSE table[id]]

Save(table, id, row) == SaveAll(table, [i \in {id} |-> row])

-----------------------------------------------------------------------------
(* mapping.ts: what the handlers are made of.  `id' is the lifecycle call's. *)

\* Mutant: the call count is not carried forward.
RecordCallUncounted(s, fn, block) ==
  [s EXCEPT !.lifecycleCalls = Save(@, s.bond.callCount,
                                    [fn |-> fn, leafCountAfter |-> s.bond.leafCount, block |-> block])]

RecordCall(s, fn, block) ==
  [s EXCEPT !.lifecycleCalls = Save(@, s.bond.callCount,
                                    [fn |-> fn, leafCountAfter |-> s.bond.leafCount, block |-> block]),
            !.bond.callCount = @ + 1]

\* Mutant: the provisional leaf count stays.
FinalizeForgotten(s, id) == s

FinalizeCall(s, id) == [s EXCEPT !.lifecycleCalls[id].leafCountAfter = s.bond.leafCount]

\* One after the other, from the count on.
AppendCommitments(s, id, values, block) ==
  LET from == s.bond.leafCount
      rows == [k \in from .. from + Len(values) - 1 |->
                 [value |-> values[k - from + 1], call |-> id, block |-> block]]
  IN [s EXCEPT !.commitments = SaveAll(@, rows), !.bond.leafCount = from + Len(values)]

AppendCommitment(s, id, value, block) == AppendCommitments(s, id, <<value>>, block)

MarkNullifiers(s, id, values, block) ==
  [s EXCEPT !.nullifiers = SaveAll(@, [v \in ToSet(values) |-> [call |-> id, block |-> block]]),
            !.bond.nullifierCount = @ + Len(values)]

MarkNullifier(s, id, value, block) == MarkNullifiers(s, id, <<value>>, block)

RecordClaimedRoot(s, id, root, suffix, block) ==
  [s EXCEPT !.rootClaimeds = Save(@, <<id, suffix>>, [root |-> root, call |-> id, block |-> block])]

-----------------------------------------------------------------------------
(* mapping.ts: the handlers. *)

\* graph-node runs fn's handler on the next call of the block it is indexing.
Handles(fn, Handler(_, _, _)) ==
  /\ deployment = "calls"
  /\ handled < Len(bondCalls)
  /\ metaBlock + 1 < head
  /\ LET call == bondCalls[handled + 1]
         id == store.bond.callCount
     IN /\ call.fn = fn
        /\ call.block = metaBlock + 1
        /\ store' = FinalizeCall(Handler(RecordCall(store, fn, call.block), id, call), id)
  /\ handled' = handled + 1
  /\ UNCHANGED <<deployment, metaBlock>>

AppendsOnly(s, id, call) == AppendCommitments(s, id, call.commitments, call.block)

SpendsAndAppends(s, id, call) ==
  LET cited == RecordClaimedRoot(s, id, call.root, "root", call.block)
      spent == MarkNullifiers(cited, id, call.nullifiers, call.block)
  IN AppendCommitments(spent, id, call.commitments, call.block)

\* A leg with fewer than four inputs is skipped.  Both legs are spent before
\* either commitment is appended, as the contract does.
Swaps(s, id, call) ==
  LET Spend(t, leg) ==
        IF Len(call.legs[leg]) < 4 THEN t
        ELSE MarkNullifier(RecordClaimedRoot(t, id, call.legs[leg][1], <<"rootA", "rootB">>[leg], call.block),
                           id, call.legs[leg][2], call.block)
      Push(t, leg) ==
        IF Len(call.legs[leg]) < 4 THEN t ELSE AppendCommitment(t, id, call.legs[leg][3], call.block)
  IN Push(Push(Spend(Spend(s, 1), 2), 1), 2)

HandleMint == Handles("MINT", AppendsOnly)
HandleMintBatch == Handles("MINT_BATCH", AppendsOnly)
HandleTransfer == Handles("TRANSFER", SpendsAndAppends)
HandleBurn == Handles("BURN", SpendsAndAppends)
HandleAtomicSwap == Handles("ATOMIC_SWAP", Swaps)

\* All calls of the block are handled: queries may now see it.
FinishBlock ==
  /\ deployment = "calls"
  /\ metaBlock + 1 < head
  /\ CallsUpTo(metaBlock + 1) = 1 .. handled
  /\ metaBlock' = metaBlock + 1
  /\ UNCHANGED <<deployment, store, handled>>

-----------------------------------------------------------------------------
(* mapping-fallback-a.ts: the walk from the last known leaf to the end of  *)
(* the array or to the cap, and one synthetic call if anything was new.    *)

HandleBlock ==
  LET block == metaBlock + 1
      from == store.bond.leafCount
      array == LeavesAt(block)
      upTo == Min({Len(array), from + MAX_NEW_LEAVES_PER_BLOCK})
      walked == AppendCommitments(store, store.bond.callCount, SubSeq(array, from + 1, upTo), block)
  IN /\ deployment = "blocks"
     /\ block < head
     /\ store' = IF upTo = from THEN store
                 ELSE FinalizeCall(RecordCall(walked, "UNKNOWN", block), store.bond.callCount)
     /\ metaBlock' = block
     /\ UNCHANGED <<deployment, handled>>

GraphInit == deployment \in {"calls", "blocks"} /\ store = EmptyStore /\ handled = 0 /\ metaBlock = 0

GraphNext ==
  \/ HandleMint \/ HandleMintBatch \/ HandleTransfer \/ HandleBurn \/ HandleAtomicSwap
  \/ FinishBlock \/ HandleBlock
=============================================================================
