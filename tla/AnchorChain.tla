---------------------------- MODULE AnchorChain ----------------------------
(***************************************************************************)
(* What item 02 puts on chain: the calldata of postAnchor(bytes).  The     *)
(* contract stores nothing and accepts any bytes from anyone, so the only  *)
(* state is the log of calls, in block order.                              *)
(*                                                                         *)
(* A payload is either undecodable, or an envelope with its four fields.   *)
(*                                                                         *)
(* Every transaction has a block of its own, so `tx' stands for both its   *)
(* hash and its block number.  One transaction may carry several calls     *)
(* when another contract makes them.                                       *)
(***************************************************************************)
EXTENDS AnchorEnvelope

CONSTANTS Payloads,   \* everything that may be posted
          CallKinds,  \* which of the three kinds of call below happen
          MaxCalls    \* bound: the calls in a behaviour

(***************************************************************************)
(* "top"      - a top-level transaction that succeeded                     *)
(* "internal" - a call another contract made inside its transaction        *)
(* "reverted" - a top-level transaction that was mined and reverted (it    *)
(*              sent value to the non-payable function, or ran out of gas) *)
(***************************************************************************)
AllCallKinds == {"top", "internal", "reverted"}

Envelopes == {p \in Payloads : p.decodes = "OK"}
Undecodable == {p \in Payloads : p.decodes \in {"WRONG_LENGTH", "UNSUPPORTED_VERSION"}}

ASSUME ChainAssumption ==
  /\ CallKinds \subseteq AllCallKinds
  /\ MaxCalls \in Nat
  /\ Payloads = Envelopes \cup Undecodable
  /\ \A e \in Envelopes :
       /\ e = Envelope(e.stream, e.seq, e.cd, e.prev)
       /\ e.seq \in Nat

VARIABLE calls

Call == [tx : Nat, kind : CallKinds, nonce : Nat, payload : Payloads]

HeadTx == IF calls = <<>> THEN 0 ELSE calls[Len(calls)].tx

\* The next transaction is mined: top-level, hence one call.
MineTx(p, kind, nonce) ==
  /\ Len(calls) < MaxCalls
  /\ kind \in CallKinds
  /\ calls' = Append(calls, [tx |-> HeadTx + 1, kind |-> kind, nonce |-> nonce, payload |-> p])

\* Another account's transaction (nonce 0 marks it as not the writer's).
\* Calls made by a contract may share a transaction with the one before.
AnyonePosts(p) ==
  \/ \E kind \in CallKinds : MineTx(p, kind, 0)
  \/ /\ "internal" \in CallKinds
     /\ Len(calls) \in 1 .. (MaxCalls - 1)
     /\ calls[Len(calls)].kind = "internal"
     /\ calls' = Append(calls, [calls[Len(calls)] EXCEPT !.payload = p])

ChainTypeOK == calls \in Seq(Call)
=============================================================================
