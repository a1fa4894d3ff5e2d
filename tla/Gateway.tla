------------------------------- MODULE Gateway -------------------------------
(***************************************************************************)
(* The gateway between the replay CLI and the indexers: how a request is   *)
(* rewritten on the way, what a route answers, and what the client makes   *)
(* of the answer (gateway.rs; the serving side as mock_gateway.rs          *)
(* transcribes it).  An answer is a status, at most one attestation and a  *)
(* body.                                                                   *)
(***************************************************************************)
EXTENDS Attestation, Sequences

\* What the client posts, and what the gateway makes of it: the indexer signs
\* over the second, never over the first.
ClientPostBody(query) == [query |-> query]
CanonicalRequest(body) == [query |-> body.query, variables |-> <<>>]

\* The client's reconstruction, for queries without variables.
CanonicalRequestString(query) == [query |-> query, variables |-> <<>>]

-----------------------------------------------------------------------------
(* Serving. *)

NotFound == [ok |-> FALSE, attestation |-> <<>>, body |-> <<>>]
Unattested(body) == [ok |-> TRUE, attestation |-> <<>>, body |-> <<body>>]
Attested(att, body) == [ok |-> TRUE, attestation |-> <<att>>, body |-> <<body>>]

\* The main route answers with any indexer the gateway picks, the targeted one
\* with the indexer named, if it is exposed and the indexer known to it.
HandleMain(known) == known
HandleTargeted(exposed, known, indexer) == IF exposed THEN known \cap {indexer} ELSE {}

-----------------------------------------------------------------------------
(* The client. *)

Bundle(query, reply, deployment, routedIndexer) ==
  [request |-> CanonicalRequestString(query), response |-> reply.body[1],
   attestation |-> reply.attestation[1], deployment |-> deployment,
   routedIndexer |-> routedIndexer]

\* GatewayClient::fetch: one bundle, or an error.  Fails closed on an answer
\* without attestation.
FetchResult(query, reply, deployment, routedIndexer) ==
  IF reply.ok /\ reply.attestation # <<>>
  THEN <<Bundle(query, reply, deployment, routedIndexer)>>
  ELSE <<>>
=============================================================================
