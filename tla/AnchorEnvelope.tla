--------------------------- MODULE AnchorEnvelope ---------------------------
(***************************************************************************)
(* The 105-byte envelope of item 02 and its digest, for every module that  *)
(* reads or writes one.  Bytes are abstracted to what their readers tell   *)
(* apart: an envelope is its four fields, and keccak256 is an injective    *)
(* constructor, so equal digests come from equal envelopes only.           *)
(***************************************************************************)
EXTENDS Integers, Sequences, FiniteSets

\* decodes = "OK": right length, supported version.
Envelope(stream, seq, cd, prev) ==
  [decodes |-> "OK", stream |-> stream, seq |-> seq, cd |-> cd, prev |-> prev]

Keccak(e) == <<"keccak", e>>

\* The backward link of seq 0.
ZERO32 == <<"zero32">>

\* Encryption is deterministic, and key, nonce and additional data bind it to
\* the stream and the position: equal digests mean equal plaintexts there.
CiphertextDigest(stream, seq, plaintext) == <<stream, seq, plaintext>>

\* The id "<streamId>-<seq>" of an anchor.
Position(e) == <<e.stream, e.seq>>
=============================================================================
