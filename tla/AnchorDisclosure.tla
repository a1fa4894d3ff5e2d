-------------------------- MODULE AnchorDisclosure --------------------------
(***************************************************************************)
(* A disclosure of item 02: records handed to an auditor with their        *)
(* positions, the anchors recomputed from them, and what it is for them to *)
(* be faithful to the rows a source serves.                                *)
(***************************************************************************)
EXTENDS AnchorEnvelope, FiniteSetsExt

Null == <<"null">>

(***************************************************************************)
(* computeAnchors (anchor-core/stream.ts) over the disclosed contents, a   *)
(* map from positions: the link of a record is the digest of its           *)
(* predecessor's envelope, and without that predecessor neither link nor   *)
(* digest exists.                                                          *)
(***************************************************************************)
ComputeAnchors(stream, contents) ==
  LET anchor[s \in 0 .. Max(DOMAIN contents \cup {0})] ==
        LET prev == IF s = 0 THEN ZERO32
                    ELSE IF s - 1 \in DOMAIN contents THEN anchor[s - 1].digest ELSE Null
            cd == CiphertextDigest(stream, s, contents[s])
        IN [cd |-> cd, prev |-> prev,
            digest |-> IF prev = Null THEN Null ELSE Keccak(Envelope(stream, s, cd, prev))]
  IN [s \in DOMAIN contents |-> anchor[s]]

\* What exit code 0 claims (the PASS lines of cli.ts) of recomputed anchors d,
\* served rows v and the positions c of the conflicts served: the rows are
\* exactly the anchors, one row per position, from position 0 without a hole,
\* and nothing competes with them.
FaithfulTo(d, v, c) ==
  /\ c = {}
  /\ Cardinality(DOMAIN d) = Len(v)
  /\ DOMAIN d = 0 .. (Len(v) - 1)
  /\ {v[i] : i \in DOMAIN v} =
       {[seq |-> s, cd |-> d[s].cd, prev |-> d[s].prev, digest |-> d[s].digest] : s \in DOMAIN d}
=============================================================================
