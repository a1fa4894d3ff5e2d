--------------------------- MODULE MCAnchorIndex ---------------------------
(* Small instances of AnchorIndex: two streams, two positions, envelopes    *)
(* that compete at one position, and both reasons for rejecting a payload.  *)
EXTENDS ChainScan

First(s, content) == Envelope(s, 0, <<s, 0, content>>, ZERO32)
Second(s, content) == Envelope(s, 1, <<s, 1, content>>, Keccak(First(s, "a")))

\* For the build that withholds every fourth.
Fourth == Envelope("s1", 3, <<"s1", 3, "a">>, ZERO32)

AnyPayloads ==
  {First("s1", "a"), First("s1", "b"), Second("s1", "a"), First("s2", "a"), Fourth,
   [decodes |-> "WRONG_LENGTH", id |-> 1], [decodes |-> "UNSUPPORTED_VERSION", id |-> 1]}

MCCompeting ==
  {First("s1", "a"), First("s1", "b"), First("s1", "c"), [decodes |-> "WRONG_LENGTH", id |-> 1]}
=============================================================================
