--------------------------- MODULE MCAnchorAudit ---------------------------
(* Small instances of AnchorAudit: files of up to two records, and a foreign *)
(* account that competes, anchors out of order, and posts undecodable bytes. *)
EXTENDS AnchorAudit

AnyFile == {<<"a">>, <<"a", "b">>}
TwoFiles == {<<"a", "b">>, <<"b", "b">>}

First(c) == WriterEnvelope("s1", 0, c, ZERO32)
Second(c, prev) == WriterEnvelope("s1", 1, c, Keccak(First(prev)))
Junk == [decodes |-> "WRONG_LENGTH", id |-> 1]

MCPayloads ==
  {First(c) : c \in {"a", "b"}} \cup {Second(c, prev) : c, prev \in {"a", "b"}} \cup {Junk}

Strangers == {Second("a", "a"), Junk}
=============================================================================
