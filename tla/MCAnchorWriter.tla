--------------------------- MODULE MCAnchorWriter ---------------------------
(* Small instances of AnchorWriter: files of two records over two contents. *)
EXTENDS AnchorWriter

Contents == {"a", "b"}
OneFile == {<<"a", "b">>}
TwoFiles == {<<"a", "b">>, <<"b", "b">>}

\* The envelopes the writer can build for a stream, up to three records.
Built(s, n) ==
  LET built[k \in 0 .. n] ==
        IF k = 0 THEN {WriterEnvelope(s, 0, c, ZERO32) : c \in Contents}
        ELSE {WriterEnvelope(s, k, c, Keccak(e)) : c \in Contents, e \in built[k - 1]}
  IN UNION {built[k] : k \in 0 .. n}

Copied == WriterEnvelope("s1", 0, "a", ZERO32)

MCForeign == {Copied}

\* What the writer can build, and the same records with any link: the index
\* must see a wrong link to show what comes of it.
MCPayloads ==
  UNION {Built(s, 2) : s \in {"s1", "s2"}}
    \cup {WriterEnvelope("s1", k, c, prev) :
            k \in 0 .. 1, c \in Contents, prev \in {ZERO32} \cup {Keccak(e) : e \in Built("s1", 1)}}
=============================================================================
