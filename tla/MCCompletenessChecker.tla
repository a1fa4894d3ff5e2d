----------------------- MODULE MCCompletenessChecker -----------------------
(* Every disclosure of up to three records over two contents, against every  *)
(* answer made of rows that are right or wrong in each of their fields.      *)
EXTENDS CompletenessChecker

MCStream == "s1"
MaxSeq == 2
Contents == {"a", "b"}
Bogus == <<"bogus">>

Digest(s, content, prev) == Keccak(Envelope(MCStream, s, CiphertextDigest(MCStream, s, content), prev))

\* By the symmetry of the contents the first record, if disclosed, is "a".
MCDisclosures ==
  {ComputeAnchors(MCStream, f) :
     f \in {g \in UNION {[D -> Contents] : D \in SUBSET (0 .. MaxSeq)} :
              0 \in DOMAIN g => g[0] = "a"}}

HonestDigests(s) ==
  {ComputeAnchors(MCStream, f)[s].digest : f \in [0 .. s -> Contents]}

Answered(s, content, prev, digest) ==
  [seq |-> s, cd |-> CiphertextDigest(MCStream, s, content), prev |-> prev, digest |-> digest]

Prevs(s) == {Bogus} \cup IF s = 0 THEN {ZERO32} ELSE HonestDigests(s - 1)

\* Self-consistent rows, and inconsistent ones at the first two positions.
Rows(s) ==
  {Answered(s, c, p, Digest(s, c, p)) : c \in Contents, p \in Prevs(s)}
    \cup IF s < MaxSeq THEN {Answered(s, c, p, Bogus) : c \in Contents, p \in Prevs(s)} ELSE {}

\* A position is served at most once, or not at all...
Picks(s) == {<<>>} \cup {<<r>> : r \in Rows(s)}

\* ...but a source that pages through a moving index may serve one twice.
Twice(v) == {SubSeq(v, 1, i) \o SubSeq(v, i, Len(v)) : i \in DOMAIN v}

HonestRows(f) ==
  LET a == ComputeAnchors(MCStream, f)
  IN [i \in 1 .. Cardinality(DOMAIN f) |->
        [seq |-> i - 1, cd |-> a[i - 1].cd, prev |-> a[i - 1].prev, digest |-> a[i - 1].digest]]

MCServings ==
  {p \o q \o r : p \in Picks(0), q \in Picks(1), r \in Picks(2)}
    \cup UNION {Twice(HonestRows(f)) : f \in UNION {[0 .. n -> Contents] : n \in 0 .. MaxSeq}}

MCConflicts == {{}, {1}}
=============================================================================
