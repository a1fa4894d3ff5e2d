---------------------------- MODULE BondContract ----------------------------
(***************************************************************************)
(* EthSystems' PrivateBond, the contract item 01 indexes.  It is not part  *)
(* of this repository; this module says of it what the mappings, the       *)
(* replay CLI and the contract tests rely on: an append-only array of      *)
(* commitments in global order, a root recorded at the end of every        *)
(* anchor-writing call, and a cited root that must be known.               *)
(*                                                                         *)
(* The state is the log of calls that succeeded, each with the array and   *)
(* the spent nullifiers it left, so that they can be read as of any block; *)
(* knownRoots is derived.  Notes are salted, so commitments and nullifiers *)
(* are fresh: the k-th leaf ever appended is the number k, the k-th        *)
(* nullifier ever spent is the number k.                                   *)
(***************************************************************************)
EXTENDS Naturals, Sequences, SequencesExt

CONSTANTS MaxBondCalls,  \* bound: calls in a behaviour
          MaxLeaves,     \* bound: leaves in the array
          BatchSizes,    \* bound: the lengths of mintBatch arrays tried
          MaxBlock       \* bound: the block calls are last put into

ASSUME BondAssumption ==
  /\ {MaxBondCalls, MaxLeaves} \subseteq Nat /\ MaxBlock \in Nat \ {0}
  /\ BatchSizes \subseteq Nat

VARIABLES bondCalls,  \* the calls that succeeded, in order
          head        \* the block being built; the chain ends with the one before

bondVars == <<bondCalls, head>>

EntryPoints == {"MINT", "MINT_BATCH", "TRANSFER", "BURN", "ATOMIC_SWAP"}

(* What a call does to the contract.  A swap's two legs are its arrays of   *)
(* public inputs: [1] root, [2] nullifier, [3] commitment, [4] maturity.    *)

LeavesOf(c) == IF c.fn = "ATOMIC_SWAP" THEN <<c.legs[1][3], c.legs[2][3]>> ELSE c.commitments
SpentBy(c) == IF c.fn = "ATOMIC_SWAP" THEN <<c.legs[1][2], c.legs[2][2]>> ELSE c.nullifiers
RootsCitedBy(c) ==
  CASE c.fn = "ATOMIC_SWAP" -> {c.legs[1][1], c.legs[2][1]}
    [] c.fn \in {"TRANSFER", "BURN"} -> {c.root}
    [] OTHER -> {}

\* The commitments array, and the notes spent, after the first i calls.
LeavesAfter(i) == IF i = 0 THEN <<>> ELSE bondCalls[i].array
SpentAfter(i) == IF i = 0 THEN <<>> ELSE bondCalls[i].spent

CallsUpTo(block) == {i \in DOMAIN bondCalls : bondCalls[i].block <= block}
LeavesAt(block) == LET n == Cardinality(CallsUpTo(block)) IN LeavesAfter(n)

(***************************************************************************)
(* buildMerkleRoot, from the root down: node i of level k covers leaves    *)
(* from i * 2^k on and exists if there is such a leaf; a node without a    *)
(* right neighbour is hashed with itself.  Poseidon is taken injective, so *)
(* the hash of two nodes is the pair of them.                              *)
(***************************************************************************)
Depth(n) == CHOOSE d \in 0 .. n : n <= 2 ^ d /\ \A e \in 0 .. (d - 1) : 2 ^ e < n

AnchoredRoot(leaves) ==
  LET n == Len(leaves)
      Sibling(k, i) == IF (i + 1) * 2 ^ k < n THEN i + 1 ELSE i
      Node[k \in Nat] ==
        IF k = 0 THEN [i \in Nat |-> <<leaves[i + 1]>>]
                 ELSE [i \in Nat |-> <<Node[k - 1][2 * i], Node[k - 1][Sibling(k - 1, 2 * i)]>>]
  IN Node[Depth(n)][0]

KnownRootsAfter(i) == {AnchoredRoot(LeavesAfter(k)) : k \in 1 .. i}
KnownRoots(block) == KnownRootsAfter(Cardinality(CallsUpTo(block)))

-----------------------------------------------------------------------------
(* The entry points, called by anyone the contract lets. *)

NoArgs == [commitments |-> <<>>, nullifiers |-> <<>>, root |-> <<>>, legs |-> <<>>]

FreshLeaf(k) == Len(LeavesAfter(Len(bondCalls))) + k
FreshNullifier(k) == Len(SpentAfter(Len(bondCalls))) + k
CitableRoots == KnownRootsAfter(Len(bondCalls))

Succeeds(fn, args) ==
  LET call == [commitments |-> args.commitments, nullifiers |-> args.nullifiers,
               root |-> args.root, legs |-> args.legs, fn |-> fn]
      array == LeavesAfter(Len(bondCalls)) \o LeavesOf(call)
      spent == SpentAfter(Len(bondCalls)) \o SpentBy(call)
  IN /\ Len(bondCalls) < MaxBondCalls
     /\ Len(array) \in 1 .. MaxLeaves
     /\ bondCalls' = Append(bondCalls,
          [commitments |-> call.commitments, nullifiers |-> call.nullifiers, root |-> call.root,
           legs |-> call.legs, fn |-> fn, block |-> head, array |-> array, spent |-> spent])
     /\ UNCHANGED head

Mint == Succeeds("MINT", [NoArgs EXCEPT !.commitments = <<FreshLeaf(1)>>])

\* An empty batch succeeds unless nothing was minted: there is a root to build.
MintBatch ==
  \E n \in BatchSizes :
    Succeeds("MINT_BATCH", [NoArgs EXCEPT !.commitments = [k \in 1 .. n |-> FreshLeaf(k)]])

TwoInTwoOut(fn) ==
  \E root \in CitableRoots :
    Succeeds(fn, [NoArgs EXCEPT !.commitments = <<FreshLeaf(1), FreshLeaf(2)>>,
                                !.nullifiers = <<FreshNullifier(1), FreshNullifier(2)>>,
                                !.root = root])

Transfer == TwoInTwoOut("TRANSFER")
Burn == TwoInTwoOut("BURN")

\* The legs may cite different roots.
AtomicSwap ==
  \E rootA, rootB \in CitableRoots :
    Succeeds("ATOMIC_SWAP",
             [NoArgs EXCEPT !.legs = <<<<rootA, FreshNullifier(1), FreshLeaf(1), "maturity">>,
                                       <<rootB, FreshNullifier(2), FreshLeaf(2), "maturity">>>>])

NextBlock == head < MaxBlock /\ head' = head + 1 /\ UNCHANGED bondCalls

BondInit == bondCalls = <<>> /\ head = 1

BondNext == Mint \/ MintBatch \/ Transfer \/ Burn \/ AtomicSwap \/ NextBlock
=============================================================================
