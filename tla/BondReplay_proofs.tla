-------------------------- MODULE BondReplay_proofs --------------------------
(***************************************************************************)
(* Theorems about BondReplay, for any number of calls, leaves and blocks,  *)
(* any batch sizes, page limit and leaf cap, and whoever tampers.          *)
(***************************************************************************)
EXTENDS BondReplay, FiniteSetTheorems, SequenceTheorems, TLAPS

-----------------------------------------------------------------------------
(* Sequences. *)

CountUp(n) == [k \in 1 .. n |-> k]

IsSeq(s) == \E S : s \in Seq(S)

LEMMA IsSeqFacts ==
  ASSUME NEW s, IsSeq(s)
  PROVE  Len(s) \in Nat /\ DOMAIN s = 1 .. Len(s)
BY DEF IsSeq

LEMMA AppendFacts ==
  ASSUME NEW s, IsSeq(s), NEW x
  PROVE  /\ IsSeq(Append(s, x))
         /\ Len(Append(s, x)) = Len(s) + 1
         /\ \A i \in 1 .. Len(s) : Append(s, x)[i] = s[i]
         /\ Append(s, x)[Len(s) + 1] = x
<1>1. PICK S : s \in Seq(S)  BY DEF IsSeq
<1>2. s \in Seq(S \cup {x}) /\ x \in S \cup {x}  BY <1>1, SeqMonotonic
<1>3. Append(s, x) \in Seq(S \cup {x})  BY <1>2
<1>4. QED  BY <1>2, <1>3 DEF IsSeq

\* Counting on from n.
OnFrom(n, m) == [k \in 1 .. m |-> n + k]

LEMMA CountUpFacts ==
  ASSUME NEW n \in Nat
  PROVE  /\ CountUp(n) \in Seq(Nat) /\ Len(CountUp(n)) = n
         /\ \A k \in 1 .. n : CountUp(n)[k] = k
<1>1. CountUp(n) \in [1 .. n -> Nat]  BY DEF CountUp
<1>2. QED  BY <1>1, SeqDef DEF CountUp

LEMMA OnFromFacts ==
  ASSUME NEW n \in Nat, NEW m \in Nat
  PROVE  /\ OnFrom(n, m) \in Seq(Nat) /\ Len(OnFrom(n, m)) = m
         /\ CountUp(n) \o OnFrom(n, m) = CountUp(n + m)
<1>1. OnFrom(n, m) \in [1 .. m -> Nat]  BY DEF OnFrom
<1>2. OnFrom(n, m) \in Seq(Nat) /\ Len(OnFrom(n, m)) = m  BY <1>1, SeqDef
<1>3. CountUp(n) \in Seq(Nat) /\ CountUp(n + m) \in Seq(Nat) /\ Len(CountUp(n)) = n /\ Len(CountUp(n + m)) = n + m
  BY CountUpFacts
<1>4. CountUp(n) \o OnFrom(n, m) \in Seq(Nat) /\ Len(CountUp(n) \o OnFrom(n, m)) = n + m
  BY <1>2, <1>3, ConcatProperties
<1>5. \A k \in 1 .. (n + m) : (CountUp(n) \o OnFrom(n, m))[k] = CountUp(n + m)[k]
  BY <1>2, <1>3 DEF CountUp, OnFrom
<1>6. QED  BY <1>2, <1>3, <1>4, <1>5, SeqEqual

-----------------------------------------------------------------------------
(* The contract: the array counts up, and so do the spent notes; calls are *)
(* in the order of their blocks.                                           *)

Leaves(i) == Len(LeavesAfter(i))
Spent(i) == Len(SpentAfter(i))

CallInv(i) ==
  /\ bondCalls[i].fn \in EntryPoints
  /\ bondCalls[i].block \in 1 .. head
  /\ LeavesOf(bondCalls[i]) = OnFrom(Leaves(i - 1), Leaves(i) - Leaves(i - 1))
  /\ SpentBy(bondCalls[i]) = OnFrom(Spent(i - 1), Spent(i) - Spent(i - 1))
  /\ bondCalls[i].fn \in {"MINT", "MINT_BATCH"} => Spent(i) = Spent(i - 1)
  /\ bondCalls[i].fn = "ATOMIC_SWAP" => Len(bondCalls[i].legs[1]) = 4 /\ Len(bondCalls[i].legs[2]) = 4

ArraysInv ==
  /\ \A i \in 0 .. Len(bondCalls) :
       /\ Leaves(i) \in Nat /\ LeavesAfter(i) = CountUp(Leaves(i))
       /\ Spent(i) \in Nat /\ SpentAfter(i) = CountUp(Spent(i))
  /\ \A i, j \in 0 .. Len(bondCalls) : i <= j => Leaves(i) <= Leaves(j) /\ Spent(i) <= Spent(j)
  /\ \A i, j \in 1 .. Len(bondCalls) : i <= j => bondCalls[i].block <= bondCalls[j].block

ContractInv ==
  /\ head \in 1 .. MaxBlock
  /\ IsSeq(bondCalls)
  /\ ArraysInv
  /\ \A i \in 1 .. Len(bondCalls) : CallInv(i)

LEMMA ContractStarts ==
  ASSUME BondInit
  PROVE  ContractInv
<1>1. IsSeq(bondCalls) /\ Len(bondCalls) = 0  BY DEF BondInit, IsSeq
<1>2. LeavesAfter(0) = <<>> /\ SpentAfter(0) = <<>> /\ CountUp(0) = <<>>
  BY DEF LeavesAfter, SpentAfter, CountUp
<1>3. ArraysInv  BY <1>1, <1>2 DEF ArraysInv, Leaves, Spent
<1>4. QED  BY <1>1, <1>3, BondAssumption DEF BondInit, ContractInv

\* What a step of the contract may do to the log: add to it, in the block being built.
Grows ==
  /\ head' \in Nat /\ head <= head'
  /\ Len(bondCalls) <= Len(bondCalls')
  /\ \A i \in 1 .. Len(bondCalls) : bondCalls'[i] = bondCalls[i]
  /\ \A i \in (Len(bondCalls) + 1) .. Len(bondCalls') : bondCalls'[i].block = head

LEMMA LogGrew ==
  ASSUME NEW len \in Nat, NEW c,
         \A i \in 1 .. len : bondCalls'[i] = bondCalls[i], bondCalls'[len + 1] = c
  PROVE  /\ \A i \in 0 .. len : LeavesAfter(i)' = LeavesAfter(i) /\ SpentAfter(i)' = SpentAfter(i)
         /\ LeavesAfter(len + 1)' = c.array /\ SpentAfter(len + 1)' = c.spent
         /\ \A i \in 0 .. len : Leaves(i)' = Leaves(i) /\ Spent(i)' = Spent(i)
         /\ Leaves(len + 1)' = Len(c.array) /\ Spent(len + 1)' = Len(c.spent)
<1>1. /\ \A i \in 0 .. len : LeavesAfter(i)' = LeavesAfter(i) /\ SpentAfter(i)' = SpentAfter(i)
      /\ LeavesAfter(len + 1)' = c.array /\ SpentAfter(len + 1)' = c.spent
  BY DEF LeavesAfter, SpentAfter
<1>2. QED  BY <1>1 DEF Leaves, Spent

LEMMA LogExtended ==
  ASSUME ContractInv, NEW len, len = Len(bondCalls), NEW c, bondCalls' = Append(bondCalls, c), head' = head,
         NEW n \in Nat, NEW m \in Nat,
         c.fn \in EntryPoints, c.block = head,
         LeavesOf(c) = OnFrom(Leaves(len), n), c.array = LeavesAfter(len) \o OnFrom(Leaves(len), n),
         SpentBy(c) = OnFrom(Spent(len), m), c.spent = SpentAfter(len) \o OnFrom(Spent(len), m),
         c.fn \in {"MINT", "MINT_BATCH"} => m = 0,
         c.fn = "ATOMIC_SWAP" => Len(c.legs[1]) = 4 /\ Len(c.legs[2]) = 4
  PROVE  ContractInv' /\ Grows
<1>1. len \in Nat /\ IsSeq(bondCalls)  BY IsSeqFacts DEF ContractInv
<1>2. /\ IsSeq(bondCalls') /\ Len(bondCalls') = len + 1
      /\ \A i \in 1 .. len : bondCalls'[i] = bondCalls[i]
      /\ bondCalls'[len + 1] = c
  BY <1>1, AppendFacts
<1>3. /\ \A i \in 0 .. len : Leaves(i) \in Nat /\ LeavesAfter(i) = CountUp(Leaves(i))
      /\ \A i \in 0 .. len : Spent(i) \in Nat /\ SpentAfter(i) = CountUp(Spent(i))
      /\ \A i, j \in 0 .. len : i <= j => Leaves(i) <= Leaves(j) /\ Spent(i) <= Spent(j)
  BY DEF ContractInv, ArraysInv
<1>4. len \in 0 .. len /\ \A i \in 0 .. len : i <= len  BY <1>1
<1>5. c.array = CountUp(Leaves(len) + n) /\ Len(c.array) = Leaves(len) + n
  <2>1. Leaves(len) \in Nat /\ LeavesAfter(len) = CountUp(Leaves(len))  BY <1>3, <1>4
  <2>2. CountUp(Leaves(len)) \o OnFrom(Leaves(len), n) = CountUp(Leaves(len) + n)  BY <2>1, OnFromFacts
  <2>3. Leaves(len) + n \in Nat  BY <2>1
  <2>4. QED  BY <2>1, <2>2, <2>3, CountUpFacts
<1>6. c.spent = CountUp(Spent(len) + m) /\ Len(c.spent) = Spent(len) + m
  <2>1. Spent(len) \in Nat /\ SpentAfter(len) = CountUp(Spent(len))  BY <1>3, <1>4
  <2>2. CountUp(Spent(len)) \o OnFrom(Spent(len), m) = CountUp(Spent(len) + m)  BY <2>1, OnFromFacts
  <2>3. Spent(len) + m \in Nat  BY <2>1
  <2>4. QED  BY <2>1, <2>2, <2>3, CountUpFacts
<1>7. /\ \A i \in 0 .. len : LeavesAfter(i)' = LeavesAfter(i) /\ SpentAfter(i)' = SpentAfter(i)
      /\ LeavesAfter(len + 1)' = c.array /\ SpentAfter(len + 1)' = c.spent
      /\ \A i \in 0 .. len : Leaves(i)' = Leaves(i) /\ Spent(i)' = Spent(i)
      /\ Leaves(len + 1)' = Leaves(len) + n /\ Spent(len + 1)' = Spent(len) + m
  BY <1>1, <1>2, <1>5, <1>6, LogGrew
<1>8. ArraysInv'
  <2>1. ASSUME NEW i \in 0 .. (len + 1)
        PROVE  /\ Leaves(i)' \in Nat /\ LeavesAfter(i)' = CountUp(Leaves(i)')
               /\ Spent(i)' \in Nat /\ SpentAfter(i)' = CountUp(Spent(i)')
    <3>1. CASE i \in 0 .. len  BY <3>1, <1>3, <1>7
    <3>2. CASE i = len + 1  BY <3>2, <1>3, <1>4, <1>5, <1>6, <1>7
    <3>3. QED  BY <3>1, <3>2, <1>1
  <2>2. ASSUME NEW i \in 0 .. (len + 1), NEW j \in 0 .. (len + 1), i <= j
        PROVE  Leaves(i)' <= Leaves(j)' /\ Spent(i)' <= Spent(j)'
    <3>1. CASE j \in 0 .. len  BY <3>1, <2>2, <1>1, <1>3, <1>7
    <3>2. CASE j = len + 1 /\ i \in 0 .. len  BY <3>2, <1>1, <1>3, <1>4, <1>7
    <3>3. CASE i = len + 1 /\ j = len + 1  BY <3>3, <1>1, <1>3, <1>4, <1>7
    <3>4. QED  BY <3>1, <3>2, <3>3, <2>2, <1>1
  <2>3. ASSUME NEW i \in 1 .. (len + 1), NEW j \in 1 .. (len + 1), i <= j
        PROVE  bondCalls'[i].block <= bondCalls'[j].block
    <3>1. \A k \in 1 .. len : bondCalls[k].block \in 1 .. head /\ head \in Nat
      BY DEF ContractInv, CallInv
    <3>2. head \in Nat /\ \A k, l \in 1 .. len : k <= l => bondCalls[k].block <= bondCalls[l].block
      BY DEF ContractInv, ArraysInv
    <3>3. CASE j \in 1 .. len  BY <3>2, <3>3, <2>3, <1>1, <1>2
    <3>4. CASE j = len + 1 /\ i \in 1 .. len  BY <3>1, <3>4, <1>2
    <3>5. CASE j = len + 1 /\ i = len + 1  BY <3>2, <3>5, <1>2
    <3>6. QED  BY <3>3, <3>4, <3>5, <2>3, <1>1
  <2>4. QED  BY <2>1, <2>2, <2>3, <1>2 DEF ArraysInv
<1>9. ASSUME NEW i \in 1 .. (len + 1)
      PROVE  CallInv(i)'
  <2>1. CASE i \in 1 .. len
    <3>1. CallInv(i) /\ i - 1 \in 0 .. len /\ i \in 0 .. len  BY <2>1, <1>1 DEF ContractInv
    <3>2. QED  BY <3>1, <2>1, <1>2, <1>7 DEF CallInv
  <2>2. CASE i = len + 1
    <3>1. i - 1 = len /\ bondCalls'[i] = c  BY <2>2, <1>1, <1>2
    <3>2. Leaves(i - 1)' = Leaves(len) /\ Spent(i - 1)' = Spent(len)  BY <3>1, <1>4, <1>7
    <3>3. Leaves(i)' - Leaves(i - 1)' = n /\ Spent(i)' - Spent(i - 1)' = m
      BY <2>2, <3>2, <1>3, <1>4, <1>7
    <3>4. c.block \in 1 .. head'  BY DEF ContractInv
    <3>5. Spent(i)' \in Int /\ Spent(i - 1)' \in Int  BY <2>2, <3>2, <1>3, <1>4, <1>7
    <3>6. QED  BY <3>1, <3>2, <3>3, <3>4, <3>5 DEF CallInv
  <2>3. QED  BY <2>1, <2>2, <1>1
<1>10. Grows
  <2>1. head' \in Nat /\ head <= head'  BY DEF ContractInv
  <2>2. QED  BY <2>1, <1>1, <1>2 DEF Grows
<1>11. head' \in 1 .. MaxBlock  BY DEF ContractInv
<1>12. QED  BY <1>2, <1>8, <1>9, <1>10, <1>11 DEF ContractInv

LEMMA CallAppended ==
  ASSUME ContractInv, NEW fn \in EntryPoints, NEW args, Succeeds(fn, args), NEW n \in Nat, NEW m \in Nat,
         fn \in {"MINT", "MINT_BATCH"} => m = 0,
         fn = "ATOMIC_SWAP" =>
           /\ Len(args.legs[1]) = 4 /\ Len(args.legs[2]) = 4
           /\ <<args.legs[1][3], args.legs[2][3]>> = OnFrom(Leaves(Len(bondCalls)), n)
           /\ <<args.legs[1][2], args.legs[2][2]>> = OnFrom(Spent(Len(bondCalls)), m),
         fn # "ATOMIC_SWAP" =>
           /\ args.commitments = OnFrom(Leaves(Len(bondCalls)), n)
           /\ args.nullifiers = OnFrom(Spent(Len(bondCalls)), m)
  PROVE  ContractInv' /\ Grows
<1> DEFINE len == Len(bondCalls)
           plain == [commitments |-> args.commitments, nullifiers |-> args.nullifiers,
                     root |-> args.root, legs |-> args.legs, fn |-> fn]
           call == [commitments |-> args.commitments, nullifiers |-> args.nullifiers, root |-> args.root,
                    legs |-> args.legs, fn |-> fn, block |-> head,
                    array |-> LeavesAfter(len) \o LeavesOf(plain), spent |-> SpentAfter(len) \o SpentBy(plain)]
<1>1. bondCalls' = Append(bondCalls, call) /\ head' = head  BY DEF Succeeds
<1>2. LeavesOf(plain) = OnFrom(Leaves(len), n) /\ SpentBy(plain) = OnFrom(Spent(len), m)
  BY DEF LeavesOf, SpentBy
<1>3. LeavesOf(call) = LeavesOf(plain) /\ SpentBy(call) = SpentBy(plain)
  BY DEF LeavesOf, SpentBy
<1>4. /\ call.fn = fn /\ call.block = head /\ call.legs = args.legs
      /\ call.array = LeavesAfter(len) \o LeavesOf(plain) /\ call.spent = SpentAfter(len) \o SpentBy(plain)
  OBVIOUS
<1> HIDE DEF call, plain
<1>5. call.fn = "ATOMIC_SWAP" => Len(call.legs[1]) = 4 /\ Len(call.legs[2]) = 4  BY <1>4
<1>6. QED  BY <1>1, <1>2, <1>3, <1>4, <1>5, LogExtended

LEMMA ContractStep ==
  ASSUME ContractInv, BondNext
  PROVE  ContractInv' /\ Grows
<1> DEFINE len == Len(bondCalls)
<1>1. Leaves(len) \in Nat /\ Spent(len) \in Nat
  <2>1. len \in Nat  BY IsSeqFacts DEF ContractInv
  <2>2. QED  BY <2>1 DEF ContractInv, ArraysInv
<1>2. /\ FreshLeaf(1) = Leaves(len) + 1 /\ FreshLeaf(2) = Leaves(len) + 2
      /\ FreshNullifier(1) = Spent(len) + 1 /\ FreshNullifier(2) = Spent(len) + 2
      /\ \A k \in Nat : FreshLeaf(k) = Leaves(len) + k
  BY DEF FreshLeaf, FreshNullifier, Leaves, Spent
<1>3. /\ <<>> = OnFrom(Spent(len), 0)
      /\ <<FreshLeaf(1)>> = OnFrom(Leaves(len), 1)
      /\ <<FreshLeaf(1), FreshLeaf(2)>> = OnFrom(Leaves(len), 2)
      /\ <<FreshNullifier(1), FreshNullifier(2)>> = OnFrom(Spent(len), 2)
  BY <1>1, <1>2 DEF OnFrom
<1>4. CASE Mint
  <2> DEFINE args == [NoArgs EXCEPT !.commitments = <<FreshLeaf(1)>>]
  <2>1. Succeeds("MINT", args)  BY <1>4 DEF Mint
  <2>2. args.commitments = <<FreshLeaf(1)>> /\ args.nullifiers = <<>>  BY DEF NoArgs
  <2> HIDE DEF args
  <2>3. QED  BY <2>1, <2>2, <1>3, CallAppended DEF EntryPoints
<1>5. CASE MintBatch
  <2>1. PICK n \in BatchSizes :
          Succeeds("MINT_BATCH", [NoArgs EXCEPT !.commitments = [k \in 1 .. n |-> FreshLeaf(k)]])
    BY <1>5 DEF MintBatch
  <2> DEFINE args == [NoArgs EXCEPT !.commitments = [k \in 1 .. n |-> FreshLeaf(k)]]
  <2>2. args.commitments = [k \in 1 .. n |-> FreshLeaf(k)] /\ args.nullifiers = <<>>  BY DEF NoArgs
  <2>3. n \in Nat  BY BondAssumption
  <2>4. [k \in 1 .. n |-> FreshLeaf(k)] = OnFrom(Leaves(len), n)  BY <1>2, <2>3 DEF OnFrom
  <2> HIDE DEF args
  <2>5. Succeeds("MINT_BATCH", args)  BY <2>1 DEF args
  <2>6. QED  BY <2>2, <2>3, <2>4, <2>5, <1>3, CallAppended DEF EntryPoints
<1>6. ASSUME NEW fn \in {"TRANSFER", "BURN"}, TwoInTwoOut(fn)
      PROVE  ContractInv' /\ Grows
  <2>1. PICK root \in CitableRoots :
          Succeeds(fn, [NoArgs EXCEPT !.commitments = <<FreshLeaf(1), FreshLeaf(2)>>,
                                      !.nullifiers = <<FreshNullifier(1), FreshNullifier(2)>>,
                                      !.root = root])
    BY <1>6 DEF TwoInTwoOut
  <2> DEFINE args == [NoArgs EXCEPT !.commitments = <<FreshLeaf(1), FreshLeaf(2)>>,
                                    !.nullifiers = <<FreshNullifier(1), FreshNullifier(2)>>,
                                    !.root = root]
  <2>2. /\ args.commitments = <<FreshLeaf(1), FreshLeaf(2)>>
        /\ args.nullifiers = <<FreshNullifier(1), FreshNullifier(2)>>
    BY DEF NoArgs
  <2>3. Succeeds(fn, args)  BY <2>1
  <2> HIDE DEF args
  <2>4. QED  BY <2>2, <2>3, <1>3, CallAppended DEF EntryPoints
<1>7. CASE AtomicSwap
  <2>1. PICK rootA \in CitableRoots, rootB \in CitableRoots :
          Succeeds("ATOMIC_SWAP",
             [NoArgs EXCEPT !.legs = <<<<rootA, FreshNullifier(1), FreshLeaf(1), "maturity">>,
                                       <<rootB, FreshNullifier(2), FreshLeaf(2), "maturity">>>>])
    BY <1>7 DEF AtomicSwap
  <2> DEFINE args == [NoArgs EXCEPT !.legs = <<<<rootA, FreshNullifier(1), FreshLeaf(1), "maturity">>,
                                              <<rootB, FreshNullifier(2), FreshLeaf(2), "maturity">>>>]
  <2>2. /\ args.legs[1] = <<rootA, FreshNullifier(1), FreshLeaf(1), "maturity">>
        /\ args.legs[2] = <<rootB, FreshNullifier(2), FreshLeaf(2), "maturity">>
    BY DEF NoArgs
  <2>3. Succeeds("ATOMIC_SWAP", args)  BY <2>1
  <2> HIDE DEF args
  <2>4. Len(args.legs[1]) = 4 /\ Len(args.legs[2]) = 4  BY <2>2
  <2>5. /\ args.legs[1][2] = FreshNullifier(1) /\ args.legs[1][3] = FreshLeaf(1)
        /\ args.legs[2][2] = FreshNullifier(2) /\ args.legs[2][3] = FreshLeaf(2)
    BY <2>2
  <2>6. QED  BY <2>3, <2>4, <2>5, <1>3, CallAppended DEF EntryPoints
<1>8. CASE NextBlock
  <2>1. /\ head' = head + 1 /\ head' \in 1 .. MaxBlock /\ head \in Nat /\ bondCalls' = bondCalls
    BY <1>8, BondAssumption DEF NextBlock, ContractInv
  <2>2. ArraysInv'  BY <2>1 DEF ContractInv, ArraysInv, Leaves, Spent, LeavesAfter, SpentAfter
  <2>3. ASSUME NEW i \in 1 .. Len(bondCalls)  PROVE CallInv(i)'
    <3>1. CallInv(i)  BY DEF ContractInv
    <3>2. bondCalls[i].block \in 1 .. head'  BY <2>1, <3>1 DEF CallInv
    <3>3. /\ Leaves(i)' = Leaves(i) /\ Leaves(i - 1)' = Leaves(i - 1)
          /\ Spent(i)' = Spent(i) /\ Spent(i - 1)' = Spent(i - 1)
      BY <2>1 DEF Leaves, Spent, LeavesAfter, SpentAfter
    <3>4. QED  BY <2>1, <3>1, <3>2, <3>3 DEF CallInv
  <2>4. len \in Nat  BY IsSeqFacts DEF ContractInv
  <2>5. QED  BY <2>1, <2>2, <2>3, <2>4 DEF ContractInv, Grows
<1>9. QED  BY <1>4, <1>5, <1>6, <1>7, <1>8 DEF BondNext, Transfer, Burn

-----------------------------------------------------------------------------
(* The array as of a block: what is anchored later never changes it. *)

LEMMA FirstNumbers ==
  ASSUME NEW n \in Nat
  PROVE  IsFiniteSet(1 .. n) /\ Cardinality(1 .. n) = n
BY FS_Interval

LEMMA DownwardClosed ==
  ASSUME NEW n \in Nat, NEW C \in SUBSET (1 .. n), \A i \in C : 1 .. i \subseteq C
  PROVE  C = 1 .. Cardinality(C) /\ Cardinality(C) \in 0 .. n
<1>1. IsFiniteSet(1 .. n) /\ Cardinality(1 .. n) = n  BY FirstNumbers
<1>2. IsFiniteSet(C) /\ Cardinality(C) <= n  BY <1>1, FS_Subset
<1>3. Cardinality(C) \in Nat  BY <1>2, FS_CardinalityType
<1>4. ASSUME NEW i \in C  PROVE i \in 1 .. Cardinality(C)
  <2>1. i \in 1 .. n /\ 1 .. i \in SUBSET C  OBVIOUS
  <2>2. Cardinality(1 .. i) = i  BY <2>1, FS_Interval
  <2>3. Cardinality(1 .. i) <= Cardinality(C)  BY <2>1, <1>2, FS_Subset
  <2>4. QED  BY <2>1, <2>2, <2>3, <1>3
<1>5. IsFiniteSet(1 .. Cardinality(C)) /\ Cardinality(1 .. Cardinality(C)) = Cardinality(C)
  BY <1>3, FS_Interval
<1>6. C \in SUBSET (1 .. Cardinality(C))  BY <1>4
<1>7. C = 1 .. Cardinality(C)  BY <1>5, <1>6, FS_Subset
<1>8. QED  BY <1>2, <1>3, <1>7

LEMMA CallsUpToFacts ==
  ASSUME ContractInv, NEW b
  PROVE  /\ CallsUpTo(b) \subseteq 1 .. Len(bondCalls)
         /\ Cardinality(CallsUpTo(b)) \in 0 .. Len(bondCalls)
<1>1. Len(bondCalls) \in Nat /\ DOMAIN bondCalls = 1 .. Len(bondCalls)  BY IsSeqFacts DEF ContractInv
<1>2. CallsUpTo(b) \in SUBSET (1 .. Len(bondCalls))  BY <1>1 DEF CallsUpTo
<1>3. IsFiniteSet(1 .. Len(bondCalls)) /\ Cardinality(1 .. Len(bondCalls)) = Len(bondCalls)
  BY <1>1, FirstNumbers
<1>4. IsFiniteSet(CallsUpTo(b)) /\ Cardinality(CallsUpTo(b)) <= Len(bondCalls)  BY <1>2, <1>3, FS_Subset
<1>5. Cardinality(CallsUpTo(b)) \in Nat  BY <1>4, FS_CardinalityType
<1>6. QED  BY <1>1, <1>2, <1>4, <1>5

LEMMA LeavesAtFacts ==
  ASSUME ContractInv, NEW b
  PROVE  Len(LeavesAt(b)) \in Nat /\ LeavesAt(b) = CountUp(Len(LeavesAt(b))) /\ LeavesAt(b) \in Seq(Nat)
<1>1. Cardinality(CallsUpTo(b)) \in 0 .. Len(bondCalls)  BY CallsUpToFacts
<1>2. Len(LeavesAt(b)) \in Nat /\ LeavesAt(b) = CountUp(Len(LeavesAt(b)))
  BY <1>1 DEF ContractInv, ArraysInv, LeavesAt, Leaves
<1>3. QED  BY <1>2, CountUpFacts

LEMMA LeavesAtMonotone ==
  ASSUME ContractInv, NEW b \in Nat, NEW c \in Nat, b <= c
  PROVE  Len(LeavesAt(b)) <= Len(LeavesAt(c))
<1>1. CallsUpTo(b) \in SUBSET CallsUpTo(c)
  <2>1. ASSUME NEW i \in DOMAIN bondCalls  PROVE bondCalls[i].block \in Nat
    <3>1. i \in 1 .. Len(bondCalls)  BY IsSeqFacts DEF ContractInv
    <3>2. QED  BY <3>1 DEF ContractInv, CallInv
  <2>2. QED  BY <2>1 DEF CallsUpTo
<1>2. /\ Cardinality(CallsUpTo(b)) \in 0 .. Len(bondCalls) /\ Cardinality(CallsUpTo(c)) \in 0 .. Len(bondCalls)
      /\ CallsUpTo(c) \in SUBSET (1 .. Len(bondCalls)) /\ Len(bondCalls) \in Nat
  BY CallsUpToFacts, IsSeqFacts DEF ContractInv
<1>3. IsFiniteSet(1 .. Len(bondCalls))  BY <1>2, FS_Interval
<1>4. IsFiniteSet(CallsUpTo(c))  BY <1>2, <1>3, FS_Subset
<1>5. Cardinality(CallsUpTo(b)) <= Cardinality(CallsUpTo(c))  BY <1>1, <1>4, FS_Subset
<1>6. QED  BY <1>2, <1>5 DEF ContractInv, ArraysInv, LeavesAt, Leaves

LEMMA PastIsFixed ==
  ASSUME ContractInv, ContractInv', Grows, NEW b \in Nat, b < head
  PROVE  CallsUpTo(b)' = CallsUpTo(b) /\ LeavesAt(b)' = LeavesAt(b)
<1>1. /\ Len(bondCalls) \in Nat /\ DOMAIN bondCalls = 1 .. Len(bondCalls)
      /\ Len(bondCalls') \in Nat /\ DOMAIN bondCalls' = 1 .. Len(bondCalls')
      /\ head \in Nat
  BY IsSeqFacts DEF ContractInv
<1>2. CallsUpTo(b)' = CallsUpTo(b)  BY <1>1 DEF CallsUpTo, Grows
<1>3. \A i \in 0 .. Len(bondCalls) : LeavesAfter(i)' = LeavesAfter(i)  BY <1>1 DEF LeavesAfter, Grows
<1>4. Cardinality(CallsUpTo(b)) \in 0 .. Len(bondCalls)  BY CallsUpToFacts
<1>5. QED  BY <1>2, <1>3, <1>4 DEF LeavesAt

-----------------------------------------------------------------------------
(* The tables: filled without holes, with the leaves and notes in order.   *)

Shape(s) ==
  /\ DOMAIN s = {"bond", "commitments", "nullifiers", "rootClaimeds", "lifecycleCalls"}
  /\ DOMAIN s.bond = {"leafCount", "nullifierCount", "callCount"}

WellFilled(s) ==
  /\ Shape(s)
  /\ s.bond.leafCount \in Nat /\ s.bond.nullifierCount \in Nat /\ s.bond.callCount \in Nat
  /\ DOMAIN s.commitments = 0 .. (s.bond.leafCount - 1)
  /\ \A k \in 0 .. (s.bond.leafCount - 1) : s.commitments[k].value = k + 1
  /\ DOMAIN s.nullifiers = 1 .. s.bond.nullifierCount
  /\ DOMAIN s.lifecycleCalls = 0 .. (s.bond.callCount - 1)
  /\ \A c \in 0 .. (s.bond.callCount - 1) :
       DOMAIN s.lifecycleCalls[c] = {"fn", "leafCountAfter", "block"}

\* t is s with n more leaves and m more spent notes, all of one block.
Adds(s, t, n, m, block) ==
  /\ WellFilled(t)
  /\ t.bond.leafCount = s.bond.leafCount + n
  /\ t.bond.nullifierCount = s.bond.nullifierCount + m
  /\ t.bond.callCount = s.bond.callCount /\ t.lifecycleCalls = s.lifecycleCalls
  /\ \A k \in 0 .. (s.bond.leafCount - 1) : t.commitments[k].block = s.commitments[k].block
  /\ \A k \in s.bond.leafCount .. (t.bond.leafCount - 1) : t.commitments[k].block = block

\* ... and with the call that brought them.
Called(s, t, n, m, block) ==
  /\ WellFilled(t)
  /\ t.bond.leafCount = s.bond.leafCount + n
  /\ t.bond.nullifierCount = s.bond.nullifierCount + m
  /\ t.bond.callCount = s.bond.callCount + 1
  /\ \A c \in 0 .. (s.bond.callCount - 1) : t.lifecycleCalls[c].block = s.lifecycleCalls[c].block
  /\ t.lifecycleCalls[s.bond.callCount].block = block
  /\ \A k \in 0 .. (s.bond.leafCount - 1) : t.commitments[k].block = s.commitments[k].block
  /\ \A k \in s.bond.leafCount .. (t.bond.leafCount - 1) : t.commitments[k].block = block

LEMMA AddsTransitive ==
  ASSUME NEW s, NEW t, NEW u, NEW block, NEW n \in Nat, NEW m \in Nat, NEW k \in Nat, NEW l \in Nat,
         WellFilled(s), Adds(s, t, n, m, block), Adds(t, u, k, l, block)
  PROVE  Adds(s, u, n + k, m + l, block)
<1>1. WellFilled(u) /\ s.bond.leafCount \in Nat /\ s.bond.nullifierCount \in Nat
  BY DEF Adds, WellFilled
<1>2. /\ t.bond.leafCount = s.bond.leafCount + n /\ u.bond.leafCount = t.bond.leafCount + k
      /\ t.bond.nullifierCount = s.bond.nullifierCount + m
      /\ u.bond.nullifierCount = t.bond.nullifierCount + l
      /\ u.bond.callCount = s.bond.callCount /\ u.lifecycleCalls = s.lifecycleCalls
  BY DEF Adds
<1>3. /\ \A j \in 0 .. (s.bond.leafCount - 1) : t.commitments[j].block = s.commitments[j].block
      /\ \A j \in s.bond.leafCount .. (t.bond.leafCount - 1) : t.commitments[j].block = block
      /\ \A j \in 0 .. (t.bond.leafCount - 1) : u.commitments[j].block = t.commitments[j].block
      /\ \A j \in t.bond.leafCount .. (u.bond.leafCount - 1) : u.commitments[j].block = block
  BY DEF Adds
<1>4. \A j \in 0 .. (s.bond.leafCount - 1) : u.commitments[j].block = s.commitments[j].block
  BY <1>1, <1>2, <1>3
<1>5. ASSUME NEW j \in s.bond.leafCount .. (u.bond.leafCount - 1)  PROVE u.commitments[j].block = block
  <2>1. CASE j < t.bond.leafCount
    <3>1. j \in 0 .. (t.bond.leafCount - 1) /\ j \in s.bond.leafCount .. (t.bond.leafCount - 1)
      BY <2>1, <1>1, <1>2
    <3>2. QED  BY <3>1, <1>3
  <2>2. CASE ~(j < t.bond.leafCount)
    <3>1. j \in t.bond.leafCount .. (u.bond.leafCount - 1)  BY <2>2, <1>1, <1>2
    <3>2. QED  BY <3>1, <1>3
  <2>3. QED  BY <2>1, <2>2
<1>6. QED  BY <1>1, <1>2, <1>4, <1>5 DEF Adds

LEMMA AppendAdds ==
  ASSUME NEW s, WellFilled(s), NEW id, NEW block, NEW n \in Nat, NEW values,
         values = OnFrom(s.bond.leafCount, n)
  PROVE  Adds(s, AppendCommitments(s, id, values, block), n, 0, block)
<1> DEFINE from == s.bond.leafCount
           rows == [k \in from .. from + Len(values) - 1 |->
                      [value |-> values[k - from + 1], call |-> id, block |-> block]]
           t == AppendCommitments(s, id, values, block)
<1>1. from \in Nat /\ Len(values) = n /\ \A k \in 1 .. n : values[k] = from + k
  BY OnFromFacts DEF WellFilled, OnFrom
<1>2. t = [s EXCEPT !.commitments = SaveAll(@, rows), !.bond.leafCount = from + Len(values)]
  BY DEF AppendCommitments
<1>3. /\ Shape(t) /\ t.bond.leafCount = from + n /\ t.bond.nullifierCount = s.bond.nullifierCount
      /\ t.bond.callCount = s.bond.callCount
      /\ t.commitments = SaveAll(s.commitments, rows) /\ t.nullifiers = s.nullifiers
      /\ t.lifecycleCalls = s.lifecycleCalls
  BY <1>1, <1>2 DEF WellFilled, Shape
<1> HIDE DEF t
<1>4. DOMAIN s.commitments = 0 .. (from - 1) /\ DOMAIN rows = from .. (from + n - 1)
  BY <1>1 DEF WellFilled
<1>5. \A k \in from .. (from + n - 1) : rows[k].value = k + 1 /\ rows[k].block = block
  <2>1. ASSUME NEW k \in from .. (from + n - 1)  PROVE rows[k].value = k + 1 /\ rows[k].block = block
    <3>1. k - from + 1 \in 1 .. n /\ k \in from .. (from + Len(values) - 1)  BY <1>1
    <3>2. rows[k] = [value |-> values[k - from + 1], call |-> id, block |-> block]  BY <3>1
    <3>3. values[k - from + 1] = from + (k - from + 1)  BY <1>1, <3>1
    <3>4. QED  BY <3>2, <3>3, <1>1
  <2>2. QED  BY <2>1
<1> HIDE DEF rows
<1>6. /\ DOMAIN t.commitments = 0 .. (from + n - 1)
      /\ \A k \in 0 .. (from - 1) : t.commitments[k] = s.commitments[k]
      /\ \A k \in from .. (from + n - 1) : t.commitments[k] = rows[k]
  BY <1>1, <1>3, <1>4 DEF SaveAll
<1>7. WellFilled(t)
  <2>1. ASSUME NEW k \in 0 .. (from + n - 1)  PROVE t.commitments[k].value = k + 1
    <3>1. CASE k \in 0 .. (from - 1)  BY <3>1, <1>6 DEF WellFilled
    <3>2. CASE k \in from .. (from + n - 1)  BY <3>2, <1>5, <1>6
    <3>3. QED  BY <3>1, <3>2, <1>1
  <2>2. /\ s.bond.nullifierCount \in Nat /\ s.bond.callCount \in Nat
        /\ DOMAIN s.nullifiers = 1 .. s.bond.nullifierCount
        /\ DOMAIN s.lifecycleCalls = 0 .. (s.bond.callCount - 1)
        /\ \A c \in 0 .. (s.bond.callCount - 1) :
             DOMAIN s.lifecycleCalls[c] = {"fn", "leafCountAfter", "block"}
    BY DEF WellFilled
  <2> HIDE DEF from
  <2>3. t.bond.leafCount \in Nat /\ t.bond.leafCount - 1 = from + n - 1
    BY <1>1, <1>3
  <2>4. /\ DOMAIN t.commitments = 0 .. (t.bond.leafCount - 1)
        /\ \A k \in 0 .. (t.bond.leafCount - 1) : t.commitments[k].value = k + 1
    BY <2>1, <2>3, <1>6
  <2>5. /\ t.bond.nullifierCount \in Nat /\ t.bond.callCount \in Nat
        /\ DOMAIN t.nullifiers = 1 .. t.bond.nullifierCount
        /\ DOMAIN t.lifecycleCalls = 0 .. (t.bond.callCount - 1)
        /\ \A c \in 0 .. (t.bond.callCount - 1) :
             DOMAIN t.lifecycleCalls[c] = {"fn", "leafCountAfter", "block"}
    BY <2>2, <1>3
  <2>6. QED  BY <2>3, <2>4, <2>5, <1>3 DEF WellFilled
<1>8. s.bond.nullifierCount + 0 = s.bond.nullifierCount  BY DEF WellFilled
<1>9. /\ \A k \in 0 .. (from - 1) : t.commitments[k].block = s.commitments[k].block
      /\ \A k \in from .. (t.bond.leafCount - 1) : t.commitments[k].block = block
  <2>1. t.bond.leafCount - 1 = from + n - 1  BY <1>1, <1>3
  <2>2. QED  BY <2>1, <1>5, <1>6
<1>10. Adds(s, t, n, 0, block)  BY <1>3, <1>7, <1>8, <1>9 DEF Adds
<1>11. QED  BY <1>10 DEF t

LEMMA MarkAdds ==
  ASSUME NEW s, WellFilled(s), NEW id, NEW block, NEW m \in Nat, NEW values,
         values = OnFrom(s.bond.nullifierCount, m)
  PROVE  Adds(s, MarkNullifiers(s, id, values, block), 0, m, block)
<1> DEFINE count == s.bond.nullifierCount
           rows == [v \in ToSet(values) |-> [call |-> id, block |-> block]]
           t == MarkNullifiers(s, id, values, block)
<1>1. count \in Nat /\ Len(values) = m /\ ToSet(values) = (count + 1) .. (count + m)
  <2>1. count \in Nat /\ DOMAIN values = 1 .. m /\ Len(values) = m /\ \A k \in 1 .. m : values[k] = count + k
    BY OnFromFacts DEF WellFilled, OnFrom
  <2>2. ToSet(values) \subseteq (count + 1) .. (count + m)  BY <2>1 DEF ToSet
  <2>3. ASSUME NEW v \in (count + 1) .. (count + m)  PROVE v \in ToSet(values)
    <3>1. v - count \in 1 .. m /\ count + (v - count) = v  BY <2>1
    <3>2. values[v - count] = v  BY <2>1, <3>1
    <3>3. QED  BY <2>1, <3>1, <3>2 DEF ToSet
  <2>4. QED  BY <2>1, <2>2, <2>3
<1>2. /\ Shape(t) /\ t.bond.leafCount = s.bond.leafCount /\ t.bond.nullifierCount = count + m
      /\ t.bond.callCount = s.bond.callCount
      /\ t.commitments = s.commitments /\ t.nullifiers = SaveAll(s.nullifiers, rows)
      /\ t.lifecycleCalls = s.lifecycleCalls
  BY <1>1 DEF WellFilled, Shape, MarkNullifiers
<1>3. DOMAIN t.nullifiers = 1 .. (count + m)
  <2>1. DOMAIN t.nullifiers = ((count + 1) .. (count + m)) \cup (1 .. count)
    BY <1>1, <1>2 DEF SaveAll, WellFilled
  <2>2. QED  BY <2>1, <1>1
<1> HIDE DEF t
<1>4. WellFilled(t)  BY <1>1, <1>2, <1>3 DEF WellFilled
<1>5. s.bond.leafCount \in Nat  BY DEF WellFilled
<1>6. QED  BY <1>2, <1>4, <1>5 DEF Adds, t

LEMMA ClaimAdds ==
  ASSUME NEW s, WellFilled(s), NEW id, NEW root, NEW suffix, NEW block
  PROVE  Adds(s, RecordClaimedRoot(s, id, root, suffix, block), 0, 0, block)
<1> DEFINE t == RecordClaimedRoot(s, id, root, suffix, block)
<1>1. /\ Shape(t) /\ t.bond = s.bond /\ t.commitments = s.commitments /\ t.nullifiers = s.nullifiers
      /\ t.lifecycleCalls = s.lifecycleCalls
  BY DEF WellFilled, Shape, RecordClaimedRoot
<1> HIDE DEF t
<1>2. WellFilled(t)  BY <1>1 DEF WellFilled
<1>3. QED  BY <1>1, <1>2 DEF Adds, WellFilled, t

LEMMA RecordFacts ==
  ASSUME NEW s, WellFilled(s), NEW fn, NEW block
  PROVE  LET t == RecordCall(s, fn, block) IN
         /\ WellFilled(t)
         /\ t.bond.leafCount = s.bond.leafCount /\ t.bond.nullifierCount = s.bond.nullifierCount
         /\ t.bond.callCount = s.bond.callCount + 1
         /\ t.commitments = s.commitments
         /\ \A c \in 0 .. (s.bond.callCount - 1) : t.lifecycleCalls[c] = s.lifecycleCalls[c]
         /\ t.lifecycleCalls[s.bond.callCount].block = block
<1> DEFINE t == RecordCall(s, fn, block)
           id == s.bond.callCount
           row == [fn |-> fn, leafCountAfter |-> s.bond.leafCount, block |-> block]
<1>1. /\ Shape(t) /\ t.bond.leafCount = s.bond.leafCount
      /\ t.bond.nullifierCount = s.bond.nullifierCount /\ t.bond.callCount = id + 1
      /\ t.commitments = s.commitments /\ t.nullifiers = s.nullifiers
      /\ t.lifecycleCalls = Save(s.lifecycleCalls, id, row)
  BY DEF WellFilled, Shape, RecordCall
<1>2. row.block = block /\ DOMAIN row = {"fn", "leafCountAfter", "block"}  OBVIOUS
<1> HIDE DEF t, row
<1>3. id \in Nat /\ DOMAIN s.lifecycleCalls = 0 .. (id - 1)  BY DEF WellFilled
<1>4. /\ DOMAIN t.lifecycleCalls = 0 .. id
      /\ \A c \in 0 .. (id - 1) : t.lifecycleCalls[c] = s.lifecycleCalls[c]
      /\ t.lifecycleCalls[id] = row
  BY <1>1, <1>3 DEF Save, SaveAll
<1>5. WellFilled(t)
  <2>1. ASSUME NEW c \in 0 .. id  PROVE DOMAIN t.lifecycleCalls[c] = {"fn", "leafCountAfter", "block"}
    <3>1. CASE c \in 0 .. (id - 1)  BY <3>1, <1>4 DEF WellFilled
    <3>2. CASE c = id  BY <3>2, <1>2, <1>4
    <3>3. QED  BY <3>1, <3>2, <1>3
  <2>2. QED  BY <2>1, <1>1, <1>3, <1>4 DEF WellFilled
<1>6. QED  BY <1>1, <1>2, <1>4, <1>5 DEF t

LEMMA FinalizeFacts ==
  ASSUME NEW s, WellFilled(s), NEW id \in 0 .. (s.bond.callCount - 1)
  PROVE  LET t == FinalizeCall(s, id) IN
         /\ WellFilled(t) /\ t.bond = s.bond /\ t.commitments = s.commitments
         /\ \A c \in 0 .. (s.bond.callCount - 1) : t.lifecycleCalls[c].block = s.lifecycleCalls[c].block
<1> DEFINE t == FinalizeCall(s, id)
           row == [s.lifecycleCalls[id] EXCEPT !.leafCountAfter = s.bond.leafCount]
<1>1. /\ Shape(t) /\ t.bond = s.bond /\ t.commitments = s.commitments /\ t.nullifiers = s.nullifiers
      /\ t.lifecycleCalls = [s.lifecycleCalls EXCEPT ![id] = row]
  BY DEF WellFilled, Shape, FinalizeCall
<1>2. /\ DOMAIN s.lifecycleCalls[id] = {"fn", "leafCountAfter", "block"}
      /\ DOMAIN s.lifecycleCalls = 0 .. (s.bond.callCount - 1)
  BY DEF WellFilled
<1>3. DOMAIN row = {"fn", "leafCountAfter", "block"} /\ row.block = s.lifecycleCalls[id].block  BY <1>2
<1> HIDE DEF t, row
<1>4. /\ DOMAIN t.lifecycleCalls = 0 .. (s.bond.callCount - 1)
      /\ \A c \in 0 .. (s.bond.callCount - 1) :
           t.lifecycleCalls[c] = IF c = id THEN row ELSE s.lifecycleCalls[c]
  BY <1>1, <1>2
<1>5. WellFilled(t)
  <2>1. ASSUME NEW c \in 0 .. (s.bond.callCount - 1)
        PROVE  DOMAIN t.lifecycleCalls[c] = {"fn", "leafCountAfter", "block"}
    BY <1>3, <1>4 DEF WellFilled
  <2>2. QED  BY <2>1, <1>1, <1>4 DEF WellFilled
<1>6. QED  BY <1>1, <1>3, <1>4, <1>5 DEF t

\* A call handler records the call and then adds what it brings; the block walk
\* the other way about.
LEMMA CallHandled ==
  ASSUME NEW s, WellFilled(s), NEW fn, NEW block, NEW u, NEW n \in Nat, NEW m \in Nat,
         Adds(RecordCall(s, fn, block), u, n, m, block)
  PROVE  Called(s, FinalizeCall(u, s.bond.callCount), n, m, block)
<1> DEFINE r == RecordCall(s, fn, block)
           id == s.bond.callCount
           t == FinalizeCall(u, id)
<1>1. /\ r.bond.leafCount = s.bond.leafCount /\ r.bond.nullifierCount = s.bond.nullifierCount
      /\ r.bond.callCount = id + 1 /\ r.commitments = s.commitments
      /\ \A c \in 0 .. (id - 1) : r.lifecycleCalls[c] = s.lifecycleCalls[c]
      /\ r.lifecycleCalls[id].block = block
  BY RecordFacts
<1> HIDE DEF r
<1>2. Adds(r, u, n, m, block)  BY DEF r
<1>3. id \in Nat /\ WellFilled(u) /\ u.bond.callCount = id + 1 /\ u.lifecycleCalls = r.lifecycleCalls
  BY <1>1, <1>2 DEF Adds, WellFilled
<1>4. /\ WellFilled(t) /\ t.bond = u.bond /\ t.commitments = u.commitments
      /\ \A c \in 0 .. id : t.lifecycleCalls[c].block = u.lifecycleCalls[c].block
  <2>1. id \in 0 .. (u.bond.callCount - 1) /\ u.bond.callCount - 1 = id  BY <1>3
  <2>2. QED  BY <2>1, <1>3, FinalizeFacts
<1> HIDE DEF t
<1>5. \A c \in 0 .. (id - 1) : t.lifecycleCalls[c].block = s.lifecycleCalls[c].block  BY <1>1, <1>3, <1>4
<1>6. t.lifecycleCalls[id].block = block  BY <1>1, <1>3, <1>4
<1>7. QED  BY <1>1, <1>2, <1>3, <1>4, <1>5, <1>6 DEF Adds, Called, t

LEMMA WalkHandled ==
  ASSUME NEW s, WellFilled(s), NEW fn, NEW block, NEW u, NEW n \in Nat, NEW m \in Nat,
         Adds(s, u, n, m, block)
  PROVE  Called(s, FinalizeCall(RecordCall(u, fn, block), s.bond.callCount), n, m, block)
<1> DEFINE r == RecordCall(u, fn, block)
           id == s.bond.callCount
           t == FinalizeCall(r, id)
<1>1. id \in Nat /\ WellFilled(u) /\ u.bond.callCount = id /\ u.lifecycleCalls = s.lifecycleCalls
  BY DEF Adds, WellFilled
<1>2. /\ WellFilled(r)
      /\ r.bond.leafCount = u.bond.leafCount /\ r.bond.nullifierCount = u.bond.nullifierCount
      /\ r.bond.callCount = id + 1 /\ r.commitments = u.commitments
      /\ \A c \in 0 .. (id - 1) : r.lifecycleCalls[c] = u.lifecycleCalls[c]
      /\ r.lifecycleCalls[id].block = block
  BY <1>1, RecordFacts
<1> HIDE DEF r
<1>3. /\ WellFilled(t) /\ t.bond = r.bond /\ t.commitments = r.commitments
      /\ \A c \in 0 .. id : t.lifecycleCalls[c].block = r.lifecycleCalls[c].block
  <2>1. id \in 0 .. (r.bond.callCount - 1) /\ r.bond.callCount - 1 = id  BY <1>1, <1>2
  <2>2. QED  BY <2>1, <1>2, FinalizeFacts
<1> HIDE DEF t
<1>4. \A c \in 0 .. (id - 1) : t.lifecycleCalls[c].block = s.lifecycleCalls[c].block  BY <1>1, <1>2, <1>3
<1>5. t.lifecycleCalls[id].block = block  BY <1>1, <1>2, <1>3
<1>6. QED  BY <1>1, <1>2, <1>3, <1>4, <1>5 DEF Adds, Called, t, r

-----------------------------------------------------------------------------
(* graph-node. *)

\* Rows are of blocks not after the last, and each leaf's has a call's row.
RowsInv(s, last) ==
  \A k \in 0 .. (s.bond.leafCount - 1) :
    /\ s.commitments[k].block \in 0 .. last
    /\ \E c \in 0 .. (s.bond.callCount - 1) : s.lifecycleCalls[c].block = s.commitments[k].block

Kept(b) ==
  deployment = "blocks" =>
    \A c \in 1 .. b : Len(LeavesAt(c)) <= Len(LeavesAt(c - 1)) + MAX_NEW_LEAVES_PER_BLOCK

\* What is visible at a block indexed in full is the array as of that block, or
\* its beginning.
VisibleInv ==
  \A b \in 0 .. metaBlock :
    /\ \E n \in Nat : VisibleAt(store.commitments, b) = 0 .. (n - 1)
    /\ Kept(b) => VisibleAt(store.commitments, b) = 0 .. (Len(LeavesAt(b)) - 1)

GraphInv ==
  /\ deployment \in {"calls", "blocks"}
  /\ handled \in 0 .. Len(bondCalls)
  /\ metaBlock \in 0 .. (head - 1)
  /\ WellFilled(store)
  /\ deployment = "calls" =>
       store.bond.leafCount = Leaves(handled) /\ store.bond.nullifierCount = Spent(handled)
  /\ deployment = "blocks" => store.bond.leafCount <= Len(LeavesAt(metaBlock))
  /\ RowsInv(store, IF deployment = "calls" THEN metaBlock + 1 ELSE metaBlock)
  /\ VisibleInv

LEMMA RowsCalled ==
  ASSUME NEW s, NEW t, NEW n \in Nat, NEW m \in Nat, NEW block \in Nat, NEW last \in Nat, last <= block,
         WellFilled(s), RowsInv(s, last), Called(s, t, n, m, block)
  PROVE  RowsInv(t, block)
<1>1. /\ s.bond.leafCount \in Nat /\ s.bond.callCount \in Nat
      /\ t.bond.leafCount = s.bond.leafCount + n /\ t.bond.callCount = s.bond.callCount + 1
  BY DEF Called, WellFilled
<1>2. ASSUME NEW k \in 0 .. (t.bond.leafCount - 1)
      PROVE  /\ t.commitments[k].block \in 0 .. block
             /\ \E c \in 0 .. (t.bond.callCount - 1) : t.lifecycleCalls[c].block = t.commitments[k].block
  <2>1. CASE k < s.bond.leafCount
    <3>1. k \in 0 .. (s.bond.leafCount - 1)  BY <2>1, <1>1
    <3>2. PICK c \in 0 .. (s.bond.callCount - 1) : s.lifecycleCalls[c].block = s.commitments[k].block
      BY <3>1 DEF RowsInv
    <3>3. t.commitments[k].block = s.commitments[k].block /\ t.lifecycleCalls[c].block = s.lifecycleCalls[c].block
      BY <3>1, <3>2 DEF Called
    <3>4. s.commitments[k].block \in 0 .. block  BY <3>1 DEF RowsInv
    <3>5. c \in 0 .. (t.bond.callCount - 1)  BY <1>1
    <3>6. QED  BY <3>2, <3>3, <3>4, <3>5
  <2>2. CASE ~(k < s.bond.leafCount)
    <3>1. k \in s.bond.leafCount .. (t.bond.leafCount - 1)  BY <2>2, <1>1
    <3>2. t.commitments[k].block = block /\ t.lifecycleCalls[s.bond.callCount].block = block
      BY <3>1 DEF Called
    <3>3. s.bond.callCount \in 0 .. (t.bond.callCount - 1)  BY <1>1
    <3>4. QED  BY <3>2, <3>3
  <2>3. QED  BY <2>1, <2>2
<1>3. QED  BY <1>2 DEF RowsInv

LEMMA VisibleCalled ==
  ASSUME NEW s, NEW t, NEW n \in Nat, NEW m \in Nat, NEW block \in Nat, NEW b \in Nat, b < block,
         WellFilled(s), Called(s, t, n, m, block)
  PROVE  VisibleAt(t.commitments, b) = VisibleAt(s.commitments, b)
<1>1. /\ s.bond.leafCount \in Nat /\ t.bond.leafCount = s.bond.leafCount + n
      /\ DOMAIN s.commitments = 0 .. (s.bond.leafCount - 1)
      /\ DOMAIN t.commitments = 0 .. (t.bond.leafCount - 1)
  BY DEF Called, WellFilled
<1>2. /\ \A k \in 0 .. (s.bond.leafCount - 1) : t.commitments[k].block = s.commitments[k].block
      /\ \A k \in s.bond.leafCount .. (t.bond.leafCount - 1) : ~(t.commitments[k].block <= b)
  BY DEF Called
<1>3. ASSUME NEW k \in DOMAIN t.commitments, t.commitments[k].block <= b
      PROVE  k \in DOMAIN s.commitments /\ s.commitments[k].block <= b
  <2>1. ~(k \in s.bond.leafCount .. (t.bond.leafCount - 1))  BY <1>2, <1>3
  <2>2. k \in 0 .. (s.bond.leafCount - 1)  BY <2>1, <1>1
  <2>3. QED  BY <2>2, <1>1, <1>2, <1>3
<1>4. ASSUME NEW k \in DOMAIN s.commitments, s.commitments[k].block <= b
      PROVE  k \in DOMAIN t.commitments /\ t.commitments[k].block <= b
  <2>1. k \in 0 .. (s.bond.leafCount - 1) /\ k \in 0 .. (t.bond.leafCount - 1)  BY <1>1, <1>4
  <2>2. QED  BY <2>1, <1>1, <1>2, <1>4
<1>5. QED  BY <1>3, <1>4 DEF VisibleAt

-----------------------------------------------------------------------------
(* The handlers. *)

LEMMA PairFacts ==
  ASSUME NEW n \in Nat, NEW m \in Nat, NEW x, NEW y, <<x, y>> = OnFrom(n, m)
  PROVE  m = 2 /\ x = n + 1 /\ y = n + 2
<1>1. Len(<<x, y>>) = m  BY OnFromFacts
<1>2. m = 2  BY <1>1
<1>3. <<x, y>>[1] = n + 1 /\ <<x, y>>[2] = n + 2  BY <1>2 DEF OnFrom
<1>4. QED  BY <1>2, <1>3

LEMMA OneOnFrom ==
  ASSUME NEW n \in Nat  PROVE <<n + 1>> = OnFrom(n, 1)
BY DEF OnFrom

LEMMA SpendsAndAppendsAdds ==
  ASSUME NEW s, WellFilled(s), NEW id, NEW call, NEW n \in Nat, NEW m \in Nat,
         call.commitments = OnFrom(s.bond.leafCount, n),
         call.nullifiers = OnFrom(s.bond.nullifierCount, m)
  PROVE  Adds(s, SpendsAndAppends(s, id, call), n, m, call.block)
<1> DEFINE cited == RecordClaimedRoot(s, id, call.root, "root", call.block)
           spent == MarkNullifiers(cited, id, call.nullifiers, call.block)
           all == AppendCommitments(spent, id, call.commitments, call.block)
<1>1. SpendsAndAppends(s, id, call) = all  BY DEF SpendsAndAppends
<1>2. Adds(s, cited, 0, 0, call.block)  BY ClaimAdds
<1> HIDE DEF cited
<1>3. WellFilled(cited) /\ cited.bond.nullifierCount = s.bond.nullifierCount  BY <1>2 DEF Adds, WellFilled
<1>4. Adds(cited, spent, 0, m, call.block)  BY <1>3, MarkAdds
<1> HIDE DEF spent
<1>5. Adds(s, spent, 0 + 0, 0 + m, call.block)  BY <1>2, <1>4, AddsTransitive
<1>6. Adds(s, spent, 0, m, call.block)  BY <1>5
<1>7. WellFilled(spent) /\ spent.bond.leafCount = s.bond.leafCount  BY <1>6 DEF Adds, WellFilled
<1>8. Adds(spent, all, n, 0, call.block)  BY <1>7, AppendAdds
<1> HIDE DEF all
<1>9. Adds(s, all, 0 + n, m + 0, call.block)  BY <1>6, <1>8, AddsTransitive
<1>10. QED  BY <1>1, <1>9

LEMMA SwapsAdds ==
  ASSUME NEW s, WellFilled(s), NEW id, NEW call,
         Len(call.legs[1]) = 4, Len(call.legs[2]) = 4,
         call.legs[1][2] = s.bond.nullifierCount + 1, call.legs[2][2] = s.bond.nullifierCount + 2,
         call.legs[1][3] = s.bond.leafCount + 1, call.legs[2][3] = s.bond.leafCount + 2
  PROVE  Adds(s, Swaps(s, id, call), 2, 2, call.block)
<1> DEFINE claim(t, leg) ==
             RecordClaimedRoot(t, id, call.legs[leg][1], <<"rootA", "rootB">>[leg], call.block)
           spend(t, leg) == MarkNullifier(claim(t, leg), id, call.legs[leg][2], call.block)
           push(t, leg) == AppendCommitment(t, id, call.legs[leg][3], call.block)
           s1 == spend(s, 1)
           s2 == spend(s1, 2)
           s3 == push(s2, 1)
           s4 == push(s3, 2)
<1>1. Swaps(s, id, call) = s4  BY DEF Swaps
<1>2. ASSUME NEW t, WellFilled(t), NEW leg \in {1, 2}, call.legs[leg][2] = t.bond.nullifierCount + 1
      PROVE  Adds(t, spend(t, leg), 0, 1, call.block)
  <2> DEFINE c == claim(t, leg)
  <2>1. Adds(t, c, 0, 0, call.block)  BY <1>2, ClaimAdds
  <2>2. spend(t, leg) = MarkNullifiers(c, id, <<call.legs[leg][2]>>, call.block)  BY DEF MarkNullifier
  <2> HIDE DEF c, spend
  <2>3. WellFilled(c) /\ c.bond.nullifierCount = t.bond.nullifierCount /\ t.bond.nullifierCount \in Nat
    BY <1>2, <2>1 DEF Adds, WellFilled
  <2>4. <<call.legs[leg][2]>> = OnFrom(c.bond.nullifierCount, 1)  BY <1>2, <2>3, OneOnFrom
  <2>5. Adds(c, spend(t, leg), 0, 1, call.block)  BY <2>2, <2>3, <2>4, MarkAdds
  <2>6. Adds(t, spend(t, leg), 0 + 0, 0 + 1, call.block)  BY <1>2, <2>1, <2>5, AddsTransitive
  <2>7. QED  BY <2>6
<1>3. ASSUME NEW t, WellFilled(t), NEW leg \in {1, 2}, call.legs[leg][3] = t.bond.leafCount + 1
      PROVE  Adds(t, push(t, leg), 1, 0, call.block)
  <2>1. push(t, leg) = AppendCommitments(t, id, <<call.legs[leg][3]>>, call.block)  BY DEF AppendCommitment
  <2> HIDE DEF push
  <2>2. t.bond.leafCount \in Nat  BY <1>3 DEF WellFilled
  <2>3. <<call.legs[leg][3]>> = OnFrom(t.bond.leafCount, 1)  BY <1>3, <2>2, OneOnFrom
  <2>4. QED  BY <1>3, <2>1, <2>3, AppendAdds
<1> HIDE DEF spend, push
<1>4. s.bond.leafCount \in Nat /\ s.bond.nullifierCount \in Nat  BY DEF WellFilled
<1>5. Adds(s, s1, 0, 1, call.block)  BY <1>2
<1> HIDE DEF s1
<1>6. WellFilled(s1) /\ s1.bond.nullifierCount = s.bond.nullifierCount + 1  BY <1>5 DEF Adds
<1>7. call.legs[2][2] = s1.bond.nullifierCount + 1  BY <1>4, <1>6
<1>8. Adds(s1, s2, 0, 1, call.block)  BY <1>2, <1>6, <1>7
<1> HIDE DEF s2
<1>9. Adds(s, s2, 0 + 0, 1 + 1, call.block)  BY <1>5, <1>8, AddsTransitive
<1>10. Adds(s, s2, 0, 2, call.block)  BY <1>9
<1>11. WellFilled(s2) /\ s2.bond.leafCount = s.bond.leafCount  BY <1>4, <1>10 DEF Adds
<1>12. Adds(s2, s3, 1, 0, call.block)  BY <1>3, <1>11
<1> HIDE DEF s3
<1>13. Adds(s, s3, 0 + 1, 2 + 0, call.block)  BY <1>10, <1>12, AddsTransitive
<1>14. Adds(s, s3, 1, 2, call.block)  BY <1>13
<1>15. WellFilled(s3) /\ s3.bond.leafCount = s.bond.leafCount + 1  BY <1>14 DEF Adds
<1>16. call.legs[2][3] = s3.bond.leafCount + 1  BY <1>4, <1>15
<1>17. Adds(s3, s4, 1, 0, call.block)  BY <1>3, <1>15, <1>16
<1> HIDE DEF s4
<1>18. Adds(s, s4, 1 + 1, 2 + 0, call.block)  BY <1>14, <1>17, AddsTransitive
<1>19. QED  BY <1>1, <1>18

\* What a call handler's step does.
TookCall ==
  /\ deployment = "calls" /\ handled < Len(bondCalls) /\ metaBlock + 1 < head
  /\ handled' = handled + 1 /\ UNCHANGED <<deployment, metaBlock>>
  /\ Called(store, store', Leaves(handled + 1) - Leaves(handled), Spent(handled + 1) - Spent(handled),
            metaBlock + 1)

CallHandlers == HandleMint \/ HandleMintBatch \/ HandleTransfer \/ HandleBurn \/ HandleAtomicSwap

LEMMA HandlersTakeCalls ==
  ASSUME ContractInv, GraphInv, CallHandlers
  PROVE  TookCall
<1> DEFINE call == bondCalls[handled + 1]
           id == store.bond.callCount
           n == Leaves(handled + 1) - Leaves(handled)
           m == Spent(handled + 1) - Spent(handled)
           r(fn) == RecordCall(store, fn, call.block)
<1>1. /\ deployment = "calls" /\ handled < Len(bondCalls) /\ metaBlock + 1 < head
      /\ handled' = handled + 1 /\ UNCHANGED <<deployment, metaBlock>>
      /\ call.block = metaBlock + 1
  BY DEF CallHandlers, HandleMint, HandleMintBatch, HandleTransfer, HandleBurn, HandleAtomicSwap, Handles
<1>2. \/ call.fn \in {"MINT", "MINT_BATCH"}
         /\ store' = FinalizeCall(AppendsOnly(r(call.fn), id, call), id)
      \/ call.fn \in {"TRANSFER", "BURN"}
         /\ store' = FinalizeCall(SpendsAndAppends(r(call.fn), id, call), id)
      \/ call.fn = "ATOMIC_SWAP" /\ store' = FinalizeCall(Swaps(r(call.fn), id, call), id)
  BY DEF CallHandlers, HandleMint, HandleMintBatch, HandleTransfer, HandleBurn, HandleAtomicSwap, Handles
<1>3. WellFilled(store) /\ handled \in Nat /\ handled + 1 \in 1 .. Len(bondCalls) /\ handled + 1 - 1 = handled
  BY <1>1, IsSeqFacts DEF GraphInv, ContractInv
<1>4. CallInv(handled + 1)  BY <1>3 DEF ContractInv
<1>5. /\ Leaves(handled) \in Nat /\ Leaves(handled + 1) \in Nat /\ Leaves(handled) <= Leaves(handled + 1)
      /\ Spent(handled) \in Nat /\ Spent(handled + 1) \in Nat /\ Spent(handled) <= Spent(handled + 1)
  <2>1. handled \in 0 .. Len(bondCalls) /\ handled + 1 \in 0 .. Len(bondCalls) /\ handled <= handled + 1
    BY <1>3 DEF GraphInv
  <2>2. QED  BY <2>1 DEF ContractInv, ArraysInv
<1>6. n \in Nat /\ m \in Nat  BY <1>5
<1>7. /\ LeavesOf(call) = OnFrom(Leaves(handled), n) /\ SpentBy(call) = OnFrom(Spent(handled), m)
      /\ call.fn \in {"MINT", "MINT_BATCH"} => m = 0
      /\ call.fn = "ATOMIC_SWAP" => Len(call.legs[1]) = 4 /\ Len(call.legs[2]) = 4
  BY <1>3, <1>4, <1>5 DEF CallInv
<1>8. /\ WellFilled(r(call.fn)) /\ r(call.fn).bond.leafCount = Leaves(handled)
      /\ r(call.fn).bond.nullifierCount = Spent(handled)
  BY <1>1, <1>3, RecordFacts DEF GraphInv
<1> DEFINE s == r(call.fn)
<1>9. s = RecordCall(store, call.fn, call.block)  OBVIOUS
<1> HIDE DEF n, m, s, r
<1>10. PICK u : Adds(s, u, n, m, call.block) /\ store' = FinalizeCall(u, id)
  <2>1. CASE call.fn \in {"MINT", "MINT_BATCH"} /\ store' = FinalizeCall(AppendsOnly(s, id, call), id)
    <3>1. call.commitments = OnFrom(s.bond.leafCount, n)  BY <2>1, <1>7, <1>8 DEF LeavesOf, s
    <3>2. AppendsOnly(s, id, call) = AppendCommitments(s, id, call.commitments, call.block)
      BY DEF AppendsOnly
    <3>3. WellFilled(s)  BY <1>8 DEF s
    <3>4. Adds(s, AppendsOnly(s, id, call), n, 0, call.block)  BY <3>1, <3>2, <3>3, <1>6, AppendAdds
    <3>5. QED  BY <2>1, <3>4, <1>7
  <2>2. CASE call.fn \in {"TRANSFER", "BURN"} /\ store' = FinalizeCall(SpendsAndAppends(s, id, call), id)
    <3>1. call.commitments = OnFrom(s.bond.leafCount, n) /\ call.nullifiers = OnFrom(s.bond.nullifierCount, m)
      BY <2>2, <1>7, <1>8 DEF LeavesOf, SpentBy, s
    <3>2. WellFilled(s)  BY <1>8 DEF s
    <3>3. Adds(s, SpendsAndAppends(s, id, call), n, m, call.block)
      BY <3>1, <3>2, <1>6, SpendsAndAppendsAdds
    <3>4. QED  BY <2>2, <3>3
  <2>3. CASE call.fn = "ATOMIC_SWAP" /\ store' = FinalizeCall(Swaps(s, id, call), id)
    <3>1. /\ <<call.legs[1][3], call.legs[2][3]>> = OnFrom(Leaves(handled), n)
          /\ <<call.legs[1][2], call.legs[2][2]>> = OnFrom(Spent(handled), m)
      BY <2>3, <1>7 DEF LeavesOf, SpentBy
    <3>2. /\ n = 2 /\ call.legs[1][3] = Leaves(handled) + 1 /\ call.legs[2][3] = Leaves(handled) + 2
          /\ m = 2 /\ call.legs[1][2] = Spent(handled) + 1 /\ call.legs[2][2] = Spent(handled) + 2
      BY <3>1, <1>5, <1>6, PairFacts
    <3>3. /\ WellFilled(s) /\ s.bond.leafCount = Leaves(handled) /\ s.bond.nullifierCount = Spent(handled)
      BY <1>8 DEF s
    <3>4. Len(call.legs[1]) = 4 /\ Len(call.legs[2]) = 4  BY <2>3, <1>7
    <3>5. Adds(s, Swaps(s, id, call), 2, 2, call.block)
      BY <3>2, <3>3, <3>4, SwapsAdds
    <3>6. QED  BY <2>3, <3>2, <3>5
  <2>4. QED  BY <2>1, <2>2, <2>3, <1>2 DEF s
<1>11. Called(store, store', n, m, call.block)  BY <1>3, <1>6, <1>9, <1>10, CallHandled
<1>12. QED  BY <1>1, <1>11 DEF TookCall, n, m

LEMMA MinOfTwo ==
  ASSUME NEW a \in Int, NEW b \in Int
  PROVE  Min({a, b}) = IF a <= b THEN a ELSE b
BY DEF Min

LEMMA SubSeqCount ==
  ASSUME NEW from \in Nat, NEW upTo \in Nat, NEW n \in Nat, from <= upTo, upTo <= n
  PROVE  SubSeq(CountUp(n), from + 1, upTo) = OnFrom(from, upTo - from)
<1> DEFINE s == SubSeq(CountUp(n), from + 1, upTo)
<1>1. \A k \in (from + 1) .. upTo : CountUp(n)[k] = k /\ CountUp(n)[k] \in Nat  BY DEF CountUp
<1>2. /\ s \in Seq(Nat)
      /\ Len(s) = IF from + 1 <= upTo THEN upTo - (from + 1) + 1 ELSE 0
      /\ \A k \in 1 .. (upTo - (from + 1) + 1) : s[k] = CountUp(n)[from + 1 + k - 1]
  <2>1. from + 1 \in Int /\ upTo \in Int  OBVIOUS
  <2>2. QED  BY <1>1, <2>1, SubSeqProperties
<1> HIDE DEF s
<1>3. Len(s) = upTo - from  BY <1>2
<1>4. \A k \in 1 .. (upTo - from) : s[k] = from + k
  <2>1. ASSUME NEW k \in 1 .. (upTo - from)  PROVE s[k] = from + k
    <3>1. k \in 1 .. (upTo - (from + 1) + 1) /\ from + k \in (from + 1) .. upTo /\ from + 1 + k - 1 = from + k
      OBVIOUS
    <3>2. QED  BY <3>1, <1>1, <1>2
  <2>2. QED  BY <2>1
<1>5. upTo - from \in Nat  OBVIOUS
<1>6. OnFrom(from, upTo - from) \in Seq(Nat) /\ Len(OnFrom(from, upTo - from)) = upTo - from
  BY <1>5, OnFromFacts
<1>7. \A k \in 1 .. (upTo - from) : OnFrom(from, upTo - from)[k] = from + k  BY DEF OnFrom
<1>8. s = OnFrom(from, upTo - from)  BY <1>2, <1>3, <1>4, <1>6, <1>7, SeqEqual
<1>9. QED  BY <1>8 DEF s

\* What a block handler's step does: takes leaves up to the cap.
TookBlock ==
  /\ deployment = "blocks" /\ metaBlock + 1 < head
  /\ metaBlock' = metaBlock + 1 /\ UNCHANGED <<deployment, handled>>
  /\ \E n \in Nat :
       /\ store.bond.leafCount + n <= Len(LeavesAt(metaBlock + 1))
       /\ n = MAX_NEW_LEAVES_PER_BLOCK \/ store.bond.leafCount + n = Len(LeavesAt(metaBlock + 1))
       /\ (n = 0 /\ store' = store) \/ Called(store, store', n, 0, metaBlock + 1)

LEMMA BlockHandlerTakes ==
  ASSUME ContractInv, GraphInv, HandleBlock
  PROVE  TookBlock
<1> DEFINE block == metaBlock + 1
           from == store.bond.leafCount
           array == LeavesAt(block)
           upTo == Min({Len(array), from + MAX_NEW_LEAVES_PER_BLOCK})
           walked == AppendCommitments(store, store.bond.callCount, SubSeq(array, from + 1, upTo), block)
<1>1. /\ deployment = "blocks" /\ block < head /\ metaBlock' = block /\ UNCHANGED <<deployment, handled>>
      /\ store' = IF upTo = from THEN store
                  ELSE FinalizeCall(RecordCall(walked, "UNKNOWN", block), store.bond.callCount)
  BY DEF HandleBlock
<1>2. WellFilled(store) /\ from \in Nat /\ metaBlock \in Nat /\ block \in Nat /\ metaBlock <= block
  BY DEF GraphInv, WellFilled, ContractInv
<1>3. Len(array) \in Nat /\ array = CountUp(Len(array))  BY LeavesAtFacts
<1>4. from <= Len(array)
  <2>1. from <= Len(LeavesAt(metaBlock))  BY <1>1 DEF GraphInv
  <2>2. Len(LeavesAt(metaBlock)) <= Len(array)  BY <1>2, LeavesAtMonotone
  <2>3. Len(LeavesAt(metaBlock)) \in Nat  BY LeavesAtFacts
  <2>4. QED  BY <2>1, <2>2, <2>3, <1>2, <1>3
<1>5. /\ upTo \in Nat /\ from <= upTo /\ upTo <= Len(array)
      /\ upTo = from + MAX_NEW_LEAVES_PER_BLOCK \/ upTo = Len(array)
  <2>1. Len(array) \in Int /\ from + MAX_NEW_LEAVES_PER_BLOCK \in Int  BY <1>2, <1>3, WalkAssumption
  <2>2. upTo = IF Len(array) <= from + MAX_NEW_LEAVES_PER_BLOCK THEN Len(array)
               ELSE from + MAX_NEW_LEAVES_PER_BLOCK
    BY <2>1, MinOfTwo
  <2>3. QED  BY <2>2, <1>2, <1>3, <1>4, WalkAssumption
<1> HIDE DEF array, upTo
<1>6. SubSeq(array, from + 1, upTo) = OnFrom(from, upTo - from)  BY <1>2, <1>3, <1>5, SubSeqCount
<1>7. upTo - from \in Nat /\ from + (upTo - from) = upTo  BY <1>2, <1>5
<1>8. Adds(store, walked, upTo - from, 0, block)  BY <1>2, <1>6, <1>7, AppendAdds
<1> HIDE DEF walked
<1>9. Called(store, FinalizeCall(RecordCall(walked, "UNKNOWN", block), store.bond.callCount),
             upTo - from, 0, block)
  BY <1>2, <1>7, <1>8, WalkHandled
<1>10. \/ upTo - from = 0 /\ store' = store
       \/ Called(store, store', upTo - from, 0, block)
  BY <1>1, <1>2, <1>5, <1>9
<1>11. \/ upTo - from = MAX_NEW_LEAVES_PER_BLOCK
       \/ from + (upTo - from) = Len(array)
  BY <1>2, <1>5, <1>7, WalkAssumption
<1>12. from + (upTo - from) <= Len(array)  BY <1>5, <1>7
<1>13. QED  BY <1>1, <1>7, <1>10, <1>11, <1>12 DEF TookBlock, array

LEMMA GraphStarts ==
  ASSUME BondInit, GraphInit, ContractInv
  PROVE  GraphInv
<1>1. WellFilled(store) /\ store.bond.leafCount = 0 /\ store.bond.nullifierCount = 0 /\ store.commitments = <<>>
  BY DEF GraphInit, EmptyStore, WellFilled, Shape
<1>2. Len(bondCalls) = 0 /\ head = 1 /\ handled = 0 /\ metaBlock = 0 /\ deployment \in {"calls", "blocks"}
  BY DEF BondInit, GraphInit
<1>3. Leaves(0) = 0 /\ Spent(0) = 0  BY DEF Leaves, Spent, LeavesAfter, SpentAfter
<1>4. Len(LeavesAt(0)) = 0
  <2>1. Cardinality(CallsUpTo(0)) \in 0 .. 0  BY <1>2, CallsUpToFacts
  <2>2. QED  BY <2>1, <1>3 DEF LeavesAt, Leaves
<1>5. VisibleAt(store.commitments, 0) = {}  BY <1>1 DEF VisibleAt
<1>6. VisibleInv
  <2>1. 0 .. (Len(LeavesAt(0)) - 1) = {}  BY <1>4
  <2>2. 0 .. metaBlock = {0}  BY <1>2
  <2>3. 0 \in Nat /\ 0 .. (0 - 1) = {}  OBVIOUS
  <2>4. QED  BY <2>1, <2>2, <2>3, <1>5 DEF VisibleInv
<1>7. RowsInv(store, IF deployment = "calls" THEN metaBlock + 1 ELSE metaBlock)  BY <1>1 DEF RowsInv
<1>8. QED  BY <1>1, <1>2, <1>3, <1>4, <1>6, <1>7 DEF GraphInv

LEMMA StillBelow ==
  ASSUME NEW h \in Nat, NEW g \in Nat, h <= g, NEW b \in 0 .. (h - 1)
  PROVE  b \in 0 .. (g - 1)
OBVIOUS

\* The chain goes on: nothing indexed in full changes.
LEMMA GraphKept ==
  ASSUME ContractInv, ContractInv', Grows, GraphInv, UNCHANGED graphVars
  PROVE  GraphInv'
<1>1. UNCHANGED <<deployment, store, handled, metaBlock>>  BY DEF graphVars
<1>2. /\ handled \in 0 .. Len(bondCalls) /\ metaBlock \in 0 .. (head - 1) /\ head \in Nat
      /\ head' \in Nat /\ head <= head' /\ Len(bondCalls) <= Len(bondCalls')
      /\ Len(bondCalls) \in Nat /\ Len(bondCalls') \in Nat
  BY IsSeqFacts DEF GraphInv, ContractInv, Grows
<1>3. handled' \in 0 .. Len(bondCalls') /\ metaBlock' \in 0 .. (head' - 1)
  <2>1. handled \in 0 .. Len(bondCalls')  BY <1>2
  <2>2. metaBlock \in 0 .. (head' - 1)
    <3>1. head \in Nat /\ head' \in Nat /\ head <= head'  BY <1>2
    <3>2. metaBlock \in 0 .. (head - 1)  BY <1>2
    <3>3. QED  BY <3>1, <3>2, StillBelow
  <2>3. QED  BY <2>1, <2>2, <1>1
<1>4. \A b \in 0 .. metaBlock : LeavesAt(b)' = LeavesAt(b)
  <2>1. ASSUME NEW b \in 0 .. metaBlock  PROVE LeavesAt(b)' = LeavesAt(b)
    <3>1. b \in Nat /\ b < head  BY <1>2
    <3>2. QED  BY <3>1, PastIsFixed
  <2>2. QED  BY <2>1
<1>5. Leaves(handled)' = Leaves(handled) /\ Spent(handled)' = Spent(handled)
  <2>1. handled = 0 \/ handled \in 1 .. Len(bondCalls)  BY <1>2
  <2>2. QED  BY <1>1, <2>1 DEF Leaves, Spent, LeavesAfter, SpentAfter, Grows
<1>6. ASSUME NEW b \in 0 .. metaBlock, Kept(b)'
      PROVE  Kept(b)
  <2>1. ASSUME deployment = "blocks", NEW c \in 1 .. b
        PROVE  Len(LeavesAt(c)) <= Len(LeavesAt(c - 1)) + MAX_NEW_LEAVES_PER_BLOCK
    <3>1. c \in 0 .. metaBlock /\ c - 1 \in 0 .. metaBlock  BY <1>2
    <3>2. Len(LeavesAt(c)') <= Len(LeavesAt(c - 1)') + MAX_NEW_LEAVES_PER_BLOCK
      BY <2>1, <1>1, <1>6 DEF Kept
    <3>3. QED  BY <3>1, <3>2, <1>4
  <2>2. QED  BY <2>1 DEF Kept
<1>7. VisibleInv'  BY <1>1, <1>4, <1>6 DEF GraphInv, VisibleInv
<1>8. Len(LeavesAt(metaBlock))' = Len(LeavesAt(metaBlock))
  <2>1. metaBlock \in Nat /\ metaBlock < head  BY <1>2
  <2>2. LeavesAt(metaBlock)' = LeavesAt(metaBlock)  BY <2>1, <1>1, <1>2, <1>4
  <2>3. QED  BY <2>2
<1>9. QED  BY <1>1, <1>3, <1>5, <1>7, <1>8 DEF GraphInv

LEMMA GraphStep ==
  ASSUME ContractInv, GraphInv, GraphNext, UNCHANGED bondVars
  PROVE  GraphInv'
<1>1. UNCHANGED <<bondCalls, head>>  BY DEF bondVars
<1>2. /\ \A i : LeavesAfter(i)' = LeavesAfter(i) /\ SpentAfter(i)' = SpentAfter(i)
      /\ \A i : Leaves(i)' = Leaves(i) /\ Spent(i)' = Spent(i)
  BY <1>1 DEF Leaves, Spent, LeavesAfter, SpentAfter
<1>3. \A b : CallsUpTo(b)' = CallsUpTo(b)  BY <1>1 DEF CallsUpTo
<1>4. \A b : LeavesAt(b)' = LeavesAt(b)  BY <1>2, <1>3 DEF LeavesAt
<1>5. /\ WellFilled(store) /\ metaBlock \in Nat /\ head \in Nat /\ metaBlock + 1 \in Nat
      /\ handled \in Nat /\ Len(bondCalls) \in Nat
  BY IsSeqFacts DEF GraphInv, ContractInv
<1>6. CASE TookCall
  <2> DEFINE n == Leaves(handled + 1) - Leaves(handled)
             m == Spent(handled + 1) - Spent(handled)
             block == metaBlock + 1
  <2>1. /\ deployment = "calls" /\ deployment' = "calls" /\ handled' = handled + 1 /\ metaBlock' = metaBlock
        /\ handled < Len(bondCalls) /\ Called(store, store', n, m, block)
    BY <1>6 DEF TookCall
  <2>2. /\ Leaves(handled) \in Nat /\ Leaves(handled + 1) \in Nat /\ n \in Nat
        /\ Spent(handled) \in Nat /\ Spent(handled + 1) \in Nat /\ m \in Nat
    <3>1. handled \in 0 .. Len(bondCalls) /\ handled + 1 \in 0 .. Len(bondCalls) /\ handled <= handled + 1
      BY <2>1, <1>5
    <3>2. QED  BY <3>1 DEF ContractInv, ArraysInv
  <2>3. store'.bond.leafCount = Leaves(handled + 1) /\ store'.bond.nullifierCount = Spent(handled + 1)
    BY <2>1, <2>2 DEF GraphInv, Called
  <2>4. WellFilled(store')  BY <2>1 DEF Called
  <2> HIDE DEF n, m
  <2>5. RowsInv(store', block)  BY <2>1, <2>2, <1>5, RowsCalled DEF GraphInv
  <2>6. VisibleInv'
    <3>1. ASSUME NEW b \in 0 .. metaBlock
          PROVE  VisibleAt(store'.commitments, b) = 0 .. (Len(LeavesAt(b)) - 1)
      <4>1. b \in Nat /\ b < block  BY <1>5
      <4>2. VisibleAt(store'.commitments, b) = VisibleAt(store.commitments, b)
        BY <4>1, <2>1, <2>2, <1>5, VisibleCalled
      <4>3. Kept(b)  BY <2>1 DEF Kept
      <4>4. QED  BY <4>2, <4>3 DEF GraphInv, VisibleInv
    <3>2. \A b : Len(LeavesAt(b)) \in Nat  BY LeavesAtFacts
    <3>3. QED  BY <3>1, <3>2, <2>1, <1>4 DEF VisibleInv
  <2>7. handled' \in 0 .. Len(bondCalls)  BY <2>1, <1>5
  <2>8. QED  BY <2>1, <2>3, <2>4, <2>5, <2>6, <2>7, <1>1, <1>2 DEF GraphInv
<1>7. CASE FinishBlock
  <2>1. /\ deployment = "calls" /\ metaBlock + 1 < head /\ metaBlock' = metaBlock + 1
        /\ CallsUpTo(metaBlock + 1) = 1 .. handled /\ UNCHANGED <<deployment, store, handled>>
    BY <1>7 DEF FinishBlock
  <2>2. Cardinality(CallsUpTo(metaBlock + 1)) = handled  BY <2>1, <1>5, FirstNumbers
  <2>3. Len(LeavesAt(metaBlock + 1)) = store.bond.leafCount
    BY <2>1, <2>2 DEF LeavesAt, Leaves, GraphInv
  <2>4. VisibleAt(store.commitments, metaBlock + 1) = 0 .. (store.bond.leafCount - 1)
    BY <2>1, <1>5 DEF VisibleAt, GraphInv, RowsInv, WellFilled
  <2>5. VisibleInv'
    <3>1. ASSUME NEW b \in 0 .. (metaBlock + 1)
          PROVE  VisibleAt(store.commitments, b) = 0 .. (Len(LeavesAt(b)) - 1)
      <4>1. CASE b = metaBlock + 1  BY <4>1, <2>3, <2>4
      <4>2. CASE b \in 0 .. metaBlock
        <5>1. Kept(b)  BY <2>1 DEF Kept
        <5>2. QED  BY <4>2, <5>1 DEF GraphInv, VisibleInv
      <4>3. QED  BY <4>1, <4>2, <1>5
    <3>2. \A b : Len(LeavesAt(b)) \in Nat  BY LeavesAtFacts
    <3>3. QED  BY <3>1, <3>2, <2>1, <1>4 DEF VisibleInv
  <2>6. RowsInv(store, metaBlock + 2)
    <3>1. RowsInv(store, metaBlock + 1)  BY <2>1 DEF GraphInv
    <3>2. QED  BY <3>1, <1>5 DEF RowsInv
  <2>7. metaBlock' \in 0 .. (head - 1) /\ metaBlock' + 1 = metaBlock + 2  BY <2>1, <1>5
  <2>8. QED  BY <2>1, <2>5, <2>6, <2>7, <1>1, <1>2 DEF GraphInv
<1>8. CASE TookBlock
  <2> DEFINE block == metaBlock + 1
             array == LeavesAt(block)
  <2>1. /\ deployment = "blocks" /\ deployment' = "blocks" /\ handled' = handled /\ metaBlock' = block
        /\ block < head
    BY <1>8 DEF TookBlock
  <2>2. PICK n \in Nat :
          /\ store.bond.leafCount + n <= Len(array)
          /\ n = MAX_NEW_LEAVES_PER_BLOCK \/ store.bond.leafCount + n = Len(array)
          /\ (n = 0 /\ store' = store) \/ Called(store, store', n, 0, block)
    BY <1>8 DEF TookBlock
  <2>3. store.bond.leafCount \in Nat /\ Len(array) \in Nat /\ Len(LeavesAt(metaBlock)) \in Nat
    BY <1>5, LeavesAtFacts DEF WellFilled
  <2>4. WellFilled(store') /\ store'.bond.leafCount = store.bond.leafCount + n
    BY <2>2, <2>3, <1>5 DEF Called
  <2>5. RowsInv(store', block)
    <3>1. RowsInv(store, metaBlock)  BY <2>1 DEF GraphInv
    <3>2. CASE store' = store  BY <3>1, <3>2, <1>5 DEF RowsInv
    <3>3. CASE Called(store, store', n, 0, block)
      <4>1. metaBlock <= block  BY <1>5
      <4>2. QED  BY <4>1, <3>1, <3>3, <1>5, RowsCalled
    <3>4. QED  BY <3>2, <3>3, <2>2
  <2>6. \A b \in 0 .. metaBlock : VisibleAt(store'.commitments, b) = VisibleAt(store.commitments, b)
    <3>1. ASSUME NEW b \in 0 .. metaBlock, Called(store, store', n, 0, block)
          PROVE  VisibleAt(store'.commitments, b) = VisibleAt(store.commitments, b)
      <4>1. b \in Nat /\ b < block  BY <1>5
      <4>2. QED  BY <4>1, <3>1, <1>5, VisibleCalled
    <3>2. QED  BY <3>1, <2>2
  <2>7. /\ VisibleAt(store'.commitments, block) = 0 .. (store'.bond.leafCount - 1)
        /\ Kept(block) => VisibleAt(store'.commitments, block) = 0 .. (Len(array) - 1)
    <3>1. VisibleAt(store'.commitments, block) = 0 .. (store'.bond.leafCount - 1)
      <4>1. DOMAIN store'.commitments = 0 .. (store'.bond.leafCount - 1)  BY <2>4 DEF WellFilled
      <4>2. \A k \in 0 .. (store'.bond.leafCount - 1) : store'.commitments[k].block \in 0 .. block
        BY <2>5 DEF RowsInv
      <4>3. QED  BY <4>1, <4>2, <1>5 DEF VisibleAt
    <3>2. ASSUME Kept(block)  PROVE store'.bond.leafCount = Len(array)
      <4>1. Kept(metaBlock)  BY <3>2, <1>5 DEF Kept
      <4>2. VisibleAt(store.commitments, metaBlock) = 0 .. (Len(LeavesAt(metaBlock)) - 1)
        BY <4>1, <1>5 DEF GraphInv, VisibleInv
      <4>3. VisibleAt(store.commitments, metaBlock) = 0 .. (store.bond.leafCount - 1)
        BY <2>1, <1>5 DEF VisibleAt, GraphInv, RowsInv, WellFilled
      <4>4. Len(LeavesAt(metaBlock)) = store.bond.leafCount  BY <4>2, <4>3, <2>3
      <4>5. Len(array) <= Len(LeavesAt(metaBlock)) + MAX_NEW_LEAVES_PER_BLOCK
        <5>1. block \in 1 .. block /\ block - 1 = metaBlock  BY <1>5
        <5>2. QED  BY <5>1, <3>2, <2>1 DEF Kept
      <4>6. QED  BY <4>4, <4>5, <2>2, <2>3, <2>4, WalkAssumption
    <3>3. QED  BY <3>1, <3>2
  <2>8. VisibleInv'
    <3>1. ASSUME NEW b \in 0 .. block, Kept(b)
          PROVE  VisibleAt(store'.commitments, b) = 0 .. (Len(LeavesAt(b)) - 1)
      <4>1. CASE b = block  BY <3>1, <4>1, <2>7
      <4>2. CASE b \in 0 .. metaBlock  BY <3>1, <4>2, <2>6 DEF GraphInv, VisibleInv
      <4>3. QED  BY <4>1, <4>2, <1>5
    <3>2. \A b : Kept(b)' => Kept(b)  BY <1>4, <2>1 DEF Kept
    <3>3. ASSUME NEW b \in 0 .. block
          PROVE  \E k \in Nat : VisibleAt(store'.commitments, b) = 0 .. (k - 1)
      <4>1. CASE b = block  BY <4>1, <2>4, <2>7 DEF WellFilled
      <4>2. CASE b \in 0 .. metaBlock  BY <4>2, <2>6 DEF GraphInv, VisibleInv
      <4>3. QED  BY <4>1, <4>2, <1>5
    <3>4. QED  BY <3>1, <3>2, <3>3, <2>1, <1>4 DEF VisibleInv
  <2>9. metaBlock' \in 0 .. (head - 1)  BY <2>1, <1>5
  <2>10. store'.bond.leafCount <= Len(array)  BY <2>2, <2>4
  <2>11. QED  BY <2>1, <2>4, <2>5, <2>8, <2>9, <2>10, <1>1, <1>4 DEF GraphInv
<1>9. QED
  <2>1. CallHandlers \/ FinishBlock \/ HandleBlock  BY DEF GraphNext, CallHandlers
  <2>2. QED  BY <2>1, <1>6, <1>7, <1>8, HandlersTakeCalls, BlockHandlerTakes

-----------------------------------------------------------------------------
(* What is served, and what of it has been saved. *)

ServedRow == [leafIndex : Int, value : Nat]

AnswerOK(answer) == "commitments" \in DOMAIN answer /\ answer.commitments \in Seq(ServedRow)

LEMMA InOrderOfFirst ==
  ASSUME NEW n \in Nat
  PROVE  InOrder(0 .. (n - 1)) = [k \in 1 .. n |-> k - 1]
<1>1. Cardinality(0 .. (n - 1)) = n
  <2>1. 0 \in Int /\ n - 1 \in Int  OBVIOUS
  <2>2. Cardinality(0 .. (n - 1)) = IF 0 > n - 1 THEN 0 ELSE (n - 1) - 0 + 1  BY <2>1, FS_Interval
  <2>3. QED  BY <2>2
<1>2. ASSUME NEW id \in 0 .. (n - 1)
      PROVE  Cardinality({i \in 0 .. (n - 1) : i < id}) = id
  <2>1. {i \in 0 .. (n - 1) : i < id} = 0 .. (id - 1)  OBVIOUS
  <2>2. 0 \in Int /\ id - 1 \in Int  OBVIOUS
  <2>3. Cardinality(0 .. (id - 1)) = IF 0 > id - 1 THEN 0 ELSE (id - 1) - 0 + 1  BY <2>2, FS_Interval
  <2>4. Cardinality(0 .. (id - 1)) = id  BY <2>3
  <2>5. QED  BY <2>1, <2>4
<1>3. ASSUME NEW k \in 1 .. n
      PROVE  (CHOOSE id \in 0 .. (n - 1) : Cardinality({i \in 0 .. (n - 1) : i < id}) = k - 1) = k - 1
  <2>1. k - 1 \in 0 .. (n - 1)  OBVIOUS
  <2>2. \A id \in 0 .. (n - 1) : Cardinality({i \in 0 .. (n - 1) : i < id}) = k - 1 <=> id = k - 1
    BY <1>2
  <2>3. QED  BY <2>1, <2>2
<1>4. QED  BY <1>1, <1>3 DEF InOrder

LEMMA FirstPageFacts ==
  ASSUME NEW S, NEW list \in Seq(S)
  PROVE  /\ FirstPage(list) \in Seq(S)
         /\ Len(FirstPage(list)) < PAGE_LIMIT => FirstPage(list) = list
<1>1. Len(list) \in Nat /\ PAGE_LIMIT \in Nat  BY ReplayAssumption
<1> DEFINE n == Min({Len(list), PAGE_LIMIT})
<1>2. n = IF Len(list) <= PAGE_LIMIT THEN Len(list) ELSE PAGE_LIMIT  BY <1>1, MinOfTwo
<1>3. n \in 0 .. Len(list)  BY <1>1, <1>2
<1> HIDE DEF n
<1>4. /\ SubSeq(list, 1, n) \in Seq(S) /\ Len(SubSeq(list, 1, n)) = n
      /\ \A i \in 1 .. n : SubSeq(list, 1, n)[i] = list[i]
  <2>1. 1 \in Int /\ n \in Int /\ \A i \in 1 .. n : list[i] \in S  BY <1>1, <1>3, ElementOfSeq
  <2>2. /\ SubSeq(list, 1, n) \in Seq(S) /\ Len(SubSeq(list, 1, n)) = IF 1 <= n THEN n - 1 + 1 ELSE 0
        /\ \A i \in 1 .. n - 1 + 1 : SubSeq(list, 1, n)[i] = list[1 + i - 1]
    BY <2>1, SubSeqProperties
  <2>3. QED  BY <2>2, <1>1, <1>3
<1>5. FirstPage(list) = SubSeq(list, 1, n)  BY DEF FirstPage, n
<1>6. ASSUME n < PAGE_LIMIT  PROVE SubSeq(list, 1, n) = list
  <2>1. n = Len(list)  BY <1>1, <1>2, <1>6
  <2>2. QED  BY <2>1, <1>4, SeqEqual
<1>7. QED  BY <1>4, <1>5, <1>6

\* The rows the audit query finds, before they are cut to a page.
LeafRows(pin) ==
  LET leaves == InOrder(VisibleAt(store.commitments, pin))
  IN [k \in DOMAIN leaves |-> [leafIndex |-> leaves[k], value |-> store.commitments[leaves[k]].value]]

CallCounts(pin) ==
  LET lifecycle == InOrder(VisibleAt(store.lifecycleCalls, pin))
  IN [k \in DOMAIN lifecycle |-> store.lifecycleCalls[lifecycle[k]].leafCountAfter]

LEMMA AuditAnswerParts ==
  ASSUME NEW pin
  PROVE  /\ AuditAnswer(pin).commitments = FirstPage(LeafRows(pin))
         /\ AuditAnswer(pin).counts = FirstPage(CallCounts(pin))
BY DEF AuditAnswer, LeafRows, CallCounts

LEMMA LeafRowsFacts ==
  ASSUME GraphInv, NEW pin, NEW n \in Nat, VisibleAt(store.commitments, pin) = 0 .. (n - 1)
  PROVE  /\ LeafRows(pin) = [k \in 1 .. n |-> [leafIndex |-> k - 1, value |-> k]]
         /\ LeafRows(pin) \in Seq(ServedRow) /\ Len(LeafRows(pin)) = n
<1>1. 0 .. (n - 1) \subseteq 0 .. (store.bond.leafCount - 1)
  BY DEF VisibleAt, GraphInv, WellFilled
<1>2. \A k \in 1 .. n : store.commitments[k - 1].value = k
  <2>1. ASSUME NEW k \in 1 .. n  PROVE store.commitments[k - 1].value = k
    <3>1. k - 1 \in 0 .. (store.bond.leafCount - 1) /\ k - 1 + 1 = k  BY <1>1
    <3>2. QED  BY <3>1 DEF GraphInv, WellFilled
  <2>2. QED  BY <2>1
<1>3. InOrder(VisibleAt(store.commitments, pin)) = [k \in 1 .. n |-> k - 1]  BY InOrderOfFirst
<1>4. LeafRows(pin) = [k \in 1 .. n |-> [leafIndex |-> k - 1, value |-> k]]
  BY <1>2, <1>3 DEF LeafRows
<1>5. LeafRows(pin) \in [1 .. n -> ServedRow]  BY <1>4 DEF ServedRow
<1>6. QED  BY <1>4, <1>5, SeqDef

LEMMA HonestAnswerOK ==
  ASSUME GraphInv, NEW pin \in 0 .. metaBlock
  PROVE  AnswerOK(AuditAnswer(pin))
<1>1. PICK n \in Nat : VisibleAt(store.commitments, pin) = 0 .. (n - 1)  BY DEF GraphInv, VisibleInv
<1>2. LeafRows(pin) \in Seq(ServedRow)  BY <1>1, LeafRowsFacts
<1>3. FirstPage(LeafRows(pin)) \in Seq(ServedRow)  BY <1>2, FirstPageFacts
<1>4. "commitments" \in DOMAIN AuditAnswer(pin)  BY DEF AuditAnswer
<1>5. QED  BY <1>3, <1>4, AuditAnswerParts DEF AnswerOK

\* One row replaced, added or left out.
LEMMA RewriteOK ==
  ASSUME NEW S, NEW list \in Seq(S), NEW rows, \A k \in 1 .. (Len(list) + 1) : rows[k] \subseteq S,
         NEW log \in Rewrites(list, rows)
  PROVE  log \in Seq(S)
<1>1. Len(list) \in Nat /\ DOMAIN list = 1 .. Len(list)  OBVIOUS
<1>2. \/ \E k \in DOMAIN list : \E row \in rows[k] : log = [list EXCEPT ![k] = row]
      \/ \E row \in rows[Len(list) + 1] : log = Append(list, row)
      \/ \E k \in DOMAIN list : log = RemoveAt(list, k)
  <2> DEFINE at(k) == {[list EXCEPT ![k] = row] : row \in rows[k]}
             replaced == UNION {at(k) : k \in DOMAIN list}
             added == {Append(list, row) : row \in rows[Len(list) + 1]}
             removed == {RemoveAt(list, k) : k \in DOMAIN list}
  <2>1. log \in replaced \cup added \cup removed
    <3>1. Rewrites(list, rows) = added \cup removed \cup replaced  BY DEF Rewrites
    <3>2. QED  BY <3>1
  <2>2. ASSUME log \in replaced
        PROVE  \E k \in DOMAIN list : \E row \in rows[k] : log = [list EXCEPT ![k] = row]
    <3> HIDE DEF at
    <3>1. PICK k \in DOMAIN list : log \in at(k)  BY <2>2
    <3>2. PICK row \in rows[k] : log = [list EXCEPT ![k] = row]  BY <3>1 DEF at
    <3>3. QED  BY <3>2
  <2> HIDE DEF replaced
  <2>3. log \in added => \E row \in rows[Len(list) + 1] : log = Append(list, row)  OBVIOUS
  <2>4. log \in removed => \E k \in DOMAIN list : log = RemoveAt(list, k)  OBVIOUS
  <2> HIDE DEF added, removed
  <2>5. QED  BY <2>1, <2>2, <2>3, <2>4
<1>3. ASSUME NEW k \in DOMAIN list, NEW row \in rows[k], log = [list EXCEPT ![k] = row]
      PROVE  log \in Seq(S)
  <2>1. k \in 1 .. Len(list) /\ row \in S  BY <1>1
  <2>2. QED  BY <2>1, <1>3, ExceptSeq
<1>4. ASSUME NEW row \in rows[Len(list) + 1], log = Append(list, row)
      PROVE  log \in Seq(S)
  <2>1. Len(list) + 1 \in 1 .. (Len(list) + 1)  BY <1>1
  <2>2. row \in S  BY <2>1
  <2>3. QED  BY <2>2, <1>4, AppendProperties
<1>5. ASSUME NEW k \in DOMAIN list, log = RemoveAt(list, k)
      PROVE  log \in Seq(S)
  <2>1. log = SubSeq(list, 1, k - 1) \o SubSeq(list, k + 1, Len(list)) /\ k \in 1 .. Len(list)
    BY <1>1, <1>5 DEF RemoveAt
  <2>2. SubSeq(list, 1, k - 1) \in Seq(S)
    <3>1. 1 \in Int /\ k - 1 \in Int /\ \A i \in 1 .. (k - 1) : list[i] \in S
      BY <1>1, <2>1, ElementOfSeq
    <3>2. QED  BY <3>1, SubSeqProperties
  <2>3. SubSeq(list, k + 1, Len(list)) \in Seq(S)
    <3>1. k + 1 \in Int /\ Len(list) \in Int /\ \A i \in (k + 1) .. Len(list) : list[i] \in S
      BY <1>1, <2>1, ElementOfSeq
    <3>2. QED  BY <3>1, SubSeqProperties
  <2>4. QED  BY <2>1, <2>2, <2>3, ConcatProperties
<1>6. QED  BY <1>2, <1>3, <1>4, <1>5

LEMMA NotesAreNumbers ==
  ASSUME ContractInv
  PROVE  Notes \in SUBSET Nat
<1>1. Len(bondCalls) \in 0 .. Len(bondCalls)  BY IsSeqFacts DEF ContractInv
<1>2. Leaves(Len(bondCalls)) \in Nat  BY <1>1 DEF ContractInv, ArraysInv
<1>3. QED  BY <1>2 DEF Notes, AllLeaves, Leaves

LEMMA AlteredAnswerOK ==
  ASSUME ContractInv, GraphInv, NEW pin \in 0 .. metaBlock, NEW answer \in AlteredAnswers(AuditAnswer(pin))
  PROVE  AnswerOK(answer)
<1> DEFINE honest == AuditAnswer(pin)
           list == honest.commitments
           rows == [k \in 1 .. (Len(list) + 1) |-> {[leafIndex |-> k - 1, value |-> v] : v \in Notes}]
           madeUp == [k \in DOMAIN list |-> [leafIndex |-> k - 1, value |-> 0]]
<1>1. list \in Seq(ServedRow)  BY HonestAnswerOK DEF AnswerOK
<1>2. "commitments" \in DOMAIN honest  BY DEF AuditAnswer
<1>3. \/ answer = [honest EXCEPT !.commitments = madeUp, !.bond = "another"]
      \/ \E log \in Rewrites(list, rows) \cup {list} :
           \E counts : answer = [honest EXCEPT !.commitments = log, !.counts = counts]
  <2> HIDE DEF honest, rows, madeUp
  <2>1. answer \in AlteredAnswers(honest)  BY DEF honest
  <2> DEFINE logs == Rewrites(list, rows) \cup {list}
             under(log) == Prefixes(honest.counts) \cup {Append(c, Len(log)) : c \in Prefixes(honest.counts)}
             with(log) == {[honest EXCEPT !.commitments = log, !.counts = counts] : counts \in under(log)}
             another == [honest EXCEPT !.commitments = madeUp, !.bond = "another"]
  <2>2. answer \in {another} \cup UNION {with(log) : log \in logs}
    BY <2>1, Zenon DEF AlteredAnswers, rows, madeUp
  <2> HIDE DEF logs, with, another
  <2>3. answer = another \/ \E log \in logs : answer \in with(log)  BY <2>2
  <2>4. ASSUME NEW log, answer \in with(log)
        PROVE  \E counts : answer = [honest EXCEPT !.commitments = log, !.counts = counts]
    <3> HIDE DEF under
    <3>1. QED  BY <2>4 DEF with
  <2>5. QED  BY <2>3, <2>4 DEF logs, another
<1> HIDE DEF honest
<1>4. CASE answer = [honest EXCEPT !.commitments = madeUp, !.bond = "another"]
  <2>1. answer.commitments = madeUp /\ "commitments" \in DOMAIN answer  BY <1>2, <1>4
  <2>2. Len(list) \in Nat /\ DOMAIN list = 1 .. Len(list)  BY <1>1
  <2>3. madeUp \in [1 .. Len(list) -> ServedRow]  BY <2>2 DEF ServedRow
  <2>4. madeUp \in Seq(ServedRow)  BY <2>2, <2>3, SeqDef
  <2>5. QED  BY <2>1, <2>4 DEF AnswerOK
<1>5. ASSUME NEW log \in Rewrites(list, rows) \cup {list}, NEW counts,
             answer = [honest EXCEPT !.commitments = log, !.counts = counts]
      PROVE  AnswerOK(answer)
  <2>1. answer.commitments = log /\ "commitments" \in DOMAIN answer  BY <1>2, <1>5
  <2>2. \A k \in 1 .. (Len(list) + 1) : rows[k] \subseteq ServedRow
    BY <1>1, NotesAreNumbers DEF ServedRow
  <2> HIDE DEF list, rows
  <2>3. log \in Seq(ServedRow)  BY <1>1, <2>2, RewriteOK
  <2>4. QED  BY <2>1, <2>3 DEF AnswerOK
<1>6. QED  BY <1>3, <1>4, <1>5

-----------------------------------------------------------------------------
(* The two files, and the invariant. *)

\* What was saved was served at the time, and stays what the tables hold.
BundleInv ==
  bundle = <<>> \/
    \E b : /\ bundle = <<b>>
           /\ b.pin \in 0 .. metaBlock
           /\ AnswerOK(b.answer) /\ ParseOK(b.answer)
           /\ b.honest => b.answer = AuditAnswer(b.pin)

ReportInv ==
  report = <<>> \/
    /\ bundle # <<>>
    /\ \E r : /\ report = <<r>> /\ r.run.block \in Nat
              /\ r.pass <=> Passes(bundle[1].answer, r.disclosure, r.run)

ReplayInv == ContractInv /\ GraphInv /\ BundleInv /\ ReportInv

LEMMA ReplayStarts ==
  ASSUME Init
  PROVE  ReplayInv
BY ContractStarts, GraphStarts DEF Init, ReplayInv, BundleInv, ReportInv

LEMMA AnswerKept ==
  ASSUME store' = store, deployment' = deployment, NEW CONSTANT pin
  PROVE  AuditAnswer(pin)' = AuditAnswer(pin)
<1>1. AuditAnswer(pin)' = AuditAnswer(pin)
  BY DEF AuditAnswer, BondAt
<1>2. QED  BY <1>1

LEMMA ChainStep ==
  ASSUME ReplayInv, report = <<>>, BondNext, UNCHANGED <<graphVars, bundle, report>>
  PROVE  ReplayInv'
<1>1. ContractInv' /\ Grows  BY ContractStep DEF ReplayInv
<1>2. GraphInv'  BY <1>1, GraphKept DEF ReplayInv
<1>3. UNCHANGED <<store, deployment, metaBlock>>  BY DEF graphVars
<1>4. \A pin : AuditAnswer(pin)' = AuditAnswer(pin)
  BY <1>3, AnswerKept
<1>5. BundleInv'  BY <1>3, <1>4 DEF ReplayInv, BundleInv, AnswerOK, ParseOK
<1>6. ReportInv'  BY DEF ReportInv
<1>7. QED  BY <1>1, <1>2, <1>5, <1>6 DEF ReplayInv

LEMMA IndexStep ==
  ASSUME ReplayInv, bundle = <<>>, GraphNext, UNCHANGED <<bondVars, bundle, report>>
  PROVE  ReplayInv'
<1>1. ContractInv'
  BY DEF ReplayInv, ContractInv, ArraysInv, CallInv, bondVars, Leaves, Spent, LeavesAfter, SpentAfter
<1>2. GraphInv'  BY GraphStep DEF ReplayInv
<1>3. BundleInv' /\ ReportInv'  BY DEF ReplayInv, BundleInv, ReportInv
<1>4. QED  BY <1>1, <1>2, <1>3 DEF ReplayInv

LEMMA FilesStep ==
  ASSUME ReplayInv, UNCHANGED <<bondVars, graphVars>>
  PROVE  ContractInv' /\ GraphInv' /\ \A pin : AuditAnswer(pin)' = AuditAnswer(pin)
<1>1. UNCHANGED <<bondCalls, head, deployment, store, handled, metaBlock>>  BY DEF bondVars, graphVars
<1>2. ContractInv'
  BY <1>1 DEF ReplayInv, ContractInv, ArraysInv, CallInv, Leaves, Spent, LeavesAfter, SpentAfter
<1>3. Grows  BY <1>1, IsSeqFacts DEF Grows, ReplayInv, ContractInv
<1>4. GraphInv'  BY <1>2, <1>3, GraphKept DEF ReplayInv
<1>5. \A pin : AuditAnswer(pin)' = AuditAnswer(pin)
  BY <1>1, AnswerKept
<1>6. QED  BY <1>2, <1>4, <1>5

LEMMA FetchStep ==
  ASSUME ReplayInv, Fetch
  PROVE  ReplayInv'
<1>1. bundle = <<>> /\ UNCHANGED <<bondVars, graphVars, report>>  BY DEF Fetch
<1>2. ContractInv' /\ GraphInv' /\ \A pin : AuditAnswer(pin)' = AuditAnswer(pin)  BY <1>1, FilesStep
<1>3. PICK pin \in 0 .. metaBlock :
        \E answer \in {AuditAnswer(pin)}
                        \cup (IF "server" \in Tampering THEN AlteredAnswers(AuditAnswer(pin)) ELSE {}) :
          ParseOK(answer) /\ bundle' = <<[pin |-> pin, answer |-> answer, honest |-> answer = AuditAnswer(pin)]>>
  BY DEF Fetch
<1>4. PICK answer \in {AuditAnswer(pin)}
                        \cup (IF "server" \in Tampering THEN AlteredAnswers(AuditAnswer(pin)) ELSE {}) :
        ParseOK(answer) /\ bundle' = <<[pin |-> pin, answer |-> answer, honest |-> answer = AuditAnswer(pin)]>>
  BY <1>3
<1>5. AnswerOK(answer)
  <2>1. answer = AuditAnswer(pin) \/ answer \in AlteredAnswers(AuditAnswer(pin))  BY <1>4
  <2>2. QED  BY <2>1, HonestAnswerOK, AlteredAnswerOK DEF ReplayInv
<1>6. PICK b : bundle' = <<b>> /\ b.pin = pin /\ b.answer = answer /\ (b.honest => answer = AuditAnswer(pin))
  <2> DEFINE saved == [pin |-> pin, answer |-> answer, honest |-> answer = AuditAnswer(pin)]
  <2>1. bundle' = <<saved>>  BY <1>4
  <2>2. saved.pin = pin /\ saved.answer = answer  OBVIOUS
  <2>3. saved.honest => answer = AuditAnswer(pin)  OBVIOUS
  <2> HIDE DEF saved
  <2>4. QED  BY <2>1, <2>2, <2>3
<1>7. BundleInv'
  <2>1. metaBlock' = metaBlock  BY <1>1 DEF graphVars
  <2>2. b.honest => b.answer = AuditAnswer(b.pin)'  BY <1>2, <1>6
  <2>3. AnswerOK(b.answer)' /\ ParseOK(b.answer)'  BY <1>4, <1>5, <1>6 DEF AnswerOK, ParseOK
  <2>4. QED  BY <1>6, <2>1, <2>2, <2>3 DEF BundleInv
<1>8. ReportInv'  BY <1>1 DEF ReplayInv, ReportInv
<1>9. QED  BY <1>2, <1>7, <1>8 DEF ReplayInv

LEMMA PassesKept ==
  ASSUME UNCHANGED bondVars, NEW CONSTANT answer, NEW CONSTANT disclosure, NEW CONSTANT run
  PROVE  Passes(answer, disclosure, run)' <=> Passes(answer, disclosure, run)
<1>1. bondCalls' = bondCalls  BY DEF bondVars
<1>2. \A i : LeavesAfter(i)' = LeavesAfter(i)  BY <1>1 DEF LeavesAfter
<1>3. CallsUpTo(run.block)' = CallsUpTo(run.block)  BY <1>1 DEF CallsUpTo
<1>4. LeavesAt(run.block)' = LeavesAt(run.block)  BY <1>2, <1>3 DEF LeavesAt
<1>5. KnownRoots(run.block)' = KnownRoots(run.block)
  <2>1. \A i : KnownRootsAfter(i)' = KnownRootsAfter(i)  BY <1>2, Zenon DEF KnownRootsAfter
  <2>2. QED  BY <1>3, <2>1, Zenon DEF KnownRoots
<1>6. \A served, roots : /\ CrossCheckOK(served, run.block)' <=> CrossCheckOK(served, run.block)
                         /\ RootsKnown(roots, run.block)' <=> RootsKnown(roots, run.block)
  BY <1>4, <1>5, Zenon DEF CrossCheckOK, RootsKnown
<1>7. \A check : CheckOK(check, answer, disclosure, run)' <=> CheckOK(check, answer, disclosure, run)
  BY <1>6, Zenon DEF CheckOK
<1>8. QED  BY <1>7, Zenon DEF Passes

LEMMA Stutters ==
  ASSUME ReplayInv, UNCHANGED vars
  PROVE  ReplayInv'
<1>1. UNCHANGED <<bondVars, graphVars>> /\ bundle' = bundle /\ report' = report /\ metaBlock' = metaBlock
  BY DEF vars, graphVars
<1>2. ContractInv' /\ GraphInv' /\ \A pin : AuditAnswer(pin)' = AuditAnswer(pin)  BY <1>1, FilesStep
<1>3. BundleInv'  BY <1>1, <1>2 DEF ReplayInv, BundleInv, AnswerOK, ParseOK
<1>4. ReportInv'
  <2>1. CASE report = <<>>  BY <1>1, <2>1 DEF ReportInv
  <2>2. CASE report # <<>>
    <3>1. PICK r : /\ report = <<r>> /\ r.run.block \in Nat
                   /\ r.pass <=> Passes(bundle[1].answer, r.disclosure, r.run)
      BY <2>2 DEF ReplayInv, ReportInv
    <3>2. PICK b : bundle = <<b>>  BY <2>2 DEF ReplayInv, ReportInv, BundleInv
    <3>3. Passes(b.answer, r.disclosure, r.run)' <=> Passes(b.answer, r.disclosure, r.run)
      BY <1>1, PassesKept
    <3>4. QED  BY <1>1, <2>2, <3>1, <3>2, <3>3 DEF ReplayInv, ReportInv
  <2>3. QED  BY <2>1, <2>2
<1>5. QED  BY <1>2, <1>3, <1>4 DEF ReplayInv

LEMMA RunFacts ==
  ASSUME head \in 1 .. MaxBlock, NEW answer, NEW honest, NEW run \in Runs(answer, honest)
  PROVE  run.block \in Nat
<1>1. MaxBlock \in Nat  BY BondAssumption
<1>2. run.block \in (0 .. (head - 1)) \cup {head - 1} \cup {0}  BY DEF Runs
<1>3. QED  BY <1>1, <1>2

LEMMA ReconcileStep ==
  ASSUME ReplayInv, Reconcile
  PROVE  ReplayInv'
<1>1. bundle # <<>> /\ UNCHANGED <<bondVars, graphVars, bundle>>  BY DEF Reconcile
<1>2. ContractInv' /\ GraphInv' /\ \A pin : AuditAnswer(pin)' = AuditAnswer(pin)  BY <1>1, FilesStep
<1>3. BundleInv'
  <2>1. metaBlock' = metaBlock /\ bundle' = bundle  BY <1>1 DEF graphVars
  <2>2. QED  BY <1>2, <2>1 DEF ReplayInv, BundleInv, AnswerOK, ParseOK
<1>4. PICK run, disclosure :
        /\ run \in Runs(bundle[1].answer, bundle[1].honest)
        /\ report' = <<[disclosure |-> disclosure, run |-> run,
                        pass |-> Passes(bundle[1].answer, disclosure, run)]>>
  BY DEF Reconcile
<1>5. PICK r : /\ report' = <<r>> /\ r.run.block \in Nat
               /\ r.pass <=> Passes(bundle[1].answer, r.disclosure, r.run)
  <2> DEFINE r == [disclosure |-> disclosure, run |-> run, pass |-> Passes(bundle[1].answer, disclosure, run)]
  <2>1. run.block \in Nat  BY <1>4, RunFacts DEF ReplayInv, ContractInv
  <2>2. r.run = run /\ r.disclosure = disclosure  OBVIOUS
  <2>3. r.pass <=> Passes(bundle[1].answer, disclosure, run)  OBVIOUS
  <2> HIDE DEF r
  <2>4. report' = <<r>>  BY <1>4 DEF r
  <2>5. QED  BY <2>1, <2>2, <2>3, <2>4
<1>6. PICK b : bundle = <<b>>  BY <1>1 DEF ReplayInv, BundleInv
<1>7. ReportInv'
  <2>1. Passes(b.answer, r.disclosure, r.run)' <=> Passes(b.answer, r.disclosure, r.run)
    BY <1>1, PassesKept
  <2>2. QED  BY <1>1, <1>5, <1>6, <2>1 DEF ReportInv
<1>8. QED  BY <1>2, <1>3, <1>7 DEF ReplayInv

LEMMA ReplayStep ==
  ASSUME ReplayInv, [Next]_vars
  PROVE  ReplayInv'
<1>1. CASE report = <<>> /\ BondNext /\ UNCHANGED <<graphVars, bundle, report>>  BY <1>1, ChainStep
<1>2. CASE bundle = <<>> /\ GraphNext /\ UNCHANGED <<bondVars, bundle, report>>  BY <1>2, IndexStep
<1>3. CASE Fetch  BY <1>3, FetchStep
<1>4. CASE Reconcile  BY <1>4, ReconcileStep
<1>5. CASE UNCHANGED vars  BY <1>5, Stutters DEF vars
<1>6. QED  BY <1>1, <1>2, <1>3, <1>4, <1>5 DEF Next

THEOREM Invariance == Spec => []ReplayInv
<1>1. Init => ReplayInv  BY ReplayStarts
<1>2. ReplayInv /\ [Next]_vars => ReplayInv'  BY ReplayStep
<1>3. QED  BY <1>1, <1>2, PTL DEF Spec

-----------------------------------------------------------------------------
(* What a PASS says. *)

\* Every check was made, of an answer that is not cut.
LEMMA PassFacts ==
  ASSUME NEW answer, NEW disclosure, NEW run, Passes(answer, disclosure, run)
  PROVE  /\ ParseOK(answer) /\ Contiguous(answer)
         /\ ManifestOK(disclosure.entries)
         /\ AccountingOK(OrderedCommitments(answer), disclosure.entries)
         /\ ~run.rpc => Boundaries(answer, disclosure.counts) = <<>>
         /\ run.rpc /\ run.verifyOnchain /\ ~OfAnother(answer, run) =>
              CrossCheckOK(OrderedCommitments(answer), run.block)
         /\ LET served == OrderedCommitments(answer)
                counts == Boundaries(answer, disclosure.counts)
            IN /\ RootHistoryOK(served, counts)
               /\ run.rpc /\ ~OfAnother(answer, run) => RootsKnown(RootHistory(served, counts), run.block)
<1>1. Readable(answer, disclosure) /\ \A k \in DOMAIN Checks : CheckOK(Checks[k], answer, disclosure, run)
  BY DEF Passes
<1>2. /\ 2 \in DOMAIN Checks /\ Checks[2] = "manifest"
      /\ 3 \in DOMAIN Checks /\ Checks[3] = "accounting"
      /\ 4 \in DOMAIN Checks /\ Checks[4] = "on chain"
      /\ 5 \in DOMAIN Checks /\ Checks[5] = "roots"
  BY DEF Checks
<1>3. /\ CheckOK("manifest", answer, disclosure, run) /\ CheckOK("accounting", answer, disclosure, run)
      /\ CheckOK("on chain", answer, disclosure, run) /\ CheckOK("roots", answer, disclosure, run)
  <2>1. \A k \in DOMAIN Checks : CheckOK(Checks[k], answer, disclosure, run)  BY <1>1
  <2>2. QED  BY <1>2, <2>1, Zenon
<1>4. QED  BY <1>1, <1>3 DEF CheckOK, Readable

\* The entries account for the served leaves, one for one.
LEMMA AccountedIsServed ==
  ASSUME NEW answer, AnswerOK(answer), NEW entries, AccountingOK(OrderedCommitments(answer), entries)
  PROVE  /\ [k \in DOMAIN entries |-> Accounts(entries[k])] = OrderedCommitments(answer)
         /\ DOMAIN OrderedCommitments(answer) = 1 .. Len(answer.commitments)
         /\ Len(OrderedCommitments(answer)) = Len(answer.commitments)
         /\ IsSeq(OrderedCommitments(answer))
<1> DEFINE served == OrderedCommitments(answer)
           n == Len(answer.commitments)
<1>1. n \in Nat  BY DEF AnswerOK
<1>2. served = [k \in 1 .. n |-> served[k]]  BY DEF OrderedCommitments
<1> HIDE DEF served, n
<1>3. DOMAIN served = 1 .. n  BY <1>2
<1>4. DOMAIN entries = DOMAIN served /\ \A k \in DOMAIN served : Accounts(entries[k]) = served[k]
  BY DEF AccountingOK, served
<1>5. [k \in DOMAIN entries |-> Accounts(entries[k])] = served  BY <1>2, <1>3, <1>4
<1>6. served \in Seq({served[k] : k \in 1 .. n}) /\ Len(served) = n
  <2>1. served \in [1 .. n -> {served[k] : k \in 1 .. n}]  BY <1>2
  <2>2. QED  BY <1>1, <2>1, SeqDef
<1>7. QED  BY <1>3, <1>5, <1>6 DEF served, n, IsSeq

LEMMA ReportFacts ==
  ASSUME ReplayInv, report # <<>>
  PROVE  /\ bundle[1].pin \in 0 .. metaBlock /\ AnswerOK(bundle[1].answer)
         /\ ParseOK(bundle[1].answer)
         /\ bundle[1].honest => bundle[1].answer = AuditAnswer(bundle[1].pin)
         /\ report[1].run.block \in Nat
         /\ report[1].pass <=> Passes(bundle[1].answer, report[1].disclosure, report[1].run)
<1>1. PICK b : /\ bundle = <<b>> /\ b.pin \in 0 .. metaBlock /\ AnswerOK(b.answer) /\ ParseOK(b.answer)
               /\ b.honest => b.answer = AuditAnswer(b.pin)
  BY DEF ReplayInv, ReportInv, BundleInv
<1>2. PICK r : /\ report = <<r>> /\ r.run.block \in Nat
               /\ r.pass <=> Passes(bundle[1].answer, r.disclosure, r.run)
  BY DEF ReplayInv, ReportInv
<1>3. bundle[1] = b /\ report[1] = r  BY <1>1, <1>2
<1>4. QED  BY <1>1, <1>2, <1>3

(***************************************************************************)
(* Type correctness of the composition.                                    *)
(***************************************************************************)
THEOREM TypeCorrect == Spec => []ReplayTypeOK
<1>1. ReplayInv => ReplayTypeOK
  <2> SUFFICES ASSUME ReplayInv PROVE ReplayTypeOK  OBVIOUS
  <2>1. head \in 1 .. MaxBlock /\ metaBlock \in 0 .. (head - 1) /\ handled \in 0 .. Len(bondCalls)
    BY DEF ReplayInv, ContractInv, GraphInv
  <2>2. /\ DOMAIN store.commitments = 0 .. (store.bond.leafCount - 1)
        /\ DOMAIN store.lifecycleCalls = 0 .. (store.bond.callCount - 1)
        /\ DOMAIN store.nullifiers = 1 .. store.bond.nullifierCount /\ store.bond.nullifierCount \in Nat
    BY DEF ReplayInv, GraphInv, WellFilled
  <2>3. Cardinality(DOMAIN store.nullifiers) = store.bond.nullifierCount  BY <2>2, FirstNumbers
  <2>4. Len(bundle) \in 0 .. 1 /\ Len(report) \in 0 .. Len(bundle)  BY DEF ReplayInv, BundleInv, ReportInv
  <2>5. QED  BY <2>1, <2>2, <2>3, <2>4 DEF ReplayTypeOK
<1>2. QED  BY <1>1, Invariance, PTL

(***************************************************************************)
(* reconcile --verify-onchain: whoever tampers, a PASS against the bond    *)
(* leaves no disclosed record that is not at its place in the array.       *)
(***************************************************************************)
THEOREM CheckedPassNeverInvents == Spec => []CheckedPassIsPrefix
<1>1. ReplayInv => CheckedPassIsPrefix
  <2> SUFFICES ASSUME ReplayInv, report # <<>>, report[1].pass, BondAsked, report[1].run.verifyOnchain
               PROVE  IsPrefix(Accounted, LeavesAt(report[1].run.block))
    BY DEF CheckedPassIsPrefix
  <2> DEFINE answer == bundle[1].answer
             run == report[1].run
             served == OrderedCommitments(answer)
             array == LeavesAt(run.block)
  <2>1. AnswerOK(answer) /\ Passes(answer, report[1].disclosure, run)  BY ReportFacts
  <2>2. run.rpc /\ ~OfAnother(answer, run)  BY DEF BondAsked, OfAnother
  <2>3. AccountingOK(served, report[1].disclosure.entries) /\ CrossCheckOK(served, run.block)
    BY <2>1, <2>2, PassFacts
  <2>4. Accounted = served /\ DOMAIN served = 1 .. Len(served) /\ IsSeq(served)
    BY <2>1, <2>3, AccountedIsServed DEF Accounted
  <2>5. array \in Seq(Nat)  BY LeavesAtFacts DEF ReplayInv
  <2>6. \A k \in 1 .. Len(served) : k \in 1 .. Len(array) /\ array[k] = served[k]
    <3>1. DOMAIN array = 1 .. Len(array)  BY <2>5
    <3>2. QED  BY <2>3, <2>4, <3>1 DEF CrossCheckOK
  <2> HIDE DEF served, array
  <2>7. Len(served) \in Nat /\ Len(array) \in Nat  BY <2>4, <2>5, IsSeqFacts
  <2>8. Len(served) <= Len(array)  BY <2>6, <2>7
  <2>9. SubSeq(served, 1, Len(served)) = SubSeq(array, 1, Len(served))
    <3>1. PICK S : served \in Seq(S)  BY <2>4 DEF IsSeq
    <3>2. \A i \in 1 .. Len(served) : served[i] = array[i]  BY <2>6
    <3>3. QED  BY <3>1, <3>2, <2>7
  <2>10. QED  BY <2>4, <2>8, <2>9 DEF IsPrefix, array
<1>2. QED  BY <1>1, Invariance, PTL

\* The served log of an honest server that has kept up is the anchored array.
LEMMA HonestLogExact ==
  ASSUME ReplayInv, NEW pin \in 0 .. metaBlock, Kept(pin), ParseOK(AuditAnswer(pin))
  PROVE  OrderedCommitments(AuditAnswer(pin)) = LeavesAt(pin)
<1> DEFINE n == Len(LeavesAt(pin))
           list == AuditAnswer(pin).commitments
<1>1. n \in Nat /\ LeavesAt(pin) = CountUp(n)  BY LeavesAtFacts DEF ReplayInv
<1>2. VisibleAt(store.commitments, pin) = 0 .. (n - 1)  BY DEF ReplayInv, GraphInv, VisibleInv
<1>3. /\ LeafRows(pin) = [k \in 1 .. n |-> [leafIndex |-> k - 1, value |-> k]]
      /\ LeafRows(pin) \in Seq(ServedRow) /\ Len(LeafRows(pin)) = n
  BY <1>1, <1>2, LeafRowsFacts DEF ReplayInv
<1>4. list = LeafRows(pin)
  <2>1. list = FirstPage(LeafRows(pin)) /\ Len(list) < PAGE_LIMIT  BY AuditAnswerParts DEF ParseOK
  <2>2. QED  BY <1>3, <2>1, FirstPageFacts
<1> HIDE DEF n, list
<1>5. ASSUME NEW k \in 1 .. n
      PROVE  (CHOOSE row \in ToSet(list) : row.leafIndex = k - 1).value = k
  <2>1. \A i \in DOMAIN list : list[i].leafIndex = i - 1 /\ list[i].value = i /\ i \in Nat
    <3>1. list = [j \in 1 .. n |-> [leafIndex |-> j - 1, value |-> j]]  BY <1>3, <1>4
    <3>2. DOMAIN list = 1 .. n  BY <3>1
    <3>3. ASSUME NEW i \in 1 .. n  PROVE list[i].leafIndex = i - 1 /\ list[i].value = i /\ i \in Nat
      <4>1. list[i] = [leafIndex |-> i - 1, value |-> i]  BY <3>1
      <4>2. QED  BY <4>1, <1>1
    <3>4. QED  BY <3>2, <3>3
  <2>2. k \in DOMAIN list  BY <1>1, <1>3, <1>4
  <2>3. list[k] \in ToSet(list) /\ list[k].leafIndex = k - 1  BY <2>1, <2>2 DEF ToSet
  <2>4. \A row \in ToSet(list) : row.leafIndex = k - 1 => row.value = k
    <3>1. ASSUME NEW row \in ToSet(list), row.leafIndex = k - 1  PROVE row.value = k
      <4>1. PICK i \in DOMAIN list : row = list[i]  BY DEF ToSet
      <4>2. QED  BY <2>1, <3>1, <4>1
    <3>2. QED  BY <3>1
  <2>5. QED  BY <2>3, <2>4
<1>6. Len(list) = n  BY <1>3, <1>4
<1>7. OrderedCommitments(AuditAnswer(pin)) = [k \in 1 .. n |-> k]
  <2>1. OrderedCommitments(AuditAnswer(pin)) =
          [k \in 1 .. n |-> (CHOOSE row \in ToSet(list) : row.leafIndex = k - 1).value]
    BY <1>6, Zenon DEF OrderedCommitments, list
  <2>2. QED  BY <1>5, <2>1
<1>8. QED  BY <1>1, <1>7 DEF CountUp

\* Where a leaf is served, so is a call.
LEMMA LeavesComeWithCalls ==
  ASSUME ReplayInv, NEW pin \in 0 .. metaBlock, Kept(pin), AuditAnswer(pin).counts = <<>>
  PROVE  Len(LeavesAt(pin)) = 0
<1> DEFINE calls == VisibleAt(store.lifecycleCalls, pin)
           last == store.bond.callCount - 1
<1>1. Len(LeavesAt(pin)) \in Nat /\ WellFilled(store) /\ pin \in Nat
  BY LeavesAtFacts DEF ReplayInv, GraphInv
<1>2. VisibleAt(store.commitments, pin) = 0 .. (Len(LeavesAt(pin)) - 1)
  BY DEF ReplayInv, GraphInv, VisibleInv
<1>3. SUFFICES ASSUME Len(LeavesAt(pin)) > 0  PROVE FALSE  BY <1>1
<1>4. 0 \in VisibleAt(store.commitments, pin)  BY <1>1, <1>2, <1>3
<1>5. 0 \in 0 .. (store.bond.leafCount - 1) /\ store.commitments[0].block <= pin
  BY <1>1, <1>4 DEF VisibleAt, WellFilled
<1>6. PICK c \in 0 .. last : store.lifecycleCalls[c].block = store.commitments[0].block
  BY <1>5 DEF ReplayInv, GraphInv, RowsInv
<1>7. c \in calls /\ calls \in SUBSET (0 .. last) /\ store.bond.callCount \in Nat
  BY <1>1, <1>5, <1>6 DEF VisibleAt, WellFilled
<1> HIDE DEF calls
<1>8. IsFiniteSet(calls)
  <2>1. 0 \in Int /\ last \in Int  BY <1>7
  <2>2. IsFiniteSet(0 .. last)  BY <2>1, FS_Interval
  <2>3. QED  BY <2>2, <1>7, FS_Subset
<1>9. Cardinality(calls) \in Nat /\ Cardinality(calls) > 0  BY <1>7, <1>8, FS_CardinalityType, FS_EmptySet
<1>10. PICK S : CallCounts(pin) \in Seq(S) /\ Len(CallCounts(pin)) = Cardinality(calls)
  <2> DEFINE m == Cardinality(calls)
             Count(k) == store.lifecycleCalls[InOrder(calls)[k]].leafCountAfter
  <2>1. DOMAIN InOrder(calls) = 1 .. m  BY DEF InOrder
  <2>2. CallCounts(pin) = [k \in 1 .. m |-> Count(k)]  BY <2>1, Zenon DEF CallCounts, calls
  <2> HIDE DEF m, Count
  <2>3. PICK S : CallCounts(pin) \in [1 .. m -> S]
    <3>1. CallCounts(pin) \in [1 .. m -> {Count(k) : k \in 1 .. m}]  BY <2>2
    <3>2. QED  BY <3>1
  <2>4. m \in Nat  BY <1>9 DEF m
  <2>5. CallCounts(pin) \in Seq(S) /\ Len(CallCounts(pin)) = m  BY <2>3, <2>4, SeqDef
  <2>6. QED  BY <2>5 DEF m
<1>11. FirstPage(CallCounts(pin)) = <<>>  BY AuditAnswerParts
<1>12. Len(FirstPage(CallCounts(pin))) < PAGE_LIMIT  BY <1>11, ReplayAssumption
<1>13. CallCounts(pin) = <<>>  BY <1>10, <1>11, <1>12, FirstPageFacts
<1>14. QED  BY <1>9, <1>10, <1>13

(***************************************************************************)
(* fetch and reconcile with an honest server that has kept up: a PASS      *)
(* accounts for every leaf anchored up to the pinned block, in order, with *)
(* a manifest that agrees with its records; and unless there was nothing   *)
(* to account for, the chain was asked.                                    *)
(***************************************************************************)
THEOREM PassIsComplete == Spec => []HonestServerPassIsComplete
<1>1. ReplayInv => HonestServerPassIsComplete
  <2> SUFFICES ASSUME ReplayInv, report # <<>>, ServedHonestly, WalkKeptUp, report[1].pass
               PROVE  /\ Accounted = LeavesAt(bundle[1].pin)
                      /\ \A e \in ToSet(report[1].disclosure.entries) : e.commitment = Accounts(e)
                      /\ Accounted # <<>> => report[1].run.rpc
    BY DEF HonestServerPassIsComplete
  <2> DEFINE pin == bundle[1].pin
             answer == bundle[1].answer
             entries == report[1].disclosure.entries
  <2>1. pin \in 0 .. metaBlock /\ AnswerOK(answer) /\ answer = AuditAnswer(pin)
    BY ReportFacts DEF ServedHonestly
  <2>2. Passes(answer, report[1].disclosure, report[1].run)  BY ReportFacts
  <2>3. Kept(pin)  BY DEF WalkKeptUp, Kept
  <2>4. /\ ParseOK(answer) /\ ManifestOK(entries) /\ AccountingOK(OrderedCommitments(answer), entries)
        /\ ~report[1].run.rpc => Boundaries(answer, report[1].disclosure.counts) = <<>>
    BY <2>2, PassFacts
  <2>5. OrderedCommitments(answer) = LeavesAt(pin)  BY <2>1, <2>3, <2>4, HonestLogExact
  <2>6. Accounted = OrderedCommitments(answer)  BY <2>1, <2>4, AccountedIsServed DEF Accounted
  <2>7. ASSUME NEW e \in ToSet(entries)  PROVE e.commitment = Accounts(e)
    <3>1. PICK k \in DOMAIN entries : e = entries[k]  BY DEF ToSet
    <3>2. QED  BY <2>4, <3>1 DEF ManifestOK, Accounts
  <2>8. ASSUME ~report[1].run.rpc  PROVE Accounted = <<>>
    <3>1. answer.counts = <<>>  BY <2>4, <2>8 DEF Boundaries
    <3>2. Len(LeavesAt(pin)) = 0  BY <2>1, <2>3, <3>1, LeavesComeWithCalls
    <3>3. LeavesAt(pin) = <<>>  BY <3>2, LeavesAtFacts DEF ReplayInv
    <3>4. QED  BY <2>5, <2>6, <3>3
  <2>9. QED  BY <2>5, <2>6, <2>7, <2>8
<1>2. QED  BY <1>1, Invariance, PTL
=============================================================================
