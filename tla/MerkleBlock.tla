------------------------------- MODULE MerkleBlock -------------------------------
(***************************************************************************)
(* BRMerkleBlock.c: the walks over a partial merkle tree, the new target at *)
(* a difficulty transition and the comparison of a hash with its target.    *)
(* A hash is the tuple of what it was computed from: <<i>> of the block's   *)
(* transaction i, a pair of an inner node.  A byte has Base values instead  *)
(* of 256, which keeps the targets within TLC's integers.                   *)
(***************************************************************************)
EXTENDS Integers, SequencesExt

CONSTANTS Base,            \* bound: the values of a byte, a multiple of 4
          TargetTimespan   \* bound: a multiple of Base and of 4

ZeroHash == <<>>

CeilLog2(n) == CHOOSE d \in 0 .. n : 2^d >= n /\ \A e \in 0 .. d - 1 : 2^e < n

-----------------------------------------------------------------------------
(* What a node sends (external): the bits and hashes of BIP37, depth first. *)

RECURSIVE NodeHash(_, _, _)
NodeHash(n, level, pos) ==
    IF level = 0 THEN <<pos + 1>>
    ELSE LET left == NodeHash(n, level - 1, 2 * pos)
         IN IF (2 * pos + 1) * 2^(level - 1) >= n THEN <<left, left>>
            ELSE <<left, NodeHash(n, level - 1, 2 * pos + 1)>>

RECURSIVE Partial(_, _, _, _)
Partial(n, matched, level, pos) ==
    LET below == {i \in matched : (i - 1) \div 2^level = pos}
        both  == <<Partial(n, matched, level - 1, 2 * pos), Partial(n, matched, level - 1, 2 * pos + 1)>>
    IN CASE pos * 2^level >= n          -> [flags |-> <<>>, hashes |-> <<>>]
         [] level = 0 \/ below = {}     -> [flags  |-> <<below # {}>>,
                                            hashes |-> <<NodeHash(n, level, pos)>>]
         [] OTHER -> [flags  |-> <<TRUE>> \o both[1].flags \o both[2].flags,
                      hashes |-> both[1].hashes \o both[2].hashes]

\* The flags fill whole bytes.
MerkleBlockOf(n, matched) ==
    LET p == Partial(n, matched, CeilLog2(n), 0)
    IN [totalTx |-> n, hashes |-> p.hashes,
        flags   |-> p.flags \o [i \in 1 .. (-Len(p.flags)) % 8 |-> FALSE]]

-----------------------------------------------------------------------------
(* at.hash and at.flag count what the walk has read; at.txs are the matched hashes so far. *)

More(block, at) == at.flag < Len(block.flags) /\ at.hash < Len(block.hashes)

IsLeaf(block, depth) == depth = CeilLog2(block.totalTx)

\* _BRMerkleBlockTxHashesR
RECURSIVE TxHashesR(_, _, _)
TxHashesR(block, at, depth) ==
    LET flag == block.flags[at.flag + 1]
        read == [at EXCEPT !.flag = @ + 1]
    IN CASE ~More(block, at) -> at
         [] More(block, at) /\ (~flag \/ IsLeaf(block, depth)) ->
                [read EXCEPT !.hash = @ + 1,
                             !.txs  = IF flag THEN Append(@, block.hashes[at.hash + 1]) ELSE @]
         [] OTHER -> TxHashesR(block, TxHashesR(block, read, depth + 1), depth + 1)

TxHashes(block) == TxHashesR(block, [hash |-> 0, flag |-> 0, txs |-> <<>>], 0).txs

\* wrong on purpose: a branch that is missing counts as a zero hash
Paired(left, right) == <<left, right>>

\* If the right branch is missing, the left one is taken twice.
Pair(left, right) == <<left, IF right = ZeroHash THEN left ELSE right>>

\* _BRMerkleBlockRootR: two equal branches end the walk, as if everything had been read
RECURSIVE RootR(_, _, _)
RootR(block, at, depth) ==
    LET flag  == block.flags[at.flag + 1]
        read  == [at EXCEPT !.flag = @ + 1]
        left  == RootR(block, read, depth + 1)
        right == RootR(block, left, depth + 1)
    IN CASE ~More(block, at) -> [at EXCEPT !.md = ZeroHash]
         [] More(block, at) /\ (~flag \/ IsLeaf(block, depth)) ->
                [read EXCEPT !.hash = @ + 1, !.md = block.hashes[at.hash + 1]]
         [] OTHER ->
                IF left.md # ZeroHash /\ left.md # right.md
                THEN [right EXCEPT !.md = Pair(left.md, right.md)]
                ELSE [right EXCEPT !.md = ZeroHash, !.hash = Len(block.hashes)]

Root(block) == RootR(block, [hash |-> 0, flag |-> 0, md |-> ZeroHash], 0).md

\* A merkle block for any transactions of any block gives its root, and the matched hashes in their order.
MerkleWalks(n, matched) ==
    LET block == MerkleBlockOf(n, matched)
    IN /\ Root(block) = NodeHash(n, CeilLog2(n), 0)
       /\ TxHashes(block) = [i \in 1 .. Cardinality(matched) |-> <<SetToSortSeq(matched, <)[i]>>]

-----------------------------------------------------------------------------
(* A compact target: size, and a mantissa of three bytes whose highest bit is the sign.  *)

Sign        == Base^3 \div 2
MaxSize     == 5
MaxMantissa == Base^2 - 1          \* MAX_PROOF_OF_WORK: size and mantissa

\* value of the target
TargetOf(c) == IF c.size >= 3 THEN c.mantissa * Base^(c.size - 3) ELSE c.mantissa \div Base^(3 - c.size)

AtLeast(a, b) == IF a >= b THEN a ELSE b
AtMost(a, b)  == IF a <= b THEN a ELSE b

Clamped(timespan) == AtMost(AtLeast(timespan, TargetTimespan \div 4), TargetTimespan * 4)

RECURSIVE Normal(_)
Normal(c) ==
    IF c.size < 1 \/ c.mantissa > Sign - 1
    THEN Normal([size |-> c.size + 1, mantissa |-> c.mantissa \div Base]) ELSE c

TooEasy(c) == c.size > MaxSize \/ (c.size = MaxSize /\ c.mantissa > MaxMantissa)

\* The target after a transition, BRMerkleBlockVerifyDifficulty: divided by a byte less than the timespan,
\* so that the mantissa loses no precision, and the size one lower for it
Retarget(previous, timespan) ==
    LET c == Normal([size     |-> previous.size - 1,
                     mantissa |-> (previous.mantissa * Clamped(timespan)) \div (TargetTimespan \div Base)])
    IN IF TooEasy(c) THEN [size |-> MaxSize, mantissa |-> MaxMantissa] ELSE c

\* The target of BRMerkleBlockIsValid, byte by byte, lowest first, and the hash compared from the highest on
HashBytes == MaxSize + 1
ByteOf(v, i)      == (v \div Base^i) % Base
TargetByte(c, i)  ==
    IF c.size > 3 THEN IF i \in c.size - 3 .. c.size THEN ByteOf(c.mantissa, i - (c.size - 3)) ELSE 0
    ELSE ByteOf(c.mantissa \div Base^(3 - c.size), i)
InRange(c)        == c.mantissa \in 1 .. Sign - 1 /\ ~TooEasy(c)
ProofOfWork(c, h) ==
    /\ InRange(c)
    /\ \A i \in 0 .. HashBytes - 1 :
           ByteOf(h, i) > TargetByte(c, i) =>
               \E j \in i + 1 .. HashBytes - 1 : ByteOf(h, j) < TargetByte(c, j)

\* What difficulty is: the target times the time taken, over the time intended, within its limits, and the
\* largest compact target that is not above it; work is done if the hash is not above the target.
Compact(v) ==
    CHOOSE c \in [size : 1 .. MaxSize + 3, mantissa : 0 .. Sign - 1] :
        /\ TargetOf(c) <= v /\ v < TargetOf([c EXCEPT !.mantissa = @ + 1])
        /\ c.mantissa >= Sign \div Base

Reference(previous, timespan) ==
    Compact(AtMost((TargetOf(previous) * Clamped(timespan)) \div TargetTimespan,
                   TargetOf([size |-> MaxSize, mantissa |-> MaxMantissa])))

DifficultyAgrees(previous, timespan) == Retarget(previous, timespan) = Reference(previous, timespan)
WorkAgrees(c, h) == ProofOfWork(c, h) <=> (InRange(c) /\ h <= TargetOf(c))
================================================================================
