---------------------------------- MODULE Rlp ----------------------------------
(***************************************************************************)
(* ethereum/rlp/BRRlpCoder.c: what the coder writes for bytes, numbers and  *)
(* lists, and what it reads back.  A byte is a number, bytes a sequence; an *)
(* item is [bytes |-> ...] or [items |-> ...] for a list.                    *)
(***************************************************************************)
EXTENDS Integers, SequencesExt

RLP_PREFIX_BYTES        == 128
RLP_PREFIX_LIST         == 192
RLP_PREFIX_LENGTH_LIMIT == 55

\* findNonZeroIndex and convertToBigEndianAndNormalize: the bytes of a number from its first non-zero one,
\* a single zero byte for zero; the numbers of the program's lengths have four bytes here instead of eight
RECURSIVE BigEndian(_)
BigEndian(n) == IF n < 256 THEN <<n>> ELSE Append(BigEndian(n \div 256), n % 256)

\* convertFromBigEndian
FromBigEndian(bytes) == FoldLeft(LAMBDA n, b : 256 * n + b, 0, bytes)

coderEncodeLength(length, baseline) ==
    IF length <= RLP_PREFIX_LENGTH_LIMIT THEN <<baseline + length>>
    ELSE <<baseline + RLP_PREFIX_LENGTH_LIMIT + Len(BigEndian(length))>> \o BigEndian(length)

\* the bytes before the content, and the length of the content
coderDecodeLength(bytes, baseline) ==
    LET short == bytes[1] - baseline
        count == short - RLP_PREFIX_LENGTH_LIMIT
    IN CASE short < 0                                          -> [offset |-> 0, length |-> 1]
         [] short >= 0 /\ short <= RLP_PREFIX_LENGTH_LIMIT     -> [offset |-> 1, length |-> short]
         [] OTHER -> [offset |-> 1 + count, length |-> FromBigEndian(SubSeq(bytes, 2, 1 + count))]

-----------------------------------------------------------------------------
coderEncodeBytes(bytes) ==
    IF Len(bytes) = 1 /\ bytes[1] < RLP_PREFIX_BYTES THEN bytes
    ELSE coderEncodeLength(Len(bytes), RLP_PREFIX_BYTES) \o bytes

rlpDecodeItemBytes(bytes) ==
    LET d == coderDecodeLength(bytes, RLP_PREFIX_BYTES)
    IN SubSeq(bytes, d.offset + 1, d.offset + d.length)

\* rlpEncodeItemUInt64, rlpEncodeItemUInt256 and their inverses: with zeroAsEmptyString zero has no byte
EncodeNumber(n, zeroAsEmptyString) ==
    coderEncodeBytes(IF n = 0 /\ zeroAsEmptyString THEN <<>> ELSE BigEndian(n))

IsEmptyString(bytes) == Len(bytes) = 1 /\ bytes[1] >= RLP_PREFIX_BYTES

DecodeNumber(bytes, zeroAsEmptyString) ==
    IF zeroAsEmptyString /\ IsEmptyString(bytes) THEN 0 ELSE FromBigEndian(rlpDecodeItemBytes(bytes))

\* coderEncodeList over the encodings of its items
coderEncodeList(encodings) ==
    LET bytes == FlattenSeq(encodings) IN coderEncodeLength(Len(bytes), RLP_PREFIX_LIST) \o bytes

IsList(item) == "items" \in DOMAIN item

RECURSIVE Encode(_)
Encode(item) ==
    IF IsList(item) THEN coderEncodeList([i \in DOMAIN item.items |-> Encode(item.items[i])])
    ELSE coderEncodeBytes(item.bytes)

\* rlpGetItem_FillData: how many bytes the item at the front has
FillData(bytes) ==
    LET baseline == IF bytes[1] < RLP_PREFIX_LIST THEN RLP_PREFIX_BYTES ELSE RLP_PREFIX_LIST
        d        == coderDecodeLength(bytes, baseline)
    IN IF bytes[1] < RLP_PREFIX_BYTES THEN 1 ELSE d.offset + d.length

\* rlpGetItem: a list is read sub-item by sub-item up to the end of its bytes
RECURSIVE GetItem(_), GetItems(_)
GetItem(bytes) ==
    LET d == coderDecodeLength(bytes, RLP_PREFIX_LIST)
    IN IF bytes[1] < RLP_PREFIX_LIST THEN [bytes |-> rlpDecodeItemBytes(bytes)]
       ELSE [items |-> GetItems(SubSeq(bytes, d.offset + 1, Len(bytes)))]
GetItems(bytes) ==
    IF bytes = <<>> THEN <<>>
    ELSE LET count == FillData(bytes)
         IN <<GetItem(SubSeq(bytes, 1, count))>> \o GetItems(SubSeq(bytes, count + 1, Len(bytes)))

-----------------------------------------------------------------------------
(* BREthereumTransaction.c: what is signed and sent.  An address and each half of a signature have two bytes. *)

Transfer == 169        \* the selector of ERC20's transfer in the data

Padded(n) == [i \in 1 .. 4 - Len(BigEndian(n)) |-> 0] \o BigEndian(n)

\* provideData: the token's transfer names the receiver and the amount, the transaction itself the contract
DataOf(tx) == IF tx.token = <<>> THEN <<>> ELSE <<Transfer>> \o tx.target \o Padded(tx.amount)

\* transactionRlpEncodeItem: EIP-155, the chain's id in the place of v, or in v
transactionRlpEncode(tx, chainId, signed) ==
    LET ether == tx.token = <<>>
    IN coderEncodeList(<<EncodeNumber(tx.nonce, TRUE), EncodeNumber(tx.gasPrice, TRUE), EncodeNumber(tx.gasLimit, TRUE),
           coderEncodeBytes(IF ether THEN tx.target ELSE tx.token),
           EncodeNumber(IF ether THEN tx.amount ELSE 0, TRUE), coderEncodeBytes(DataOf(tx)),
           EncodeNumber(IF signed THEN tx.v + 8 + 2 * chainId ELSE chainId, TRUE),
           coderEncodeBytes(IF signed THEN tx.r ELSE <<>>), coderEncodeBytes(IF signed THEN tx.s ELSE <<>>)>>)

\* transactionRlpDecodeItem: a transaction with data is a transfer of the token at its address
transactionRlpDecode(bytes, chainId) ==
    LET vOf(v)       == CASE v = chainId -> 0 [] v # chainId /\ v > 30 -> v - 8 - 2 * chainId [] OTHER -> v
        half(v, i)   == IF v # chainId THEN i.bytes ELSE <<0, 0>>
        receiver(i, data) == IF data = <<>> THEN i[4].bytes ELSE SubSeq(data, 2, 3)
        amount(i, data)   == FromBigEndian(IF data = <<>> THEN i[5].bytes ELSE SubSeq(data, 4, 7))
        of(i, n) == [nonce |-> n[1], gasPrice |-> n[2], gasLimit |-> n[3],
                     token |-> IF i[6].bytes = <<>> THEN <<>> ELSE i[4].bytes,
                     target |-> receiver(i, i[6].bytes), amount |-> amount(i, i[6].bytes),
                     v |-> vOf(n[7]), r |-> half(n[7], i[8]), s |-> half(n[7], i[9])]
        items(i) == of(i, [k \in {1, 2, 3, 7} |-> FromBigEndian(i[k].bytes)])
    IN items(GetItem(bytes).items)

Unsigned(tx) == [tx EXCEPT !.v = 0, !.r = <<0, 0>>, !.s = <<0, 0>>]

EthTxRoundTrip(tx, chainId) ==
    \A signed \in BOOLEAN :
        transactionRlpDecode(transactionRlpEncode(tx, chainId, signed), chainId) = IF signed THEN tx ELSE Unsigned(tx)
================================================================================
