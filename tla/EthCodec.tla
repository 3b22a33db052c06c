-------------------------------- MODULE EthCodec --------------------------------
(***************************************************************************)
(* BREthereumBlock.c, BREthereumTransactionReceipt.c, BREthereumLog.c,       *)
(* BREthereumAccountState.c, BREthereumBloomFilter.c and                     *)
(* BREthereumContract.c: the records of the chain as items of the RLP coder, *)
(* the bloom filter that finds them, and the calls of a token's contract.    *)
(* A bloom filter is the set of its bits; a text is the sequence of its      *)
(* letters, a hexadecimal digit being its value.                             *)
(***************************************************************************)
EXTENDS Rlp, Strict

BLOOM_FILTER_BITS  == 2048
BLOOM_FILTER_BYTES == BLOOM_FILTER_BITS \div 8
HASH_BYTES         == 32
ADDRESS_BYTES      == 20

NoBytes(n) == [i \in 1 .. n |-> 0]

\* BRKeccak256 (a stand-in): the length, the first and the last bytes tell the data apart
Ends(data)   == IF Len(data) <= 64 THEN data ELSE SubSeq(data, 1, 32) \o SubSeq(data, Len(data) - 31, Len(data))
Keccak(data) == LET n == FoldLeft(LAMBDA h, b : (h * 31 + b + 7) % 65521, Len(data), Ends(data))
                IN Evaluated([i \in 1 .. HASH_BYTES |-> ((n + 1) * i * 37) % 256])

-----------------------------------------------------------------------------
CreateIndex(high, low) == (high * 256 + low) % BLOOM_FILTER_BITS

BloomOfHash(hash)    == {CreateIndex(hash[1], hash[2]), CreateIndex(hash[3], hash[4]), CreateIndex(hash[5], hash[6])}
BloomOfAddress(addr) == BloomOfHash(Keccak(addr))
BloomOr(f, g)        == f \union g
BloomMatch(f, other) == f = BloomOr(f, other)

\* bloomFilterSetBit at bloomFilterExtractLocation: the byte and the bit of an index
BloomByte(index)     == (BLOOM_FILTER_BITS - 1 - index) \div 8
BloomBytes(f)     == Evaluated([k \in 1 .. BLOOM_FILTER_BYTES |->
                                  MapThenSumSet(LAMBDA i : 2^(i % 8), {i \in f : BloomByte(i) = k - 1})])
BloomRlpEncode(f) == [bytes |-> BloomBytes(f)]
BloomRlpDecode(item) ==
    LET bit(i) == (item.bytes[BloomByte(i) + 1] \div 2^(i % 8)) % 2      \* bit i % 8 of its byte
    IN {i \in 0 .. BLOOM_FILTER_BITS - 1 : bit(i) = 1}

TopicOfAddress(addr) == NoBytes(HASH_BYTES - ADDRESS_BYTES) \o addr
BloomOfTopic(topic)  == BloomOfHash(Keccak(topic))

\* blockHeaderMatchAddress and transactionReceiptMatchAddress
HeaderMatches(header, addr) ==
    BloomMatch(header.logsBloom, BloomOfAddress(addr)) \/ BloomMatch(header.logsBloom, BloomOfTopic(TopicOfAddress(addr)))
ReceiptMatches(receipt, addr) == BloomMatch(receipt.bloomFilter, BloomOfTopic(TopicOfAddress(addr)))

-----------------------------------------------------------------------------
\* rlpEncodeItemUInt64 and rlpEncodeItemUInt256 as items of a list
NumberItem(n, zeroAsEmptyString) == [bytes |-> IF n = 0 /\ zeroAsEmptyString THEN <<>> ELSE BigEndian(n)]
NumberOf(item)                   == FromBigEndian(item.bytes)
ListItem(items)                  == [items |-> items]

logTopicsRlpEncodeItem(log) == ListItem([i \in DOMAIN log.topics |-> [bytes |-> log.topics[i]]])
logRlpEncodeItem(log) == ListItem(<<[bytes |-> log.address], logTopicsRlpEncodeItem(log), [bytes |-> log.data]>>)

\* dataCount is one byte wide
logRlpDecodeItem(item) ==
    [address |-> item.items[1].bytes,
     topics  |-> [i \in DOMAIN item.items[2].items |-> item.items[2].items[i].bytes],
     data    |-> SubSeq(item.items[3].bytes, 1, Len(item.items[3].bytes) % 256)]

receiptRlpEncodeItem(receipt) ==
    ListItem(<<[bytes |-> receipt.stateRoot], NumberItem(receipt.gasUsed, FALSE), BloomRlpEncode(receipt.bloomFilter),
               ListItem([i \in DOMAIN receipt.logs |-> logRlpEncodeItem(receipt.logs[i])])>>)

receiptRlpDecodeItem(item) ==
    [stateRoot   |-> item.items[1].bytes,
     gasUsed     |-> NumberOf(item.items[2]),
     bloomFilter |-> BloomRlpDecode(item.items[3]),
     logs        |-> [i \in DOMAIN item.items[4].items |-> logRlpDecodeItem(item.items[4].items[i])]]

\* etherRlpEncode writes zero as the empty string
accountStateRlpEncodeItem(state) ==
    ListItem(<<NumberItem(state.nonce, FALSE), NumberItem(state.balance, TRUE), [bytes |-> state.storageRoot],
               [bytes |-> state.codeHash]>>)
accountStateRlpDecodeItem(item) ==
    [nonce |-> NumberOf(item.items[1]), balance |-> NumberOf(item.items[2]), storageRoot |-> item.items[3].bytes,
     codeHash |-> item.items[4].bytes]

-----------------------------------------------------------------------------
\* The fields of a block header in their order; the last three are left out of what the nonce is looked for
HeaderHashes  == <<"parentHash", "ommersHash", "beneficiary", "stateRoot", "transactionsRoot", "receiptsRoot">>
HeaderNumbers == <<"difficulty", "number", "gasLimit", "gasUsed", "timestamp">>

blockHeaderRlpEncodeItem(header, withNonce) ==
    ListItem([i \in 1 .. 6 |-> [bytes |-> header[HeaderHashes[i]]]]
             \o <<BloomRlpEncode(header.logsBloom)>>
             \o [i \in 1 .. 5 |-> NumberItem(header[HeaderNumbers[i]], FALSE)]
             \o <<[bytes |-> header.extraData]>>
             \o IF withNonce THEN <<[bytes |-> header.seedHash], [bytes |-> header.mixHash], NumberItem(header.nonce, FALSE)>>
                ELSE <<>>)

blockHeaderRlpDecodeItem(item) ==
    LET at(i)     == item.items[i]
        hashes    == [f \in {HeaderHashes[i] : i \in 1 .. 6} |-> at(CHOOSE i \in 1 .. 6 : HeaderHashes[i] = f).bytes]
        numbers   == [f \in {HeaderNumbers[i] : i \in 1 .. 5} |-> NumberOf(at(7 + CHOOSE i \in 1 .. 5 : HeaderNumbers[i] = f))]
        withNonce == Len(item.items) = 16
    IN hashes @@ numbers @@
       [logsBloom |-> BloomRlpDecode(at(7)), extraData |-> at(13).bytes,
        seedHash |-> IF withNonce THEN at(14).bytes ELSE NoBytes(HASH_BYTES),
        mixHash  |-> IF withNonce THEN at(15).bytes ELSE NoBytes(HASH_BYTES),
        nonce    |-> IF withNonce THEN NumberOf(at(16)) ELSE 0]

\* blockHeaderDecodeRLP: the hash is of all the bytes that were read, and only a header with a nonce has one
blockHeaderDecodeRLP(bytes) ==
    LET header == blockHeaderRlpDecodeItem(GetItem(bytes))
    IN header @@ [hash |-> IF header.nonce # 0 THEN Keccak(bytes) ELSE NoBytes(HASH_BYTES)]

\* The transactions of a block are items as transactionRlpEncode gives them.
blockRlpEncodeItem(block, chainId) ==
    ListItem(<<blockHeaderRlpEncodeItem(block.header, TRUE),
               ListItem([i \in DOMAIN block.transactions |-> GetItem(transactionRlpEncode(block.transactions[i], chainId, TRUE))]),
               ListItem([i \in DOMAIN block.ommers |-> blockHeaderRlpEncodeItem(block.ommers[i], TRUE)])>>)

blockRlpDecodeItem(item, chainId) ==
    [header       |-> blockHeaderRlpDecodeItem(item.items[1]),
     transactions |-> [i \in DOMAIN item.items[2].items |-> transactionRlpDecode(Encode(item.items[2].items[i]), chainId)],
     ommers       |-> [i \in DOMAIN item.items[3].items |-> blockHeaderRlpDecodeItem(item.items[3].items[i])]]

-----------------------------------------------------------------------------
(* The contract ERC20 *)

LetterX   == 16
HexPrefix == <<0, LetterX>>

Functions == <<[name |-> "totalSupply",  selector |-> <<1, 8, 1, 6, 0, 13, 13, 13>>,  arguments |-> <<>>],
               [name |-> "balanceOf",    selector |-> <<7, 0, 10, 0, 8, 2, 3, 1>>,    arguments |-> <<"address">>],
               [name |-> "transfer",     selector |-> <<10, 9, 0, 5, 9, 12, 11, 11>>, arguments |-> <<"address", "uint256">>],
               [name |-> "transferFrom", selector |-> <<2, 3, 11, 8, 7, 2, 13, 13>>,
                arguments |-> <<"address", "address", "uint256">>],
               [name |-> "approve",      selector |-> <<0, 9, 5, 14, 10, 7, 11, 3>>,  arguments |-> <<"address", "uint256">>],
               [name |-> "allowance",    selector |-> <<13, 13, 6, 2, 14, 13, 3, 14>>, arguments |-> <<"address", "address">>]>>

\* encodeHex and decodeHex
HexOf(bytes)     == FlattenSeq([i \in DOMAIN bytes |-> <<bytes[i] \div 16, bytes[i] % 16>>])
BytesOf(letters) == [i \in 1 .. Len(letters) \div 2 |-> letters[2 * i - 1] * 16 + letters[2 * i]]

\* A UInt256 has its lowest byte first.
UInt256Bytes(n) == Reverse(BigEndian(n)) \o NoBytes(32 - Len(BigEndian(n)))

argumentEncodeAddress(letters) ==
    LET bytes == BytesOf(letters) IN NoBytes(32 - Len(letters) \div 2) \o bytes
argumentEncodeUInt256(bytes) == Reverse(bytes)

\* The selector without its "0x", then 64 letters for each argument
contractEncode(function, args) ==
    function.selector \o
    FlattenSeq([i \in DOMAIN args |-> HexOf(IF function.arguments[i] = "address" THEN argumentEncodeAddress(args[i])
                                            ELSE argumentEncodeUInt256(args[i]))])

functionIsEncodedInData(function, data) == IsPrefix(HexPrefix \o function.selector, data)

NoFunction == [name |-> "none"]
contractLookupFunctionForEncoding(data) ==
    LET found == {i \in DOMAIN Functions : functionIsEncodedInData(Functions[i], data)}
    IN IF found = {} THEN NoFunction ELSE Functions[CHOOSE i \in found : \A j \in found : i <= j]

TransferDecodeAddress(data) == HexPrefix \o SubSeq(data, 10 + 24 + 1, 10 + 24 + 40)
\* createUInt256Parse of the rest in base 16
TransferDecodeAmount(data)  == FoldLeft(LAMBDA n, d : 16 * n + d, 0, SubSeq(data, 10 + 64 + 1, Len(data)))

EventEncodeAddress(address) == HexPrefix \o NoBytes(24) \o SubSeq(address, 3, 42)
EventDecodeAddress(topic)   == HexPrefix \o SubSeq(topic, 2 + 24 + 1, 2 + 24 + 40)

-----------------------------------------------------------------------------
LogRoundTrip(log)         == Len(log.data) < 256 => logRlpDecodeItem(GetItem(Encode(logRlpEncodeItem(log)))) = log
ReceiptRoundTrip(receipt) == receiptRlpDecodeItem(GetItem(Encode(receiptRlpEncodeItem(receipt)))) = receipt
StateRoundTrip(state)     == accountStateRlpDecodeItem(GetItem(Encode(accountStateRlpEncodeItem(state)))) = state
BlockRoundTrip(block, chainId) ==
    blockRlpDecodeItem(GetItem(Encode(blockRlpEncodeItem(block, chainId))), chainId) = block

\* A header is itself again, its hash is the same whoever reads it, and without its nonce only the last fields differ.
HeaderRoundTrip(header) ==
    LET read(withNonce) == LET bytes == Encode(blockHeaderRlpEncodeItem(header, withNonce))
                           IN <<bytes, blockHeaderDecodeRLP(bytes)>>
        fields          == DOMAIN header
    IN /\ \A r \in {read(TRUE)} : /\ \A f \in fields : r[2][f] = header[f]
                                  /\ header.nonce # 0 => r[2].hash = Keccak(r[1])
       /\ \A r \in {read(FALSE)} : \A f \in fields \ {"seedHash", "mixHash", "nonce"} : r[2][f] = header[f]

\* What is in the logs is found by the filters of the receipt and of the header made from them.
LogsAreFound(receipt, header, addr) ==
    /\ \A log \in {receipt.logs[i] : i \in DOMAIN receipt.logs} :
          \A t \in {log.topics[i] : i \in DOMAIN log.topics} : t = TopicOfAddress(addr) =>
              ReceiptMatches(receipt, addr) /\ HeaderMatches(header, addr)
    /\ (\E i \in DOMAIN receipt.logs : receipt.logs[i].address = addr) => HeaderMatches(header, addr)

\* The call of the contract is known again as the same function, with the receiver and the amount it was made of.
TransferRoundTrip(address, amount) ==
    LET data == HexPrefix \o contractEncode(Functions[3], <<SubSeq(address, 3, 42), UInt256Bytes(amount)>>)
    IN /\ contractLookupFunctionForEncoding(data) = Functions[3]
       /\ TransferDecodeAddress(data) = address
       /\ TransferDecodeAmount(data) = amount
       /\ EventDecodeAddress(EventEncodeAddress(address)) = address

SelectorsDiffer ==
    \A f \in DOMAIN Functions : contractLookupFunctionForEncoding(HexPrefix \o Functions[f].selector) = Functions[f]
================================================================================
