--------------------------------- MODULE Codecs ---------------------------------
(***************************************************************************)
(* What the core library writes and reads back: the inputs each format is    *)
(* checked on, one per behaviour, and what must hold of each.                *)
(***************************************************************************)
EXTENDS TxCodec, PaymentProtocol, Encodings, EthCodec

Cash    == INSTANCE CashAddr
UInt256 == INSTANCE UInt256
Strings == INSTANCE KeyStrings

VARIABLES input

NoInput    == [kind |-> "none"]
Unread(k)  == [kind |-> "unread", of |-> k]   \* before one of the inputs of a format is taken

-----------------------------------------------------------------------------
\* Bytes around the limits of the length's own encoding
Payloads == {<<>>, <<0>>, <<1>>, <<127>>, <<128>>, <<255>>, <<0, 7>>}
            \union {[i \in 1 .. n |-> 200] : n \in {54, 55, 56, 57, 255, 256, 257}}
Bytes    == [bytes : Payloads]
Lists    == {[items |-> s] : s \in UNION {[1 .. n -> [bytes : {<<>>, <<5>>, <<0, 7>>}]] : n \in 0 .. 3}}
            \union {[items |-> <<b>>] : b \in Bytes}
Nested   == {[items |-> <<a, b>>] : a \in Bytes, b \in Lists} \union {[items |-> <<a, b, a>>] : a, b \in Lists}

\* Hashes and seeds: all bytes alike, with and without zeros in front, and rising
Fill(n, v)   == [i \in 1 .. n |-> v]
Patterns(n)  == {Fill(n, v) : v \in {0, 1, 128, 255}} \union {[i \in 1 .. n |-> (i * 37) % 256]}
                \union {Zeros(n - 3) \o <<1, 0, 255>>}
ScriptsOf    == {<<OP_DUP, OP_HASH160, 20>> \o h \o <<OP_EQUALVERIFY, OP_CHECKSIG>> : h \in Patterns(20)}
                \union {<<OP_HASH160, 20>> \o h \o <<OP_EQUAL>> : h \in Patterns(20)}
                \union {<<33>> \o k \o <<OP_CHECKSIG>> : k \in Patterns(33)}
                \union {<<OP_0, n>> \o h : <<n, h>> \in UNION {{n} \X Patterns(n) : n \in {20, 32}}}
                \union {<<OP_1, n>> \o h : <<n, h>> \in UNION {{n} \X Patterns(n) : n \in {3, 5, 6, 7, 16, 31, 40}}}
Pushes       == {Fill(n, 7) : n \in {1, 20, 75, 76, 77, 254, 255, 256, 300}}
Entropies    == UNION {Patterns(n) : n \in {16, 20, 24, 28, 32}}

Numbers == {0, 1, 127, 128, 255, 256, 257, 65535, 65536, 16777215, 16777216, 2147483647}

TxInputs  == [outpoint : {"o1", "o2"}, script : {"p2pkh", "p2sh"}, amount : {7}, sequence : {"final"},
              signature : {NoScript, "sig", "sig2", "empty"}]
TxOutputs == [amount : {0, 7}, script : {"p2pkh", "data"}]
Txs       == [inputs  : UNION {[1 .. n -> TxInputs] : n \in 1 .. 2},
              outputs : UNION {[1 .. n -> TxOutputs] : n \in 0 .. 2}]

\* The fields of a message: two values of each, inner messages with and without what they must have, one key
\* that is not known
SeqsOf(S, max) == UNION {[1 .. n -> S] : n \in 0 .. max}
Leaf        == [bytes : {1, 2}]
OutputWires == {<<Field(2, [bytes |-> 1])>>, <<Field(1, [bytes |-> 1]), Field(2, [bytes |-> 2])>>,
                <<Field(1, [bytes |-> 1])>>, <<Field(2, [bytes |-> 1]), Field(20, [bytes |-> 1])>>}
InnerWires  == [output |-> OutputWires,
                details |-> {<<>>} \union {<<Field(2, [wire |-> w]), Field(4, [bytes |-> 1])>> : w \in OutputWires},
                payment |-> {<<>>} \union {<<Field(3, [wire |-> w]), Field(4, [bytes |-> 1])>> : w \in OutputWires}]
Inner(of)   == IF of = "bytes" THEN Leaf ELSE [wire : InnerWires[of]]
FieldsOf(name) ==
    UNION {{Field(k, v) : v \in Inner(Messages[name][k].of)} : k \in DOMAIN Messages[name]}
    \union {Field(20, v) : v \in Leaf}
\* of the encrypted message, the fields it must have and up to two more
Wires(name) == IF name = "encrypted"
               THEN {[i \in 1 .. 5 |-> Field(i, [bytes |-> 1])] \o s : s \in SeqsOf(FieldsOf(name), 2)}
               ELSE SeqsOf(FieldsOf(name), 3)

\* Digits of an amount, with a point, several or none of either
Amounts     == SeqsOf({0, 1, 2, UInt256!Dot}, 5)
Numerals(k) == SeqsOf(0 .. k - 1, CASE k = 2 -> 9 [] k = 3 -> 7 [] k = 4 -> 5)

KeyValues   == [secret : {Fill(32, 1), Fill(32, 255), [i \in 1 .. 32 |-> (i * 37) % 256],
                          [i \in 1 .. 32 |-> IF i < 30 THEN 0 ELSE i]}, compressed : BOOLEAN]

EthTxsOf(tokens) == [nonce : {0, 1, 128}, gasPrice : {0, 300}, gasLimit : {21000}, token : tokens,
                     target : {<<0, 9>>, <<255, 1>>}, amount : {0, 5, 256}, v : {27, 28},
                     r : {<<0, 1>>, <<200, 0>>}, s : {<<1, 2>>}]
SomeEthTxs  == {t \in EthTxsOf({<<>>, <<7, 8>>}) : t.nonce = 1 /\ t.gasPrice = 300 /\ t.amount = 5 /\ t.v = 27}
EthAddrs    == {Fill(20, 0), Fill(20, 255), [i \in 1 .. 20 |-> (i * 37) % 256]}
Topics      == {TopicOfAddress(x) : x \in EthAddrs} \union {Fill(32, 9)}
LogsWith(data, max) == [address : EthAddrs, topics : SeqsOf(Topics, max), data : data]
ReceiptLogs == {<<l>> : l \in LogsWith({Fill(55, 3), Fill(255, 3)}, 1)}
               \union {<<l, m>> : l \in LogsWith({Fill(55, 3)}, 1), m \in LogsWith({<<>>}, 0)}
BloomOfLog(log) == BloomOfAddress(log.address) \union UNION {BloomOfTopic(log.topics[i]) : i \in DOMAIN log.topics}
ReceiptOf(logs) == [stateRoot |-> Fill(32, 1), gasUsed |-> 300, logs |-> logs,
                    bloomFilter |-> UNION {BloomOfLog(logs[i]) : i \in DOMAIN logs}]
HeaderOf(bloom, n, nonce, extra) ==
    [f \in {"parentHash", "ommersHash", "stateRoot", "transactionsRoot", "receiptsRoot", "seedHash", "mixHash"} |->
        [i \in 1 .. 32 |-> (i * 37) % 256]]
    @@ [beneficiary |-> Fill(20, 3), logsBloom |-> bloom, difficulty |-> 131072, number |-> n, gasLimit |-> 255,
        gasUsed |-> 0, timestamp |-> 70000, extraData |-> extra, nonce |-> nonce]

-----------------------------------------------------------------------------
CodecKinds == {"rlp", "number", "ethereum", "log", "receipt", "header", "block", "account", "call", "tx", "script",
               "push", "phrase", "cash", "key", "message", "numeral", "amount"}

CodecInputs(k) ==
    CASE k = "rlp"      -> [kind : {k}, item : Bytes \union Lists \union Nested]
      [] k = "number"   -> [kind : {k}, n : Numbers, empty : BOOLEAN]
      [] k = "ethereum" -> [kind : {k}, chainId : {1, 3, 4}, tx : EthTxsOf({<<>>, <<7, 8>>})]
      [] k = "log"      -> [kind : {k}, log : LogsWith({<<>>, Fill(55, 3), Fill(255, 3)}, 2)]
      [] k = "receipt"  -> [kind : {k}, logs : ReceiptLogs]
      [] k = "header"   -> [kind : {k}, n : {0, 70000}, nonce : {0, 42}, extra : {<<>>, Fill(32, 200)}]
      [] k = "block"    -> [kind : {k}, txs : SeqsOf(SomeEthTxs, 1) \union {<<t, t>> : t \in SomeEthTxs}, ommers : 0 .. 2]
      [] k = "account"  -> [kind : {k}, nonce : {0, 1, 300}, balance : {0, 127, 128, 70000}]
      [] k = "call"     -> [kind : {k}, address : EthAddrs, amount : {0, 1, 255, 65536, 2147483647}]
      [] k = "tx"       -> [kind : {k}, tx : Txs]
      [] k = "script"   -> [kind : {k}, script : ScriptsOf]
      [] k = "push"     -> [kind : {k}, data : Pushes]
      [] k = "phrase"   -> [kind : {k}, data : Entropies]
      [] k = "cash"     -> [kind : {k}, version : {0, 5, 111, 196}, hash : Patterns(20)]
      [] k = "key"      -> [kind : {k}, key : KeyValues, passphrase : {<<>>, <<80, 81, 82>>}]
      [] k = "message"  -> UNION {[kind : {k}, name : {m}, wire : Wires(m)] : m \in DOMAIN Messages}
      [] k = "numeral"  -> UNION {[kind : {k}, base : {b}, digits : Numerals(b)] : b \in 2 .. 4}
      [] k = "amount"   -> [kind : {k}, digits : Amounts, decimals : 0 .. 2]

\* What one part of the library writes, another or the same part reads back as it was: RLP items, Ethereum
\* transactions, logs, receipts, headers, blocks, accounts and token calls, Bitcoin transactions, scripts and
\* addresses, recovery phrases, private keys, BIP70 messages and amounts.
RoundTrips ==
    CASE input.kind = "rlp"      -> GetItem(Encode(input.item)) = input.item
      [] input.kind = "number"   -> DecodeNumber(EncodeNumber(input.n, input.empty), input.empty) = input.n
      [] input.kind = "ethereum" -> EthTxRoundTrip(input.tx, input.chainId)
      [] input.kind = "log"      -> LogRoundTrip(input.log)
      [] input.kind = "receipt"  ->
            LET receipt == ReceiptOf(input.logs)
            IN /\ ReceiptRoundTrip(receipt)
               /\ \A x \in EthAddrs : LogsAreFound(receipt, HeaderOf(receipt.bloomFilter, 1, 1, <<>>), x)
      [] input.kind = "header"   -> HeaderRoundTrip(HeaderOf({}, input.n, input.nonce, input.extra))
      [] input.kind = "block"    ->
            BlockRoundTrip([header |-> HeaderOf({1}, 5, 6, <<>>), transactions |-> input.txs,
                            ommers |-> [i \in 1 .. input.ommers |-> HeaderOf({7}, i, 1, <<>>)]], 1)
      [] input.kind = "account"  ->
            StateRoundTrip([nonce |-> input.nonce, balance |-> input.balance, storageRoot |-> Fill(32, 37),
                            codeHash |-> Fill(32, 0)])
      [] input.kind = "call"     -> TransferRoundTrip(HexPrefix \o HexOf(input.address), input.amount) /\ SelectorsDiffer
      [] input.kind = "tx"       -> TxRoundTrip(input.tx) /\ TxSize(input.tx) /\ SignsTheSame(input.tx)
      [] input.kind = "script"   -> ScriptRoundTrip(input.script)
      [] input.kind = "push"     -> PushRoundTrip(input.data)
      [] input.kind = "phrase"   -> PhraseRoundTrip(input.data)
      [] input.kind = "cash"     -> Cash!CashRoundTrip(input.version, input.hash)
      [] input.kind = "key"      -> Strings!KeyStringRoundTrip(input.key, input.passphrase)
      [] input.kind = "message"  -> MessageRoundTrip(input.name, input.wire)
      [] input.kind = "numeral"  -> UInt256!ParseAgrees(input.digits, input.base)
      [] input.kind = "amount"   -> UInt256!AmountAgrees(input.digits, input.decimals)
      [] OTHER -> TRUE
================================================================================
