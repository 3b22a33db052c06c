-------------------------------- MODULE Encodings --------------------------------
(***************************************************************************)
(* BRBase58.c, BRBech32.c, BRAddress.c and BRBIP39Mnemonic.c: scripts, the  *)
(* addresses that stand for them, and the phrase that stands for a seed.    *)
(* The letters of an address are their digits and the words of a phrase     *)
(* their places in the list; hashes are functions of the bytes.             *)
(***************************************************************************)
EXTENDS Integers, SequencesExt, Strict

Zeros(n)       == [i \in 1 .. n |-> 0]
LeadingZeros(s) == CHOOSE n \in 0 .. Len(s) : (\A i \in 1 .. n : s[i] = 0) /\ (n = Len(s) \/ s[n + 1] # 0)
Stripped(s)    == SubSeq(s, LeadingZeros(s) + 1, Len(s))
SumOf(s)       == FoldLeft(+, 0, s)

\* BRSHA256, BRSHA256_2, BRHash160 (stand-ins)
Checksum(bytes, n) == LET sum == SumOf(bytes) IN Evaluated([i \in 1 .. n |-> (sum * 31 + i * Len(bytes)) % 256])
Hash160(bytes)     == SubSeq(bytes, 2, 21)

-----------------------------------------------------------------------------
\* buf * mul + add, in digits of the base, the last digit first; what does not fit is lost
MulAdd(buf, mul, add, base) ==
    LET step(s, i) == LET value == s.carry + buf[Len(buf) - i] * mul
                      IN [carry |-> value \div base, digits |-> <<value % base>> \o s.digits]
    IN Rounds(step, [carry |-> add, digits |-> <<>>], Len(buf)).digits

Converted(digits, from, to, size) ==
    Rounds(LAMBDA buf, i : MulAdd(buf, from, digits[i + 1], to), Zeros(size), Len(digits))

\* A leading zero byte is a leading zero digit.
Base58Encode(data) ==
    LET rest == Stripped(data)
    IN Zeros(LeadingZeros(data)) \o Stripped(Converted(rest, 256, 58, (Len(rest) * 138) \div 100 + 1))

Base58Decode(str) ==
    LET rest == Stripped(str)
    IN Zeros(LeadingZeros(str)) \o Stripped(Converted(rest, 58, 256, (Len(rest) * 733) \div 1000 + 1))

Base58CheckEncode(data) == Base58Encode(data \o Checksum(data, 4))

\* <<>> if the checksum does not match
Base58CheckDecode(str) ==
    LET checked(all, data) ==
            IF Len(all) >= 4 /\ SubSeq(all, Len(all) - 3, Len(all)) = Checksum(data, 4) THEN data ELSE <<>>
        of(all) == checked(all, SubSeq(all, 1, Len(all) - 4))
    IN of(Base58Decode(str))

-----------------------------------------------------------------------------
OP_0           == 0
OP_PUSHDATA1   == 76
OP_PUSHDATA2   == 77
OP_PUSHDATA4   == 78
OP_1           == 81
OP_16          == 96
OP_DUP         == 118
OP_EQUAL       == 135
OP_EQUALVERIFY == 136
OP_HASH160     == 169
OP_CHECKSIG    == 172

\* BRBech32Encode: groups of five bits; x bits of the byte before are left when byte j begins
Groups(bytes) ==
    LET n      == Len(bytes)
        at(j)  == IF j \in 1 .. n THEN bytes[j] ELSE 0
        x(j)   == (8 * j) % 5
        one(j) == IF j < n \/ j % 5 > 0 THEN <<(at(j) * 2^(5 - x(j)) + at(j + 1) \div 2^(3 + x(j))) % 32>> ELSE <<>>
        two(j) == IF x(j) >= 2 /\ j < n THEN <<(at(j + 1) \div 2^(x(j) - 2)) % 32>> ELSE <<>>
    IN FlattenSeq([i \in 1 .. n + 1 |-> one(i - 1) \o two(i - 1)])

Bech32Encode(script) ==
    LET program == <<IF script[1] >= OP_1 THEN script[1] + 1 - OP_1 ELSE 0>> \o Groups(SubSeq(script, 3, 2 + script[2]))
    IN program \o Checksum(program, 6)

\* BRBech32Decode: group j has its bits from bit 5 j on
Ungrouped(groups) ==
    LET n       == (Len(groups) * 5) \div 8
        x(j)    == (5 * j) % 8
        bits(j, k) == LET c == groups[j + 1] IN
                      CASE k = (5 * j) \div 8                   -> (c * 8) \div 2^x(j)
                        [] k = (5 * j) \div 8 + 1 /\ x(j) > 3   -> (c * 2^(11 - x(j))) % 256
                        [] OTHER -> 0
    IN [k \in 1 .. n |-> SumOf([i \in DOMAIN groups |-> bits(i - 1, k - 1)])]

Bech32Decode(str) ==
    LET program == SubSeq(str, 1, Len(str) - 6)
        bytes   == Ungrouped(Tail(program))
    IN IF SubSeq(str, Len(str) - 5, Len(str)) # Checksum(program, 6) \/ program[1] > 16 \/ Len(bytes) \notin 2 .. 40
       THEN <<>>
       ELSE <<IF program[1] = 0 THEN OP_0 ELSE program[1] + OP_1 - 1, Len(bytes)>> \o bytes

-----------------------------------------------------------------------------
\* BRScriptPushData
PushData(data) ==
    LET n == Len(data)
    IN (CASE n < OP_PUSHDATA1               -> <<n>>
          [] n >= OP_PUSHDATA1 /\ n < 255   -> <<OP_PUSHDATA1, n>>
          [] OTHER                          -> <<OP_PUSHDATA2, n % 256, n \div 256>>) \o data

\* BRScriptElements with BRScriptData: the elements, none if the last is cut off
CutOff == [op |-> -1, data |-> <<>>]
RECURSIVE ElementsR(_)
ElementsR(script) ==
    LET op   == script[1]
        head == CASE op = OP_PUSHDATA1 -> 2 [] op = OP_PUSHDATA2 -> 3 [] OTHER -> 1
        len  == CASE op = OP_PUSHDATA1 -> script[2]
                  [] op = OP_PUSHDATA2 -> script[2] + 256 * script[3]
                  [] OTHER             -> IF op > OP_PUSHDATA4 THEN 0 ELSE op
    IN IF script = <<>> THEN <<>>
       ELSE IF head > Len(script) \/ head + len > Len(script) THEN <<CutOff>>
       ELSE <<[op |-> op, data |-> SubSeq(script, head + 1, head + len)]>>
            \o ElementsR(SubSeq(script, head + len + 1, Len(script)))

Elements(script) ==
    LET e == ElementsR(script) IN IF e # <<>> /\ Last(e) = CutOff THEN <<>> ELSE e

PUBKEY_ADDRESS == 0
SCRIPT_ADDRESS == 5
NoAddress == [base58 |-> <<>>]

\* BRAddressFromScriptPubKey
AddressFromScriptPubKey(script) ==
    LET e   == Elements(script)
        ops == [i \in DOMAIN e |-> e[i].op]
    IN CASE ops = <<OP_DUP, OP_HASH160, 20, OP_EQUALVERIFY, OP_CHECKSIG>> ->
                [base58 |-> Base58CheckEncode(<<PUBKEY_ADDRESS>> \o e[3].data)]
         [] ops = <<OP_HASH160, 20, OP_EQUAL>> -> [base58 |-> Base58CheckEncode(<<SCRIPT_ADDRESS>> \o e[2].data)]
         [] Len(ops) = 2 /\ ops[1] \in {33, 65} /\ ops[2] = OP_CHECKSIG ->
                [base58 |-> Base58CheckEncode(<<PUBKEY_ADDRESS>> \o Hash160(e[1].data))]
         [] Len(ops) = 2 /\ \/ ops[1] = OP_0 /\ ops[2] \in {20, 32}
                            \/ ops[1] \in OP_1 .. OP_16 /\ ops[2] \in 2 .. 40 ->
                [bech32 |-> Bech32Encode(script)]
         [] OTHER -> NoAddress

\* BRAddressScriptPubKey
ScriptPubKey(address) ==
    LET data == IF "base58" \in DOMAIN address THEN Base58CheckDecode(address.base58) ELSE Bech32Decode(address.bech32)
    IN CASE "bech32" \in DOMAIN address /\ Len(data) > 2 /\ (data[1] # OP_0 \/ data[2] \in {20, 32}) -> data
         [] "base58" \in DOMAIN address /\ Len(data) = 21 /\ data[1] = PUBKEY_ADDRESS ->
                <<OP_DUP, OP_HASH160, 20>> \o Tail(data) \o <<OP_EQUALVERIFY, OP_CHECKSIG>>
         [] "base58" \in DOMAIN address /\ Len(data) = 21 /\ data[1] = SCRIPT_ADDRESS ->
                <<OP_HASH160, 20>> \o Tail(data) \o <<OP_EQUAL>>
         [] OTHER -> <<>>

\* An address stands for the script it was made from; for a public key, for the hash of the key.
ScriptRoundTrip(script) ==
    LET agree(e, address, read) ==
            IF Len(e) = 2 /\ e[2].op = OP_CHECKSIG THEN read # <<>> /\ AddressFromScriptPubKey(read) = address
            ELSE read = script
    IN \A address \in {AddressFromScriptPubKey(script)} : agree(Elements(script), address, ScriptPubKey(address))

PushRoundTrip(data) == Len(data) # 0 => Elements(PushData(data)) = <<[op |-> PushData(data)[1], data |-> data]>>

-----------------------------------------------------------------------------
\* BRBIP39Encode: word i is the eleven bits from bit 11 i on, of the data and its checksum
Phrase(data) ==
    LET buf     == data \o Checksum(data, 4)
        word(i) == LET b    == (11 * i) \div 8
                       top3 == (buf[b + 1] * 256 + buf[b + 2]) * 256 + buf[b + 3]
                   IN (top3 \div 2^(24 - (11 + ((11 * i) % 8)))) % 2048
    IN [i \in 1 .. (Len(data) * 3) \div 4 |-> word(i - 1)]

\* BRBIP39Decode: byte i from word 8 i / 11 and the one behind it; <<>> if the checksum does not match
Seed(words) ==
    LET count   == Len(words)
        byte(i) == LET w == (8 * i) \div 11
                       y == IF w + 1 < count THEN words[w + 2] ELSE 0
                   IN ((words[w + 1] * 2048 + y) \div 2^((w + 2) * 11 - (i + 1) * 8)) % 256
        buf     == [i \in 1 .. (count * 11 + 7) \div 8 |-> byte(i - 1)]
        data    == SubSeq(buf, 1, (count * 4) \div 3)
        shift   == 2^(8 - count \div 3)
    IN IF count % 3 = 0 /\ Last(buf) \div shift = Checksum(data, 4)[1] \div shift THEN data ELSE <<>>

PhraseRoundTrip(data) == Seed(Phrase(data)) = data
================================================================================
