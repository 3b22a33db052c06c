-------------------------------- MODULE CashAddr --------------------------------
(***************************************************************************)
(* bcash/BRBCashAddr.c: the addresses of Bitcoin Cash and the Bitcoin       *)
(* addresses they stand for.  Such an address is its prefix, its letters and *)
(* the case of either; without a prefix the prefix is "".                    *)
(***************************************************************************)
EXTENDS Encodings

PUBKEY_ADDRESS_TEST  == 111
SCRIPT_ADDRESS_TEST  == 196
BCASH_PUBKEY_ADDRESS == 28
BCASH_SCRIPT_ADDRESS == 40
CashPrefixes         == <<"bitcoincash", "bchtest", "bchreg">>

\* polymod over the prefix and the letters (a stand-in): eight letters
Polymod(hrp, groups) ==
    LET prefix == CHOOSE i \in 1 .. 3 : CashPrefixes[i] = hrp
        sum    == Checksum(<<prefix>> \o groups, 8)
    IN [i \in 1 .. 8 |-> sum[i] % 32]

Cash(hrp, hrpUpper, letters, upper) == [hrp |-> hrp, hrpUpper |-> hrpUpper, letters |-> letters, upper |-> upper]

\* _BRBCashAddrDecode: the 21 bytes, <<>> for none; without a prefix the first letter is taken for the colon
NoCash == [hrp |-> "", data |-> <<>>]
CashDecode(addr) ==
    LET n      == Len(addr.letters)
        groups == SubSeq(addr.letters, 1, n - 8)
    IN IF addr.hrp = "" \/ n < 41 \/ addr.upper # addr.hrpUpper \/ SubSeq(addr.letters, n - 7, n) # Polymod(addr.hrp, groups)
          \/ ((n + 1 - 8) * 5) \div 8 # 21
       THEN NoCash
       ELSE [hrp |-> addr.hrp, data |-> SubSeq(Ungrouped(groups \o <<0, 0>>), 1, 21)]

\* _BRBCashAddrEncode
CashEncode(hrp, data) == LET groups == Groups(data) IN Cash(hrp, FALSE, groups \o Polymod(hrp, groups), FALSE)

NoVersion == -1
VersionOf(byte, test) == CASE byte = 0 -> IF test THEN PUBKEY_ADDRESS_TEST ELSE PUBKEY_ADDRESS
                           [] byte = 8 -> IF test THEN SCRIPT_ADDRESS_TEST ELSE SCRIPT_ADDRESS
                           [] OTHER    -> NoVersion

\* what an address of either kind stands for: its version and its bytes
Meaning(cash) == [version |-> VersionOf(cash.data[1], cash.hrp # "bitcoincash"), data |-> cash.data]
OldMeaning(data) ==
    [version |-> CASE Len(data) # 21 -> NoVersion
                   [] data[1] = BCASH_PUBKEY_ADDRESS -> PUBKEY_ADDRESS
                   [] data[1] = BCASH_SCRIPT_ADDRESS -> SCRIPT_ADDRESS
                   [] OTHER -> NoVersion, data |-> data]

\* the letters that are put behind a prefix
Room(hrp)           == CASE hrp = "bitcoincash" -> 42 [] hrp = "bchtest" -> 46 [] hrp = "bchreg" -> 47
Behind(addr, hrp, u) ==
    Cash(hrp, u, SubSeq(addr.letters, 1, IF Len(addr.letters) < Room(hrp) THEN Len(addr.letters) ELSE Room(hrp)), addr.upper)

\* BRBCashAddrDecode, the address it gives if any: as it is, as an old address, or behind each prefix in lower and in
\* upper case
BCashAddrDecode(addr) ==
    LET asCash      == {addr} \union {Behind(addr, hrp, u) : hrp \in IF addr.hrp = "" THEN Range(CashPrefixes) ELSE {}, 
                                          u \in BOOLEAN}
        first(read) == {c \in read : c.hrp = "bitcoincash" \/ \A d \in read : d.hrp # "bitcoincash"}
        meanings    == IF "letters" \in DOMAIN addr
                       THEN {Meaning(c) : c \in first({CashDecode(a) : a \in asCash} \ {NoCash})}
                       ELSE {OldMeaning(data) : data \in {Base58CheckDecode(addr.base58)}}
    IN {Base58CheckEncode(<<m.version>> \o Tail(m.data)) : m \in {m \in meanings : m.version # NoVersion}}

\* BRBCashAddrEncode of a Bitcoin address
BCashAddrEncode(bitcoinAddr) ==
    LET data   == Base58CheckDecode(bitcoinAddr)
        script == data[1] \in {SCRIPT_ADDRESS, SCRIPT_ADDRESS_TEST}
        hrp    == IF data[1] \in {PUBKEY_ADDRESS, SCRIPT_ADDRESS} THEN "bitcoincash" ELSE "bchtest"
    IN CashEncode(hrp, <<IF script THEN 8 ELSE 0>> \o Tail(data))

-----------------------------------------------------------------------------
\* An address is read back in either case and with or without its prefix, and not in a mix of cases; an old one of
\* Bitcoin Cash is read as the one of Bitcoin.
CashRoundTrip(version, hash) ==
    LET old(v)              == [base58 |-> Base58CheckEncode(<<v>> \o hash)]
        sees(bitcoin, cash) ==
            /\ \A hrp \in {cash.hrp, ""}, hrpUpper \in BOOLEAN, upper \in BOOLEAN :
                   BCashAddrDecode([cash EXCEPT !.hrp = hrp, !.hrpUpper = hrpUpper, !.upper = upper])
                       = IF hrp # "" /\ hrpUpper # upper THEN {} ELSE {bitcoin}
            /\ \A pair \in {<<PUBKEY_ADDRESS, BCASH_PUBKEY_ADDRESS>>, <<SCRIPT_ADDRESS, BCASH_SCRIPT_ADDRESS>>} :
                   version = pair[1] => BCashAddrDecode(old(pair[2])) = {bitcoin}
    IN \A bitcoin \in {Base58CheckEncode(<<version>> \o hash)} : sees(bitcoin, BCashAddrEncode(bitcoin))
================================================================================
