------------------------------- MODULE KeyStrings -------------------------------
(***************************************************************************)
(* The strings a private key is written as: the wallet import format of    *)
(* BRKey.c and the key under a passphrase of BRBIP38Key.c.  A key is its   *)
(* secret of 32 bytes and whether its public key is compressed; scrypt, the*)
(* points and their products are functions of the bytes (stand-ins).       *)
(***************************************************************************)
EXTENDS Encodings, Aes

BITCOIN_PRIVKEY == 128
NoKey           == [secret |-> <<>>, compressed |-> FALSE]

\* (stand-ins) the public key of a secret, the product of two scalars, and scrypt's bytes for a passphrase
Pub(secret, compressed) ==
    LET n == IF compressed THEN 33 ELSE 65 IN Evaluated([i \in 1 .. n |-> (3 * secret[1 + (i % 32)] + i + n) % 256])
ModMul(a, b)            == Evaluated([i \in 1 .. 32 |-> (a[i] + 3 * b[33 - i] + i) % 256])
Scrypt(bytes, salt, n)  ==
    LET sum == SumOf(bytes) * 31 + SumOf(salt) * 7 IN Evaluated([i \in 1 .. n |-> (sum + i * i * 13) % 256])

\* BRKeyPrivKey
KeyPrivKey(key) == Base58CheckEncode(<<BITCOIN_PRIVKEY>> \o key.secret \o (IF key.compressed THEN <<1>> ELSE <<>>))

\* BRKeySetPrivKey; the hexadecimal and the mini format are left out
SetPrivKey(str) ==
    LET bytes(checked) == IF Len(checked) \in {0, 28} THEN Base58Decode(str) ELSE checked
        of(data) ==
            CASE Len(data) \in {33, 34} /\ data[1] = BITCOIN_PRIVKEY ->
                     [secret |-> SubSeq(data, 2, 33), compressed |-> Len(data) = 34]
              [] Len(data) = 32 -> [secret |-> data, compressed |-> FALSE]
              [] OTHER -> NoKey
    IN of(bytes(Base58CheckDecode(str)))

\* BRKeyAddress
KeyAddress(key) == Base58CheckEncode(<<PUBKEY_ADDRESS>> \o Hash160(Pub(key.secret, key.compressed)))

-----------------------------------------------------------------------------
BIP38_NOEC_PREFIX == <<1, 66>>
BIP38_EC_PREFIX   == <<1, 67>>

\* the flag's bits: the prefix' own, compressed, lot and sequence
Flag(noec, compressed, lot) == (IF noec THEN 192 ELSE 0) + (IF compressed THEN 32 ELSE 0) + (IF lot THEN 4 ELSE 0)
HasBit(flag, bit)           == (flag \div bit) % 2 = 1

AddressHash(key)  == Checksum(KeyAddress(key), 4)
FirstHalf(bytes)  == SubSeq(bytes, 1, Len(bytes) \div 2)
SecondHalf(bytes) == SubSeq(bytes, Len(bytes) \div 2 + 1, Len(bytes))

\* BRBIP38KeyIsValid
BIP38KeyIsValid(str) ==
    LET data    == Base58CheckDecode(str)
        invalid == {1, 2, 8, 16}
    IN /\ Len(data) = 39
       /\ ~ \E bit \in invalid : HasBit(data[3], bit)
       /\ \/ SubSeq(data, 1, 2) = BIP38_NOEC_PREFIX /\ data[3] >= 192 /\ ~HasBit(data[3], 4)
          \/ SubSeq(data, 1, 2) = BIP38_EC_PREFIX /\ data[3] < 64

\* What scrypt derives: half of it masks a part of 16 bytes, the other half is the key it is sealed under.
Mask(derived, part)         == IF part = 1 THEN SubSeq(derived, 1, 16) ELSE SubSeq(derived, 17, 32)
Sealed(derived, part, half) == AES256ECBEncrypt(SecondHalf(derived), XorBytes(half, Mask(derived, part)))
Opened(derived, part, half) == XorBytes(AES256ECBDecrypt(SecondHalf(derived), half), Mask(derived, part))

\* BRKeyBIP38Key
BIP38Key(key, passphrase) ==
    LET parts(derived) == <<Sealed(derived, 1, FirstHalf(key.secret)), Sealed(derived, 2, SecondHalf(key.secret))>>
        bytes(salt)    == BIP38_NOEC_PREFIX \o <<Flag(TRUE, key.compressed, FALSE)>> \o salt
                          \o FlattenSeq(parts(Scrypt(passphrase, salt, 64)))
    IN Base58CheckEncode(bytes(AddressHash(key)))

\* _BRBIP38DerivePassfactor, _BRBIP38DeriveKey
Passfactor(flag, entropy, passphrase) ==
    LET lot       == HasBit(flag, 4)
        prefactor == Scrypt(passphrase, SubSeq(entropy, 1, IF lot THEN 4 ELSE 8), 32)
    IN IF lot THEN Checksum(prefactor \o entropy, 32) ELSE prefactor
DeriveKey(passpoint, addresshash, entropy) == Scrypt(passpoint, addresshash \o entropy, 64)

\* the secret under the passphrase's own key, and the product with the secret of one who has the passphrase's point
PlainSecret(derived, first, second) == Opened(derived, 1, first) \o Opened(derived, 2, second)
ProductSecret(passfactor, derived, firstFirst, second) ==
    LET seedb(last) == Opened(derived, 1, firstFirst \o FirstHalf(last)) \o SecondHalf(last)
    IN ModMul(passfactor, Checksum(seedb(Opened(derived, 2, second)), 32))

\* BRKeySetBIP38Key: the key, and whether the passphrase gave the address that was written
SetBIP38Key(str, passphrase) ==
    LET read(key, hash) == [key |-> key, ok |-> AddressHash(key) = hash]
        product(data, passfactor) ==
            ProductSecret(passfactor, DeriveKey(Pub(passfactor, TRUE), SubSeq(data, 4, 7), SubSeq(data, 8, 15)),
                          SubSeq(data, 16, 23), SubSeq(data, 24, 39))
        secret(data) ==
            IF SubSeq(data, 1, 2) = BIP38_NOEC_PREFIX
            THEN PlainSecret(Scrypt(passphrase, SubSeq(data, 4, 7), 64), SubSeq(data, 8, 23), SubSeq(data, 24, 39))
            ELSE product(data, Passfactor(data[3], SubSeq(data, 8, 15), passphrase))
        of(data) ==
            IF Len(data) # 39 THEN [key |-> NoKey, ok |-> FALSE]
            ELSE read([secret |-> secret(data), compressed |-> HasBit(data[3], 32)], SubSeq(data, 4, 7))
    IN of(Base58CheckDecode(str))

\* (external) the key that another program made from a passphrase and its own 24 random bytes, as the code's
\* comments describe it
MadeElsewhere(passphrase, entropy, seedb, compressed, lot) ==
    LET flag                  == Flag(FALSE, compressed, lot)
        halves(derived, first) ==
            SubSeq(first, 1, 8) \o Sealed(derived, 2, SubSeq(first, 9, 16) \o SubSeq(seedb, 17, 24))
        sealed(derived)       == halves(derived, Sealed(derived, 1, SubSeq(seedb, 1, 16)))
        written(hash, passfactor) ==
            BIP38_EC_PREFIX \o <<flag>> \o hash \o entropy \o sealed(DeriveKey(Pub(passfactor, TRUE), hash, entropy))
        made(passfactor, key) == [key |-> key, str |-> Base58CheckEncode(written(AddressHash(key), passfactor))]
        of(passfactor)        ==
            made(passfactor, [secret |-> ModMul(passfactor, Checksum(seedb, 32)), compressed |-> compressed])
    IN of(Passfactor(flag, entropy, passphrase))

-----------------------------------------------------------------------------
\* A key is read back from its string, without and with a passphrase; one made elsewhere is the one its maker has.
KeyStringRoundTrip(key, passphrase) ==
    /\ SetPrivKey(KeyPrivKey(key)) = key
    /\ \A made \in {[key |-> key, str |-> BIP38Key(key, passphrase)]}
                   \union {MadeElsewhere(passphrase, SubSeq(key.secret, 1, 8), SubSeq(key.secret, 9, 32), key.compressed, lot)
                           : lot \in BOOLEAN} :
           BIP38KeyIsValid(made.str) /\ SetBIP38Key(made.str, passphrase) = [key |-> made.key, ok |-> TRUE]
================================================================================
