---------------------------------- MODULE Keys ----------------------------------
(***************************************************************************)
(* BRBIP32Sequence.c, BRKey.c, BRKeyECIES.c and the keys of                *)
(* ethereum/BREthereumAccount.c, over a group of a small prime order N: the*)
(* point k is the k-th multiple of the generator, -k has its x and the     *)
(* other parity, 0 is no key and no point.  Hashes, signatures and ciphers *)
(* are functions of what they are given (stand-ins).                       *)
(***************************************************************************)
EXTENDS Integers, SequencesExt

N         == 11
BIP32_HARD == 128
Secrets   == 1 .. N - 1

\* BRHMAC with SHA512, its left half a scalar and its right half a chain code; BRSHA256; BRKeccak256
Hmac(c, data)  == [left  |-> (7 * c + 3 * data[1] + 5 * data[2] * data[2] + 2 * data[3] + data[2] * data[3]) % N,
                   right |-> (3 * c + data[1] + 4 * data[2] + 7 * data[3]) % 13]
HmacSeed(seed) == [left |-> 1 + (seed % (N - 1)), right |-> (3 * seed + 1) % 13]
Sha256(data)   == FoldLeft(LAMBDA h, d : (3 * h + d + 1) % 16, 0, data)

\* the bytes of a point: compressed with the parity in front, or x and y
X(p)            == IF p <= N \div 2 THEN p ELSE N - p
Compressed(p)   == <<2 + (p % 2), X(p)>>
Uncompressed(p) == <<4, X(p), p>>
\* secp256k1_ec_pubkey_parse: 0 for bytes that are no point
PointOf(bytes) ==
    CASE Len(bytes) = 3 /\ bytes[1] = 4        -> bytes[3]
      [] Len(bytes) = 2 /\ bytes[1] \in {2, 3} -> CHOOSE p \in Secrets : Compressed(p) = bytes
      [] OTHER -> 0

\* BRSecp256k1ModAdd, BRSecp256k1PointAdd, BRSecp256k1PointMul: a sum of zero clears a scalar and leaves a point
ModAdd(a, b)       == (a + b) % N
PointAdd(bytes, b) == LET p == (PointOf(bytes) + b) % N IN IF p = 0 THEN bytes ELSE Compressed(p)
PointMul(bytes, b) == Compressed((PointOf(bytes) * b) % N)

-----------------------------------------------------------------------------
\* _CKDpriv
CKDpriv(node, i) ==
    LET data == IF i >= BIP32_HARD THEN <<0, node.k, i>> ELSE Compressed(node.k) \o <<i>>
        h    == Hmac(node.c, data)
    IN [k |-> ModAdd(node.k, h.left), c |-> h.right]

\* _CKDpub: a hardened child of a public key is not derived
CKDpub(node, i) ==
    LET h == Hmac(node.c, node.K \o <<i>>)
    IN IF i >= BIP32_HARD THEN node ELSE [K |-> PointAdd(node.K, h.left), c |-> h.right]

Master(seed)     == [k |-> HmacSeed(seed).left, c |-> HmacSeed(seed).right]
Path(seed, path) == FoldLeft(CKDpriv, Master(seed), path)

\* BRKeySetSecret, BRKeyPubKey
SetSecret(secret, compressed) == [secret |-> secret, compressed |-> compressed]
KeyPubKey(key) == CASE key.secret = 0                    -> <<>>
                    [] key.secret # 0 /\ key.compressed  -> Compressed(key.secret)
                    [] OTHER                             -> Uncompressed(key.secret)

\* BRBIP32MasterPubKey: path N(m/0H)
MasterPubKey(seed) ==
    LET node == CKDpriv(Master(seed), BIP32_HARD)
    IN [chainCode |-> node.c, pubKey |-> KeyPubKey(SetSecret(node.k, TRUE))]

\* BRBIP32PubKey: path N(m/0H/chain/index)
BIP32PubKey(mpk, chain, index) == CKDpub(CKDpub([K |-> mpk.pubKey, c |-> mpk.chainCode], chain), index).K

\* BRBIP32PrivKeyPath, BRBIP32PrivKey, BRBIP32PrivKeyList
PrivKeyPath(seed, path)       == SetSecret(Path(seed, path).k, TRUE)
PrivKey(seed, chain, index)   == PrivKeyPath(seed, <<BIP32_HARD, chain, index>>)
PrivKeyList(seed, chain, indexes) ==
    LET node == CKDpriv(CKDpriv(Master(seed), BIP32_HARD), chain)
    IN [i \in DOMAIN indexes |-> SetSecret(CKDpriv(node, indexes[i]).k, TRUE)]

\* BRBIP32APIAuthKey: m/1H/0
APIAuthKey(seed) == PrivKeyPath(seed, <<1 + BIP32_HARD, 0>>)

-----------------------------------------------------------------------------
\* derivePrivateKeyFromSeed (m/44H/60H/0H/0/index), createAddressDerived, createAccountWithBIP32Seed and
\* createAccountWithPublicKey: the address is of x and y without the byte before them
EthereumKey(seed, index) ==
    [PrivKeyPath(seed, <<44 + BIP32_HARD, 60 + BIP32_HARD, BIP32_HARD, 0, index>>) EXCEPT !.compressed = FALSE]
AddressDerived(pubKey)     == Sha256(Tail(pubKey))
AccountAddress(seed)       == AddressDerived(KeyPubKey(EthereumKey(seed, 0)))

\* BRKeyCompactSign: the recovery id and whether the key is compressed are in the first byte (a stand-in: the
\* signature names its digest and its point, which only the right id recovers)
CompactSign(key, md, recid) ==
    <<27 + recid + (IF key.compressed THEN 4 ELSE 0), [md |-> md, point |-> key.secret, recid |-> recid]>>

\* BRKeyRecoverPubKey
RecoverPubKey(md, sig) ==
    LET compressed == sig[1] - 27 >= 4
        recid      == (sig[1] - 27) % 4
        point      == IF md = sig[2].md /\ recid = sig[2].recid THEN sig[2].point ELSE N - sig[2].point
    IN IF compressed THEN Compressed(point) ELSE Uncompressed(point)

\* accountSignBytes, signatureExtractAddress
SignBytes(seed, bytes, recid) == CompactSign(EthereumKey(seed, 0), Sha256(bytes), recid)
ExtractAddress(sig, bytes)    == AddressDerived(RecoverPubKey(Sha256(bytes), sig))

-----------------------------------------------------------------------------
\* _BRECDH: an uncompressed key is made a compressed one first
ECDH(key, pub) ==
    LET p == KeyPubKey(pub)
    IN PointMul(IF Len(p) = 3 THEN <<IF p[3] % 2 = 1 THEN 3 ELSE 2, p[2]>> ELSE p, key.secret)[2]

\* _BRAES128CTR: block b of the stream is the cipher of the counter (a stand-in), added byte by byte
Stream(key, iv, off) == Sha256(<<key, iv + (off \div 16), off % 16>>)
CTR(key, iv, data)   == [i \in DOMAIN data |-> (16 + Stream(key, iv, i - 1) - data[i]) % 16]

Shared(secret) == [enc |-> Sha256(<<secret, 1>>), mac |-> Sha256(<<Sha256(<<secret, 1>>), 2>>)]
Mac(key, data) == Sha256(<<key>> \o data)

\* BRKeyECIESAES128SHA256Encrypt
Encrypt(pubKey, ephemKey, data) ==
    LET shared == Shared(ECDH(ephemKey, pubKey))
        iv     == Sha256(<<shared.enc, Sha256(data)>>)
        sealed == <<iv>> \o CTR(shared.enc, iv, data)
    IN KeyPubKey(ephemKey) \o sealed \o <<Mac(shared.mac, sealed)>>

\* BRKeyECIESAES128SHA256Decrypt: <<>> if it is too short, no key is in front or the tag does not match
NotSealed == <<-1>>
Decrypt(privKey, data) ==
    LET pkLen  == IF data[1] \in {2, 3} THEN 2 ELSE 3
        pub    == SubSeq(data, 1, pkLen)
        shared == Shared(ECDH(privKey, SetSecret(PointOf(pub), pkLen = 2)))
        sealed == SubSeq(data, pkLen + 1, Len(data) - 1)
    IN CASE Len(data) < pkLen + 2       -> NotSealed
         [] Len(data) >= pkLen + 2 /\ PointOf(pub) # 0 /\ Mac(shared.mac, sealed) = Last(data) ->
                CTR(shared.enc, sealed[1], Tail(sealed))
         [] OTHER -> NotSealed

-----------------------------------------------------------------------------
\* A path none of whose keys is zero (the others are as good as impossible)
Valid(seed, path) == \A n \in 0 .. Len(path) : Path(seed, SubSeq(path, 1, n)).k # 0

\* The keys that receive are the public keys of the keys that sign, one by one and as a list; the key that signs for
\* the server is a child that the public key of m/1H has too.
DerivesTheSame(seed, chain, indexes) ==
    /\ LET node == CKDpriv(Master(seed), 1 + BIP32_HARD)
       IN Valid(seed, <<1 + BIP32_HARD, 0>>) =>
              KeyPubKey(APIAuthKey(seed)) = CKDpub([K |-> KeyPubKey(SetSecret(node.k, TRUE)), c |-> node.c], 0).K
    /\ (\A i \in DOMAIN indexes : Valid(seed, <<BIP32_HARD, chain, indexes[i]>>)) =>
          /\ PrivKeyList(seed, chain, indexes) = [i \in DOMAIN indexes |-> PrivKey(seed, chain, indexes[i])]
          /\ \A i \in DOMAIN indexes :
                 BIP32PubKey(MasterPubKey(seed), chain, indexes[i]) = KeyPubKey(PrivKey(seed, chain, indexes[i]))

\* A signature gives back the key that made it in its own form, a signed ethereum text the account's address.
RecoversSigner(seed, md, recid) ==
    /\ \A compressed \in BOOLEAN :
           LET key == SetSecret(1 + (seed % (N - 1)), compressed)
           IN RecoverPubKey(md, CompactSign(key, md, recid)) = KeyPubKey(key)
    /\ EthereumKey(seed, 0).secret # 0 => ExtractAddress(SignBytes(seed, <<md>>, recid), <<md>>) = AccountAddress(seed)

\* What is encrypted for a key can be read with it, whichever form either key has.
EciesRoundTrip(secret, ephem, data) ==
    \A c, e \in BOOLEAN : LET key == SetSecret(secret, c) IN
        Decrypt(key, Encrypt(key, SetSecret(ephem, e), data)) = data
================================================================================
