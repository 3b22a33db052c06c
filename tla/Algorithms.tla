------------------------------- MODULE Algorithms -------------------------------
(***************************************************************************)
(* The algorithms of the core library beside a plain definition of what they *)
(* compute: the inputs each is checked on, and what must hold of each.       *)
(***************************************************************************)
EXTENDS Codecs, MerkleBlock

CONSTANTS MaxTxs       \* bound: the transactions of a block

Hash  == INSTANCE Hashing
Bloom == INSTANCE BloomFilter
Seal  == INSTANCE Sealing

-----------------------------------------------------------------------------
\* Hashes that differ from the target in one byte, or in all the bytes below it
HashesNear(t) == {h \in UNION {{t - Base^i, t + Base^i, t + Base^i - 1} : i \in 0 .. HashBytes - 1} \union {0, t} :
                      h \in 0 .. Base^HashBytes - 1}
Rising(n)     == [i \in 1 .. n |-> (i * 37) % 256]
\* Numbers of one limb, and of four limbs with carries at each place
SomeUInts     == {UInt256!Number(n) : n \in {0, 1, 2, 3, 5, 15}} \union {[i \in 0 .. 3 |-> v] : v \in {1, 3}}
                 \union {[i \in 0 .. 3 |-> IF i = 3 THEN 2 ELSE 0], [i \in 0 .. 3 |-> IF i > 1 THEN 3 ELSE 1],
                         [i \in 0 .. 3 |-> IF i = 2 THEN 1 ELSE 0]}

AlgorithmKinds == {"merkle", "transition", "work", "uint256", "padding", "drbg", "pbkdf2", "scrypt", "bloom", "ctr"}

AlgorithmInputs(k) ==
    CASE k = "merkle"     -> UNION {[kind : {k}, txs : {n}, matched : SUBSET (1 .. n)] : n \in 1 .. MaxTxs}
      [] k = "transition" -> [kind : {k}, timespan : 0 .. 5 * TargetTimespan,
                              previous : {t \in [size : 4 .. MaxSize, mantissa : Sign \div Base .. Sign - 1] : ~TooEasy(t)}]
      [] k = "work"       -> [kind : {k}, target : [size : 0 .. MaxSize + 1, mantissa : 0 .. Base^3 - 1]]
      [] k = "uint256"    -> [kind : {k}, x : UInt256!UInts]
      [] k = "padding"    -> [kind : {k}, length : 0 .. 280]
      [] k = "drbg"       -> [kind : {k}, length : {0, 3, 4, 5}, again : {5}, entropy : {<<1>>, <<2, 3>>}]
      [] k = "pbkdf2"     -> [kind : {k}, length : {0, 1, 4, 5, 8}, password : {<<>>, Fill(64, 1), Fill(65, 1)}, rounds : {1, 3}]
      [] k = "scrypt"     -> [kind : {k}, lane : {<<x, y>> : x, y \in {0, 3, 200}} \union {Rising(4)}, n : {2, 4, 8}]
      [] k = "bloom"      -> [kind : {k}, functions : {1, 4, 10}, elems : SUBSET {1, 2, 77, 300, 5000} \ {{}}, tweak : {0, 9}]
      [] k = "ctr"        -> [kind : {k}, length : {0, 1, 16, 40}, iv : {Fill(16, 255), Rising(16)}]

\* A walk over a partial merkle tree gives the root of the whole and the transactions asked for; the target after
\* a transition and the check of a hash against a target are those of the plain arithmetic; so is the arithmetic
\* of four limbs. Hash functions, the random generator, PBKDF2, scrypt and AES compute what their standards say, and
\* a Bloom filter finds what was put into it.
AgreesWithReference ==
    CASE input.kind = "merkle"     -> MerkleWalks(input.txs, input.matched)
      [] input.kind = "transition" -> DifficultyAgrees(input.previous, input.timespan)
      [] input.kind = "work"       -> \A h \in HashesNear(TargetOf(input.target)) : WorkAgrees(input.target, h)
      [] input.kind = "uint256"    -> /\ UInt256!NumberRoundTrip(input.x)
                                      /\ \A y \in SomeUInts : UInt256!ArithmeticAgrees(y, input.x)
      [] input.kind = "padding"    -> Hash!PaddingAgrees(input.length)
      [] input.kind = "drbg"       -> Hash!DrbgAgrees(4, input.length, input.again, input.entropy)
      [] input.kind = "pbkdf2"     -> Hash!Pbkdf2Agrees(input.length, 4, input.password, <<7>>, input.rounds)
      [] input.kind = "scrypt"     -> Hash!ScryptAgrees(input.lane, input.n)
      [] input.kind = "bloom"      -> Bloom!FindsWhatIsIn(input.functions, input.elems, input.tweak)
      [] input.kind = "ctr"        -> /\ Hash!CtrRoundTrip(Rising(16), input.iv, Rising(input.length))
                                      /\ Hash!Nist128 /\ Hash!Nist256 /\ Hash!TablesInvert
                                      /\ Hash!AesRoundTrip(Rising(32), input.iv)
      [] OTHER -> TRUE

-----------------------------------------------------------------------------
Texts == {<<>>, <<1>>, <<3, 0, 15, 7>>, [i \in 1 .. 20 |-> i % 16], [i \in 1 .. 70 |-> i % 16]}

SealingKinds == {"derive", "sign", "ecies", "aead", "sealed"}

SealingInputs(k) ==
    CASE k = "derive" -> [kind : {k}, seed : 0 .. 60, chain : {0, 1}, path : {<<0>>, <<1, 2, 3>>, <<5, 0, 77>>}]
      [] k = "sign"   -> [kind : {k}, seed : 0 .. 20, md : 0 .. 5, recid : 0 .. 3]
      [] k = "ecies"  -> [kind : {k}, secret : Seal!Secrets, ephemeral : Seal!Secrets, text : Texts]
      [] k = "aead"   -> [kind : {k}, key : {1, 5}, nonce : {0, 2}, text : Texts,
                          data : {<<>>, <<0>>, <<1, 2>>, [i \in 1 .. 16 |-> 0]}]
      [] k = "sealed" -> [kind : {k}, sender : Seal!Secrets, receiver : Seal!Secrets, compressed : BOOLEAN,
                          nonce : {0, 3}, code : {<<1>>, <<4, 0>>}]

\* Two parties come to the same key: the public key derived from the master public key is that of the private key
\* derived from the seed; a signature gives back its signer's key; a text encrypted to a public key is read with
\* its private key, and an encrypted BIP70 message by both its sender and its receiver, and by nobody who changes it.
KeysAgree ==
    CASE input.kind = "derive" -> Seal!DerivesTheSame(input.seed, input.chain, input.path)
      [] input.kind = "sign"   -> Seal!RecoversSigner(input.seed, input.md, input.recid)
      [] input.kind = "ecies"  -> Seal!EciesRoundTrip(input.secret, input.ephemeral, input.text)
      [] input.kind = "aead"   -> Seal!AeadRoundTrip(input.key, input.nonce, input.text, input.data)
      [] input.kind = "sealed" -> Seal!MessageIsForBoth(input.sender, input.receiver, input.compressed, input.nonce,
                                                        <<1, 0, 9>>, input.code)
      [] OTHER -> TRUE
================================================================================
