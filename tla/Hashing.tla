--------------------------------- MODULE Hashing ---------------------------------
(***************************************************************************)
(* BRCrypto.c around its compression functions: how a message is cut into  *)
(* blocks and padded, HMAC, HMAC-DRBG, PBKDF2 and scrypt.  A compression   *)
(* function, and the hash in the functions that are given one, are functions *)
(* of their bytes (stand-ins); bytes are numbers.                          *)
(***************************************************************************)
EXTENDS Aes, SequencesExt

Zeroed(n)        == [i \in 1 .. n |-> 0]
Big(n, width)    == [i \in 1 .. width |-> IF i > width - 4 THEN (n \div 256^(width - i)) % 256 ELSE 0]
Little(n, width) == Reverse(Big(n, width))
Chunks(s, size)  == [i \in 1 .. Len(s) \div size |-> SubSeq(s, (i - 1) * size + 1, i * size)]

\* BRSHA1, BRSHA224, BRSHA256; BRSHA384, BRSHA512; BRRMD160, BRMD5: the blocks they compress
Formats == [sha256 |-> [block |-> 64,  order |-> "big"],
            sha512 |-> [block |-> 128, order |-> "big"],
            rmd160 |-> [block |-> 64,  order |-> "little"]]

\* The length in bits goes where the block has room for it, or to a block of its own.
Blocks(format, data) ==
    LET size   == format.block
        whole  == Len(data) \div size
        rest   == SubSeq(data, whole * size + 1, Len(data))
        room   == size - size \div 8
        first  == rest \o <<128>> \o Zeroed(size - Len(rest) - 1)
        bits   == CASE size = 128              -> Zeroed(8) \o Big(Len(data) * 8, 8)
                    [] format.order = "big"    -> Big(Len(data) \div 2^29, 4) \o Big(Len(data) * 8, 4)
                    [] format.order = "little" -> Little(Len(data) * 8, 4) \o Little(Len(data) \div 2^29, 4)
        last   == SubSeq(IF Len(rest) >= room THEN Zeroed(size) ELSE first, 1, room) \o bits
    IN Chunks(data, size) \o (IF Len(rest) >= room THEN <<first, last>> ELSE <<last>>)

\* BRSHA3_256 with 6 and BRKeccak256 with 1 in front of the padding; both marks may meet in the last byte
Rate == 136
SpongeBlocks(mark, data) ==
    LET rest == SubSeq(data, (Len(data) \div Rate) * Rate + 1, Len(data))
        x    == [rest \o Zeroed(Rate - Len(rest)) EXCEPT ![Len(rest) + 1] = mark]
    IN Chunks(data, Rate) \o <<[x EXCEPT ![Rate] = @ + 128]>>

-----------------------------------------------------------------------------
\* The hash a function is given (a stand-in), n bytes long
Digest(n, data) == LET h == FoldLeft(LAMBDA s, b : (31 * s + b + 1) % 65521, Len(data), data)
                   IN Evaluated([i \in 1 .. n |-> (h * (2 * i + 1) + i) % 256])

\* BRHMAC
HMAC(n, key, data) ==
    LET blockLen  == IF n > 32 THEN 128 ELSE 64
        pad(k, c) == XorBytes(k \o Zeroed(blockLen - Len(k)), [i \in 1 .. blockLen |-> c])
        of(k)     == Digest(n, pad(k, 92) \o Digest(n, pad(k, 54) \o data))
    IN of(IF Len(key) > blockLen THEN Digest(n, key) ELSE key)

\* BRHMACDRBG: with entropy (seed and nonce) a new state, without it more of the last one's output
HMACDRBG(outLen, n, state, entropy, fresh) ==
    LET keyed(K, V)    == [K |-> K, V |-> HMAC(n, K, V)]
        update(s, tag) == keyed(HMAC(n, s.K, s.V \o <<tag>> \o entropy), s.V)
        end(K, V)      == [out |-> SubSeq(FlattenSeq(Tail(V)), 1, outLen), K |-> K, V |-> Last(V)]
        output(s)      == end(s.K, Rounds(LAMBDA vs, i : Append(vs, HMAC(n, s.K, Last(vs))), <<s.V>>,
                                          (outLen + n - 1) \div n))
        start          == IF fresh THEN [K |-> Zeroed(n), V |-> [i \in 1 .. n |-> 1]] ELSE state
    IN output(Rounds(update, start, IF fresh THEN 2 ELSE 1))

\* BRPBKDF2: the last part of the key may be shorter than the hash
PBKDF2(dkLen, n, pw, salt, rounds) ==
    LET next(t, r) == LET U == HMAC(n, pw, t.U) IN [U |-> U, T |-> XorBytes(t.T, U)]
        part(i)    == LET U == HMAC(n, pw, salt \o Big(i + 1, 4))
                          T == Rounds(next, [U |-> U, T |-> U], rounds - 1).T
                      IN SubSeq(T, 1, IF i * n + n <= dkLen THEN n ELSE dkLen % n)
    IN FlattenSeq([i \in 1 .. (dkLen + n - 1) \div n |-> part(i - 1)])

\* _salsa20_8 (a stand-in); a block of 64 bytes is one byte here, and its lowest bits are the whole of it
Salsa(b) == (b * 57 + 101) % 256

\* _blockmix_salsa8: the blocks mixed in turn with those before, the even ones first
BlockMix(src, r) ==
    LET after == Rounds(LAMBDA bs, i : Append(bs, Salsa(Xor(Last(bs), src[i + 1]))), <<src[2 * r]>>, 2 * r)
    IN Evaluated([k \in 1 .. 2 * r |-> IF k <= r THEN after[2 * k] ELSE after[2 * (k - r) + 1]])

\* The loops of BRScrypt over x and y, two rounds at a time; n is a power of two
ROMix(lane, n, r) ==
    LET fill(s, i) == LET y == BlockMix(s.x, r) IN [x |-> BlockMix(y, r), v |-> s.v \o <<s.x, y>>]
        v          == Rounds(fill, [x |-> lane, v |-> <<>>], n \div 2)
        mix(x)     == BlockMix(XorBytes(x, v.v[(x[2 * r] % n) + 1]), r)
    IN Rounds(LAMBDA x, i : mix(mix(x)), v.x, n \div 2)

Scrypt(dkLen, pw, salt, n, r, p) ==
    LET b == Chunks(PBKDF2(2 * r * p, 32, pw, salt, 1), 2 * r)
    IN PBKDF2(dkLen, 32, pw, FlattenSeq([i \in 1 .. p |-> ROMix(b[i], n, r)]), 1)

-----------------------------------------------------------------------------
(* The definitions of FIPS 180-4, FIPS 202, SP 800-90A, RFC 2898 and RFC 7914 *)

\* The bytes 1, 2, 3 ...
Counting(n) == [i \in 1 .. n |-> i % 251]

PaddingAgrees(n) ==
    LET data == Counting(n) IN
    /\ \A name \in DOMAIN Formats :
           LET f      == Formats[name]
               field  == f.block \div 8
               length == IF f.order = "big" THEN Big(8 * n, field) ELSE Little(8 * n, field)
               zeros  == (f.block - ((n + 1 + field) % f.block)) % f.block
           IN FlattenSeq(Blocks(f, data)) = data \o <<128>> \o Zeroed(zeros) \o length
    /\ \A mark \in {1, 6} :
           LET free == Rate - (n % Rate)
           IN FlattenSeq(SpongeBlocks(mark, data)) =
                  data \o IF free = 1 THEN <<mark + 128>> ELSE <<mark>> \o Zeroed(free - 2) \o <<128>>

\* Two calls give what two requests to one generator give, each of which ends with an update.
DrbgAgrees(n, len1, len2, entropy) ==
    LET half(s, tag, provided) == Evaluated(<<HMAC(n, s[1], s[2] \o <<tag>> \o provided), s[2]>>)
        keyed(s)               == Evaluated(<<s[1], HMAC(n, s[1], s[2])>>)
        update(s, provided)    == Rounds(LAMBDA t, tag : keyed(half(t, tag, provided)), s,
                                         IF provided = <<>> THEN 1 ELSE 2)
        \* the output of a generator and its value after it
        request(s, len) == Rounds(LAMBDA g, i : LET v == HMAC(n, s[1], g[1]) IN Evaluated(<<v, g[2] \o v>>),
                                  <<s[2], <<>>>>, (len + n - 1) \div n)
        second(s, g)    == request(update(<<s[1], g[1]>>, <<>>), len2)
        agrees(s, one, call1) ==
            /\ call1.out = SubSeq(one[2], 1, len1)
            /\ HMACDRBG(len2, n, [K |-> call1.K, V |-> call1.V], <<>>, FALSE).out = SubSeq(second(s, one)[2], 1, len2)
    IN \A s \in {update(<<Zeroed(n), [i \in 1 .. n |-> 1]>>, entropy)} :
           agrees(s, request(s, len1), HMACDRBG(len1, n, <<>>, entropy, TRUE))

Pbkdf2Agrees(dkLen, n, pw, salt, rounds) ==
    LET U(i, r)  == Rounds(LAMBDA u, k : HMAC(n, pw, u), HMAC(n, pw, salt \o <<0, 0, 0, i>>), r - 1)
        T(i)     == FoldLeft(XorBytes, Zeroed(n), [r \in 1 .. rounds |-> U(i, r)])
    IN PBKDF2(dkLen, n, pw, salt, rounds) = SubSeq(FlattenSeq([i \in 1 .. (dkLen \div n) + 1 |-> T(i)]), 1, dkLen)

ScryptAgrees(lane, n) ==
    LET r == Len(lane) \div 2
        B(x)  == LET y[i \in 0 .. 2 * r] == IF i = 0 THEN x[2 * r] ELSE Salsa(Xor(y[i - 1], x[i]))
                 IN Evaluated([i \in 1 .. r |-> y[2 * i - 1]] \o [i \in 1 .. r |-> y[2 * i]])
        V(i)  == Rounds(LAMBDA x, k : B(x), lane, i)
    IN ROMix(lane, n, r) = Rounds(LAMBDA x, k : B(XorBytes(x, V(x[2 * r] % n))), V(n), n)
================================================================================
