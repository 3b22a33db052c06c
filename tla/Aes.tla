----------------------------------- MODULE Aes -----------------------------------
(***************************************************************************)
(* The ciphers of BRBIP38Key.c and BRKeyECIES.c: AES with a key of 32 bytes *)
(* that is expanded, and for decryption taken back, on the way, and AES with *)
(* a key of 16 bytes over a counter.  Bytes are numbers, byte i of the       *)
(* program is byte i + 1 of a sequence.                                      *)
(***************************************************************************)
EXTENDS Strict

Bits == INSTANCE Bitwise

\* a ^ b of two bytes, from that of their halves
HalfXor        == Evaluated([a \in 1 .. 16 |-> Evaluated([b \in 1 .. 16 |-> Bits!^^(a - 1, b - 1)])])
XorTable       ==
    LET half(a, b) == HalfXor[a + 1][b + 1]
    IN Evaluated([a \in 1 .. 256 |-> Evaluated([b \in 1 .. 256 |->
           16 * half((a - 1) \div 16, (b - 1) \div 16) + half((a - 1) % 16, (b - 1) % 16)])])
Xor(a, b)      == XorTable[a + 1][b + 1]
XorBytes(s, t) == Evaluated([i \in DOMAIN s |-> Xor(s[i], t[i])])

\* xt
Xt(x) == IF x < 128 THEN 2 * x ELSE Xor((2 * x) % 256, 27)

SBox == <<
    99, 124, 119, 123, 242, 107, 111, 197, 48, 1, 103, 43, 254, 215, 171, 118, 202, 130, 201, 125, 250, 89,
    71, 240, 173, 212, 162, 175, 156, 164, 114, 192, 183, 253, 147, 38, 54, 63, 247, 204, 52, 165, 229, 241,
    113, 216, 49, 21, 4, 199, 35, 195, 24, 150, 5, 154, 7, 18, 128, 226, 235, 39, 178, 117, 9, 131, 44, 26,
    27, 110, 90, 160, 82, 59, 214, 179, 41, 227, 47, 132, 83, 209, 0, 237, 32, 252, 177, 91, 106, 203, 190,
    57, 74, 76, 88, 207, 208, 239, 170, 251, 67, 77, 51, 133, 69, 249, 2, 127, 80, 60, 159, 168, 81, 163, 64,
    143, 146, 157, 56, 245, 188, 182, 218, 33, 16, 255, 243, 210, 205, 12, 19, 236, 95, 151, 68, 23, 196,
    167, 126, 61, 100, 93, 25, 115, 96, 129, 79, 220, 34, 42, 144, 136, 70, 238, 184, 20, 222, 94, 11, 219,
    224, 50, 58, 10, 73, 6, 36, 92, 194, 211, 172, 98, 145, 149, 228, 121, 231, 200, 55, 109, 141, 213, 78,
    169, 108, 86, 244, 234, 101, 122, 174, 8, 186, 120, 37, 46, 28, 166, 180, 198, 232, 221, 116, 31, 75,
    189, 139, 138, 112, 62, 181, 102, 72, 3, 246, 14, 97, 53, 87, 185, 134, 193, 29, 158, 225, 248, 152, 17,
    105, 217, 142, 148, 155, 30, 135, 233, 206, 85, 40, 223, 140, 161, 137, 13, 191, 230, 66, 104, 65, 153,
    45, 15, 176, 84, 187, 22>>

SBoxInverse == <<
    82, 9, 106, 213, 48, 54, 165, 56, 191, 64, 163, 158, 129, 243, 215, 251, 124, 227, 57, 130, 155, 47, 255,
    135, 52, 142, 67, 68, 196, 222, 233, 203, 84, 123, 148, 50, 166, 194, 35, 61, 238, 76, 149, 11, 66, 250,
    195, 78, 8, 46, 161, 102, 40, 217, 36, 178, 118, 91, 162, 73, 109, 139, 209, 37, 114, 248, 246, 100, 134,
    104, 152, 22, 212, 164, 92, 204, 93, 101, 182, 146, 108, 112, 72, 80, 253, 237, 185, 218, 94, 21, 70, 87,
    167, 141, 157, 132, 144, 216, 171, 0, 140, 188, 211, 10, 247, 228, 88, 5, 184, 179, 69, 6, 208, 44, 30,
    143, 202, 63, 15, 2, 193, 175, 189, 3, 1, 19, 138, 107, 58, 145, 17, 65, 79, 103, 220, 234, 151, 242,
    207, 206, 240, 180, 230, 115, 150, 172, 116, 34, 231, 173, 53, 133, 226, 249, 55, 232, 28, 117, 223, 110,
    71, 241, 26, 113, 29, 41, 197, 137, 111, 183, 98, 14, 170, 24, 190, 27, 252, 86, 62, 75, 198, 210, 121,
    32, 154, 219, 192, 254, 120, 205, 90, 244, 31, 221, 168, 51, 136, 7, 199, 49, 177, 18, 16, 89, 39, 128,
    236, 95, 96, 81, 127, 169, 25, 181, 74, 13, 45, 229, 122, 159, 147, 201, 156, 239, 160, 224, 59, 77, 174,
    42, 245, 176, 200, 235, 187, 60, 131, 83, 153, 97, 23, 43, 4, 126, 186, 119, 214, 38, 225, 105, 20, 99,
    85, 33, 12, 125>>

Sub(x)        == SBox[x + 1]
SubInverse(x) == SBoxInverse[x + 1]

SubBytes(x)  == Evaluated([i \in 1 .. 16 |-> Sub(x[i])])
ShiftRows(x) == Evaluated([i \in 1 .. 16 |-> x[((5 * (i - 1)) % 16) + 1]])

\* mix columns: byte i of a column with the one behind it and all four
Column(x, i)  == LET j == i - ((i - 1) % 4) IN <<x[j], x[j + 1], x[j + 2], x[j + 3]>>
Whole(c)      == Xor(Xor(c[1], c[2]), Xor(c[3], c[4]))
Behind(x, i)  == IF i % 4 = 0 THEN x[i - 3] ELSE x[i + 1]
MixColumns(x) ==
    Evaluated([i \in 1 .. 16 |-> Xor(Xor(x[i], Whole(Column(x, i))), Xt(Xor(x[i], Behind(x, i))))])

UnmixColumns(x) ==
    LET even(i) == LET c == Column(x, i)
                       h == Xt(Whole(c))
                       p == IF i % 2 = 1 THEN Xor(c[1], c[3]) ELSE Xor(c[2], c[4])
                   IN Xor(Whole(c), Xt(Xt(Xor(h, p))))
    IN Evaluated([i \in 1 .. 16 |-> Xor(Xor(x[i], even(i)), Xt(Xor(x[i], Behind(x, i))))])

-----------------------------------------------------------------------------
\* the next 32 bytes of the key, and the 32 before
Expand(k, r) ==
    LET e[i \in 1 .. 32] ==
            CASE i \in 1 .. 4   -> Xor(Xor(k[i], Sub(k[29 + (i % 4)])), IF i = 1 THEN r ELSE 0)
              [] i \in 17 .. 20 -> Xor(k[i], Sub(e[i - 4]))
              [] OTHER          -> Xor(k[i], e[i - 4])
    IN Evaluated([i \in 1 .. 32 |-> e[i]])

Unexpand(k, r) ==
    LET u[i \in 1 .. 32] ==
            CASE i \in 1 .. 4   -> Xor(Xor(k[i], Sub(u[29 + (i % 4)])), IF i = 1 THEN r ELSE 0)
              [] i \in 17 .. 20 -> Xor(k[i], Sub(k[i - 4]))
              [] OTHER          -> Xor(k[i], k[i - 4])
    IN Evaluated([i \in 1 .. 32 |-> u[i]])

HalfOf(k, i) == SubSeq(k, 16 * i + 1, 16 * i + 16)

\* _BRAES256ECBEncrypt
AES256ECBEncrypt(key, buf) ==
    LET round(s, i) ==
            LET shifted == ShiftRows(SubBytes(XorBytes(s.x, HalfOf(s.k, i % 2))))
            IN [x |-> IF i < 13 THEN MixColumns(shifted) ELSE shifted,
                k |-> IF i % 2 = 1 THEN Expand(s.k, s.r) ELSE s.k,
                r |-> IF i % 2 = 1 THEN Xt(s.r) ELSE s.r]
        out(last) == XorBytes(last.x, HalfOf(last.k, 0))
    IN out(Rounds(round, [x |-> buf, k |-> key, r |-> 1], 14))

\* _BRAES256ECBDecrypt
AES256ECBDecrypt(key, buf) ==
    LET expanded == Rounds(LAMBDA s, i : [s EXCEPT !.k = Expand(s.k, s.r), !.r = Xt(s.r)],
                           [x |-> buf, k |-> key, r |-> 1], 7)
        unmixed(x, i) == IF i > 0 THEN UnmixColumns(x) ELSE x
        unshifted(x)  == Evaluated([j \in 1 .. 16 |-> SubInverse(x[((13 * (j - 1)) % 16) + 1])])
        half(r)       == Xor(r \div 2, IF r % 2 = 1 THEN 141 ELSE 0)
        before(s, r)  == [s EXCEPT !.k = Unexpand(s.k, r), !.r = r]
        round(s, i)   == [IF i % 2 = 0 THEN before(s, half(s.r)) ELSE s
                          EXCEPT !.x = unshifted(unmixed(XorBytes(s.x, HalfOf(s.k, i % 2)), i))]
        out(last)     == XorBytes(last.x, HalfOf(last.k, 0))
    IN out(Rounds(round, expanded, 14))

\* _BRAES128CTR: the key's 176 bytes, the cipher of a block, the counter, and its stream over the data
Key128(key) ==
    LET next(s, n) ==
            LET p == 16 * n
                e[i \in 1 .. 16] ==
                    IF i <= 4 THEN Xor(Xor(s.k[p + i], Sub(s.k[p + 13 + (i % 4)])), IF i = 1 THEN s.r ELSE 0)
                    ELSE Xor(s.k[p + i], e[i - 4])
            IN [k |-> s.k \o [i \in 1 .. 16 |-> e[i]], r |-> Xt(s.r)]
    IN Rounds(next, [k |-> key, r |-> 1], 10).k

AES128(k, iv) ==
    LET round(x, i) == LET shifted == ShiftRows(SubBytes(XorBytes(x, HalfOf(k, i))))
                       IN IF i < 9 THEN MixColumns(shifted) ELSE shifted
    IN XorBytes(Rounds(round, iv, 10), HalfOf(k, 10))

Increment(iv) ==
    LET carry(i) == \A j \in i + 1 .. 16 : iv[j] = 255
    IN Evaluated([i \in 1 .. 16 |-> IF carry(i) THEN (iv[i] + 1) % 256 ELSE iv[i]])

AES128CTR(key, iv, data) ==
    LET k      == Key128(key)
        blocks == (Len(data) + 15) \div 16
        stream == Rounds(LAMBDA s, n : [iv |-> Increment(s.iv), x |-> s.x \o AES128(k, s.iv)],
                         [iv |-> iv, x |-> <<>>], blocks).x
    IN XorBytes(data, stream)

-----------------------------------------------------------------------------
\* The tables are each other's inverse, and what is decrypted is what was encrypted.
TablesInvert == \A x \in 0 .. 255 : SubInverse(Sub(x)) = x /\ Sub(SubInverse(x)) = x

AesRoundTrip(key, buf) == AES256ECBDecrypt(key, AES256ECBEncrypt(key, buf)) = buf

CtrRoundTrip(key, iv, data) ==
    LET out == AES128CTR(key, iv, data) IN AES128CTR(key, iv, out) = data

\* The examples of FIPS 197 (C.3) and of NIST SP 800-38A (F.5.1)
Nist256 == AES256ECBEncrypt([i \in 1 .. 32 |-> i - 1], [i \in 1 .. 16 |-> 17 * (i - 1)])
           = <<142, 162, 183, 202, 81, 103, 69, 191, 234, 252, 73, 144, 75, 73, 96, 137>>
Nist128 == AES128CTR(<<43, 126, 21, 22, 40, 174, 210, 166, 171, 247, 21, 136, 9, 207, 79, 60>>,
                     [i \in 1 .. 16 |-> 239 + i],
                     <<107, 193, 190, 226, 46, 64, 159, 150, 233, 61, 126, 17, 115, 147, 23, 42, 174, 45, 138, 87>>)
           = <<135, 77, 97, 145, 182, 32, 227, 38, 27, 239, 104, 100, 153, 13, 182, 206, 152, 6, 246, 107>>
================================================================================
