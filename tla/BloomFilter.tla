------------------------------- MODULE BloomFilter -------------------------------
(***************************************************************************)
(* BRBloomFilter.c: the filter a wallet's addresses and coins are put into *)
(* and peers match transactions against.  The filter is the set of its bits; *)
(* data is a number, and BRMurmur3_32 a function of it and its seed        *)
(* (stand-ins).                                                            *)
(***************************************************************************)
EXTENDS Integers, SequencesExt

BLOOM_MAX_FILTER_LENGTH == 36000
BLOOM_MAX_HASH_FUNCS    == 50
Ln2(n)                  == (n * 693) \div 1000      \* n * M_LN2

Murmur3(data, seed) == (data * 7919 + seed * 4099 + (data + 3) * (seed + 5) * 31) % 65536
BloomHash(filter, data, i) == Murmur3(data, i + filter.tweak) % (filter.length * 8)

\* BRBloomFilterNew for a rate of 2^-k; elemCount is never zero where it is called
NewFilter(k, elemCount, tweak, flags) ==
    LET wanted == (elemCount * k * 1000) \div (693 * 8)
        length == IF wanted > BLOOM_MAX_FILTER_LENGTH THEN BLOOM_MAX_FILTER_LENGTH ELSE IF wanted < 1 THEN 1 ELSE wanted
        funcs  == Ln2(length * 8) \div elemCount
    IN [length |-> length, bits |-> {}, hashFuncs |-> IF funcs > BLOOM_MAX_HASH_FUNCS THEN BLOOM_MAX_HASH_FUNCS ELSE funcs,
        tweak |-> tweak, flags |-> flags, elemCount |-> 0]

InsertData(filter, data) ==
    [filter EXCEPT !.bits = @ \union {BloomHash(filter, data, i) : i \in 0 .. filter.hashFuncs - 1}, !.elemCount = @ + 1]
ContainsData(filter, data) == \A i \in 0 .. filter.hashFuncs - 1 : BloomHash(filter, data, i) \in filter.bits

\* BRBloomFilterSerialize: bit i is bit i & 7 of byte i >> 3; the length is below 253 here, and so one byte
Four(n) == [i \in 1 .. 4 |-> (n \div 256^(i - 1)) % 256]
SerializeFilter(filter) ==
    <<filter.length>>
    \o [b \in 1 .. filter.length |-> MapThenSumSet(LAMBDA i : 2^(i % 8), {i \in filter.bits : i \div 8 = b - 1})]
    \o Four(filter.hashFuncs) \o Four(filter.tweak) \o <<filter.flags>>

\* BRBloomFilterParse: without all of its bits there is no filter, a number that is cut off is zero
NoFilter == [length |-> -1]
ParseFilter(buf) ==
    LET length  == IF buf = <<>> THEN 0 ELSE buf[1]
        at(off) == IF off + 4 <= Len(buf) THEN FoldRight(LAMBDA b, n : 256 * n + b, SubSeq(buf, off + 1, off + 4), 0) ELSE 0
        bits    == {i \in 0 .. 8 * length - 1 : (buf[2 + i \div 8] \div 2^(i % 8)) % 2 = 1}
    IN IF length > BLOOM_MAX_FILTER_LENGTH \/ 1 + length > Len(buf) THEN NoFilter
       ELSE [length |-> length, bits |-> bits, hashFuncs |-> at(1 + length), tweak |-> at(5 + length),
             flags |-> IF length + 10 <= Len(buf) THEN buf[length + 10] ELSE 0, elemCount |-> 0]

-----------------------------------------------------------------------------
\* Whatever was put into a filter is found, also by whoever reads the filter from its bytes.
FindsWhatIsIn(k, elems, tweak) ==
    LET empty  == NewFilter(k, Cardinality(elems), tweak, 1)
        filter == FoldLeft(InsertData, empty, SetToSeq(elems))
        read   == ParseFilter(SerializeFilter(filter))
    IN /\ \A e \in elems : ContainsData(filter, e) /\ ContainsData(read, e)
       /\ read = [filter EXCEPT !.elemCount = 0]
       /\ \A n \in 0 .. filter.length : ParseFilter(SubSeq(SerializeFilter(filter), 1, n)) = NoFilter
================================================================================
