-------------------------------- MODULE UInt256 --------------------------------
(***************************************************************************)
(* ethereum/util/BRUtilMath.c, BRUtilMathParse.c and BREthereumEther.c:     *)
(* arithmetic on numbers of a fixed width, their strings in a base, and     *)
(* amounts with decimals.  A number is a function of its words, the lowest  *)
(* first: four words of two bits stand for eight of 32, and a long for the  *)
(* two lowest.  A string is a sequence of digits in bases 2, 3 (for ten) or *)
(* 4 (for sixteen).  The bound of 100 letters of a string is left out.      *)
(***************************************************************************)
EXTENDS Integers, SequencesExt

Word    == 4              \* values of a word ("2^32")
Words   == 4
Long    == Word^2         \* values of a long ("2^64")
Decimal == 3
Hex     == 4
Binary  == 2
Dot     == Decimal        \* the letter after the digits

\* createUInt256
Number(long) == [i \in 0 .. Words - 1 |-> IF i < 2 THEN (long \div Word^i) % Word ELSE 0]
Zero         == Number(0)

\* addUInt256_Overflow: overflow and zero if it does not fit
Carried(x, y) ==
    LET carry[i \in 0 .. Words] == IF i = 0 THEN 0 ELSE (x[i - 1] + y[i - 1] + carry[i - 1]) \div Word
    IN carry

Add(x, y) ==
    LET carry == Carried(x, y)
    IN IF carry[Words] # 0 THEN [overflow |-> TRUE, value |-> Zero]
       ELSE [overflow |-> FALSE, value |-> [i \in DOMAIN x |-> (x[i] + y[i] + carry[i]) % Word]]

\* addUInt256: twice as many words
AddWide(x, y) ==
    LET carry == Carried(x, y)
    IN [i \in 0 .. 2 * Words - 1 |->
            CASE i < Words -> (x[i] + y[i] + carry[i]) % Word
              [] i = Words -> carry[Words]
              [] OTHER     -> 0]

\* subUInt256_x_gt_y
Less(x, y) == \E i \in DOMAIN x : x[i] < y[i] /\ \A j \in DOMAIN x : j > i => x[j] = y[j]

Difference(x, y) ==
    LET borrow[i \in 0 .. Words] ==
            IF i = 0 \/ x[i - 1] >= y[i - 1] + borrow[i - 1] THEN 0 ELSE 1
    IN [i \in DOMAIN x |-> (IF borrow[i + 1] = 0 THEN x[i] ELSE Word + x[i]) - (y[i] + borrow[i])]

\* subUInt256_Negative
Sub(x, y) ==
    CASE x = y      -> [negative |-> FALSE, value |-> Zero]
      [] Less(y, x) -> [negative |-> FALSE, value |-> Difference(x, y)]
      [] OTHER      -> [negative |-> TRUE, value |-> Difference(y, x)]

\* mulUInt256: long multiplication, a row for each word of x that is not zero
Row(z, x, y, xi) ==
    LET carry[yi \in 0 .. Words] ==
            IF yi = 0 THEN 0 ELSE (z[yi - 1 + xi] + carry[yi - 1] + y[yi - 1] * x[xi]) \div Word
    IN IF x[xi] = 0 THEN z
       ELSE [i \in DOMAIN z |->
                CASE i \in xi .. xi + Words - 1 -> (z[i] + carry[i - xi] + y[i - xi] * x[xi]) % Word
                  [] i = xi + Words             -> (z[i] + carry[Words]) % Word
                  [] OTHER                      -> z[i]]

Mul(x, y) ==
    FoldLeft(LAMBDA z, xi : Row(z, x, y, xi), [i \in 0 .. 2 * Words - 1 |-> 0], [i \in 1 .. Words |-> i - 1])

\* coerceUInt256, tooBigUInt256
Coerce(wide) ==
    IF \E i \in Words .. 2 * Words - 1 : wide[i] # 0 THEN [overflow |-> TRUE, value |-> Zero]
    ELSE [overflow |-> FALSE, value |-> [i \in 0 .. Words - 1 |-> wide[i]]]

\* divUInt256_Small: from the highest word down
DivSmall(x, y) ==
    LET remainder[i \in 0 .. Words] == IF i = Words THEN 0 ELSE (x[i] + remainder[i + 1] * Word) % y
    IN [value |-> [i \in DOMAIN x |-> (x[i] + remainder[i + 1] * Word) \div y], remainder |-> remainder[0]]

-----------------------------------------------------------------------------
\* parseMaximumDigitsForUInt64InBase, parseMaximumDigitsForUInt256InBase
LongDigits(base) == CHOOSE n \in 1 .. 16 : base^n <= Long /\ base^(n + 1) > Long
MaxDigits(base)  == CHOOSE n \in 1 .. 16 : base^n >= Word^Words /\ base^(n - 1) < Word^Words

\* parseUInt256Power: a power that is one too large for a long wraps to zero and is put right
Power(base, power) ==
    IF base^power % Long = 0 THEN [i \in 0 .. Words - 1 |-> IF i = 2 THEN 1 ELSE 0] ELSE Number(base^power % Long)

\* parseUInt64 (strtoull)
ParseLong(digits, base) == Number(FoldLeft(LAMBDA n, d : n * base + d, 0, digits) % Long)

Trimmed(string) == SubSeq(string, 1 + CHOOSE n \in 0 .. Len(string) :
                                         /\ \A i \in 1 .. n : string[i] = 0
                                         /\ n = Len(string) \/ string[n + 1] # 0, Len(string))

\* createUInt256Parse: chunk by chunk, as many digits as a long holds at a time
Parse(string, base) ==
    LET digits == Trimmed(string)
        length == Len(digits)
        size   == LongDigits(base)
        count  == (length + size - 1) \div size
        chunk(i) == SubSeq(digits, (i - 1) * size + 1, IF i * size < length THEN i * size ELSE length)
        next(p, i) ==
            LET scaled == Coerce(Mul(p.value, Power(base, Len(chunk(i)))))
                added  == Add(scaled.value, ParseLong(chunk(i), base))
            IN CASE p.status # "ok" -> p
                 [] i = 1           -> [status |-> "ok", value |-> ParseLong(chunk(1), base)]
                 [] scaled.overflow \/ added.overflow -> [status |-> "overflow", value |-> Zero]
                 [] OTHER           -> [status |-> "ok", value |-> added.value]
    IN IF length > MaxDigits(base) THEN [status |-> "overflow", value |-> Zero]
       ELSE FoldLeft(next, [status |-> "ok", value |-> Zero], [i \in 1 .. count |-> i])

\* parseIsDecimal
IsDecimal(string) ==
    string # <<>> /\ string[1] # Dot /\ Cardinality({i \in DOMAIN string : string[i] = Dot}) <= 1

\* createUInt256ParseDecimal: the zeros at the end of the fraction do not count
ParseDecimal(string, decimals) ==
    LET dot   == IF \E i \in DOMAIN string : string[i] = Dot THEN CHOOSE i \in DOMAIN string : string[i] = Dot
                 ELSE Len(string) + 1
        fract == Reverse(Trimmed(Reverse(SubSeq(string, dot + 1, Len(string)))))
    IN CASE ~IsDecimal(string)    -> [status |-> "strange", value |-> Zero]
         [] IsDecimal(string) /\ Len(fract) > decimals -> [status |-> "underflow", value |-> Zero]
         [] OTHER -> Parse(SubSeq(string, 1, dot - 1) \o fract \o [i \in 1 .. decimals - Len(fract) |-> 0], Decimal)

-----------------------------------------------------------------------------
\* coerceString in base ten: what is left after each division
RECURSIVE Remainders(_)
Remainders(x) ==
    IF x = Zero THEN <<>> ELSE LET d == DivSmall(x, Decimal) IN Append(Remainders(d.value), d.remainder)

\* in base sixteen: the bytes from the first that is not zero, two letters each; in base two: four digits a letter
String(x, base) ==
    LET letters == Trimmed([b \in 1 .. Words \div 2 |-> x[Words - 2 * b] + Word * x[Words - 2 * b + 1]])
        hex     == FlattenSeq([i \in DOMAIN letters |-> <<letters[i] \div Hex, letters[i] % Hex>>])
    IN CASE x = Zero                    -> <<0>>
         [] x # Zero /\ base = Decimal  -> Remainders(x)
         [] x # Zero /\ base = Hex      -> hex
         [] OTHER -> FlattenSeq([i \in DOMAIN hex |-> <<hex[i] \div 2, hex[i] % 2>>])

\* coerceStringDecimal
StringDecimal(x, decimals) ==
    LET string == String(x, Decimal)
        length == Len(string)
    IN CASE decimals = 0                          -> string
         [] decimals # 0 /\ decimals >= length    -> <<0, Dot>> \o [i \in 1 .. decimals - length |-> 0] \o string
         [] OTHER -> SubSeq(string, 1, length - decimals) \o <<Dot>> \o SubSeq(string, length - decimals + 1, length)

\* etherUnitScaleFactor and etherCreateUnit, etherCreateString, etherGetValueString: a unit has three decimals
\* more than the one before (one more here)
ScaleFactor(unit)          == Parse(<<1>> \o [i \in 1 .. unit |-> 0], Decimal).value
EtherCreateUnit(x, unit)   == IF unit = 0 THEN [overflow |-> FALSE, value |-> x] ELSE Coerce(Mul(x, ScaleFactor(unit)))
EtherCreateString(s, unit) == ParseDecimal(s, unit)
EtherString(x, unit)       == StringDecimal(x, unit)

-----------------------------------------------------------------------------
ValueOf(x) == LET sum[i \in -1 .. Words - 1] == IF i = -1 THEN 0 ELSE sum[i - 1] + x[i] * Word^i IN sum[Words - 1]
WideOf(z)  == LET sum[i \in -1 .. 2 * Words - 1] == IF i = -1 THEN 0 ELSE sum[i - 1] + z[i] * Word^i
              IN sum[2 * Words - 1]
Fits(n)    == n < Word^Words
UInts      == [0 .. Words - 1 -> 0 .. Word - 1]

\* Arithmetic is that of the numbers; what does not fit says so and is zero.
ArithmeticAgrees(x, y) ==
    LET n == ValueOf(x)
        m == ValueOf(y)
    IN /\ Add(x, y).overflow = ~Fits(n + m) /\ (Fits(n + m) => ValueOf(Add(x, y).value) = n + m)
       /\ WideOf(AddWide(x, y)) = n + m
       /\ Sub(x, y).negative = (n < m) /\ ValueOf(Sub(x, y).value) = (IF n < m THEN m - n ELSE n - m)
       /\ WideOf(Mul(x, y)) = n * m
       /\ Coerce(Mul(x, y)).overflow = ~Fits(n * m)
       /\ n \in 1 .. Word - 1 => LET d == DivSmall(y, n) IN ValueOf(d.value) = m \div n /\ d.remainder = m % n

\* A string is read as its number, or as too large when it is.
ParseAgrees(string, base) ==
    LET n == FoldLeft(LAMBDA a, d : a * base + d, 0, string)
        p == Parse(string, base)
    IN IF Fits(n) THEN p.status = "ok" /\ ValueOf(p.value) = n ELSE p.status = "overflow"

\* An amount is read exactly, or said to be too fine or too large when it is; anything else is strange.
AmountAgrees(string, decimals) ==
    LET dots  == {i \in DOMAIN string : string[i] = Dot}
        after == IF dots = {} THEN 0 ELSE CHOOSE n \in 0 .. Len(string) : Len(string) - n \in dots
        n     == FoldLeft(LAMBDA a, d : IF d = Dot THEN a ELSE a * Decimal + d, 0, string) * Decimal^decimals
        p     == ParseDecimal(string, decimals)
    IN CASE string = <<>> \/ 1 \in dots \/ Cardinality(dots) > 1 -> p.status = "strange"
         [] string # <<>> /\ 1 \notin dots /\ Cardinality(dots) <= 1 ->
                IF n % Decimal^after # 0 THEN p.status = "underflow"
                ELSE IF ~Fits(n \div Decimal^after) THEN p.status = "overflow"
                ELSE p.status = "ok" /\ ValueOf(p.value) = n \div Decimal^after

\* A number is read back from its string in every base, an amount from its string in every unit, and a unit
\* scales as its decimals do.
NumberRoundTrip(x) ==
    /\ \A base \in {Binary, Decimal, Hex} : Parse(String(x, base), base) = [status |-> "ok", value |-> x]
    /\ \A unit \in 0 .. 7 : EtherCreateString(EtherString(x, unit), unit) = [status |-> "ok", value |-> x]
    /\ \A unit \in 0 .. 4 : LET e == EtherCreateUnit(x, unit) IN
           ~e.overflow => EtherCreateString(String(x, Decimal), unit).value = e.value
================================================================================
