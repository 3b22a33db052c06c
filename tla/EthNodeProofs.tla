------------------------------ MODULE EthNodeProofs ------------------------------
(* Proofs about EthNode: its types and bounds, the order of the wallets' lists, *)
(* and that the ether wallet shows no transaction twice.                        *)
EXTENDS EthNode, SequenceTheorems, FiniteSetTheorems, WellFoundedInduction, TLAPS

-----------------------------------------------------------------------------
(* What the community modules' list operators do, and sets of numbers.        *)

\* An element put into a list at p.
LEMMA InsertAtFacts ==
    ASSUME NEW S, NEW s \in Seq(S), NEW p \in 1 .. Len(s) + 1, NEW e \in S
    PROVE  /\ InsertAt(s, p, e) \in Seq(S)
           /\ Len(InsertAt(s, p, e)) = Len(s) + 1
           /\ \A j \in 1 .. p - 1 : InsertAt(s, p, e)[j] = s[j]
           /\ InsertAt(s, p, e)[p] = e
           /\ \A j \in p .. Len(s) : InsertAt(s, p, e)[j + 1] = s[j]
<1> DEFINE a == SubSeq(s, 1, p - 1)  b == a \o <<e>>  c == SubSeq(s, p, Len(s))
<1>0. Len(s) \in Nat /\ \A j \in 1 .. Len(s) : s[j] \in S
  BY LenProperties
<1>1. a \in Seq(S) /\ Len(a) = p - 1 /\ \A j \in 1 .. p - 1 : a[j] = s[j]
  BY <1>0, SubSeqProperties
<1>2. c \in Seq(S) /\ Len(c) = Len(s) - p + 1 /\ \A j \in 1 .. Len(s) - p + 1 : c[j] = s[p + j - 1]
  BY <1>0, SubSeqProperties
<1>3. b \in Seq(S) /\ Len(b) = p /\ b[p] = e /\ \A j \in 1 .. p - 1 : b[j] = s[j]
  <2>1. <<e>> \in Seq(S) /\ Len(<<e>>) = 1 /\ <<e>>[1] = e
    OBVIOUS
  <2> HIDE DEF a
  <2>2. /\ a \o <<e>> \in Seq(S)
        /\ Len(a \o <<e>>) = Len(a) + Len(<<e>>)
        /\ \A j \in 1 .. Len(a) + Len(<<e>>) :
               (a \o <<e>>)[j] = IF j <= Len(a) THEN a[j] ELSE <<e>>[j - Len(a)]
    BY ONLY <1>1, <2>1, ConcatProperties
  <2>3. b \in Seq(S) /\ Len(b) = p
    BY <1>0, <1>1, <2>1, <2>2
  <2>4. b[p] = e
    <3>1. p \in 1 .. Len(a) + Len(<<e>>) /\ ~ (p <= Len(a)) /\ p - Len(a) = 1
      BY <1>0, <1>1, <2>1
    <3> QED BY <2>1, <2>2, <3>1
  <2>5. ASSUME NEW j \in 1 .. p - 1 PROVE b[j] = s[j]
    <3>1. j \in 1 .. Len(a) + Len(<<e>>) /\ j <= Len(a)
      BY <1>0, <1>1, <2>1
    <3> QED BY <1>1, <2>2, <3>1
  <2> QED BY <2>3, <2>4, <2>5
<1>4. InsertAt(s, p, e) = b \o c
  BY DEF InsertAt
<1> HIDE DEF b, c
<1>5. b \o c \in Seq(S) /\ Len(b \o c) = Len(s) + 1
  BY <1>0, <1>2, <1>3, ConcatProperties
<1>6. \A j \in 1 .. p : (b \o c)[j] = b[j]
  BY <1>0, <1>2, <1>3, ConcatProperties
<1>7. ASSUME NEW j \in p .. Len(s) PROVE (b \o c)[j + 1] = s[j]
  <2>1. j + 1 \in 1 .. Len(b) + Len(c) /\ ~ (j + 1 <= Len(b)) /\ j + 1 - Len(b) = j + 1 - p
    BY <1>0, <1>2, <1>3
  <2>2. (b \o c)[j + 1] = c[j + 1 - Len(b)]
    BY <1>2, <1>3, <2>1, ConcatProperties
  <2>3. j + 1 - p \in 1 .. Len(s) - p + 1 /\ p + (j + 1 - p) - 1 = j
    BY <1>0
  <2> QED BY <1>2, <2>1, <2>2, <2>3
<1> QED
  BY <1>0, <1>3, <1>4, <1>5, <1>6, <1>7

\* The element at p taken out of a list.
LEMMA RemoveAtFacts ==
    ASSUME NEW S, NEW s \in Seq(S), NEW p \in 1 .. Len(s)
    PROVE  /\ RemoveAt(s, p) \in Seq(S)
           /\ Len(RemoveAt(s, p)) = Len(s) - 1
           /\ \A j \in 1 .. p - 1 : RemoveAt(s, p)[j] = s[j]
           /\ \A j \in p .. Len(s) - 1 : RemoveAt(s, p)[j] = s[j + 1]
<1> DEFINE a == SubSeq(s, 1, p - 1)  c == SubSeq(s, p + 1, Len(s))
<1>0. Len(s) \in Nat /\ \A j \in 1 .. Len(s) : s[j] \in S
  BY LenProperties
<1>1. a \in Seq(S) /\ Len(a) = p - 1 /\ \A j \in 1 .. p - 1 : a[j] = s[j]
  BY <1>0, SubSeqProperties
<1>2. c \in Seq(S) /\ Len(c) = Len(s) - p /\ \A j \in 1 .. Len(s) - p : c[j] = s[p + j]
  BY <1>0, SubSeqProperties
<1>3. RemoveAt(s, p) = a \o c
  BY DEF RemoveAt
<1> HIDE DEF a, c
<1>4. a \o c \in Seq(S) /\ Len(a \o c) = Len(s) - 1
  <2>1. a \o c \in Seq(S) /\ Len(a \o c) = Len(a) + Len(c)
    BY <1>1, <1>2, ConcatProperties
  <2> QED BY <1>0, <1>1, <1>2, <2>1
<1>5. \A j \in 1 .. p - 1 : (a \o c)[j] = a[j]
  BY <1>0, <1>1, <1>2, ConcatProperties
<1>6. ASSUME NEW j \in p .. Len(s) - 1 PROVE (a \o c)[j] = s[j + 1]
  <2>1. j \in 1 .. Len(a) + Len(c) /\ ~ (j <= Len(a)) /\ j - Len(a) = j - p + 1
    BY <1>0, <1>1, <1>2
  <2>2. (a \o c)[j] = c[j - Len(a)]
    BY <1>1, <1>2, <2>1, ConcatProperties
  <2>3. j - p + 1 \in 1 .. Len(s) - p /\ p + (j - p + 1) = j + 1
    BY <1>0
  <2> QED BY <1>2, <2>1, <2>2, <2>3
<1> QED
  BY <1>0, <1>1, <1>3, <1>4, <1>5, <1>6

\* Sets of numbers have a least and, where bounded, a greatest element.
LEMMA LeastExists ==
    ASSUME NEW T \in SUBSET Nat, T # {}
    PROVE  \E x \in T : \A y \in T : x <= y
<1>1. PICK x \in T : \A y \in T : ~ (<<y, x>> \in OpToRel(<, Nat))
  BY NatLessThanWellFounded, WFMin
<1>2. ASSUME NEW y \in T, y < x PROVE FALSE
  <2>1. <<y, x>> \in Nat \X Nat /\ <<y, x>>[1] < <<y, x>>[2]
    BY <1>2
  <2>2. <<y, x>> \in OpToRel(<, Nat)
    BY <2>1 DEF OpToRel
  <2> QED BY <1>1, <2>2
<1> QED BY <1>2

LEMMA GreatestExists ==
    ASSUME NEW n \in Nat, NEW T \in SUBSET (0 .. n), T # {}
    PROVE  \E x \in T : \A y \in T : y <= x
<1> DEFINE U == {n - x : x \in T}
<1>1. U \in SUBSET Nat /\ U # {}
  <2>1. ASSUME NEW x \in T PROVE n - x \in Nat
    BY x \in 0 .. n
  <2> QED BY <2>1
<1>2. PICK u \in U : \A v \in U : u <= v
  BY <1>1, LeastExists
<1>3. PICK x \in T : u = n - x
  OBVIOUS
<1>4. ASSUME NEW y \in T PROVE y <= x
  <2>1. n - x <= n - y
    BY <1>2, <1>3
  <2> QED BY <2>1
<1> QED BY <1>4

-----------------------------------------------------------------------------
(* The lists.                                                               *)

Dist(list)  == \A i, j \in DOMAIN list : list[i] = list[j] => i = j
Items(list) == {list[k] : k \in DOMAIN list}

\* Blocked transactions by their place on the chain.
Ordered(list, txs) == \A i, j \in DOMAIN list :
    i < j /\ txs[list[i]].status = "blocked" /\ txs[list[j]].status = "blocked" =>
        txs[list[i]].block <= txs[list[j]].block

LEMMA ItemsFacts ==
    ASSUME NEW S, NEW s \in Seq(S)
    PROVE  Len(s) \in Nat /\ DOMAIN s = 1 .. Len(s) /\ (\A i \in DOMAIN s : s[i] \in S) /\ Items(s) \subseteq S
BY LenProperties DEF Items

\* Where a transaction is inserted.
LEMMA InsertPlace ==
    ASSUME NEW S, NEW list \in Seq(S), NEW t \in S, NEW txs
    PROVE  \E p \in 0 .. Len(list) :
               /\ InsertSorted(list, t, txs) = InsertAt(list, p + 1, t)
               /\ p > 0 => ~Less(txs[t], txs[list[p]])
               /\ \A j \in p + 1 .. Len(list) : Less(txs[t], txs[list[j]])
<1> DEFINE before == {0} \union {k \in DOMAIN list : ~Less(txs[t], txs[list[k]])}
           p == CHOOSE k \in before : \A j \in before : j <= k
<1>0. Len(list) \in Nat /\ DOMAIN list = 1 .. Len(list)
  BY LenProperties
<1>1. before \in SUBSET (0 .. Len(list)) /\ before # {}
  BY <1>0
<1>4. InsertSorted(list, t, txs) = InsertAt(list, p + 1, t)
  BY DEF InsertSorted
<1>2. \E x \in before : \A y \in before : y <= x
  <2> HIDE DEF before
  <2> QED BY <1>0, <1>1, GreatestExists
<1>3. p \in before /\ \A j \in before : j <= p
  <2> HIDE DEF before
  <2> QED BY <1>2
<1> HIDE DEF p
<1>5. p \in 0 .. Len(list) /\ (p > 0 => ~Less(txs[t], txs[list[p]]))
  BY <1>0, <1>3
<1>6. ASSUME NEW j \in p + 1 .. Len(list) PROVE Less(txs[t], txs[list[j]])
  <2>1. j \in DOMAIN list /\ ~ (j <= p)
    BY <1>0, <1>5
  <2> QED BY <1>3, <2>1
<1> QED BY <1>4, <1>5, <1>6

\* r is list with t put in after the p-th.
PutIn(list, t, p, r) ==
    /\ DOMAIN r = 1 .. Len(list) + 1 /\ DOMAIN list = 1 .. Len(list) /\ Len(list) \in Nat
    /\ r[p + 1] = t
    /\ \A j \in 1 .. p : r[j] = list[j]
    /\ \A j \in p + 1 .. Len(list) : j + 1 \in DOMAIN r /\ r[j + 1] = list[j]
    /\ \A j \in DOMAIN r : \/ j \in 1 .. p /\ r[j] = list[j]
                           \/ j = p + 1 /\ r[j] = t
                           \/ j - 1 \in p + 1 .. Len(list) /\ r[j] = list[j - 1]

LEMMA InsertIsPutIn ==
    ASSUME NEW S, NEW list \in Seq(S), NEW t \in S, NEW p \in 0 .. Len(list)
    PROVE  InsertAt(list, p + 1, t) \in Seq(S) /\ PutIn(list, t, p, InsertAt(list, p + 1, t))
<1> DEFINE r == InsertAt(list, p + 1, t)
<1>0. Len(list) \in Nat /\ DOMAIN list = 1 .. Len(list)
  BY LenProperties
<1>1. PICK q \in 1 .. Len(list) + 1 : q = p + 1
  BY <1>0
<1>2. /\ r \in Seq(S) /\ Len(r) = Len(list) + 1
      /\ \A j \in 1 .. q - 1 : r[j] = list[j]
      /\ r[q] = t
      /\ \A j \in q .. Len(list) : r[j + 1] = list[j]
  <2>1. r = InsertAt(list, q, t)
    BY <1>1
  <2>2. /\ InsertAt(list, q, t) \in Seq(S) /\ Len(InsertAt(list, q, t)) = Len(list) + 1
        /\ \A j \in 1 .. q - 1 : InsertAt(list, q, t)[j] = list[j]
        /\ InsertAt(list, q, t)[q] = t
        /\ \A j \in q .. Len(list) : InsertAt(list, q, t)[j + 1] = list[j]
    BY InsertAtFacts
  <2> HIDE DEF r
  <2> QED BY <2>1, <2>2
<1> HIDE DEF r
<1>3. DOMAIN r = 1 .. Len(list) + 1
  BY <1>2, LenProperties
<1>4. ASSUME NEW j \in DOMAIN r
      PROVE  \/ j \in 1 .. p /\ r[j] = list[j]
             \/ j = p + 1 /\ r[j] = t
             \/ j - 1 \in p + 1 .. Len(list) /\ r[j] = list[j - 1]
  <2>1. j \in 1 .. p \/ j = p + 1 \/ j - 1 \in p + 1 .. Len(list)
    BY <1>0, <1>3
  <2>2. j - 1 \in q .. Len(list) => r[(j - 1) + 1] = list[j - 1]
    BY <1>2
  <2>3. (j - 1) + 1 = j
    BY <1>0, <1>3
  <2> QED BY <1>0, <1>1, <1>2, <2>1, <2>2, <2>3
<1>5. PutIn(list, t, p, r)
  BY <1>0, <1>1, <1>2, <1>3, <1>4 DEF PutIn
<1> QED BY <1>2, <1>5 DEF r

LEMMA InsertFacts ==
    ASSUME NEW S, NEW list \in Seq(S), Dist(list), NEW t \in S, t \notin Items(list), NEW txs
    PROVE  LET r == InsertSorted(list, t, txs)
           IN  r \in Seq(S) /\ Dist(r) /\ Items(r) = Items(list) \union {t}
<1> DEFINE r == InsertSorted(list, t, txs)
           n == Len(list)
<1>0. PICK p \in 0 .. n : /\ r = InsertAt(list, p + 1, t)
                          /\ p > 0 => ~Less(txs[t], txs[list[p]])
                          /\ \A j \in p + 1 .. n : Less(txs[t], txs[list[j]])
  BY InsertPlace
<1> HIDE DEF r
<1>1. r \in Seq(S) /\ PutIn(list, t, p, r)
  BY <1>0, InsertIsPutIn
<1>2. n \in Nat /\ DOMAIN list = 1 .. n /\ DOMAIN r = 1 .. n + 1 /\ \A k \in 1 .. n : list[k] \in S
  BY <1>1, LenProperties DEF PutIn
<1>3. \A j \in 1 .. n + 1 : \/ j \in 1 .. p /\ r[j] = list[j]
                            \/ j = p + 1 /\ r[j] = t
                            \/ j - 1 \in p + 1 .. n /\ r[j] = list[j - 1]
  BY <1>1, <1>2 DEF PutIn
<1>4. Items(r) = Items(list) \union {t}
  <2>1. Items(r) \subseteq Items(list) \union {t}
    BY <1>2, <1>3 DEF Items
  <2>2. ASSUME NEW k \in 1 .. n PROVE list[k] \in Items(r)
    <3>1. CASE k \in 1 .. p
      BY <1>1, <1>2, <3>1 DEF Items, PutIn
    <3>2. CASE k \in p + 1 .. n
      BY <1>1, <1>2, <3>2 DEF Items, PutIn
    <3> QED BY <1>2, <3>1, <3>2
  <2>3. t \in Items(r)
    BY <1>1, <1>2 DEF Items, PutIn
  <2> QED BY <1>2, <2>1, <2>2, <2>3 DEF Items
<1>5. Dist(r)
  <2> SUFFICES ASSUME NEW i \in 1 .. n + 1, NEW j \in 1 .. n + 1, r[i] = r[j] PROVE i = j
    BY <1>2 DEF Dist
  <2>1. \A k \in 1 .. n : list[k] # t
    BY <1>2 DEF Items
  <2>2. \A k, l \in 1 .. n : list[k] = list[l] => k = l
    BY <1>2 DEF Dist
  <2> QED BY <1>2, <1>3, <2>1, <2>2
<1> QED BY <1>1, <1>4, <1>5 DEF r

\* Inserting keeps the blocked ones in order.
LEMMA InsertOrdered ==
    ASSUME NEW S, NEW list \in Seq(S), NEW t \in S, NEW txs,
           \A u \in S : txs[u].block \in Nat, Ordered(list, txs)
    PROVE  Ordered(InsertSorted(list, t, txs), txs)
<1> DEFINE r == InsertSorted(list, t, txs)
           n == Len(list)
<1>0. PICK p \in 0 .. n : /\ r = InsertAt(list, p + 1, t)
                          /\ p > 0 => ~Less(txs[t], txs[list[p]])
                          /\ \A j \in p + 1 .. n : Less(txs[t], txs[list[j]])
  BY InsertPlace
<1> HIDE DEF r
<1>1. r \in Seq(S) /\ PutIn(list, t, p, r)
  BY <1>0, InsertIsPutIn
<1>2. n \in Nat /\ DOMAIN list = 1 .. n /\ DOMAIN r = 1 .. n + 1 /\ \A k \in 1 .. n : list[k] \in S
  BY <1>1, LenProperties DEF PutIn
<1>3. \A j \in 1 .. n + 1 : \/ j \in 1 .. p /\ r[j] = list[j]
                            \/ j = p + 1 /\ r[j] = t
                            \/ j - 1 \in p + 1 .. n /\ r[j] = list[j - 1]
  BY <1>1, <1>2 DEF PutIn
<1> DEFINE before(a, b) == txs[a].status = "blocked" /\ txs[b].status = "blocked" => txs[a].block <= txs[b].block
<1>4. \A a, b \in 1 .. n : a < b => before(list[a], list[b])
  BY <1>2 DEF Ordered
<1>5. ASSUME NEW a \in 1 .. p PROVE before(list[a], t)
  <2>1. txs[t].status = "blocked" => txs[list[p]].status = "blocked" /\ txs[list[p]].block <= txs[t].block
    BY <1>0, <1>1, <1>2 DEF Less
  <2>2. a = p \/ before(list[a], list[p])
    BY <1>2, <1>4
  <2>3. list[a] \in S /\ list[p] \in S
    BY <1>2
  <2> QED BY <2>1, <2>2, <2>3
<1>6. ASSUME NEW b \in p + 1 .. n PROVE before(t, list[b])
  <2>1. Less(txs[t], txs[list[b]]) /\ list[b] \in S
    BY <1>0, <1>1, <1>2
  <2> QED BY <2>1 DEF Less
<1>7. ASSUME NEW i \in 1 .. n + 1, NEW j \in 1 .. n + 1, i < j PROVE before(r[i], r[j])
  <2> HIDE DEF before
  <2> QED BY <1>2, <1>3, <1>4, <1>5, <1>6, <1>7
<1> QED BY <1>2, <1>7 DEF Ordered, r

\* Taking a transaction out of a list keeps the order of the others.
LEMMA WithoutFacts ==
    ASSUME NEW S, NEW list \in Seq(S), Dist(list), NEW t
    PROVE  /\ Without(list, t) \in Seq(S) /\ Dist(Without(list, t))
           /\ Items(Without(list, t)) = Items(list) \ {t}
           /\ \A i, j \in DOMAIN Without(list, t) : i < j =>
                \E k, l \in DOMAIN list : /\ k < l
                                          /\ list[k] = Without(list, t)[i] /\ list[l] = Without(list, t)[j]
<1> DEFINE r == Without(list, t)
<1>0. Len(list) \in Nat /\ DOMAIN list = 1 .. Len(list)
  BY LenProperties
<1>1. CASE ~ \E k \in DOMAIN list : list[k] = t
  <2>1. r = list
    BY <1>1 DEF Without
  <2>2. t \notin Items(list)
    BY <1>1 DEF Items
  <2> QED BY <2>1, <2>2
<1>2. CASE \E k \in DOMAIN list : list[k] = t
  <2>1. PICK p \in DOMAIN list : list[p] = t /\ r = RemoveAt(list, p)
    BY <1>2 DEF Without
  <2> HIDE DEF r
  <2>2. p \in 1 .. Len(list)
    BY <1>0
  <2>3. /\ r \in Seq(S) /\ Len(r) = Len(list) - 1
        /\ \A j \in 1 .. p - 1 : r[j] = list[j]
        /\ \A j \in p .. Len(list) - 1 : r[j] = list[j + 1]
    BY <2>1, <2>2, RemoveAtFacts
  <2>4. DOMAIN r = 1 .. Len(list) - 1
    BY <2>3, LenProperties
  <2> DEFINE from(j) == IF j < p THEN j ELSE j + 1
  <2>5. \A j \in DOMAIN r : from(j) \in DOMAIN list \ {p} /\ r[j] = list[from(j)]
    <3> SUFFICES ASSUME NEW j \in DOMAIN r PROVE from(j) \in DOMAIN list \ {p} /\ r[j] = list[from(j)]
      OBVIOUS
    <3>1. CASE j < p
      BY <1>0, <2>2, <2>3, <2>4, <3>1
    <3>2. CASE ~ (j < p)
      BY <1>0, <2>2, <2>3, <2>4, <3>2
    <3> QED BY <3>1, <3>2
  <2>6. \A i, j \in DOMAIN r : i < j => from(i) < from(j)
    BY <1>0, <2>2, <2>4
  <2>7. Dist(r)
    <3> SUFFICES ASSUME NEW i \in DOMAIN r, NEW j \in DOMAIN r, r[i] = r[j] PROVE i = j
      BY DEF Dist
    <3>1. from(i) = from(j)
      <4> HIDE DEF from
      <4> QED BY <2>5 DEF Dist
    <3> QED BY <1>0, <2>2, <2>4, <3>1
  <2>8. \A k \in DOMAIN list \ {p} : \E j \in DOMAIN r : from(j) = k
    <3> SUFFICES ASSUME NEW k \in DOMAIN list \ {p} PROVE \E j \in DOMAIN r : from(j) = k
      OBVIOUS
    <3>1. CASE k < p
      BY <1>0, <2>2, <2>4, <3>1
    <3>2. CASE ~ (k < p)
      <4>1. k - 1 \in DOMAIN r /\ from(k - 1) = k
        BY <1>0, <2>2, <2>4, <3>2
      <4> QED BY <4>1
    <3> QED BY <3>1, <3>2
  <2> HIDE DEF from
  <2>9. Items(r) = Items(list) \ {t}
    <3>1. ASSUME NEW j \in DOMAIN r PROVE r[j] \in Items(list) \ {t}
      BY <2>1, <2>5 DEF Items, Dist
    <3>2. ASSUME NEW k \in DOMAIN list, list[k] # t PROVE list[k] \in Items(r)
      <4>1. PICK j \in DOMAIN r : from(j) = k
        BY <2>1, <2>8, <3>2
      <4> QED BY <2>5, <4>1 DEF Items
    <3> QED BY <3>1, <3>2 DEF Items
  <2> QED BY <2>3, <2>5, <2>6, <2>7, <2>9 DEF r
<1> QED BY <1>1, <1>2

\* What moving a transaction in a list does, where txs is what the transactions become.
LEMMA UpdateFacts ==
    ASSUME NEW S, NEW list \in Seq(S), Dist(list), NEW t \in S, NEW txs
    PROVE  /\ UpdateSorted(list, t, txs) \in Seq(S) /\ Dist(UpdateSorted(list, t, txs))
           /\ \A x : x \in Items(UpdateSorted(list, t, txs)) <=> x \in Items(list) \/ x = t
<1> DEFINE s == Without(list, t)
<1>1. s \in Seq(S) /\ Dist(s) /\ Items(s) = Items(list) \ {t}
  BY WithoutFacts
<1>2. UpdateSorted(list, t, txs) = InsertSorted(s, t, txs)
  BY DEF UpdateSorted
<1> HIDE DEF s
<1>3. /\ InsertSorted(s, t, txs) \in Seq(S) /\ Dist(InsertSorted(s, t, txs))
      /\ Items(InsertSorted(s, t, txs)) = Items(s) \union {t}
  BY <1>1, InsertFacts
<1> QED BY <1>1, <1>2, <1>3

LEMMA UpdateOrdered ==
    ASSUME NEW S, NEW list \in Seq(S), Dist(list), NEW t \in S, NEW old, NEW txs,
           \A u \in S : txs[u].block \in Nat, Ordered(list, old),
           \A u \in Items(list) \ {t} : txs[u].status = "blocked" =>
                old[u].status = "blocked" /\ old[u].block = txs[u].block
    PROVE  Ordered(UpdateSorted(list, t, txs), txs)
<1> DEFINE s == Without(list, t)
<1>1. /\ s \in Seq(S) /\ Items(s) = Items(list) \ {t}
      /\ \A i, j \in DOMAIN s : i < j =>
            \E k, l \in DOMAIN list : k < l /\ list[k] = s[i] /\ list[l] = s[j]
  BY WithoutFacts
<1>2. UpdateSorted(list, t, txs) = InsertSorted(s, t, txs)
  BY DEF UpdateSorted
<1> HIDE DEF s
<1>3. Ordered(s, txs)
  <2> SUFFICES ASSUME NEW i \in DOMAIN s, NEW j \in DOMAIN s, i < j,
                      txs[s[i]].status = "blocked", txs[s[j]].status = "blocked"
               PROVE  txs[s[i]].block <= txs[s[j]].block
    BY DEF Ordered
  <2>1. PICK k \in DOMAIN list, l \in DOMAIN list : k < l /\ list[k] = s[i] /\ list[l] = s[j]
    BY <1>1
  <2>2. s[i] \in Items(list) \ {t} /\ s[j] \in Items(list) \ {t}
    BY <1>1 DEF Items
  <2> QED BY <2>1, <2>2 DEF Ordered
<1> QED BY <1>1, <1>2, <1>3, InsertOrdered

-----------------------------------------------------------------------------
(* The inductive invariant.                                                 *)

Signed == {t \in Created : transactions[t].nonce # Unassigned}
Others == DOMAIN transactions \ Created

\* Each wallet lists, once each, the transactions of its kind.
ListsOK == \A w \in Kinds :
    Dist(wallets[w]) /\ Listed(w) = {t \in DOMAIN transactions : transactions[t].kind = w}

\* One created here has no hash but its own.
CreatedOK == \A t \in Created : transactions[t].ours /\ transactions[t].hash \in {NoHash, t}

\* One from the chain is blocked from the start, its wallet has no other of the same hash from
\* the chain, and when it was created here after all then it is listed in the other wallet.
OthersOK == \A t \in Others :
    /\ transactions[t].status = "blocked" /\ transactions[t].hash # NoHash
    /\ \E i \in DOMAIN chain : chain[i].hash = transactions[t].hash
    /\ transactions[t].hash > 0 /\ transactions[t].kind = "ether" =>
          transactions[transactions[t].hash].kind = "token"
    /\ \A u \in Others : transactions[t].kind = transactions[u].kind /\ transactions[t].hash = transactions[u].hash => t = u

\* What is mined of those created here is mined as it was signed.
ChainOK == \A i \in DOMAIN chain :
    /\ chain[i].hash # NoHash
    /\ chain[i].hash > 0 => /\ chain[i].hash \in Signed /\ chain[i].ours
                            /\ transactions[chain[i].hash].nonce = chain[i].nonce
                            /\ transactions[chain[i].hash].kind = chain[i].kind

\* The one that is being sent is nowhere but here, and has no nonce until it is stored.
SenderOK == sender.pc # "idle" =>
    /\ sender.tid \in Created /\ calls[sender.tid] = "none" /\ sender.tid \notin pool
    /\ \A i \in DOMAIN chain : chain[i].hash # sender.tid
    /\ sender.pc \in {"load", "store"} <=> sender.tid \notin Signed

CallsOK == (\A t \in Tids : calls[t] # "none" => t \in Signed) /\ pool \subseteq Signed

\* A nonce is the server's count or one more for each one signed here.
NonceOK ==
    /\ Cardinality(Created) <= MaxSends /\ nonces \subseteq 0 .. MaxChain
    /\ addressNonce <= MaxChain + Cardinality(Signed)
    /\ sender.pc = "store" => sender.nonce <= MaxChain + Cardinality(Signed)

OrderOK == \A w \in Kinds : Ordered(wallets[w], transactions)

Inv == /\ TypeOK /\ ListsOK /\ CreatedOK /\ OthersOK /\ ChainOK
       /\ SenderOK /\ CallsOK /\ NonceOK /\ OrderOK

-----------------------------------------------------------------------------
(* Counting.                                                                *)

LEMMA DomainFacts ==
    ASSUME NEW S, NEW s \in Seq(S)
    PROVE  /\ Len(s) \in Nat /\ DOMAIN s = 1 .. Len(s)
           /\ IsFiniteSet(DOMAIN s) /\ Cardinality(DOMAIN s) = Len(s)
<1>1. Len(s) \in Nat /\ DOMAIN s = 1 .. Len(s)
  BY LenProperties
<1>2. IsFiniteSet(1 .. Len(s)) /\ Cardinality(1 .. Len(s)) = Len(s)
  BY <1>1, FS_Interval
<1> QED BY <1>1, <1>2

LEMMA SubsetCount ==
    ASSUME NEW T, IsFiniteSet(T), NEW U \in SUBSET T
    PROVE  IsFiniteSet(U) /\ Cardinality(U) \in Nat /\ Cardinality(U) <= Cardinality(T) /\ Cardinality(T) \in Nat
BY FS_Subset, FS_CardinalityType

\* Each of U has a hash of its own, that of one of the first n mined.
OfTheChain(U, n, hash, mined) ==
    /\ \A t \in U : \E i \in 1 .. n : mined[i].hash = hash[t]
    /\ \A t, u \in U : hash[t] = hash[u] => t = u

\* Of each kind there are at most as many as there are mined ones.
LEMMA KindCount ==
    ASSUME NEW U, NEW n \in Nat, NEW hash, NEW mined, OfTheChain(U, n, hash, mined)
    PROVE  IsFiniteSet(U) /\ Cardinality(U) <= n
<1> DEFINE f == [t \in U |-> CHOOSE i \in 1 .. n : mined[i].hash = hash[t]]
<1>1. \A t \in U : f[t] \in 1 .. n /\ mined[f[t]].hash = hash[t]
  BY DEF OfTheChain
<1>2. f \in Injection(U, 1 .. n)
  BY <1>1 DEF Injection, IsInjective, OfTheChain
<1>3. IsFiniteSet(1 .. n) /\ Cardinality(1 .. n) = n
  BY FS_Interval
<1> HIDE DEF f
<1> QED BY <1>2, <1>3, FS_Injection

\* Each of txs that is not created here has the hash of one of the first n mined, and is the
\* only one of its kind that has it.
RestOfTheChain(txs, here, n, mined) ==
    /\ \A t \in DOMAIN txs \ here : \E i \in 1 .. n : mined[i].hash = txs[t].hash
    /\ \A t, u \in DOMAIN txs \ here : txs[t].kind = txs[u].kind /\ txs[t].hash = txs[u].hash => t = u

LEMMA LengthBound ==
    ASSUME NEW txs \in Seq(Transaction), NEW here \in SUBSET DOMAIN txs, Cardinality(here) <= MaxSends,
           NEW n \in Nat, n <= MaxChain, NEW mined, RestOfTheChain(txs, here, n, mined)
    PROVE  Len(txs) <= MaxSends + 2 * MaxChain
<1> DEFINE hash == [t \in DOMAIN txs |-> txs[t].hash]
           U(k) == {t \in DOMAIN txs \ here : txs[t].kind = k}
<1>0. /\ IsFiniteSet(DOMAIN txs) /\ Cardinality(DOMAIN txs) = Len(txs) /\ Len(txs) \in Nat
      /\ \A t \in DOMAIN txs : txs[t].kind \in Kinds
  <2>1. \A t \in DOMAIN txs : txs[t] \in Transaction
    BY ItemsFacts
  <2>2. \A t \in DOMAIN txs : txs[t].kind \in Kinds
    BY <2>1 DEF Transaction
  <2> QED BY <2>2, DomainFacts
<1>1. \A k : IsFiniteSet(U(k)) /\ Cardinality(U(k)) <= n
  <2> SUFFICES ASSUME NEW k PROVE IsFiniteSet(U(k)) /\ Cardinality(U(k)) <= n
    OBVIOUS
  <2> DEFINE W == U(k)
  <2>1. OfTheChain(W, n, hash, mined)
    BY DEF OfTheChain, RestOfTheChain
  <2> HIDE DEF W, hash
  <2>2. IsFiniteSet(W) /\ Cardinality(W) <= n
    BY <2>1, KindCount
  <2> QED BY <2>2 DEF W
<1>2. DOMAIN txs = here \union (U("ether") \union U("token"))
  BY <1>0 DEF Kinds
<1>3. IsFiniteSet(here) /\ Cardinality(here) \in Nat
  BY <1>0, SubsetCount
<1>4. /\ Cardinality(U("ether")) \in Nat /\ Cardinality(U("token")) \in Nat
  <2> HIDE DEF U
  <2> QED BY <1>1, FS_CardinalityType
<1> HIDE DEF U
<1>5. /\ IsFiniteSet(U("ether") \union U("token"))
      /\ Cardinality(U("ether") \union U("token")) \in Nat
      /\ Cardinality(U("ether") \union U("token")) <= Cardinality(U("ether")) + Cardinality(U("token"))
  <2>1. /\ IsFiniteSet(U("ether") \union U("token")) /\ IsFiniteSet(U("ether") \cap U("token"))
        /\ Cardinality(U("ether") \union U("token")) =
              Cardinality(U("ether")) + Cardinality(U("token")) - Cardinality(U("ether") \cap U("token"))
    BY <1>1, FS_Union, FS_Intersection
  <2>2. Cardinality(U("ether") \cap U("token")) \in Nat /\ Cardinality(U("ether") \union U("token")) \in Nat
    BY <2>1, FS_CardinalityType
  <2> QED BY <1>4, <2>1, <2>2
<1> DEFINE V == U("ether") \union U("token")
<1>6. Cardinality(here \union V) <= Cardinality(here) + Cardinality(V)
  <2> HIDE DEF V
  <2>0. IsFiniteSet(V) /\ Cardinality(V) \in Nat
    BY <1>5 DEF V
  <2>1. /\ IsFiniteSet(here \cap V)
        /\ Cardinality(here \union V) = Cardinality(here) + Cardinality(V) - Cardinality(here \cap V)
    BY <1>3, <2>0, FS_Union, FS_Intersection
  <2>2. Cardinality(here \cap V) \in Nat
    BY <2>1, FS_CardinalityType
  <2> QED BY <1>3, <2>0, <2>1, <2>2
<1> QED BY <1>0, <1>1, <1>2, <1>3, <1>4, <1>5, <1>6, EthAssumption

-----------------------------------------------------------------------------
(* What a change of the transactions does.                                  *)

LEMMA TxTyped ==
    ASSUME TypeOK
    PROVE  /\ Len(transactions) \in Nat /\ DOMAIN transactions = 1 .. Len(transactions)
           /\ \A t \in DOMAIN transactions : transactions[t] \in Transaction
           /\ DOMAIN transactions \subseteq Tids
           /\ Len(chain) \in Nat /\ DOMAIN chain = 1 .. Len(chain) /\ \A i \in DOMAIN chain : chain[i] \in Mined
<1>1. transactions \in Seq(Transaction) /\ chain \in Seq(Mined) /\ Len(transactions) \in {0} \union Tids
  BY DEF TypeOK
<1>2. /\ Len(transactions) \in Nat /\ DOMAIN transactions = 1 .. Len(transactions)
      /\ \A t \in DOMAIN transactions : transactions[t] \in Transaction
  BY <1>1, LenProperties
<1>3. Len(chain) \in Nat /\ DOMAIN chain = 1 .. Len(chain) /\ \A i \in DOMAIN chain : chain[i] \in Mined
  BY <1>1, LenProperties
<1>4. DOMAIN transactions \subseteq Tids
  BY <1>1, <1>2, EthAssumption DEF Tids
<1> QED BY <1>2, <1>3, <1>4

LEMMA NotUnassigned == Unassigned \notin Nonce /\ Unassigned \in Nat
BY EthAssumption DEF Unassigned, Nonce

LEMMA OneChanged ==
    ASSUME Inv, NEW t \in Created, NEW v \in Transaction,
           v.here = TRUE, v.ours = TRUE, v.kind = transactions[t].kind, v.hash \in {NoHash, t},
           v.nonce = transactions[t].nonce \/ \A i \in DOMAIN chain : chain[i].hash # t,
           transactions' = [transactions EXCEPT ![t] = v], chain' = chain
    PROVE  /\ transactions' \in Seq(Transaction) /\ Len(transactions') = Len(transactions)
           /\ DOMAIN transactions' = DOMAIN transactions
           /\ transactions'[t] = v /\ \A u \in DOMAIN transactions \ {t} : transactions'[u] = transactions[u]
           /\ Created' = Created
           /\ CreatedOK' /\ OthersOK' /\ ChainOK'
<1>0. TypeOK /\ CreatedOK /\ OthersOK /\ ChainOK
  BY DEF Inv
<1>1. /\ transactions' \in Seq(Transaction) /\ Len(transactions') = Len(transactions)
      /\ DOMAIN transactions' = DOMAIN transactions
      /\ transactions'[t] = v /\ \A u \in DOMAIN transactions \ {t} : transactions'[u] = transactions[u]
  <2>1. t \in 1 .. Len(transactions) /\ transactions \in Seq(Transaction)
    BY <1>0, TxTyped DEF Created, TypeOK
  <2>2. /\ transactions' \in Seq(Transaction) /\ Len(transactions') = Len(transactions)
        /\ \A u \in 1 .. Len(transactions) : transactions'[u] = IF u = t THEN v ELSE transactions[u]
    BY <2>1, ExceptSeq
  <2>3. DOMAIN transactions' = 1 .. Len(transactions)
    BY <2>2, LenProperties
  <2> QED BY <1>0, <2>1, <2>2, <2>3, TxTyped
<1>2. \A u \in DOMAIN transactions : /\ transactions'[u].here = transactions[u].here
                                     /\ transactions'[u].kind = transactions[u].kind
  BY <1>1 DEF Created
<1>3. Created' = Created /\ Others' = Others
  BY <1>1, <1>2 DEF Created, Others
<1>4. CreatedOK'
  BY <1>0, <1>1, <1>3 DEF CreatedOK, Created
<1>5. \A u \in Others : u \in DOMAIN transactions /\ transactions'[u] = transactions[u]
  BY <1>1 DEF Others
<1>6. \A u \in Others : transactions[u].hash > 0 => transactions[u].hash \in DOMAIN transactions
  BY <1>0 DEF OthersOK, ChainOK, Signed, Created
<1>7. OthersOK'
  BY <1>0, <1>2, <1>3, <1>5, <1>6 DEF OthersOK
<1>8. \A u \in Signed : (\E i \in DOMAIN chain : chain[i].hash = u) =>
          u \in Signed' /\ transactions'[u].nonce = transactions[u].nonce /\ u \in DOMAIN transactions
  BY <1>1, <1>3 DEF Signed, Created, Unassigned
<1>9. ChainOK'
  BY <1>0, <1>2, <1>8 DEF ChainOK
<1> QED BY <1>1, <1>3, <1>4, <1>7, <1>9

LEMMA OneAdded ==
    ASSUME Inv, NEW v \in Transaction, transactions' = Append(transactions, v)
    PROVE  /\ transactions' \in Seq(Transaction) /\ Len(transactions') = Len(transactions) + 1
           /\ DOMAIN transactions' = DOMAIN transactions \union {Len(transactions) + 1}
           /\ Len(transactions) + 1 \notin DOMAIN transactions
           /\ transactions'[Len(transactions) + 1] = v
           /\ \A u \in DOMAIN transactions : transactions'[u] = transactions[u]
           /\ Created' = IF v.here THEN Created \union {Len(transactions) + 1} ELSE Created
<1>0. TypeOK
  BY DEF Inv
<1>1. transactions \in Seq(Transaction) /\ Len(transactions) \in Nat /\ DOMAIN transactions = 1 .. Len(transactions)
  BY <1>0, TxTyped DEF TypeOK
<1>2. /\ transactions' \in Seq(Transaction) /\ Len(transactions') = Len(transactions) + 1
      /\ \A u \in 1 .. Len(transactions) : transactions'[u] = transactions[u]
      /\ transactions'[Len(transactions) + 1] = v
  BY <1>1, AppendProperties
<1>3. DOMAIN transactions' = 1 .. Len(transactions) + 1
  BY <1>2, LenProperties
<1>4. DOMAIN transactions' = DOMAIN transactions \union {Len(transactions) + 1}
  BY <1>1, <1>3
<1>5. Len(transactions) + 1 \notin DOMAIN transactions
  BY <1>1
<1>6. Created' = IF v.here THEN Created \union {Len(transactions) + 1} ELSE Created
  BY <1>1, <1>2, <1>4, <1>5 DEF Created
<1> QED BY <1>1, <1>2, <1>4, <1>5, <1>6

LEMMA CreatedCount ==
    ASSUME TypeOK
    PROVE  /\ IsFiniteSet(Created) /\ Cardinality(Created) \in Nat
           /\ IsFiniteSet(Signed) /\ Cardinality(Signed) \in Nat /\ Cardinality(Signed) <= Cardinality(Created)
<1>1. IsFiniteSet(DOMAIN transactions)
  BY DomainFacts DEF TypeOK
<1>2. Created \in SUBSET DOMAIN transactions /\ Signed \in SUBSET Created
  BY DEF Created, Signed
<1>3. IsFiniteSet(Created) /\ Cardinality(Created) \in Nat
  BY <1>1, <1>2, SubsetCount
<1> QED BY <1>2, <1>3, SubsetCount

LEMMA CountBound ==
    ASSUME TypeOK
    PROVE  Count \in 0 .. MaxChain /\ Count \in Nonce /\ 0 .. MaxChain \subseteq Nonce
<1> DEFINE mine == {i \in DOMAIN chain : chain[i].ours}
<1>1. IsFiniteSet(DOMAIN chain) /\ Cardinality(DOMAIN chain) = Len(chain) /\ Len(chain) \in Nat /\ Len(chain) <= MaxChain
  BY DomainFacts DEF TypeOK
<1>2. mine \in SUBSET DOMAIN chain /\ Count = Cardinality(mine)
  BY DEF Count
<1> HIDE DEF mine
<1>3. Cardinality(mine) \in Nat /\ Cardinality(mine) <= Len(chain)
  BY <1>1, <1>2, SubsetCount
<1> QED BY <1>1, <1>2, <1>3, EthAssumption DEF Nonce

\* The lists when no transaction becomes blocked or moves.
LEMMA ListsStay ==
    ASSUME Inv, wallets' = wallets, DOMAIN transactions' = DOMAIN transactions,
           \A t \in DOMAIN transactions :
              /\ transactions'[t].kind = transactions[t].kind
              /\ transactions'[t].status = "blocked" =>
                    transactions[t].status = "blocked" /\ transactions'[t].block = transactions[t].block
    PROVE  wallets' \in [Kinds -> Seq(DOMAIN transactions')] /\ ListsOK' /\ OrderOK'
<1>1. wallets' \in [Kinds -> Seq(DOMAIN transactions')]
  BY DEF Inv, TypeOK
<1>2. ListsOK'
  BY DEF Inv, ListsOK, Listed
<1>3. ASSUME NEW w \in Kinds PROVE Ordered(wallets[w], transactions')
  <2>1. Ordered(wallets[w], transactions) /\ \A k \in DOMAIN wallets[w] : wallets[w][k] \in DOMAIN transactions
    BY ItemsFacts DEF Inv, OrderOK, TypeOK
  <2> QED BY <2>1 DEF Ordered
<1> QED BY <1>1, <1>2, <1>3 DEF OrderOK

\* The lists when one transaction is put into a wallet or moved in it.
LEMMA ListsMove ==
    ASSUME Inv, NEW w \in Kinds, NEW t, NEW D, DOMAIN transactions' = D, D = DOMAIN transactions \union {t},
           transactions'[t].kind = w, t \in DOMAIN transactions => transactions[t].kind = w,
           \A u \in DOMAIN transactions \ {t} : transactions'[u] = transactions[u],
           NEW l \in Seq(D), Dist(l), Items(l) = Items(wallets[w]) \union {t}, Ordered(l, transactions'),
           wallets' = [wallets EXCEPT ![w] = l]
    PROVE  wallets' \in [Kinds -> Seq(DOMAIN transactions')] /\ ListsOK' /\ OrderOK'
<1>0. wallets \in [Kinds -> Seq(DOMAIN transactions)] /\ ListsOK /\ OrderOK
  BY DEF Inv, TypeOK
<1>1. \A x \in Kinds : wallets'[x] = IF x = w THEN l ELSE wallets[x]
  BY <1>0
<1>2. \A x \in Kinds : wallets[x] \in Seq(D)
  BY <1>0, SeqMonotonic
<1>3. wallets' \in [Kinds -> Seq(D)]
  BY <1>0, <1>1, <1>2
<1>4. \A x \in Kinds : Listed(x) = Items(wallets[x])
  BY DEF Listed, Items
<1>5. \A x \in Kinds : Listed(x)' = Items(wallets'[x])
  BY DEF Listed, Items
<1>6. ASSUME NEW x \in Kinds
      PROVE  Dist(wallets'[x]) /\ Items(wallets'[x]) = {u \in D : transactions'[u].kind = x}
  <2>1. Dist(wallets[x]) /\ Items(wallets[x]) = {u \in DOMAIN transactions : transactions[u].kind = x}
    BY <1>0, <1>4 DEF ListsOK
  <2>2. CASE x = w
    BY <1>1, <2>1, <2>2
  <2>3. CASE x # w
    BY <1>1, <2>1, <2>3
  <2> QED BY <2>2, <2>3
<1>7. ListsOK'
  BY <1>5, <1>6 DEF ListsOK
<1>8. ASSUME NEW x \in Kinds PROVE Ordered(wallets'[x], transactions')
  <2>1. CASE x = w
    BY <1>1, <2>1
  <2>2. CASE x # w
    <3>1. Items(wallets[x]) = {u \in DOMAIN transactions : transactions[u].kind = x}
      BY <1>0, <1>4 DEF ListsOK
    <3>2. \A k \in DOMAIN wallets[x] : wallets[x][k] \in DOMAIN transactions \ {t}
      BY <2>2, <3>1 DEF Items
    <3>3. Ordered(wallets[x], transactions)
      BY <1>0 DEF OrderOK
    <3>4. Ordered(wallets[x], transactions')
      BY <3>2, <3>3 DEF Ordered
    <3> QED BY <1>1, <2>2, <3>4
  <2> QED BY <2>1, <2>2
<1> QED BY <1>3, <1>7, <1>8 DEF OrderOK

\* Records.
Like(u, r) == u.here = r.here /\ u.kind = r.kind /\ u.ours = r.ours

LEMMA NonceSet ==
    ASSUME NEW r \in Transaction, NEW n \in Nonce
    PROVE  LET u == [r EXCEPT !.nonce = n]
           IN  /\ u \in Transaction /\ Like(u, r) /\ u.nonce = n
               /\ u.status = r.status /\ u.hash = r.hash /\ u.block = r.block
BY DEF Transaction, Like

LEMMA StatusSet ==
    ASSUME NEW r \in Transaction
    PROVE  LET u == [r EXCEPT !.status = "signed"]
           IN  /\ u \in Transaction /\ Like(u, r) /\ u.status = "signed"
               /\ u.nonce = r.nonce /\ u.hash = r.hash /\ u.block = r.block
BY DEF Transaction, Like, Statuses

LEMMA SubmittedFacts ==
    ASSUME NEW r \in Transaction, NEW h \in Hashes
    PROVE  LET u == Submitted(r, h)
           IN  /\ u \in Transaction /\ Like(u, r) /\ u.status = "submitted" /\ u.hash = h
               /\ u.nonce = r.nonce /\ u.block = r.block
BY DEF Transaction, Like, Statuses, Submitted

LEMMA BlockedFacts ==
    ASSUME NEW r \in Transaction, NEW i \in 0 .. MaxChain
    PROVE  LET u == Blocked(r, i)
           IN  /\ u \in Transaction /\ Like(u, r) /\ u.status = "blocked" /\ u.block = i
               /\ u.nonce = r.nonce /\ u.hash = r.hash
BY DEF Transaction, Like, Statuses, Blocked

LEMMA InvInit == ASSUME Init PROVE Inv
<1>1. TypeOK
  <2>1. transactions = <<>> /\ <<>> \in Seq(Transaction) /\ Len(transactions) = 0 /\ DOMAIN transactions = {}
    BY DEF Init
  <2>2. chain = <<>> /\ <<>> \in Seq(Mined) /\ Len(chain) <= MaxChain
    BY EthAssumption DEF Init
  <2>3. wallets \in [Kinds -> Seq(DOMAIN transactions)]
    BY <2>1 DEF Init
  <2>4. sender \in [pc : {"idle", "load", "store", "finish", "submit"}, tid : {0} \union Tids, nonce : Nonce]
    BY EthAssumption DEF Init, Idle, Nonce
  <2>5. /\ addressNonce \in Nonce /\ nonces \subseteq Nonce
        /\ calls \in [Tids -> {"none", "posted", "accepted"}] /\ pool \subseteq DOMAIN transactions
    BY EthAssumption DEF Init, Nonce
  <2> QED BY <2>1, <2>2, <2>3, <2>4, <2>5 DEF TypeOK
<1>2. DOMAIN transactions = {} /\ DOMAIN chain = {} /\ Created = {} /\ Signed = {} /\ Others = {}
  BY DEF Init, Created, Signed, Others
<1>3. ListsOK /\ OrderOK
  BY <1>2 DEF ListsOK, OrderOK, Init, Listed, Dist, Ordered
<1>4. CreatedOK /\ OthersOK /\ ChainOK /\ SenderOK /\ CallsOK
  BY <1>2 DEF CreatedOK, OthersOK, ChainOK, SenderOK, CallsOK, Init, Idle
<1>5. NonceOK
  BY <1>2, FS_EmptySet, EthAssumption DEF NonceOK, Init, Idle
<1> QED BY <1>1, <1>3, <1>4, <1>5 DEF Inv

-----------------------------------------------------------------------------
(* Steps that leave the transactions and the wallets alone.                 *)

\* What such a step has to show.
LEMMA NodeKept ==
    ASSUME Inv, UNCHANGED node
    PROVE  /\ transactions' \in Seq(Transaction) /\ Len(transactions') \in {0} \union Tids
           /\ wallets' \in [Kinds -> Seq(DOMAIN transactions')]
           /\ ListsOK' /\ CreatedOK' /\ OrderOK'
           /\ Created' = Created /\ Signed' = Signed /\ Others' = Others
           /\ DOMAIN transactions' = DOMAIN transactions
BY DEF Inv, TypeOK, node, ListsOK, Listed, CreatedOK, OrderOK, Created, Signed, Others

LEMMA ChainKept ==
    ASSUME Inv, UNCHANGED <<node, chain>>
    PROVE  OthersOK' /\ ChainOK'
BY NodeKept DEF Inv, node, OthersOK, ChainOK

\* The sender's steps.
LEMMA SenderMoves ==
    ASSUME Inv, NEW pc \in {"load", "store", "finish", "submit"}, sender.pc # "idle", NEW n \in Nonce
    PROVE  /\ [sender EXCEPT !.pc = pc, !.nonce = n] \in
                 [pc : {"idle", "load", "store", "finish", "submit"}, tid : {0} \union Tids, nonce : Nonce]
           /\ [sender EXCEPT !.pc = pc, !.nonce = n].pc = pc
           /\ [sender EXCEPT !.pc = pc, !.nonce = n].tid = sender.tid
           /\ [sender EXCEPT !.pc = pc, !.nonce = n].nonce = n
           /\ [sender EXCEPT !.pc = pc] \in
                 [pc : {"idle", "load", "store", "finish", "submit"}, tid : {0} \union Tids, nonce : Nonce]
           /\ [sender EXCEPT !.pc = pc].pc = pc /\ [sender EXCEPT !.pc = pc].tid = sender.tid
BY DEF Inv, TypeOK

LEMMA SignLoadKeeps == ASSUME Inv, SignLoad PROVE Inv'
<1>1. /\ sender' = [sender EXCEPT !.pc = "store", !.nonce = addressNonce] /\ sender.pc = "load"
      /\ UNCHANGED <<node, addressNonce, nonces, calls, server>>
  BY DEF SignLoad
<1>2. addressNonce \in Nonce
  BY DEF Inv, TypeOK
<1>3. /\ sender' \in [pc : {"idle", "load", "store", "finish", "submit"}, tid : {0} \union Tids, nonce : Nonce]
      /\ sender'.pc = "store" /\ sender'.tid = sender.tid /\ sender'.nonce = addressNonce
  BY <1>1, <1>2, SenderMoves
<1>4. /\ transactions' \in Seq(Transaction) /\ Len(transactions') \in {0} \union Tids
      /\ wallets' \in [Kinds -> Seq(DOMAIN transactions')]
      /\ ListsOK' /\ CreatedOK' /\ OrderOK'
      /\ Created' = Created /\ Signed' = Signed
      /\ DOMAIN transactions' = DOMAIN transactions
  BY <1>1, NodeKept
<1>5. OthersOK' /\ ChainOK'
  BY <1>1, ChainKept DEF server
<1>6. TypeOK'
  BY <1>1, <1>3, <1>4 DEF Inv, TypeOK, server
<1>7. SenderOK' /\ CallsOK' /\ NonceOK'
  BY <1>1, <1>3, <1>4 DEF Inv, SenderOK, CallsOK, NonceOK, server
<1> QED BY <1>4, <1>5, <1>6, <1>7 DEF Inv

LEMMA SubmitKeeps == ASSUME Inv, Submit PROVE Inv'
<1>1. PICK call \in {"none", "posted"} : calls' = [calls EXCEPT ![sender.tid] = call]
  BY DEF Submit
<1>2. sender' = Idle /\ sender.pc = "submit" /\ UNCHANGED <<node, addressNonce, nonces, server>>
  BY DEF Submit
<1>3. sender' \in [pc : {"idle", "load", "store", "finish", "submit"}, tid : {0} \union Tids, nonce : Nonce]
  BY <1>2, EthAssumption DEF Idle, Nonce
<1>4. /\ transactions' \in Seq(Transaction) /\ Len(transactions') \in {0} \union Tids
      /\ wallets' \in [Kinds -> Seq(DOMAIN transactions')]
      /\ ListsOK' /\ CreatedOK' /\ OrderOK'
      /\ Created' = Created /\ Signed' = Signed
      /\ DOMAIN transactions' = DOMAIN transactions
  BY <1>2, NodeKept
<1>5. OthersOK' /\ ChainOK'
  BY <1>2, ChainKept DEF server
<1>6. TypeOK'
  BY <1>1, <1>2, <1>3, <1>4 DEF Inv, TypeOK, server
<1>7. sender.tid \in Signed
  BY <1>2 DEF Inv, SenderOK
<1>8. SenderOK' /\ CallsOK' /\ NonceOK'
  BY <1>1, <1>2, <1>4, <1>7 DEF Inv, SenderOK, CallsOK, NonceOK, server, Idle, TypeOK
<1> QED BY <1>4, <1>5, <1>6, <1>8 DEF Inv

LEMMA NotAnsweredKeeps == ASSUME Inv, NEW t \in DOMAIN transactions, NotAnswered(t) PROVE Inv'
<1>1. calls' = [calls EXCEPT ![t] = "none"] /\ UNCHANGED <<node, addressNonce, nonces, sender, server>>
  BY DEF NotAnswered
<1>2. /\ transactions' \in Seq(Transaction) /\ Len(transactions') \in {0} \union Tids
      /\ wallets' \in [Kinds -> Seq(DOMAIN transactions')]
      /\ ListsOK' /\ CreatedOK' /\ OrderOK'
      /\ Created' = Created /\ Signed' = Signed
      /\ DOMAIN transactions' = DOMAIN transactions
  BY <1>1, NodeKept
<1>3. OthersOK' /\ ChainOK'
  BY <1>1, ChainKept DEF server
<1>4. TypeOK'
  BY <1>1, <1>2 DEF Inv, TypeOK, server
<1>5. SenderOK' /\ CallsOK' /\ NonceOK'
  BY <1>1, <1>2 DEF Inv, SenderOK, CallsOK, NonceOK, server, TypeOK
<1> QED BY <1>2, <1>3, <1>4, <1>5 DEF Inv

LEMMA AcceptKeeps == ASSUME Inv, NEW t \in DOMAIN transactions, Accept(t) PROVE Inv'
<1>1. /\ calls[t] = "posted" /\ calls' = [calls EXCEPT ![t] = "accepted"] /\ pool' = pool \union {t}
      /\ UNCHANGED <<node, addressNonce, nonces, sender, chain>>
  BY DEF Accept
<1>2. /\ transactions' \in Seq(Transaction) /\ Len(transactions') \in {0} \union Tids
      /\ wallets' \in [Kinds -> Seq(DOMAIN transactions')]
      /\ ListsOK' /\ CreatedOK' /\ OrderOK'
      /\ Created' = Created /\ Signed' = Signed
      /\ DOMAIN transactions' = DOMAIN transactions
  BY <1>1, NodeKept
<1>3. OthersOK' /\ ChainOK'
  BY <1>1, ChainKept
<1>4. TypeOK'
  BY <1>1, <1>2 DEF Inv, TypeOK
<1>5. t \in Tids /\ t \in Signed
  BY <1>1, TxTyped DEF Inv, CallsOK
<1>6. SenderOK' /\ CallsOK' /\ NonceOK'
  BY <1>1, <1>2, <1>5 DEF Inv, SenderOK, CallsOK, NonceOK, TypeOK
<1> QED BY <1>2, <1>3, <1>4, <1>6 DEF Inv

LEMMA NonceKeeps ==
    ASSUME Inv, UNCHANGED <<node, sender, calls, server>>,
           addressNonce' \in Nonce, addressNonce' <= MaxChain + Cardinality(Signed), nonces' \subseteq 0 .. MaxChain
    PROVE  Inv'
<1>1. /\ transactions' \in Seq(Transaction) /\ Len(transactions') \in {0} \union Tids
      /\ wallets' \in [Kinds -> Seq(DOMAIN transactions')]
      /\ ListsOK' /\ CreatedOK' /\ OrderOK'
      /\ Created' = Created /\ Signed' = Signed
      /\ DOMAIN transactions' = DOMAIN transactions
  BY NodeKept
<1>2. OthersOK' /\ ChainOK'
  BY ChainKept DEF server
<1>3. nonces' \subseteq Nonce
  BY CountBound DEF Inv
<1>4. TypeOK'
  BY <1>1, <1>3 DEF Inv, TypeOK, server
<1>5. SenderOK' /\ CallsOK' /\ NonceOK'
  BY <1>1 DEF Inv, SenderOK, CallsOK, NonceOK, server, TypeOK
<1> QED BY <1>1, <1>2, <1>4, <1>5 DEF Inv

LEMMA AnnounceNonceKeeps == ASSUME Inv, NEW n \in 0 .. Count, AnnounceNonce(n) PROVE Inv'
<1>1. nonces' = nonces \union {n} /\ UNCHANGED <<node, addressNonce, sender, calls, server>>
  BY DEF AnnounceNonce
<1>2. Count \in 0 .. MaxChain /\ nonces \subseteq 0 .. MaxChain
  BY CountBound DEF Inv, NonceOK
<1>3. n \in 0 .. MaxChain
  BY <1>2, EthAssumption
<1>4. addressNonce' \in Nonce /\ addressNonce' <= MaxChain + Cardinality(Signed)
  BY <1>1 DEF Inv, TypeOK, NonceOK
<1> QED BY <1>1, <1>2, <1>3, <1>4, NonceKeeps

LEMMA StoreNonceKeeps == ASSUME Inv, NEW n \in nonces, StoreNonce(n) PROVE Inv'
<1>1. addressNonce' = n /\ nonces' = nonces \ {n} /\ UNCHANGED <<node, sender, calls, server>>
  BY DEF StoreNonce
<1>2. nonces \subseteq 0 .. MaxChain /\ n \in Nonce
  BY DEF Inv, NonceOK, TypeOK
<1>3. Cardinality(Signed) \in Nat
  BY CreatedCount DEF Inv
<1>4. n <= MaxChain + Cardinality(Signed)
  BY <1>2, <1>3, EthAssumption
<1> QED BY <1>1, <1>2, <1>4, NonceKeeps

-----------------------------------------------------------------------------
(* Steps of the chain.                                                      *)

LEMMA ExtendFacts ==
    ASSUME TypeOK, NEW kind \in Kinds, NEW ours \in BOOLEAN, NEW n \in Nonce, NEW h \in Hashes, Extend(kind, ours, n, h)
    PROVE  /\ chain' \in Seq(Mined) /\ Len(chain') <= MaxChain
           /\ DOMAIN chain' = DOMAIN chain \union {Len(chain) + 1}
           /\ \A i \in DOMAIN chain : chain'[i] = chain[i]
           /\ chain'[Len(chain) + 1] = [kind |-> kind, ours |-> ours, nonce |-> n, hash |-> h]
<1> DEFINE m == [kind |-> kind, ours |-> ours, nonce |-> n, hash |-> h]
<1>1. m \in Mined /\ chain \in Seq(Mined) /\ Len(chain) < MaxChain /\ chain' = Append(chain, m)
  BY DEF Extend, Mined, TypeOK
<1>2. Len(chain) \in Nat /\ DOMAIN chain = 1 .. Len(chain)
  BY <1>1, LenProperties
<1> HIDE DEF m
<1>3. /\ chain' \in Seq(Mined) /\ Len(chain') = Len(chain) + 1
      /\ \A i \in 1 .. Len(chain) : chain'[i] = chain[i]
      /\ chain'[Len(chain) + 1] = m
  BY <1>1, AppendProperties
<1>4. DOMAIN chain' = 1 .. Len(chain) + 1
  BY <1>3, LenProperties
<1> QED BY <1>1, <1>2, <1>3, <1>4, EthAssumption DEF m

\* Another mined transaction, of those in the pool or of another hash than all those here.
LEMMA ExtendKeeps ==
    ASSUME Inv, NEW kind \in Kinds, NEW ours \in BOOLEAN, NEW n \in Nonce, NEW h \in Hashes, Extend(kind, ours, n, h),
           h # NoHash,
           h > 0 => h \in pool /\ ours /\ transactions[h].nonce = n /\ transactions[h].kind = kind,
           UNCHANGED <<node, addressNonce, nonces, sender, calls>>, pool' \subseteq pool
    PROVE  Inv'
<1>1. /\ transactions' \in Seq(Transaction) /\ Len(transactions') \in {0} \union Tids
      /\ wallets' \in [Kinds -> Seq(DOMAIN transactions')]
      /\ ListsOK' /\ CreatedOK' /\ OrderOK'
      /\ Created' = Created /\ Signed' = Signed /\ Others' = Others
      /\ DOMAIN transactions' = DOMAIN transactions
  BY NodeKept
<1>2. /\ chain' \in Seq(Mined) /\ Len(chain') <= MaxChain
      /\ DOMAIN chain' = DOMAIN chain \union {Len(chain) + 1}
      /\ \A i \in DOMAIN chain : chain'[i] = chain[i]
      /\ chain'[Len(chain) + 1] = [kind |-> kind, ours |-> ours, nonce |-> n, hash |-> h]
  BY ExtendFacts DEF Inv
<1>3. TypeOK'
  BY <1>1, <1>2 DEF Inv, TypeOK
<1>4. transactions' = transactions
  BY DEF node
<1>5. OthersOK'
  BY <1>1, <1>2, <1>4 DEF Inv, OthersOK
<1>6. h > 0 => h \in Signed
  BY DEF Inv, CallsOK
<1>7. ChainOK'
  BY <1>1, <1>2, <1>4, <1>6 DEF Inv, ChainOK
<1>8. sender.pc # "idle" => sender.tid # h
  <2>1. SUFFICES ASSUME sender.pc # "idle", sender.tid = h PROVE FALSE
    OBVIOUS
  <2>2. h \in Tids /\ h \notin pool
    BY <2>1, TxTyped DEF Inv, SenderOK, Created
  <2> QED BY <2>2, EthAssumption DEF Tids
<1>9. SenderOK' /\ CallsOK' /\ NonceOK'
  BY <1>1, <1>2, <1>8 DEF Inv, SenderOK, CallsOK, NonceOK
<1> QED BY <1>1, <1>3, <1>5, <1>7, <1>9 DEF Inv

LEMMA MineKeeps == ASSUME Inv, NEW t \in DOMAIN transactions, Mine(t) PROVE Inv'
<1>1. /\ t \in pool /\ transactions[t].nonce = Count /\ Extend(transactions[t].kind, TRUE, Count, t)
      /\ pool' = pool \ {t} /\ UNCHANGED <<node, addressNonce, nonces, sender, calls>>
  BY DEF Mine
<1>2. transactions[t].kind \in Kinds /\ t \in Tids /\ Count \in Nonce
  BY TxTyped, CountBound DEF Inv, Transaction
<1>3. t \in Hashes /\ t # NoHash
  BY <1>2, EthAssumption DEF Tids, Hashes, NoHash
<1> QED BY <1>1, <1>2, <1>3, ExtendKeeps

\* The hash of one that is not created here.
LEMMA NextHash ==
    ASSUME TypeOK, Len(chain) < MaxChain
    PROVE  -(Len(chain) + 1) \in Hashes /\ -(Len(chain) + 1) # NoHash /\ ~ (-(Len(chain) + 1) > 0)
<1>1. Len(chain) \in Nat
  BY TxTyped
<1> QED BY <1>1, EthAssumption DEF Hashes, NoHash

LEMMA ElsewhereKeeps ==
    ASSUME Inv, NEW kind \in Elsewhere, OtherDevice(kind) \/ Receive(kind)
    PROVE  Inv'
<1>1. kind \in Kinds /\ Count \in Nonce /\ 0 \in Nonce
  BY CountBound, EthAssumption DEF Inv, Kinds, Nonce
<1>2. PICK ours \in BOOLEAN, n \in Nonce :
          /\ Extend(kind, ours, n, -(Len(chain) + 1)) /\ pool' \subseteq pool
          /\ UNCHANGED <<node, addressNonce, nonces, sender, calls>>
  BY <1>1 DEF OtherDevice, Receive
<1>3. -(Len(chain) + 1) \in Hashes /\ -(Len(chain) + 1) # NoHash /\ ~ (-(Len(chain) + 1) > 0)
  BY <1>2, NextHash DEF Inv, Extend
<1> DEFINE h == -(Len(chain) + 1)
<1> HIDE DEF h
<1>4. h \in Hashes /\ h # NoHash /\ ~ (h > 0) /\ Extend(kind, ours, n, h)
  BY <1>2, <1>3 DEF h
<1> QED BY <1>1, <1>2, <1>4, ExtendKeeps

-----------------------------------------------------------------------------
(* Steps that change a transaction created here.                            *)

LEMMA OneLike ==
    ASSUME Inv, NEW t \in Created, NEW v \in Transaction, Like(v, transactions[t]),
           v.hash \in {NoHash, t}, v.nonce = transactions[t].nonce,
           transactions' = [transactions EXCEPT ![t] = v], chain' = chain
    PROVE  /\ transactions' \in Seq(Transaction) /\ Len(transactions') = Len(transactions)
           /\ DOMAIN transactions' = DOMAIN transactions
           /\ transactions'[t] = v /\ \A u \in DOMAIN transactions \ {t} : transactions'[u] = transactions[u]
           /\ Created' = Created /\ Signed' = Signed
           /\ CreatedOK' /\ OthersOK' /\ ChainOK'
<1>1. v.here = TRUE /\ v.ours = TRUE /\ v.kind = transactions[t].kind
  <2>1. transactions[t].here /\ transactions[t].ours /\ transactions[t] \in Transaction
    BY TxTyped DEF Inv, CreatedOK, Created
  <2> QED BY <2>1 DEF Like, Transaction
<1>2. /\ transactions' \in Seq(Transaction) /\ Len(transactions') = Len(transactions)
      /\ DOMAIN transactions' = DOMAIN transactions
      /\ transactions'[t] = v /\ \A u \in DOMAIN transactions \ {t} : transactions'[u] = transactions[u]
      /\ Created' = Created
      /\ CreatedOK' /\ OthersOK' /\ ChainOK'
  BY <1>1, OneChanged
<1>3. Signed' = Signed
  BY <1>2 DEF Signed, Created, Unassigned
<1> QED BY <1>2, <1>3

LEMMA SignStoreKeeps == ASSUME Inv, SignStore PROVE Inv'
<1> DEFINE t == sender.tid  n == sender.nonce
           v == [transactions[t] EXCEPT !.nonce = n]
<1>1. /\ sender.pc = "store" /\ addressNonce' = n + 1
      /\ transactions' = [transactions EXCEPT ![t] = v]
      /\ sender' = [sender EXCEPT !.pc = "finish"]
      /\ UNCHANGED <<wallets, nonces, calls, server>>
  BY DEF SignStore
<1>2. /\ t \in Created /\ calls[t] = "none" /\ t \notin pool /\ t \notin Signed
      /\ \A i \in DOMAIN chain : chain[i].hash # t
  BY <1>1 DEF Inv, SenderOK
<1>3. n \in Nonce /\ n <= MaxChain + Cardinality(Signed)
  BY <1>1 DEF Inv, TypeOK, NonceOK
<1>4. t \in DOMAIN transactions /\ transactions[t] \in Transaction /\ transactions[t].here
      /\ transactions[t].ours /\ transactions[t].hash \in {NoHash, t}
  BY <1>2, TxTyped DEF Inv, Created, CreatedOK
<1>5. /\ v \in Transaction /\ Like(v, transactions[t]) /\ v.nonce = n
      /\ v.status = transactions[t].status /\ v.hash = transactions[t].hash /\ v.block = transactions[t].block
  BY <1>3, <1>4, NonceSet
<1>6. v.here = TRUE /\ v.ours = TRUE /\ v.kind = transactions[t].kind
  BY <1>4, <1>5 DEF Like, Transaction
<1>7. sender' \in [pc : {"idle", "load", "store", "finish", "submit"}, tid : {0} \union Tids, nonce : Nonce]
      /\ sender'.pc = "finish" /\ sender'.tid = t
  BY <1>1, SenderMoves, CountBound DEF Inv
<1> HIDE DEF v, t, n
<1>8. /\ transactions' \in Seq(Transaction) /\ Len(transactions') = Len(transactions)
      /\ DOMAIN transactions' = DOMAIN transactions
      /\ transactions'[t] = v /\ \A u \in DOMAIN transactions \ {t} : transactions'[u] = transactions[u]
      /\ Created' = Created
      /\ CreatedOK' /\ OthersOK' /\ ChainOK'
  BY <1>1, <1>2, <1>4, <1>5, <1>6, OneChanged DEF server
<1>9. Signed' = Signed \union {t}
  <2>1. \A u \in Created : u \in DOMAIN transactions
    BY DEF Created
  <2>2. v.nonce # Unassigned
    BY <1>3, <1>5, NotUnassigned
  <2>3. Unassigned' = Unassigned
    BY DEF Unassigned
  <2> QED BY <1>2, <1>8, <2>1, <2>2, <2>3 DEF Signed
<1>10. /\ Cardinality(Signed') = Cardinality(Signed) + 1 /\ Cardinality(Signed) \in Nat
       /\ Cardinality(Signed') <= Cardinality(Created) /\ Cardinality(Created) <= MaxSends
  <2>1. IsFiniteSet(Signed) /\ Cardinality(Signed) \in Nat /\ IsFiniteSet(Created)
    BY CreatedCount DEF Inv
  <2>2. Cardinality(Signed \union {t}) = Cardinality(Signed) + 1
    BY <1>2, <2>1, FS_AddElement
  <2>3. Signed \union {t} \in SUBSET Created
    BY <1>2 DEF Signed
  <2>4. Cardinality(Signed \union {t}) <= Cardinality(Created)
    BY <2>1, <2>3, FS_Subset
  <2> QED BY <1>9, <2>1, <2>2, <2>4 DEF Inv, NonceOK
<1>11. wallets' \in [Kinds -> Seq(DOMAIN transactions')] /\ ListsOK' /\ OrderOK'
  <2>1. \A u \in DOMAIN transactions :
           /\ transactions'[u].kind = transactions[u].kind
           /\ transactions'[u].status = transactions[u].status /\ transactions'[u].block = transactions[u].block
    BY <1>5, <1>6, <1>8
  <2> QED BY <1>1, <1>8, <2>1, ListsStay
<1>12. addressNonce' \in Nonce /\ addressNonce' <= MaxChain + Cardinality(Signed')
  <2>1. n \in Nat
    BY <1>3 DEF Nonce
  <2>2. Cardinality(Created) \in Nat
    BY CreatedCount DEF Inv
  <2> QED BY <1>1, <1>3, <1>10, <2>1, <2>2, EthAssumption DEF Nonce
<1>13. TypeOK'
  BY <1>1, <1>7, <1>8, <1>11, <1>12 DEF Inv, TypeOK, server
<1>14. SenderOK'
  BY <1>1, <1>2, <1>7, <1>8, <1>9 DEF SenderOK, server
<1>15. CallsOK'
  BY <1>1, <1>9 DEF Inv, CallsOK, server
<1>16. NonceOK'
  BY <1>1, <1>7, <1>8, <1>12 DEF Inv, NonceOK
<1> QED BY <1>8, <1>11, <1>13, <1>14, <1>15, <1>16 DEF Inv

LEMMA SignFinishKeeps == ASSUME Inv, SignFinish PROVE Inv'
<1> DEFINE t == sender.tid
           v == [transactions[t] EXCEPT !.status = "signed"]
<1>1. /\ sender.pc = "finish" /\ transactions' = [transactions EXCEPT ![t] = v]
      /\ sender' = [sender EXCEPT !.pc = "submit"]
      /\ UNCHANGED <<wallets, addressNonce, nonces, calls, server>>
  BY DEF SignFinish
<1>2. t \in Created /\ calls[t] = "none" /\ t \notin pool /\ t \in Signed
  BY <1>1 DEF Inv, SenderOK
<1>3. t \in DOMAIN transactions /\ transactions[t] \in Transaction /\ transactions[t].hash \in {NoHash, t}
  BY <1>2, TxTyped DEF Inv, Created, CreatedOK
<1>4. /\ v \in Transaction /\ Like(v, transactions[t]) /\ v.status = "signed"
      /\ v.nonce = transactions[t].nonce /\ v.hash = transactions[t].hash /\ v.block = transactions[t].block
  BY <1>3, StatusSet
<1>5. /\ sender' \in [pc : {"idle", "load", "store", "finish", "submit"}, tid : {0} \union Tids, nonce : Nonce]
      /\ sender'.pc = "submit" /\ sender'.tid = t
  BY <1>1, SenderMoves, CountBound DEF Inv
<1> HIDE DEF v, t
<1>6. /\ transactions' \in Seq(Transaction) /\ Len(transactions') = Len(transactions)
      /\ DOMAIN transactions' = DOMAIN transactions
      /\ transactions'[t] = v /\ \A u \in DOMAIN transactions \ {t} : transactions'[u] = transactions[u]
      /\ Created' = Created /\ Signed' = Signed
      /\ CreatedOK' /\ OthersOK' /\ ChainOK'
  BY <1>1, <1>2, <1>3, <1>4, OneLike DEF server
<1>7. wallets' \in [Kinds -> Seq(DOMAIN transactions')] /\ ListsOK' /\ OrderOK'
  <2>1. \A u \in DOMAIN transactions :
           /\ transactions'[u].kind = transactions[u].kind
           /\ transactions'[u].status = "blocked" =>
                 transactions[u].status = "blocked" /\ transactions'[u].block = transactions[u].block
    BY <1>4, <1>6 DEF Like
  <2> QED BY <1>1, <1>6, <2>1, ListsStay
<1>8. TypeOK'
  BY <1>1, <1>5, <1>6, <1>7 DEF Inv, TypeOK, server
<1>9. SenderOK' /\ CallsOK' /\ NonceOK'
  <2>1. pool' = pool /\ chain' = chain /\ calls' = calls /\ nonces' = nonces /\ addressNonce' = addressNonce
    BY <1>1 DEF server
  <2>2. SenderOK'
    BY <1>1, <1>2, <1>5, <1>6, <2>1 DEF Inv, SenderOK, t
  <2>3. CallsOK' /\ NonceOK'
    BY <1>5, <1>6, <2>1 DEF Inv, CallsOK, NonceOK
  <2> QED BY <2>2, <2>3
<1> QED BY <1>6, <1>7, <1>8, <1>9 DEF Inv

LEMMA AnnounceSubmitKeeps == ASSUME Inv, NEW t \in DOMAIN transactions, AnnounceSubmitTransaction(t) PROVE Inv'
<1> DEFINE v == Submitted(transactions[t], t)
<1>1. /\ calls[t] = "accepted" /\ transactions' = [transactions EXCEPT ![t] = v]
      /\ calls' = [calls EXCEPT ![t] = "none"]
      /\ UNCHANGED <<wallets, addressNonce, nonces, sender, server>>
  BY DEF AnnounceSubmitTransaction
<1>2. t \in Tids /\ t \in Signed /\ t \in Created /\ transactions[t] \in Transaction
  BY <1>1, TxTyped DEF Inv, CallsOK, Signed
<1>3. t \in Hashes
  BY <1>2, EthAssumption DEF Tids, Hashes
<1>4. /\ v \in Transaction /\ Like(v, transactions[t]) /\ v.status = "submitted" /\ v.hash = t
      /\ v.nonce = transactions[t].nonce /\ v.block = transactions[t].block
  BY <1>2, <1>3, SubmittedFacts
<1> HIDE DEF v
<1>5. /\ transactions' \in Seq(Transaction) /\ Len(transactions') = Len(transactions)
      /\ DOMAIN transactions' = DOMAIN transactions
      /\ transactions'[t] = v /\ \A u \in DOMAIN transactions \ {t} : transactions'[u] = transactions[u]
      /\ Created' = Created /\ Signed' = Signed
      /\ CreatedOK' /\ OthersOK' /\ ChainOK'
  BY <1>1, <1>2, <1>4, OneLike DEF server
<1>6. wallets' \in [Kinds -> Seq(DOMAIN transactions')] /\ ListsOK' /\ OrderOK'
  <2>1. \A u \in DOMAIN transactions :
           /\ transactions'[u].kind = transactions[u].kind
           /\ transactions'[u].status = "blocked" =>
                 transactions[u].status = "blocked" /\ transactions'[u].block = transactions[u].block
    BY <1>4, <1>5 DEF Like
  <2> QED BY <1>1, <1>5, <2>1, ListsStay
<1>7. TypeOK'
  BY <1>1, <1>5, <1>6 DEF Inv, TypeOK, server
<1>8. SenderOK' /\ CallsOK' /\ NonceOK'
  <2>1. /\ pool' = pool /\ chain' = chain /\ nonces' = nonces /\ addressNonce' = addressNonce /\ sender' = sender
        /\ calls \in [Tids -> {"none", "posted", "accepted"}]
    BY <1>1 DEF server, Inv, TypeOK
  <2>2. SenderOK'
    BY <1>1, <1>5, <2>1 DEF Inv, SenderOK
  <2>3. CallsOK' /\ NonceOK'
    BY <1>1, <1>5, <2>1 DEF Inv, CallsOK, NonceOK
  <2> QED BY <2>2, <2>3
<1> QED BY <1>5, <1>6, <1>7, <1>8 DEF Inv

-----------------------------------------------------------------------------
(* Steps that list a transaction or move it.                                *)

LEMMA UpdateNew ==
    ASSUME NEW list, NEW t, t \notin Items(list), NEW txs
    PROVE  UpdateSorted(list, t, txs) = InsertSorted(list, t, txs)
BY DEF UpdateSorted, Without, Items

LEMMA ListsUpdated ==
    ASSUME Inv, NEW w \in Kinds, NEW t, NEW D, DOMAIN transactions' = D, D = DOMAIN transactions \union {t},
           transactions' \in Seq(Transaction),
           transactions'[t].kind = w, t \in DOMAIN transactions => transactions[t].kind = w,
           \A u \in DOMAIN transactions \ {t} : transactions'[u] = transactions[u],
           wallets' = [wallets EXCEPT ![w] = UpdateSorted(wallets[w], t, transactions')]
    PROVE  wallets' \in [Kinds -> Seq(DOMAIN transactions')] /\ ListsOK' /\ OrderOK'
<1> DEFINE list == wallets[w]  old == transactions  txs == transactions'
           l == UpdateSorted(list, t, txs)
<1>1. list \in Seq(DOMAIN old) /\ Dist(list) /\ Ordered(list, old)
  BY DEF Inv, TypeOK, ListsOK, OrderOK
<1>2. list \in Seq(D) /\ t \in D
  <2> HIDE DEF list, old
  <2>1. DOMAIN old \subseteq D
    BY DEF old
  <2> QED BY <1>1, <2>1, SeqMonotonic
<1>3. \A u \in D : txs[u].block \in Nat
  <2>1. \A u \in D : txs[u] \in Transaction
    BY ItemsFacts
  <2> QED BY <2>1, EthAssumption DEF Transaction
<1>4. \A u \in Items(list) \ {t} : txs[u].status = "blocked" => old[u].status = "blocked" /\ old[u].block = txs[u].block
  <2>1. Items(list) \subseteq DOMAIN old
    BY <1>1, ItemsFacts
  <2> QED BY <2>1
<1>5. wallets' = [wallets EXCEPT ![w] = l]
  OBVIOUS
<1> HIDE DEF list, old, txs
<1>6. l \in Seq(D) /\ Dist(l) /\ Items(l) = Items(list) \union {t}
  <2>0. list \in Seq(D) /\ Dist(list) /\ t \in D
    BY <1>1, <1>2
  <2>1. UpdateSorted(list, t, txs) \in Seq(D)
    BY <2>0, UpdateFacts
  <2>2. Dist(UpdateSorted(list, t, txs))
    BY <2>0, UpdateFacts
  <2>3. Items(UpdateSorted(list, t, txs)) = Items(list) \union {t}
    <3>1. \A x : x \in Items(UpdateSorted(list, t, txs)) <=> x \in Items(list) \/ x = t
      BY <2>0, UpdateFacts
    <3> QED BY <3>1
  <2> QED BY <2>1, <2>2, <2>3
<1>7. Ordered(l, txs)
  BY <1>1, <1>2, <1>3, <1>4, UpdateOrdered
<1> HIDE DEF l
<1>8. Items(l) = Items(wallets[w]) \union {t} /\ Ordered(l, transactions')
  BY <1>6, <1>7 DEF list, txs
<1> QED BY <1>5, <1>6, <1>8, ListsMove

\* The bound on the transactions after a step.
LEMMA LengthAfter ==
    ASSUME transactions' \in Seq(Transaction), OthersOK', Cardinality(Created') <= MaxSends,
           chain' \in Seq(Mined), Len(chain') <= MaxChain
    PROVE  Len(transactions') \in {0} \union Tids
<1>1. Created' \in SUBSET DOMAIN transactions'
  BY DEF Created
<1>2. Len(chain') \in Nat /\ DOMAIN chain' = 1 .. Len(chain') /\ Len(transactions') \in Nat
  BY LenProperties
<1>3. RestOfTheChain(transactions', Created', Len(chain'), chain')
  BY <1>2 DEF OthersOK, Others, RestOfTheChain
<1>4. Len(transactions') <= MaxSends + 2 * MaxChain
  <2> DEFINE txs == transactions'  here == Created'  n == Len(chain')  mined == chain'
  <2>1. /\ txs \in Seq(Transaction) /\ here \in SUBSET DOMAIN txs /\ Cardinality(here) <= MaxSends
        /\ n \in Nat /\ n <= MaxChain
        /\ RestOfTheChain(txs, here, n, mined)
    BY <1>1, <1>2, <1>3
  <2> HIDE DEF txs, here, n, mined
  <2>2. Len(txs) <= MaxSends + 2 * MaxChain
    BY <2>1, LengthBound
  <2> QED BY <2>2 DEF txs
<1> QED BY <1>2, <1>4, EthAssumption DEF Tids

\* A hash of the chain above zero is one of those here.
LEMMA MinedHere == ASSUME Inv, NEW i \in DOMAIN chain, chain[i].hash > 0 PROVE chain[i].hash \in DOMAIN transactions
BY DEF Inv, ChainOK, Signed, Created

LEMMA CreateKeeps == ASSUME Inv, NEW w \in Kinds, Create(w) PROVE Inv'
<1> DEFINE t == Len(transactions) + 1
           v == NewTransaction(w, TRUE, TRUE, Unassigned)
<1>1. /\ sender = Idle /\ Cardinality(Created) < MaxSends
      /\ transactions' = Append(transactions, v)
      /\ wallets' = [wallets EXCEPT ![w] = InsertSorted(wallets[w], t, Append(transactions, v))]
      /\ sender' = [pc |-> "load", tid |-> t, nonce |-> 0]
      /\ UNCHANGED <<addressNonce, nonces, calls, server>>
  BY DEF Create
<1>2. /\ v \in Transaction /\ v.here = TRUE /\ v.kind = w /\ v.ours = TRUE
      /\ v.status = "created" /\ v.nonce = Unassigned /\ v.hash = NoHash
  BY EthAssumption DEF Transaction, NewTransaction, Statuses, Hashes, NoHash, NoBlock
<1>3. Len(transactions) \in Nat /\ DOMAIN transactions = 1 .. Len(transactions)
  BY TxTyped DEF Inv
<1> HIDE DEF v
<1>4. /\ transactions' \in Seq(Transaction) /\ Len(transactions') = t
      /\ DOMAIN transactions' = DOMAIN transactions \union {t}
      /\ t \notin DOMAIN transactions /\ transactions'[t] = v
      /\ \A u \in DOMAIN transactions : transactions'[u] = transactions[u]
      /\ Created' = Created \union {t}
  BY <1>1, <1>2, OneAdded
<1>5. t \in Nat /\ t > 0
  BY <1>3
<1> HIDE DEF t
<1>6. \A u \in Created : u \in DOMAIN transactions /\ u # t
  BY <1>4 DEF Created
<1>7. Signed' = Signed /\ Others' = Others
  <2>1. Signed' = Signed
    BY <1>2, <1>4, <1>6 DEF Signed, Unassigned
  <2>2. Others' = Others
    BY <1>4, <1>6 DEF Others
  <2> QED BY <2>1, <2>2
<1>8. chain' = chain /\ pool' = pool /\ calls' = calls /\ addressNonce' = addressNonce /\ nonces' = nonces
  BY <1>1 DEF server
<1>9. CreatedOK'
  BY <1>2, <1>4, <1>6 DEF Inv, CreatedOK
<1>10. \A u \in Others : u \in DOMAIN transactions /\ (transactions[u].hash > 0 => transactions[u].hash \in DOMAIN transactions)
  BY MinedHere DEF Others, Inv, OthersOK
<1>11. OthersOK'
  BY <1>4, <1>7, <1>8, <1>10 DEF Inv, OthersOK
<1>12. ChainOK'
  BY <1>4, <1>7, <1>8, MinedHere DEF Inv, ChainOK
<1>13. Cardinality(Created') <= MaxSends
  <2>1. IsFiniteSet(Created) /\ Cardinality(Created) \in Nat
    BY CreatedCount DEF Inv
  <2>2. Cardinality(Created') = Cardinality(Created) + 1
    BY <1>4, <1>6, <2>1, FS_AddElement
  <2> QED BY <1>1, <2>1, <2>2, EthAssumption
<1>14. Len(transactions') \in {0} \union Tids
  BY <1>4, <1>8, <1>11, <1>13, LengthAfter DEF Inv, TypeOK
<1>15. t \in Tids
  BY <1>4, <1>5, <1>14
<1>16. wallets' \in [Kinds -> Seq(DOMAIN transactions')] /\ ListsOK' /\ OrderOK'
  <2>1. Items(wallets[w]) \subseteq DOMAIN transactions
    BY ItemsFacts DEF Inv, TypeOK
  <2>2. wallets' = [wallets EXCEPT ![w] = UpdateSorted(wallets[w], t, transactions')]
    BY <1>1, <1>4, <2>1, UpdateNew
  <2>3. transactions'[t].kind = w
    BY <1>2, <1>4
  <2> QED BY <1>4, <2>2, <2>3, ListsUpdated
<1>17. TypeOK'
  <2>1. /\ sender' \in [pc : {"idle", "load", "store", "finish", "submit"}, tid : {0} \union Tids, nonce : Nonce]
        /\ sender'.pc = "load" /\ sender'.tid = t
    BY <1>1, <1>15, EthAssumption DEF Nonce
  <2> QED BY <1>4, <1>8, <1>14, <1>16, <2>1 DEF Inv, TypeOK
<1>18. t \notin Signed /\ t \notin pool /\ \A i \in DOMAIN chain : chain[i].hash # t
  BY <1>4, <1>5, MinedHere DEF Inv, CallsOK, Signed, Created
<1>19. calls[t] = "none"
  BY <1>15, <1>18 DEF Inv, CallsOK
<1>20. sender'.pc = "load" /\ sender'.tid = t /\ t \in Created'
  BY <1>1, <1>4
<1>21. SenderOK'
  BY <1>7, <1>8, <1>18, <1>19, <1>20 DEF SenderOK
<1>22. CallsOK' /\ NonceOK'
  BY <1>7, <1>8, <1>13, <1>20 DEF Inv, CallsOK, NonceOK
<1> QED BY <1>9, <1>11, <1>12, <1>16, <1>17, <1>21, <1>22 DEF Inv

\* Marking one that is listed: it was created here, since the others are blocked.
LEMMA MarkFoundKeeps ==
    ASSUME Inv, NEW w \in Kinds, NEW t \in Listed(w), NEW i \in DOMAIN chain, NEW n, MarkBlocked(w, t, i, n),
           UNCHANGED <<addressNonce, nonces, sender, calls, server>>
    PROVE  Inv'
<1> DEFINE v == Blocked(transactions[t], i)
<1>1. t \in DOMAIN transactions /\ transactions[t].kind = w /\ transactions[t] \in Transaction /\ t # 0
  BY TxTyped, EthAssumption DEF Inv, ListsOK, Tids
<1>2. /\ transactions[t].status # "blocked" /\ transactions' = [transactions EXCEPT ![t] = v]
      /\ wallets' = [wallets EXCEPT ![w] = UpdateSorted(wallets[w], t, transactions')]
  BY <1>1 DEF MarkBlocked
<1>3. t \in Created
  BY <1>1, <1>2 DEF Inv, OthersOK, Others
<1>4. i \in 0 .. MaxChain
  BY TxTyped, EthAssumption DEF Inv, TypeOK
<1>5. v \in Transaction /\ Like(v, transactions[t]) /\ v.nonce = transactions[t].nonce /\ v.hash = transactions[t].hash
  BY <1>1, <1>4, BlockedFacts
<1> HIDE DEF v
<1>6. v.hash \in {NoHash, t} /\ chain' = chain /\ pool' = pool
  BY <1>3, <1>5 DEF Inv, CreatedOK, server
<1>7. /\ transactions' \in Seq(Transaction) /\ Len(transactions') = Len(transactions)
      /\ DOMAIN transactions' = DOMAIN transactions
      /\ transactions'[t] = v /\ \A u \in DOMAIN transactions \ {t} : transactions'[u] = transactions[u]
      /\ Created' = Created /\ Signed' = Signed
      /\ CreatedOK' /\ OthersOK' /\ ChainOK'
  BY <1>2, <1>3, <1>5, <1>6, OneLike
<1>8. wallets' \in [Kinds -> Seq(DOMAIN transactions')] /\ ListsOK' /\ OrderOK'
  <2>1. transactions'[t].kind = w /\ DOMAIN transactions = DOMAIN transactions \union {t}
    BY <1>1, <1>5, <1>7 DEF Like
  <2> QED BY <1>1, <1>2, <1>7, <2>1, ListsUpdated
<1>9. TypeOK'
  BY <1>6, <1>7, <1>8 DEF Inv, TypeOK
<1>10. SenderOK' /\ CallsOK' /\ NonceOK'
  BY <1>6, <1>7 DEF Inv, SenderOK, CallsOK, NonceOK
<1> QED BY <1>7, <1>8, <1>9, <1>10 DEF Inv

\* Listing one from the chain.
LEMMA MarkNewKeeps ==
    ASSUME Inv, NEW w \in Kinds, NEW i \in DOMAIN chain, NEW n \in Nonce, MarkBlocked(w, 0, i, n),
           \A t \in Listed(w) : transactions[t].hash # chain[i].hash,
           chain[i].hash > 0 /\ w = "ether" => transactions[chain[i].hash].kind = "token",
           UNCHANGED <<addressNonce, nonces, sender, calls, server>>
    PROVE  Inv'
<1> DEFINE t == Len(transactions) + 1
           c == NewTransaction(w, FALSE, chain[i].ours, n)
           s == Submitted(c, chain[i].hash)
           v == Blocked(s, i)
<1>1. /\ transactions' = Append(transactions, v)
      /\ wallets' = [wallets EXCEPT ![w] = UpdateSorted(wallets[w], t, transactions')]
  BY DEF MarkBlocked
<1>2. chain[i].ours \in BOOLEAN /\ chain[i].hash \in Hashes /\ chain[i].hash # NoHash /\ i \in 0 .. MaxChain
  <2>1. chain[i] \in Mined /\ i \in 0 .. MaxChain
    BY TxTyped, EthAssumption DEF Inv, TypeOK
  <2> QED BY <2>1 DEF Mined, Inv, ChainOK
<1>3. /\ v \in Transaction /\ v.here = FALSE /\ v.kind = w /\ v.status = "blocked" /\ v.hash = chain[i].hash
  <2>1. c \in Transaction /\ c.here = FALSE /\ c.kind = w
    BY <1>2, EthAssumption DEF Transaction, NewTransaction, Statuses, Hashes, NoHash, NoBlock
  <2> HIDE DEF c
  <2>2. s \in Transaction /\ Like(s, c) /\ s.hash = chain[i].hash
    BY <1>2, <2>1, SubmittedFacts
  <2> HIDE DEF s
  <2>3. v \in Transaction /\ Like(v, s) /\ v.status = "blocked" /\ v.hash = s.hash
    BY <1>2, <2>2, BlockedFacts
  <2> QED BY <2>1, <2>2, <2>3 DEF Like
<1> HIDE DEF v
<1>4. /\ transactions' \in Seq(Transaction) /\ Len(transactions') = t
      /\ DOMAIN transactions' = DOMAIN transactions \union {t}
      /\ t \notin DOMAIN transactions /\ transactions'[t] = v
      /\ \A u \in DOMAIN transactions : transactions'[u] = transactions[u]
      /\ Created' = Created
  BY <1>1, <1>3, OneAdded
<1> HIDE DEF t
<1>5. chain' = chain /\ pool' = pool
  BY DEF server
<1>6. \A u \in Created : u \in DOMAIN transactions
  BY DEF Created
<1>7. Signed' = Signed
  BY <1>4, <1>6 DEF Signed, Unassigned
<1>8. Others' = Others \union {t}
  BY <1>4, <1>6 DEF Others
<1>9. CreatedOK'
  BY <1>4, <1>6 DEF Inv, CreatedOK
<1>10. \A u \in Others : u \in DOMAIN transactions /\ (transactions[u].hash > 0 => transactions[u].hash \in DOMAIN transactions)
  BY MinedHere DEF Others, Inv, OthersOK
<1>11. \A u \in Others : transactions[u].kind = w => transactions[u].hash # v.hash
  BY <1>3, <1>10 DEF Inv, ListsOK
<1>12. OthersOK'
  <2> SUFFICES ASSUME NEW u \in Others'
               PROVE  /\ transactions'[u].status = "blocked" /\ transactions'[u].hash # NoHash
                      /\ \E j \in DOMAIN chain : chain[j].hash = transactions'[u].hash
                      /\ transactions'[u].hash > 0 /\ transactions'[u].kind = "ether" =>
                            transactions'[transactions'[u].hash].kind = "token"
                      /\ \A x \in Others' : transactions'[u].kind = transactions'[x].kind
                                              /\ transactions'[u].hash = transactions'[x].hash => u = x
    BY <1>5 DEF OthersOK, NoHash
  <2>1. CASE u \in Others
    <3>1. transactions'[u] = transactions[u]
      BY <1>4, <1>10, <2>1
    <3>2. /\ transactions[u].hash > 0 /\ transactions[u].kind = "ether" =>
               transactions'[transactions[u].hash].kind = "token"
      BY <1>4, <1>10, <2>1 DEF Inv, OthersOK
    <3>3. ASSUME NEW x \in Others', transactions'[u].kind = transactions'[x].kind, transactions'[u].hash = transactions'[x].hash
          PROVE  u = x
      <4>1. CASE x = t
        BY <1>3, <1>4, <1>11, <2>1, <3>1, <3>3, <4>1
      <4>2. CASE x \in Others
        BY <1>4, <1>10, <2>1, <3>1, <3>3, <4>2 DEF Inv, OthersOK
      <4> QED BY <1>8, <4>1, <4>2
    <3> QED BY <2>1, <3>1, <3>2, <3>3 DEF Inv, OthersOK
  <2>2. CASE u = t
    <3>1. transactions'[u] = v /\ v.status = "blocked" /\ v.hash # NoHash /\ v.hash = chain[i].hash /\ v.kind = w
      BY <1>2, <1>3, <1>4, <2>2
    <3>2. v.hash > 0 /\ w = "ether" => transactions'[v.hash].kind = "token"
      BY <1>3, <1>4, MinedHere
    <3>3. ASSUME NEW x \in Others', transactions'[u].kind = transactions'[x].kind, transactions'[u].hash = transactions'[x].hash
          PROVE  u = x
      <4>1. CASE x \in Others
        BY <1>4, <1>10, <1>11, <3>1, <3>3, <4>1
      <4> QED BY <1>8, <2>2, <4>1
    <3> QED BY <3>1, <3>2, <3>3
  <2> QED BY <1>8, <2>1, <2>2
<1>13. ChainOK'
  BY <1>4, <1>5, <1>7, MinedHere DEF Inv, ChainOK
<1>14. Len(transactions') \in {0} \union Tids
  BY <1>4, <1>5, <1>12, LengthAfter DEF Inv, TypeOK, NonceOK
<1>15. wallets' \in [Kinds -> Seq(DOMAIN transactions')] /\ ListsOK' /\ OrderOK'
  <2>1. transactions'[t].kind = w
    BY <1>3, <1>4
  <2> QED BY <1>1, <1>4, <2>1, ListsUpdated
<1>16. TypeOK'
  BY <1>4, <1>5, <1>14, <1>15 DEF Inv, TypeOK
<1>17. SenderOK' /\ CallsOK' /\ NonceOK'
  BY <1>4, <1>5, <1>7 DEF Inv, SenderOK, CallsOK, NonceOK
<1> QED BY <1>9, <1>12, <1>13, <1>15, <1>16, <1>17 DEF Inv

-----------------------------------------------------------------------------
(* What an announcement finds.                                              *)

LEMMA FirstFacts ==
    ASSUME NEW S, NEW list \in Seq(S), NEW found \in SUBSET DOMAIN list
    PROVE  IF found = {} THEN First(list, found) = 0 ELSE \E k \in found : First(list, found) = list[k]
<1>1. CASE found = {}
  BY <1>1 DEF First
<1>2. CASE found # {}
  <2>1. found \in SUBSET Nat
    BY LenProperties
  <2>2. \E k \in found : \A j \in found : k <= j
    BY <1>2, <2>1, LeastExists
  <2>3. (CHOOSE k \in found : \A j \in found : k <= j) \in found
    BY <2>2
  <2>4. First(list, found) = list[CHOOSE k \in found : \A j \in found : k <= j]
    BY <1>2 DEF First
  <2> QED BY <1>2, <2>3, <2>4
<1> QED BY <1>1, <1>2

LEMMA ByHashFacts ==
    ASSUME Inv, NEW w \in Kinds, NEW h
    PROVE  IF ByHash(w, h) = 0 THEN \A t \in Listed(w) : transactions[t].hash # h
           ELSE ByHash(w, h) \in Listed(w) /\ transactions[ByHash(w, h)].hash = h
<1> DEFINE list == wallets[w]
           found == {k \in DOMAIN list : transactions[list[k]].hash = h}
<1>1. ByHash(w, h) = First(list, found)
  BY DEF ByHash
<1>2. list \in Seq(DOMAIN transactions) /\ Listed(w) = Items(list) /\ found \in SUBSET DOMAIN list
  BY DEF Inv, TypeOK, Listed, Items
<1>3. \A t \in Listed(w) : t # 0
  BY <1>2, ItemsFacts, TxTyped, EthAssumption DEF Inv, Tids
<1>4. IF found = {} THEN First(list, found) = 0 ELSE \E k \in found : First(list, found) = list[k]
  <2> HIDE DEF list, found
  <2> QED BY <1>2, FirstFacts
<1>5. CASE found = {}
  BY <1>1, <1>2, <1>4, <1>5 DEF Items
<1>6. CASE found # {}
  <2>1. PICK k \in found : First(list, found) = list[k]
    BY <1>4, <1>6
  <2>2. list[k] \in Listed(w) /\ transactions[list[k]].hash = h
    BY <1>2 DEF Items
  <2> HIDE DEF list, found
  <2> QED BY <1>1, <1>3, <2>1, <2>2
<1> QED BY <1>5, <1>6

LEMMA ByNonceFacts ==
    ASSUME Inv, NEW w \in Kinds, NEW n
    PROVE  IF ByNonce(w, n) = 0 THEN \A t \in Listed(w) : ~ (transactions[t].ours /\ transactions[t].nonce = n)
           ELSE ByNonce(w, n) \in Listed(w)
<1> DEFINE list == wallets[w]
           found == {k \in DOMAIN list : transactions[list[k]].ours /\ transactions[list[k]].nonce = n}
<1>1. ByNonce(w, n) = First(list, found)
  BY DEF ByNonce
<1>2. list \in Seq(DOMAIN transactions) /\ Listed(w) = Items(list) /\ found \in SUBSET DOMAIN list
  BY DEF Inv, TypeOK, Listed, Items
<1>3. \A t \in Listed(w) : t # 0
  BY <1>2, ItemsFacts, TxTyped, EthAssumption DEF Inv, Tids
<1>4. IF found = {} THEN First(list, found) = 0 ELSE \E k \in found : First(list, found) = list[k]
  <2> HIDE DEF list, found
  <2> QED BY <1>2, FirstFacts
<1>5. CASE found = {}
  BY <1>1, <1>2, <1>4, <1>5 DEF Items
<1>6. CASE found # {}
  <2>1. PICK k \in found : First(list, found) = list[k]
    BY <1>4, <1>6
  <2>2. list[k] \in Listed(w)
    BY <1>2 DEF Items
  <2> HIDE DEF list, found
  <2> QED BY <1>1, <1>3, <2>1, <2>2
<1> QED BY <1>5, <1>6

\* A mined transaction that neither its hash nor its nonce finds is not one of the ether
\* wallet's: what was created here keeps the nonce it was mined with.
LEMMA AnnounceTransactionKeeps == ASSUME Inv, NEW i \in DOMAIN chain, AnnounceTransaction(i) PROVE Inv'
<1> DEFINE h == ByHash("ether", chain[i].hash)
           m == ByNonce("ether", chain[i].nonce)
           t == IF h = 0 /\ chain[i].ours THEN m ELSE h
<1>1. MarkBlocked("ether", t, i, chain[i].nonce) /\ UNCHANGED <<addressNonce, nonces, sender, calls, server>>
  BY DEF AnnounceTransaction
<1>2. IF h = 0 THEN \A u \in Listed("ether") : transactions[u].hash # chain[i].hash ELSE h \in Listed("ether")
  BY ByHashFacts DEF Kinds
<1>3. IF m = 0 THEN \A u \in Listed("ether") : ~ (transactions[u].ours /\ transactions[u].nonce = chain[i].nonce)
               ELSE m \in Listed("ether")
  BY ByNonceFacts DEF Kinds
<1>4. chain[i].nonce \in Nonce /\ "ether" \in Kinds
  BY TxTyped DEF Inv, Mined, Kinds
<1> HIDE DEF h, m
<1>5. CASE t # 0
  <2>1. t \in Listed("ether")
    BY <1>2, <1>3, <1>5
  <2> HIDE DEF t
  <2> QED BY <1>1, <1>4, <2>1, MarkFoundKeeps
<1>6. CASE t = 0
  <2>1. h = 0 /\ (chain[i].ours => m = 0)
    BY <1>6
  <2>2. ASSUME chain[i].hash > 0 PROVE transactions[chain[i].hash].kind = "token"
    <3>1. /\ chain[i].hash \in Created /\ chain[i].ours /\ transactions[chain[i].hash].nonce = chain[i].nonce
          /\ transactions[chain[i].hash].ours
      BY <2>2 DEF Inv, ChainOK, Signed, CreatedOK
    <3>2. chain[i].hash \notin Listed("ether")
      BY <1>3, <2>1, <3>1
    <3>3. chain[i].hash \in DOMAIN transactions /\ transactions[chain[i].hash].kind \in Kinds
      BY <3>1, TxTyped DEF Created, Inv, Transaction
    <3> QED BY <1>4, <3>2, <3>3 DEF Inv, ListsOK, Kinds
  <2>3. MarkBlocked("ether", 0, i, chain[i].nonce)
    BY <1>1, <1>6
  <2>4. \A u \in Listed("ether") : transactions[u].hash # chain[i].hash
    BY <1>2, <2>1
  <2> HIDE DEF t
  <2> QED BY <1>1, <1>4, <2>2, <2>3, <2>4, MarkNewKeeps
<1> QED BY <1>5, <1>6

LEMMA AnnounceLogKeeps == ASSUME Inv, NEW i \in DOMAIN chain, AnnounceLog(i) PROVE Inv'
<1> DEFINE h == ByHash("token", chain[i].hash)
<1>1. MarkBlocked("token", h, i, 0) /\ UNCHANGED <<addressNonce, nonces, sender, calls, server>>
  BY DEF AnnounceLog
<1>2. IF h = 0 THEN \A u \in Listed("token") : transactions[u].hash # chain[i].hash ELSE h \in Listed("token")
  BY ByHashFacts DEF Kinds
<1>3. 0 \in Nonce /\ "token" \in Kinds /\ "token" # "ether"
  BY EthAssumption DEF Nonce, Kinds
<1> HIDE DEF h
<1>4. CASE h # 0
  BY <1>1, <1>2, <1>3, <1>4, MarkFoundKeeps
<1>5. CASE h = 0
  BY <1>1, <1>2, <1>3, <1>5, MarkNewKeeps
<1> QED BY <1>4, <1>5

-----------------------------------------------------------------------------
(* The invariant holds.                                                     *)

LEMMA StutterKeeps == ASSUME Inv, UNCHANGED vars PROVE Inv'
<1>1. UNCHANGED <<node, addressNonce, nonces, sender, calls, server>>
  BY DEF vars
<1>2. addressNonce' \in Nonce /\ addressNonce' <= MaxChain + Cardinality(Signed) /\ nonces' \subseteq 0 .. MaxChain
  BY <1>1 DEF Inv, TypeOK, NonceOK
<1> QED BY <1>1, <1>2, NonceKeeps

LEMMA StepKeeps == ASSUME Inv, [Next]_vars PROVE Inv'
<1>1. CASE UNCHANGED vars
  BY <1>1, StutterKeeps
<1>2. CASE \E w \in Kinds : Create(w)
  BY <1>2, CreateKeeps
<1>3. CASE \E w \in Elsewhere : OtherDevice(w) \/ Receive(w)
  BY <1>3, ElsewhereKeeps
<1>4. CASE SignLoad \/ SignStore \/ SignFinish \/ Submit
  BY <1>4, SignLoadKeeps, SignStoreKeeps, SignFinishKeeps, SubmitKeeps
<1>5. CASE \E t \in DOMAIN transactions : Accept(t) \/ NotAnswered(t) \/ Mine(t) \/ AnnounceSubmitTransaction(t)
  BY <1>5, AcceptKeeps, NotAnsweredKeeps, MineKeeps, AnnounceSubmitKeeps
<1>6. CASE \E n \in 0 .. Count : AnnounceNonce(n)
  BY <1>6, AnnounceNonceKeeps
<1>7. CASE \E n \in nonces : StoreNonce(n)
  BY <1>7, StoreNonceKeeps
<1>8. CASE \E i \in DOMAIN chain : AnnounceTransaction(i) \/ AnnounceLog(i)
  BY <1>8, AnnounceTransactionKeeps, AnnounceLogKeeps
<1> QED BY <1>1, <1>2, <1>3, <1>4, <1>5, <1>6, <1>7, <1>8 DEF Next

LEMMA InvHolds == Spec => []Inv
<1>1. Inv /\ [Next]_vars => Inv'
  BY StepKeeps
<1> QED BY InvInit, <1>1, PTL DEF Spec

\* The light node keeps its types: a tid stays an index of the transactions, of which there are
\* at most those created here and two for each mined one, and a nonce stays in its range
\* though signing and the answers store it without a lock.
THEOREM NodeTypeCorrect == Spec => []TypeOK
<1>1. Inv => TypeOK
  BY DEF Inv
<1> QED BY <1>1, InvHolds, PTL

\* The blocked transactions of every wallet are listed in the order of the chain.
THEOREM BlockedInChainOrder == Spec => []BlockedInOrder
<1>1. Inv => BlockedInOrder
  BY DEF Inv, OrderOK, Ordered, BlockedInOrder
<1> QED BY <1>1, InvHolds, PTL

\* The ether wallet lists no mined transaction twice, in whichever order the answer to its
\* submission, the announcements and its signature come.
THEOREM EtherShowsOnce == Spec => []OneEntryPerHash
<1>1. ASSUME Inv PROVE OneEntryPerHash
  <2> SUFFICES ASSUME NEW t \in Listed("ether"), NEW u \in Listed("ether"), t # u,
                      transactions[t].hash = transactions[u].hash, transactions[t].hash # NoHash
               PROVE  FALSE
    BY DEF OneEntryPerHash
  <2>1. /\ t \in DOMAIN transactions /\ transactions[t].kind = "ether"
        /\ u \in DOMAIN transactions /\ transactions[u].kind = "ether"
    BY <1>1 DEF Inv, ListsOK, Kinds
  <2>2. t \in Created \union Others /\ u \in Created \union Others /\ \A x \in DOMAIN transactions : x > 0
    BY <1>1, <2>1, TxTyped DEF Others, Inv
  <2>3. CASE t \in Created /\ u \in Created
    BY <1>1, <2>3 DEF Inv, CreatedOK
  <2>4. CASE t \in Others /\ u \in Others
    BY <1>1, <2>1, <2>4 DEF Inv, OthersOK
  <2>5. CASE t \in Created /\ u \in Others
    <3>1. transactions[u].hash = t
      BY <1>1, <2>5 DEF Inv, CreatedOK
    <3> QED BY <1>1, <2>1, <2>2, <2>5, <3>1 DEF Inv, OthersOK
  <2>6. CASE t \in Others /\ u \in Created
    <3>1. transactions[t].hash = u
      BY <1>1, <2>6 DEF Inv, CreatedOK
    <3> QED BY <1>1, <2>1, <2>2, <2>6, <3>1 DEF Inv, OthersOK
  <2> QED BY <2>2, <2>3, <2>4, <2>5, <2>6
<1> QED BY <1>1, InvHolds, PTL

=============================================================================
