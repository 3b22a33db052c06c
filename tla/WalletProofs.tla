---------------------------- MODULE WalletProofs ----------------------------
(* Proofs about Wallet: its list is sorted, its heights are those of the main *)
(* chain, and its coins are outputs of valid transactions, each spent once.   *)
EXTENDS Wallet, SequenceTheorems, TLAPS

-----------------------------------------------------------------------------
(* What the community modules' list operators do.                           *)

\* An element put into a list at p.
LEMMA InsertAtFacts ==
    ASSUME NEW S, NEW s \in Seq(S), NEW p \in 1 .. Len(s) + 1, NEW e \in S
    PROVE  /\ InsertAt(s, p, e) \in Seq(S)
           /\ Len(InsertAt(s, p, e)) = Len(s) + 1
           /\ \A j \in 1 .. p - 1 : InsertAt(s, p, e)[j] = s[j]
           /\ InsertAt(s, p, e)[p] = e
           /\ \A j \in p .. Len(s) : InsertAt(s, p, e)[j + 1] = s[j]
<1> DEFINE a == SubSeq(s, 1, p - 1)  b == a \o <<e>>  c == SubSeq(s, p, Len(s))
<1>0. Len(s) \in Nat /\ \A j \in 1 .. Len(s) : s[j] \in S
  BY LenProperties
<1>1. a \in Seq(S) /\ Len(a) = p - 1 /\ \A j \in 1 .. p - 1 : a[j] = s[j]
  BY <1>0, SubSeqProperties
<1>2. c \in Seq(S) /\ Len(c) = Len(s) - p + 1 /\ \A j \in 1 .. Len(s) - p + 1 : c[j] = s[p + j - 1]
  BY <1>0, SubSeqProperties
<1>3. b \in Seq(S) /\ Len(b) = p /\ b[p] = e /\ \A j \in 1 .. p - 1 : b[j] = s[j]
  <2>1. <<e>> \in Seq(S) /\ Len(<<e>>) = 1 /\ <<e>>[1] = e
    OBVIOUS
  <2> HIDE DEF a
  <2>2. /\ a \o <<e>> \in Seq(S)
        /\ Len(a \o <<e>>) = Len(a) + Len(<<e>>)
        /\ \A j \in 1 .. Len(a) + Len(<<e>>) :
               (a \o <<e>>)[j] = IF j <= Len(a) THEN a[j] ELSE <<e>>[j - Len(a)]
    BY ONLY <1>1, <2>1, ConcatProperties
  <2>3. b \in Seq(S) /\ Len(b) = p
    BY <1>0, <1>1, <2>1, <2>2
  <2>4. b[p] = e
    <3>1. p \in 1 .. Len(a) + Len(<<e>>) /\ ~ (p <= Len(a)) /\ p - Len(a) = 1
      BY <1>0, <1>1, <2>1
    <3> QED BY <2>1, <2>2, <3>1
  <2>5. ASSUME NEW j \in 1 .. p - 1 PROVE b[j] = s[j]
    <3>1. j \in 1 .. Len(a) + Len(<<e>>) /\ j <= Len(a)
      BY <1>0, <1>1, <2>1
    <3> QED BY <1>1, <2>2, <3>1
  <2> QED BY <2>3, <2>4, <2>5
<1>4. InsertAt(s, p, e) = b \o c
  BY DEF InsertAt
<1> HIDE DEF b, c
<1>5. b \o c \in Seq(S) /\ Len(b \o c) = Len(s) + 1
  BY <1>0, <1>2, <1>3, ConcatProperties
<1>6. \A j \in 1 .. p : (b \o c)[j] = b[j]
  BY <1>0, <1>2, <1>3, ConcatProperties
<1>7. ASSUME NEW j \in p .. Len(s) PROVE (b \o c)[j + 1] = s[j]
  <2>1. j + 1 \in 1 .. Len(b) + Len(c) /\ ~ (j + 1 <= Len(b)) /\ j + 1 - Len(b) = j + 1 - p
    BY <1>0, <1>2, <1>3
  <2>2. (b \o c)[j + 1] = c[j + 1 - Len(b)]
    BY <1>2, <1>3, <2>1, ConcatProperties
  <2>3. j + 1 - p \in 1 .. Len(s) - p + 1 /\ p + (j + 1 - p) - 1 = j
    BY <1>0
  <2> QED BY <1>2, <2>1, <2>2, <2>3
<1> QED
  BY <1>0, <1>3, <1>4, <1>5, <1>6, <1>7

\* The element at p taken out of a list.
LEMMA RemoveAtFacts ==
    ASSUME NEW S, NEW s \in Seq(S), NEW p \in 1 .. Len(s)
    PROVE  /\ RemoveAt(s, p) \in Seq(S)
           /\ Len(RemoveAt(s, p)) = Len(s) - 1
           /\ \A j \in 1 .. p - 1 : RemoveAt(s, p)[j] = s[j]
           /\ \A j \in p .. Len(s) - 1 : RemoveAt(s, p)[j] = s[j + 1]
<1> DEFINE a == SubSeq(s, 1, p - 1)  c == SubSeq(s, p + 1, Len(s))
<1>0. Len(s) \in Nat /\ \A j \in 1 .. Len(s) : s[j] \in S
  BY LenProperties
<1>1. a \in Seq(S) /\ Len(a) = p - 1 /\ \A j \in 1 .. p - 1 : a[j] = s[j]
  BY <1>0, SubSeqProperties
<1>2. c \in Seq(S) /\ Len(c) = Len(s) - p /\ \A j \in 1 .. Len(s) - p : c[j] = s[p + j]
  BY <1>0, SubSeqProperties
<1>3. RemoveAt(s, p) = a \o c
  BY DEF RemoveAt
<1> HIDE DEF a, c
<1>4. a \o c \in Seq(S) /\ Len(a \o c) = Len(s) - 1
  <2>1. a \o c \in Seq(S) /\ Len(a \o c) = Len(a) + Len(c)
    BY <1>1, <1>2, ConcatProperties
  <2> QED BY <1>0, <1>1, <1>2, <2>1
<1>5. \A j \in 1 .. p - 1 : (a \o c)[j] = a[j]
  BY <1>0, <1>1, <1>2, ConcatProperties
<1>6. ASSUME NEW j \in p .. Len(s) - 1 PROVE (a \o c)[j] = s[j + 1]
  <2>1. j \in 1 .. Len(a) + Len(c) /\ ~ (j <= Len(a)) /\ j - Len(a) = j - p + 1
    BY <1>0, <1>1, <1>2
  <2>2. (a \o c)[j] = c[j - Len(a)]
    BY <1>1, <1>2, <2>1, ConcatProperties
  <2>3. j - p + 1 \in 1 .. Len(s) - p /\ p + (j - p + 1) = j + 1
    BY <1>0
  <2> QED BY <1>2, <2>1, <2>2, <2>3
<1> QED
  BY <1>0, <1>1, <1>3, <1>4, <1>5, <1>6

-----------------------------------------------------------------------------
(* Lists                                                                    *)

SortedBy(s, h) == \A i, j \in 1 .. Len(s) : i < j => h[s[i]] <= h[s[j]]
Distinct(s) == \A i, j \in 1 .. Len(s) : s[i] = s[j] => i = j

LEMMA SeqFacts ==
    ASSUME NEW S, NEW s \in Seq(S)
    PROVE  /\ Len(s) \in Nat /\ DOMAIN s = 1 .. Len(s)
           /\ \A i \in 1 .. Len(s) : s[i] \in S
           /\ Range(s) = {s[i] : i \in 1 .. Len(s)}
           /\ Range(s) \subseteq S
BY LenProperties DEF Range

\* One of two transactions that is After the other is not lower.
LEMMA AfterIsHigher ==
    ASSUME NEW h \in [Tx -> Heights], NEW all, NEW a \in Tx, NEW b \in Tx
    PROVE  /\ After(h, all, a, b) => h[b] <= h[a]
           /\ ~After(h, all, a, b) => h[a] <= h[b]
<1>1. h[a] \in Nat /\ h[b] \in Nat
  BY WalletAssumption DEF Heights
<1> QED
  BY <1>1 DEF After, Ascending

\* _BRWalletInsertTx keeps a sorted list sorted, and adds one transaction.
LEMMA InsertTxFacts ==
    ASSUME NEW s \in Seq(Tx), NEW h \in [Tx -> Heights], NEW all, NEW t \in Tx, t \notin Range(s),
           SortedBy(s, h), Distinct(s), NEW r \in InsertTx(s, h, all, t)
    PROVE  /\ r \in Seq(Tx) /\ SortedBy(r, h) /\ Distinct(r)
           /\ Range(r) = Range(s) \cup {t}
<1>1. PICK p \in 1 .. Len(s) + 1 : InsertPosition(s, h, all, t, p) /\ r = InsertAt(s, p, t)
  BY DEF InsertTx
<1>2. /\ Len(s) \in Nat /\ \A i \in 1 .. Len(s) : s[i] \in Tx /\ h[s[i]] \in Nat
      /\ Range(s) = {s[i] : i \in 1 .. Len(s)}
  BY SeqFacts, WalletAssumption DEF Heights
<1>3. /\ r \in Seq(Tx) /\ Len(r) = Len(s) + 1 /\ r[p] = t
      /\ \A j \in 1 .. p - 1 : r[j] = s[j]
      /\ \A j \in p .. Len(s) : r[j + 1] = s[j]
  BY <1>1, InsertAtFacts
<1>4. \A j \in 1 .. Len(r) : \/ j < p /\ j \in 1 .. Len(s) /\ r[j] = s[j]
                             \/ j = p /\ r[j] = t
                             \/ j > p /\ j - 1 \in p .. Len(s) /\ r[j] = s[j - 1]
  <2> SUFFICES ASSUME NEW j \in 1 .. Len(r), j > p PROVE j - 1 \in p .. Len(s) /\ r[j] = s[j - 1]
    BY <1>1, <1>2, <1>3
  <2>1. j - 1 \in p .. Len(s) /\ (j - 1) + 1 = j
    BY <1>2, <1>3
  <2> QED BY <1>3, <2>1
<1>5. \A j \in p .. Len(s) : h[t] <= h[s[j]]
  BY <1>1, <1>2, AfterIsHigher DEF InsertPosition
<1>6. \A j \in 1 .. p - 1 : h[s[j]] <= h[t]
  <2> SUFFICES ASSUME NEW j \in 1 .. p - 1 PROVE h[s[j]] <= h[t]
    OBVIOUS
  <2>1. p - 1 \in 1 .. Len(s) /\ h[s[p - 1]] <= h[t]
    <3>1. p # 1 /\ p - 1 \in 1 .. Len(s)
      BY <1>2
    <3> QED BY <1>1, <1>2, <3>1, AfterIsHigher DEF InsertPosition
  <2>2. h[s[j]] <= h[s[p - 1]]
    BY <1>2, <2>1 DEF SortedBy
  <2>3. h[t] \in Nat
    BY WalletAssumption DEF Heights
  <2> QED BY <1>2, <2>1, <2>2, <2>3
<1>7. SortedBy(r, h)
  <2> SUFFICES ASSUME NEW i \in 1 .. Len(r), NEW j \in 1 .. Len(r), i < j PROVE h[r[i]] <= h[r[j]]
    BY DEF SortedBy
  <2>1. CASE j < p
    <3>1. r[i] = s[i] /\ r[j] = s[j] /\ i \in 1 .. Len(s) /\ j \in 1 .. Len(s)
      BY <1>4, <2>1
    <3> QED BY <3>1 DEF SortedBy
  <2>2. CASE j = p
    <3>1. i \in 1 .. p - 1 /\ r[i] = s[i] /\ r[j] = t
      BY <1>4, <2>2
    <3> QED BY <1>6, <3>1
  <2>3. CASE j > p /\ i = p
    BY <1>2, <1>4, <1>5, <2>3
  <2>4. CASE j > p /\ i < p
    <3>1. r[i] = s[i] /\ r[j] = s[j - 1] /\ i \in 1 .. Len(s) /\ j - 1 \in 1 .. Len(s) /\ i < j - 1
      BY <1>2, <1>4, <2>4
    <3> QED BY <3>1 DEF SortedBy
  <2>5. CASE i > p
    <3>1. /\ r[i] = s[i - 1] /\ r[j] = s[j - 1] /\ i - 1 < j - 1
          /\ i - 1 \in 1 .. Len(s) /\ j - 1 \in 1 .. Len(s)
      BY <1>2, <1>4, <2>5
    <3> QED BY <3>1 DEF SortedBy
  <2> QED BY <1>2, <1>3, <2>1, <2>2, <2>3, <2>4, <2>5
<1>8. Range(r) = Range(s) \cup {t}
  <2>0. Range(r) = {r[j] : j \in 1 .. Len(r)}
    BY <1>3, SeqFacts
  <2>1. ASSUME NEW j \in 1 .. Len(r) PROVE r[j] \in Range(s) \cup {t}
    BY <1>2, <1>4
  <2>2. ASSUME NEW j \in 1 .. Len(s) PROVE s[j] \in Range(r)
    <3>1. CASE j < p
      BY <1>2, <1>3, <2>0, <3>1
    <3>2. CASE j >= p
      <4>1. j \in p .. Len(s) /\ j + 1 \in 1 .. Len(r)
        BY <1>2, <1>3, <3>2
      <4> QED BY <1>3, <2>0, <4>1
    <3> QED BY <1>2, <3>1, <3>2
  <2>3. t \in Range(r)
    BY <1>2, <1>3, <2>0
  <2>4. Range(r) \subseteq Range(s) \cup {t}
    BY <2>0, <2>1
  <2>5. Range(s) \subseteq Range(r)
    BY <1>2, <2>2
  <2> QED BY <2>3, <2>4, <2>5
<1>9. Distinct(r)
  <2> SUFFICES ASSUME NEW i \in 1 .. Len(r), NEW j \in 1 .. Len(r), i < j PROVE r[i] # r[j]
    BY <1>2, <1>3 DEF Distinct
  <2>1. CASE j < p
    BY <1>2, <1>4, <2>1 DEF Distinct
  <2>2. CASE j = p
    BY <1>2, <1>4, <2>2
  <2>3. CASE j > p /\ i = p
    <3>1. r[i] = t /\ r[j] = s[j - 1] /\ j - 1 \in 1 .. Len(s)
      BY <1>2, <1>4, <2>3
    <3> QED BY <1>2, <3>1
  <2>4. CASE j > p /\ i < p
    <3>1. r[i] = s[i] /\ r[j] = s[j - 1] /\ i \in 1 .. Len(s) /\ j - 1 \in 1 .. Len(s) /\ i # j - 1
      BY <1>2, <1>4, <2>4
    <3> QED BY <3>1 DEF Distinct
  <2>5. CASE i > p
    <3>1. /\ r[i] = s[i - 1] /\ r[j] = s[j - 1] /\ i - 1 # j - 1
          /\ i - 1 \in 1 .. Len(s) /\ j - 1 \in 1 .. Len(s)
      BY <1>2, <1>4, <2>5
    <3> QED BY <3>1 DEF Distinct
  <2> QED BY <1>2, <1>3, <2>1, <2>2, <2>3, <2>4, <2>5
<1> QED
  BY <1>3, <1>7, <1>8, <1>9

\* array_rm keeps a sorted list sorted, and takes one transaction away.
LEMMA WithoutFacts ==
    ASSUME NEW s \in Seq(Tx), NEW h \in [Tx -> Heights], NEW t \in Tx,
           SortedBy(s, h), Distinct(s), NEW r \in Without(s, t)
    PROVE  /\ r \in Seq(Tx) /\ SortedBy(r, h) /\ Distinct(r)
           /\ Range(r) = Range(s) \ {t}
<1>1. PICK p \in 1 .. Len(s) : s[p] = t /\ r = RemoveAt(s, p)
  BY DEF Without
<1>2. /\ Len(s) \in Nat /\ \A i \in 1 .. Len(s) : s[i] \in Tx
      /\ Range(s) = {s[i] : i \in 1 .. Len(s)}
  BY SeqFacts
<1>3. /\ r \in Seq(Tx) /\ Len(r) = Len(s) - 1
      /\ \A j \in 1 .. p - 1 : r[j] = s[j]
      /\ \A j \in p .. Len(s) - 1 : r[j] = s[j + 1]
  BY <1>1, RemoveAtFacts
<1> DEFINE q(j) == IF j < p THEN j ELSE j + 1
<1>4. \A j \in 1 .. Len(r) : q(j) \in 1 .. Len(s) /\ q(j) # p /\ r[j] = s[q(j)]
  BY <1>2, <1>3
<1>5. \A i, j \in 1 .. Len(r) : i < j => q(i) < q(j)
  BY <1>2, <1>3
<1>6. \A k \in 1 .. Len(s) : k # p => \E j \in 1 .. Len(r) : q(j) = k
  <2> SUFFICES ASSUME NEW k \in 1 .. Len(s), k # p PROVE \E j \in 1 .. Len(r) : q(j) = k
    OBVIOUS
  <2>1. CASE k < p
    <3>1. k \in 1 .. Len(r) /\ q(k) = k
      BY <1>2, <1>3, <2>1
    <3> QED BY <3>1
  <2>2. CASE k > p
    <3>1. k - 1 \in 1 .. Len(r) /\ q(k - 1) = k
      BY <1>2, <1>3, <2>2
    <3> QED BY <3>1
  <2> QED BY <1>2, <2>1, <2>2
<1> HIDE DEF q
<1>7. SortedBy(r, h)
  BY <1>4, <1>5 DEF SortedBy
<1>8. Distinct(r)
  <2> SUFFICES ASSUME NEW i \in 1 .. Len(r), NEW j \in 1 .. Len(r), i < j PROVE r[i] # r[j]
    BY <1>2, <1>3 DEF Distinct
  <2>1. q(i) \in 1 .. Len(s) /\ q(j) \in 1 .. Len(s) /\ q(i) < q(j) /\ r[i] = s[q(i)] /\ r[j] = s[q(j)]
    BY <1>4, <1>5
  <2> QED BY <2>1 DEF Distinct
<1>9. Range(r) = Range(s) \ {t}
  <2>1. Range(r) = {r[j] : j \in 1 .. Len(r)}
    BY <1>3, SeqFacts
  <2>2. ASSUME NEW x \in Range(r) PROVE x \in Range(s) \ {t}
    <3>1. PICK j \in 1 .. Len(r) : x = s[q(j)] /\ q(j) \in 1 .. Len(s) /\ q(j) # p
      BY <1>4, <2>1
    <3>2. s[q(j)] # s[p]
      BY <3>1 DEF Distinct
    <3> QED BY <1>1, <1>2, <3>1, <3>2
  <2>3. ASSUME NEW x \in Range(s) \ {t} PROVE x \in Range(r)
    <3>1. PICK k \in 1 .. Len(s) : x = s[k] /\ k # p
      BY <1>1, <1>2
    <3>2. PICK j \in 1 .. Len(r) : q(j) = k
      BY <1>6, <3>1
    <3> QED BY <1>4, <2>1, <3>1, <3>2
  <2> QED BY <2>2, <2>3
<1> QED
  BY <1>3, <1>7, <1>8, <1>9

\* The order depends on the heights of the listed transactions only.
LEMMA SortedByOthers ==
    ASSUME NEW s \in Seq(Tx), NEW h, NEW k, \A t \in Range(s) : h[t] = k[t], SortedBy(s, h)
    PROVE  SortedBy(s, k)
BY SeqFacts DEF SortedBy

-----------------------------------------------------------------------------
(* Types and the list                                                       *)

ListInv ==
    /\ SortedBy(transactions, height) /\ Distinct(transactions)
    /\ Listed \subseteq allTx
    /\ loading \cap Listed = {} /\ (phase # "loading" => loading = {})

LEMMA UpdateBalanceTypes ==
    ASSUME NEW s \in Seq(Tx), NEW h, NEW bh, NEW n, UpdateBalance(s, h, bh, n)
    PROVE  /\ invalidTx' \subseteq Tx /\ pendingTx' \subseteq Tx
           /\ utxos' \subseteq Output /\ usedAddrs' \subseteq Address
<1>1. Range(s) \subseteq Tx
  BY SeqFacts
<1>2. usedAddrs' \subseteq Address
  BY WalletAssumption DEF UpdateBalance, Paid
<1> QED
  BY <1>1, <1>2 DEF UpdateBalance, Unspent

LEMMA UnusedAddrsTypes ==
    ASSUME NEW from, NEW gap, NEW used, UnusedAddrs(from, gap, used)
    PROVE  count' \in [Chains -> 0 .. MaxAddresses]
BY DEF UnusedAddrs

LEMMA HeightsFacts ==
    /\ TX_UNCONFIRMED \in Heights /\ 0 .. MaxHeight \subseteq Heights
    /\ \A x \in Heights : x \in Nat /\ x <= TX_UNCONFIRMED
    /\ \A x \in Heights : x # TX_UNCONFIRMED => x \in 0 .. MaxHeight
BY WalletAssumption DEF Heights

\* The end of the list that is above h is what is above h.
LEMMA UnconfirmedAfterFacts ==
    ASSUME TypeOK, ListInv, NEW h \in Nat
    PROVE  /\ Above(h) = {t \in Listed : height[t] > h}
           /\ UnconfirmedAfter(h) \in [Tx -> Heights]
           /\ SortedBy(transactions, UnconfirmedAfter(h))
<1>1. /\ Len(transactions) \in Nat /\ Listed = {transactions[i] : i \in 1 .. Len(transactions)}
      /\ \A i \in 1 .. Len(transactions) : transactions[i] \in Tx
  BY SeqFacts DEF TypeOK, Listed
<1>2. \A t \in Tx : height[t] \in Heights /\ height[t] \in Nat
  BY HeightsFacts DEF TypeOK
<1>3. ASSUME NEW i \in 1 .. Len(transactions), height[transactions[i]] > h
      PROVE  \A k \in i .. Len(transactions) : height[transactions[k]] > h
  <2> SUFFICES ASSUME NEW k \in i .. Len(transactions) PROVE height[transactions[k]] > h
    OBVIOUS
  <2>1. k \in 1 .. Len(transactions) /\ (k = i \/ i < k)
    BY <1>1
  <2>2. height[transactions[i]] <= height[transactions[k]]
    BY <1>1, <1>2, <2>1 DEF ListInv, SortedBy
  <2> QED BY <1>1, <1>2, <1>3, <2>1, <2>2
<1>4. Above(h) = {t \in Listed : height[t] > h}
  <2>1. ASSUME NEW t \in Above(h) PROVE t \in Listed /\ height[t] > h
    BY <1>1 DEF Above
  <2>2. ASSUME NEW t \in Listed, height[t] > h PROVE t \in Above(h)
    BY <1>1, <1>3, <2>2 DEF Above
  <2> QED BY <2>1, <2>2
<1>5. \A t \in Tx : UnconfirmedAfter(h)[t] = IF t \in Listed /\ height[t] > h THEN TX_UNCONFIRMED ELSE height[t]
  BY <1>4 DEF UnconfirmedAfter
<1>6. UnconfirmedAfter(h) \in [Tx -> Heights]
  BY <1>2, HeightsFacts DEF UnconfirmedAfter
<1>7. ASSUME NEW i \in 1 .. Len(transactions), NEW j \in 1 .. Len(transactions), i < j
      PROVE  UnconfirmedAfter(h)[transactions[i]] <= UnconfirmedAfter(h)[transactions[j]]
  <2>1. height[transactions[i]] <= height[transactions[j]]
    BY <1>7 DEF ListInv, SortedBy
  <2>2. transactions[i] \in Listed /\ transactions[j] \in Listed
    BY <1>1
  <2>3. height[transactions[i]] <= TX_UNCONFIRMED /\ TX_UNCONFIRMED \in Nat
    BY <1>1, <1>2, HeightsFacts
  <2> QED BY <1>1, <1>2, <1>5, <2>1, <2>2, <2>3
<1> QED
  BY <1>4, <1>6, <1>7 DEF SortedBy

\* A new transaction in the list.
LEMMA ListTxKeeps ==
    ASSUME TypeOK, ListInv, Idle, NEW t \in Tx, t \notin allTx, allTx' = allTx \cup {t}, ListTx(t),
           UNCHANGED <<height, loading, phase>>
    PROVE  /\ transactions' \in Seq(Tx) /\ ListInv' /\ Listed' = Listed \cup {t}
           /\ invalidTx' \subseteq Tx /\ pendingTx' \subseteq Tx
           /\ utxos' \subseteq Output /\ usedAddrs' \subseteq Address
           /\ count' \in [Chains -> 0 .. MaxAddresses]
<1>1. PICK s \in InsertTx(transactions, height, allTx \cup {t}, t) :
        /\ transactions' = s /\ UpdateBalance(s, height, blockHeight, count)
        /\ UnusedAddrs(count, GapLimit, usedAddrs')
  BY DEF ListTx
<1>2. transactions \in Seq(Tx) /\ height \in [Tx -> Heights] /\ t \notin Range(transactions)
  BY DEF TypeOK, ListInv, Listed
<1>3. /\ s \in Seq(Tx) /\ SortedBy(s, height) /\ Distinct(s)
      /\ Range(s) = Range(transactions) \cup {t}
  BY <1>2, InsertTxFacts DEF ListInv
<1>4. ListInv' /\ Listed' = Listed \cup {t}
  <2>1. loading \cap (Listed \cup {t}) = {}
    BY DEF ListInv, Idle
  <2> QED BY <1>1, <1>3, <2>1 DEF ListInv, Listed
<1> QED
  BY <1>1, <1>3, <1>4, UpdateBalanceTypes, UnusedAddrsTypes

LEMMA ListStays ==
    ASSUME ListInv, UNCHANGED <<transactions, allTx, height, loading>>, phase' = "loading" => phase = "loading",
           phase = "loading" => phase' = "loading" \/ loading = {}
    PROVE  ListInv' /\ Listed' = Listed
BY DEF ListInv, Listed

\* _BRWalletUpdateTransactions gives t its height and its new place.
LEMMA SetHeightKeeps ==
    ASSUME TypeOK, ListInv, phase = "online", NEW t \in left, t \in allTx, SetHeight(t), UNCHANGED loading
    PROVE  /\ transactions' \in Seq(Tx) /\ allTx' \subseteq Tx /\ height' \in [Tx -> Heights]
           /\ needsUpdate' \in BOOLEAN /\ phase' \in {"online", "fault"}
           /\ ListInv' /\ Listed' = Listed
<1> DEFINE h == [height EXCEPT ![t] = updateHeight]
<1>1. /\ t \in Tx /\ transactions \in Seq(Tx) /\ h \in [Tx -> Heights] /\ height \in [Tx -> Heights]
      /\ updateHeight \in Heights /\ loading = {} /\ allTx \subseteq Tx /\ needsUpdate \in BOOLEAN
  BY DEF TypeOK, ListInv
<1>0. \A u \in Tx : u # t => h[u] = height[u]
  BY <1>1
<1> HIDE DEF h
<1>2. CASE ContainsTx(count, t) /\ height' = h /\ Reinsert(t, h)
           /\ needsUpdate' = (needsUpdate \/ AffectsBalance(t)) /\ UNCHANGED <<allTx, phase>>
  <2>1. transactions' \in Seq(Tx) /\ SortedBy(transactions', h) /\ Distinct(transactions') /\ Listed' = Listed
    <3>1. CASE t \notin Listed
      <4>1. transactions' = transactions /\ \A u \in Range(transactions) : height[u] = h[u]
        BY <1>0, <1>1, <1>2, <3>1, SeqFacts DEF Reinsert, Listed
      <4>2. SortedBy(transactions, h)
        BY <1>1, <4>1, SortedByOthers DEF ListInv
      <4> QED BY <1>1, <4>1, <4>2 DEF ListInv, Listed
    <3>2. CASE t \in Listed
      <4>1. PICK r \in Without(transactions, t) : transactions' \in InsertTx(r, h, allTx, t)
        BY <1>2, <3>2 DEF Reinsert
      <4>2. r \in Seq(Tx) /\ SortedBy(r, height) /\ Distinct(r) /\ Range(r) = Listed \ {t}
        BY <1>1, <4>1, WithoutFacts DEF ListInv, Listed
      <4>3. \A u \in Range(r) : height[u] = h[u]
        BY <1>0, <1>1, <4>2, SeqFacts
      <4>4. SortedBy(r, h) /\ t \notin Range(r)
        BY <4>2, <4>3, SortedByOthers
      <4>5. /\ transactions' \in Seq(Tx) /\ SortedBy(transactions', h) /\ Distinct(transactions')
            /\ Range(transactions') = Range(r) \cup {t}
        BY <1>1, <4>1, <4>2, <4>4, InsertTxFacts
      <4> QED BY <3>2, <4>2, <4>5 DEF Listed
    <3> QED BY <3>1, <3>2
  <2>2. needsUpdate' \in BOOLEAN
    BY <1>1, <1>2 DEF AffectsBalance
  <2>3. ListInv'
    BY <1>1, <1>2, <2>1 DEF ListInv
  <2> QED BY <1>1, <1>2, <2>1, <2>2, <2>3
<1>3. CASE /\ t \notin Listed /\ allTx' = allTx \ {t} /\ height' = [height EXCEPT ![t] = TX_UNCONFIRMED]
           /\ UNCHANGED <<transactions, needsUpdate, phase>>
  <2>1. height' \in [Tx -> Heights]
    BY <1>1, <1>3, HeightsFacts
  <2>2. \A u \in Range(transactions) : height[u] = height'[u]
    BY <1>1, <1>3, SeqFacts DEF Listed
  <2>3. SortedBy(transactions', height')
    BY <1>1, <1>3, <2>2, SortedByOthers DEF ListInv
  <2>4. Listed' = Listed /\ ListInv'
    BY <1>1, <1>3, <2>3 DEF ListInv, Listed
  <2> QED BY <1>1, <1>3, <2>1, <2>4
<1>4. CASE UNCHANGED <<transactions, allTx, height, needsUpdate>> /\ phase' \in {"online", "fault"}
  <2>1. ListInv' /\ Listed' = Listed
    BY <1>1, <1>4, ListStays
  <2> QED BY <1>1, <1>4, <2>1
<1> QED
  BY <1>2, <1>3, <1>4 DEF SetHeight, h

USE DEF walletVars, balanceVars, updateVars, chainVars

\* Every step keeps the types and the list.
LEMMA ListStep ==
    ASSUME TypeOK, ListInv, [Next]_vars
    PROVE  TypeOK' /\ ListInv'
<1>1. CASE UNCHANGED vars
  BY <1>1 DEF vars, TypeOK, ListInv, Listed
<1>2. ASSUME NEW t \in Tx, RegisterTransaction(t) PROVE TypeOK' /\ ListInv'
  <2>1. CASE ListTx(t)
    <3>1. Idle /\ t \notin allTx /\ allTx' = allTx \cup {t} /\ UNCHANGED <<height, loading, phase>>
      BY <1>2 DEF RegisterTransaction
    <3>2. /\ transactions' \in Seq(Tx) /\ ListInv'
          /\ invalidTx' \subseteq Tx /\ pendingTx' \subseteq Tx
          /\ utxos' \subseteq Output /\ usedAddrs' \subseteq Address
          /\ count' \in [Chains -> 0 .. MaxAddresses]
      BY <2>1, <3>1, ListTxKeeps
    <3> QED BY <1>2, <3>2 DEF RegisterTransaction, TypeOK
  <2>2. CASE UNCHANGED <<transactions, count, balanceVars>>
    <3>1. ListInv'
      BY <1>2, <2>2 DEF RegisterTransaction, ListInv, Listed
    <3> QED BY <1>2, <2>2, <3>1 DEF RegisterTransaction, TypeOK
  <2> QED BY <1>2, <2>1, <2>2 DEF RegisterTransaction
<1>3. CASE UpdateBlock
  <2>1. ListInv'
    BY <1>3, ListStays DEF UpdateBlock
  <2>2. PICK h \in confirming :
          /\ confirming' = confirming \ {h}
          /\ \/ BeginUpdate({t \in Tx : mined[t] = h}, h)
             \/ UNCHANGED <<blockHeight, left, updateHeight>>
    BY <1>3 DEF UpdateBlock
  <2>3. h \in Heights /\ confirming' \subseteq 1 .. MaxHeight
    BY <2>2, HeightsFacts, WalletAssumption DEF TypeOK
  <2>4. left' \subseteq Tx /\ updateHeight' \in Heights /\ blockHeight' \in Heights
    BY <2>2, <2>3 DEF BeginUpdate, TypeOK
  <2> QED BY <1>3, <2>1, <2>3, <2>4 DEF UpdateBlock, TypeOK
<1>4. CASE UpdateUnconfirmed
  <2>1. ListInv'
    BY <1>4, ListStays DEF UpdateUnconfirmed
  <2>2. PICK t \in allTx : BeginUpdate({t}, TX_UNCONFIRMED)
    BY <1>4 DEF UpdateUnconfirmed
  <2>3. left' \subseteq Tx /\ updateHeight' \in Heights /\ blockHeight' \in Heights
    BY <2>2, HeightsFacts DEF BeginUpdate, TypeOK
  <2> QED BY <1>4, <2>1, <2>3 DEF UpdateUnconfirmed, TypeOK
<1>5. CASE UpdateTransaction
  <2>1. PICK t \in left :
          /\ left' = left \ {t}
          /\ \/ t \in allTx /\ SetHeight(t)
             \/ UNCHANGED <<transactions, allTx, height, needsUpdate, phase>>
    BY <1>5 DEF UpdateTransaction
  <2>2. CASE t \in allTx /\ SetHeight(t)
    <3>1. /\ transactions' \in Seq(Tx) /\ allTx' \subseteq Tx /\ height' \in [Tx -> Heights]
          /\ needsUpdate' \in BOOLEAN /\ phase' \in {"online", "fault"} /\ ListInv'
      BY <1>5, <2>1, <2>2, SetHeightKeeps DEF UpdateTransaction
    <3> QED BY <1>5, <2>1, <3>1 DEF UpdateTransaction, TypeOK
  <2>3. CASE UNCHANGED <<transactions, allTx, height, needsUpdate, phase>>
    <3>1. ListInv'
      BY <1>5, <2>3, ListStays DEF UpdateTransaction
    <3> QED BY <1>5, <2>1, <2>3, <3>1 DEF UpdateTransaction, TypeOK
  <2> QED BY <2>1, <2>2, <2>3
<1>6. CASE EndUpdate
  <2>1. ListInv'
    BY <1>6, ListStays DEF EndUpdate
  <2>2. /\ invalidTx' \subseteq Tx /\ pendingTx' \subseteq Tx
        /\ utxos' \subseteq Output /\ usedAddrs' \subseteq Address
    BY <1>6, UpdateBalanceTypes DEF EndUpdate, TypeOK
  <2>3. updateHeight' \in Heights
    BY <1>6, HeightsFacts, WalletAssumption DEF EndUpdate
  <2> QED BY <1>6, <2>1, <2>2, <2>3 DEF EndUpdate, TypeOK
<1>7. CASE BeginRemove
  <2>1. ListInv'
    BY <1>7, ListStays DEF BeginRemove
  <2>2. removing' \in Tx
    BY <1>7 DEF BeginRemove, ListInv, TypeOK
  <2> QED BY <1>7, <2>1, <2>2 DEF BeginRemove, TypeOK
<1>8. CASE RemoveTransaction
  <2>0. PICK t \in Listed : \E s \in Without(transactions, t) :
          /\ transactions' = s /\ UpdateBalance(s, height, blockHeight, count)
          /\ removing' \in {NoTx, removing}
    BY <1>8 DEF RemoveTransaction, WithDependents
  <2>1. PICK s \in Without(transactions, t) :
          /\ transactions' = s /\ UpdateBalance(s, height, blockHeight, count)
          /\ removing' \in {NoTx, removing}
    BY <2>0
  <2>2. t \in Tx /\ transactions \in Seq(Tx) /\ height \in [Tx -> Heights]
    BY DEF ListInv, TypeOK
  <2>3. s \in Seq(Tx) /\ SortedBy(s, height) /\ Distinct(s) /\ Range(s) = Listed \ {t}
    BY <2>2, WithoutFacts DEF ListInv, Listed
  <2>4. ListInv'
    BY <1>8, <2>1, <2>3 DEF RemoveTransaction, ListInv, Listed
  <2>5. /\ invalidTx' \subseteq Tx /\ pendingTx' \subseteq Tx
        /\ utxos' \subseteq Output /\ usedAddrs' \subseteq Address
    BY <2>1, <2>3, UpdateBalanceTypes
  <2> QED BY <1>8, <2>1, <2>3, <2>4, <2>5 DEF RemoveTransaction, TypeOK
<1>9. CASE LoadBloomFilter
  <2>1. ListInv'
    BY <1>9, ListStays DEF LoadBloomFilter
  <2> QED BY <1>9, <2>1, UnusedAddrsTypes DEF LoadBloomFilter, TypeOK
<1>10. CASE NextAddress
  <2>1. ListInv'
    BY <1>10, ListStays DEF NextAddress
  <2> QED BY <1>10, <2>1, UnusedAddrsTypes DEF NextAddress, TypeOK
<1>11. CASE NewBlock
  <2>1. ListInv'
    BY <1>11, ListStays DEF NewBlock
  <2>2. tip' \in 1 .. MaxHeight
    BY <1>11, WalletAssumption DEF NewBlock, TypeOK
  <2>3. mined' \in [Tx -> 0 .. MaxHeight]
    BY <1>11, <2>2, WalletAssumption DEF NewBlock, TypeOK
  <2> QED BY <1>11, <2>1, <2>2, <2>3 DEF NewBlock, TypeOK
<1>12. CASE OldBlock
  <2>1. ListInv'
    BY <1>12, ListStays DEF OldBlock
  <2>2. confirming' \subseteq 1 .. MaxHeight
    BY <1>12, WalletAssumption DEF OldBlock, TypeOK
  <2> QED BY <1>12, <2>1, <2>2 DEF OldBlock, TypeOK
<1>13. CASE Reorganize
  <2>1. PICK join \in 0 .. tip - 1 :
          /\ tip' = tip + 1 /\ mined' \in [Tx -> 0 .. tip']
          /\ confirming' = join + 1 .. tip' /\ SetTxUnconfirmedAfter(join)
    BY <1>13 DEF Reorganize
  <2>2. join \in Nat /\ join \in Heights /\ tip' \in 0 .. MaxHeight
    BY <1>13, <2>1, HeightsFacts, WalletAssumption DEF Reorganize, TypeOK
  <2>3. mined' \in [Tx -> 0 .. MaxHeight] /\ confirming' \subseteq 1 .. MaxHeight
    BY <2>1, <2>2, WalletAssumption DEF TypeOK
  <2>4. /\ height' \in [Tx -> Heights] /\ SortedBy(transactions, height')
        /\ UNCHANGED <<transactions, allTx, count>> /\ blockHeight' = join
    BY <2>1, <2>2, UnconfirmedAfterFacts DEF SetTxUnconfirmedAfter
  <2>5. /\ invalidTx' \subseteq Tx /\ pendingTx' \subseteq Tx
        /\ utxos' \subseteq Output /\ usedAddrs' \subseteq Address
    BY <2>1, UpdateBalanceTypes DEF SetTxUnconfirmedAfter, TypeOK
  <2>6. ListInv'
    BY <1>13, <2>4 DEF Reorganize, ListInv, Listed
  <2> QED BY <1>13, <2>2, <2>3, <2>4, <2>5, <2>6 DEF Reorganize, TypeOK
<1>14. CASE Restart
  <2>1. transactions' = <<>> /\ transactions' \in Seq(Tx) /\ Len(transactions') = 0
    BY <1>14, EmptySeq DEF Restart
  <2>2. Listed' = {}
    <3>1. DOMAIN transactions' = 1 .. 0
      BY <2>1, LenProperties
    <3> QED BY <3>1 DEF Listed, Range
  <2>3. height' \in [Tx -> Heights] /\ 0 \in Heights /\ 0 \in 0 .. MaxAddresses
    BY <1>14, HeightsFacts, WalletAssumption DEF Restart, TypeOK
  <2>4. ListInv'
    BY <1>14, <2>1, <2>2 DEF Restart, ListInv, SortedBy, Distinct
  <2>5. loading' \subseteq Tx
    BY <1>14 DEF Restart, ListInv, TypeOK
  <2> QED BY <1>14, <2>1, <2>3, <2>4, <2>5 DEF Restart, TypeOK
<1>15. CASE LoadTransaction
  <2>1. PICK t \in loading :
          /\ loading' = loading \ {t} /\ allTx' = allTx \cup {t}
          /\ transactions' \in InsertTx(transactions, height, allTx', t)
          /\ usedAddrs' = usedAddrs \cup Paid({t})
    BY <1>15 DEF LoadTransaction
  <2>2. /\ t \in Tx /\ transactions \in Seq(Tx) /\ height \in [Tx -> Heights]
        /\ t \notin Range(transactions)
    BY DEF TypeOK, ListInv, Listed
  <2>3. /\ transactions' \in Seq(Tx) /\ SortedBy(transactions', height) /\ Distinct(transactions')
        /\ Range(transactions') = Range(transactions) \cup {t}
    BY <2>1, <2>2, InsertTxFacts DEF ListInv
  <2>4. ListInv'
    BY <1>15, <2>1, <2>3 DEF LoadTransaction, ListInv, Listed
  <2>5. usedAddrs' \subseteq Address
    BY <2>1, WalletAssumption DEF Paid, TypeOK
  <2> QED BY <1>15, <2>1, <2>2, <2>3, <2>4, <2>5 DEF LoadTransaction, TypeOK
<1>16. CASE FinishLoading
  <2>1. ListInv'
    BY <1>16, ListStays DEF FinishLoading
  <2>2. /\ invalidTx' \subseteq Tx /\ pendingTx' \subseteq Tx
        /\ utxos' \subseteq Output /\ usedAddrs' \subseteq Address
    BY <1>16, UpdateBalanceTypes DEF FinishLoading, TypeOK
  <2> QED BY <1>16, <2>1, <2>2, UnusedAddrsTypes DEF FinishLoading, TypeOK
<1> QED
  BY <1>1, <1>2, <1>3, <1>4, <1>5, <1>6, <1>7, <1>8, <1>9, <1>10, <1>11, <1>12, <1>13, <1>14,
     <1>15, <1>16 DEF Next

-----------------------------------------------------------------------------
(* Heights and the main chain                                               *)

ChainInv ==
    /\ IsChain(mined)
    /\ \A t \in Tx : height[t] # 0
    /\ \A t \in Listed \cup loading : height[t] # TX_UNCONFIRMED => height[t] = mined[t]
    /\ \A t \in Tx \ (allTx \cup loading) : height[t] = TX_UNCONFIRMED
    /\ updateHeight \notin {0, TX_UNCONFIRMED} => \A t \in left : mined[t] = updateHeight

LEMMA SetHeightChain ==
    ASSUME TypeOK, ListInv, ChainInv, phase = "online", updateHeight # 0, NEW t \in left, t \in allTx,
           SetHeight(t), left' = left \ {t}, UNCHANGED <<loading, updateHeight, mined>>
    PROVE  ChainInv'
<1>1. /\ t \in Tx /\ height \in [Tx -> Heights] /\ updateHeight \in Heights /\ loading = {}
      /\ Listed' = Listed /\ Listed \subseteq Tx /\ TX_UNCONFIRMED # 0 /\ allTx \subseteq Tx
  BY SetHeightKeeps, WalletAssumption DEF TypeOK, ListInv
<1>2. CASE height' = [height EXCEPT ![t] = updateHeight] /\ allTx' = allTx
  BY <1>1, <1>2 DEF ChainInv
<1>3. CASE /\ t \notin Listed /\ allTx' = allTx \ {t}
           /\ height' = [height EXCEPT ![t] = TX_UNCONFIRMED]
  BY <1>1, <1>3 DEF ChainInv
<1>4. CASE UNCHANGED <<allTx, height>>
  BY <1>1, <1>4 DEF ChainInv
<1> QED
  BY <1>2, <1>3, <1>4 DEF SetHeight

\* A step that changes neither the heights nor the chain, and lists only what is
\* known or has its first height.
LEMMA ChainStays ==
    ASSUME TypeOK, ChainInv, UNCHANGED <<height, mined>>,
           Listed' \cup loading' \subseteq Listed \cup loading \cup (Tx \ (allTx \cup loading)),
           allTx \cup loading \subseteq allTx' \cup loading',
           \/ UNCHANGED updateHeight /\ left' \subseteq left
           \/ updateHeight' \in {0, TX_UNCONFIRMED}
           \/ \A t \in left' : mined[t] = updateHeight'
    PROVE  ChainInv'
BY DEF ChainInv

\* Every step keeps the heights of confirmed transactions in the main chain.
LEMMA ChainStep ==
    ASSUME TypeOK, ListInv, ChainInv, [Next]_vars
    PROVE  ChainInv'
<1>0. /\ TypeOK' /\ ListInv' /\ height \in [Tx -> Heights] /\ Listed \subseteq Tx /\ loading \subseteq Tx
      /\ Listed \subseteq allTx /\ mined \in [Tx -> 0 .. MaxHeight]
  BY ListStep DEF TypeOK, ListInv
<1>1. CASE UNCHANGED vars
  BY <1>1 DEF vars, ChainInv, Listed
<1>2. ASSUME NEW t \in Tx, RegisterTransaction(t) PROVE ChainInv'
  <2>1. Listed' \subseteq Listed \cup {t} /\ t \notin allTx \cup loading /\ allTx' = allTx \cup {t}
    <3>1. CASE ListTx(t)
      BY <1>2, <3>1, ListTxKeeps DEF RegisterTransaction, Idle, ListInv
    <3>2. CASE UNCHANGED transactions
      BY <1>2, <3>2 DEF RegisterTransaction, Listed, Idle, ListInv
    <3> QED BY <1>2, <3>1, <3>2 DEF RegisterTransaction
  <2> QED BY <1>2, <2>1, ChainStays DEF RegisterTransaction
<1>3. CASE UpdateBlock
  <2>1. UNCHANGED <<height, mined, allTx, loading>> /\ Listed' = Listed
    BY <1>3 DEF UpdateBlock, Listed
  <2>2. PICK h \in confirming :
          \/ BeginUpdate({t \in Tx : mined[t] = h}, h)
          \/ UNCHANGED <<blockHeight, left, updateHeight>>
    BY <1>3 DEF UpdateBlock
  <2>3. \/ UNCHANGED updateHeight /\ left' \subseteq left
        \/ \A t \in left' : mined[t] = updateHeight'
    BY <2>2 DEF BeginUpdate
  <2> QED BY <1>0, <2>1, <2>3, ChainStays
<1>4. CASE UpdateUnconfirmed
  <2>1. UNCHANGED <<height, mined, allTx, loading>> /\ Listed' = Listed /\ updateHeight' = TX_UNCONFIRMED
    BY <1>4 DEF UpdateUnconfirmed, BeginUpdate, Listed
  <2> QED BY <1>0, <2>1, ChainStays
<1>5. CASE UpdateTransaction
  <2>1. PICK t \in left :
          /\ left' = left \ {t}
          /\ \/ t \in allTx /\ SetHeight(t)
             \/ UNCHANGED <<transactions, allTx, height, needsUpdate, phase>>
    BY <1>5 DEF UpdateTransaction
  <2>2. CASE t \in allTx /\ SetHeight(t)
    BY <1>5, <2>1, <2>2, SetHeightChain DEF UpdateTransaction
  <2>3. CASE UNCHANGED <<transactions, allTx, height>>
    <3>1. UNCHANGED <<height, mined, allTx, loading, updateHeight>> /\ Listed' = Listed
      BY <1>5, <2>3 DEF UpdateTransaction, Listed
    <3> QED BY <1>0, <2>1, <3>1, ChainStays
  <2> QED BY <2>1, <2>2, <2>3
<1>6. CASE EndUpdate
  <2>1. UNCHANGED <<height, mined, allTx, loading>> /\ Listed' = Listed /\ updateHeight' = 0
    BY <1>6 DEF EndUpdate, Listed
  <2> QED BY <1>0, <2>1, ChainStays
<1>7. CASE BeginRemove
  <2>1. UNCHANGED <<height, mined, allTx, loading, updateHeight, left>> /\ Listed' = Listed
    BY <1>7 DEF BeginRemove, Listed
  <2> QED BY <1>0, <2>1, ChainStays
<1>8. CASE RemoveTransaction
  <2>1. UNCHANGED <<height, mined, allTx, loading, updateHeight, left>>
    BY <1>8 DEF RemoveTransaction
  <2>2. PICK t \in Listed : \E s \in Without(transactions, t) : transactions' = s
    BY <1>8 DEF RemoveTransaction, WithDependents
  <2>3. Listed' = Listed \ {t}
    BY <1>0, <2>2, WithoutFacts DEF TypeOK, ListInv, Listed
  <2> QED BY <1>0, <2>1, <2>3, ChainStays
<1>9. CASE LoadBloomFilter \/ NextAddress
  <2>1. UNCHANGED <<height, mined, allTx, loading, updateHeight, left>> /\ Listed' = Listed
    BY <1>9 DEF LoadBloomFilter, NextAddress, Listed
  <2> QED BY <1>0, <2>1, ChainStays
<1>10. CASE NewBlock
  <2>1. UNCHANGED <<height, allTx, loading, updateHeight, left>> /\ Listed' = Listed /\ IsChain(mined')
    BY <1>10 DEF NewBlock, Listed
  <2>2. \A t \in Tx : mined[t] # 0 => mined'[t] = mined[t]
    BY <1>0, <1>10 DEF NewBlock
  <2>3. updateHeight' = 0
    BY <1>10, <2>1 DEF NewBlock, Idle
  <2>4. \A t \in Listed \cup loading : height[t] # TX_UNCONFIRMED => height[t] = mined'[t]
    BY <1>0, <2>2 DEF ChainInv
  <2> QED BY <1>0, <2>1, <2>3, <2>4 DEF ChainInv
<1>11. CASE OldBlock
  <2>1. UNCHANGED <<height, mined, allTx, loading, updateHeight, left>> /\ Listed' = Listed
    BY <1>11 DEF OldBlock, Listed
  <2> QED BY <1>0, <2>1, ChainStays
<1>12. CASE Reorganize
  <2>1. PICK join \in 0 .. tip - 1 :
          /\ \A t \in Tx : (mined[t] \in 1 .. join \/ mined'[t] \in 1 .. join) => mined'[t] = mined[t]
          /\ SetTxUnconfirmedAfter(join) /\ IsChain(mined')
    BY <1>12 DEF Reorganize
  <2>2. /\ UNCHANGED <<allTx, loading, updateHeight>> /\ Listed' = Listed /\ updateHeight = 0
        /\ height' = UnconfirmedAfter(join) /\ loading = {}
    BY <1>12, <2>1 DEF Reorganize, SetTxUnconfirmedAfter, Listed, Idle, ListInv
  <2>3. join \in Nat /\ \A t \in Tx : height[t] \in Nat
    <3>1. \A t \in Tx : height[t] \in Heights
      BY <1>0
    <3> QED BY <3>1, HeightsFacts DEF TypeOK
  <2>4. \A t \in Tx : height'[t] = IF t \in Listed /\ height[t] > join THEN TX_UNCONFIRMED ELSE height[t]
    BY <2>2, <2>3, UnconfirmedAfterFacts DEF UnconfirmedAfter
  <2>5. ASSUME NEW t \in Listed, height'[t] # TX_UNCONFIRMED PROVE height'[t] = mined'[t]
    <3>1. height'[t] = height[t] /\ ~(height[t] > join) /\ height[t] = mined[t] /\ height[t] # 0
      BY <1>0, <2>4, <2>5 DEF ChainInv
    <3>2. mined[t] \in 1 .. join
      BY <1>0, <2>3, <3>1
    <3> QED BY <1>0, <2>1, <3>1, <3>2
  <2>6. TX_UNCONFIRMED # 0
    BY WalletAssumption
  <2> QED BY <1>0, <2>1, <2>2, <2>4, <2>5, <2>6 DEF ChainInv
<1>13. CASE Restart
  <2>1. /\ loading' = Listed /\ allTx' = {} /\ UNCHANGED <<mined, updateHeight>> /\ updateHeight = 0
        /\ height' = [t \in Tx |-> IF t \in Listed THEN height[t] ELSE TX_UNCONFIRMED]
        /\ TX_UNCONFIRMED # 0
    BY <1>13, WalletAssumption DEF Restart
  <2>2. Listed' = {}
    <3>1. transactions' = <<>> /\ transactions' \in Seq(Tx) /\ Len(transactions') = 0
      BY <1>13, EmptySeq DEF Restart
    <3>2. DOMAIN transactions' = 1 .. 0
      BY <3>1, LenProperties
    <3> QED BY <3>2 DEF Listed, Range
  <2> QED BY <1>0, <2>1, <2>2 DEF ChainInv
<1>14. CASE LoadTransaction
  <2>1. PICK t \in loading :
          /\ loading' = loading \ {t} /\ allTx' = allTx \cup {t}
          /\ transactions' \in InsertTx(transactions, height, allTx', t)
    BY <1>14 DEF LoadTransaction
  <2>2. UNCHANGED <<height, mined, updateHeight, left>>
    BY <1>14 DEF LoadTransaction
  <2>3. Listed' = Listed \cup {t}
    <3>1. transactions \in Seq(Tx) /\ t \in Tx /\ t \notin Range(transactions)
      BY <1>0 DEF TypeOK, ListInv, Listed
    <3>2. Range(transactions') = Range(transactions) \cup {t}
      BY <1>0, <2>1, <3>1, InsertTxFacts DEF ListInv
    <3> QED BY <3>2 DEF Listed
  <2> QED BY <1>0, <2>1, <2>2, <2>3, ChainStays
<1>15. CASE FinishLoading
  <2>1. UNCHANGED <<height, mined, allTx, loading, updateHeight, left>> /\ Listed' = Listed
    BY <1>15 DEF FinishLoading, Listed
  <2> QED BY <1>0, <2>1, ChainStays
<1> QED
  BY <1>1, <1>2, <1>3, <1>4, <1>5, <1>6, <1>7, <1>8, <1>9, <1>10, <1>11, <1>12, <1>13, <1>14,
     <1>15 DEF Next

-----------------------------------------------------------------------------
(* The balance                                                              *)

\* What _BRWalletUpdateBalance finds for a sorted list whose confirmed
\* transactions are in a chain.
LEMMA BalanceFacts ==
    ASSUME NEW s \in Seq(Tx), NEW h \in [Tx -> Heights], SortedBy(s, h),
           NEW m \in [Tx -> 0 .. MaxHeight], IsChain(m),
           \A t \in Range(s) : h[t] # TX_UNCONFIRMED => h[t] = m[t] /\ m[t] # 0,
           NEW bh, NEW n, UpdateBalance(s, h, bh, n)
    PROVE  /\ \A t \in Range(s) : t \in invalidTx' => h[t] = TX_UNCONFIRMED
           /\ \A t, u \in Range(s) : Conflicting(t, u) => t \in invalidTx' \/ u \in invalidTx'
           /\ \A o \in utxos' :
                /\ TxOf[o] \in Range(s) \ (invalidTx' \cup pendingTx')
                /\ \A t \in Range(s) \ (invalidTx' \cup pendingTx') : o \notin Inputs[t]
<1>1. /\ Len(s) \in Nat /\ \A i \in 1 .. Len(s) : s[i] \in Tx
      /\ Range(s) = {s[i] : i \in 1 .. Len(s)} /\ Range(s) \subseteq Tx
  BY SeqFacts
<1>2. \A i \in 1 .. Len(s) : s[i] \in invalidTx' <=>
        /\ h[s[i]] = TX_UNCONFIRMED
        /\ \/ \E u \in Before(s, i) \ invalidTx' : Conflicting(s[i], u)
           \/ Parents(s[i]) \cap Before(s, i) \cap invalidTx' # {}
  BY DEF UpdateBalance, IsInvalidTx
<1>3. \A t \in Range(s) : t \in invalidTx' => h[t] = TX_UNCONFIRMED
  BY <1>1, <1>2
<1>4. ASSUME NEW i \in 1 .. Len(s), NEW j \in 1 .. Len(s), i < j, Conflicting(s[i], s[j])
      PROVE  s[i] \in invalidTx' \/ s[j] \in invalidTx'
  <2> SUFFICES ASSUME s[i] \notin invalidTx' PROVE s[j] \in invalidTx'
    OBVIOUS
  <2>1. CASE h[s[j]] = TX_UNCONFIRMED
    <3>1. s[i] \in Before(s, j) \ invalidTx' /\ Conflicting(s[j], s[i])
      BY <1>1, <1>4 DEF Before, Conflicting
    <3> QED BY <1>2, <2>1, <3>1
  <2>2. CASE h[s[j]] # TX_UNCONFIRMED
    <3>1. h[s[i]] <= h[s[j]]
      BY <1>4 DEF SortedBy
    <3>2. h[s[i]] \in Heights /\ h[s[j]] \in Heights
      BY <1>1
    <3>3. h[s[i]] # TX_UNCONFIRMED
      BY <2>2, <3>1, <3>2, WalletAssumption DEF Heights
    <3>4. s[i] \in Tx /\ s[j] \in Tx /\ m[s[i]] # 0 /\ m[s[j]] # 0
      BY <1>1, <2>2, <3>3
    <3> QED BY <1>4, <3>4 DEF IsChain
  <2> QED BY <2>1, <2>2
<1>5. ASSUME NEW t \in Range(s), NEW u \in Range(s), Conflicting(t, u)
      PROVE  t \in invalidTx' \/ u \in invalidTx'
  <2>1. PICK i \in 1 .. Len(s), j \in 1 .. Len(s) : t = s[i] /\ u = s[j]
    BY <1>1
  <2>2. i # j /\ Conflicting(u, t)
    BY <1>5, <2>1 DEF Conflicting
  <2> QED BY <1>1, <1>4, <1>5, <2>1, <2>2
<1>6. ASSUME NEW o \in utxos'
      PROVE  /\ TxOf[o] \in Range(s) \ (invalidTx' \cup pendingTx')
             /\ \A t \in Range(s) \ (invalidTx' \cup pendingTx') : o \notin Inputs[t]
  <2>1. /\ \E i \in Accepted(s, invalidTx' \cup pendingTx') : TxOf[o] = s[i]
        /\ ~\E i \in Accepted(s, invalidTx' \cup pendingTx') :
             \E j \in 1 .. i : s[j] \notin invalidTx' /\ o \in Inputs[s[j]]
    BY <1>6 DEF UpdateBalance, Unspent
  <2>2. TxOf[o] \in Range(s) \ (invalidTx' \cup pendingTx')
    BY <1>1, <2>1 DEF Accepted
  <2>3. ASSUME NEW t \in Range(s) \ (invalidTx' \cup pendingTx') PROVE o \notin Inputs[t]
    <3>1. PICK k \in 1 .. Len(s) : t = s[k]
      BY <1>1
    <3>2. k \in Accepted(s, invalidTx' \cup pendingTx') /\ k \in 1 .. k
      BY <1>1, <3>1 DEF Accepted
    <3> QED BY <2>1, <3>1, <3>2
  <2> QED BY <2>2, <2>3
<1> QED
  BY <1>3, <1>5, <1>6

BalanceInv == NoDoubleSpend /\ CoinsSpendable /\ (phase = "loading" => utxos = {} /\ removing = NoTx)

\* A step that ends with _BRWalletUpdateBalance.
LEMMA BalanceFound ==
    ASSUME TypeOK', ListInv', ChainInv', phase' # "loading", NEW bh, NEW n,
           UpdateBalance(transactions', height', bh, n)
    PROVE  BalanceInv'
<1> DEFINE s == transactions'  h == height'  m == mined'
<1>1. s \in Seq(Tx) /\ h \in [Tx -> Heights] /\ m \in [Tx -> 0 .. MaxHeight] /\ Range(s) \subseteq Tx
  BY SeqFacts DEF TypeOK
<1>2. SortedBy(s, h) /\ IsChain(m)
  BY DEF ListInv, ChainInv
<1>3. \A t \in Range(s) : h[t] # TX_UNCONFIRMED => h[t] = m[t] /\ m[t] # 0
  BY <1>1 DEF ChainInv, Listed
<1>4. UpdateBalance(s, h, bh, n)
  OBVIOUS
<1> HIDE DEF s, h, m
<1>5. /\ \A t \in Range(s) : t \in invalidTx' => h[t] = TX_UNCONFIRMED
      /\ \A t, u \in Range(s) : Conflicting(t, u) => t \in invalidTx' \/ u \in invalidTx'
      /\ \A o \in utxos' :
           /\ TxOf[o] \in Range(s) \ (invalidTx' \cup pendingTx')
           /\ \A t \in Range(s) \ (invalidTx' \cup pendingTx') : o \notin Inputs[t]
  BY <1>1, <1>2, <1>3, <1>4, BalanceFacts
<1> QED
  BY <1>5 DEF s, h, BalanceInv, NoDoubleSpend, CoinsSpendable, Valid, Listed

\* A step that leaves the list and the balance alone.
LEMMA BalanceStays ==
    ASSUME BalanceInv, Listed' = Listed, UNCHANGED balanceVars,
           phase' = "loading" => phase = "loading" /\ UNCHANGED removing,
           phase = "loading" => phase' = "loading",
           \A t \in Listed : t \in invalidTx /\ ~needsUpdate' =>
               height'[t] = height[t] /\ ~needsUpdate
    PROVE  BalanceInv'
BY DEF BalanceInv, NoDoubleSpend, CoinsSpendable, Valid, balanceVars

\* Every step keeps the balance right.
LEMMA BalanceStep ==
    ASSUME TypeOK, ListInv, ChainInv, BalanceInv, [Next]_vars
    PROVE  BalanceInv'
<1>0. TypeOK' /\ ListInv' /\ ChainInv' /\ Listed \subseteq Tx /\ height \in [Tx -> Heights]
  BY ListStep, ChainStep DEF TypeOK, ListInv
<1>1. CASE UNCHANGED vars
  <2>1. Listed' = Listed /\ UNCHANGED <<balanceVars, phase, height, needsUpdate, removing>>
    BY <1>1 DEF vars, walletVars, updateVars, Listed
  <2> QED BY <2>1, BalanceStays
<1>2. ASSUME NEW t \in Tx, RegisterTransaction(t) PROVE BalanceInv'
  <2>1. phase' # "loading" /\ UNCHANGED <<phase, height, needsUpdate>>
    BY <1>2 DEF RegisterTransaction, Idle, updateVars
  <2>2. CASE ListTx(t)
    <3>1. UpdateBalance(transactions', height', blockHeight, count)
      BY <2>1, <2>2 DEF ListTx
    <3> QED BY <1>0, <2>1, <3>1, BalanceFound
  <2>3. CASE UNCHANGED <<transactions, balanceVars>>
    BY <2>1, <2>3, BalanceStays DEF Listed
  <2> QED BY <1>2, <2>2, <2>3 DEF RegisterTransaction
<1>3. CASE UpdateBlock \/ UpdateUnconfirmed \/ BeginRemove \/ LoadBloomFilter \/ NextAddress
           \/ NewBlock \/ OldBlock
  <2>1. Listed' = Listed /\ UNCHANGED <<balanceVars, height, needsUpdate>>
    BY <1>3 DEF UpdateBlock, UpdateUnconfirmed, BeginRemove, LoadBloomFilter, NextAddress, NewBlock,
                OldBlock, walletVars, updateVars, Listed
  <2>2. /\ phase' = "loading" => phase = "loading" /\ UNCHANGED removing
        /\ phase = "loading" => phase' = "loading"
    BY <1>3 DEF Idle, UpdateBlock, UpdateUnconfirmed, BeginRemove, LoadBloomFilter, NextAddress, NewBlock,
                OldBlock
  <2> QED BY <2>1, <2>2, BalanceStays
<1>4. CASE UpdateTransaction
  <2>1. PICK t \in left :
          \/ t \in allTx /\ SetHeight(t)
          \/ UNCHANGED <<transactions, allTx, height, needsUpdate, phase>>
    BY <1>4 DEF UpdateTransaction
  <2>2. CASE t \in allTx /\ SetHeight(t)
    <3>1. UNCHANGED balanceVars /\ Listed' = Listed /\ phase = "online" /\ phase' # "loading" /\ t \in Tx
      BY <1>4, <2>2, SetHeightKeeps DEF UpdateTransaction, TypeOK, SetHeight
    <3>2. \A u \in Listed : u \in invalidTx /\ ~needsUpdate' => height'[u] = height[u] /\ ~needsUpdate
      <4>1. CASE /\ height' = [height EXCEPT ![t] = updateHeight]
                 /\ needsUpdate' = (needsUpdate \/ AffectsBalance(t))
        BY <1>0, <4>1 DEF AffectsBalance
      <4>2. CASE t \notin Listed /\ height' = [height EXCEPT ![t] = TX_UNCONFIRMED] /\ UNCHANGED needsUpdate
        BY <1>0, <4>2
      <4>3. CASE UNCHANGED <<height, needsUpdate>>
        BY <4>3
      <4> QED BY <2>2, <4>1, <4>2, <4>3 DEF SetHeight
    <3> QED BY <3>1, <3>2, BalanceStays
  <2>3. CASE UNCHANGED <<transactions, height, needsUpdate, phase>>
    <3>1. UNCHANGED <<balanceVars, removing>> /\ Listed' = Listed
      BY <1>4, <2>3 DEF UpdateTransaction, Listed
    <3> QED BY <2>3, <3>1, BalanceStays
  <2> QED BY <2>1, <2>2, <2>3
<1>5. CASE EndUpdate
  <2>1. UNCHANGED <<transactions, height, phase>> /\ phase' # "loading"
    BY <1>5 DEF EndUpdate, walletVars
  <2>2. CASE needsUpdate
    <3>1. UpdateBalance(transactions', height', blockHeight, count)
      BY <1>5, <2>1, <2>2 DEF EndUpdate
    <3> QED BY <1>0, <2>1, <3>1, BalanceFound
  <2>3. CASE ~needsUpdate
    <3>1. UNCHANGED balanceVars
      BY <1>5, <2>3 DEF EndUpdate
    <3> QED BY <2>1, <2>3, <3>1, BalanceStays DEF Listed
  <2> QED BY <2>2, <2>3
<1>6. CASE RemoveTransaction
  <2>1. UNCHANGED <<height, phase>> /\ \E s : transactions' = s /\ UpdateBalance(s, height, blockHeight, count)
    BY <1>6 DEF RemoveTransaction
  <2>2. UpdateBalance(transactions', height', blockHeight, count)
    BY <2>1
  <2>3. phase' # "loading"
    BY <1>6, <2>1 DEF RemoveTransaction, BalanceInv
  <2> QED BY <1>0, <2>2, <2>3, BalanceFound
<1>7. CASE Reorganize
  <2>1. PICK join \in 0 .. tip - 1 : SetTxUnconfirmedAfter(join)
    BY <1>7 DEF Reorganize
  <2>2. UNCHANGED <<transactions, phase, needsUpdate>> /\ phase' # "loading"
    BY <1>7, <2>1 DEF Reorganize, SetTxUnconfirmedAfter, Idle, updateVars
  <2>3. CASE Above(join) # {}
    <3>1. UpdateBalance(transactions', height', join, count)
      BY <2>1, <2>2, <2>3 DEF SetTxUnconfirmedAfter
    <3> QED BY <1>0, <2>2, <3>1, BalanceFound
  <2>4. CASE Above(join) = {}
    <3>1. UNCHANGED balanceVars /\ \A t \in Tx : height'[t] = height[t]
      BY <2>1, <2>4 DEF SetTxUnconfirmedAfter, UnconfirmedAfter
    <3> QED BY <1>0, <2>2, <3>1, BalanceStays DEF Listed
  <2> QED BY <2>3, <2>4
<1>8. CASE Restart
  BY <1>8 DEF Restart, BalanceInv, NoDoubleSpend, CoinsSpendable
<1>9. CASE LoadTransaction
  <2>1. phase = "loading" /\ phase' = "loading" /\ utxos' = {} /\ removing' = NoTx
    BY <1>9 DEF LoadTransaction, BalanceInv
  <2> QED BY <2>1 DEF BalanceInv, NoDoubleSpend, CoinsSpendable
<1>10. CASE FinishLoading
  <2>1. phase' # "loading" /\ UpdateBalance(transactions', height', blockHeight, count')
    BY <1>10 DEF FinishLoading
  <2> QED BY <1>0, <2>1, BalanceFound
<1> QED
  BY <1>1, <1>2, <1>3, <1>4, <1>5, <1>6, <1>7, <1>8, <1>9, <1>10 DEF Next

-----------------------------------------------------------------------------
(* The coins that leave                                                     *)

\* The addresses that coins pay have been generated, and none is forgotten.
OwnedInv == \A o \in utxos : Owned(count, o)
Grows == \A c \in Chains : count[c] <= count'[c]

LEMMA UnusedAddrsGrow ==
    ASSUME NEW gap, NEW used, UnusedAddrs(count, gap, used)
    PROVE  Grows
BY DEF UnusedAddrs, IsExtended, Grows, Chains

LEMMA OwnedGrows ==
    ASSUME TypeOK, TypeOK', Grows, NEW o \in Output, Owned(count, o)
    PROVE  Owned(count', o)
<1>1. AddressOf[o] \in Address \cup {Foreign}
  BY WalletAssumption
<1>2. AddressOf[o] \in Address
  BY <1>1 DEF Owned
<1>3. AddressOf[o].chain \in Chains /\ AddressOf[o].index \in Nat
  BY <1>2 DEF Address
<1>4. count[AddressOf[o].chain] \in Nat /\ count'[AddressOf[o].chain] \in Nat
      /\ count[AddressOf[o].chain] <= count'[AddressOf[o].chain]
  BY <1>3 DEF TypeOK, Grows
<1> QED
  BY <1>3, <1>4 DEF Owned

\* _BRWalletUpdateBalance: a coin of the wallet that it does not find is spent, or
\* its own transaction is not listed, or is not accepted.
LEMMA NotFound ==
    ASSUME NEW s \in Seq(Tx), NEW h, NEW bh, NEW n, UpdateBalance(s, h, bh, n),
           NEW o \in Output, Owned(n, o), o \notin utxos'
    PROVE  \/ \E t \in Range(s) \ invalidTx' : o \in Inputs[t]
           \/ TxOf[o] \notin Range(s)
           \/ TxOf[o] \in invalidTx' \cup pendingTx' /\ h[TxOf[o]] = TX_UNCONFIRMED
<1>1. Len(s) \in Nat /\ Range(s) = {s[i] : i \in 1 .. Len(s)}
  BY SeqFacts
<1> SUFFICES ASSUME TxOf[o] \in Range(s), \A t \in Range(s) \ invalidTx' : o \notin Inputs[t]
             PROVE  TxOf[o] \in invalidTx' \cup pendingTx' /\ h[TxOf[o]] = TX_UNCONFIRMED
  OBVIOUS
<1>2. PICK i \in 1 .. Len(s) : TxOf[o] = s[i]
  BY <1>1
<1>3. ~\E k \in Accepted(s, invalidTx' \cup pendingTx') :
          \E j \in 1 .. k : s[j] \notin invalidTx' /\ o \in Inputs[s[j]]
  <2> SUFFICES ASSUME NEW k \in Accepted(s, invalidTx' \cup pendingTx'), NEW j \in 1 .. k,
                      s[j] \notin invalidTx'
               PROVE  o \notin Inputs[s[j]]
    OBVIOUS
  <2>1. j \in 1 .. Len(s)
    BY <1>1 DEF Accepted
  <2> QED BY <1>1, <2>1
<1>4. utxos' = Unspent(s, n, invalidTx', pendingTx')
  BY DEF UpdateBalance
<1>5. i \notin Accepted(s, invalidTx' \cup pendingTx')
  BY <1>2, <1>3, <1>4 DEF Unspent
<1>6. s[i] \in invalidTx' \cup pendingTx'
  BY <1>5 DEF Accepted
<1>7. h[s[i]] = TX_UNCONFIRMED
  BY <1>6 DEF UpdateBalance, IsInvalidTx, IsPendingTx
<1> QED
  BY <1>2, <1>6, <1>7

\* What CoinsLeaveWhenSpent says of one step.
CoinsStay ==
    \A o \in utxos \ utxos' :
        \/ \E t \in Listed' \ invalidTx' : o \in Inputs[t]
        \/ TxOf[o] \notin Listed'
        \/ TxOf[o] \in (invalidTx \cup pendingTx)' /\ height'[TxOf[o]] = TX_UNCONFIRMED

\* A step that computes the balance, for the addresses there are before it.
LEMMA BalanceKeepsCoins ==
    ASSUME TypeOK, TypeOK', OwnedInv, Grows, NEW bh,
           UpdateBalance(transactions', height', bh, count)
    PROVE  CoinsStay /\ OwnedInv'
<1> DEFINE s == transactions'  h == height'
<1>1. s \in Seq(Tx) /\ UpdateBalance(s, h, bh, count) /\ Listed' = Range(s)
  BY DEF TypeOK, Listed
<1> HIDE DEF s, h
<1>2. ASSUME NEW o \in utxos \ utxos'
      PROVE  \/ \E t \in Range(s) \ invalidTx' : o \in Inputs[t]
             \/ TxOf[o] \notin Range(s)
             \/ TxOf[o] \in invalidTx' \cup pendingTx' /\ h[TxOf[o]] = TX_UNCONFIRMED
  <2>1. o \in Output /\ Owned(count, o)
    BY DEF TypeOK, OwnedInv
  <2> QED BY <1>1, <2>1, NotFound
<1>3. CoinsStay
  BY <1>1, <1>2 DEF CoinsStay, h
<1>4. \A o \in utxos' : o \in Output /\ Owned(count, o)
  BY <1>1 DEF UpdateBalance, Unspent
<1>5. OwnedInv'
  BY <1>4, OwnedGrows DEF OwnedInv
<1> QED
  BY <1>3, <1>5

\* A step that leaves the coins alone.
LEMMA CoinsAlone ==
    ASSUME TypeOK, TypeOK', OwnedInv, UNCHANGED utxos, UNCHANGED count \/ Grows
    PROVE  CoinsStay /\ OwnedInv'
<1>1. \A o \in utxos : Owned(count', o)
  BY OwnedGrows DEF OwnedInv, TypeOK
<1> QED
  BY <1>1 DEF CoinsStay, OwnedInv

\* Every step keeps the coins that are not spent.
LEMMA CoinsStep ==
    ASSUME TypeOK, ListInv, BalanceInv, OwnedInv, [Next]_vars
    PROVE  OwnedInv' /\ (phase' # "loading" => CoinsStay)
<1>0. TypeOK'
  BY ListStep
<1>00. UNCHANGED count => Grows
  BY DEF TypeOK, Grows
<1>1. CASE UNCHANGED vars
  BY <1>0, <1>1, CoinsAlone DEF vars
<1>2. ASSUME NEW t \in Tx, RegisterTransaction(t) PROVE OwnedInv' /\ CoinsStay
  <2>1. CASE ListTx(t)
    <3>1. UpdateBalance(transactions', height', blockHeight, count) /\ UnusedAddrs(count, GapLimit, usedAddrs')
      BY <1>2, <2>1 DEF RegisterTransaction, ListTx
    <3>2. Grows
      BY <3>1, UnusedAddrsGrow
    <3> QED BY <1>0, <3>1, <3>2, BalanceKeepsCoins
  <2>2. CASE UNCHANGED <<transactions, count, balanceVars>>
    BY <1>0, <2>2, CoinsAlone
  <2> QED BY <1>2, <2>1, <2>2 DEF RegisterTransaction
<1>3. CASE UpdateBlock \/ UpdateUnconfirmed \/ UpdateTransaction \/ BeginRemove \/ NewBlock \/ OldBlock
           \/ LoadTransaction
  <2>1. UNCHANGED <<utxos, count>>
    BY <1>3 DEF UpdateBlock, UpdateUnconfirmed, UpdateTransaction, BeginRemove, NewBlock, OldBlock,
                LoadTransaction
  <2> QED BY <1>0, <2>1, CoinsAlone
<1>4. CASE EndUpdate
  <2>1. UNCHANGED <<transactions, height, count>>
    BY <1>4 DEF EndUpdate
  <2>2. CASE needsUpdate
    <3>1. UpdateBalance(transactions', height', blockHeight, count)
      BY <1>4, <2>1, <2>2 DEF EndUpdate
    <3> QED BY <1>0, <1>00, <2>1, <3>1, BalanceKeepsCoins
  <2>3. CASE ~needsUpdate
    <3>1. UNCHANGED utxos
      BY <1>4, <2>3 DEF EndUpdate
    <3> QED BY <1>0, <2>1, <3>1, CoinsAlone
  <2> QED BY <2>2, <2>3
<1>5. CASE RemoveTransaction
  <2>1. /\ UNCHANGED <<height, count>>
        /\ \E s : transactions' = s /\ UpdateBalance(s, height, blockHeight, count)
    BY <1>5 DEF RemoveTransaction
  <2>2. UpdateBalance(transactions', height', blockHeight, count)
    BY <2>1
  <2> QED BY <1>0, <1>00, <2>1, <2>2, BalanceKeepsCoins
<1>6. CASE LoadBloomFilter \/ NextAddress
  <2>1. UNCHANGED utxos /\ \E gap : UnusedAddrs(count, gap, usedAddrs)
    BY <1>6 DEF LoadBloomFilter, NextAddress
  <2>2. Grows
    BY <2>1, UnusedAddrsGrow
  <2> QED BY <1>0, <2>1, <2>2, CoinsAlone
<1>7. CASE Reorganize
  <2>1. PICK join \in 0 .. tip - 1 : SetTxUnconfirmedAfter(join)
    BY <1>7 DEF Reorganize
  <2>2. UNCHANGED <<transactions, count>>
    BY <2>1 DEF SetTxUnconfirmedAfter
  <2>3. CASE Above(join) # {}
    <3>1. UpdateBalance(transactions', height', join, count)
      BY <2>1, <2>2, <2>3 DEF SetTxUnconfirmedAfter
    <3> QED BY <1>0, <1>00, <2>2, <3>1, BalanceKeepsCoins
  <2>4. CASE Above(join) = {}
    <3>1. UNCHANGED utxos
      BY <2>1, <2>4 DEF SetTxUnconfirmedAfter
    <3> QED BY <1>0, <2>2, <3>1, CoinsAlone
  <2> QED BY <2>3, <2>4
<1>8. CASE Restart
  <2>1. utxos' = {} /\ phase' = "loading"
    BY <1>8 DEF Restart
  <2> QED BY <2>1 DEF OwnedInv
<1>9. CASE FinishLoading
  <2>1. /\ utxos = {} /\ UpdateBalance(transactions, height, blockHeight, count')
    BY <1>9 DEF FinishLoading, BalanceInv
  <2>2. \A o \in utxos' : Owned(count', o)
    BY <2>1 DEF UpdateBalance, Unspent
  <2> QED BY <2>1, <2>2 DEF OwnedInv, CoinsStay
<1> QED
  BY <1>1, <1>2, <1>3, <1>4, <1>5, <1>6, <1>7, <1>8, <1>9 DEF Next

-----------------------------------------------------------------------------
(* Theorems                                                                 *)

WalletInv == TypeOK /\ ListInv /\ ChainInv /\ BalanceInv /\ OwnedInv

LEMMA InitInv == Init => WalletInv
<1> SUFFICES ASSUME Init PROVE WalletInv
  OBVIOUS
<1>1. transactions = <<>> /\ transactions \in Seq(Tx) /\ Len(transactions) = 0
  BY EmptySeq DEF Init
<1>2. Listed = {}
  <2>1. DOMAIN transactions = 1 .. 0
    BY <1>1, LenProperties
  <2> QED BY <2>1 DEF Listed, Range
<1>3. TypeOK
  <2>1. height \in [Tx -> Heights] /\ 0 \in Heights /\ 0 \in 0 .. MaxHeight
    BY HeightsFacts, WalletAssumption DEF Init
  <2>2. count \in [Chains -> 0 .. MaxAddresses]
    BY WalletAssumption DEF Init
  <2> QED BY <1>1, <2>1, <2>2 DEF Init, TypeOK
<1>4. ListInv
  BY <1>1, <1>2 DEF Init, ListInv, SortedBy, Distinct
<1>5. ChainInv
  BY <1>2, WalletAssumption DEF Init, ChainInv, IsChain
<1>6. BalanceInv
  BY <1>2 DEF Init, BalanceInv, NoDoubleSpend, CoinsSpendable
<1>7. OwnedInv
  BY DEF Init, OwnedInv
<1> QED
  BY <1>3, <1>4, <1>5, <1>6, <1>7 DEF WalletInv

LEMMA WalletInvariant == Spec => []WalletInv
<1>1. WalletInv /\ [Next]_vars => WalletInv'
  BY ListStep, ChainStep, BalanceStep, CoinsStep DEF WalletInv
<1> QED
  BY <1>1, InitInv, PTL DEF Spec

\* The state of a wallet has its types, whatever the transactions, their number
\* and the order in which they come.
THEOREM WalletTypeCorrect == Spec => []TypeOK
<1>1. WalletInv => TypeOK
  BY DEF WalletInv
<1> QED
  BY <1>1, WalletInvariant, PTL

\* _BRWalletInsertTx, BRWalletUpdateTransactions and BRWalletSetTxUnconfirmedAfter keep
\* the list sorted by height, so that the searches that end at the first lower
\* transaction miss none.
THEOREM ListSorted == Spec => []SortedByHeight
<1>1. WalletInv => SortedByHeight
  BY DEF WalletInv, ListInv, SortedBy, SortedByHeight
<1> QED
  BY <1>1, WalletInvariant, PTL

\* The heights of listed transactions are those of the main chain, through blocks
\* that arrive again, reorganizations and restarts.
THEOREM HeightsMined == Spec => []ConfirmedAreMined
<1>1. WalletInv => ConfirmedAreMined
  BY DEF WalletInv, ChainInv, ConfirmedAreMined
<1> QED
  BY <1>1, WalletInvariant, PTL

\* Of two listed transactions that spend the same output one is invalid, and a
\* confirmed one is not, though the balance is not computed after every change.
THEOREM NoCoinSpentTwice == Spec => []NoDoubleSpend
<1>1. WalletInv => NoDoubleSpend
  BY DEF WalletInv, BalanceInv
<1> QED
  BY <1>1, WalletInvariant, PTL

\* A coin that the wallet offers is an output of a valid listed transaction and
\* no valid listed transaction spends it.
THEOREM CoinsAreSpendable == Spec => []CoinsSpendable
<1>1. WalletInv => CoinsSpendable
  BY DEF WalletInv, BalanceInv
<1> QED
  BY <1>1, WalletInvariant, PTL

\* No coin is lost: while the wallet exists one leaves utxos only when a listed
\* transaction that is not invalid spends it, when its own transaction is removed,
\* or when that is unconfirmed and turns out to be invalid or pending.
THEOREM NoCoinLost == Spec => CoinsLeaveWhenSpent
<1>1. WalletInv /\ [Next]_vars => [phase' # "loading" => CoinsStay]_vars
  BY CoinsStep DEF WalletInv
<1>2. WalletInv /\ [Next]_vars =>
        [phase' # "loading" =>
            \A o \in utxos \ utxos' :
                \/ \E t \in Listed' \ invalidTx' : o \in Inputs[t]
                \/ TxOf[o] \notin Listed'
                \/ TxOf[o] \in (invalidTx \cup pendingTx)' /\ height'[TxOf[o]] = TX_UNCONFIRMED]_vars
  BY <1>1 DEF CoinsStay
<1> QED
  BY <1>2, WalletInvariant, PTL DEF Spec, CoinsLeaveWhenSpent
=============================================================================
