----------------------------- MODULE HashSetProofs -----------------------------
(* Proofs about HashSet: its types, that probing ends, and that it implements  *)
(* KeyedSet, for any keys, any hash function and any of the table sizes.       *)
EXTENDS HashSet, FiniteSetTheorems, WellFoundedInduction, TLAPS

-----------------------------------------------------------------------------
(* Numbers and loops.                                                       *)

LEMMA LeastExists ==
    ASSUME NEW T \in SUBSET Nat, T # {}
    PROVE  \E x \in T : \A y \in T : x <= y
<1>1. PICK x \in T : \A y \in T : ~ (<<y, x>> \in OpToRel(<, Nat))
  BY NatLessThanWellFounded, WFMin
<1>2. ASSUME NEW y \in T, y < x PROVE FALSE
  <2>1. <<y, x>> \in Nat \X Nat /\ <<y, x>>[1] < <<y, x>>[2]
    BY <1>2
  <2>2. <<y, x>> \in OpToRel(<, Nat)
    BY <2>1 DEF OpToRel
  <2> QED BY <1>1, <2>2
<1> QED BY <1>2

\* What holds of 0 and is handed on holds up to N.
LEMMA Reaches ==
    ASSUME NEW N \in Nat, NEW T \in SUBSET (0 .. N), 0 \in T,
           \A n \in 1 .. N : n - 1 \in T => n \in T
    PROVE  T = 0 .. N
<1> SUFFICES ASSUME (0 .. N) \ T # {} PROVE FALSE
  OBVIOUS
<1>1. (0 .. N) \ T \in SUBSET Nat
  OBVIOUS
<1>2. PICK x \in (0 .. N) \ T : \A y \in (0 .. N) \ T : x <= y
  BY <1>1, LeastExists
<1>3. x \in 1 .. N /\ x - 1 \in 0 .. N /\ ~ (x <= x - 1)
  BY <1>2
<1> QED BY <1>2, <1>3

Iterated(f, G, a, N) == f[0] = a /\ \A n \in 1 .. N : f[n] = G[<<n, f[n - 1]>>]

Kept(J, G, S, a, N) ==
    /\ J \in SUBSET ((0 .. N) \X S)
    /\ <<0, a>> \in J
    /\ \A n \in 1 .. N : \A r \in S : <<n - 1, r>> \in J => <<n, G[<<n, r>>]>> \in J

\* A function defined by recursion on numbers up to N exists, if the steps preserve what J says
\* of a number and a value.
LEMMA Iterates ==
    ASSUME NEW S, NEW a \in S, NEW N \in Nat, NEW G, NEW J, Kept(J, G, S, a, N)
    PROVE  \E f \in [0 .. N -> S] : Iterated(f, G, a, N)
<1>0. J \in SUBSET ((0 .. N) \X S) /\ <<0, a>> \in J
  BY DEF Kept
<1>00. \A n \in 1 .. N : \A r \in S : <<n - 1, r>> \in J => <<n, G[<<n, r>>]>> \in J
  BY DEF Kept
<1> DEFINE Up(n, f) == /\ f[0] = a
                       /\ \A k \in 1 .. n : f[k] = G[<<k, f[k - 1]>>]
                       /\ <<n, f[n]>> \in J
           T == {n \in 0 .. N : \E f \in [0 .. n -> S] : Up(n, f)}
<1>1. 0 \in T
  <2> DEFINE g == [i \in 0 .. 0 |-> a]
  <2>1. g \in [0 .. 0 -> S] /\ g[0] = a
    OBVIOUS
  <2> HIDE DEF g
  <2>2. Up(0, g)
    BY <1>0, <2>1
  <2> QED BY <2>1, <2>2
<1>2. ASSUME NEW n \in 1 .. N, n - 1 \in T PROVE n \in T
  <2>0. n \in 0 .. N /\ n - 1 \in 0 .. n - 1
    OBVIOUS
  <2>1. PICK f \in [0 .. n - 1 -> S] : Up(n - 1, f)
    BY <1>2
  <2> DEFINE g == [i \in 0 .. n |-> IF i = n THEN G[<<n, f[n - 1]>>] ELSE f[i]]
  <2>2. f[n - 1] \in S /\ <<n, G[<<n, f[n - 1]>>]>> \in J
    BY <1>00, <2>0, <2>1
  <2>3. g \in [0 .. n -> S] /\ <<n, g[n]>> \in J
    <3>1. G[<<n, f[n - 1]>>] \in S
      BY <1>0, <2>2
    <3>2. ASSUME NEW i \in 0 .. n, i # n PROVE f[i] \in S
      <4>1. i \in 0 .. n - 1
        BY <3>2
      <4> QED BY <4>1
    <3>3. g \in [0 .. n -> S] /\ g[n] = G[<<n, f[n - 1]>>]
      BY <2>0, <3>1, <3>2
    <3> QED BY <2>2, <3>3
  <2>4. g[0] = a
    BY <2>1
  <2>5. ASSUME NEW k \in 1 .. n PROVE g[k] = G[<<k, g[k - 1]>>]
    <3>1. k - 1 \in 0 .. n /\ k - 1 # n /\ g[k - 1] = f[k - 1]
      OBVIOUS
    <3>2. CASE k = n
      BY <3>1, <3>2
    <3>3. CASE k # n
      <4>1. k \in 1 .. n - 1 /\ g[k] = f[k]
        BY <3>3
      <4> QED BY <2>1, <3>1, <4>1
    <3> QED BY <3>2, <3>3
  <2> HIDE DEF g
  <2>6. Up(n, g)
    BY <2>3, <2>4, <2>5
  <2> QED BY <2>0, <2>3, <2>6
<1> HIDE DEF T
<1>3. T = 0 .. N
  <2>1. T \in SUBSET (0 .. N)
    BY DEF T
  <2> QED BY <1>1, <1>2, <2>1, Reaches
<1>4. N \in T
  BY <1>3
<1>5. PICK f \in [0 .. N -> S] : Up(N, f)
  BY <1>4 DEF T
<1> QED BY <1>5 DEF Iterated

-----------------------------------------------------------------------------
(* Sizes.                                                                   *)

Last == Len(tableSizes)

LEMMA SizesFacts ==
    /\ Last = 49 /\ DOMAIN tableSizes = 1 .. Last
    /\ \A i \in 1 .. Last : tableSizes[i] \in Nat
    /\ \A i \in 2 .. Last : tableSizes[i] = 3 \/ tableSizes[i] >= 7
    /\ \A i \in 1 .. Last - 1 : tableSizes[i] < tableSizes[i + 1]
    /\ \A i \in 2 .. Last - 1 : tableSizes[i] + 3 <= tableSizes[i + 1]
<1>1. Last = 49 /\ DOMAIN tableSizes = 1 .. 49
  BY DEF tableSizes, Last
<1>2. \A i \in 1 .. 49 : tableSizes[i] \in Nat
  BY DEF tableSizes
<1>3. \A i \in 2 .. 49 : tableSizes[i] = 3 \/ tableSizes[i] >= 7
  BY DEF tableSizes
<1>4. \A i \in 1 .. 48 : tableSizes[i] < tableSizes[i + 1]
  BY DEF tableSizes
<1>5. \A i \in 2 .. 48 : tableSizes[i] + 3 <= tableSizes[i + 1]
  BY DEF tableSizes
<1> QED BY <1>1, <1>2, <1>3, <1>4, <1>5

LEMMA SizesGrow ==
    ASSUME NEW j \in 1 .. Last, NEW i \in 1 .. j
    PROVE  tableSizes[i] <= tableSizes[j] /\ (i < j => tableSizes[i] < tableSizes[j])
<1> DEFINE T == {n \in 0 .. Last - i : tableSizes[i] <= tableSizes[i + n] /\ (0 < n => tableSizes[i] < tableSizes[i + n])}
<1>0. Last = 49 /\ i \in 1 .. Last /\ Last - i \in Nat
  BY SizesFacts
<1>1. 0 \in T
  BY <1>0, SizesFacts
<1>2. ASSUME NEW n \in 1 .. Last - i, n - 1 \in T PROVE n \in T
  <2>1. i + (n - 1) \in 1 .. Last - 1 /\ i + (n - 1) + 1 = i + n /\ n \in 0 .. Last - i
    BY <1>0
  <2>2. tableSizes[i + (n - 1)] < tableSizes[i + n] /\ tableSizes[i] <= tableSizes[i + (n - 1)]
    BY <1>2, <2>1, SizesFacts
  <2>3. tableSizes[i] \in Nat /\ tableSizes[i + n] \in Nat /\ tableSizes[i + (n - 1)] \in Nat
    BY <1>0, <2>1, SizesFacts
  <2> QED BY <2>1, <2>2, <2>3
<1>3. T = 0 .. Last - i
  <2>1. T \in SUBSET (0 .. Last - i)
    OBVIOUS
  <2> HIDE DEF T
  <2> QED BY <1>0, <1>1, <1>2, <2>1, Reaches
<1>4. j - i \in T /\ i + (j - i) = j
  BY <1>0, <1>3
<1> QED BY <1>4

LEMMA LimitFacts ==
    ASSUME NEW m \in Nat
    PROVE  /\ Limit(m) \in Nat
           /\ m = 3 \/ m >= 7 => Limit(m) < m
           /\ \A n \in Nat : m + 3 <= n => Limit(m) + 1 <= Limit(n)
<1> DEFINE q == (m + 2) \div 3
<1>1. q \in Nat /\ 3 * q <= m + 2
  OBVIOUS
<1>2. Limit(m) = q * 2
  BY DEF Limit
<1>3. ASSUME NEW n \in Nat, m + 3 <= n PROVE Limit(m) + 1 <= Limit(n)
  <2> DEFINE p == (n + 2) \div 3
  <2>1. p \in Nat /\ n + 2 < 3 * p + 3
    OBVIOUS
  <2>2. Limit(n) = p * 2
    BY DEF Limit
  <2> HIDE DEF p, q
  <2> QED BY <1>1, <1>2, <1>3, <2>1, <2>2
<1> HIDE DEF q
<1> QED BY <1>1, <1>2, <1>3

\* A new table is the next larger one.
LEMMA NewFacts ==
    ASSUME NEW c \in Nat, c <= tableSizes[Last - 1]
    PROVE  \E i \in 1 .. Last - 1 :
               /\ New(c) = [size |-> tableSizes[i + 1], itemCount |-> 0,
                            table |-> [b \in 0 .. tableSizes[i + 1] - 1 |-> NoItem]]
               /\ \A j \in 1 .. Last - 1 : c = tableSizes[j] => i = j
<1> DEFINE First1(j) == tableSizes[j] >= c /\ \A k \in 1 .. j - 1 : tableSizes[k] < c
           i == CHOOSE j \in DOMAIN tableSizes : First1(j)
           T == {j \in 1 .. Last : tableSizes[j] >= c}
<1>0. Last = 49 /\ DOMAIN tableSizes = 1 .. Last /\ \A j \in 1 .. Last : tableSizes[j] \in Nat
  BY SizesFacts
<1>1. T \in SUBSET Nat /\ Last - 1 \in T
  BY <1>0
<1>2. PICK x \in T : \A y \in T : x <= y
  BY <1>1, LeastExists
<1>3. First1(x)
  <2>1. ASSUME NEW k \in 1 .. x - 1 PROVE tableSizes[k] < c
    <3>1. k \in 1 .. Last /\ ~ (x <= k)
      BY <1>0, <1>2
    <3> QED BY <1>0, <1>2, <3>1
  <2> QED BY <1>2, <2>1
<1>4. i \in 1 .. Last /\ First1(i)
  BY <1>0, <1>2, <1>3
<1>5. New(c) = [size |-> tableSizes[i + 1], itemCount |-> 0,
                table |-> [b \in 0 .. tableSizes[i + 1] - 1 |-> NoItem]]
  BY DEF New
<1> HIDE DEF i, T
<1>6. i \in 1 .. Last - 1
  <2>1. ~ (Last - 1 \in 1 .. i - 1)
    BY <1>0, <1>4
  <2> QED BY <1>0, <1>4, <2>1
<1>7. ASSUME NEW j \in 1 .. Last - 1, c = tableSizes[j] PROVE i = j
  <2>1. ~ (j \in 1 .. i - 1)
    BY <1>0, <1>4, <1>7
  <2>2. i < j => tableSizes[i] < tableSizes[j]
    <3> SUFFICES ASSUME i < j PROVE tableSizes[i] < tableSizes[j]
      OBVIOUS
    <3>1. j \in 1 .. Last /\ i \in 1 .. j
      BY <1>0, <1>6
    <3> QED BY <3>1, SizesGrow
  <2> QED BY <1>0, <1>4, <1>6, <1>7, <2>1, <2>2
<1> QED BY <1>5, <1>6, <1>7

-----------------------------------------------------------------------------
(* The buckets of a table of m buckets: Steps(i, j, m) is how many buckets     *)
(* after i probing reaches j, On(i, d, m) the bucket d steps after i.          *)

Steps(i, j, m) == IF i <= j THEN j - i ELSE j - i + m
On(i, d, m)    == (i + d) % m

LEMMA ModFacts ==
    ASSUME NEW m \in Nat \ {0}
    PROVE  /\ \A x \in Nat : x % m \in 0 .. m - 1
           /\ \A x \in 0 .. m - 1 : x % m = x
           /\ \A x \in m .. 2 * m - 1 : x % m = x - m
<1>1. ASSUME NEW x \in Nat PROVE x % m \in 0 .. m - 1
  OBVIOUS
<1>2. ASSUME NEW x \in 0 .. m - 1 PROVE x % m = x
  OBVIOUS
<1>3. ASSUME NEW x \in m .. 2 * m - 1 PROVE x % m = x - m
  OBVIOUS
<1> QED BY <1>1, <1>2, <1>3

LEMMA StepsFacts ==
    ASSUME NEW m \in Nat \ {0}, NEW i \in 0 .. m - 1
    PROVE  /\ \A j \in 0 .. m - 1 : /\ Steps(i, j, m) \in 0 .. m - 1
                                    /\ (i + Steps(i, j, m)) % m = j
                                    /\ Steps(i, j, m) = 0 <=> i = j
           /\ \A d \in 0 .. m - 1 : /\ (i + d) % m \in 0 .. m - 1
                                    /\ Steps(i, (i + d) % m, m) = d
           /\ \A j, k \in 0 .. m - 1 : Steps(i, j, m) = Steps(i, k, m) => j = k
<1>1. ASSUME NEW j \in 0 .. m - 1
      PROVE  /\ Steps(i, j, m) \in 0 .. m - 1
             /\ (i + Steps(i, j, m)) % m = j
             /\ Steps(i, j, m) = 0 <=> i = j
  <2>1. CASE i <= j
    <3>1. Steps(i, j, m) = j - i /\ i + (j - i) = j
      BY <2>1 DEF Steps
    <3> QED BY <2>1, <3>1, ModFacts
  <2>2. CASE ~ (i <= j)
    <3>1. Steps(i, j, m) = j - i + m /\ i + (j - i + m) = j + m
      BY <2>2 DEF Steps
    <3>2. j + m \in m .. 2 * m - 1 /\ j + m - m = j
      OBVIOUS
    <3>3. (j + m) % m = j
      BY <3>2, ModFacts
    <3> QED BY <2>2, <3>1, <3>3
  <2> QED BY <2>1, <2>2
<1>2. ASSUME NEW d \in 0 .. m - 1 PROVE (i + d) % m \in 0 .. m - 1 /\ Steps(i, (i + d) % m, m) = d
  <2>1. CASE i + d < m
    <3>1. i + d \in 0 .. m - 1
      BY <2>1
    <3>2. (i + d) % m = i + d
      BY <3>1, ModFacts
    <3> QED BY <3>1, <3>2 DEF Steps
  <2>2. CASE ~ (i + d < m)
    <3>1. i + d - m \in 0 .. m - 1 /\ ~ (i <= i + d - m)
      BY <2>2
    <3>2. (i + d) % m = i + d - m
      <4> DEFINE x == i + d
      <4>1. x \in m .. 2 * m - 1
        BY <2>2
      <4> HIDE DEF x
      <4>2. x % m = x - m
        BY <4>1, ModFacts
      <4> QED BY <4>2 DEF x
    <3> QED BY <3>1, <3>2 DEF Steps
  <2> QED BY <2>1, <2>2
<1>3. ASSUME NEW j \in 0 .. m - 1, NEW k \in 0 .. m - 1, Steps(i, j, m) = Steps(i, k, m) PROVE j = k
  BY <1>1, <1>3
<1> QED BY <1>1, <1>2, <1>3

\* The steps from i to j, counted from another bucket z.
LEMMA StepsVia ==
    ASSUME NEW m \in Nat \ {0}, NEW z \in 0 .. m - 1, NEW i \in 0 .. m - 1, NEW j \in 0 .. m - 1
    PROVE  Steps(i, j, m) = IF Steps(z, i, m) <= Steps(z, j, m) THEN Steps(z, j, m) - Steps(z, i, m)
                            ELSE Steps(z, j, m) - Steps(z, i, m) + m
<1>1. CASE z <= i /\ z <= j
  BY <1>1 DEF Steps
<1>2. CASE z <= i /\ ~ (z <= j)
  BY <1>2 DEF Steps
<1>3. CASE ~ (z <= i) /\ z <= j
  BY <1>3 DEF Steps
<1>4. CASE ~ (z <= i) /\ ~ (z <= j)
  BY <1>4 DEF Steps
<1> QED BY <1>1, <1>2, <1>3, <1>4

-----------------------------------------------------------------------------
(* Tables.                                                                  *)

Sets(m) == [size : {m}, table : [0 .. m - 1 -> Items \union {NoItem}], itemCount : Int]

IsHash(h) == h \in [Keys -> Hashes]

Home(h, key, m) == h[key] % m

\* no two buckets hold equal items
Unique(T) == \A i, j \in DOMAIN T : T[i] # NoItem /\ T[j] # NoItem /\ T[i].key = T[j].key => i = j

\* no bucket is empty where probing for an item of the table passes
Reached(h, T, m) ==
    \A i, j \in 0 .. m - 1 :
        T[i] # NoItem /\ Steps(Home(h, T[i].key, m), j, m) < Steps(Home(h, T[i].key, m), i, m) => T[j] # NoItem

Sound(h, s, m) ==
    /\ s \in Sets(m)
    /\ Unique(s.table)
    /\ Reached(h, s.table, m)
    /\ s.itemCount = Cardinality(All(s))

LEMMA ItemFacts ==
    /\ NoItem \notin Items
    /\ \A t \in Items : t.key \in Keys /\ t # NoItem
    /\ \A k \in Keys : k # NoItem.key
<1>1. NoItem.key \notin Keys
  BY HashSetAssumption
<1> QED BY <1>1 DEF Items

LEMMA HomeFacts ==
    ASSUME NEW h, IsHash(h), NEW m \in Nat \ {0}, NEW k \in Keys
    PROVE  Home(h, k, m) \in 0 .. m - 1
<1>1. h[k] \in Nat
  BY HashSetAssumption DEF IsHash
<1> QED BY <1>1, ModFacts DEF Home

LEMMA AllFacts ==
    ASSUME NEW m \in Nat, NEW s \in Sets(m)
    PROVE  /\ s.size = m /\ DOMAIN s.table = 0 .. m - 1 /\ s.itemCount \in Int
           /\ \A i \in 0 .. m - 1 : s.table[i] = NoItem \/ (s.table[i] \in Items /\ s.table[i].key \in Keys)
           /\ All(s) \subseteq Items
           /\ \A t : t \in All(s) <=> \E i \in 0 .. m - 1 : s.table[i] = t /\ t # NoItem
           /\ IsFiniteSet(All(s)) /\ Cardinality(All(s)) \in Nat
<1>1. s.size = m /\ s.table \in [0 .. m - 1 -> Items \union {NoItem}] /\ s.itemCount \in Int
  BY DEF Sets
<1>2. DOMAIN s.table = 0 .. m - 1
  BY <1>1
<1>3. \A i \in 0 .. m - 1 : s.table[i] = NoItem \/ (s.table[i] \in Items /\ s.table[i].key \in Keys)
  BY <1>1, ItemFacts
<1>4. \A t : t \in All(s) <=> \E i \in 0 .. m - 1 : s.table[i] = t /\ t # NoItem
  BY <1>2 DEF All
<1>5. IsFiniteSet(All(s)) /\ Cardinality(All(s)) \in Nat
  <2> DEFINE T == {s.table[i] : i \in 0 .. m - 1}
             f == [i \in 0 .. m - 1 |-> s.table[i]]
  <2>1. IsFiniteSet(0 .. m - 1)
    BY FS_Interval
  <2>2. IsFiniteSet(T)
    <3>1. f \in [0 .. m - 1 -> T] /\ \A t \in T : \E i \in 0 .. m - 1 : f[i] = t
      OBVIOUS
    <3> HIDE DEF f, T
    <3>2. f \in Surjection(0 .. m - 1, T)
      BY <3>1 DEF Surjection
    <3> QED BY <2>1, <3>2, FS_Surjection
  <2>3. All(s) = T \ {NoItem}
    BY <1>2 DEF All
  <2> HIDE DEF T
  <2>4. IsFiniteSet(All(s))
    BY <2>2, <2>3, FS_RemoveElement
  <2> QED BY <2>4, FS_CardinalityType
<1> QED BY <1>1, <1>2, <1>3, <1>4, <1>5

\* A table with fewer items than buckets has an empty bucket.
LEMMA Room ==
    ASSUME NEW m \in Nat \ {0}, NEW s \in Sets(m), Unique(s.table), Cardinality(All(s)) < m
    PROVE  \E z \in 0 .. m - 1 : s.table[z] = NoItem
<1> SUFFICES ASSUME \A z \in 0 .. m - 1 : s.table[z] # NoItem PROVE FALSE
  OBVIOUS
<1> DEFINE f == [i \in 0 .. m - 1 |-> s.table[i]]
<1>1. f \in [0 .. m - 1 -> All(s)]
  BY AllFacts
<1>2. \A i, j \in 0 .. m - 1 : f[i] = f[j] => i = j
  BY AllFacts DEF Unique
<1> HIDE DEF f
<1>3. f \in Injection(0 .. m - 1, All(s))
  BY <1>1, <1>2 DEF Injection, IsInjective
<1>4. Cardinality(0 .. m - 1) <= Cardinality(All(s))
  BY <1>3, AllFacts, FS_Injection
<1>5. Cardinality(0 .. m - 1) = m
  BY FS_Interval
<1> QED BY <1>4, <1>5, AllFacts

\* There are not more items than keys.
LEMMA NotMoreThanKeys ==
    ASSUME NEW m \in Nat, NEW s \in Sets(m), Unique(s.table)
    PROVE  Cardinality(All(s)) <= Cardinality(Keys)
<1> DEFINE f == [t \in All(s) |-> t.key]
<1>1. f \in [All(s) -> Keys]
  BY AllFacts, ItemFacts
<1>2. ASSUME NEW t \in All(s), NEW u \in All(s), f[t] = f[u] PROVE t = u
  <2>1. PICK i \in 0 .. m - 1 : s.table[i] = t /\ t # NoItem
    BY AllFacts
  <2>2. PICK j \in 0 .. m - 1 : s.table[j] = u /\ u # NoItem
    BY AllFacts
  <2>3. t.key = u.key
    BY <1>2
  <2>4. i = j
    BY <2>1, <2>2, <2>3, AllFacts DEF Unique
  <2> QED BY <2>1, <2>2, <2>4
<1> HIDE DEF f
<1>3. f \in Injection(All(s), Keys)
  BY <1>1, <1>2 DEF Injection, IsInjective
<1> QED BY <1>3, HashSetAssumption, FS_Injection

\* The number of items is that of the buckets in use.
LEMMA CountIs ==
    ASSUME NEW m \in Nat, NEW s \in Sets(m), Unique(s.table)
    PROVE  Cardinality({i \in DOMAIN s.table : s.table[i] # NoItem}) = Cardinality(All(s))
<1> DEFINE U == {i \in DOMAIN s.table : s.table[i] # NoItem}
           f == [i \in U |-> s.table[i]]
<1>0. U \subseteq 0 .. m - 1 /\ \A i \in U : s.table[i] # NoItem /\ f[i] = s.table[i]
  BY AllFacts
<1>1. f \in [U -> All(s)]
  BY <1>0, AllFacts
<1>2. \A i, j \in U : f[i] = f[j] => i = j
  BY <1>0 DEF Unique
<1>3. ASSUME NEW t \in All(s) PROVE \E i \in U : f[i] = t
  <2>1. PICK i \in 0 .. m - 1 : s.table[i] = t /\ t # NoItem
    BY AllFacts
  <2>2. i \in U
    BY <2>1, AllFacts
  <2> QED BY <2>1, <2>2
<1>4. IsFiniteSet(U)
  <2>1. IsFiniteSet(0 .. m - 1)
    BY FS_Interval
  <2> HIDE DEF U
  <2> QED BY <1>0, <2>1, FS_Subset
<1> HIDE DEF f, U
<1>5. f \in Bijection(U, All(s))
  BY <1>1, <1>2, <1>3 DEF Bijection, Injection, Surjection, IsInjective
<1>6. ExistsBijection(U, All(s))
  BY <1>5 DEF ExistsBijection
<1>7. Cardinality(All(s)) = Cardinality(U)
  BY <1>4, <1>6, FS_Bijection
<1> QED BY <1>7 DEF U
\* The same facts one by one.
LEMMA StepsTo ==
    ASSUME NEW m \in Nat \ {0}, NEW i \in 0 .. m - 1, NEW j \in 0 .. m - 1
    PROVE  /\ Steps(i, j, m) \in 0 .. m - 1
           /\ On(i, Steps(i, j, m), m) = j
           /\ Steps(i, j, m) = 0 <=> i = j
<1> QED BY StepsFacts DEF On

LEMMA StepsOn ==
    ASSUME NEW m \in Nat \ {0}, NEW i \in 0 .. m - 1, NEW d \in 0 .. m - 1
    PROVE  On(i, d, m) \in 0 .. m - 1 /\ Steps(i, On(i, d, m), m) = d
<1> QED BY StepsFacts DEF On

LEMMA Positions ==
    ASSUME NEW m \in Nat \ {0}, NEW z \in 0 .. m - 1
    PROVE  /\ Steps(z, z, m) = 0
           /\ \A i \in 0 .. m - 1 : Steps(z, i, m) \in 0 .. m - 1
           /\ \A i, j \in 0 .. m - 1 : Steps(z, i, m) = Steps(z, j, m) => i = j
<1> QED BY StepsFacts

-----------------------------------------------------------------------------
(* Probing.                                                                 *)

\* Where a bucket is empty, probing ends: at an empty bucket or at the item's equal, after buckets
\* that hold other items.
LEMMA BucketFacts ==
    ASSUME IsHash(hash), NEW m \in Nat \ {0}, NEW s \in Sets(m),
           NEW z \in 0 .. m - 1, s.table[z] = NoItem, NEW item, item.key \in Keys
    PROVE  LET a == Home(hash, item.key, m)
               b == Bucket(s, item)
           IN  /\ b \in 0 .. m - 1
               /\ s.table[b] = NoItem \/ s.table[b].key = item.key
               /\ \A j \in 0 .. m - 1 :
                      Steps(a, j, m) < Steps(a, b, m) => s.table[j] # NoItem /\ s.table[j].key # item.key
<1>3. PICK a \in 0 .. m - 1 : a = Home(hash, item.key, m)
  BY HomeFacts
<1> DEFINE b       == Bucket(s, item)
           at(d)   == On(a, d, m)
           ends(d) == s.table[at(d)] = NoItem \/ s.table[at(d)].key = item.key
           first(d) == ends(d) /\ \A e \in 0 .. d - 1 : ~ ends(e)
           D       == {d \in 0 .. m - 1 : ends(d)}
           c       == CHOOSE d \in 0 .. m - 1 : first(d)
<1>1. s.size = m
  BY AllFacts
<1>2. b = at(c)
  BY <1>1, <1>3 DEF Bucket, After, First, Home, On
<1> HIDE DEF b
<1>4. Steps(a, z, m) \in D
  <2> HIDE DEF c, D
  <2>0. Steps(a, z, m) \in 0 .. m - 1 /\ On(a, Steps(a, z, m), m) = z
    <3>1. m \in Nat \ {0} /\ a \in 0 .. m - 1 /\ z \in 0 .. m - 1
      OBVIOUS
    <3> QED BY ONLY <3>1, StepsTo
  <2>1. at(Steps(a, z, m)) = z
    BY <2>0
  <2> USE DEF D
  <2> HIDE DEF at
  <2>2. ends(Steps(a, z, m))
    BY <2>1
  <2> QED BY <2>0, <2>2
<1>5. PICK x \in D : \A y \in D : x <= y
  <2>1. D \in SUBSET Nat
    OBVIOUS
  <2> HIDE DEF D
  <2> QED BY <1>4, <2>1, LeastExists
<1>6. first(x)
  <2>1. ASSUME NEW e \in 0 .. x - 1, ends(e) PROVE FALSE
    <3>1. e \in 0 .. m - 1 /\ ~ (x <= e)
      BY <1>5
    <3>2. e \in D
      BY <2>1, <3>1
    <3> QED BY <1>5, <3>1, <3>2
  <2>2. x \in 0 .. m - 1 /\ ends(x)
    BY <1>5
  <2> HIDE DEF ends
  <2> QED BY <2>1, <2>2
<1>7. c \in 0 .. m - 1 /\ first(c)
  <2>1. x \in 0 .. m - 1
    BY <1>5
  <2> HIDE DEF first
  <2> QED BY <1>6, <2>1
<1> HIDE DEF c
<1>8. b \in 0 .. m - 1 /\ Steps(a, b, m) = c
  <2>1. c \in 0 .. m - 1
    BY <1>7
  <2>2. On(a, c, m) \in 0 .. m - 1 /\ Steps(a, On(a, c, m), m) = c
    BY <2>1, StepsOn
  <2>3. b = On(a, c, m)
    BY <1>2
  <2> QED BY <2>2, <2>3
<1>9. ASSUME NEW j \in 0 .. m - 1, Steps(a, j, m) < Steps(a, b, m)
      PROVE  s.table[j] # NoItem /\ s.table[j].key # item.key
  <2>1. Steps(a, j, m) \in 0 .. c - 1 /\ at(Steps(a, j, m)) = j
    BY <1>7, <1>8, <1>9, StepsTo
  <2>2. ~ ends(Steps(a, j, m))
    BY <1>7, <2>1
  <2> QED BY <2>1, <2>2
<1> QED BY <1>2, <1>3, <1>7, <1>8, <1>9 DEF b

\* In a sound table with an empty bucket it ends at the item's equal if there is one.
LEMMA BucketIs ==
    ASSUME IsHash(hash), NEW m \in Nat \ {0}, NEW s \in Sets(m),
           Unique(s.table), Reached(hash, s.table, m),
           NEW z \in 0 .. m - 1, s.table[z] = NoItem, NEW item, item.key \in Keys,
           NEW i \in 0 .. m - 1, s.table[i] # NoItem, s.table[i].key = item.key
    PROVE  Bucket(s, item) = i
<1> DEFINE a == Home(hash, item.key, m)
           b == Bucket(s, item)
<1>1. /\ b \in 0 .. m - 1
      /\ s.table[b] = NoItem \/ s.table[b].key = item.key
      /\ \A j \in 0 .. m - 1 : Steps(a, j, m) < Steps(a, b, m) => s.table[j] # NoItem /\ s.table[j].key # item.key
  BY BucketFacts
<1>2. a \in 0 .. m - 1
  BY HomeFacts
<1>3. ASSUME s.table[b] = NoItem PROVE FALSE
  <2>1. ~ (Steps(a, b, m) < Steps(a, i, m))
    BY <1>1, <1>3 DEF Reached
  <2>2. ~ (Steps(a, i, m) < Steps(a, b, m))
    BY <1>1
  <2>3. Steps(a, i, m) = Steps(a, b, m)
    <3>1. b \in 0 .. m - 1
      BY <1>1
    <3>2. Steps(a, i, m) \in Int /\ Steps(a, b, m) \in Int
      BY <1>2, <3>1 DEF Steps
    <3> HIDE DEF a, b
    <3> QED BY <2>1, <2>2, <3>2
  <2>4. i = b
    BY <1>1, <1>2, <2>3, StepsFacts
  <2> QED BY <1>3, <2>4
<1>4. DOMAIN s.table = 0 .. m - 1
  BY AllFacts
<1> QED BY <1>1, <1>3, <1>4 DEF Unique

\* What Put changes.
LEMMA PutIs ==
    ASSUME NEW m \in Nat \ {0}, NEW s \in Sets(m), NEW item \in Items, Bucket(s, item) \in 0 .. m - 1
    PROVE  /\ Put(s, item) \in Sets(m)
           /\ Put(s, item).table = [s.table EXCEPT ![Bucket(s, item)] = item]
           /\ Put(s, item).itemCount =
                  IF s.table[Bucket(s, item)] = NoItem THEN s.itemCount + 1 ELSE s.itemCount
<1> DEFINE b == Bucket(s, item)
           n == IF s.table[b] = NoItem THEN s.itemCount + 1 ELSE s.itemCount
<1>1. Put(s, item) = [s EXCEPT !.table[b] = item, !.itemCount = n]
  BY DEF Put, Find
<1>2. b \in 0 .. m - 1 /\ n \in Int
  BY DEF Sets
<1> HIDE DEF b, n
<1>3. s \in [size : {m}, table : [0 .. m - 1 -> Items \union {NoItem}], itemCount : Int]
  BY DEF Sets
<1>4. Put(s, item) \in [size : {m}, table : [0 .. m - 1 -> Items \union {NoItem}], itemCount : Int]
  BY <1>1, <1>2, <1>3
<1>5. Put(s, item).table = [s.table EXCEPT ![b] = item] /\ Put(s, item).itemCount = n
  BY <1>1, <1>2, <1>3
<1> QED BY <1>4, <1>5 DEF b, n, Sets

\* A sound table with room stays sound, loses the item's equal and gets the item.
LEMMA PutFacts ==
    ASSUME IsHash(hash), NEW m \in Nat \ {0}, NEW s, Sound(hash, s, m), Cardinality(All(s)) < m,
           NEW item \in Items
    PROVE  /\ Sound(hash, Put(s, item), m)
           /\ All(Put(s, item)) = {t \in All(s) : t.key # item.key} \union {item}
           /\ Cardinality(All(Put(s, item))) <= Cardinality(All(s)) + 1
<1> DEFINE a == Home(hash, item.key, m)
           b == Bucket(s, item)
           T == s.table
           P == Put(s, item)
<1>1. s \in Sets(m) /\ Unique(T) /\ Reached(hash, T, m) /\ s.itemCount = Cardinality(All(s))
  BY DEF Sound
<1>2. PICK z \in 0 .. m - 1 : T[z] = NoItem
  BY <1>1, Room
<1>3. item.key \in Keys /\ item # NoItem
  BY ItemFacts
<1>4. /\ b \in 0 .. m - 1
      /\ T[b] = NoItem \/ T[b].key = item.key
      /\ \A j \in 0 .. m - 1 : Steps(a, j, m) < Steps(a, b, m) => T[j] # NoItem /\ T[j].key # item.key
  BY <1>1, <1>2, <1>3, BucketFacts
<1>5. ASSUME NEW i \in 0 .. m - 1, T[i] # NoItem, T[i].key = item.key PROVE b = i
  BY <1>1, <1>2, <1>3, <1>5, BucketIs
<1>6. /\ P \in Sets(m)
      /\ P.table = [T EXCEPT ![b] = item]
      /\ P.itemCount = IF T[b] = NoItem THEN s.itemCount + 1 ELSE s.itemCount
  BY <1>1, <1>4, PutIs
<1>7. DOMAIN T = 0 .. m - 1
  BY <1>1, AllFacts
<1> HIDE DEF a, b, T, P
<1>8. P.table[b] = item /\ \A i \in 0 .. m - 1 : i # b => P.table[i] = T[i]
  BY <1>4, <1>6, <1>7
<1>9. DOMAIN P.table = 0 .. m - 1
  BY <1>6, AllFacts
<1>10. Unique(P.table)
  <2> SUFFICES ASSUME NEW i \in 0 .. m - 1, NEW j \in 0 .. m - 1,
                      P.table[i] # NoItem, P.table[j] # NoItem, P.table[i].key = P.table[j].key
               PROVE  i = j
    BY <1>9 DEF Unique
  <2>1. CASE i = b
    BY <1>5, <1>8, <2>1
  <2>2. CASE j = b
    BY <1>5, <1>8, <2>2
  <2>3. CASE i # b /\ j # b
    BY <1>1, <1>7, <1>8, <2>3 DEF Unique
  <2> QED BY <2>1, <2>2, <2>3
<1>11. Reached(hash, P.table, m)
  <2> SUFFICES ASSUME NEW i \in 0 .. m - 1, NEW j \in 0 .. m - 1, P.table[i] # NoItem,
                      Steps(Home(hash, P.table[i].key, m), j, m) < Steps(Home(hash, P.table[i].key, m), i, m)
               PROVE  P.table[j] # NoItem
    BY DEF Reached
  <2>1. CASE j = b
    BY <1>3, <1>8, <2>1
  <2>2. CASE j # b /\ i = b
    BY <1>4, <1>8, <2>2 DEF a
  <2>3. CASE j # b /\ i # b
    BY <1>1, <1>8, <2>3 DEF Reached
  <2> QED BY <2>1, <2>2, <2>3
<1>12. All(P) = {t \in All(s) : t.key # item.key} \union {item}
  <2>1. \A t : t \in All(s) <=> \E i \in 0 .. m - 1 : T[i] = t /\ t # NoItem
    BY <1>1, AllFacts DEF T
  <2>2. \A t : t \in All(P) <=> \E i \in 0 .. m - 1 : P.table[i] = t /\ t # NoItem
    BY <1>6, AllFacts
  <2>3. ASSUME NEW t \in All(P) PROVE t = item \/ (t \in All(s) /\ t.key # item.key)
    <3>1. PICK i \in 0 .. m - 1 : P.table[i] = t /\ t # NoItem
      BY <2>2
    <3>2. CASE i = b
      BY <1>8, <3>1, <3>2
    <3>3. CASE i # b
      <4>1. T[i] = t
        BY <1>8, <3>1, <3>3
      <4> QED BY <1>5, <2>1, <3>1, <3>3, <4>1
    <3> QED BY <3>2, <3>3
  <2>4. item \in All(P)
    BY <1>3, <1>4, <1>8, <2>2
  <2>5. ASSUME NEW t \in All(s), t.key # item.key PROVE t \in All(P)
    <3>1. PICK i \in 0 .. m - 1 : T[i] = t /\ t # NoItem
      BY <2>1
    <3>2. i # b
      BY <1>4, <2>5, <3>1
    <3> QED BY <1>8, <2>2, <3>1, <3>2
  <2> QED BY <2>3, <2>4, <2>5
<1>13. /\ Cardinality(All(P)) = IF T[b] = NoItem THEN Cardinality(All(s)) + 1 ELSE Cardinality(All(s))
       /\ Cardinality(All(s)) \in Nat
  <2> DEFINE A == {t \in All(s) : t.key # item.key}
  <2>0. /\ IsFiniteSet(All(s)) /\ Cardinality(All(s)) \in Nat
        /\ \A t : t \in All(s) <=> \E i \in 0 .. m - 1 : T[i] = t /\ t # NoItem
    BY <1>1, AllFacts DEF T
  <2>1. CASE T[b] = NoItem
    <3>1. A = All(s)
      BY <1>5, <2>0, <2>1
    <3>2. item \notin A
      OBVIOUS
    <3> HIDE DEF A
    <3>3. All(P) = A \union {item}
      BY <1>12 DEF A
    <3>4. Cardinality(A \union {item}) = Cardinality(A) + 1
      BY <2>0, <3>1, <3>2, FS_AddElement
    <3> QED BY <2>0, <2>1, <3>1, <3>3, <3>4
  <2>2. CASE T[b] # NoItem
    <3>1. A = All(s) \ {T[b]} /\ T[b] \in All(s)
      BY <1>4, <1>5, <2>0, <2>2
    <3>2. item \notin A
      OBVIOUS
    <3>3. All(P) = A \union {item}
      BY <1>12
    <3> HIDE DEF A
    <3>4. IsFiniteSet(A) /\ Cardinality(A) = Cardinality(All(s)) - 1
      BY <2>0, <3>1, FS_RemoveElement
    <3>5. Cardinality(A \union {item}) = Cardinality(A) + 1
      BY <3>2, <3>4, FS_AddElement
    <3> QED BY <2>0, <2>2, <3>3, <3>4, <3>5
  <2> QED BY <2>0, <2>1, <2>2
<1>14. P.itemCount = Cardinality(All(P))
  BY <1>1, <1>6, <1>13
<1>15. Sound(hash, P, m)
  BY <1>6, <1>10, <1>11, <1>14 DEF Sound
<1> QED BY <1>12, <1>13, <1>15 DEF P
-----------------------------------------------------------------------------
(* Removing.  Seen from an empty bucket z, a table is a line: Steps(z, i, m)   *)
(* is where bucket i is on it, and no item's probing goes past z.              *)

\* The item of bucket i is reached from its home along buckets in use.
Line(h, T, m, z, i) ==
    LET o(j) == Steps(z, j, m)
        a    == o(Home(h, T[i].key, m))
    IN a <= o(i) /\ \A j \in 0 .. m - 1 : a <= o(j) /\ o(j) <= o(i) => T[j] # NoItem

LEMMA ReachedIsLine ==
    ASSUME NEW h, IsHash(h), NEW m \in Nat \ {0}, NEW s \in Sets(m), NEW z \in 0 .. m - 1, s.table[z] = NoItem
    PROVE  Reached(h, s.table, m) <=> \A i \in 0 .. m - 1 : s.table[i] # NoItem => Line(h, s.table, m, z, i)
<1> DEFINE T == s.table
<1>1. ASSUME NEW i \in 0 .. m - 1, T[i] # NoItem, NEW a \in 0 .. m - 1, a = Home(h, T[i].key, m)
      PROVE  /\ Line(h, T, m, z, i) =>
                    \A j \in 0 .. m - 1 : Steps(a, j, m) < Steps(a, i, m) => T[j] # NoItem
             /\ (\A j \in 0 .. m - 1 : Steps(a, j, m) < Steps(a, i, m) => T[j] # NoItem) =>
                    Line(h, T, m, z, i)
  <2> DEFINE o(j) == Steps(z, j, m)
  <2>1. o(z) = 0 /\ \A j \in 0 .. m - 1 : o(j) \in 0 .. m - 1
    BY StepsFacts
  <2>2. \A j \in 0 .. m - 1 : Steps(a, j, m) = IF o(a) <= o(j) THEN o(j) - o(a) ELSE o(j) - o(a) + m
    <3>1. m \in Nat \ {0} /\ a \in 0 .. m - 1 /\ z \in 0 .. m - 1
      BY <1>1
    <3> QED BY ONLY <3>1, StepsVia
  <2>3. o(i) # 0
    <3>1. m \in Nat \ {0} /\ i \in 0 .. m - 1 /\ z \in 0 .. m - 1 /\ z # i
      BY <1>1
    <3> QED BY ONLY <3>1, StepsTo
  <2>4. Line(h, T, m, z, i) <=>
            o(a) <= o(i) /\ \A j \in 0 .. m - 1 : o(a) <= o(j) /\ o(j) <= o(i) => T[j] # NoItem
    BY <1>1 DEF Line
  <2>5. \A j, k \in 0 .. m - 1 : o(j) = o(k) => j = k
    BY StepsFacts
  <2>6. T[z] = NoItem
    OBVIOUS
  <2> HIDE DEF o, T
  <2>7. ASSUME Line(h, T, m, z, i), NEW j \in 0 .. m - 1, Steps(a, j, m) < Steps(a, i, m)
        PROVE  T[j] # NoItem
    <3>1. o(a) <= o(j) /\ o(j) <= o(i)
      BY <2>1, <2>2, <2>4, <2>7
    <3> QED BY <2>4, <2>7, <3>1
  <2>8. ASSUME \A j \in 0 .. m - 1 : Steps(a, j, m) < Steps(a, i, m) => T[j] # NoItem
        PROVE  Line(h, T, m, z, i)
    <3>1. ~ (Steps(a, z, m) < Steps(a, i, m))
      BY <2>6, <2>8
    <3>2. o(a) <= o(i)
      BY <2>1, <2>2, <2>3, <3>1
    <3>3. ASSUME NEW j \in 0 .. m - 1, o(a) <= o(j), o(j) <= o(i) PROVE T[j] # NoItem
      <4>1. CASE j = i
        BY <1>1, <4>1
      <4>2. CASE j # i
        <5>1. o(j) # o(i)
          BY <2>5, <4>2
        <5>2. Steps(a, j, m) < Steps(a, i, m)
          BY <2>1, <2>2, <3>2, <3>3, <5>1
        <5> QED BY <2>8, <5>2
      <4> QED BY <4>1, <4>2
    <3> QED BY <2>4, <3>2, <3>3
  <2> QED BY <2>7, <2>8
<1>2. ASSUME NEW i \in 0 .. m - 1, T[i] # NoItem
      PROVE  \E a \in 0 .. m - 1 : a = Home(h, T[i].key, m)
  <2>1. T[i].key \in Keys
    BY <1>2, AllFacts
  <2> QED BY <2>1, HomeFacts
<1>3. ASSUME Reached(h, T, m), NEW i \in 0 .. m - 1, T[i] # NoItem PROVE Line(h, T, m, z, i)
  <2>1. PICK a \in 0 .. m - 1 : a = Home(h, T[i].key, m)
    BY <1>2, <1>3
  <2>2. \A j \in 0 .. m - 1 : Steps(a, j, m) < Steps(a, i, m) => T[j] # NoItem
    BY <1>3, <2>1 DEF Reached
  <2> QED BY <1>1, <1>3, <2>1, <2>2
<1>4. ASSUME \A i \in 0 .. m - 1 : T[i] # NoItem => Line(h, T, m, z, i) PROVE Reached(h, T, m)
  <2> SUFFICES ASSUME NEW i \in 0 .. m - 1, NEW j \in 0 .. m - 1, T[i] # NoItem,
                      Steps(Home(h, T[i].key, m), j, m) < Steps(Home(h, T[i].key, m), i, m)
               PROVE  T[j] # NoItem
    BY DEF Reached
  <2>1. PICK a \in 0 .. m - 1 : a = Home(h, T[i].key, m)
    BY <1>2
  <2>2. Line(h, T, m, z, i)
    BY <1>4
  <2>3. Steps(a, j, m) < Steps(a, i, m)
    BY <2>1
  <2> QED BY <1>1, <2>1, <2>2, <2>3
<1> QED BY <1>3, <1>4

\* A bucket emptied.
LEMMA EmptiedFacts ==
    ASSUME NEW m \in Nat \ {0}, NEW r \in Sets(m), Unique(r.table), NEW g \in 0 .. m - 1, r.table[g] # NoItem
    PROVE  /\ Emptied(r, g) \in Sets(m)
           /\ Emptied(r, g).table[g] = NoItem
           /\ \A i \in 0 .. m - 1 : i # g => Emptied(r, g).table[i] = r.table[i]
           /\ Emptied(r, g).itemCount = r.itemCount - 1
           /\ Unique(Emptied(r, g).table)
           /\ All(Emptied(r, g)) = All(r) \ {r.table[g]}
           /\ Cardinality(All(Emptied(r, g))) = Cardinality(All(r)) - 1
<1> DEFINE E == Emptied(r, g)
           n == r.itemCount - 1
<1>1. E = [r EXCEPT !.table[g] = NoItem, !.itemCount = n] /\ n \in Int
  BY DEF Emptied, Sets
<1> HIDE DEF E, n
<1>2. r \in [size : {m}, table : [0 .. m - 1 -> Items \union {NoItem}], itemCount : Int]
  BY DEF Sets
<1>3. E \in [size : {m}, table : [0 .. m - 1 -> Items \union {NoItem}], itemCount : Int]
  BY <1>1, <1>2
<1>4. E.table = [r.table EXCEPT ![g] = NoItem] /\ E.itemCount = r.itemCount - 1
  BY <1>1, <1>2 DEF n
<1>5. E \in Sets(m)
  BY <1>3 DEF Sets
<1>6. E.table[g] = NoItem /\ \A i \in 0 .. m - 1 : i # g => E.table[i] = r.table[i]
  BY <1>2, <1>4
<1>7. DOMAIN E.table = 0 .. m - 1 /\ DOMAIN r.table = 0 .. m - 1
  BY <1>5, AllFacts
<1>8. Unique(E.table)
  BY <1>6, <1>7 DEF Unique
<1>9. /\ \A t : t \in All(r) <=> \E i \in 0 .. m - 1 : r.table[i] = t /\ t # NoItem
      /\ \A t : t \in All(E) <=> \E i \in 0 .. m - 1 : E.table[i] = t /\ t # NoItem
      /\ IsFiniteSet(All(r))
  BY <1>5, AllFacts
<1>10. All(E) = All(r) \ {r.table[g]}
  <2>1. ASSUME NEW t \in All(E) PROVE t \in All(r) /\ t # r.table[g]
    <3>1. PICK i \in 0 .. m - 1 : E.table[i] = t /\ t # NoItem
      BY <1>9
    <3>2. i # g /\ r.table[i] = t
      BY <1>6, <3>1
    <3>3. t # r.table[g]
      BY <1>7, <3>1, <3>2 DEF Unique
    <3> QED BY <1>9, <3>1, <3>2, <3>3
  <2>2. ASSUME NEW t \in All(r), t # r.table[g] PROVE t \in All(E)
    <3>1. PICK i \in 0 .. m - 1 : r.table[i] = t /\ t # NoItem
      BY <1>9
    <3>2. i # g
      BY <2>2, <3>1
    <3> QED BY <1>6, <1>9, <3>1, <3>2
  <2> QED BY <2>1, <2>2
<1>11. Cardinality(All(E)) = Cardinality(All(r)) - 1
  <2>1. r.table[g] \in All(r)
    BY <1>9
  <2>2. Cardinality(All(r) \ {r.table[g]}) = Cardinality(All(r)) - 1
    <3>1. IsFiniteSet(All(r))
      BY <1>9
    <3> QED BY ONLY <2>1, <3>1, FS_RemoveElement
  <2> QED BY <1>10, <2>2
<1> QED BY <1>4, <1>5, <1>6, <1>8, <1>10, <1>11 DEF E
\* An item put into a bucket that was empty, where no other has its key.
LEMMA PutNewFacts ==
    ASSUME NEW m \in Nat \ {0}, NEW r \in Sets(m), Unique(r.table), NEW item \in Items,
           Bucket(r, item) \in 0 .. m - 1, r.table[Bucket(r, item)] = NoItem,
           \A i \in 0 .. m - 1 : r.table[i] # NoItem => r.table[i].key # item.key
    PROVE  LET P == Put(r, item)
               b == Bucket(r, item)
           IN  /\ P \in Sets(m)
               /\ P.table[b] = item
               /\ \A i \in 0 .. m - 1 : i # b => P.table[i] = r.table[i]
               /\ P.itemCount = r.itemCount + 1
               /\ Unique(P.table)
               /\ All(P) = All(r) \union {item}
               /\ Cardinality(All(P)) = Cardinality(All(r)) + 1
<1> DEFINE P == Put(r, item)
           b == Bucket(r, item)
<1>1. P \in Sets(m) /\ P.table = [r.table EXCEPT ![b] = item] /\ P.itemCount = r.itemCount + 1
  BY PutIs
<1>2. b \in 0 .. m - 1 /\ r.table[b] = NoItem
  OBVIOUS
<1> HIDE DEF P, b
<1>3. DOMAIN P.table = 0 .. m - 1 /\ DOMAIN r.table = 0 .. m - 1
  BY <1>1, AllFacts
<1>4. P.table[b] = item /\ \A i \in 0 .. m - 1 : i # b => P.table[i] = r.table[i]
  BY <1>1, <1>2, <1>3
<1>5. item # NoItem
  BY ItemFacts
<1>6. Unique(P.table)
  <2> SUFFICES ASSUME NEW i \in 0 .. m - 1, NEW j \in 0 .. m - 1,
                      P.table[i] # NoItem, P.table[j] # NoItem, P.table[i].key = P.table[j].key
               PROVE  i = j
    BY <1>3 DEF Unique
  <2>1. CASE i = b \/ j = b
    BY <1>4, <2>1
  <2>2. CASE i # b /\ j # b
    BY <1>3, <1>4, <2>2 DEF Unique
  <2> QED BY <2>1, <2>2
<1>7. /\ \A t : t \in All(r) <=> \E i \in 0 .. m - 1 : r.table[i] = t /\ t # NoItem
      /\ \A t : t \in All(P) <=> \E i \in 0 .. m - 1 : P.table[i] = t /\ t # NoItem
      /\ IsFiniteSet(All(r))
  BY <1>1, AllFacts
<1>8. All(P) = All(r) \union {item} /\ item \notin All(r)
  <2>1. ASSUME NEW t \in All(P) PROVE t \in All(r) \/ t = item
    BY <1>4, <1>7
  <2>2. ASSUME NEW t \in All(r) PROVE t \in All(P)
    BY <1>2, <1>4, <1>7
  <2>3. item \in All(P)
    BY <1>2, <1>4, <1>5, <1>7
  <2>4. item \notin All(r)
    BY <1>7
  <2> QED BY <2>1, <2>2, <2>3, <2>4
<1>9. Cardinality(All(P)) = Cardinality(All(r)) + 1
  <2>1. IsFiniteSet(All(r)) /\ item \notin All(r)
    BY <1>7, <1>8
  <2>2. Cardinality(All(r) \union {item}) = Cardinality(All(r)) + 1
    BY ONLY <2>1, FS_AddElement
  <2> QED BY <1>8, <2>2
<1> QED BY <1>1, <1>4, <1>6, <1>8, <1>9 DEF P, b

\* While the items behind the removed one, of bucket b, are added anew, d of them are: in the table r,
\* the buckets of the line up to b's and d more are in order, those after are as in T.
Moving(h, T, r, m, b, z, d) ==
    LET o(i) == Steps(z, i, m)
    IN /\ r \in Sets(m)
       /\ Unique(r.table)
       /\ r.itemCount = Cardinality(All(r))
       /\ r.table[z] = NoItem
       /\ \A i \in 0 .. m - 1 : o(i) > o(b) + d => r.table[i] = T[i]
       /\ \A i \in 0 .. m - 1 : r.table[i] # NoItem /\ o(i) <= o(b) + d => Line(h, r.table, m, z, i)

LEMMA MovingStarts ==
    ASSUME NEW h, NEW m \in Nat \ {0}, NEW s, Sound(h, s, m), IsHash(h),
           NEW z \in 0 .. m - 1, s.table[z] = NoItem, NEW b \in 0 .. m - 1, s.table[b] # NoItem
    PROVE  Moving(h, s.table, Emptied(s, b), m, b, z, 0) /\ All(Emptied(s, b)) = All(s) \ {s.table[b]}
<1> DEFINE E == Emptied(s, b)
           T == s.table
           o(i) == Steps(z, i, m)
<1>1. s \in Sets(m) /\ Unique(s.table) /\ Reached(h, s.table, m) /\ s.itemCount = Cardinality(All(s))
  BY DEF Sound
<1>2. /\ E \in Sets(m)
      /\ E.table[b] = NoItem
      /\ \A i \in 0 .. m - 1 : i # b => E.table[i] = T[i]
      /\ E.itemCount = s.itemCount - 1
      /\ Unique(E.table)
      /\ All(E) = All(s) \ {T[b]}
      /\ Cardinality(All(E)) = Cardinality(All(s)) - 1
  BY <1>1, EmptiedFacts
<1>3. \A i \in 0 .. m - 1 : T[i] # NoItem => Line(h, T, m, z, i)
  BY <1>1, ReachedIsLine
<1>4. \A i, j \in 0 .. m - 1 : o(i) \in Int /\ (o(i) = o(j) => i = j)
  <2>1. m \in Nat \ {0} /\ z \in 0 .. m - 1
    OBVIOUS
  <2> QED BY ONLY <2>1, Positions
<1>5. T[z] = NoItem /\ T[b] # NoItem
  OBVIOUS
<1> HIDE DEF E, T, o
<1>6. E.table[z] = NoItem
  BY <1>2, <1>5
<1>7. \A i \in 0 .. m - 1 : o(i) > o(b) + 0 => E.table[i] = T[i]
  BY <1>2, <1>4
<1>8. ASSUME NEW i \in 0 .. m - 1, E.table[i] # NoItem, o(i) <= o(b) + 0 PROVE Line(h, E.table, m, z, i)
  <2>1. i # b /\ E.table[i] = T[i]
    BY <1>2, <1>8
  <2>2. o(i) # o(b)
    BY <1>4, <2>1
  <2>3. o(i) < o(b)
    BY <1>4, <1>8, <2>2
  <2>4. Line(h, T, m, z, i)
    BY <1>3, <1>8, <2>1
  <2>5. /\ o(Home(h, T[i].key, m)) <= o(i)
        /\ \A j \in 0 .. m - 1 : o(Home(h, T[i].key, m)) <= o(j) /\ o(j) <= o(i) => T[j] # NoItem
    BY <2>4 DEF Line, o
  <2>6. ASSUME NEW j \in 0 .. m - 1, o(Home(h, T[i].key, m)) <= o(j), o(j) <= o(i)
        PROVE  E.table[j] # NoItem
    <3>1. j # b
      BY <1>4, <2>3, <2>6
    <3> QED BY <1>2, <2>5, <2>6, <3>1
  <2> QED BY <2>1, <2>5, <2>6 DEF Line, o
<1>9. E.itemCount = Cardinality(All(E))
  BY <1>1, <1>2
<1>10. Moving(h, T, E, m, b, z, 0)
  BY <1>2, <1>6, <1>7, <1>8, <1>9 DEF Moving, o
<1> QED BY <1>2, <1>10 DEF E, T
LEMMA MovingStep ==
    ASSUME IsHash(hash), NEW m \in Nat \ {0}, NEW s \in Sets(m), NEW z \in 0 .. m - 1, s.table[z] = NoItem,
           NEW b \in 0 .. m - 1, NEW d \in Nat \ {0},
           NEW g \in 0 .. m - 1, s.table[g] # NoItem, Line(hash, s.table, m, z, g),
           Steps(z, g, m) = Steps(z, b, m) + d,
           NEW r, Moving(hash, s.table, r, m, b, z, d - 1)
    PROVE  LET P == Put(Emptied(r, g), r.table[g])
           IN  Moving(hash, s.table, P, m, b, z, d) /\ All(P) = All(r)
<1> DEFINE T == s.table
           E == Emptied(r, g)
           t == r.table[g]
           P == Put(E, t)
           c == Bucket(E, t)
           o(i) == Steps(z, i, m)
           home == Home(hash, t.key, m)
<1>1. /\ r \in Sets(m)
      /\ Unique(r.table)
      /\ r.itemCount = Cardinality(All(r))
      /\ r.table[z] = NoItem
      /\ \A i \in 0 .. m - 1 : o(i) > o(b) + (d - 1) => r.table[i] = T[i]
      /\ \A i \in 0 .. m - 1 : r.table[i] # NoItem /\ o(i) <= o(b) + (d - 1) => Line(hash, r.table, m, z, i)
  BY DEF Moving
<1>2. o(z) = 0 /\ \A i, j \in 0 .. m - 1 : o(i) \in 0 .. m - 1 /\ (o(i) = o(j) => i = j)
  <2>1. m \in Nat \ {0} /\ z \in 0 .. m - 1
    OBVIOUS
  <2> QED BY ONLY <2>1, Positions
<1>3. o(g) = o(b) + d /\ T[g] # NoItem /\ T[z] = NoItem
  OBVIOUS
<1>4. o(g) > o(b) + (d - 1) /\ o(b) \in Int /\ o(g) \in Int
  BY <1>2, <1>3
<1>5. t = T[g] /\ t # NoItem
  BY <1>1, <1>3, <1>4
<1>6. t \in Items /\ t.key \in Keys
  BY <1>1, <1>5, AllFacts
<1>7. /\ E \in Sets(m)
      /\ E.table[g] = NoItem
      /\ \A i \in 0 .. m - 1 : i # g => E.table[i] = r.table[i]
      /\ E.itemCount = r.itemCount - 1
      /\ Unique(E.table)
      /\ All(E) = All(r) \ {t}
      /\ Cardinality(All(E)) = Cardinality(All(r)) - 1
  BY <1>1, <1>5, EmptiedFacts
<1>8. /\ c \in 0 .. m - 1
      /\ E.table[c] = NoItem \/ E.table[c].key = t.key
      /\ \A j \in 0 .. m - 1 : Steps(home, j, m) < Steps(home, c, m) => E.table[j] # NoItem
  BY <1>6, <1>7, BucketFacts
<1>9. ASSUME NEW i \in 0 .. m - 1, E.table[i] # NoItem PROVE E.table[i].key # t.key
  <2>1. i # g /\ r.table[i] # NoItem
    BY <1>7, <1>9
  <2>2. DOMAIN r.table = 0 .. m - 1
    BY <1>1, AllFacts
  <2> QED BY <1>1, <1>5, <1>7, <2>1, <2>2 DEF Unique
<1>10. E.table[c] = NoItem
  BY <1>8, <1>9
<1>11. /\ P \in Sets(m)
       /\ P.table[c] = t
       /\ \A i \in 0 .. m - 1 : i # c => P.table[i] = E.table[i]
       /\ P.itemCount = E.itemCount + 1
       /\ Unique(P.table)
       /\ All(P) = All(E) \union {t}
       /\ Cardinality(All(P)) = Cardinality(All(E)) + 1
  <2> HIDE DEF E, t
  <2>1. m \in Nat \ {0} /\ E \in Sets(m) /\ Unique(E.table) /\ t \in Items
    BY <1>6, <1>7
  <2>2. Bucket(E, t) \in 0 .. m - 1 /\ E.table[Bucket(E, t)] = NoItem
    BY <1>8, <1>10
  <2> QED BY ONLY <1>9, <2>1, <2>2, PutNewFacts
<1>12. home \in 0 .. m - 1
  BY <1>6, HomeFacts
<1>13. /\ o(home) <= o(g)
       /\ \A j \in 0 .. m - 1 : o(home) <= o(j) /\ o(j) <= o(g) => T[j] # NoItem
  BY <1>5 DEF Line
<1>14. \A j \in 0 .. m - 1 :
           Steps(home, j, m) = IF o(home) <= o(j) THEN o(j) - o(home) ELSE o(j) - o(home) + m
  <2>1. m \in Nat \ {0} /\ home \in 0 .. m - 1 /\ z \in 0 .. m - 1
    BY <1>12
  <2> HIDE DEF home
  <2> QED BY ONLY <2>1, StepsVia
<1>15. t \in All(r) /\ Cardinality(All(r)) \in Nat
  BY <1>1, <1>5, AllFacts
<1> HIDE DEF T, E, t, P, c, o, home
<1>16. ~ (Steps(home, g, m) < Steps(home, c, m))
  BY <1>7, <1>8
<1>17. o(home) <= o(c) /\ o(c) <= o(g)
  <2>1. o(home) \in 0 .. m - 1 /\ o(c) \in 0 .. m - 1 /\ o(g) \in 0 .. m - 1
    BY <1>2, <1>8, <1>12
  <2>2. Steps(home, g, m) = o(g) - o(home)
    BY <1>13, <1>14
  <2>3. Steps(home, c, m) = IF o(home) <= o(c) THEN o(c) - o(home) ELSE o(c) - o(home) + m
    BY <1>8, <1>14
  <2> QED BY <1>16, <2>1, <2>2, <2>3
<1>18. c # z /\ g # z
  <2>1. o(home) > 0
    <3>1. home # z
      BY <1>2, <1>3, <1>12, <1>13
    <3> QED BY <1>2, <1>12, <3>1
  <2> QED BY <1>2, <1>3, <1>12, <1>17, <2>1
<1>19. P.table[z] = NoItem
  BY <1>1, <1>7, <1>11, <1>18
<1>20. ASSUME NEW i \in 0 .. m - 1, o(i) > o(b) + d PROVE P.table[i] = T[i]
  <2>1. i # g /\ i # c
    BY <1>2, <1>3, <1>8, <1>17, <1>20
  <2>2. o(i) > o(b) + (d - 1)
    BY <1>2, <1>20
  <2> QED BY <1>1, <1>7, <1>11, <2>1, <2>2
<1>21. ASSUME NEW i \in 0 .. m - 1, P.table[i] # NoItem, o(i) <= o(b) + d PROVE Line(hash, P.table, m, z, i)
  <2>1. CASE i = c
    <3>1. ASSUME NEW j \in 0 .. m - 1, o(home) <= o(j), o(j) <= o(c) PROVE P.table[j] # NoItem
      <4>1. CASE j = c
        BY <1>5, <1>11, <4>1
      <4>2. CASE j # c
        <5>1. o(j) < o(c)
          BY <1>2, <1>8, <3>1, <4>2
        <5>2. Steps(home, j, m) < Steps(home, c, m)
          BY <1>2, <1>8, <1>12, <1>14, <1>17, <3>1, <5>1
        <5> QED BY <1>8, <1>11, <4>2, <5>2
      <4> QED BY <4>1, <4>2
    <3> QED BY <1>11, <1>17, <2>1, <3>1 DEF Line, o, home
  <2>2. CASE i # c
    <3>1. i # g /\ P.table[i] = r.table[i]
      BY <1>7, <1>11, <1>21, <2>2
    <3>2. o(i) # o(g)
      BY <1>2, <3>1
    <3>3. o(i) <= o(b) + (d - 1)
      BY <1>2, <1>3, <1>21, <3>2
    <3>4. Line(hash, r.table, m, z, i)
      BY <1>1, <1>21, <3>1, <3>3
    <3>5. /\ o(Home(hash, r.table[i].key, m)) <= o(i)
          /\ \A j \in 0 .. m - 1 : o(Home(hash, r.table[i].key, m)) <= o(j) /\ o(j) <= o(i) => r.table[j] # NoItem
      BY <3>4 DEF Line, o
    <3>6. ASSUME NEW j \in 0 .. m - 1, o(Home(hash, r.table[i].key, m)) <= o(j), o(j) <= o(i)
          PROVE  P.table[j] # NoItem
      <4>1. j # g
        BY <1>2, <1>3, <3>3, <3>6
      <4> QED BY <1>5, <1>7, <1>11, <3>5, <3>6, <4>1
    <3> QED BY <3>1, <3>5, <3>6 DEF Line, o
  <2> QED BY <2>1, <2>2
<1>22. All(P) = All(r)
  BY <1>7, <1>11, <1>15
<1>23. P.itemCount = Cardinality(All(P))
  BY <1>1, <1>7, <1>11, <1>15
<1>24. Moving(hash, T, P, m, b, z, d)
  BY <1>11, <1>19, <1>20, <1>21, <1>23 DEF Moving, o
<1> QED BY <1>22, <1>24 DEF T, E, t, P
LEMMA RemoveFacts ==
    ASSUME IsHash(hash), NEW m \in Nat \ {0}, NEW s, Sound(hash, s, m), Cardinality(All(s)) < m,
           NEW item \in Items
    PROVE  /\ Sound(hash, RemoveFrom(s, item), m)
           /\ All(RemoveFrom(s, item)) = {t \in All(s) : t.key # item.key}
<1> DEFINE T == s.table
           b == Bucket(s, item)
<1>1. s \in Sets(m) /\ Unique(T) /\ Reached(hash, T, m) /\ s.itemCount = Cardinality(All(s))
  BY DEF Sound
<1>2. PICK z0 \in 0 .. m - 1 : T[z0] = NoItem
  BY <1>1, Room
<1>3. item.key \in Keys
  BY ItemFacts
<1>4. b \in 0 .. m - 1 /\ (T[b] = NoItem \/ T[b].key = item.key)
  BY <1>1, <1>2, <1>3, BucketFacts
<1>5. ASSUME NEW i \in 0 .. m - 1, T[i] # NoItem, T[i].key = item.key PROVE b = i
  BY <1>1, <1>2, <1>3, <1>5, BucketIs
<1>6. \A t : t \in All(s) <=> \E i \in 0 .. m - 1 : T[i] = t /\ t # NoItem
  BY <1>1, AllFacts
<1>7. CASE T[b] = NoItem
  <2>1. RemoveFrom(s, item) = s
    BY <1>7 DEF RemoveFrom
  <2>2. All(s) = {t \in All(s) : t.key # item.key}
    <3> HIDE DEF T, b
    <3> QED BY <1>5, <1>6, <1>7
  <2> QED BY <2>1, <2>2
<1>8. CASE T[b] # NoItem
  <2> DEFINE behind(d) == On(b, d, m)
             ends(d) == T[behind(d)] = NoItem \/ d = m
             first(d) == ends(d) /\ \A e \in 1 .. d - 1 : T[behind(e)] # NoItem
             c == CHOOSE d \in 1 .. m : first(d)
             run == c - 1
             z == behind(c)
             D == {d \in 1 .. m : ends(d)}
             start == Emptied(s, b)
             step(r, d) == Put(Emptied(r, behind(d)), r.table[behind(d)])
             again == CHOOSE f : f = [d \in 0 .. run |-> IF d = 0 THEN start ELSE step(f[d - 1], d)]
  <2>1. RemoveFrom(s, item) = again[run]
    <3>1. s.size = m
      BY <1>1, AllFacts
    <3> QED BY <1>8, <3>1 DEF RemoveFrom, After, On
  <2> HIDE DEF T, b, start
  <2>2. m \in D
    OBVIOUS
  <2>3. PICK x \in D : \A y \in D : x <= y
    <3>1. D \in SUBSET Nat
      OBVIOUS
    <3> HIDE DEF D
    <3> QED BY <2>2, <3>1, LeastExists
  <2>4. first(x)
    <3>1. ASSUME NEW e \in 1 .. x - 1, T[behind(e)] = NoItem PROVE FALSE
      <4>1. e \in 1 .. m /\ ~ (x <= e)
        BY <2>3
      <4>2. e \in D
        BY <3>1, <4>1
      <4> QED BY <2>3, <4>1, <4>2
    <3>2. x \in 1 .. m /\ ends(x)
      BY <2>3
    <3> HIDE DEF ends, behind
    <3> QED BY <3>1, <3>2
  <2>5. c \in 1 .. m /\ first(c)
    <3>1. x \in 1 .. m
      BY <2>3
    <3> HIDE DEF first
    <3> QED BY <2>4, <3>1
  <2> HIDE DEF c, D
  <2>6. Steps(b, z0, m) \in 1 .. m - 1 /\ behind(Steps(b, z0, m)) = z0
    <3>1. m \in Nat \ {0} /\ b \in 0 .. m - 1 /\ z0 \in 0 .. m - 1 /\ b # z0
      BY <1>2, <1>4, <1>8
    <3>2. Steps(b, z0, m) \in 0 .. m - 1 /\ On(b, Steps(b, z0, m), m) = z0 /\ Steps(b, z0, m) # 0
      BY ONLY <3>1, StepsTo
    <3> QED BY <3>2
  <2>7. c # m
    BY <1>2, <2>5, <2>6
  <2>8. c \in 1 .. m - 1 /\ run \in Nat /\ run = c - 1
    BY <2>5, <2>7
  <2>9. T[z] = NoItem /\ \A d \in 1 .. run : T[behind(d)] # NoItem
    BY <2>5, <2>7
  <2>10. ASSUME NEW d \in 1 .. c PROVE behind(d) \in 0 .. m - 1 /\ Steps(b, behind(d), m) = d
    <3>1. m \in Nat \ {0} /\ b \in 0 .. m - 1 /\ d \in 0 .. m - 1
      BY <1>4, <2>8
    <3> QED BY ONLY <3>1, StepsOn
  <2>11. z \in 0 .. m - 1 /\ Steps(b, z, m) = c
    BY <2>8, <2>10
  <2> HIDE DEF behind, run, z
  <2>12. Steps(z, z, m) = 0 /\ Steps(z, b, m) = m - c
    <3>1. m \in Nat \ {0} /\ b \in 0 .. m - 1 /\ z \in 0 .. m - 1
      BY <1>4, <2>11
    <3>2. Steps(b, z, m) = IF Steps(z, b, m) <= Steps(z, z, m) THEN Steps(z, z, m) - Steps(z, b, m)
                           ELSE Steps(z, z, m) - Steps(z, b, m) + m
      BY ONLY <3>1, StepsVia
    <3>3. Steps(z, z, m) = 0 /\ Steps(z, b, m) \in 0 .. m - 1
      BY ONLY <3>1, Positions
    <3> QED BY <2>8, <2>11, <3>2, <3>3
  <2>13. ASSUME NEW d \in 1 .. run PROVE Steps(z, behind(d), m) = Steps(z, b, m) + d
    <3>1. d \in 1 .. c /\ d < c
      BY <2>8
    <3>2. m \in Nat \ {0} /\ b \in 0 .. m - 1 /\ z \in 0 .. m - 1 /\ behind(d) \in 0 .. m - 1
      BY <1>4, <2>10, <2>11, <3>1
    <3>3. Steps(b, behind(d), m) =
              IF Steps(z, b, m) <= Steps(z, behind(d), m) THEN Steps(z, behind(d), m) - Steps(z, b, m)
              ELSE Steps(z, behind(d), m) - Steps(z, b, m) + m
      BY ONLY <3>2, StepsVia
    <3>4. Steps(z, behind(d), m) \in 0 .. m - 1
      BY ONLY <3>2, Positions
    <3>5. Steps(b, behind(d), m) = d
      BY <2>10, <3>1
    <3> QED BY <2>8, <2>12, <3>1, <3>3, <3>4, <3>5
  <2>14. Moving(hash, T, start, m, b, z, 0) /\ All(start) = All(s) \ {T[b]}
    BY <1>4, <1>8, <2>9, <2>11, MovingStarts DEF T, start
  <2>15. ASSUME NEW d \in 1 .. run, NEW r, Moving(hash, T, r, m, b, z, d - 1)
         PROVE  Moving(hash, T, step(r, d), m, b, z, d) /\ All(step(r, d)) = All(r)
    <3>1. behind(d) \in 0 .. m - 1 /\ T[behind(d)] # NoItem /\ d \in Nat \ {0}
      BY <2>8, <2>9, <2>10
    <3>2. Line(hash, T, m, z, behind(d))
      BY <1>1, <2>9, <2>11, <3>1, ReachedIsLine DEF T
    <3> QED BY <1>1, <1>4, <2>9, <2>11, <2>13, <2>15, <3>1, <3>2, MovingStep DEF T
  <2> DEFINE J == {x1 \in (0 .. run) \X Sets(m) : /\ Moving(hash, T, x1[2], m, b, z, x1[1])
                                                  /\ All(x1[2]) = All(start)}
             G == [x1 \in (1 .. run) \X Sets(m) |-> step(x1[2], x1[1])]
  <2> HIDE DEF step, again
  <2>16. start \in Sets(m) /\ <<0, start>> \in J
    <3>1. start \in Sets(m)
      BY <2>14 DEF Moving
    <3> QED BY <2>8, <2>14, <3>1
  <2>17. ASSUME NEW d \in 1 .. run, NEW r \in Sets(m), <<d - 1, r>> \in J
         PROVE  <<d, step(r, d)>> \in J /\ step(r, d) \in Sets(m)
    <3>1. Moving(hash, T, r, m, b, z, d - 1) /\ All(r) = All(start)
      BY <2>17
    <3>2. Moving(hash, T, step(r, d), m, b, z, d) /\ All(step(r, d)) = All(r)
      BY <2>15, <3>1
    <3>3. step(r, d) \in Sets(m)
      BY <3>2 DEF Moving
    <3>4. d \in 0 .. run
      BY <2>8
    <3> QED BY <3>1, <3>2, <3>3, <3>4
  <2>18. \A d \in 1 .. run : \A r \in Sets(m) : G[<<d, r>>] = step(r, d)
    OBVIOUS
  <2>19. J \in SUBSET ((0 .. run) \X Sets(m))
    OBVIOUS
  <2> HIDE DEF J, G
  <2>20. PICK f \in [0 .. run -> Sets(m)] :
             f[0] = start /\ \A d \in 1 .. run : f[d] = G[<<d, f[d - 1]>>]
    <3>1. \A d \in 1 .. run : \A r \in Sets(m) : <<d - 1, r>> \in J => <<d, G[<<d, r>>]>> \in J
      BY <2>17, <2>18
    <3>2. Kept(J, G, Sets(m), start, run)
      BY <2>16, <2>19, <3>1 DEF Kept
    <3>3. run \in Nat /\ start \in Sets(m)
      BY <2>8, <2>16
    <3>4. \E f \in [0 .. run -> Sets(m)] : Iterated(f, G, start, run)
      BY ONLY <3>2, <3>3, Iterates
    <3> QED BY <3>4 DEF Iterated
  <2>21. f = [d \in 0 .. run |-> IF d = 0 THEN start ELSE step(f[d - 1], d)]
    <3>1. ASSUME NEW d \in 0 .. run, d # 0 PROVE f[d] = step(f[d - 1], d)
      <4>1. d \in 1 .. run /\ d - 1 \in 0 .. run
        BY <2>8, <3>1
      <4> QED BY <2>18, <2>20, <4>1
    <3> QED BY <2>20, <3>1
  <2>22. again = [d \in 0 .. run |-> IF d = 0 THEN start ELSE step(again[d - 1], d)]
    BY <2>21 DEF again
  <2>23. run \in 0 .. run /\ <<run, again[run]>> \in J
    <3> DEFINE N == {d \in 0 .. run : <<d, again[d]>> \in J}
    <3>1. 0 \in N
      BY <2>8, <2>16, <2>22
    <3>2. ASSUME NEW d \in 1 .. run, d - 1 \in N PROVE d \in N
      <4>1. d \in 0 .. run /\ d # 0
        BY <2>8
      <4>2. again[d] = step(again[d - 1], d)
        BY <2>22, <4>1
      <4>3. <<d - 1, again[d - 1]>> \in J /\ again[d - 1] \in Sets(m)
        BY <2>19, <3>2
      <4> QED BY <2>17, <4>1, <4>2, <4>3
    <3>3. N \in SUBSET (0 .. run)
      OBVIOUS
    <3> HIDE DEF N
    <3>4. N = 0 .. run
      BY ONLY <2>8, <3>1, <3>2, <3>3, Reaches
    <3>5. run \in N
      BY <2>8, <3>4
    <3> QED BY <3>5 DEF N
  <2> DEFINE R == again[run]
  <2>24. Moving(hash, T, R, m, b, z, run) /\ All(R) = All(start)
    BY <2>23 DEF J
  <2> HIDE DEF R
  <2>25. /\ R \in Sets(m) /\ Unique(R.table) /\ R.itemCount = Cardinality(All(R)) /\ R.table[z] = NoItem
         /\ \A i \in 0 .. m - 1 : R.table[i] # NoItem /\ Steps(z, i, m) <= Steps(z, b, m) + run =>
                                      Line(hash, R.table, m, z, i)
    BY <2>24 DEF Moving
  <2>26. Reached(hash, R.table, m)
    <3>1. ASSUME NEW i \in 0 .. m - 1, R.table[i] # NoItem PROVE Line(hash, R.table, m, z, i)
      <4>1. m \in Nat \ {0} /\ z \in 0 .. m - 1
        BY <2>11
      <4>2. Steps(z, i, m) \in 0 .. m - 1
        BY ONLY <4>1, Positions
      <4>3. Steps(z, i, m) <= Steps(z, b, m) + run
        BY <2>8, <2>12, <4>2
      <4> QED BY <2>25, <3>1, <4>3
    <3> QED BY <2>11, <2>25, <3>1, ReachedIsLine
  <2>27. Sound(hash, R, m)
    BY <2>25, <2>26 DEF Sound
  <2>28. All(s) \ {T[b]} = {t \in All(s) : t.key # item.key}
    BY <1>4, <1>5, <1>6, <1>8
  <2> QED BY <2>1, <2>14, <2>24, <2>27, <2>28 DEF R
<1> QED BY <1>7, <1>8
-----------------------------------------------------------------------------
(* Growing.                                                                 *)

EmptySet(m) == [size |-> m, itemCount |-> 0, table |-> [b \in 0 .. m - 1 |-> NoItem]]

LEMMA EmptySetFacts ==
    ASSUME NEW h, NEW m \in Nat
    PROVE  Sound(h, EmptySet(m), m) /\ All(EmptySet(m)) = {} /\ Cardinality(All(EmptySet(m))) = 0
<1> DEFINE E == EmptySet(m)
<1>1. E \in Sets(m) /\ E.itemCount = 0 /\ \A i \in 0 .. m - 1 : E.table[i] = NoItem
  BY DEF EmptySet, Sets
<1> HIDE DEF E
<1>2. DOMAIN E.table = 0 .. m - 1 /\ \A t : t \in All(E) <=> \E i \in 0 .. m - 1 : E.table[i] = t /\ t # NoItem
  BY <1>1, AllFacts
<1>3. All(E) = {}
  BY <1>1, <1>2
<1>4. Cardinality(All(E)) = 0
  BY <1>3, FS_EmptySet
<1>5. Unique(E.table) /\ Reached(h, E.table, m)
  BY <1>1, <1>2 DEF Unique, Reached
<1> QED BY <1>1, <1>3, <1>4, <1>5 DEF Sound, E

\* The items of a table put into an empty one that is large enough.
LEMMA UnionFacts ==
    ASSUME IsHash(hash), NEW m \in Nat \ {0}, NEW n \in Nat \ {0}, NEW s, Sound(hash, s, m),
           Cardinality(All(s)) < n, NEW r, Sound(hash, r, n), All(r) = {}
    PROVE  Sound(hash, Union(r, s), n) /\ All(Union(r, s)) = All(s)
<1> DEFINE T == s.table
           Upto(k) == {t \in All(s) : \E i \in 0 .. k - 1 : T[i] = t}
           step(q, k) == IF T[k - 1] = NoItem THEN q ELSE Put(q, T[k - 1])
           f == CHOOSE g : g = [k \in 0 .. m |-> IF k = 0 THEN r ELSE step(g[k - 1], k)]
           In(k, q) == Sound(hash, q, n) /\ All(q) = Upto(k)
           J == {x \in (0 .. m) \X Sets(n) : In(x[1], x[2])}
           G == [x \in (1 .. m) \X Sets(n) |-> step(x[2], x[1])]
<1>1. s \in Sets(m) /\ Unique(T)
  BY DEF Sound
<1>2. /\ s.size = m /\ DOMAIN T = 0 .. m - 1
      /\ \A i \in 0 .. m - 1 : T[i] = NoItem \/ T[i] \in Items
      /\ \A t : t \in All(s) <=> \E i \in 0 .. m - 1 : T[i] = t /\ t # NoItem
      /\ IsFiniteSet(All(s)) /\ Cardinality(All(s)) \in Nat
  BY <1>1, AllFacts
<1>3. Union(r, s) = f[m]
  BY <1>2 DEF Union
<1> HIDE DEF T, f
<1>4. In(0, r)
  OBVIOUS
<1>5. ASSUME NEW k \in 1 .. m, NEW q, In(k - 1, q) PROVE In(k, step(q, k))
  <2>0. k - 1 \in 0 .. m - 1
    OBVIOUS
  <2>1. CASE T[k - 1] = NoItem
    <3>1. Upto(k) = Upto(k - 1)
      <4>1. ASSUME NEW t \in Upto(k) PROVE t \in Upto(k - 1)
        <5>1. PICK i \in 0 .. k - 1 : T[i] = t
          OBVIOUS
        <5>2. t # NoItem
          BY <1>2
        <5>3. i \in 0 .. k - 1 - 1
          BY <2>1, <5>1, <5>2
        <5> QED BY <5>1, <5>3
      <4>2. ASSUME NEW t \in Upto(k - 1) PROVE t \in Upto(k)
        <5>1. PICK i \in 0 .. k - 1 - 1 : T[i] = t
          OBVIOUS
        <5>2. i \in 0 .. k - 1
          OBVIOUS
        <5> QED BY <5>1, <5>2
      <4> QED BY <4>1, <4>2
    <3> QED BY <1>5, <2>1, <3>1
  <2>2. CASE T[k - 1] # NoItem
    <3> DEFINE item == T[k - 1]
    <3>1. item \in Items /\ item \in All(s)
      BY <1>2, <2>0, <2>2
    <3>2. Sound(hash, q, n) /\ All(q) = Upto(k - 1)
      BY <1>5
    <3>3. Cardinality(All(q)) < n
      <4>1. All(q) \in SUBSET All(s)
        BY <3>2
      <4>2. IsFiniteSet(All(s))
        BY <1>2
      <4>3. Cardinality(All(q)) <= Cardinality(All(s))
        BY ONLY <4>1, <4>2, FS_Subset
      <4>4. Cardinality(All(q)) \in Nat
        BY <3>2, AllFacts DEF Sound
      <4> QED BY <1>2, <4>3, <4>4
    <3>4. Sound(hash, Put(q, item), n) /\ All(Put(q, item)) = {t \in All(q) : t.key # item.key} \union {item}
      <4> HIDE DEF item
      <4> QED BY <3>1, <3>2, <3>3, PutFacts
    <3>5. ASSUME NEW t \in All(q) PROVE t.key # item.key
      <4>1. PICK i \in 0 .. k - 1 - 1 : T[i] = t
        BY <3>2
      <4>2. i \in 0 .. m - 1 /\ i # k - 1 /\ T[i] # NoItem
        BY <1>2, <3>2, <4>1
      <4> QED BY <1>1, <1>2, <2>0, <2>2, <4>1, <4>2 DEF Unique
    <3>6. Upto(k) = Upto(k - 1) \union {item}
      <4>1. ASSUME NEW t \in Upto(k) PROVE t \in Upto(k - 1) \/ t = item
        <5>1. PICK i \in 0 .. k - 1 : T[i] = t
          OBVIOUS
        <5>2. i = k - 1 \/ i \in 0 .. k - 1 - 1
          OBVIOUS
        <5> QED BY <5>1, <5>2
      <4>2. ASSUME NEW t \in Upto(k - 1) PROVE t \in Upto(k)
        <5>1. PICK i \in 0 .. k - 1 - 1 : T[i] = t
          OBVIOUS
        <5>2. i \in 0 .. k - 1
          OBVIOUS
        <5> QED BY <5>1, <5>2
      <4>3. item \in Upto(k)
        <5>1. k - 1 \in 0 .. k - 1
          OBVIOUS
        <5> QED BY <3>1, <5>1
      <4> QED BY <4>1, <4>2, <4>3
    <3>7. All(Put(q, item)) = Upto(k)
      <4> HIDE DEF Upto, item
      <4> QED BY <3>2, <3>4, <3>5, <3>6
    <3> QED BY <2>2, <3>4, <3>7
  <2> QED BY <2>1, <2>2
<1> HIDE DEF step, Upto
<1>6. \A k : \A q : In(k, q) => q \in Sets(n)
  BY DEF Sound
<1>7. r \in Sets(n)
  BY <1>4, <1>6
<1>8. PICK g \in [0 .. m -> Sets(n)] : g[0] = r /\ \A k \in 1 .. m : g[k] = step(g[k - 1], k)
  <2>1. \A k \in 1 .. m : \A q \in Sets(n) : G[<<k, q>>] = step(q, k)
    OBVIOUS
  <2>2. J \in SUBSET ((0 .. m) \X Sets(n))
    OBVIOUS
  <2>3. <<0, r>> \in J
    BY <1>4, <1>7
  <2>4. ASSUME NEW k \in 1 .. m, NEW q \in Sets(n), <<k - 1, q>> \in J PROVE <<k, G[<<k, q>>]>> \in J
    <3>1. In(k - 1, q)
      BY <2>4
    <3>2. In(k, step(q, k))
      BY <1>5, <3>1
    <3>3. k \in 0 .. m /\ step(q, k) \in Sets(n)
      BY <1>6, <3>2
    <3> QED BY <2>1, <3>2, <3>3
  <2> HIDE DEF J, G
  <2>5. Kept(J, G, Sets(n), r, m)
    BY <2>2, <2>3, <2>4 DEF Kept
  <2>6. m \in Nat
    OBVIOUS
  <2>7. \E g \in [0 .. m -> Sets(n)] : Iterated(g, G, r, m)
    BY ONLY <1>7, <2>5, <2>6, Iterates
  <2>8. PICK g \in [0 .. m -> Sets(n)] : Iterated(g, G, r, m)
    BY <2>7
  <2>9. ASSUME NEW k \in 1 .. m PROVE g[k] = step(g[k - 1], k)
    <3>1. k - 1 \in 0 .. m
      OBVIOUS
    <3> QED BY <2>1, <2>8, <3>1 DEF Iterated
  <2> QED BY <2>8, <2>9 DEF Iterated
<1>9. g = [k \in 0 .. m |-> IF k = 0 THEN r ELSE step(g[k - 1], k)]
  <2>1. ASSUME NEW k \in 0 .. m, k # 0 PROVE g[k] = step(g[k - 1], k)
    <3>1. k \in 1 .. m
      BY <2>1
    <3> QED BY <1>8, <3>1
  <2> QED BY <1>8, <2>1
<1>10. f = [k \in 0 .. m |-> IF k = 0 THEN r ELSE step(f[k - 1], k)]
  BY <1>9 DEF f
<1> HIDE DEF In, J, G
<1>11. In(m, f[m])
  <2> DEFINE N == {k \in 0 .. m : In(k, f[k])}
  <2>1. 0 \in N
    BY <1>4, <1>10
  <2>2. ASSUME NEW k \in 1 .. m, k - 1 \in N PROVE k \in N
    <3>1. k \in 0 .. m /\ k # 0 /\ f[k] = step(f[k - 1], k)
      BY <1>10
    <3> QED BY <1>5, <2>2, <3>1
  <2>3. N \in SUBSET (0 .. m) /\ m \in Nat
    OBVIOUS
  <2> HIDE DEF N
  <2>4. N = 0 .. m
    BY ONLY <2>1, <2>2, <2>3, Reaches
  <2>5. m \in N
    BY <2>4
  <2> QED BY <2>5 DEF N
<1>12. Upto(m) = All(s)
  BY <1>2 DEF Upto
<1> QED BY <1>3, <1>11, <1>12 DEF In
-----------------------------------------------------------------------------
(* The inductive invariant: a sound table of one of the sizes, not too full.   *)

Inv ==
    /\ IsHash(hash)
    /\ \E i \in 2 .. Last : Sound(hash, set, tableSizes[i]) /\ Cardinality(All(set)) <= Limit(tableSizes[i])

LEMMA SizeFacts ==
    ASSUME NEW i \in 2 .. Last
    PROVE  tableSizes[i] \in Nat \ {0} /\ Limit(tableSizes[i]) \in Nat /\ Limit(tableSizes[i]) < tableSizes[i]
<1>1. i \in 1 .. Last
  BY SizesFacts
<1>2. tableSizes[i] \in Nat /\ (tableSizes[i] = 3 \/ tableSizes[i] >= 7)
  BY <1>1, SizesFacts
<1> DEFINE m == tableSizes[i]
<1> HIDE DEF m
<1>3. m \in Nat /\ (m = 3 \/ m >= 7)
  BY <1>2 DEF m
<1>4. Limit(m) \in Nat /\ Limit(m) < m
  BY ONLY <1>3, LimitFacts
<1>5. m \in Nat \ {0}
  BY <1>3
<1> QED BY <1>4, <1>5 DEF m

\* What was put into a table fits it or the next one.
LEMMA FitFacts ==
    ASSUME IsHash(hash), NEW i \in 2 .. Last, NEW s, Sound(hash, s, tableSizes[i]),
           Cardinality(All(s)) <= Limit(tableSizes[i]) + 1
    PROVE  /\ All(Fit(s)) = All(s)
           /\ \E j \in 2 .. Last : Sound(hash, Fit(s), tableSizes[j]) /\ Cardinality(All(Fit(s))) <= Limit(tableSizes[j])
<1> DEFINE m == tableSizes[i]
<1>1. m \in Nat \ {0} /\ Limit(m) \in Nat /\ Limit(m) < m
  BY SizeFacts
<1>2. s \in Sets(m) /\ Unique(s.table) /\ s.itemCount = Cardinality(All(s))
  BY DEF Sound
<1>3. s.size = m /\ Cardinality(All(s)) \in Nat
  BY <1>1, <1>2, AllFacts
<1>4. CASE ~ (s.itemCount > Limit(m))
  <2>1. Fit(s) = s
    BY <1>3, <1>4 DEF Fit
  <2>2. Cardinality(All(s)) <= Limit(m)
    BY <1>1, <1>2, <1>3, <1>4
  <2> QED BY <2>1, <2>2
<1>5. CASE s.itemCount > Limit(m)
  <2>0. Last = 49 /\ DOMAIN tableSizes = 1 .. Last
    BY SizesFacts
  <2>1. i # Last
    <3>1. m \in Nat
      BY <1>1
    <3>2. Cardinality(All(s)) <= Cardinality(Keys)
      BY ONLY <1>2, <3>1, NotMoreThanKeys
    <3>3. Cardinality(Keys) \in Nat /\ Cardinality(Keys) <= Limit(tableSizes[Last])
      <4>1. IsFiniteSet(Keys) /\ Cardinality(Keys) <= Limit(tableSizes[Last])
        BY HashSetAssumption DEF Last
      <4> QED BY <4>1, FS_CardinalityType
    <3> QED BY <1>1, <1>2, <1>3, <1>5, <3>2, <3>3
  <2>2. i \in 1 .. Last - 1 /\ i + 1 \in 2 .. Last /\ i \in 2 .. Last - 1
    BY <2>0, <2>1
  <2>3. m <= tableSizes[Last - 1]
    <3>1. Last - 1 \in 1 .. Last /\ i \in 1 .. Last - 1
      BY <2>0, <2>2
    <3> QED BY ONLY <3>1, SizesGrow
  <2> DEFINE n == tableSizes[i + 1]
  <2>4. New(m) = EmptySet(n)
    <3>1. m \in Nat
      BY <1>1
    <3>2. \E k \in 1 .. Last - 1 : New(m) = EmptySet(tableSizes[k + 1])
                                    /\ \A j \in 1 .. Last - 1 : m = tableSizes[j] => k = j
      BY <2>3, <3>1, NewFacts DEF EmptySet
    <3> QED BY <2>2, <3>2
  <2>5. n \in Nat \ {0} /\ Limit(n) \in Nat /\ Limit(n) < n
    BY <2>2, SizeFacts
  <2>6. m + 3 <= n
    BY <2>2, SizesFacts
  <2> HIDE DEF m, n
  <2>7. Limit(m) + 1 <= Limit(n)
    <3>1. m \in Nat /\ n \in Nat
      BY <1>1, <2>5
    <3> QED BY ONLY <2>6, <3>1, LimitFacts
  <2>8. Fit(s) = Union(EmptySet(n), s)
    BY <1>3, <1>5, <2>4 DEF Fit
  <2>9. Cardinality(All(s)) <= Limit(m) + 1
    BY DEF m
  <2>10. Cardinality(All(s)) <= Limit(n) /\ Cardinality(All(s)) < n
    BY <1>1, <1>3, <2>5, <2>7, <2>9
  <2>11. Sound(hash, EmptySet(n), n) /\ All(EmptySet(n)) = {}
    BY <2>5, EmptySetFacts
  <2>12. Sound(hash, s, m)
    BY DEF m
  <2>13. Sound(hash, Fit(s), n) /\ All(Fit(s)) = All(s)
    BY <1>1, <2>5, <2>8, <2>10, <2>11, <2>12, UnionFacts
  <2> QED BY <2>2, <2>10, <2>13 DEF n
<1> QED BY <1>4, <1>5

LEMMA AddFacts ==
    ASSUME Inv, NEW item \in Items
    PROVE  /\ All(AddTo(set, item)) = {t \in All(set) : t.key # item.key} \union {item}
           /\ \E j \in 2 .. Last : /\ Sound(hash, AddTo(set, item), tableSizes[j])
                                   /\ Cardinality(All(AddTo(set, item))) <= Limit(tableSizes[j])
<1>1. PICK i \in 2 .. Last : Sound(hash, set, tableSizes[i]) /\ Cardinality(All(set)) <= Limit(tableSizes[i])
  BY DEF Inv
<1> DEFINE m == tableSizes[i]
           P == Put(set, item)
<1>2. m \in Nat \ {0} /\ Limit(m) \in Nat /\ Limit(m) < m
  BY SizeFacts
<1>3. Cardinality(All(set)) \in Nat
  BY <1>1, <1>2, AllFacts DEF Sound
<1>4. IsHash(hash)
  BY DEF Inv
<1>5. Cardinality(All(set)) < m
  BY <1>1, <1>2, <1>3
<1>6. /\ Sound(hash, P, m)
      /\ All(P) = {t \in All(set) : t.key # item.key} \union {item}
      /\ Cardinality(All(P)) <= Cardinality(All(set)) + 1
  <2> HIDE DEF m
  <2>1. Sound(hash, set, m)
    BY <1>1 DEF m
  <2> QED BY <1>2, <1>4, <1>5, <2>1, PutFacts
<1>7. Cardinality(All(P)) \in Nat
  BY <1>2, <1>6, AllFacts DEF Sound
<1> HIDE DEF P
<1>8. Cardinality(All(P)) <= Limit(m) + 1
  BY <1>1, <1>2, <1>3, <1>6, <1>7
<1>9. AddTo(set, item) = Fit(P)
  BY DEF AddTo, P
<1> QED BY <1>4, <1>6, <1>8, <1>9, FitFacts

LEMMA DeleteFacts ==
    ASSUME Inv, NEW item \in Items
    PROVE  /\ All(RemoveFrom(set, item)) = {t \in All(set) : t.key # item.key}
           /\ \E j \in 2 .. Last : /\ Sound(hash, RemoveFrom(set, item), tableSizes[j])
                                   /\ Cardinality(All(RemoveFrom(set, item))) <= Limit(tableSizes[j])
<1>1. PICK i \in 2 .. Last : Sound(hash, set, tableSizes[i]) /\ Cardinality(All(set)) <= Limit(tableSizes[i])
  BY DEF Inv
<1> DEFINE m == tableSizes[i]
           R == RemoveFrom(set, item)
<1>2. m \in Nat \ {0} /\ Limit(m) \in Nat /\ Limit(m) < m
  BY SizeFacts
<1>3. Cardinality(All(set)) \in Nat /\ IsFiniteSet(All(set))
  BY <1>1, <1>2, AllFacts DEF Sound
<1>4. IsHash(hash)
  BY DEF Inv
<1>5. Cardinality(All(set)) < m
  BY <1>1, <1>2, <1>3
<1>6. Sound(hash, R, m) /\ All(R) = {t \in All(set) : t.key # item.key}
  <2> HIDE DEF m
  <2>1. Sound(hash, set, m)
    BY <1>1 DEF m
  <2> QED BY <1>2, <1>4, <1>5, <2>1, RemoveFacts
<1>7. Cardinality(All(R)) \in Nat
  BY <1>2, <1>6, AllFacts DEF Sound
<1> HIDE DEF R
<1>8. Cardinality(All(R)) <= Cardinality(All(set))
  <2>1. All(R) \in SUBSET All(set) /\ IsFiniteSet(All(set))
    BY <1>3, <1>6
  <2> QED BY ONLY <2>1, FS_Subset
<1>9. Cardinality(All(R)) <= Limit(m)
  BY <1>1, <1>2, <1>3, <1>7, <1>8
<1> QED BY <1>6, <1>9 DEF R

LEMMA ClearFacts ==
    ASSUME Inv, Clear
    PROVE  /\ All(set') = {}
           /\ \E j \in 2 .. Last : Sound(hash, set', tableSizes[j]) /\ Cardinality(All(set')) <= Limit(tableSizes[j])
<1>1. PICK i \in 2 .. Last : Sound(hash, set, tableSizes[i]) /\ Cardinality(All(set)) <= Limit(tableSizes[i])
  BY DEF Inv
<1> DEFINE m == tableSizes[i]
           E == [b \in 0 .. m - 1 |-> NoItem]
<1>2. m \in Nat \ {0} /\ Limit(m) \in Nat
  BY SizeFacts
<1>3. set \in Sets(m)
  BY <1>1 DEF Sound
<1> HIDE DEF m
<1>4. DOMAIN set.table = 0 .. m - 1
  BY <1>2, <1>3, AllFacts
<1>5. set' = [set EXCEPT !.table = E, !.itemCount = 0]
  BY <1>3, <1>4 DEF Clear, Sets
<1> HIDE DEF E
<1>6. set' = EmptySet(m)
  BY <1>3, <1>5 DEF Sets, EmptySet, E
<1>7. Sound(hash, EmptySet(m), m) /\ All(EmptySet(m)) = {} /\ Cardinality(All(EmptySet(m))) = 0
  BY <1>2, EmptySetFacts
<1> QED BY <1>2, <1>6, <1>7 DEF m

LEMMA InitInv ==
    Init => Inv /\ All(set) = {}
<1> SUFFICES ASSUME Init PROVE Inv /\ All(set) = {}
  OBVIOUS
<1>1. PICK c \in Capacities : set = New(c)
  BY DEF Init
<1>2. c \in Nat /\ c <= tableSizes[Last - 1]
  BY HashSetAssumption DEF Last
<1>3. PICK k \in 1 .. Last - 1 : New(c) = EmptySet(tableSizes[k + 1])
  BY <1>2, NewFacts DEF EmptySet
<1>4. k + 1 \in 2 .. Last
  BY SizesFacts
<1> DEFINE n == tableSizes[k + 1]
<1>5. n \in Nat /\ Limit(n) \in Nat
  BY <1>4, SizeFacts
<1>6. Sound(hash, EmptySet(n), n) /\ All(EmptySet(n)) = {} /\ Cardinality(All(EmptySet(n))) = 0
  BY <1>5, EmptySetFacts
<1>7. Sound(hash, set, n) /\ Cardinality(All(set)) <= Limit(n) /\ All(set) = {}
  BY <1>1, <1>3, <1>5, <1>6
<1>8. IsHash(hash)
  BY DEF Init, IsHash
<1> QED BY <1>4, <1>7, <1>8 DEF Inv

LEMMA NextInv ==
    Inv /\ [Next]_vars => Inv'
<1> SUFFICES ASSUME Inv, [Next]_vars PROVE Inv'
  OBVIOUS
<1>1. hash' = hash /\ IsHash(hash)
  BY DEF Inv, Next, Add, Delete, Clear, vars
<1> DEFINE Still == \E j \in 2 .. Last : /\ Sound(hash, set', tableSizes[j])
                                           /\ Cardinality(All(set')) <= Limit(tableSizes[j])
<1>2. Still
  <2>1. ASSUME NEW item \in Items, Add(item) PROVE Still
    BY <2>1, AddFacts DEF Add
  <2>2. ASSUME NEW item \in Items, Delete(item) PROVE Still
    BY <2>2, DeleteFacts DEF Delete
  <2>3. CASE Clear
    BY <2>3, ClearFacts
  <2>4. CASE UNCHANGED vars
    BY <2>4 DEF Inv, vars
  <2> QED BY <2>1, <2>2, <2>3, <2>4 DEF Next
<1> QED BY <1>1, <1>2 DEF Inv
LEMMA SpecInv == Spec => []Inv
<1>1. Init => Inv
  BY InitInv
<1> QED BY <1>1, NextInv, PTL DEF Spec

-----------------------------------------------------------------------------
(* The theorems.                                                            *)

\* The table has one of the sizes, its buckets hold items or nothing, and itemCount is the number of
\* buckets in use.
THEOREM SetTypeCorrect == Spec => []TypeOK
<1>1. Inv => TypeOK
  <2> SUFFICES ASSUME Inv PROVE TypeOK
    OBVIOUS
  <2>1. PICK i \in 2 .. Last : Sound(hash, set, tableSizes[i])
    BY DEF Inv
  <2> DEFINE m == tableSizes[i]
  <2>2. m \in Nat
    BY SizeFacts
  <2>3. set \in Sets(m) /\ Unique(set.table) /\ set.itemCount = Cardinality(All(set))
    BY <2>1 DEF Sound
  <2>4. m \in {tableSizes[j] : j \in DOMAIN tableSizes}
    BY SizesFacts
  <2> HIDE DEF m
  <2>5. set.size = m
    BY <2>3 DEF Sets
  <2>6. set.table \in [0 .. m - 1 -> Items \union {NoItem}]
    BY <2>3 DEF Sets
  <2>7. set.itemCount = Cardinality({j \in DOMAIN set.table : set.table[j] # NoItem})
    BY <2>2, <2>3, CountIs
  <2>8. hash \in [Keys -> Hashes]
    BY DEF Inv, IsHash
  <2> QED BY <2>4, <2>5, <2>6, <2>7, <2>8 DEF TypeOK
<1> QED BY <1>1, SpecInv, PTL

\* A bucket is always empty, where every loop that probes a table ends.
THEOREM SetHasRoom == Spec => [](\E i \in DOMAIN set.table : set.table[i] = NoItem)
<1>1. Inv => \E i \in DOMAIN set.table : set.table[i] = NoItem
  <2> SUFFICES ASSUME Inv PROVE \E i \in DOMAIN set.table : set.table[i] = NoItem
    OBVIOUS
  <2>1. PICK i \in 2 .. Last : Sound(hash, set, tableSizes[i]) /\ Cardinality(All(set)) <= Limit(tableSizes[i])
    BY DEF Inv
  <2> DEFINE m == tableSizes[i]
  <2>2. m \in Nat \ {0} /\ Limit(m) \in Nat /\ Limit(m) < m
    BY SizeFacts
  <2>3. set \in Sets(m) /\ Unique(set.table)
    BY <2>1 DEF Sound
  <2>4. Cardinality(All(set)) <= Limit(m)
    BY <2>1
  <2> HIDE DEF m
  <2>5. Cardinality(All(set)) \in Nat /\ DOMAIN set.table = 0 .. m - 1
    BY <2>2, <2>3, AllFacts
  <2>6. Cardinality(All(set)) < m
    BY <2>2, <2>4, <2>5
  <2> QED BY <2>2, <2>3, <2>5, <2>6, Room
<1> QED BY <1>1, SpecInv, PTL

\* A lookup returns the item of the key that the table holds, or none where it holds none.
Lookup(k) == Find(set, [key |-> k, copy |-> 1])

FoundIs == \A k \in Keys : Lookup(k) = IF Keyed!With(k) = {} THEN NoItem ELSE CHOOSE t \in Keyed!With(k) : TRUE

LEMMA LookupFacts == Inv => FoundIs
<1> SUFFICES ASSUME Inv, NEW k \in Keys
             PROVE  Lookup(k) = IF Keyed!With(k) = {} THEN NoItem ELSE CHOOSE t \in Keyed!With(k) : TRUE
  BY DEF FoundIs
<1>1. PICK i \in 2 .. Last : Sound(hash, set, tableSizes[i]) /\ Cardinality(All(set)) <= Limit(tableSizes[i])
  BY DEF Inv
<1> DEFINE m == tableSizes[i]
           item == [key |-> k, copy |-> 1]
           b == Bucket(set, item)
           W == {t \in All(set) : t.key = k}
<1>2. m \in Nat \ {0} /\ Limit(m) \in Nat /\ Limit(m) < m
  BY SizeFacts
<1>3. set \in Sets(m) /\ Unique(set.table) /\ Reached(hash, set.table, m)
  BY <1>1 DEF Sound
<1>4. Cardinality(All(set)) <= Limit(m)
  BY <1>1
<1>5. item.key = k
  OBVIOUS
<1> HIDE DEF m, item
<1>6. PICK z \in 0 .. m - 1 : set.table[z] = NoItem
  <2>1. Cardinality(All(set)) \in Nat
    BY <1>2, <1>3, AllFacts
  <2>2. Cardinality(All(set)) < m
    BY <1>2, <1>4, <2>1
  <2> QED BY <1>2, <1>3, <2>2, Room
<1>7. IsHash(hash)
  BY DEF Inv
<1>8. b \in 0 .. m - 1 /\ (set.table[b] = NoItem \/ set.table[b].key = k)
  BY <1>2, <1>3, <1>5, <1>6, <1>7, BucketFacts
<1>9. ASSUME NEW j \in 0 .. m - 1, set.table[j] # NoItem, set.table[j].key = k PROVE b = j
  BY <1>2, <1>3, <1>5, <1>6, <1>7, <1>9, BucketIs
<1>10. \A t : t \in All(set) <=> \E j \in 0 .. m - 1 : set.table[j] = t /\ t # NoItem
  BY <1>2, <1>3, AllFacts
<1>11. Lookup(k) = set.table[b]
  BY DEF Lookup, Find, item
<1>12. Keyed!With(k) = W
  BY DEF Keyed!With, KeyOf
<1> HIDE DEF b
<1>13. CASE set.table[b] = NoItem
  <2>1. W = {}
    BY <1>9, <1>10, <1>13
  <2> QED BY <1>11, <1>12, <1>13, <2>1
<1>14. CASE set.table[b] # NoItem
  <2>1. W = {set.table[b]}
    BY <1>8, <1>9, <1>10, <1>14
  <2>2. (CHOOSE t \in W : TRUE) = set.table[b] /\ W # {}
    BY <2>1
  <2> QED BY <1>11, <1>12, <2>2
<1> QED BY <1>13, <1>14

\* Whatever the keys, the hash function, the collisions and the growth of the table are, it holds the
\* last item added of every key that was not removed since, and lookups find it.
THEOREM SetIsKeyed == Spec => IsKeyedSet
<1> DEFINE found == [k \in Keys |-> Lookup(k)]
<1>1. Init => Keyed!Init
  <2> SUFFICES ASSUME Init PROVE Keyed!Init
    OBVIOUS
  <2>1. Inv /\ All(set) = {}
    BY InitInv
  <2>2. \A k \in Keys : Keyed!With(k) = {}
    BY <2>1 DEF Keyed!With
  <2>3. FoundIs
    BY <2>1, LookupFacts
  <2>4. \A k \in Keys : Lookup(k) = NoItem
    BY <2>2, <2>3 DEF FoundIs
  <2>5. found = [k \in Keys |-> NoItem]
    BY <2>4
  <2> QED BY <2>1, <2>5 DEF Keyed!Init, Lookup
<1>2. Inv /\ FoundIs' /\ [Next]_vars => [Keyed!Next]_<<All(set), found>>
  <2> SUFFICES ASSUME Inv, FoundIs', [Next]_vars PROVE [Keyed!Next]_<<All(set), found>>
    OBVIOUS
  <2>1. found' = [k \in Keys |-> IF Keyed!With(k)' = {} THEN NoItem ELSE CHOOSE t \in Keyed!With(k)' : TRUE]
    BY DEF FoundIs
  <2>2. ASSUME NEW item \in Items, Add(item) PROVE Keyed!Add(item)
    <3>1. All(set)' = {t \in All(set) : t.key # item.key} \union {item}
      BY <2>2, AddFacts DEF Add
    <3>2. All(set) \ Keyed!With(KeyOf(item)) = {t \in All(set) : t.key # item.key}
      BY DEF Keyed!With, KeyOf
    <3> QED BY <3>1, <3>2 DEF Keyed!Add
  <2>3. ASSUME NEW item \in Items, Delete(item) PROVE Keyed!Remove(item)
    <3>1. All(set)' = {t \in All(set) : t.key # item.key}
      BY <2>3, DeleteFacts DEF Delete
    <3>2. All(set) \ Keyed!With(KeyOf(item)) = {t \in All(set) : t.key # item.key}
      BY DEF Keyed!With, KeyOf
    <3> QED BY <3>1, <3>2 DEF Keyed!Remove
  <2>4. CASE Clear
    <3>1. All(set)' = {}
      BY <2>4, ClearFacts
    <3>2. Keyed!Clear
      BY <3>1 DEF Keyed!Clear
    <3> QED BY <2>1, <3>2 DEF Keyed!Next, Lookup
  <2>5. CASE UNCHANGED vars
    BY <2>5 DEF vars, All, Lookup, Find, Bucket, First, After
  <2> QED BY <2>1, <2>2, <2>3, <2>4, <2>5 DEF Next, Keyed!Next, Lookup
<1>3. Spec => []FoundIs
  BY SpecInv, LookupFacts, PTL
<1> QED BY <1>1, <1>2, <1>3, SpecInv, PTL DEF Spec, IsKeyedSet, Keyed!Spec, Lookup
=============================================================================
