--------------------------------- MODULE HashSet ---------------------------------
(***************************************************************************)
(* BRSet.c, the linear-probed hash table that holds the wallet's            *)
(* transactions and addresses, the peer manager's blocks and orphans and    *)
(* the peers' known hashes.  Two items are equal, and then have one hash,   *)
(* if they have one key; the hash function is any function of the keys.     *)
(***************************************************************************)
EXTENDS Integers, Sequences, FiniteSets

CONSTANTS Keys, Copies,  \* an item is one of the equal copies of its key
          Hashes,        \* bound: the hash values
          Capacities     \* bound: what a set is made for

VARIABLES set,           \* BRSetStruct: table, size (its domain) and itemCount
          hash           \* the hash function

vars == <<set, hash>>

Items  == [key : Keys, copy : Copies]
NoItem == [key |-> "none", copy |-> 0]

\* but for the last two, which are beyond TLC's numbers
tableSizes == <<
    1, 3, 7, 13, 23, 37, 59, 97, 149, 227, 347, 523, 787, 1187, 1783, 2677, 4019, 6037, 9059, 13591,
    20389, 30593, 45887, 68863, 103307, 154981, 232487, 348739, 523129, 784697, 1177067, 1765609,
    2648419, 3972643, 5958971, 8938469, 13407707, 20111563, 30167359, 45251077, 67876637, 101814991,
    152722489, 229083739, 343625629, 515438447, 773157683, 1159736527, 1739604799>>

Limit(size) == ((size + 2) \div 3) * 2   \* more items make a table grow

\* No set is made for, or gets, more items than the largest table has room for.
ASSUME HashSetAssumption ==
    /\ NoItem.key \notin Keys /\ IsFiniteSet(Keys) /\ Cardinality(Keys) <= Limit(tableSizes[Len(tableSizes)])
    /\ Hashes \subseteq Nat
    /\ Capacities \subseteq Nat /\ \A c \in Capacities : c <= tableSizes[Len(tableSizes) - 1]

TypeOK ==
    /\ hash \in [Keys -> Hashes]
    /\ set.size \in {tableSizes[i] : i \in DOMAIN tableSizes}
    /\ set.table \in [0 .. set.size - 1 -> Items \union {NoItem}]
    /\ set.itemCount = Cardinality({i \in DOMAIN set.table : set.table[i] # NoItem})

\* Place i of tableSizes is the first that is not below the capacity: the table has the next size.
New(capacity) ==
    LET i    == CHOOSE j \in DOMAIN tableSizes :
                    tableSizes[j] >= capacity /\ \A k \in 1 .. j - 1 : tableSizes[k] < capacity
        size == tableSizes[i + 1]
    IN [size |-> size, table |-> [b \in 0 .. size - 1 |-> NoItem], itemCount |-> 0]

-----------------------------------------------------------------------------
\* The bucket where probing begins, and the one d steps after another.
First(s, key)  == hash[key] % s.size
After(s, b, d) == (b + d) % s.size

\* The bucket where probing for an item ends: the first that is empty or holds its equal.
Bucket(s, item) ==
    LET at(d)   == After(s, First(s, item.key), d)
        ends(d) == s.table[at(d)] = NoItem \/ s.table[at(d)].key = item.key
    IN at(CHOOSE d \in 0 .. s.size - 1 : ends(d) /\ \A e \in 0 .. d - 1 : ~ends(e))

\* BRSetGet, BRSetContains
Find(s, item) == s.table[Bucket(s, item)]

\* BRSetAdd but for the growth
Put(s, item) ==
    [s EXCEPT !.table[Bucket(s, item)] = item,
              !.itemCount = IF Find(s, item) = NoItem THEN @ + 1 ELSE @]

\* BRSetUnion, of r with s, bucket by bucket; _BRSetGrow has made r so that it does not grow
Union(r, s) ==
    LET upTo[n \in 0 .. s.size] ==
            IF n = 0 THEN r
            ELSE IF s.table[n - 1] = NoItem THEN upTo[n - 1]
            ELSE Put(upTo[n - 1], s.table[n - 1])
    IN upTo[s.size]

\* _BRSetGrow
Fit(s) == IF s.itemCount > Limit(s.size) THEN Union(New(s.size), s) ELSE s

AddTo(s, item) == Fit(Put(s, item))

Emptied(s, b) == [s EXCEPT !.table[b] = NoItem, !.itemCount = @ - 1]

\* wrong on purpose: the items behind the removed one stay where they are
RemoveAlone(s, item) == IF Find(s, item) = NoItem THEN s ELSE Emptied(s, Bucket(s, item))

\* The items behind the removed one, up to the next empty bucket, are added anew.
RemoveFrom(s, item) ==
    LET b         == Bucket(s, item)
        behind(d) == After(s, b, d)
        run       == (CHOOSE d \in 1 .. s.size : /\ s.table[behind(d)] = NoItem \/ d = s.size
                                                 /\ \A e \in 1 .. d - 1 : s.table[behind(e)] # NoItem) - 1
        again[d \in 0 .. run] ==
            IF d = 0 THEN Emptied(s, b)
            ELSE Put(Emptied(again[d - 1], behind(d)), again[d - 1].table[behind(d)])
    IN IF s.table[b] = NoItem THEN s ELSE again[run]

-----------------------------------------------------------------------------
Init ==
    /\ hash \in [Keys -> Hashes]
    /\ \E c \in Capacities : set = New(c)

Add(item) ==
    /\ set' = AddTo(set, item)
    /\ UNCHANGED hash

Delete(item) ==
    /\ set' = RemoveFrom(set, item)
    /\ UNCHANGED hash

Clear ==
    /\ set' = [set EXCEPT !.table = [b \in DOMAIN @ |-> NoItem], !.itemCount = 0]
    /\ UNCHANGED hash

Next ==
    \/ \E item \in Items : Add(item) \/ Delete(item)
    \/ Clear

Spec == Init /\ [][Next]_vars

-----------------------------------------------------------------------------
\* Whatever was added, removed and replaced, in whatever order, with whatever collisions and growth,
\* the table holds the last item added of every key that was not removed since, and finds it.
KeyOf(item) == item.key

\* BRSetAll, BRSetApply, in whatever order
All(s) == {s.table[b] : b \in DOMAIN s.table} \ {NoItem}

Keyed == INSTANCE KeyedSet WITH Key     <- KeyOf,
                                content <- All(set),
                                found   <- [k \in Keys |-> Find(set, [key |-> k, copy |-> 1])]

IsKeyedSet == Keyed!Spec
================================================================================
