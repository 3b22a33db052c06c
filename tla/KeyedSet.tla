-------------------------------- MODULE KeyedSet --------------------------------
(***************************************************************************)
(* What a BRSet promises: one item per key, and looking a key up finds it,   *)
(* whatever the table, its size and the hash function are.                   *)
(***************************************************************************)
CONSTANTS Items, Keys, Key(_), NoItem

VARIABLES content,      \* the items of the set
          found         \* found[k]: what a lookup of k returns

With(key) == {t \in content : Key(t) = key}

Init == content = {} /\ found = [k \in Keys |-> NoItem]

Add(item)    == content' = (content \ With(Key(item))) \union {item}
Remove(item) == content' = content \ With(Key(item))
Clear        == content' = {}

Next ==
    /\ \/ \E item \in Items : Add(item) \/ Remove(item)
       \/ Clear
    /\ found' = [k \in Keys |-> IF With(k)' = {} THEN NoItem ELSE CHOOSE t \in With(k)' : TRUE]

Spec == Init /\ [][Next]_<<content, found>>
================================================================================
