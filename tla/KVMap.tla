------------------------------- MODULE KVMap -------------------------------
(***************************************************************************)
(* What internal/btree.BTree promises its callers (btree_test.go and the  *)
(* doc comments of btree.go): a finite map from keys to values.  Insert   *)
(* adds an absent key and refuses a present one, Delete removes a present *)
(* key, Get returns the value last inserted for the key.                  *)
(***************************************************************************)
EXTENDS Naturals

CONSTANTS Key, Val

VARIABLE store

Init == store = [k \in {} |-> 0]

Insert(k, v) ==
    /\ k \notin DOMAIN store
    /\ store' = [x \in DOMAIN store \cup {k} |-> IF x = k THEN v ELSE store[x]]

Delete(k) ==
    /\ k \in DOMAIN store
    /\ store' = [x \in DOMAIN store \ {k} |-> store[x]]

Next == \E k \in Key : \/ \E v \in Val : Insert(k, v)
                       \/ Delete(k)

Spec == Init /\ [][Next]_store
=============================================================================
