-------------------------------- MODULE BTree --------------------------------
(***************************************************************************)
(* The in-memory B+tree of internal/btree (btree.go, node.go).            *)
(*                                                                         *)
(* A Node is a record [leaf, keys, vals, kids].  Child pointers are node  *)
(* IDs looked up in the global nodeRelationships map; every node gets one *)
(* ID and no two parents ever hold the same ID, so the tree is a value    *)
(* here and a node is addressed by its path of (1-based) child indexes.   *)
(* A pointer of 0 (the padding setChild appends) is Zero: getChild turns  *)
(* it into a fresh empty leaf that is not part of the tree.  A child      *)
(* index past len(pointers) makes getChild return nil, and the next       *)
(* n.typ dereference panics: `crashed`.                                   *)
(*                                                                         *)
(* Keys are one byte long.  A value is modelled by its length in bytes    *)
(* (its bytes play no part in the tree's control); an internal entry has  *)
(* a value of length 0, as insertKV(pos, key, nil) writes it.             *)
(***************************************************************************)
EXTENDS Naturals, Sequences, SequencesExt, FiniteSets

CONSTANTS Key,                 \* keys, a set of naturals (one byte each)
          Val,                 \* value lengths the clients write
          BTREE_PAGE_SIZE,
          BTREE_MAX_VAL_SIZE

KEY_LEN == 1

\* A node holding a single entry is never full, as with the code's
\* constants (4 + 2 + 4 + 1000 + 3000 < 4096); so Split never meets a node
\* of fewer than two keys.
ASSUME /\ Key \subseteq Nat /\ Val \subseteq 0..BTREE_MAX_VAL_SIZE
       /\ 4 + 2 + 4 + KEY_LEN + BTREE_MAX_VAL_SIZE < BTREE_PAGE_SIZE
       /\ 4 + 2 * 8 + 2 + 4 + KEY_LEN < BTREE_PAGE_SIZE

Zero == [zero |-> TRUE]

VARIABLES tree, size, crashed

vars == <<tree, size, crashed>>

\* NewNode(BNODE_LEAF)
EmptyLeaf == [leaf |-> TRUE, keys |-> <<>>, vals |-> <<>>, kids |-> <<>>]

\* Node.Size: header, 8 bytes per pointer, 2 per offset, and each entry
\* |klen(2)|vlen(2)|key|val|.
NodeSize(n) ==
    4 + 8 * Len(n.kids) + 2 * Len(n.keys)
      + FoldLeft(LAMBDA acc, v : acc + 4 + KEY_LEN + v, 0, n.vals)

IsFull(n) == NodeSize(n) >= BTREE_PAGE_SIZE

RECURSIVE NodeAt(_, _)
NodeAt(t, path) == IF path = <<>> THEN t ELSE NodeAt(t.kids[Head(path)], Tail(path))

RECURSIVE SetAt(_, _, _)
SetAt(t, path, n) ==
    IF path = <<>> THEN n
    ELSE [t EXCEPT !.kids[Head(path)] = SetAt(@, Tail(path), n)]

\* The loop of findLeaf and of insertInParent: the first key greater than
\* `key` picks its child (1-based), none picks the last one.
ChildIdx(n, key) ==
    LET j == SelectInSeq(n.keys, LAMBDA k : key < k)
    IN IF j = 0 THEN Len(n.keys) + 1 ELSE j

\* findLeaf from the root.  res is "leaf" (path is a leaf of the tree),
\* "zero" (getChild made a fresh empty leaf) or "nil" (the walk panics).
RECURSIVE FindLeafFrom(_, _, _)
FindLeafFrom(n, key, path) ==
    IF n.leaf THEN [path |-> path, res |-> "leaf"]
    ELSE LET i == ChildIdx(n, key) IN
         IF i > Len(n.kids) THEN [path |-> path, res |-> "nil"]
         ELSE IF n.kids[i] = Zero THEN [path |-> path, res |-> "zero"]
         ELSE FindLeafFrom(n.kids[i], key, Append(path, i))

FindLeaf(t, key) == FindLeafFrom(t, key, <<>>)

\* insertKV at 1-based position pos.
InsertKV(n, pos, key, val) ==
    [n EXCEPT !.keys = InsertAt(@, pos, key), !.vals = InsertAt(@, pos, val)]

\* setChild at 1-based position i: overwrites an existing pointer, or pads
\* with 0 pointers up to i.
SetChild(kids, i, c) ==
    IF i <= Len(kids) THEN ReplaceAt(kids, i, c)
    ELSE kids \o [j \in 1..(i - Len(kids) - 1) |-> Zero] \o <<c>>

\* Node.Split: the first nkeys/2 entries (and, for an internal node, as
\* many pointers) stay, the rest move right; the promoted key is the first
\* key of the right node and stays there.  ok is FALSE when the slice
\* n.pointers[splitIdx:] is out of range (a panic).
Split(n) ==
    LET s == Len(n.keys) \div 2
        nk == Len(n.keys)
        np == Len(n.kids)
    IN [ok    |-> n.leaf \/ s <= np,
        left  |-> [n EXCEPT !.keys = SubSeq(@, 1, s), !.vals = SubSeq(@, 1, s),
                            !.kids = IF n.leaf THEN @ ELSE SubSeq(@, 1, s)],
        right |-> [leaf |-> n.leaf, keys |-> SubSeq(n.keys, s + 1, nk),
                   vals |-> SubSeq(n.vals, s + 1, nk),
                   kids |-> IF n.leaf THEN <<>> ELSE SubSeq(n.kids, s + 1, np)],
        key   |-> n.keys[s + 1]]

\* A variant with one plausible bug, used to show AllLeavesSameDepth is
\* sensitive to it: the split is pushed into the root (findParent skipped)
\* instead of into the split node's own parent.
RECURSIVE InsertInParentAtRoot(_, _, _, _)
InsertInParentAtRoot(t, path, key, new) ==
    IF path = <<>>
    THEN [ok |-> TRUE,
          tree |-> [leaf |-> FALSE, keys |-> <<key>>, vals |-> <<0>>,
                    kids |-> <<t, new>>]]
    ELSE LET pos == ChildIdx(t, key)
             p1 == [InsertKV(t, pos, key, 0) EXCEPT !.kids = SetChild(@, pos + 1, new)]
             sp == Split(p1)
         IN IF ~IsFull(p1) THEN [ok |-> TRUE, tree |-> p1]
            ELSE IF ~sp.ok THEN [ok |-> FALSE, tree |-> p1]
            ELSE InsertInParentAtRoot(sp.left, <<>>, sp.key, sp.right)

\* insertInParent(oldNode at path, key, newNode), recursively up to a new
\* root.  Returns the tree and whether no panic happened on the way.
RECURSIVE InsertInParent(_, _, _, _)
InsertInParent(t, path, key, new) ==
    IF path = <<>>
    THEN [ok |-> TRUE,
          tree |-> [leaf |-> FALSE, keys |-> <<key>>, vals |-> <<0>>,
                    kids |-> <<t, new>>]]
    ELSE LET pp == Front(path)
             pos == ChildIdx(NodeAt(t, pp), key)
             p1 == [InsertKV(NodeAt(t, pp), pos, key, 0)
                      EXCEPT !.kids = SetChild(@, pos + 1, new)]
             sp == Split(p1)
         IN IF ~IsFull(p1) THEN [ok |-> TRUE, tree |-> SetAt(t, pp, p1)]
            ELSE IF ~sp.ok THEN [ok |-> FALSE, tree |-> SetAt(t, pp, p1)]
            ELSE InsertInParent(SetAt(t, pp, sp.left), pp, sp.key, sp.right)

TypeOK ==
    /\ tree.leaf \in BOOLEAN
    /\ size \in Nat
    /\ crashed \in BOOLEAN

Init ==
    /\ tree = EmptyLeaf
    /\ size = 0
    /\ crashed = FALSE

(***************************************************************************)
(* BTree.Insert(key, value).  The value fits (len <= MAX_VAL_SIZE; keys    *)
(* are one byte).  findLeaf first: a nil child panics; a 0 pointer hands  *)
(* back a fresh leaf, and the entry goes into that throwaway node (a      *)
(* single entry never fills it) while size still grows.  In a leaf of the *)
(* tree a present key is refused ("key already exists"); otherwise the    *)
(* entry is inserted in order and a full leaf is split once and the split *)
(* propagated by insertInParent.                                          *)
(***************************************************************************)
\* A variant with one plausible bug, used to show LeafKeysSorted is
\* sensitive to it: the entry goes one place past the first larger key.
InsertInLeafPastLarger(path, leaf, k, v) ==
    LET j == SelectInSeq(leaf.keys, LAMBDA x : k <= x)
        pos == IF j = 0 THEN Len(leaf.keys) + 1 ELSE j + 1
        l1 == InsertKV(leaf, pos, k, v)
        sp == Split(l1)
        up == InsertInParent(SetAt(tree, path, sp.left), path, sp.key, sp.right)
    IN /\ j # 0 => leaf.keys[j] # k
       /\ IF ~IsFull(l1)
          THEN /\ tree' = SetAt(tree, path, l1)
               /\ size' = size + 1
               /\ UNCHANGED crashed
          ELSE /\ tree' = up.tree
               /\ crashed' = ~up.ok
               /\ size' = IF up.ok THEN size + 1 ELSE size

InsertInLeaf(path, leaf, k, v) ==
    LET j == SelectInSeq(leaf.keys, LAMBDA x : k <= x)
        pos == IF j = 0 THEN Len(leaf.keys) + 1 ELSE j
        l1 == InsertKV(leaf, pos, k, v)
        sp == Split(l1)
        up == InsertInParent(SetAt(tree, path, sp.left), path, sp.key, sp.right)
    IN /\ j # 0 => leaf.keys[j] # k
       /\ IF ~IsFull(l1)
          THEN /\ tree' = SetAt(tree, path, l1)
               /\ size' = size + 1
               /\ UNCHANGED crashed
          ELSE /\ tree' = up.tree
               /\ crashed' = ~up.ok
               /\ size' = IF up.ok THEN size + 1 ELSE size

Insert(k, v) ==
    LET f == FindLeaf(tree, k) IN
    /\ ~crashed
    /\ v <= BTREE_MAX_VAL_SIZE
    /\ \/ /\ f.res = "nil"
          /\ crashed' = TRUE
          /\ UNCHANGED <<tree, size>>
       \/ /\ f.res = "zero"
          /\ size' = size + 1
          /\ UNCHANGED <<tree, crashed>>
       \/ /\ f.res = "leaf"
          /\ InsertInLeaf(f.path, NodeAt(tree, f.path), k, v)

\* A variant with one plausible bug, used to show TypeOK is sensitive to
\* it: the "key not found" return is missing and size drops anyway.
DeleteWithoutFoundCheck(k) ==
    LET f == FindLeaf(tree, k)
        leaf == NodeAt(tree, f.path)
        j == SelectInSeq(leaf.keys, LAMBDA x : x = k)
    IN
    /\ ~crashed
    /\ \/ /\ f.res = "nil"
          /\ crashed' = TRUE
          /\ UNCHANGED <<tree, size>>
       \/ /\ f.res = "leaf"
          /\ tree' = SetAt(tree, f.path, [leaf EXCEPT !.keys = RemoveAt(@, j),
                                                      !.vals = RemoveAt(@, j)])
          /\ size' = size - 1
          /\ UNCHANGED crashed

(***************************************************************************)
(* BTree.Delete(key).  findLeaf, then removeKV of the first equal key.    *)
(* rebalance of an emptied non-root leaf finds its parent and position    *)
(* and calls redistribute or merge, both of which are empty: it changes   *)
(* nothing.  A missing key ("key not found") changes nothing either.      *)
(***************************************************************************)
Delete(k) ==
    LET f == FindLeaf(tree, k)
        leaf == NodeAt(tree, f.path)
        j == SelectInSeq(leaf.keys, LAMBDA x : x = k)
    IN
    /\ ~crashed
    /\ \/ /\ f.res = "nil"
          /\ crashed' = TRUE
          /\ UNCHANGED <<tree, size>>
       \/ /\ f.res = "leaf"
          /\ j # 0
          /\ tree' = SetAt(tree, f.path, [leaf EXCEPT !.keys = RemoveAt(@, j),
                                                      !.vals = RemoveAt(@, j)])
          /\ size' = size - 1
          /\ UNCHANGED crashed

\* BTree.Get(key) only reads; its one effect is the panic of findLeaf.
Get(k) ==
    /\ ~crashed
    /\ FindLeaf(tree, k).res = "nil"
    /\ crashed' = TRUE
    /\ UNCHANGED <<tree, size>>

Next == \E k \in Key : \/ \E v \in Val : Insert(k, v)
                       \/ Delete(k)
                       \/ Get(k)

Spec == Init /\ [][Next]_vars

-----------------------------------------------------------------------------
(***************************************************************************)
(* The map the tree stands for: a key is in it when BTree.Get finds it    *)
(* (findLeaf reaches a leaf of the tree and the key is in that leaf).     *)
(***************************************************************************)
FoundAt(k) ==
    LET f == FindLeaf(tree, k)
    IN IF f.res = "leaf"
       THEN SelectInSeq(NodeAt(tree, f.path).keys, LAMBDA x : x = k)
       ELSE 0

Contents ==
    [k \in {x \in Key : FoundAt(x) # 0} |->
        NodeAt(tree, FindLeaf(tree, k).path).vals[FoundAt(k)]]

AbstractMap == INSTANCE KVMap WITH store <- Contents

\* The nodes of the tree (a zero pointer's throwaway leaf is not one).
RECURSIVE TreeNodes(_)
TreeNodes(n) ==
    {n} \cup UNION {TreeNodes(n.kids[i]) : i \in {j \in DOMAIN n.kids : n.kids[j] # Zero}}

\* The depths at which the tree has leaves.
RECURSIVE LeafDepths(_)
LeafDepths(n) ==
    IF n.leaf THEN {0}
    ELSE UNION {{d + 1 : d \in LeafDepths(n.kids[i])} :
                   i \in {j \in DOMAIN n.kids : n.kids[j] # Zero}}

-----------------------------------------------------------------------------
(* Properties *)

\* Every leaf holds its keys in strictly ascending order, across leaf and
\* internal splits: Get and insertInLeaf's duplicate check scan a leaf
\* linearly and stop at the first larger key.
LeafKeysSorted ==
    \A n \in TreeNodes(tree) :
        n.leaf => \A i \in 1..(Len(n.keys) - 1) : n.keys[i] < n.keys[i + 1]

\* After any sequence of inserts and deletes all leaves are at the same
\* depth (spec section 9): a new level is only ever added at the root by
\* insertInParent, whatever the child pointers it loses.
AllLeavesSameDepth == Cardinality(LeafDepths(tree)) <= 1

\* The tree behaves as a map (spec section 9): every step of Insert, Delete
\* and Get is a step of KVMap on the keys Get can find.
BTreeImplementsKVMap == AbstractMap!Spec
=============================================================================
