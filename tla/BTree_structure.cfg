\* Inserts, deletes and lookups of eight one-byte keys with 20-byte values
\* in 60-byte pages: a leaf holds two entries and an internal node three
\* keys, so leaf, internal and root splits, overwritten and zero child
\* pointers, and the panics they lead to all occur within height 2.
CONSTANTS
    Key <- MCKey8
    Val = {20}
    BTREE_PAGE_SIZE = 60
    BTREE_MAX_VAL_SIZE = 40
SPECIFICATION Spec
CONSTRAINT StateBound
INVARIANT TypeOK
INVARIANT LeafKeysSorted
INVARIANT AllLeavesSameDepth
\* A nil-child panic stops the process: such a state has no successor.
CHECK_DEADLOCK FALSE
