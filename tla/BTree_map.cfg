\* Does the tree keep every key it accepted?  Seven keys, values of 1 and 8 bytes, 30-byte pages.
CONSTANTS
    Key <- MCKey7
    Val = {1, 8}
    BTREE_PAGE_SIZE = 30
    BTREE_MAX_VAL_SIZE = 18
SPECIFICATION Spec
PROPERTY BTreeImplementsKVMap
CHECK_DEADLOCK FALSE
