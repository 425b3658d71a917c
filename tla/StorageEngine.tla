---------------------------- MODULE StorageEngine ----------------------------
(***************************************************************************)
(* The B+tree StorageEngine of unnamed/part_003, as NewStorage             *)
(* (unnamed/part_000) creates it for the "btree" storage type, across      *)
(* process crashes and restarts.                                           *)
(*                                                                         *)
(* The tree is abstracted to the map that BTree promises (KVMap): Insert   *)
(* refuses a present key, Delete an absent one ("key already exists",      *)
(* "key not found").  How the tree itself loses keys is checked in BTree.  *)
(* The file is abstracted to its 8-byte MAGIC/VERSION header: flush seeks  *)
(* past it and writes a size/height word and placeholder bytes, which no   *)
(* code ever reads back.  Each call holds e.mu for its whole body, so      *)
(* calls run one at a time; Get and Size only read and are operators.     *)
(***************************************************************************)
EXTENDS Naturals

CONSTANTS Key, Val, NoVal,
          IOErrors,    \* a write or Sync of the file may fail (disk full, EIO)
          MaxOps,      \* bound on Put/Delete calls
          MaxCrashes   \* bound on process crashes

ASSUME NoVal \notin Val /\ IOErrors \in BOOLEAN
ASSUME MaxOps \in Nat /\ MaxCrashes \in Nat

None == [op |-> "none"]

VARIABLES phase,    \* "down": no process has the engine; "open"; "closed": Close ran
          tree,     \* the in-memory BTree
          hdr,      \* the file's header: "none", "written" (not synced), "synced"
          inFlush,  \* the Put/Delete whose tree change is done and whose flush is not
          acked,    \* history: what the Put/Delete calls that returned nil wrote
          ops, crashes

vars == <<phase, tree, hdr, inFlush, acked, ops, crashes>>

Empty == [k \in Key |-> NoVal]

Calls == [op : {"put", "delete"}, key : Key, val : Val \cup {NoVal}]

TypeOK ==
    /\ phase \in {"down", "open", "closed"}
    /\ tree \in [Key -> Val \cup {NoVal}]
    /\ acked \in [Key -> Val \cup {NoVal}]
    /\ hdr \in {"none", "written", "synced"}
    /\ inFlush \in Calls \cup {None}
    /\ ops \in 0..MaxOps /\ crashes \in 0..MaxCrashes

\* A fresh data directory: no file, no process yet.
Init ==
    /\ phase = "down" /\ tree = Empty /\ hdr = "none" /\ inFlush = None
    /\ acked = Empty /\ ops = 0 /\ crashes = 0

\* Get and Size under e.mu.RLock
Get(k) == tree[k]

\* NewStorageEngine: OpenFile(O_CREATE), a new empty BTree, initialize: an
\* empty file gets its header written (without Sync), a non-empty one has
\* it verified (it is only ever written whole, with MAGIC and VERSION).
Open ==
    /\ phase = "down"
    /\ phase' = "open" /\ tree' = Empty
    /\ hdr' = IF hdr = "none" THEN "written" ELSE hdr
    /\ UNCHANGED <<inFlush, acked, ops, crashes>>

\* Put: e.mu.Lock, btree.Insert; on its error return it, else flush.
Put(k, v) ==
    /\ phase # "down" /\ inFlush = None /\ ops < MaxOps
    /\ ops' = ops + 1
    /\ IF tree[k] = NoVal
          THEN tree' = [tree EXCEPT ![k] = v]
               /\ inFlush' = [op |-> "put", key |-> k, val |-> v]
          ELSE UNCHANGED <<tree, inFlush>>
    /\ UNCHANGED <<phase, hdr, acked, crashes>>

\* Delete: e.mu.Lock, btree.Delete; on its error return it, else flush.
Delete(k) ==
    /\ phase # "down" /\ inFlush = None /\ ops < MaxOps
    /\ ops' = ops + 1
    /\ IF tree[k] # NoVal
          THEN tree' = [tree EXCEPT ![k] = NoVal]
               /\ inFlush' = [op |-> "delete", key |-> k, val |-> NoVal]
          ELSE UNCHANGED <<tree, inFlush>>
    /\ UNCHANGED <<phase, hdr, acked, crashes>>

\* flush: Seek(8), write the size/height word and, if Size() > 0, the
\* placeholder bytes, then Sync, which makes the header durable too; the
\* call returns nil and e.mu is unlocked.
FlushOk ==
    /\ inFlush # None /\ phase = "open"
    /\ hdr' = "synced"
    /\ acked' = [acked EXCEPT ![inFlush.key] = inFlush.val]
    /\ inFlush' = None
    /\ UNCHANGED <<phase, tree, ops, crashes>>

\* flush fails: Seek on a closed file, or a failed write or Sync.  The
\* error is returned; the tree keeps the change.
FlushFails ==
    /\ inFlush # None /\ (phase = "closed" \/ IOErrors)
    /\ inFlush' = None
    /\ UNCHANGED <<phase, tree, hdr, acked, ops, crashes>>

\* Close: e.mu.Lock, flush (an error returns with the file still open),
\* then file.Close.
Close ==
    /\ phase = "open" /\ inFlush = None
    /\ \/ hdr' = "synced" /\ phase' = "closed"
       \/ IOErrors /\ UNCHANGED <<phase, hdr>>
    /\ UNCHANGED <<tree, inFlush, acked, ops, crashes>>

\* The process dies at any point, a flush in progress included; memory is
\* lost, and a header that was never synced may be lost with it.
Crash ==
    /\ phase # "down" /\ crashes < MaxCrashes
    /\ crashes' = crashes + 1
    /\ phase' = "down" /\ tree' = Empty /\ inFlush' = None
    /\ hdr' \in IF hdr = "written" THEN {"none", "written"} ELSE {hdr}
    /\ UNCHANGED <<acked, ops>>

Next ==
    \/ Open
    \/ \E k \in Key, v \in Val : Put(k, v)
    \/ \E k \in Key : Delete(k)
    \/ FlushOk \/ FlushFails \/ Close \/ Crash

Spec == Init /\ [][Next]_vars

(***************************************************************************)
(* Properties                                                              *)
(***************************************************************************)

\* Whenever the engine is open and no call is in flight, Get returns what
\* the last Put or Delete that returned nil wrote, also after a restart:
\* an acknowledged write is durable (spec 4.2, Persistence).
StoreHoldsAcknowledgedWrites ==
    phase = "open" /\ inFlush = None => \A k \in Key : Get(k) = acked[k]
====
