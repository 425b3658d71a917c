-------------------------- MODULE ReplicatedStorage --------------------------
(***************************************************************************)
(* The primary/backup ReplicatedStorage of internal/network/protocol.go    *)
(* (package replication) over remote stores reached with pkg/client        *)
(* (unnamed/part_010), as the demo of unnamed/part_012 builds it.          *)
(*                                                                         *)
(* Put and Delete hold rs.mu (Lock) and write the primary first.  In       *)
(* async mode they then spawn one goroutine per replica and return; in     *)
(* sync mode they wait for all of them, still holding the lock, and only   *)
(* log the replicas' errors.  Get holds RLock; when the primary does not   *)
(* have the key it asks the replicas in order, and for the first that has  *)
(* it spawns a goroutine that puts the value back into the primary,        *)
(* outside any lock of rs.                                                 *)
(*                                                                         *)
(* Every store is remote: a call can fail, and a call that times out on    *)
(* the client (10s) may still have been applied by the server.  A store is *)
(* a map Key -> Val, NoVal for an absent key (the servers' storage         *)
(* overwrites on Put and ignores the Delete of an absent key).             *)
(***************************************************************************)
EXTENDS Naturals, FiniteSets

CONSTANTS Key, Val, NoVal,
          Addr,          \* replicaAddrs, in order: 1..N
          Modes,         \* the asyncMode values NewReplicatedStorage is given
          Reliabilities, \* the values of `unreliable` to check: TRUE, remote calls may fail
          MaxWrites,     \* bound on Put and Delete calls
          MaxGets        \* bound on Get calls

ASSUME NoVal \notin Val /\ Modes \subseteq BOOLEAN /\ Reliabilities \subseteq BOOLEAN
ASSUME Addr = 1..Cardinality(Addr)

Store == [Key -> Val \cup {NoVal}]
EmptyStore == [k \in Key |-> NoVal]

VARIABLES asyncMode,
          unreliable, \* the remote stores' calls may fail (fixed for a run)
          replicas,   \* the replicas NewReplicatedStorage connected to
          primary,    \* the primary's store
          replica,    \* replica[r]: the store of replica r
          locked,     \* a sync Put or Delete holds mu after its primary write
          tasks,      \* replication goroutines in flight
          repairs,    \* read-repair goroutines in flight
          closed,     \* Close has run
          last,       \* history: the last write the primary acknowledged
          writes, gets

vars == <<asyncMode, unreliable, replicas, primary, replica, locked, tasks, repairs,
          closed, last, writes, gets>>

Op == [key : Key, val : Val \cup {NoVal}]   \* val NoVal: a Delete
NoOp == [key |-> NoVal, val |-> NoVal]      \* mu not held by a sync write

TypeOK ==
    /\ asyncMode \in BOOLEAN
    /\ unreliable \in BOOLEAN
    /\ replicas \subseteq Addr
    /\ primary \in Store
    /\ replica \in [Addr -> Store]
    /\ locked \in Op \cup {NoOp}
    /\ tasks \subseteq [r : Addr, op : Op, id : 1..MaxWrites]
    /\ repairs \subseteq [op : Op, id : 1..MaxGets]
    /\ closed \in BOOLEAN
    /\ last \in Store
    /\ writes \in 0..MaxWrites
    /\ gets \in 0..MaxGets
    \* the goroutines of the mode rs runs in, and only those
    /\ asyncMode => locked = NoOp
    /\ ~asyncMode => tasks = {}

\* NewReplicatedStorage: the replicas it could connect to, in address
\* order; an error when there are addresses and none connected.
Init ==
    /\ asyncMode \in Modes
    /\ unreliable \in Reliabilities
    /\ replicas \in {R \in SUBSET Addr : R # {} \/ Addr = {}}
    /\ unreliable \/ replicas = Addr
    /\ primary = EmptyStore
    /\ replica = [r \in Addr |-> EmptyStore]
    /\ locked = NoOp
    /\ tasks = {}
    /\ repairs = {}
    /\ closed = FALSE
    /\ last = EmptyStore
    /\ writes = 0
    /\ gets = 0

Write(s, op) == [s EXCEPT ![op.key] = op.val]

\* A mutant: the asyncMode test inverted.
ReplicateModeSwapped(op) ==
    IF ~asyncMode
    THEN /\ tasks' = tasks \cup
              {[r |-> r, op |-> op, id |-> writes + 1] : r \in replicas}
         /\ UNCHANGED locked
    ELSE /\ locked' = op
         /\ UNCHANGED tasks

\* After the primary write: async mode spawns one goroutine per replica
\* and returns; sync mode goes on to wait for the replicas with the lock
\* held (SyncReplicate).
Replicate(op) ==
    IF asyncMode
    THEN /\ tasks' = tasks \cup
              {[r |-> r, op |-> op, id |-> writes + 1] : r \in replicas}
         /\ UNCHANGED locked
    ELSE /\ locked' = op
         /\ UNCHANGED tasks

\* The primary applied the write.
PrimaryApplied(op) ==
    /\ ~closed
    /\ primary' = Write(primary, op)
    /\ last' = Write(last, op)

\* The primary call fails (closed client or the network): return err.
PrimaryFailed(op) ==
    /\ closed \/ unreliable
    /\ UNCHANGED <<primary, last, locked, tasks>>

\* The primary write of Put (val in Val) or Delete (val = NoVal), under
\* Lock.  On success the write is replicated; on failure it returns the
\* error; a call that times out may still have been applied by the server,
\* and then it returns the error too.
PrimaryWrite(op) ==
    /\ locked = NoOp /\ writes < MaxWrites
    /\ writes' = writes + 1
    /\ \/ PrimaryApplied(op) /\ Replicate(op)
       \/ PrimaryFailed(op)
       \/ /\ unreliable
          /\ PrimaryApplied(op)
          /\ UNCHANGED <<locked, tasks>>
    /\ UNCHANGED <<asyncMode, unreliable, replicas, replica, repairs, closed, gets>>

\* A mutant: a Delete that removes the key from the primary only.
DeleteOnPrimaryOnly(k) ==
    /\ locked = NoOp /\ writes < MaxWrites
    /\ writes' = writes + 1
    /\ \/ PrimaryApplied([key |-> k, val |-> NoVal]) /\ UNCHANGED <<locked, tasks>>
       \/ PrimaryFailed([key |-> k, val |-> NoVal])
    /\ UNCHANGED <<asyncMode, unreliable, replicas, replica, repairs, closed, gets>>

Put(k, v) == PrimaryWrite([key |-> k, val |-> v])

Delete(k) == PrimaryWrite([key |-> k, val |-> NoVal])

\* Sync mode: the goroutines of all replicas run, wg.Wait returns, errors
\* are logged, and the lock is released.  The replicas in `ok` applied the
\* write; with reliable calls that is all of them.
SyncReplicate ==
    /\ locked # NoOp
    /\ \E ok \in SUBSET replicas :
          /\ unreliable \/ ok = replicas
          /\ replica' = [r \in Addr |->
                           IF r \in ok THEN Write(replica[r], locked)
                           ELSE replica[r]]
    /\ locked' = NoOp
    /\ UNCHANGED <<asyncMode, unreliable, replicas, primary, tasks, repairs, closed, last,
                   writes, gets>>

\* An async replication goroutine reaches its replica.
ReplicaApply(t) ==
    /\ replica' = [replica EXCEPT ![t.r] = Write(@, t.op)]
    /\ tasks' = tasks \ {t}
    /\ UNCHANGED <<asyncMode, unreliable, replicas, primary, locked, repairs, closed, last,
                   writes, gets>>

\* An async replication goroutine's call fails (its client is closed, or
\* the network): the error is logged.
ReplicaFail(t) ==
    /\ closed \/ unreliable
    /\ tasks' = tasks \ {t}
    /\ UNCHANGED <<asyncMode, unreliable, replicas, primary, replica, locked, repairs,
                   closed, last, writes, gets>>

\* Get under RLock.  When the primary has no value (or its call fails)
\* the replicas are asked in order; the first that answers with a value is
\* returned, and a goroutine is spawned to put it back into the primary.
\* The answer itself changes nothing else.
Get(k) ==
    /\ locked = NoOp /\ gets < MaxGets
    /\ gets' = gets + 1
    /\ \/ /\ ~closed /\ primary[k] # NoVal
          /\ UNCHANGED repairs
       \/ /\ primary[k] = NoVal \/ closed \/ unreliable
          /\ \/ /\ ~closed
                /\ \E r \in replicas :
                     /\ replica[r][k] # NoVal
                     /\ \A q \in replicas :
                          q < r => replica[q][k] = NoVal \/ unreliable
                     /\ repairs' = repairs \cup
                          {[op |-> [key |-> k, val |-> replica[r][k]],
                            id |-> gets + 1]}
             \/ UNCHANGED repairs   \* no replica answered with a value
    /\ UNCHANGED <<asyncMode, unreliable, replicas, primary, replica, locked, tasks, closed,
                   last, writes>>

\* The read-repair goroutine's primary.Put, outside rs.mu.  It fails when
\* the primary is closed or the call fails.
RepairApply(t) ==
    /\ repairs' = repairs \ {t}
    /\ \/ /\ ~closed
          /\ primary' = Write(primary, t.op)
       \/ /\ closed \/ unreliable
          /\ UNCHANGED primary
    /\ UNCHANGED <<asyncMode, unreliable, replicas, replica, locked, tasks, closed, last,
                   writes, gets>>

\* Close under Lock: the primary and replica clients are closed; later
\* calls on them fail.
Close ==
    /\ locked = NoOp /\ ~closed
    /\ closed' = TRUE
    /\ UNCHANGED <<asyncMode, unreliable, replicas, primary, replica, locked, tasks,
                   repairs, last, writes, gets>>

Next ==
    \/ \E k \in Key, v \in Val : Put(k, v)
    \/ \E k \in Key : Delete(k)
    \/ SyncReplicate
    \/ \E t \in tasks : ReplicaApply(t)
    \/ \E t \in tasks : ReplicaFail(t)
    \/ \E k \in Key : Get(k)
    \/ \E t \in repairs : RepairApply(t)
    \/ Close

\* Goroutines the Go scheduler runs: each eventually makes its call.
Fairness ==
    /\ WF_vars(SyncReplicate)
    /\ \A r \in Addr, op \in Op, id \in 1..MaxWrites :
          WF_vars(LET t == [r |-> r, op |-> op, id |-> id] IN
                  t \in tasks /\ (ReplicaApply(t) \/ ReplicaFail(t)))
    /\ \A op \in Op, id \in 1..MaxGets :
          WF_vars(LET t == [op |-> op, id |-> id] IN
                  t \in repairs /\ RepairApply(t))

Spec == Init /\ [][Next]_vars /\ Fairness

(***************************************************************************)
(* Properties                                                              *)
(***************************************************************************)

\* The primary holds, for every key, the value of the last Put or Delete
\* that rs sent it: read repair never puts back a value that a later
\* write (a Delete in particular) has replaced.
PrimaryHoldsLastWrite == primary = last

\* PrimaryHoldsLastWrite, in sync mode over reliable stores: there every
\* replica has applied each write before the next call takes the lock.
SyncPrimaryHoldsLastWrite == ~asyncMode /\ ~unreliable => PrimaryHoldsLastWrite

\* In sync mode over reliable stores, once the writes stop, every connected replica ends up equal to the
\* primary for good, unless rs is closed (which fails the goroutines
\* still in flight).
ReplicasConverge ==
    ~asyncMode /\ ~unreliable =>
        <>[](closed \/ \A r \in replicas : replica[r] = primary)
====
