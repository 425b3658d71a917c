------------------------------- MODULE RaftLog -------------------------------
(***************************************************************************)
(* Log replication and apply of internal/raft (client.go, handlers.go,     *)
(* unnamed/part_006): handleClientRequest, replicateLogEntry and its       *)
(* goroutines, the AppendEntries RPC handler, applyCommittedEntries and    *)
(* applyEntry, with the heartbeats that carry terms between them.          *)
(*                                                                         *)
(* In the code as it stands a node that wins an election blocks for ever  *)
(* in becomeLeader (RaftElection, run raft_leader_hang), so none of this   *)
(* code runs.  This module checks it as it would run once that deadlock is *)
(* repaired: the election is one atomic step, ElectLeader, that does what  *)
(* a won election does to the terms and states of a majority, using the    *)
(* code's own up-to-date check (isLogUpToDate).  nextIndex and matchIndex  *)
(* are written by the code but never read, and are left out.               *)
(*                                                                         *)
(* The run loop handles one client request at a time, in three locked     *)
(* sections: the leader check (RLock), the append (Lock), and the term     *)
(* read of replicateLogEntry (RLock).  Each is a step of its own, because  *)
(* the RPC handlers run between them.  The goroutine of each peer reads    *)
(* the leader's log and commitIndex without the lock when it runs (a data  *)
(* race: it sees the values of that moment), and counts its answer in the  *)
(* closure counter successCount of the request that spawned it.  After a   *)
(* fixed 100ms sleep the run loop decides on commitIndex alone, whatever   *)
(* the goroutines have done by then.                                       *)
(***************************************************************************)
EXTENDS Naturals, Sequences, SequencesExt, FiniteSets

CONSTANTS Node,         \* the replicas (model values)
          Key, Val,     \* keys and values of client commands
          NoVal,        \* a key absent from the storage
          MaxTerm,      \* bound on terms
          MaxRequests   \* bound on client requests, all nodes together

ASSUME NoVal \notin Val /\ MaxTerm \in Nat /\ MaxRequests \in Nat

Follower == "Follower"
Leader == "Leader"

\* The commands handleClientRequest builds: "PUT k v" and "DEL k".
Command == [op : {"put"}, key : Key, val : Val] \cup [op : {"delete"}, key : Key]
Entry == [term : 1..MaxTerm, cmd : Command]
Terms == 0..MaxTerm
RIds == 1..MaxRequests

VARIABLES currentTerm, state, log, commitIndex, lastApplied,
          store,      \* store[n]: the node's storage, Key -> Val or NoVal
          handling,   \* handling[n]: the client request the run loop is in
          succ,       \* succ[r]: successCount of the replicateLogEntry of r
          calls,      \* AppendEntries goroutines of replicateLogEntry
          requests,   \* client requests taken so far
          dead,       \* processes killed by a panic
          applied     \* history: applied[n], the entries applyCommittedEntries
                      \* of n has applied, in order

vars == <<currentTerm, state, log, commitIndex, lastApplied, store, handling,
          succ, calls, requests, dead, applied>>

Idle == [phase |-> "idle"]

\* The run loop: "checked" after the leader check, "appended" after the
\* append, "replicating" from replicateLogEntry's spawn to its decision.
Handling == {Idle}
    \cup [phase : {"checked"}, rid : RIds, cmd : Command]
    \cup [phase : {"appended", "replicating"}, rid : RIds, idx : Nat,
          entry : Entry]

\* A goroutine of request `rid` of leader `from` sending entry `entry` at
\* `idx` to `to`; it carries the term read by replicateLogEntry.
\* "spawned": not yet run; "sent": the request, with the prevLogTerm and
\* commitIndex it read, is at the peer; "replied": the answer is back.
Call == [rid : RIds, from : Node, to : Node, term : Terms, idx : Nat,
         entry : Entry, phase : {"spawned", "sent", "replied"},
         prevTerm : Terms, commit : Nat, rterm : Terms, success : BOOLEAN]

TypeOK ==
    /\ currentTerm \in [Node -> Terms]
    /\ state \in [Node -> {Follower, Leader}]
    /\ log \in [Node -> Seq(Entry)]
    /\ commitIndex \in [Node -> Nat]
    /\ lastApplied \in [Node -> Nat]
    /\ store \in [Node -> [Key -> Val \cup {NoVal}]]
    /\ handling \in [Node -> Handling]
    /\ succ \in [RIds -> 0..Cardinality(Node)]
    /\ calls \subseteq Call
    /\ requests \in 0..MaxRequests
    /\ dead \subseteq Node
    /\ applied \in [Node -> Seq(Entry)]

Init ==
    /\ currentTerm = [n \in Node |-> 0]
    /\ state = [n \in Node |-> Follower]
    /\ log = [n \in Node |-> <<>>]
    /\ commitIndex = [n \in Node |-> 0]
    /\ lastApplied = [n \in Node |-> 0]
    /\ store = [n \in Node |-> [k \in Key |-> NoVal]]
    /\ handling = [n \in Node |-> Idle]
    /\ succ = [r \in RIds |-> 0]
    /\ calls = {}
    /\ requests = 0
    /\ dead = {}
    /\ applied = [n \in Node |-> <<>>]

\* getLastLogTerm
LastLogTerm(l) == IF l = <<>> THEN 0 ELSE Last(l).term

\* getPrevLogTerm: 0 for index 0 and for an index past the log.
GetPrevLogTerm(l, i) == IF i = 0 \/ i > Len(l) THEN 0 ELSE l[i].term

\* isLogUpToDate of the voter whose log is `l`, for a candidate log `c`.
IsLogUpToDate(c, l) ==
    \/ LastLogTerm(c) > LastLogTerm(l)
    \/ LastLogTerm(c) = LastLogTerm(l) /\ Len(c) >= Len(l)

\* logContainsEntry
LogContainsEntry(l, i, t) ==
    IF i = 0 THEN TRUE ELSE i <= Len(l) /\ l[i].term = t

\* One command applied to a storage: Put overwrites, Delete of an absent
\* key is an error the caller ignores.
ApplyCmd(s, cmd) ==
    IF cmd.op = "put" THEN [s EXCEPT ![cmd.key] = cmd.val]
                      ELSE [s EXCEPT ![cmd.key] = NoVal]

Apply(s, e) == ApplyCmd(s, e.cmd)

\* applyCommittedEntries of node n, for a commitIndex `ci` and log `l`:
\* the entries lastApplied+1..ci are applied in order.  An index past the
\* log is an index out of range: the process panics and is `dead`.
ApplyCommitted(n, l, ci) ==
    IF ci > Len(l) /\ lastApplied[n] < ci
    THEN /\ dead' = dead \cup {n}
         /\ UNCHANGED <<store, lastApplied, applied>>
    ELSE /\ store' = [store EXCEPT ![n] =
                 FoldLeft(Apply, @, SubSeq(l, lastApplied[n] + 1, ci))]
         /\ applied' = [applied EXCEPT ![n] =
                 @ \o SubSeq(l, lastApplied[n] + 1, ci)]
         /\ lastApplied' = [lastApplied EXCEPT ![n] = Max({ci, @})]
         /\ UNCHANGED dead

(***************************************************************************)
(* Elections and heartbeats                                                *)
(***************************************************************************)

\* A won election of n (startElection, RequestVote, becomeLeader): n takes
\* term currentTerm+1 and a majority Q whose terms are lower and whose logs
\* are not more up to date than n's grants it; each voter adopts the term
\* and becomes a follower.
ElectLeader(n, Q) ==
    LET t == currentTerm[n] + 1 IN
    /\ t <= MaxTerm
    /\ n \in Q /\ Q \cap dead = {}
    /\ 2 * Cardinality(Q) > Cardinality(Node)
    /\ \A m \in Q \ {n} : currentTerm[m] < t /\ IsLogUpToDate(log[n], log[m])
    /\ currentTerm' = [m \in Node |-> IF m \in Q THEN t ELSE currentTerm[m]]
    /\ state' = [m \in Node |-> IF m = n THEN Leader
                                ELSE IF m \in Q THEN Follower ELSE state[m]]
    /\ UNCHANGED <<log, commitIndex, lastApplied, applied, store, handling, succ, calls,
                   requests, dead>>

\* sendHeartbeats to m, and AppendEntries with no entries at m: m adopts a
\* higher term and answers at once; a higher term in the answer makes the
\* leader a follower.
Heartbeat(n, m) ==
    /\ state[n] = Leader /\ m # n /\ {n, m} \cap dead = {}
    /\ \/ /\ currentTerm[n] < currentTerm[m]
          /\ currentTerm' = [currentTerm EXCEPT ![n] = currentTerm[m]]
          /\ state' = [state EXCEPT ![n] = Follower]
       \/ /\ currentTerm[n] > currentTerm[m]
          /\ currentTerm' = [currentTerm EXCEPT ![m] = currentTerm[n]]
          /\ state' = [state EXCEPT ![m] = Follower]
    /\ UNCHANGED <<log, commitIndex, lastApplied, applied, store, handling, succ, calls,
                   requests, dead>>

(***************************************************************************)
(* handleClientRequest and replicateLogEntry                               *)
(***************************************************************************)

\* A mutant: the leader check dropped.
ClientRequestWithoutLeaderCheck(n, cmd) ==
    /\ n \notin dead /\ handling[n] = Idle
    /\ requests < MaxRequests
    /\ requests' = requests + 1
    /\ handling' = [handling EXCEPT ![n] =
          IF cmd.op \in {"put", "delete"}
          THEN [phase |-> "checked", rid |-> requests + 1, cmd |-> cmd]
          ELSE Idle]
    /\ UNCHANGED <<currentTerm, state, log, commitIndex, lastApplied, applied,
                   store, succ, calls, dead>>

\* The run loop takes a request and reads state under RLock.  A node that
\* is not the leader, and an operation other than put and delete ("get"
\* among them), gets an error and nothing else changes.
ClientRequest(n, cmd) ==
    /\ n \notin dead /\ handling[n] = Idle
    /\ requests < MaxRequests
    /\ requests' = requests + 1
    /\ handling' = [handling EXCEPT ![n] =
          IF state[n] = Leader /\ cmd.op \in {"put", "delete"}
          THEN [phase |-> "checked", rid |-> requests + 1, cmd |-> cmd]
          ELSE Idle]
    /\ UNCHANGED <<currentTerm, state, log, commitIndex, lastApplied, applied, store,
                   succ, calls, dead>>

\* Under Lock: the entry gets the term of this moment and is appended,
\* whatever state the node is in by now.
AppendLocal(n) ==
    LET h == handling[n]
        e == [term |-> currentTerm[n], cmd |-> h.cmd]
    IN /\ n \notin dead /\ h.phase = "checked"
       /\ log' = [log EXCEPT ![n] = Append(@, e)]
       /\ handling' = [handling EXCEPT ![n] =
             [phase |-> "appended", rid |-> h.rid, idx |-> Len(log[n]) + 1,
              entry |-> e]]
       /\ UNCHANGED <<currentTerm, state, commitIndex, lastApplied, applied, store,
                      succ, calls, requests, dead>>

\* replicateLogEntry reads the term under RLock and spawns one goroutine
\* per peer; successCount starts at 1 for the leader itself.
StartReplicate(n) ==
    LET h == handling[n] IN
    /\ n \notin dead /\ h.phase = "appended"
    /\ calls' = calls \cup
          {[rid |-> h.rid, from |-> n, to |-> p, term |-> currentTerm[n],
            idx |-> h.idx, entry |-> h.entry, phase |-> "spawned",
            prevTerm |-> 0, commit |-> 0, rterm |-> 0, success |-> FALSE] :
           p \in Node \ {n}}
    /\ succ' = [succ EXCEPT ![h.rid] = 1]
    /\ handling' = [handling EXCEPT ![n].phase = "replicating"]
    /\ UNCHANGED <<currentTerm, state, log, commitIndex, lastApplied, applied, store,
                   requests, dead>>

\* The goroutine builds its request, reading the leader's log and
\* commitIndex without the lock, and sends it.
SendAppendEntries(c) ==
    /\ c.phase = "spawned" /\ c.from \notin dead
    /\ calls' = (calls \ {c}) \cup
          {[c EXCEPT !.phase = "sent",
                     !.prevTerm = GetPrevLogTerm(log[c.from], c.idx - 1),
                     !.commit = commitIndex[c.from]]}
    /\ UNCHANGED <<currentTerm, state, log, commitIndex, lastApplied, applied, store,
                   handling, succ, requests, dead>>

\* Dial or Call fails (the peer or the caller is down, or the answer is
\* lost): the goroutine logs and returns.
DropCall(c) ==
    /\ calls' = calls \ {c}
    /\ UNCHANGED <<currentTerm, state, log, commitIndex, lastApplied, applied, store,
                   handling, succ, requests, dead>>

\* A mutant: commitIndex taken from leaderCommit without the min.
\* If leaderCommit > commitIndex: commitIndex = min(leaderCommit, index of
\* the last new entry).
FollowerCommit(m, leaderCommit, lastNew) ==
    IF leaderCommit > commitIndex[m]
    THEN IF leaderCommit < lastNew THEN leaderCommit ELSE lastNew
    ELSE commitIndex[m]

(***************************************************************************)
(* The AppendEntries RPC handler, with the one entry replicateLogEntry      *)
(* sends.  The conflict check compares log[logIndex] with 0-based Go       *)
(* indexing, that is the entry AFTER slot logIndex, and the entry is then  *)
(* appended at the end of the log whatever its slot.                       *)
(***************************************************************************)
HandleAppendEntries(c) ==
    LET m == c.to
        ct == IF c.term > currentTerm[m] THEN c.term ELSE currentTerm[m]
        li == c.idx   \* logIndex == PrevLogIndex + 1 + 0
        conflict == li < Len(log[m]) /\ log[m][li + 1].term # c.entry.term
        l1 == IF conflict THEN SubSeq(log[m], 1, li) ELSE log[m]
        l2 == Append(l1, c.entry)
        ci == FollowerCommit(m, c.commit, Len(l2))
        Reply(ok) == calls' = (calls \ {c}) \cup
                       {[c EXCEPT !.phase = "replied", !.rterm = ct,
                                  !.success = ok]}
    IN
    /\ c.phase = "sent" /\ m \notin dead
    /\ \/ /\ c.term < currentTerm[m]
          /\ Reply(FALSE)
          /\ UNCHANGED <<currentTerm, state, log, commitIndex, lastApplied, applied,
                         store, dead>>
       \/ /\ c.term >= currentTerm[m]
          /\ currentTerm' = [currentTerm EXCEPT ![m] = ct]
          /\ state' = IF c.term > currentTerm[m]
                      THEN [state EXCEPT ![m] = Follower] ELSE state
          /\ \/ /\ ~LogContainsEntry(log[m], c.idx - 1, c.prevTerm)
                /\ Reply(FALSE)
                /\ UNCHANGED <<log, commitIndex, lastApplied, applied, store, dead>>
             \/ /\ LogContainsEntry(log[m], c.idx - 1, c.prevTerm)
                /\ log' = [log EXCEPT ![m] = l2]
                /\ commitIndex' = [commitIndex EXCEPT ![m] = ci]
                /\ ApplyCommitted(m, l2, ci)
                /\ Reply(TRUE)
    /\ UNCHANGED <<handling, succ, requests>>

\* The goroutine re-takes the lock with the answer: a higher term makes
\* the node a follower; a success is counted, and once the count is a
\* majority commitIndex is set to this entry's index, with no max and
\* whatever the node's state, and committed entries are applied.
HandleAppendEntriesResponse(c) ==
    LET n == c.from
        s == succ[c.rid] + 1
    IN
    /\ c.phase = "replied" /\ n \notin dead
    /\ calls' = calls \ {c}
    /\ \/ /\ c.rterm > currentTerm[n]
          /\ currentTerm' = [currentTerm EXCEPT ![n] = c.rterm]
          /\ state' = [state EXCEPT ![n] = Follower]
          /\ UNCHANGED <<commitIndex, lastApplied, applied, store, succ, dead>>
       \/ /\ c.rterm <= currentTerm[n] /\ c.success
          /\ succ' = [succ EXCEPT ![c.rid] = s]
          /\ IF s > Cardinality(Node) \div 2
             THEN /\ commitIndex' = [commitIndex EXCEPT ![n] = c.idx]
                  /\ ApplyCommitted(n, log[n], c.idx)
             ELSE UNCHANGED <<commitIndex, lastApplied, applied, store, dead>>
          /\ UNCHANGED <<currentTerm, state>>
       \/ /\ c.rterm <= currentTerm[n] /\ ~c.success
          /\ UNCHANGED <<currentTerm, state, commitIndex, lastApplied, applied, store,
                         succ, dead>>
    /\ UNCHANGED <<log, handling, requests>>

\* After the 100ms sleep: success iff commitIndex >= logIndex; on success
\* handleClientRequest applies the entry once more with applyEntry, without
\* the lock and without lastApplied.
Decide(n) ==
    LET h == handling[n] IN
    /\ n \notin dead /\ h.phase = "replicating"
    /\ store' = IF commitIndex[n] >= h.idx
                THEN [store EXCEPT ![n] = Apply(@, h.entry)] ELSE store
    /\ handling' = [handling EXCEPT ![n] = Idle]
    /\ UNCHANGED <<currentTerm, state, log, commitIndex, lastApplied, applied, succ,
                   calls, requests, dead>>

Next ==
    \/ \E n \in Node, Q \in SUBSET Node : ElectLeader(n, Q)
    \/ \E n, m \in Node : Heartbeat(n, m)
    \/ \E n \in Node, k \in Key :
          \E cmd \in Command \cup {[op |-> "get", key |-> k]} :
             ClientRequest(n, cmd)
    \/ \E n \in Node : AppendLocal(n)
    \/ \E n \in Node : StartReplicate(n)
    \/ \E c \in calls : SendAppendEntries(c)
    \/ \E c \in calls : DropCall(c)
    \/ \E c \in calls : HandleAppendEntries(c)
    \/ \E c \in calls : HandleAppendEntriesResponse(c)
    \/ \E n \in Node : Decide(n)

Spec == Init /\ [][Next]_vars

(***************************************************************************)
(* Properties                                                              *)
(***************************************************************************)

\* State-machine safety (spec): the entries applyCommittedEntries applies
\* on any two replicas agree, one sequence a prefix of the other: no
\* replica applies at index i an entry other than another replica's.
StateMachineSafety ==
    \A n, m \in Node : IsPrefix(applied[n], applied[m])
                       \/ IsPrefix(applied[m], applied[n])

\* A replica's storage is the result of the entries it has applied, in
\* order: the applyEntry of handleClientRequest, which applies the entry a
\* second time, must not leave the storage as no prefix of the log would.
StoreMatchesApplied ==
    \A n \in Node \ dead :
        store[n] = FoldLeft(Apply, [k \in Key |-> NoVal], applied[n])

\* applyCommittedEntries never indexes past the end of the log (a panic
\* that kills the process).  It does: a leader's own log is cut below an
\* entry its goroutines are replicating, and their late majority sets
\* commitIndex to that entry's index.  Random simulation with 4 requests
\* and 3 terms reaches it in 38 steps; that depth is beyond a breadth-first
\* run of this module, so no run checks it.
NoApplyPastLog == dead = {}
====
