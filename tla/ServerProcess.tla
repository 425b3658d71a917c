---------------------------- MODULE ServerProcess ----------------------------
(***************************************************************************)
(* One server process of cmd/server (unnamed/part_009) after it started:   *)
(* the gRPC handlers serving a RaftStorage (internal/raft/storage.go), the *)
(* GlobalCluster registry holding the process's one RaftNode               *)
(* (unnamed/part_005), the node's goroutines (unnamed/part_006,            *)
(* internal/raft/client.go), the leader monitor and the cluster-info       *)
(* printer, and the shutdown sequence.                                     *)
(*                                                                         *)
(* Only control and locking are kept.  The three sync.RWMutexes rs.mu,     *)
(* gc.mu and n.mu follow Go's semantics: Lock first claims the lock        *)
(* (`writer`), which blocks every later RLock, and then waits for the      *)
(* readers already in; RLock waits while a writer has claimed the lock.    *)
(* An RLock that is released before anything else happens (IsLeader,      *)
(* GetState, GetNode) is one step that needs no writer.                    *)
(*                                                                         *)
(* The node is Leader only between becomeLeader and its sendHeartbeats,    *)
(* which waits for RLock under the write lock the vote goroutine holds:    *)
(* once Leader, n.mu is held for ever.  Hence no RLock ever observes       *)
(* Leader: IsLeader is FALSE whenever it returns, and the branches that    *)
(* follow a TRUE (node.Put/Delete in RaftStorage, the leader path of       *)
(* handleClientRequest, sendHeartbeats from heartbeatTimer, StepDown in    *)
(* the monitor, which needs two leaders in a registry of one node) are     *)
(* never taken.  heartbeatTimer only reads state under a short RLock and   *)
(* is left out.                                                            *)
(***************************************************************************)
EXTENDS FiniteSets

CONSTANTS Req,      \* gRPC handler goroutines, one request each
          Calls,    \* the operations they call, op[r]: "put", "get", "delete"
          HasPeers, \* -peers is not empty: elections send vote requests
          Wins      \* a vote answer can complete a won election

Monitor == "monitor"   \* StartHeartbeatMonitor's goroutine
Info    == "info"      \* the cluster-info printer of main
Elect   == "elect"     \* electionTimer
Run     == "run"       \* run, the node's event loop
Vote    == "vote"      \* a vote goroutine of startElection
Peer    == "peer"      \* RaftRPC handlers serving the peers' calls
Main    == "main"
None    == "none"

G == Req \cup {Monitor, Info, Elect, Run, Vote, Peer, Main}
Locks == {"rs", "gc", "n"}

Ops == {"put", "get", "delete"}

ASSUME /\ Calls \subseteq [Req -> Ops] /\ Calls # {}
       /\ None \notin G /\ HasPeers \in BOOLEAN /\ Wins \in BOOLEAN

VARIABLES pc,         \* pc[g]: where goroutine g is
          op,         \* op[r]: the operation of request r
          retried,    \* retried[r]: RaftStorage.Put/Delete is in its retry
          readers,    \* readers[L]: goroutines holding L for reading
          writer,     \* writer[L]: the goroutine that claimed L with Lock
          state,      \* the node's state
          chan,       \* requests in clientRequestChan
          cur,        \* the request run is handling
          answered,   \* requests whose Response channel holds an answer
          stopped,    \* the node's ctx is cancelled (Stop)
          serving     \* the gRPC server accepts calls

vars == <<pc, op, retried, readers, writer, state, chan, cur, answered,
          stopped, serving>>

\* The labels at which a goroutine holds L for reading, or has claimed it
\* for writing (RaftStorage's "p_" labels are Put and Delete, "g_" Get).
ReadHeld(L) ==
    CASE L = "rs" -> {"g_getnode", "g_submit", "g_await"}
      [] L = "gc" -> {"p_gl_n", "m_read", "i_read"}
      [] L = "n"  -> {}

WriteHeld(L) ==
    CASE L = "rs" -> {"p_getnode", "p_isleader", "p_gl", "p_gl_n", "p_sleep"}
      [] L = "gc" -> {"unreg_held", "stop_held", "unreg_del"}
      [] L = "n"  -> {"e_read", "e_cand", "v_count", "v_hung", "x_held",
                      "stop_held"}

TypeOK ==
    /\ op \in [Req -> Ops]
    /\ retried \in [Req -> BOOLEAN]
    /\ readers \in [Locks -> SUBSET G]
    /\ writer \in [Locks -> G \cup {None}]
    /\ state \in {"Follower", "Candidate", "Leader"}
    /\ chan \subseteq Req /\ answered \subseteq Req /\ cur \in Req \cup {None}
    /\ stopped \in BOOLEAN /\ serving \in BOOLEAN
    \* a goroutine holds or claims a lock exactly at the labels where the
    \* code has taken it and not yet released it
    /\ \A L \in Locks, g \in G :
          /\ g \in readers[L] <=> pc[g] \in ReadHeld(L)
          /\ writer[L] = g <=> pc[g] \in WriteHeld(L)

\* The process just past StartHeartbeatMonitor in main: the node is
\* started and in the registry, the gRPC server serves, nothing holds a lock.
Init ==
    /\ pc = [g \in G |->
              CASE g \in Req -> "idle"
                [] g = Monitor -> "m_lock"
                [] g = Info -> "i_lock"
                [] g = Elect -> "e_check"
                [] g = Run -> "r_select"
                [] g = Vote -> "v_idle"
                [] g = Peer -> "x_idle"
                [] g = Main -> "serve"]
    /\ op \in Calls
    /\ retried = [r \in Req |-> FALSE]
    /\ readers = [L \in Locks |-> {}]
    /\ writer = [L \in Locks |-> None]
    /\ state = "Follower"
    /\ chan = {} /\ cur = None /\ answered = {}
    /\ stopped = FALSE /\ serving = TRUE

\* A goroutine steps only while the process runs.
Alive == pc[Main] # "exit"
Go(g, l) == Alive /\ pc' = [pc EXCEPT ![g] = l]

\* Lock: claim L (Go's RWMutex then blocks new readers); the goroutine
\* holds it once Drained(L).
Claim(g, L) == writer[L] = None /\ writer' = [writer EXCEPT ![L] = g]
Drained(L) == readers[L] = {}
Unlock(L) == writer' = [writer EXCEPT ![L] = None]
RLock(g, L) == writer[L] = None /\ readers' = [readers EXCEPT ![L] = @ \cup {g}]
RUnlock(g, L) == readers' = [readers EXCEPT ![L] = @ \ {g}]
\* RLock, a read, RUnlock
Peek(L) == writer[L] = None

nodeVars == <<state, chan, cur, answered, stopped, serving>>

(***************************************************************************)
(* A gRPC handler: RaftStorage.Put/Delete ("p_") or Get ("g_").            *)
(***************************************************************************)

\* grpc-go starts a handler goroutine for a call, while it serves.
Arrive(r) ==
    /\ pc[r] = "idle" /\ serving
    /\ Go(r, IF op[r] = "get" THEN "g_lock" ELSE "p_lock")
    /\ UNCHANGED <<op, retried, readers, writer, nodeVars>>

\* rs.mu.Lock()
PutLock(r) ==
    /\ pc[r] = "p_lock" /\ Claim(r, "rs") /\ Go(r, "p_getnode")
    /\ UNCHANGED <<op, retried, readers, nodeVars>>

\* GetNode (gc.mu.RLock) finds the node: it leaves the registry only in
\* main's last step, after GracefulStop.
PutGetNode(r) ==
    /\ pc[r] = "p_getnode" /\ Drained("rs") /\ Peek("gc")
    /\ Go(r, "p_isleader")
    /\ UNCHANGED <<op, retried, readers, writer, nodeVars>>

\* node.IsLeader() (n.mu.RLock): FALSE whenever it returns.
PutIsLeader(r) ==
    /\ pc[r] = "p_isleader" /\ Peek("n") /\ Go(r, "p_gl")
    /\ UNCHANGED <<op, retried, readers, writer, nodeVars>>

\* GetLeader: gc.mu.RLock, held while it asks each node IsLeader.
PutGetLeader(r) ==
    /\ pc[r] = "p_gl" /\ Drained("rs") /\ RLock(r, "gc") /\ Go(r, "p_gl_n")
    /\ UNCHANGED <<op, retried, writer, nodeVars>>

\* No leader found: gc.mu.RUnlock; the first time, go to the retry sleep,
\* the second time return "no leader available" (rs.mu unlocked by defer).
PutNoLeader(r) ==
    /\ pc[r] = "p_gl_n" /\ Peek("n") /\ RUnlock(r, "gc")
    /\ IF retried[r] THEN Go(r, "done") /\ Unlock("rs")
                     ELSE Go(r, "p_sleep") /\ UNCHANGED writer
    /\ UNCHANGED <<op, retried, nodeVars>>

\* The retry sleeping with rs.mu still held.
PutSleepKeepingLock(r) ==
    /\ pc[r] = "p_sleep" /\ Go(r, "p_relock")
    /\ UNCHANGED <<op, retried, readers, writer, nodeVars>>

\* rs.mu.Unlock(); time.Sleep(100ms)
PutSleep(r) ==
    /\ pc[r] = "p_sleep" /\ Unlock("rs") /\ Go(r, "p_relock")
    /\ UNCHANGED <<op, retried, readers, nodeVars>>

\* rs.mu.Lock() again, then "Try again".
PutRelock(r) ==
    /\ pc[r] = "p_relock" /\ Claim(r, "rs") /\ Go(r, "p_gl")
    /\ retried' = [retried EXCEPT ![r] = TRUE]
    /\ UNCHANGED <<op, readers, nodeVars>>

\* Get: rs.mu.RLock()
GetLock(r) ==
    /\ pc[r] = "g_lock" /\ RLock(r, "rs") /\ Go(r, "g_getnode")
    /\ UNCHANGED <<op, retried, writer, nodeVars>>

GetGetNode(r) ==
    /\ pc[r] = "g_getnode" /\ Peek("gc") /\ Go(r, "g_submit")
    /\ UNCHANGED <<op, retried, readers, writer, nodeVars>>

\* node.Get -> SubmitRequest: the request goes into clientRequestChan
\* (capacity 100, so the 5s send timeout never fires here).
GetSubmit(r) ==
    /\ pc[r] = "g_submit" /\ Go(r, "g_await")
    /\ chan' = chan \cup {r}
    /\ UNCHANGED <<op, retried, readers, writer, state, cur, answered,
                   stopped, serving>>

\* The response arrives, or the 10s timeout fires; rs.mu.RUnlock().
GetReturn(r) ==
    /\ pc[r] = "g_await" /\ Go(r, "done") /\ RUnlock(r, "rs")
    /\ answered' = answered \ {r}
    /\ UNCHANGED <<op, retried, writer, state, chan, cur,
                   stopped, serving>>

Handler(r) ==
    \/ PutLock(r) \/ PutGetNode(r) \/ PutIsLeader(r) \/ PutGetLeader(r)
    \/ PutNoLeader(r) \/ PutSleep(r) \/ PutRelock(r)
    \/ GetLock(r) \/ GetGetNode(r) \/ GetSubmit(r) \/ GetReturn(r)

(***************************************************************************)
(* The node's goroutines.                                                  *)
(***************************************************************************)

\* run: select over ctx.Done() and clientRequestChan (the vote and append
\* channels are never written).
RunTake ==
    /\ pc[Run] = "r_select"
    /\ \E r \in chan : chan' = chan \ {r} /\ cur' = r
    /\ Go(Run, "r_handle")
    /\ UNCHANGED <<op, retried, readers, writer, state, answered,
                   stopped, serving>>

RunExit ==
    /\ pc[Run] = "r_select" /\ stopped /\ Go(Run, "r_exit")
    /\ UNCHANGED <<op, retried, readers, writer, nodeVars>>

\* handleClientRequest: n.mu.RLock reads state, not Leader; the answer
\* goes into the request's buffered Response channel.
RunHandle ==
    /\ pc[Run] = "r_handle" /\ Peek("n") /\ Go(Run, "r_select")
    /\ answered' = answered \cup {cur} /\ cur' = None
    /\ UNCHANGED <<op, retried, readers, writer, state, chan,
                   stopped, serving>>

\* electionTimer: the loop's ctx.Done() check, then n.mu.Lock().
ElectCheck ==
    /\ pc[Elect] = "e_check"
    /\ Go(Elect, IF stopped THEN "e_exit" ELSE "e_lock")
    /\ UNCHANGED <<op, retried, readers, writer, nodeVars>>

ElectLock ==
    /\ pc[Elect] = "e_lock" /\ Claim(Elect, "n") /\ Go(Elect, "e_read")
    /\ UNCHANGED <<op, retried, readers, nodeVars>>

\* Read state and lastHeartbeat, n.mu.Unlock(); the election timeout has
\* elapsed or not (time is not modelled); then Sleep(50ms) and loop.
ElectRead ==
    /\ pc[Elect] = "e_read" /\ Drained("n") /\ Unlock("n")
    /\ \E timedOut \in BOOLEAN :
          Go(Elect, IF state # "Leader" /\ timedOut THEN "e_start" ELSE "e_check")
    /\ UNCHANGED <<op, retried, readers, nodeVars>>

\* startElection: n.mu.Lock()
ElectStart ==
    /\ pc[Elect] = "e_start" /\ Claim(Elect, "n") /\ Go(Elect, "e_cand")
    /\ UNCHANGED <<op, retried, readers, nodeVars>>

\* startElection under n.mu: become Candidate, start a vote goroutine per
\* peer (at most one runs at a time in this model), unlock by defer.
ElectCandidate ==
    /\ Alive /\ pc[Elect] = "e_cand" /\ Drained("n") /\ Unlock("n")
    /\ state' = "Candidate"
    /\ pc' = [pc EXCEPT ![Elect] = "e_check",
                        ![Vote] = IF HasPeers /\ @ = "v_idle" THEN "v_out" ELSE @]
    /\ UNCHANGED <<op, retried, readers, chan, cur, answered,
                   stopped, serving>>

\* sendRequestVote failed: the goroutine returns.
VoteDrop ==
    /\ pc[Vote] = "v_out" /\ Go(Vote, "v_idle")
    /\ UNCHANGED <<op, retried, readers, writer, nodeVars>>

\* An answer came back: n.mu.Lock().
VoteLock ==
    /\ pc[Vote] = "v_out" /\ Claim(Vote, "n") /\ Go(Vote, "v_count")
    /\ UNCHANGED <<op, retried, readers, nodeVars>>

\* A higher term makes the node Follower; a granted vote that completes a
\* majority calls becomeLeader, whose sendHeartbeats then waits on
\* n.mu.RLock() under this goroutine's own write lock, for ever.
VoteCount ==
    /\ pc[Vote] = "v_count" /\ Drained("n")
    /\ \/ /\ Wins
          /\ state' = "Leader" /\ Go(Vote, "v_hung")
          /\ UNCHANGED writer
       \/ /\ state' \in {state, "Follower"} /\ Go(Vote, "v_idle")
          /\ Unlock("n")
    /\ UNCHANGED <<op, retried, readers, chan, cur, answered,
                   stopped, serving>>

\* RaftRPC.RequestVote / AppendEntries from a peer: r.node.mu.Lock().
PeerCall ==
    /\ HasPeers /\ pc[Peer] = "x_idle" /\ Claim(Peer, "n") /\ Go(Peer, "x_held")
    /\ UNCHANGED <<op, retried, readers, nodeVars>>

\* A higher term makes the node Follower; unlock by defer.
PeerHandle ==
    /\ pc[Peer] = "x_held" /\ Drained("n") /\ Unlock("n") /\ Go(Peer, "x_idle")
    /\ state' \in {state, "Follower"}
    /\ UNCHANGED <<op, retried, readers, chan, cur, answered,
                   stopped, serving>>

(***************************************************************************)
(* main's goroutines.                                                      *)
(***************************************************************************)

\* StartHeartbeatMonitor, every tick: gc.mu.RLock(), IsLeader of each
\* node, gc.mu.RUnlock() (one leader: nothing to step down).
MonitorLock ==
    /\ pc[Monitor] = "m_lock" /\ RLock(Monitor, "gc") /\ Go(Monitor, "m_read")
    /\ UNCHANGED <<op, retried, writer, nodeVars>>

MonitorRead ==
    /\ pc[Monitor] = "m_read" /\ Peek("n")
    /\ RUnlock(Monitor, "gc") /\ Go(Monitor, "m_lock")
    /\ UNCHANGED <<op, retried, writer, nodeVars>>

\* The info goroutine, every 10s: GetClusterInfo holds gc.mu.RLock over
\* GetState and IsLeader of each node.
InfoLock ==
    /\ pc[Info] = "i_lock" /\ RLock(Info, "gc") /\ Go(Info, "i_read")
    /\ UNCHANGED <<op, retried, writer, nodeVars>>

\* GetState, then IsLeader twice: reads of n under RLocks of their own.
InfoRead ==
    /\ pc[Info] = "i_read" /\ Peek("n")
    /\ RUnlock(Info, "gc") /\ Go(Info, "i_lock")
    /\ UNCHANGED <<op, retried, writer, nodeVars>>

\* SIGINT/SIGTERM: server.Stop() is GracefulStop: no new calls ...
Signal ==
    /\ pc[Main] = "serve" /\ Go(Main, "graceful") /\ serving' = FALSE
    /\ UNCHANGED <<op, retried, readers, writer, state, chan, cur, answered,
                    stopped>>

\* ... and it returns once every running handler has returned.
GracefulStop ==
    /\ pc[Main] = "graceful" /\ \A r \in Req : pc[r] \in {"idle", "done"}
    /\ Go(Main, "unreg")
    /\ UNCHANGED <<op, retried, readers, writer, nodeVars>>

\* UnregisterNode: gc.mu.Lock() ...
Unregister ==
    /\ pc[Main] = "unreg" /\ Claim(Main, "gc") /\ Go(Main, "unreg_held")
    /\ UNCHANGED <<op, retried, readers, nodeVars>>

\* ... node.Stop(): n.mu.Lock() ...
StopLock ==
    /\ pc[Main] = "unreg_held" /\ Drained("gc") /\ Claim(Main, "n")
    /\ Go(Main, "stop_held")
    /\ UNCHANGED <<op, retried, readers, nodeVars>>

\* ... cancel the ctx, close stopChan, n.mu.Unlock() ...
StopNode ==
    /\ pc[Main] = "stop_held" /\ Drained("n") /\ Unlock("n")
    /\ stopped' = TRUE /\ Go(Main, "unreg_del")
    /\ UNCHANGED <<op, retried, readers, state, chan, cur, answered, serving>>

\* ... delete the node from the registry, gc.mu.Unlock(); main returns and
\* the process exits.
UnregisterDelete ==
    /\ pc[Main] = "unreg_del" /\ Unlock("gc") /\ Go(Main, "exit")
    /\ UNCHANGED <<op, retried, readers, nodeVars>>

\* The process has exited.
Terminated == pc[Main] = "exit" /\ UNCHANGED vars

\* The steps a goroutine takes on its own, and those caused from outside
\* (a client call, a peer's RPC, a signal).
Internal(g) ==
    CASE g \in Req   -> Handler(g)
      [] g = Run     -> RunTake \/ RunExit \/ RunHandle
      [] g = Elect   -> ElectCheck \/ ElectLock \/ ElectRead \/ ElectStart
                        \/ ElectCandidate
      [] g = Vote    -> VoteDrop \/ VoteLock \/ VoteCount
      [] g = Peer    -> PeerHandle
      [] g = Monitor -> MonitorLock \/ MonitorRead
      [] g = Info    -> InfoLock \/ InfoRead
      [] g = Main    -> GracefulStop \/ Unregister \/ StopLock \/ StopNode
                        \/ UnregisterDelete

Next ==
    \/ \E r \in Req : Arrive(r) \/ Handler(r)
    \/ RunTake \/ RunExit \/ RunHandle
    \/ ElectCheck \/ ElectLock \/ ElectRead \/ ElectStart \/ ElectCandidate
    \/ VoteDrop \/ VoteLock \/ VoteCount
    \/ PeerCall \/ PeerHandle
    \/ MonitorLock \/ MonitorRead \/ InfoLock \/ InfoRead
    \/ Signal \/ GracefulStop \/ Unregister \/ StopLock \/ StopNode
    \/ UnregisterDelete
    \/ Terminated

\* Go's scheduler runs every runnable goroutine, and a sync.Mutex in
\* starvation mode hands the lock to a waiter that has waited over 1ms:
\* a goroutine whose step is enabled infinitely often takes it.
Fairness == \A g \in G : SF_vars(Internal(g))

Spec == Init /\ [][Next]_vars /\ Fairness

(***************************************************************************)
(* Properties.                                                             *)
(***************************************************************************)

ShutdownCompletes == pc[Main] = "graceful" ~> pc[Main] = "exit"
====
