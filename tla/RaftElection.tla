---------------------------- MODULE RaftElection ----------------------------
(***************************************************************************)
(* Leader election of internal/raft as the code runs it (unnamed/part_006 *)
(* node.go, internal/raft/handlers.go, internal/raft/client.go).           *)
(*                                                                         *)
(* Every handler of the code holds RaftNode.mu for its whole body, so one  *)
(* locked handler is one atomic action.  The goroutines that startElection *)
(* spawns are the records of `calls`: each reads the candidate's term      *)
(* WITHOUT the lock when it runs (a data race: it sees whatever term the   *)
(* node has at that moment), dials the peer, and re-takes the lock to      *)
(* count the answer in the `votes` counter of the election that spawned    *)
(* it.  becomeLeader runs inside that locked section and calls             *)
(* sendHeartbeats, whose RLock on the same RWMutex never returns: the node *)
(* is `hung` with its write lock held, and every later action of the node  *)
(* that needs the lock is disabled.  Logs stay empty in every reachable    *)
(* state (only a non-hung leader appends), so the up-to-date check of      *)
(* RequestVote always holds and the log is not a variable here.            *)
(***************************************************************************)
EXTENDS Naturals, FiniteSets

CONSTANTS Node,         \* the replicas (model values)
          Nil,          \* votedFor == ""
          MaxTerm,      \* bound on currentTerm
          MaxElections, \* bound on startElection calls, all nodes together
          MaxRestarts,  \* bound on process restarts
          MaxRequests,  \* bound on client requests submitted
          ChanCap       \* capacity of clientRequestChan (100 in the code)

ASSUME Nil \notin Node /\ MaxTerm \in Nat /\ MaxRestarts \in Nat
ASSUME MaxElections \in Nat
ASSUME MaxRequests \in Nat /\ ChanCap \in Nat \ {0}

Follower == "Follower"
Candidate == "Candidate"
Leader == "Leader"

VARIABLES currentTerm, state, votedFor,
          hung,         \* stuck in sendHeartbeats holding mu
          votes,        \* votes[n][t]: the counter of n's election of term t
          calls,        \* RequestVote goroutines in flight
          pending,      \* requests waiting in clientRequestChan
          incarnation,  \* restarts of each process so far
          elections, restarts, submitted

nodeVars == <<currentTerm, state, votedFor, hung, votes>>
vars == <<nodeVars, calls, pending, incarnation, elections, restarts,
          submitted>>

Terms == 0..MaxTerm
Peers(n) == Node \ {n}

\* A call: the goroutine of election `eterm` of `from` asking `to`.
\* phase "spawned": not yet run; "sent": request with term `term` is at the
\* peer; "replied": the answer (rterm, granted) is back at the caller.
Call == [from : Node, to : Node, eterm : Terms, phase : {"spawned"},
         term : {0}, rterm : {0}, granted : {FALSE}]
     \cup [from : Node, to : Node, eterm : Terms, phase : {"sent"},
           term : Terms, rterm : {0}, granted : {FALSE}]
     \cup [from : Node, to : Node, eterm : Terms, phase : {"replied"},
           term : Terms, rterm : Terms, granted : BOOLEAN]

TypeOK ==
    /\ currentTerm \in [Node -> Terms]
    /\ state \in [Node -> {Follower, Candidate, Leader}]
    /\ votedFor \in [Node -> Node \cup {Nil}]
    /\ hung \in [Node -> BOOLEAN]
    /\ votes \in [Node -> [Terms -> 0..Cardinality(Node)]]
    /\ calls \subseteq Call
    /\ pending \in [Node -> 0..ChanCap]
    /\ incarnation \in [Node -> 0..MaxRestarts]
    /\ elections \in 0..MaxElections
    /\ restarts \in 0..MaxRestarts
    /\ submitted \in 0..MaxRequests

\* NewRaftNode: Follower, term 0, votedFor "".
InitNode(n) ==
    /\ currentTerm' = [currentTerm EXCEPT ![n] = 0]
    /\ state' = [state EXCEPT ![n] = Follower]
    /\ votedFor' = [votedFor EXCEPT ![n] = Nil]
    /\ hung' = [hung EXCEPT ![n] = FALSE]
    /\ votes' = [votes EXCEPT ![n] = [t \in Terms |-> 0]]

Init ==
    /\ currentTerm = [n \in Node |-> 0]
    /\ state = [n \in Node |-> Follower]
    /\ votedFor = [n \in Node |-> Nil]
    /\ hung = [n \in Node |-> FALSE]
    /\ votes = [n \in Node |-> [t \in Terms |-> 0]]
    /\ calls = {}
    /\ pending = [n \in Node |-> 0]
    /\ incarnation = [n \in Node |-> 0]
    /\ elections = 0
    /\ restarts = 0
    /\ submitted = 0

(***************************************************************************)
(* electionTimer fired on a non-leader (time.Since(lastHeartbeat) >        *)
(* timeout; time is abstracted, so any non-leader may time out) and        *)
(* startElection ran: Candidate, term+1, vote for self, counter = 1, one   *)
(* goroutine per peer.                                                     *)
(***************************************************************************)
StartElection(n) ==
    LET t == currentTerm[n] + 1 IN
    /\ ~hung[n]
    /\ state[n] # Leader
    /\ currentTerm[n] < MaxTerm
    /\ elections < MaxElections
    /\ elections' = elections + 1
    /\ state' = [state EXCEPT ![n] = Candidate]
    /\ currentTerm' = [currentTerm EXCEPT ![n] = t]
    /\ votedFor' = [votedFor EXCEPT ![n] = n]
    /\ votes' = [votes EXCEPT ![n][t] = 1]
    /\ calls' = calls \cup
          {[from |-> n, to |-> p, eterm |-> t, phase |-> "spawned",
            term |-> 0, rterm |-> 0, granted |-> FALSE] : p \in Peers(n)}
    /\ UNCHANGED <<hung, pending, incarnation, restarts, submitted>>

(***************************************************************************)
(* The goroutine builds its RequestVoteRequest from n.currentTerm read     *)
(* without the lock, so the term is the node's term when it runs, and     *)
(* sendRequestVote delivers it.  No lock: it runs even if n is hung.      *)
(***************************************************************************)
SendRequestVote(c) ==
    /\ c.phase = "spawned"
    /\ calls' = (calls \ {c}) \cup
          {[c EXCEPT !.phase = "sent", !.term = currentTerm[c.from]]}
    /\ UNCHANGED <<nodeVars, pending, incarnation, elections, restarts, submitted>>

\* rpc.Dial or client.Call fails: the goroutine logs and returns.  (It has
\* built its request before dialling, so a failure follows the term read.)
DropCall(c) ==
    /\ c.phase = "sent"
    /\ calls' = calls \ {c}
    /\ UNCHANGED <<nodeVars, pending, incarnation, elections, restarts, submitted>>

\* Variants of the handler with one plausible bug each, used to show that
\* VoteOncePerTerm and TermMonotonic are sensitive to it: a grant without
\* the votedFor check, and adoption of the request's term even when older.
HandleRequestVoteIgnoringVotedFor(c) ==
    LET p == c.to
        newer == c.term > currentTerm[p]
        term1 == IF newer THEN c.term ELSE currentTerm[p]
        grant == c.term >= currentTerm[p]
    IN
    /\ c.phase = "sent"
    /\ ~hung[p]
    /\ currentTerm' = [currentTerm EXCEPT ![p] = term1]
    /\ state' = IF newer THEN [state EXCEPT ![p] = Follower] ELSE state
    /\ votedFor' = [votedFor EXCEPT ![p] = IF grant THEN c.from
                                          ELSE IF newer THEN Nil ELSE votedFor[p]]
    /\ calls' = (calls \ {c}) \cup
          {[c EXCEPT !.phase = "replied", !.rterm = term1, !.granted = grant]}
    /\ UNCHANGED <<hung, votes, pending, incarnation, elections, restarts,
                   submitted>>

HandleRequestVoteAdoptingAnyTerm(c) ==
    LET p == c.to
        newer == c.term # currentTerm[p]
        voted1 == IF newer THEN Nil ELSE votedFor[p]
        grant == voted1 \in {Nil, c.from}
    IN
    /\ c.phase = "sent"
    /\ ~hung[p]
    /\ currentTerm' = [currentTerm EXCEPT ![p] = c.term]
    /\ state' = IF newer THEN [state EXCEPT ![p] = Follower] ELSE state
    /\ votedFor' = [votedFor EXCEPT ![p] = IF grant THEN c.from ELSE voted1]
    /\ calls' = (calls \ {c}) \cup
          {[c EXCEPT !.phase = "replied", !.rterm = c.term, !.granted = grant]}
    /\ UNCHANGED <<hung, votes, pending, incarnation, elections, restarts,
                   submitted>>

(***************************************************************************)
(* RaftRPC.RequestVote at the peer, under the peer's lock.                 *)
(***************************************************************************)
HandleRequestVote(c) ==
    LET p == c.to
        newer == c.term > currentTerm[p]
        term1 == IF newer THEN c.term ELSE currentTerm[p]
        voted1 == IF newer THEN Nil ELSE votedFor[p]
        grant == c.term >= currentTerm[p] /\ voted1 \in {Nil, c.from}
    IN
    /\ c.phase = "sent"
    /\ ~hung[p]
    /\ currentTerm' = [currentTerm EXCEPT ![p] = term1]
    /\ state' = IF newer THEN [state EXCEPT ![p] = Follower] ELSE state
    /\ votedFor' = [votedFor EXCEPT ![p] = IF grant THEN c.from ELSE voted1]
    /\ calls' = (calls \ {c}) \cup
          {[c EXCEPT !.phase = "replied", !.rterm = term1, !.granted = grant]}
    /\ UNCHANGED <<hung, votes, pending, incarnation, elections, restarts,
                   submitted>>

\* becomeLeader sets Leader and calls sendHeartbeats, whose first statement
\* is mu.RLock() on the RWMutex the caller holds for writing: the node
\* blocks there for ever, still holding the lock.
BecomeLeader(n) ==
    /\ state' = [state EXCEPT ![n] = Leader]
    /\ hung' = [hung EXCEPT ![n] = TRUE]

(***************************************************************************)
(* The goroutine re-takes the candidate's lock.  A higher term steps it    *)
(* down; a grant increments the counter of the election that spawned the *)
(* goroutine and, past a majority, calls becomeLeader with no check that  *)
(* the node is still a Candidate of that term.  becomeLeader sets Leader  *)
(* and then blocks in sendHeartbeats' RLock, holding the lock for ever.   *)
(***************************************************************************)
HandleVoteResponse(c) ==
    LET n == c.from
        cnt == votes[n][c.eterm] + 1
        elected == cnt > Cardinality(Node) \div 2
    IN
    /\ c.phase = "replied"
    /\ ~hung[n]
    /\ calls' = calls \ {c}
    /\ IF c.rterm > currentTerm[n]
       THEN /\ currentTerm' = [currentTerm EXCEPT ![n] = c.rterm]
            /\ state' = [state EXCEPT ![n] = Follower]
            /\ votedFor' = [votedFor EXCEPT ![n] = Nil]
            /\ UNCHANGED <<votes, hung>>
       ELSE /\ votes' = IF c.granted THEN [votes EXCEPT ![n][c.eterm] = cnt]
                                     ELSE votes
            /\ IF c.granted /\ elected THEN BecomeLeader(n)
                                         ELSE UNCHANGED <<state, hung>>
            /\ UNCHANGED <<currentTerm, votedFor>>
    /\ UNCHANGED <<pending, incarnation, elections, restarts, submitted>>

(***************************************************************************)
(* SubmitRequest puts a request on clientRequestChan (it gives up after    *)
(* 5s if the channel is full; the request is then never queued).          *)
(***************************************************************************)
SubmitRequest(n) ==
    /\ submitted < MaxRequests
    /\ pending[n] < ChanCap
    /\ pending' = [pending EXCEPT ![n] = @ + 1]
    /\ submitted' = submitted + 1
    /\ UNCHANGED <<nodeVars, calls, incarnation, elections, restarts>>

\* A variant that takes a request when none is queued, used to show that
\* TypeOK is sensitive to the channel's bookkeeping.
HandleClientRequestOnEmptyChan(n) ==
    /\ ~hung[n]
    /\ pending' = [pending EXCEPT ![n] = @ - 1]
    /\ UNCHANGED <<nodeVars, calls, incarnation, elections, restarts, submitted>>

(***************************************************************************)
(* run() takes the request and handleClientRequest answers it: its first  *)
(* statement is mu.RLock(), so a hung node never gets past it.  Whatever  *)
(* the answer (NOT_LEADER, or the leader's replication outcome), the      *)
(* request leaves the channel.                                            *)
(***************************************************************************)
HandleClientRequest(n) ==
    /\ pending[n] > 0
    /\ ~hung[n]
    /\ pending' = [pending EXCEPT ![n] = @ - 1]
    /\ UNCHANGED <<nodeVars, calls, incarnation, elections, restarts, submitted>>

(***************************************************************************)
(* The process is killed and started again (examples/*.sh kill nodes).    *)
(* Nothing of RaftNode is persisted: NewRaftNode starts from term 0 with  *)
(* no vote.  Its goroutines die, requests it was serving lose their       *)
(* connection, and its request channel is gone.                           *)
(***************************************************************************)
Restart(n) ==
    /\ restarts < MaxRestarts
    /\ InitNode(n)
    /\ calls' = {c \in calls : c.from # n /\ ~(c.to = n /\ c.phase = "sent")}
    /\ pending' = [pending EXCEPT ![n] = 0]
    /\ incarnation' = [incarnation EXCEPT ![n] = @ + 1]
    /\ restarts' = restarts + 1
    /\ UNCHANGED <<elections, submitted>>

Next ==
    \/ \E n \in Node : StartElection(n)
    \/ \E c \in calls : SendRequestVote(c)
    \/ \E c \in calls : DropCall(c)
    \/ \E c \in calls : HandleRequestVote(c)
    \/ \E c \in calls : HandleVoteResponse(c)
    \/ \E n \in Node : SubmitRequest(n)
    \/ \E n \in Node : HandleClientRequest(n)
    \/ \E n \in Node : Restart(n)

Spec == Init /\ [][Next]_vars

-----------------------------------------------------------------------------
(* Properties *)

VoteOncePerTerm ==
    [][\A n \in Node :
         /\ incarnation'[n] = incarnation[n]
         /\ currentTerm'[n] = currentTerm[n]
         /\ votedFor[n] # Nil
         => votedFor'[n] = votedFor[n]]_vars

\* Between restarts a node's term never decreases: every handler adopts a
\* term only when it is larger (RequestVote, the vote-response goroutine).
TermMonotonic ==
    [][\A n \in Node :
         incarnation'[n] = incarnation[n] => currentTerm'[n] >= currentTerm[n]]_vars
=============================================================================
