------------------------------ MODULE NetworkKV ------------------------------
(***************************************************************************)
(* The TCP key-value protocol of internal/network: a Client (client.go)    *)
(* talking to a Server (server.go) over connections that carry the frames  *)
(* of protocol.go.                                                         *)
(*                                                                         *)
(* A connection is two FIFO streams.  A request frame [Op][KeyLen][Key]    *)
(* [ValueLen][Value] is one element of the request stream: WriteMessage    *)
(* only fails on a closed connection, and then nothing is sent.  A         *)
(* response [Status][ValueLen][Value][ErrorLen][Error] is a "head"         *)
(* element (everything up to ErrorLen) followed, when the error string is  *)
(* not empty, by a "text" element: ReadResponse reads the two separately   *)
(* and may stop between them.  Keys and values are small, so the 1MB and   *)
(* 10MB limits on keys and values are never hit by a frame read in step;   *)
(* an error string is "short" (at most 1024 bytes) or "long".             *)
(*                                                                         *)
(* The Client's methods hold c.mu for their whole body, so the calls of    *)
(* all goroutines sharing a Client run one at a time: one caller issuing   *)
(* calls in sequence is the general case.  Each accepted connection has    *)
(* its own handleConnection goroutine; the Storage behind the Server is    *)
(* any Storage: a map whose Put and Delete may fail with an error string   *)
(* whose length is one of ErrLens.                                         *)
(***************************************************************************)
EXTENDS Naturals, Sequences

CONSTANTS Key, Val, NoVal,
          ErrLens,   \* lengths of the Storage's error strings: SUBSET {"short", "long"}
          MaxCalls,  \* bound on client calls
          MaxConns   \* bound on Connect calls

ASSUME NoVal \notin Val /\ ErrLens \subseteq {"short", "long"}
\* A long error string has more than 1024 bytes; a misaligned ReadResponse
\* consumes 5 of them, so MaxCalls reads never exhaust one.
ASSUME MaxCalls \in 1..200 /\ MaxConns \in Nat

Conn == 1..MaxConns
CallId == 1..MaxCalls
Pending == "pending"
NoAnswer == [status |-> "none"]

VARIABLES store,    \* the Storage's contents
          cur,      \* c.conn: 0 is nil, else the connection Connect dialled last
          closed,   \* closed[c]: c.conn.Close was called on c
          req,      \* req[c]: request frames on c not yet read by its handler
          resp,     \* resp[c]: response elements on c not yet read by the client
          cpc,      \* the caller: "idle", or "wait" in ReadResponse
          calls,    \* history: the calls issued, in order
          answers,  \* history: answers[i] is the response the server wrote for call i
          results   \* history: results[i] is what call i returned

vars == <<store, cur, closed, req, resp, cpc, calls, answers, results>>

Request == [id : CallId, op : {"put", "get", "delete"}, key : Key, val : Val \cup {NoVal}]
Response == [status : {"ok", "error", "notfound"}, val : Val \cup {NoVal},
             elen : {"none", "short", "long"}]
Element == [id : CallId, part : {"head"}, r : Response]
           \cup [id : CallId, part : {"text"}, elen : {"short", "long"}]

TypeOK ==
    /\ store \in [Key -> Val \cup {NoVal}]
    /\ cur \in 0..MaxConns /\ closed \in [Conn -> BOOLEAN]
    /\ req \in [Conn -> Seq(Request)] /\ resp \in [Conn -> Seq(Element)]
    /\ cpc \in {"idle", "wait"} /\ calls \in Seq(Request) /\ Len(calls) <= MaxCalls
    /\ answers \in [CallId -> Response \cup {NoAnswer}]
    /\ results \in [CallId -> Val \cup {"ok", "err", "notfound", Pending}]

Init ==
    /\ store = [k \in Key |-> NoVal] /\ cur = 0
    /\ closed = [c \in Conn |-> FALSE]
    /\ req = [c \in Conn |-> <<>>] /\ resp = [c \in Conn |-> <<>>]
    /\ cpc = "idle" /\ calls = <<>>
    /\ answers = [i \in CallId |-> NoAnswer] /\ results = [i \in CallId |-> Pending]

\* WriteResponse: the head, then the error string when it is not empty.
WriteResponse(id, r) ==
    <<[id |-> id, part |-> "head", r |-> r]>>
    \o (IF r.elen = "none" THEN <<>> ELSE <<[id |-> id, part |-> "text", elen |-> r.elen]>>)

\* ReadResponse on a stream s whose first element is available: the
\* response read (NoAnswer for an error) and what is left of s.  At a head
\* it returns "error message too large" after reading ErrorLen, leaving the
\* error bytes.  At error text, Status is a text byte (not 0) and ValueLen
\* four of them (more than 10MB): "value too large" after 5 bytes.
ReadResponse(s) ==
    LET e == Head(s) IN
    CASE e.part = "text"     -> [r |-> NoAnswer, rest |-> s]
      [] e.r.elen = "long"  -> [r |-> NoAnswer, rest |-> Tail(s)]
      [] e.r.elen = "short" -> [r |-> e.r, rest |-> Tail(Tail(s))]
      [] OTHER              -> [r |-> e.r, rest |-> Tail(s)]

\* What Put, Get and Delete return for the response r ("failed to read
\* response" for NoAnswer, "key not found", "server error: ...").
Outcome(op, r) ==
    CASE r = NoAnswer                           -> "err"
      [] op = "get" /\ r.status = "notfound"    -> "notfound"
      [] r.status # "ok"                        -> "err"
      [] op = "get"                             -> r.val
      [] OTHER                                  -> "ok"

\* Connect: net.Dial, then c.conn = conn.  It does not take c.mu; with
\* one caller it runs between calls.  A failed Dial changes nothing.
Connect ==
    /\ cpc = "idle" /\ cur < MaxConns
    /\ cur' = cur + 1
    /\ UNCHANGED <<store, closed, req, resp, cpc, calls, answers, results>>

\* Close: c.conn.Close under c.mu; c.conn is not set to nil.
Close ==
    /\ cpc = "idle" /\ cur # 0 /\ ~closed[cur]
    /\ closed' = [closed EXCEPT ![cur] = TRUE]
    /\ UNCHANGED <<store, cur, req, resp, cpc, calls, answers, results>>

\* Put, Get and Delete up to ReadResponse: "not connected" on a nil c.conn,
\* "failed to send request" on a closed one, else the frame is sent.
Call(m) ==
    /\ cpc = "idle" /\ Len(calls) < MaxCalls /\ m.id = Len(calls) + 1
    /\ calls' = Append(calls, m)
    /\ IF cur = 0 \/ closed[cur]
          THEN results' = [results EXCEPT ![m.id] = "err"] /\ UNCHANGED <<req, cpc>>
          ELSE req' = [req EXCEPT ![cur] = Append(@, m)] /\ cpc' = "wait"
               /\ UNCHANGED results
    /\ UNCHANGED <<store, cur, closed, resp, answers>>

\* The rest of Put, Get and Delete: ReadResponse and the status checks.
Receive ==
    /\ cpc = "wait" /\ resp[cur] # <<>>
    /\ LET rr == ReadResponse(resp[cur])
           id == Len(calls)
       IN /\ resp' = [resp EXCEPT ![cur] = rr.rest]
          /\ results' = [results EXCEPT ![id] = Outcome(calls[id].op, rr.r)]
    /\ cpc' = "idle"
    /\ UNCHANGED <<store, cur, closed, req, calls, answers>>

\* processRequest with handlePut, handleGet and handleDelete: the Storage
\* call and the response built from its result; "key not found" from Get
\* is StatusNotFound.
Process(m, r, s) ==
    CASE m.op = "get" ->
            /\ s = store
            /\ r = IF store[m.key] = NoVal
                     THEN [status |-> "notfound", val |-> NoVal, elen |-> "short"]
                     ELSE [status |-> "ok", val |-> store[m.key], elen |-> "none"]
      [] OTHER ->
            \/ /\ s = [store EXCEPT ![m.key] = IF m.op = "put" THEN m.val ELSE NoVal]
               /\ r = [status |-> "ok", val |-> NoVal, elen |-> "none"]
            \/ /\ s = store
               /\ \E l \in ErrLens : r = [status |-> "error", val |-> NoVal, elen |-> l]

\* One turn of handleConnection's loop on c: ReadMessage, processRequest,
\* WriteResponse.  The peer's Close does not stop the read of frames it
\* sent before; it may make the write fail, which ends the loop and leaves
\* the frames after this one unread.
Serve(c) ==
    /\ req[c] # <<>>
    /\ \E r \in Response, s \in [Key -> Val \cup {NoVal}] :
          /\ Process(Head(req[c]), r, s)
          /\ store' = s
          /\ answers' = [answers EXCEPT ![Head(req[c]).id] = r]
          /\ \/ /\ req' = [req EXCEPT ![c] = Tail(@)]
                /\ resp' = [resp EXCEPT ![c] = @ \o WriteResponse(Head(req[c]).id, r)]
             \/ /\ closed[c]
                /\ req' = [req EXCEPT ![c] = <<>>]
                /\ UNCHANGED resp
    /\ UNCHANGED <<cur, closed, cpc, calls, results>>

Next ==
    \/ Connect \/ Close \/ Receive
    \/ \E m \in Request : Call(m)
    \/ \E c \in Conn : Serve(c)

Spec == Init /\ [][Next]_vars

(***************************************************************************)
(* Properties                                                              *)
(***************************************************************************)

\* Every call that returned, and whose request the server answered,
\* returned what the client's status checks make of that answer: a Put or
\* Delete the Storage applied is not reported failed, and a Get returns
\* the value read for it, not another call's response.
CallsSeeTheirResponses ==
    \A i \in 1..Len(calls) :
        results[i] # Pending /\ answers[i] # NoAnswer
            => results[i] = Outcome(calls[i].op, answers[i])
====
