----------------------------- MODULE ModbusSystem -----------------------------
(***************************************************************************)
(* Several TCP clients and one server, end to end: the calls of the        *)
(* clients, the requests and answers under way, connections that break and *)
(* are opened anew, and modbus_reply on the tables.                        *)
(*                                                                         *)
(* Of a client this keeps what module ModbusClient shows to be its control *)
(* on TCP: a call sends its request once, then takes the first answer of   *)
(* its connection and accepts it if the transaction identifier is its own. *)
(* With and without error recovery differ in when a connection is flushed  *)
(* and opened anew; here both may happen after any call.  A request that   *)
(* goes out in part is left to ModbusClient.                               *)
(*                                                                         *)
(* `n' numbers the calls of a client and `served' keeps the answer the     *)
(* server gave to its current one: history variables.  The number goes     *)
(* with the messages, but no guard that stands for code looks at it except *)
(* to take the messages of a connection in their order.                    *)
(***************************************************************************)
EXTENDS ModbusServer

CONSTANTS
    Clients,
    Requests,    \* [fn, address, nb, values, address_write, wnb]
    TidMod,      \* number of transaction identifiers: UINT16_MAX + 1
    MaxCalls,    \* bound: calls of one client
    MaxConn      \* bound: connections of one client

ASSUME BoundAssumption ==
    TidMod \in Nat \ {0} /\ MaxCalls \in Nat /\ MaxConn \in Nat

ASSUME RequestAssumption ==
    \A r \in Requests :
        /\ r.fn \in ClientFunctions /\ r.address \in Nat /\ r.address_write \in Nat
        /\ r.nb \in Nat /\ r.wnb \in Nat /\ r.values \in Seq(Nat)
        /\ r.fn \notin SingleWrites => r.nb >= 1
        /\ r.fn \in MultipleWrites => Len(r.values) = r.nb
        /\ r.fn = FC_WRITE_SINGLE_COIL => r.nb \in {COIL_ON, 0}
        /\ r.fn = FC_WRITE_AND_READ_REGISTERS => r.wnb >= 1 /\ Len(r.values) = r.wnb

VARIABLES
    mem,         \* the tables of the server
    pc,          \* "idle" or "recv", for each client
    n,           \* the number of calls each client has begun
    t_id,        \* transaction identifier of the last request
    req,         \* the request of the current or last call
    result,      \* what the last call returned
    up,          \* is the connection open, as the server sees it?
    conn,        \* the number of connections each client has opened
    requests,    \* requests the server has not read yet
    answers,     \* answers the client has not read yet, on its last connection
    served       \* the answer of the server to the current call: at most one

vars == <<mem, pc, n, t_id, req, result, up, conn, requests, answers, served>>

Failed == [outcome |-> "failed"]
Shown(a) == [refused |-> a.code # 0, values |-> a.values]
Returned(a) == [outcome |-> "returned", answer |-> Shown(a)]

Init ==
    /\ mem = modbus_mapping_new
    /\ pc = [c \in Clients |-> "idle"]
    /\ n = [c \in Clients |-> 0]
    /\ t_id = [c \in Clients |-> 0]
    /\ req = [c \in Clients |-> CHOOSE r \in Requests : TRUE]
    /\ result = [c \in Clients |-> Failed]
    /\ up = [c \in Clients |-> FALSE]
    /\ conn = [c \in Clients |-> 0]
    /\ requests = {} /\ answers = {}
    /\ served = [c \in Clients |-> {}]

AnswersOf(c) == {a \in answers : a.client = c}
Unread(c)    == {m \in requests : m.client = c /\ m.conn = conn[c]}

NextTid(c) == IF t_id[c] < TidMod - 1 THEN t_id[c] + 1 ELSE 0

\* modbus_connect: by the user, by connectWhenNeeded or by the link recovery.
Connect(c) ==
    /\ pc[c] = "idle" /\ ~up[c]
    /\ conn[c] < MaxConn
    /\ conn' = [conn EXCEPT ![c] = @ + 1]
    /\ up' = [up EXCEPT ![c] = TRUE]
    /\ answers' = answers \ AnswersOf(c)
    /\ UNCHANGED <<mem, pc, n, t_id, req, result, requests, served>>

\* modbus_close: what the server has not read yet, it still reads.
Close(c) ==
    /\ pc[c] = "idle" /\ up[c]
    /\ up' = [up EXCEPT ![c] = FALSE]
    /\ answers' = answers \ AnswersOf(c)
    /\ UNCHANGED <<mem, pc, n, t_id, req, result, conn, requests, served>>

\* A request is built and sent.  There are more identifiers than requests
\* and answers of one connection at a time.
Call(c, r) ==
    /\ pc[c] = "idle" /\ up[c]
    /\ n[c] < MaxCalls
    /\ \A m \in Unread(c) \cup AnswersOf(c) : n[c] + 1 < m.n + TidMod
    /\ n' = [n EXCEPT ![c] = @ + 1]
    /\ t_id' = [t_id EXCEPT ![c] = NextTid(c)]
    /\ req' = [req EXCEPT ![c] = r]
    /\ pc' = [pc EXCEPT ![c] = "recv"]
    /\ requests' = requests \cup
          {[client |-> c, conn |-> conn[c], n |-> n[c] + 1, tid |-> NextTid(c), req |-> r]}
    /\ served' = [served EXCEPT ![c] = {}]
    /\ UNCHANGED <<mem, result, up, conn, answers>>

CurrentRequest(m) == pc[m.client] = "recv" /\ m.n = n[m.client]

\* Carrying out a request and answering with the identifier found in it (no
\* function of the client API goes unanswered).  The answer goes nowhere when
\* the connection is gone.
Carry(m) ==
    LET c == m.client
        done == modbus_reply(mem, m.req)
        answer == [client |-> c, n |-> m.n, tid |-> m.tid,
                   code |-> done.code, values |-> done.values]
    IN  /\ mem' = done.mem
        /\ answers' = IF up[c] /\ m.conn = conn[c] THEN answers \cup {answer} ELSE answers
        /\ served' = IF CurrentRequest(m) THEN [served EXCEPT ![c] = {answer}] ELSE served

\* Mutant: the requests of a connection are carried out by several threads.
Serve_AnyOrder(m) ==
    /\ Carry(m)
    /\ requests' = requests \ {m}
    /\ UNCHANGED <<pc, n, t_id, req, result, up, conn>>

\* The server reads the next request of a connection and answers.
Serve(m) ==
    /\ \A o \in requests : o.client = m.client /\ o.conn = m.conn => m.n <= o.n
    /\ Carry(m)
    /\ requests' = requests \ {m}
    /\ UNCHANGED <<pc, n, t_id, req, result, up, conn>>

\* The next answer of the connection is taken.  One with another identifier
\* ends the call as well.
Receive(c) ==
    /\ pc[c] = "recv"
    /\ \E a \in AnswersOf(c) :
          /\ \A o \in AnswersOf(c) : a.n <= o.n
          /\ answers' = answers \ {a}
          /\ result' = [result EXCEPT ![c] = IF a.tid = t_id[c] THEN Returned(a) ELSE Failed]
    /\ pc' = [pc EXCEPT ![c] = "idle"]
    /\ UNCHANGED <<mem, n, t_id, req, up, conn, requests, served>>

\* Nothing came in time, or the connection is closed.
RecvFails(c) ==
    /\ pc[c] = "recv"
    /\ AnswersOf(c) = {}
    /\ result' = [result EXCEPT ![c] = Failed]
    /\ pc' = [pc EXCEPT ![c] = "idle"]
    /\ UNCHANGED <<mem, n, t_id, req, up, conn, requests, answers, served>>

\* The flush of the recovery, or modbus_flush.
Flush(c) ==
    /\ pc[c] = "idle" /\ AnswersOf(c) # {}
    /\ answers' = answers \ AnswersOf(c)
    /\ UNCHANGED <<mem, pc, n, t_id, req, result, up, conn, requests, served>>

\* The server or the network closes a connection.  What the server has not
\* read by then is gone; what it has sent may still be read, or is gone too.
PeerCloses(c) ==
    /\ up[c]
    /\ up' = [up EXCEPT ![c] = FALSE]
    /\ requests' = requests \ Unread(c)
    /\ answers' \in {answers, answers \ AnswersOf(c)}
    /\ UNCHANGED <<mem, pc, n, t_id, req, result, conn, served>>

\* A connection the client has left breaks before the server has read it.
Forget(c) ==
    /\ \E k \in 0 .. conn[c] :
          /\ k = conn[c] => ~up[c]
          /\ \E m \in requests : m.client = c /\ m.conn = k
          /\ requests' = {m \in requests : m.client # c \/ m.conn # k}
    /\ UNCHANGED <<mem, pc, n, t_id, req, result, up, conn, answers, served>>

Next ==
    \/ \E c \in Clients :
          \/ Connect(c) \/ Close(c) \/ Receive(c) \/ RecvFails(c) \/ Flush(c)
          \/ PeerCloses(c) \/ Forget(c)
          \/ \E r \in Requests : Call(c, r)
    \/ \E m \in requests : Serve(m)

Spec == Init /\ [][Next]_vars

-----------------------------------------------------------------------------
(***************************************************************************)
(* What a request means, for ModbusMemory: the cells it writes and reads.  *)
(***************************************************************************)
Cells == UNION {{t} \X (0 .. Nb[t] - 1) : t \in Tables}

Span(t, address, nb) == {t} \X (address .. address + nb - 1)

Writes(r) ==
    CASE r.fn \in SingleWrites ->
           [x \in {<<TableOf(r.fn), r.address>>} |->
               IF r.fn = FC_WRITE_SINGLE_COIL /\ r.nb = COIL_ON THEN 1 ELSE r.nb]
      [] r.fn \in MultipleWrites ->
           [x \in Span(TableOf(r.fn), r.address, r.nb) |-> r.values[x[2] - r.address + 1]]
      [] r.fn = FC_WRITE_AND_READ_REGISTERS ->
           [x \in Span("registers", r.address_write, r.wnb) |->
               r.values[x[2] - r.address_write + 1]]
      [] OTHER -> [x \in {} |-> 0]

Reads(r) ==
    IF r.fn \in BitReads \cup RegisterReads \cup {FC_WRITE_AND_READ_REGISTERS}
      THEN [k \in 1 .. r.nb |-> <<TableOf(r.fn), r.address + k - 1>>]
      ELSE <<>>

(***************************************************************************)
(* Properties.                                                             *)
(***************************************************************************)
Answer == [client : Clients, n : 1 .. MaxCalls, tid : 0 .. TidMod - 1,
           code : 0 .. 3, values : Seq(Nat)]
Message == [client : Clients, conn : 1 .. MaxConn, n : 1 .. MaxCalls,
            tid : 0 .. TidMod - 1, req : Requests]

\* The type of the state.  No table ever grows or shrinks, and no answer holds
\* a value from behind the end of a table.
TypeOK ==
    /\ DOMAIN mem = Tables
    /\ \A t \in Tables : mem[t] \in [0 .. Nb[t] - 1 -> Nat]
    /\ pc \in [Clients -> {"idle", "recv"}]
    /\ n \in [Clients -> 0 .. MaxCalls]
    /\ t_id \in [Clients -> 0 .. TidMod - 1]
    /\ req \in [Clients -> Requests]
    /\ up \in [Clients -> BOOLEAN]
    /\ conn \in [Clients -> 0 .. MaxConn]
    /\ requests \subseteq Message
    /\ answers \subseteq Answer
    /\ \A c \in Clients : served[c] \subseteq Answer

\* The state of ModbusMemory.  A call is done once the server has carried out
\* its request; the other requests under way are strays.
Memory == INSTANCE ModbusMemory WITH
    Ops   <- Requests,
    cells <- [x \in Cells |-> mem[x[1]][x[2]]],
    call  <- [c \in Clients |->
                 IF pc[c] = "idle" THEN [state |-> "idle"]
                 ELSE IF served[c] = {} THEN [state |-> "open", op |-> req[c]]
                 ELSE [state |-> "done", op |-> req[c],
                       answer |-> Shown(CHOOSE a \in served[c] : TRUE)]],
    stray <- {[client |-> m.client, n |-> m.n, op |-> m.req] :
                 m \in {m \in requests : ~CurrentRequest(m)}}

\* The clients and the server implement ModbusMemory: whatever is delayed,
\* thrown away or repeated, a call that returns has read and written its cells
\* in one step between its beginning and its return and brings what it read;
\* one that fails does so at most once, then or later; a refused call changes
\* nothing, and no call touches a cell it does not name.
ImplementsMemory == Memory!Spec

\* When a call returns with an answer, nothing the client sent before on this
\* connection can take effect any more, the requests of its failed calls
\* included: the server reads a connection in order.
SettledOnReturn ==
    \A c \in Clients :
        pc[c] = "idle" /\ result[c].outcome = "returned" => Unread(c) = {}
=============================================================================
