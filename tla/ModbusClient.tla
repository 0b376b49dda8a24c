----------------------------- MODULE ModbusClient -----------------------------
(***************************************************************************)
(* One client context (modbus_t) of libmodbus, its connection and the      *)
(* server at the other end.                                                *)
(*                                                                         *)
(* A call of the client API (modbus_read_bits ... modbus_report_slave_id,  *)
(* modbus.c) builds a request, sends it with send_msg, waits for an answer *)
(* with _modbus_receive_msg and judges it with check_confirmation.  The    *)
(* calls of one context follow each other, but the answers need not: an    *)
(* answer that comes after its call gave up is still read, by a later      *)
(* call.  TCP tells such answers from its own by the transaction           *)
(* identifier, RTU has nothing but the slave, the function and the length. *)
(*                                                                         *)
(* Frames arrive whole here; how the bytes of one are put together is      *)
(* module ModbusReceive.                                                   *)
(***************************************************************************)
EXTENDS ModbusPdu, Sequences, FiniteSets

CONSTANTS
    Tcp,               \* TRUE: TCP backend, FALSE: RTU backend
    LinkRecovery,      \* error_recovery & MODBUS_ERROR_RECOVERY_LINK
    ProtocolRecovery,  \* error_recovery & MODBUS_ERROR_RECOVERY_PROTOCOL
    TidMod,            \* number of transaction identifiers: UINT16_MAX + 1
    MaxLag,            \* an answer outlives its call by at most so many calls
    Requests           \* [slave, fn, addr, nb, wnb]

ASSUME ModeAssumption ==
    /\ Tcp \in BOOLEAN
    /\ LinkRecovery \in BOOLEAN
    /\ ProtocolRecovery \in BOOLEAN
ASSUME TidAssumption == TidMod \in Nat /\ MaxLag \in Nat /\ MaxLag < TidMod
ASSUME RequestAssumption ==
    Requests \subseteq [slave : 0 .. 255, fn : ClientFunctions, addr : Nat,
                        nb : Nat, wnb : Nat]

VARIABLES
    pc,        \* where the call is: "idle", "send", "recv" or "sleep"
    after,     \* what follows _sleep_and_flush: "send" or "idle"
    sock,      \* the state of the connection behind ctx->s
    t_id,      \* transaction identifier of the last request (TCP)
    req,       \* the request of the current or last call
    pending,   \* requests the server holds and has not answered
    rx,        \* frames in the receive buffer of the socket
    result,    \* what the last call returned: [errno, rsp]
    sends,     \* how often the current call handed its request over
    calm       \* TRUE: from now on the server is there and in time

vars == <<pc, after, sock, t_id, req, pending, rx, result, sends, calm>>

backend == IF Tcp THEN TCP ELSE RTU

\* A request on its way carries the identifier and its age: the number of
\* calls begun since its own.  The age is not on the wire.
Tagged == [tid : 0 .. TidMod - 1, age : 0 .. MaxLag, req : Requests]
Frame  == [tid : 0 .. TidMod - 1, age : 0 .. MaxLag, req : Requests,
           kind : {"normal", "exception", "corrupt"}]

\* The device decides how long its identification is.
IdLength == 2

NoFrame == [tid |-> 0, age |-> 0, kind |-> "none"]
Outcome(e, m) == [errno |-> e, rsp |-> m]
Failure(e) == Outcome(e, NoFrame)

Init ==
    /\ pc = "idle" /\ after = "idle"
    /\ sock = "closed"
    /\ t_id = 0
    /\ req \in Requests
    /\ pending = {} /\ rx = <<>>
    /\ result = Failure("none")
    /\ sends = 0
    /\ calm = FALSE

-----------------------------------------------------------------------------
(***************************************************************************)
(* Beginning a call.                                                       *)
(***************************************************************************)
TooMany(r) == r.nb > MaxQuantity(r.fn) \/ r.wnb > MaxWriteQuantity(r.fn)

\* Mutant: the identifier is counted on past UINT16_MAX.
NextTid_NoWrap == IF Tcp THEN t_id + 1 ELSE t_id

\* build_request_basis of the TCP backend counts on; RTU has no identifier.
NextTid == IF ~Tcp THEN t_id ELSE IF t_id < TidMod - 1 THEN t_id + 1 ELSE 0

Older(m) == [m EXCEPT !.age = @ + 1]

\* A quantity above the limit of the function: EMBMDATA, nothing is sent.
CallRefused(r) ==
    /\ pc = "idle"
    /\ TooMany(r)
    /\ req' = r
    /\ result' = Failure("EMBMDATA")
    /\ sends' = 0
    /\ UNCHANGED <<pc, after, sock, t_id, pending, rx, calm>>

\* The request is built.  MaxLag bounds how long answers stay under way: the
\* server drops older requests and the receive buffer holds no older answer.
Call(r) ==
    /\ pc = "idle"
    /\ ~TooMany(r)
    /\ \A i \in 1 .. Len(rx) : rx[i].age < MaxLag
    /\ req' = r
    /\ t_id' = NextTid
    /\ pending' = {Older(p) : p \in {q \in pending : q.age < MaxLag}}
    /\ rx' = [i \in 1 .. Len(rx) |-> Older(rx[i])]
    /\ result' = Failure("none")
    /\ sends' = 0
    /\ pc' = "send"
    /\ UNCHANGED <<after, sock, calm>>

-----------------------------------------------------------------------------
(***************************************************************************)
(* Opening and closing.  Closing a TCP connection cuts the server off, a   *)
(* slave on a serial line may still answer into the reopened port.         *)
(***************************************************************************)
Dropped == rx' = <<>> /\ pending' = IF Tcp THEN {} ELSE pending

\* modbus_close and modbus_connect as the recovery code calls them: in a row,
\* with the result of modbus_connect ignored.
Reconnect ==
    /\ Dropped
    /\ \/ sock' = "open"
       \/ sock' = "closed" /\ ~calm

Return(outcome) == pc' = "idle" /\ result' = outcome /\ UNCHANGED after

\* _sleep_and_flush, whose second half is the action SleepAndFlush.
Sleep(next, outcome) == pc' = "sleep" /\ after' = next /\ result' = outcome

-----------------------------------------------------------------------------
(***************************************************************************)
(* send_msg                                                                *)
(***************************************************************************)
\* The whole request goes out.  A peer that has closed its side does not get
\* it, and neither does one whose view of the stream is skewed.
SendOk ==
    /\ pc = "send"
    /\ sock \in {"open", "skewed", "reset"}
    /\ pc' = "recv"
    /\ sends' = sends + 1
    /\ IF sock = "open"
         THEN pending' = pending \cup {[tid |-> t_id, age |-> 0, req |-> req]}
         ELSE UNCHANGED pending
    /\ sock' = IF sock = "reset" THEN "broken" ELSE sock
    /\ UNCHANGED <<after, t_id, req, rx, result, calm>>

\* Only a part goes out: EMBBADDATA, and on TCP the server will take the next
\* request for the rest of this one.
SendShort ==
    /\ pc = "send"
    /\ sock = "open" /\ ~calm
    /\ sock' = IF Tcp THEN "skewed" ELSE sock
    /\ Return(Failure("EMBBADDATA"))
    /\ UNCHANGED <<t_id, req, pending, rx, sends, calm>>

\* send fails with EBADF, ECONNRESET or EPIPE.
SendFailsOnLink ==
    /\ pc = "send"
    /\ sock \in {"closed", "reset", "broken"}
    /\ IF LinkRecovery
         THEN Reconnect /\ UNCHANGED <<pc, after, result>>
         ELSE Return(Failure("EPIPE")) /\ UNCHANGED <<sock, pending, rx>>
    /\ UNCHANGED <<t_id, req, sends, calm>>

\* send fails otherwise (a full send buffer, an I/O error of the port).
SendFailsOtherwise ==
    /\ pc = "send"
    /\ sock \in {"open", "skewed"} /\ ~calm
    /\ IF LinkRecovery
         THEN Sleep("send", result)
         ELSE Return(Failure("EAGAIN"))
    /\ UNCHANGED <<sock, t_id, req, pending, rx, sends, calm>>

-----------------------------------------------------------------------------
(***************************************************************************)
(* _modbus_receive_msg and check_confirmation                              *)
(***************************************************************************)
\* The length check_integrity returns for a good frame.  RTU returns 0 for the
\* frame of a slave the context is not set to, which pre_check_confirmation
\* refuses unless the request was a broadcast.
rsp_length(m) ==
    IF ~Tcp /\ m.req.slave \notin {req.slave, 0}
      THEN 0
      ELSE IF m.kind = "exception"
             THEN ExceptionLength(backend)
             ELSE ReplyLength(backend, m.req.fn, m.req.nb, IdLength)

\* The function code as it stands in the answer.
rsp_function(m) == IF m.kind = "exception" THEN m.req.fn + 128 ELSE m.req.fn

\* The slave is only filtered here; the checksum of a frame for another slave
\* is not looked at.
check_integrity(m) == Tcp \/ m.req.slave \notin {req.slave, 0} \/ m.kind # "corrupt"

\* Mutant: the identifier is not compared.
pre_check_confirmation_NoTid(m) == Tcp \/ req.slave = 0 \/ req.slave = m.req.slave

pre_check_confirmation(m) ==
    IF Tcp THEN m.tid = t_id ELSE req.slave = 0 \/ req.slave = m.req.slave

\* The number of values in the answer against the number asked for.
SameQuantity(m) ==
    CASE req.fn \in BitReads ->
           BytesOfBits(req.nb) = ReplyByteCount(m.req.fn, m.req.nb, IdLength)
      [] req.fn \in RegisterReads \cup {FC_WRITE_AND_READ_REGISTERS} ->
           req.nb = ReplyByteCount(m.req.fn, m.req.nb, IdLength) \div 2
      [] req.fn \in MultipleWrites -> req.nb = m.req.nb
      [] OTHER -> TRUE

\* Mutant: the function of the answer is not compared.
check_confirmation_AnyFunction(m) ==
    IF /\ pre_check_confirmation(m) /\ m.kind = "normal" /\ SameQuantity(m)
       /\ rsp_length(m) = compute_response_length_from_request(backend, req.fn, req.nb)
      THEN "OK" ELSE "EMBBADDATA"

\* The errno of check_confirmation, or "OK".  EXCEPTION stands for the errno of
\* an exception code below MODBUS_EXCEPTION_MAX, which is all a server sends.
check_confirmation(m) ==
    LET computed == compute_response_length_from_request(backend, req.fn, req.nb)
    IN  CASE ~pre_check_confirmation(m) -> IF Tcp THEN "EMBBADDATA" ELSE "EMBBADSLAVE"
          [] pre_check_confirmation(m) /\ rsp_function(m) >= 128 ->
               IF rsp_length(m) = ExceptionLength(backend) /\ rsp_function(m) - 128 = req.fn
                 THEN "EXCEPTION" ELSE "EMBBADEXC"
          [] OTHER ->
               IF /\ computed \in {rsp_length(m), MSG_LENGTH_UNDEFINED}
                  /\ rsp_function(m) = req.fn
                  /\ SameQuantity(m)
                 THEN "OK" ELSE "EMBBADDATA"

\* The first frame of the receive buffer is taken and judged.  A wrong frame
\* makes the protocol recovery wait and flush; an exception never does.
RecvFrame ==
    /\ pc = "recv"
    /\ rx # <<>>
    /\ LET m == Head(rx)
           verdict == check_confirmation(m)
       IN  \/ /\ ~check_integrity(m)
              /\ rx' = IF ProtocolRecovery THEN <<>> ELSE Tail(rx)
              /\ Return(Failure("EMBBADCRC"))
           \/ /\ check_integrity(m)
              /\ rx' = Tail(rx)
              /\ IF verdict \in {"EMBBADDATA", "EMBBADSLAVE"} /\ ProtocolRecovery
                   THEN Sleep("idle", Failure(verdict))
                   ELSE Return(Outcome(verdict, m))
    /\ UNCHANGED <<sock, t_id, req, pending, sends, calm>>

\* Mutant: a timeout is taken for an interrupted select, which waits again.
RecvTimeout_Again ==
    /\ pc = "recv" /\ rx = <<>> /\ sock \in {"open", "skewed"}
    /\ UNCHANGED vars

\* select gives up: nothing came in time.
RecvTimeout ==
    /\ pc = "recv"
    /\ rx = <<>>
    /\ sock \in {"open", "skewed"}
    /\ calm => \A p \in pending : p.age # 0
    /\ IF LinkRecovery
         THEN Sleep("idle", Failure("ETIMEDOUT"))
         ELSE Return(Failure("ETIMEDOUT"))
    /\ UNCHANGED <<sock, t_id, req, pending, rx, sends, calm>>

\* Mutant: after the reconnect the request is sent once more.
RecvClosed_Resend ==
    /\ pc = "recv" /\ rx = <<>> /\ sock \in {"reset", "broken"}
    /\ IF LinkRecovery
         THEN Reconnect /\ pc' = "send" /\ UNCHANGED <<after, result>>
         ELSE Return(Failure("ECONNRESET")) /\ UNCHANGED <<sock, pending, rx>>
    /\ UNCHANGED <<t_id, req, sends, calm>>

\* recv finds the connection closed.  The call is over, even when the link
\* recovery has a new connection.
RecvClosed ==
    /\ pc = "recv"
    /\ rx = <<>>
    /\ sock \in {"reset", "broken"}
    /\ Return(Failure("ECONNRESET"))
    /\ IF LinkRecovery THEN Reconnect ELSE UNCHANGED <<sock, pending, rx>>
    /\ UNCHANGED <<t_id, req, sends, calm>>

\* recv fails with an errno the link recovery does not know.
RecvFails ==
    /\ pc = "recv"
    /\ rx = <<>>
    /\ sock = "broken"
    /\ Return(Failure("ETIMEDOUT"))
    /\ UNCHANGED <<sock, t_id, req, pending, rx, sends, calm>>

\* Mutant: the flush is missing.
SleepAndFlush_NoFlush ==
    /\ pc = "sleep"
    /\ calm => \A p \in pending : p.age # 0
    /\ pc' = after
    /\ UNCHANGED <<after, sock, t_id, req, pending, rx, result, sends, calm>>

\* The end of _sleep_and_flush: whatever came meanwhile is thrown away.  The
\* sleep is as long as the response timeout, so that the answer of a server
\* which is in time has come by then.
SleepAndFlush ==
    /\ pc = "sleep"
    /\ calm => \A p \in pending : p.age # 0
    /\ rx' = <<>>
    /\ pc' = after
    /\ UNCHANGED <<after, sock, t_id, req, pending, result, sends, calm>>

-----------------------------------------------------------------------------
(***************************************************************************)
(* The user between two calls: modbus_connect, modbus_close, modbus_flush. *)
(***************************************************************************)
Connect ==
    /\ pc = "idle"
    /\ sock = "closed"
    /\ sock' = "open"
    /\ UNCHANGED <<pc, after, t_id, req, pending, rx, result, sends, calm>>

Close ==
    /\ pc = "idle"
    /\ sock # "closed"
    /\ sock' = "closed"
    /\ Dropped
    /\ UNCHANGED <<pc, after, t_id, req, result, sends, calm>>

Flush ==
    /\ pc = "idle"
    /\ rx # <<>>
    /\ rx' = <<>>
    /\ UNCHANGED <<pc, after, sock, t_id, req, pending, result, sends, calm>>

-----------------------------------------------------------------------------
(***************************************************************************)
(* The server and the network (external).                                  *)
(***************************************************************************)
AnswerKinds == IF Tcp \/ calm THEN {"normal", "exception"}
                              ELSE {"normal", "exception", "corrupt"}

\* The server answers one of the requests it holds, when it likes.
Answer(p) ==
    /\ sock = "open"
    /\ \E k \in AnswerKinds :
          rx' = Append(rx, [tid |-> p.tid, age |-> p.age, req |-> p.req, kind |-> k])
    /\ pending' = pending \ {p}
    /\ UNCHANGED <<pc, after, sock, t_id, req, result, sends, calm>>

\* A request or its answer is lost.
Lose(p) ==
    /\ calm => p.age > 0
    /\ pending' = pending \ {p}
    /\ UNCHANGED <<pc, after, sock, t_id, req, rx, result, sends, calm>>

\* The peer closes the connection; a reset also takes what was not read yet.
PeerCloses ==
    /\ ~calm
    /\ sock \in {"open", "skewed"}
    /\ sock' = "reset"
    /\ rx' \in {rx, <<>>}
    /\ pending' = IF Tcp THEN {} ELSE pending
    /\ UNCHANGED <<pc, after, t_id, req, result, sends, calm>>

\* From here on the server is reachable and answers before the timeout.
GetCalm ==
    /\ ~calm
    /\ sock # "skewed"
    /\ calm' = TRUE
    /\ UNCHANGED <<pc, after, sock, t_id, req, pending, rx, result, sends>>

-----------------------------------------------------------------------------
Send == SendOk \/ SendShort \/ SendFailsOnLink \/ SendFailsOtherwise
Receive == RecvFrame \/ RecvTimeout \/ RecvClosed \/ RecvFails
LibraryStep == Send \/ Receive \/ SleepAndFlush

UserStep ==
    \/ \E r \in Requests : Call(r) \/ CallRefused(r)
    \/ Connect \/ Close \/ Flush

ServerStep ==
    \/ \E p \in pending : Answer(p) \/ Lose(p)
    \/ PeerCloses \/ GetCalm

Next == LibraryStep \/ UserStep \/ ServerStep

Spec == Init /\ [][Next]_vars

\* The thread that made the call runs on, and the clock with it; the answer
\* the calm server owes comes.
FairSpec ==
    /\ Spec
    /\ WF_vars(LibraryStep)
    /\ WF_vars(\E p \in pending : p.age = 0 /\ calm /\ Answer(p))

\* In addition, for the send loop of the link recovery: a server that is tried
\* for ever is reached in the end, and a send that is tried for ever succeeds.
LiveSpec ==
    /\ FairSpec
    /\ SF_vars(SendOk)
    /\ SF_vars(SendFailsOnLink /\ sock' = "open")

-----------------------------------------------------------------------------
(***************************************************************************)
(* Properties.                                                             *)
(***************************************************************************)
Errnos == {"none", "OK", "EXCEPTION", "EMBMDATA", "EMBBADDATA", "EMBBADSLAVE",
           "EMBBADEXC", "EMBBADCRC", "EPIPE", "EAGAIN", "ETIMEDOUT", "ECONNRESET"}

\* The type of the state of a client context and its surroundings.
TypeOK ==
    /\ pc \in {"idle", "send", "recv", "sleep"}
    /\ after \in {"idle", "send"}
    /\ sock \in {"closed", "open", "skewed", "reset", "broken"}
    /\ t_id \in 0 .. TidMod - 1
    /\ req \in Requests
    /\ pending \subseteq Tagged
    /\ rx \in Seq(Frame)
    /\ result \in [errno : Errnos, rsp : Frame \cup {NoFrame}]
    /\ sends \in Nat
    /\ calm \in BOOLEAN

\* A call that returns values or an exception returns those of its own
\* request, never the late answer to an earlier call that check_confirmation
\* let through.
OwnAnswer ==
    result.errno \in {"OK", "EXCEPTION"} => result.rsp.age = 0

\* Whoever's answer it is, it has the slave, the function and the number of
\* values that the caller's destination array was made for.
AnswerFits ==
    result.errno = "OK" =>
        LET m == result.rsp
        IN  /\ m.kind = "normal"
            /\ m.req.fn = req.fn
            /\ req.slave \in {0, m.req.slave}
            /\ req.fn \in RegisterReads \cup MultipleWrites => m.req.nb = req.nb
            /\ req.fn \in BitReads => BytesOfBits(m.req.nb) = BytesOfBits(req.nb)

\* The values a read returns are those of the registers it was asked for.
RegistersAsked == result.errno = "OK" => result.rsp.req.addr = req.addr

\* What the caller sees of the last call.
Shown ==
    CASE pc # "idle" \/ result.errno = "none" -> [what |-> "nothing"]
      [] pc = "idle" /\ result.errno = "OK" -> [what |-> "values", to |-> result.rsp.req]
      [] pc = "idle" /\ result.errno = "EXCEPTION" ->
            [what |-> "exception", to |-> result.rsp.req]
      [] pc = "idle" /\ result.errno = "EMBMDATA" -> [what |-> "refused"]
      [] OTHER -> [what |-> "failed"]

Promise == INSTANCE ModbusCall WITH
    Oversized <- {r \in Requests : TooMany(r)},
    state     <- IF pc = "idle" THEN "idle" ELSE "open",
    handed    <- sends,
    outcome   <- Shown

\* On TCP the client keeps the promise of ModbusCall: whatever is late, lost or
\* closed and whatever the recovery does about it, a call hands its request over
\* at most once (send_msg repeats only sends that failed, and no reconnect after
\* a successful send repeats it), and returns the answer to this very request or
\* an error.
ImplementsCall == Promise!CallSpec

\* Every call returns.
CallReturns == pc # "idle" ~> pc = "idle"

\* With both recoveries a connection on which answers came late finds back:
\* once the server is in time, and the user goes on calling, every call gets
\* its answer from some point on.
Resynchronises ==
    (/\ <>calm
     /\ []<><<\E r \in Requests : Call(r)>>_vars)
    => <>[](pc = "idle" => result.errno \in {"OK", "EXCEPTION", "EMBMDATA"})
=============================================================================
