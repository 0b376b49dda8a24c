----------------------------- MODULE ModbusStream -----------------------------
(***************************************************************************)
(* The bytes a TCP client reads over several calls: the receive loop of    *)
(* module ModbusReceive, check_confirmation and _sleep_and_flush (modbus.c,*)
(* modbus-tcp.c) on one stream, with answers that arrive in pieces, late,  *)
(* or in part before a call gives up and in part after it.                 *)
(*                                                                         *)
(* The calls are reads of holding registers.  Sending always succeeds and  *)
(* the connection stays open: what happens otherwise is in ModbusClient.   *)
(***************************************************************************)
EXTENDS ModbusPdu, Sequences

CONSTANTS
    LinkRecovery,      \* error_recovery & MODBUS_ERROR_RECOVERY_LINK
    ProtocolRecovery,  \* error_recovery & MODBUS_ERROR_RECOVERY_PROTOCOL
    TidMod,            \* number of transaction identifiers: UINT16_MAX + 1
    Quantities,        \* how many registers are read
    Data,              \* contents of registers, two bytes each
    Refusals,          \* the server may refuse a read before calm, FALSE, or after, TRUE
    Pieces,            \* how many bytes arrive at a time, if not all of them
    MaxPending,        \* bounds, until answers are in time: requests the server
    MaxBytes           \* has not answered, bytes not read when a call begins

ASSUME StreamAssumption ==
    /\ LinkRecovery \in BOOLEAN /\ ProtocolRecovery \in BOOLEAN
    /\ Refusals \subseteq BOOLEAN /\ TidMod \in 1 .. 256 /\ Quantities \subseteq 1 .. 125
    /\ Data \subseteq Seq(0 .. 255) /\ Pieces \subseteq Nat \ {0}
    /\ MaxPending \in Nat /\ MaxBytes \in Nat

VARIABLES
    pc,               \* "idle", "recv" or "sleep"
    t_id, nb,         \* of the last request
    pending,          \* requests the server has not answered
    coming,           \* bytes on their way to the client
    rx,               \* bytes in the receive buffer of the socket
    step,             \* the part of the message being read
    msg,              \* the bytes stored
    length_to_read,   \* bytes still wanted for this step
    errno,            \* of the last call, "OK" when it succeeded
    saved,            \* errno is set again after the flush
    own,              \* history: the answer to the request of the last call
    clean,            \* history: it began with nothing outstanding and in time
    calm              \* TRUE: from now on the server is in time

vars == <<pc, t_id, nb, pending, coming, rx, step, msg, length_to_read, errno,
          saved, own, clean, calm>>

Init ==
    /\ pc = "idle" /\ t_id = 0 /\ nb = 0
    /\ pending = <<>> /\ coming = <<>> /\ rx = <<>>
    /\ step = "function" /\ msg = <<>> /\ length_to_read = 0
    /\ errno = "OK" /\ saved = FALSE
    /\ own = <<>> /\ clean = TRUE /\ calm = FALSE

Outstanding == pending # <<>> \/ coming # <<>>

-----------------------------------------------------------------------------
(***************************************************************************)
(* The server.                                                             *)
(***************************************************************************)
Header(tid, length) == <<0, tid, 0, 0, 0, length, 255>>

Answers(q) ==
    {Header(q.tid, 3 + Len(d)) \o <<FC_READ_HOLDING_REGISTERS, Len(d)>> \o d :
        d \in {e \in Data : Len(e) = 2 * q.nb}}
    \cup IF calm \in Refusals
           THEN {Header(q.tid, 3) \o <<FC_READ_HOLDING_REGISTERS + 128, 2>>}
           ELSE {}

Answer ==
    /\ pending # <<>>
    /\ \E a \in Answers(Head(pending)) :
          /\ coming' = coming \o a
          /\ own' = IF Len(pending) = 1 THEN a ELSE own
    /\ pending' = Tail(pending)
    /\ UNCHANGED <<pc, t_id, nb, rx, step, msg, length_to_read, errno, saved, clean, calm>>

Arrive(k) ==
    /\ coming # <<>> /\ k <= Len(coming)
    /\ rx' = rx \o SubSeq(coming, 1, k)
    /\ coming' = SubSeq(coming, k + 1, Len(coming))
    /\ UNCHANGED <<pc, t_id, nb, pending, step, msg, length_to_read, errno, saved, own,
                   clean, calm>>

-----------------------------------------------------------------------------
(***************************************************************************)
(* The client.                                                             *)
(***************************************************************************)
NextTid == IF t_id < TidMod - 1 THEN t_id + 1 ELSE 0

\* Mutant: the bytes of the message before are still counted.
Call_Unreset(q) ==
    /\ pc = "idle"
    /\ calm \/ (Len(pending) < MaxPending /\ Len(rx) + Len(coming) <= MaxBytes)
    /\ pc' = "recv" /\ t_id' = NextTid /\ nb' = q
    /\ pending' = Append(pending, [tid |-> NextTid, nb |-> q])
    /\ step' = "function" /\ length_to_read' = TCP.header_length + 1
    /\ own' = <<>> /\ clean' = (~Outstanding /\ rx = <<>>)
    /\ UNCHANGED <<coming, rx, msg, errno, saved, calm>>

Call(q) ==
    /\ pc = "idle"
    /\ calm \/ (Len(pending) < MaxPending /\ Len(rx) + Len(coming) <= MaxBytes)
    /\ pc' = "recv"
    /\ t_id' = NextTid /\ nb' = q
    /\ pending' = Append(pending, [tid |-> NextTid, nb |-> q])
    /\ step' = "function" /\ msg' = <<>> /\ length_to_read' = TCP.header_length + 1
    /\ own' = <<>>
    /\ clean' = (~Outstanding /\ rx = <<>>)
    /\ UNCHANGED <<coming, rx, errno, saved, calm>>

Return(e) == pc' = "idle" /\ errno' = e /\ UNCHANGED saved

\* _sleep_and_flush, whose second half is the action Flush.
Sleep(e, s) == pc' = "sleep" /\ errno' = e /\ saved' = s

\* Mutant: the identifier is not compared.
check_confirmation_NoTid(m) ==
    Return(CASE m[TCP.header_length + 1] >= 128 -> "EXCEPTION"
             [] Len(m) = TCP.header_length + 2 + 2 * nb -> "OK"
             [] OTHER -> "EMBBADDATA")

\* Mutant: an answer with another identifier is refused without a flush.
check_confirmation_NoFlush(m) ==
    LET function == m[TCP.header_length + 1]
    IN  Return(CASE m[1] # 0 \/ m[2] # t_id -> "EMBBADDATA"
                 [] function >= 128 -> "EXCEPTION"
                 [] Len(m) = TCP.header_length + 2 + 2 * nb -> "OK"
                 [] OTHER -> "EMBBADDATA")

\* The errno of a wrong identifier is set before the recovery, any other after it.
check_confirmation(m) ==
    LET function == m[TCP.header_length + 1]
        Refuse(s) == IF ProtocolRecovery THEN Sleep("EMBBADDATA", s)
                                         ELSE Return("EMBBADDATA")
    IN  IF m[1] # 0 \/ m[2] # t_id THEN Refuse(FALSE)
        ELSE IF function >= 128
          THEN Return(IF /\ Len(m) = ExceptionLength(TCP)
                         /\ function - 128 = FC_READ_HOLDING_REGISTERS
                        THEN "EXCEPTION" ELSE "EMBBADEXC")
        ELSE IF /\ Len(m) = compute_response_length_from_request
                               (TCP, FC_READ_HOLDING_REGISTERS, nb)
                /\ function = FC_READ_HOLDING_REGISTERS
                /\ m[TCP.header_length + 2] \div 2 = nb
          THEN Return("OK")
        ELSE Refuse(TRUE)

\* More bytes of the message are wanted, or it is complete.
Wait(s, n) ==
    /\ step' = s /\ length_to_read' = n
    /\ UNCHANGED <<pc, errno, saved>>
Complete(m) == length_to_read' = 0 /\ UNCHANGED step /\ check_confirmation(m)

\* A message that is too long ends the call without a flush.
EnterData(m) ==
    LET data == compute_data_length_after_meta(TCP, m[TCP.header_length + 1],
                                    m[TCP.header_length + 2], "confirmation")
    IN  IF Len(m) + data > TCP.max_adu_length
          THEN Return("EMBBADDATA") /\ UNCHANGED <<step, length_to_read>>
          ELSE IF data = 0 THEN Complete(m) ELSE Wait("data", data)

StepComplete(m) ==
    CASE step = "function" -> Wait("meta", compute_meta_length_after_function
                                       (m[TCP.header_length + 1], "confirmation"))
      [] step = "meta" -> EnterData(m)
      [] step = "data" -> Complete(m)

\* recv returns what there is, but not more than is wanted.
Receive ==
    LET n == IF Len(rx) < length_to_read THEN Len(rx) ELSE length_to_read
        m == msg \o SubSeq(rx, 1, n)
    IN  /\ pc = "recv" /\ rx # <<>>
        /\ msg' = m
        /\ rx' = SubSeq(rx, n + 1, Len(rx))
        /\ IF n < length_to_read THEN Wait(step, length_to_read - n) ELSE StepComplete(m)
        /\ UNCHANGED <<t_id, nb, pending, coming, own, clean, calm>>

\* The response timeout, or the byte timeout in the middle of a message.
Timeout ==
    /\ pc = "recv" /\ rx = <<>>
    /\ calm => ~Outstanding
    /\ IF LinkRecovery THEN Sleep("ETIMEDOUT", TRUE) ELSE Return("ETIMEDOUT")
    /\ clean' = FALSE
    /\ UNCHANGED <<t_id, nb, pending, coming, rx, step, msg, length_to_read, own, calm>>

\* After the sleep, whatever has arrived is thrown away.  recv fails with
\* EAGAIN when there is nothing.
Flush ==
    /\ pc = "sleep"
    /\ calm => ~Outstanding
    /\ pc' = "idle"
    /\ rx' = <<>>
    /\ errno' = IF saved \/ rx # <<>> THEN errno ELSE "EAGAIN"
    /\ UNCHANGED <<t_id, nb, pending, coming, step, msg, length_to_read, saved, own, clean,
                   calm>>

GetCalm ==
    /\ ~calm
    /\ calm' = TRUE
    /\ UNCHANGED <<pc, t_id, nb, pending, coming, rx, step, msg, length_to_read, errno,
                   saved, own, clean>>

Next ==
    \/ \E q \in Quantities : Call(q)
    \/ Answer
    \/ \E k \in Pieces \cup {Len(coming)} : Arrive(k)
    \/ Receive \/ Timeout \/ Flush
    \/ GetCalm

Spec == Init /\ [][Next]_vars

\* The calling thread runs, the server answers, the network delivers, and the
\* user goes on calling.
FairSpec ==
    /\ Spec
    /\ WF_vars(\E q \in Quantities : Call(q))
    /\ WF_vars(Answer) /\ WF_vars(\E k \in Pieces \cup {Len(coming)} : Arrive(k))
    /\ WF_vars(Receive) /\ WF_vars(Timeout) /\ WF_vars(Flush)

-----------------------------------------------------------------------------
(***************************************************************************)
(* Properties.                                                             *)
(***************************************************************************)
Errnos == {"OK", "EXCEPTION", "EMBBADDATA", "EMBBADEXC", "ETIMEDOUT", "EAGAIN"}
Good == {"OK", "EXCEPTION"}

\* A call that begins with nothing outstanding and is answered in time succeeds
\* (or brings the exception the server sent) with the very bytes of its answer,
\* however they are cut into pieces, and leaves none of them behind.
AnswerTaken ==
    (pc = "idle" /\ clean /\ nb # 0) =>
        errno \in Good /\ msg = own /\ rx = <<>> /\ coming = <<>>

\* What a call that succeeds returns is the answer to its own request, also when
\* it begins in the middle of another.  (Of the header only the identifier is
\* compared: a register with the function code and the byte count in it can make
\* what is left over look like an answer.  The contents the run has do not.)
OwnBytes == (pc = "idle" /\ errno = "OK" /\ nb # 0) => msg = own

\* Whatever part of which answer is left in the stream, once answers are in time
\* again the client gets back into step with them and all calls succeed.
Realigns == <>calm => <>[](pc = "idle" => errno \in Good)

\* The errno a caller finds is that of what went wrong in the call.
ReasonKept == pc = "idle" => errno # "EAGAIN"
=============================================================================
