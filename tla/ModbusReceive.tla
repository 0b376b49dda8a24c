---------------------------- MODULE ModbusReceive ----------------------------
(***************************************************************************)
(* The receive loop _modbus_receive_msg (modbus.c).                        *)
(*                                                                         *)
(* One behaviour is one call: the bytes of a frame arrive in pieces of any *)
(* size, the loop asks for the bytes up to the function code, then for the *)
(* fixed part behind it, then for the data, and learns how many bytes each *)
(* part has only from the bytes it already holds.  The peer may pause for  *)
(* longer than the timeout, close the connection, or send something that   *)
(* is no frame at all.                                                     *)
(*                                                                         *)
(* What follows the loop (check_integrity, the recovery of the connection, *)
(* check_confirmation) belongs to module ModbusClient.                     *)
(***************************************************************************)
EXTENDS ModbusPdu

CONSTANTS
    Requests,       \* requests [fn, nb, wnb] that travel between the peers
    IdLengths,      \* lengths of the identification a device may report
    Noise,          \* [fn, count, len]: bytes that are not a frame of a peer
    Pieces,         \* numbers of bytes one recv may return
    ByteTimeout     \* byte_timeout.tv_sec # -1

ASSUME RequestsAssumption ==
    \A r \in Requests : Sendable(r.fn, r.nb, r.wnb)
ASSUME IdLengthsAssumption == IdLengths \subseteq 0 .. 251
ASSUME NoiseAssumption ==
    Noise \subseteq [fn : 0 .. 255, count : 0 .. 255, len : Nat]
ASSUME PiecesAssumption == Pieces \subseteq Nat \ {0}
ASSUME ByteTimeoutAssumption == ByteTimeout \in BOOLEAN

VARIABLES
    call,            \* the arguments: [backend, msg_type]; never changes
    frame,           \* what the peer sends; never changes
    step,            \* the part of the message being read
    msg_length,      \* bytes stored so far
    length_to_read,  \* bytes still wanted for this step
    p_tv,            \* which timeout the next select waits for
    rc               \* "reading", or how the call ended

vars == <<call, frame, step, msg_length, length_to_read, p_tv, rc>>

MsgTypes == {"indication", "confirmation"}

(***************************************************************************)
(* What a peer can send.  `fn' and `count' are the two bytes the loop      *)
(* looks at and `len' is the number of bytes of the frame.                 *)
(***************************************************************************)
RequestFrame(b, r) ==
    [kind |-> "request", fn |-> r.fn,
     count |-> RequestByteCount(r.fn, r.nb, r.wnb),
     len |-> RequestLength(b, r.fn, r.nb, r.wnb), req |-> r]

ReplyFrame(b, r, idlen) ==
    [kind |-> "reply", fn |-> r.fn,
     count |-> ReplyByteCount(r.fn, r.nb, idlen),
     len |-> ReplyLength(b, r.fn, r.nb, idlen), req |-> r]

ExceptionFrame(b, r) ==
    [kind |-> "exception", fn |-> r.fn + 128, count |-> 2,
     len |-> ExceptionLength(b), req |-> r]

NoiseFrame(n) ==
    [kind |-> "noise", fn |-> n.fn, count |-> n.count, len |-> n.len, req |-> n]

FramesFor(c) ==
    {NoiseFrame(n) : n \in Noise}
      \cup (IF c.msg_type = "indication"
              THEN {RequestFrame(c.backend, r) : r \in Requests}
              ELSE {ReplyFrame(c.backend, r, i) : r \in Requests, i \in IdLengths}
                     \cup {ExceptionFrame(c.backend, r) : r \in Requests})

Init ==
    /\ call \in [backend : Backends, msg_type : MsgTypes]
    /\ frame \in FramesFor(call)
    /\ step = "function"
    /\ msg_length = 0
    /\ length_to_read = call.backend.header_length + 1
    /\ p_tv = IF call.msg_type = "indication" THEN "none" ELSE "response"
    /\ rc = "reading"

\* The case labels _STEP_FUNCTION and _STEP_META for a step that is complete
\* after `total' bytes; _STEP_FUNCTION falls through when no fixed part follows.
EnterMeta(meta) ==
    /\ step' = "meta"
    /\ length_to_read' = meta
    /\ rc' = "reading"

\* Mutant: the length of the message is not compared with max_adu_length.
EnterData_Unbounded(total) ==
    LET data == compute_data_length_after_meta(call.backend, frame.fn,
                                               frame.count, call.msg_type)
    IN  /\ length_to_read' = data
        /\ step' = "data"
        /\ rc' = IF data = 0 THEN "done" ELSE "reading"

EnterData(total) ==
    LET data == compute_data_length_after_meta(call.backend, frame.fn,
                                               frame.count, call.msg_type)
    IN  /\ length_to_read' = data
        /\ IF total + data > call.backend.max_adu_length
             THEN step' = step /\ rc' = "EMBBADDATA"
             ELSE step' = "data" /\ rc' = IF data = 0 THEN "done" ELSE "reading"

StepComplete(total) ==
    LET meta == compute_meta_length_after_function(frame.fn, call.msg_type)
    IN  \/ step = "function" /\ meta # 0 /\ EnterMeta(meta)
        \/ step = "function" /\ meta = 0 /\ EnterData(total)
        \/ step = "meta" /\ EnterData(total)
        \/ step = "data" /\ length_to_read' = 0 /\ rc' = "done" /\ UNCHANGED step

\* Mutant: recv may return more than the bytes that are still wanted.
Receive_Greedy(n) ==
    /\ rc = "reading"
    /\ msg_length + n <= frame.len
    /\ msg_length' = msg_length + n
    /\ \/ n # length_to_read /\ length_to_read' = length_to_read - n /\ UNCHANGED <<step, rc>>
       \/ n = length_to_read /\ StepComplete(msg_length + n)
    /\ UNCHANGED <<call, frame, p_tv>>

\* select says there is something to read and recv returns n bytes of it.
Receive(n) ==
    /\ rc = "reading"
    /\ n <= length_to_read
    /\ msg_length + n <= frame.len
    /\ msg_length' = msg_length + n
    /\ \/ /\ n < length_to_read
          /\ length_to_read' = length_to_read - n
          /\ UNCHANGED <<step, rc>>
       \/ /\ n = length_to_read
          /\ StepComplete(msg_length + n)
    /\ p_tv' = IF length_to_read' > 0 /\ ByteTimeout THEN "byte" ELSE p_tv
    /\ UNCHANGED <<call, frame>>

\* Mutant: the timeout between two bytes does not end the call.
Timeout_FirstByteOnly ==
    /\ rc = "reading"
    /\ p_tv = "response"
    /\ rc' = "ETIMEDOUT"
    /\ UNCHANGED <<call, frame, step, msg_length, length_to_read, p_tv>>

\* select returns 0.  Without a timeout it waits for ever.
Timeout ==
    /\ rc = "reading"
    /\ p_tv # "none"
    /\ rc' = "ETIMEDOUT"
    /\ UNCHANGED <<call, frame, step, msg_length, length_to_read, p_tv>>

\* recv returns 0, or fails.
PeerCloses ==
    /\ rc = "reading"
    /\ rc' = "ECONNRESET"
    /\ UNCHANGED <<call, frame, step, msg_length, length_to_read, p_tv>>

Next ==
    \/ \E n \in Pieces : Receive(n)
    \/ Timeout
    \/ PeerCloses

\* Nothing makes the peer send or close: only the clock is sure to go on.
Spec == Init /\ [][Next]_vars /\ WF_vars(Timeout)

-----------------------------------------------------------------------------
(***************************************************************************)
(* Properties.                                                             *)
(***************************************************************************)
FrameKinds == {"request", "reply", "exception", "noise"}
Results == {"reading", "done", "EMBBADDATA", "ETIMEDOUT", "ECONNRESET"}

\* The type of the loop's variables: the counters are natural numbers and the
\* two bytes the loop looks at are bytes.
TypeOK ==
    /\ call \in [backend : Backends, msg_type : MsgTypes]
    /\ frame.kind \in FrameKinds
    /\ frame.fn \in 0 .. 255
    /\ frame.count \in 0 .. 255
    /\ frame.len \in Nat
    /\ step \in {"function", "meta", "data"}
    /\ msg_length \in Nat
    /\ length_to_read \in Nat
    /\ p_tv \in {"none", "response", "byte"}
    /\ rc \in Results

\* The loop never stores, and never asks recv for, a byte behind the end of
\* the ADU, whatever the peer sends: msg + msg_length with length_to_read more
\* bytes stays inside a buffer of MAX_MESSAGE_LENGTH bytes.
InBuffer ==
    rc \in {"reading", "done"} =>
        /\ msg_length + length_to_read <= call.backend.max_adu_length
        /\ call.backend.max_adu_length <= MAX_MESSAGE_LENGTH

\* On a frame a peer really built, the loop takes the whole frame and not one
\* byte more: it never waits for bytes the peer will not send (which would
\* turn a good answer into a timeout) and never eats into the next frame.
ExactFrame ==
    frame.kind # "noise" =>
        /\ rc = "reading" =>
              length_to_read > 0 /\ msg_length + length_to_read <= frame.len
        /\ rc = "done" => msg_length = frame.len
        /\ rc # "EMBBADDATA"

\* A normal reply read by the loop has the very length check_confirmation
\* computes from the request, so that no good answer is refused for its length.
LengthAsComputed ==
    (frame.kind = "reply" /\ rc = "done") =>
        compute_response_length_from_request(call.backend, frame.req.fn, frame.req.nb)
            \in {msg_length, MSG_LENGTH_UNDEFINED}

\* A call that has a timeout returns even when the peer stops in the middle of
\* a message.  An indication has none until the first byte is there.
Returns ==
    (msg_length > 0 \/ call.msg_type = "confirmation") ~> rc # "reading"
=============================================================================
