----------------------------- MODULE ModbusRtuBus -----------------------------
(***************************************************************************)
(* One master and several slaves on a serial line, every station hearing   *)
(* every frame but its own.  A slave is a server program that repeats      *)
(* modbus_receive and modbus_reply (modbus.c, modbus-rtu.c).               *)
(*                                                                         *)
(* Nothing in a frame says whether it is a request or an answer, so that a *)
(* slave keeps count: after a request for another slave it takes the next  *)
(* message for the answer to that request (confirmation_to_ignore).        *)
(*                                                                         *)
(* Frames are heard whole.  A slave that takes one for the other kind may  *)
(* read too few bytes of it, or wait for more than there are, and is out   *)
(* of step with the frames (`skewed') until the line is silent.            *)
(***************************************************************************)
EXTENDS ModbusPdu, Sequences, FiniteSets

CONSTANTS
    Slaves,        \* the slaves on the line
    Addresses,     \* the addresses the master uses
    Functions,     \* the functions it uses, each for one register
    MaxHeard       \* frames the port of a slave holds

MODBUS_BROADCAST_ADDRESS == 0
Master == 248    \* no address of a slave

ASSUME BusAssumption ==
    /\ Slaves \subseteq 1 .. 247 /\ Addresses \subseteq 0 .. 247
    /\ Functions \subseteq RegisterReads \cup {FC_WRITE_SINGLE_REGISTER,
                                               FC_WRITE_MULTIPLE_REGISTERS}
    /\ MaxHeard \in Nat

VARIABLES
    waiting,                 \* the master waits for an answer
    heard,                   \* frames each slave has heard and not read yet
    confirmation_to_ignore,  \* of each slave
    skewed,                  \* the slave is in the middle of what is no frame
    serving,                 \* the frame modbus_receive returned, until it is answered
    swallowed,               \* slaves that missed the last request meant for them
    disturbed,               \* history: an answer was late, a frame not heard
    calm                     \* TRUE: from now on nothing is, and the master pauses

vars == <<waiting, heard, confirmation_to_ignore, skewed, serving,
          swallowed, disturbed, calm>>

Frame == [kind : {"request", "reply", "exception"}, from : Slaves \cup {Master},
          slave : Addresses, fn : Functions]
NoFrame == [kind |-> "none", from |-> Master, slave |-> 0, fn |-> 0]

Init ==
    /\ waiting = FALSE
    /\ heard = [s \in Slaves |-> <<>>]
    /\ confirmation_to_ignore = [s \in Slaves |-> FALSE]
    /\ skewed = [s \in Slaves |-> FALSE]
    /\ serving = [s \in Slaves |-> NoFrame]
    /\ swallowed = {}
    /\ disturbed = FALSE
    /\ calm = FALSE

MeantFor(f, s) == f.kind = "request" /\ f.slave \in {s, MODBUS_BROADCAST_ADDRESS}

\* Mutant: the sender hears its own frame.
Heard_Echo(f) == [s \in Slaves |-> Append(heard[s], f)]

\* Everyone but the sender hears a frame.  A slave that does not read its port
\* misses what no longer fits in.
Heard(f) ==
    [s \in Slaves |-> IF s = f.from \/ Len(heard[s]) >= MaxHeard
                        THEN heard[s] ELSE Append(heard[s], f)]

\* Some slave is about to answer, or has not yet looked at what it heard.
AnswerComes == \E s \in Slaves : serving[s] # NoFrame \/ heard[s] # <<>>

\* A step with which an answer is late or a frame not heard, if `late': none
\* such happens once all is calm.
Disturbs(late) ==
    /\ calm => ~late
    /\ disturbed' = (disturbed \/ late)

Quiet ==
    /\ ~AnswerComes
    /\ \A s \in Slaves : ~skewed[s] /\ ~confirmation_to_ignore[s]

-----------------------------------------------------------------------------
(***************************************************************************)
(* How many bytes _modbus_receive_msg takes from a frame, as a request or  *)
(* as an answer, against the bytes the frame has.                          *)
(***************************************************************************)
Length(f) ==
    CASE f.kind = "request"   -> RequestLength(RTU, f.fn, 1, 0)
      [] f.kind = "reply"     -> ReplyLength(RTU, f.fn, 1, 0)
      [] f.kind = "exception" -> ExceptionLength(RTU)

function(f) == IF f.kind = "exception" THEN f.fn + 128 ELSE f.fn

\* The byte at the position of the byte count.  In a request read as an answer
\* it is the high byte of an address, 0 here; in an answer to a multiple write
\* read as a request it belongs to the checksum, and no value of it makes the
\* frame long enough.
CountByte(f, msg_type) ==
    CASE f.kind = "request" /\ msg_type = "indication" -> RequestByteCount(f.fn, 1, 0)
      [] f.kind = "reply" -> ReplyByteCount(f.fn, 1, 0)
      [] OTHER -> 0

Taken(f, msg_type) ==
    RTU.header_length + 1 + compute_meta_length_after_function(function(f), msg_type)
      + compute_data_length_after_meta(RTU, function(f), CountByte(f, msg_type), msg_type)

-----------------------------------------------------------------------------
(***************************************************************************)
(* The master.                                                             *)
(***************************************************************************)
MasterSends(slave, fn) ==
    /\ ~waiting
    /\ calm => Quiet
    /\ Disturbs(AnswerComes)
    /\ waiting' = TRUE
    /\ heard' = Heard([kind |-> "request", from |-> Master, slave |-> slave, fn |-> fn])
    /\ swallowed' = {}
    /\ UNCHANGED <<confirmation_to_ignore, skewed, serving, calm>>

MasterGivesUp ==
    /\ waiting
    /\ Disturbs(AnswerComes)
    /\ waiting' = FALSE
    /\ UNCHANGED <<heard, confirmation_to_ignore, skewed, serving,
                   swallowed, calm>>

-----------------------------------------------------------------------------
(***************************************************************************)
(* A slave.                                                                *)
(***************************************************************************)
\* Mutant: the flag is not reset when the answer of the other slave has been read.
IgnoreConfirmation_Keep(s) ==
    LET f == Head(heard[s])
    IN  /\ confirmation_to_ignore[s]
        /\ skewed' = [skewed EXCEPT ![s] = Taken(f, "confirmation") # Length(f)]
        /\ UNCHANGED <<serving, confirmation_to_ignore>>

\* The message is read as an answer and thrown away, whatever it is.  When it
\* is shorter than it should be, the call waits for the rest.
IgnoreConfirmation(s) ==
    LET f == Head(heard[s])
    IN  /\ confirmation_to_ignore[s]
        /\ skewed' = [skewed EXCEPT ![s] = Taken(f, "confirmation") # Length(f)]
        /\ confirmation_to_ignore' =
              [confirmation_to_ignore EXCEPT ![s] = Taken(f, "confirmation") > Length(f)]
        /\ UNCHANGED serving

\* Mutant: the slave address of a message is not looked at.
ReceiveIndication_AnySlave(s) ==
    LET f == Head(heard[s])
    IN  /\ ~confirmation_to_ignore[s]
        /\ skewed' = [skewed EXCEPT ![s] = Taken(f, "indication") # Length(f)]
        /\ serving' = IF Taken(f, "indication") = Length(f)
                        THEN [serving EXCEPT ![s] = f] ELSE serving
        /\ confirmation_to_ignore' =
              [confirmation_to_ignore EXCEPT ![s] = f.slave \notin {s, 0}]

\* The message is read as a request.  check_integrity looks at the slave before
\* the checksum: a message for another slave, complete or not, makes the next
\* one an answer to ignore; one that is not a whole frame fails the checksum.
ReceiveIndication(s) ==
    LET f == Head(heard[s])
        taken == Taken(f, "indication")
        other == f.slave \notin {s, MODBUS_BROADCAST_ADDRESS}
    IN  /\ ~confirmation_to_ignore[s]
        /\ skewed' = [skewed EXCEPT ![s] = taken # Length(f)]
        /\ confirmation_to_ignore' =
              [confirmation_to_ignore EXCEPT ![s] = taken <= Length(f) /\ other]
        /\ serving' = IF taken = Length(f) /\ ~other
                        THEN [serving EXCEPT ![s] = f] ELSE serving

\* A slave out of step reads a frame as the rest of something else, with any
\* outcome but a good checksum.
ReceiveSkewed(s) ==
    /\ skewed' \in {skewed, [skewed EXCEPT ![s] = FALSE]}
    /\ \E b \in BOOLEAN :
          confirmation_to_ignore' = [confirmation_to_ignore EXCEPT ![s] = b]
    /\ UNCHANGED serving

\* modbus_receive, when there is a frame to read.
Receive(s) ==
    /\ serving[s] = NoFrame
    /\ heard[s] # <<>>
    /\ IF skewed[s] THEN ReceiveSkewed(s)
                    ELSE IgnoreConfirmation(s) \/ ReceiveIndication(s)
    /\ swallowed' = IF MeantFor(Head(heard[s]), s) /\ serving'[s] = NoFrame
                      THEN swallowed \cup {s} ELSE swallowed
    /\ heard' = [heard EXCEPT ![s] = Tail(@)]
    /\ UNCHANGED <<waiting, disturbed, calm>>

\* Mutant: a timeout leaves the flag as it is.
Silence_Keep(s) ==
    /\ serving[s] = NoFrame /\ heard[s] = <<>>
    /\ skewed[s] \/ confirmation_to_ignore[s]
    /\ Disturbs(AnswerComes)
    /\ skewed' = [skewed EXCEPT ![s] = FALSE]
    /\ UNCHANGED <<waiting, heard, confirmation_to_ignore, serving,
                   swallowed, calm>>

\* modbus_receive, when nothing more comes: the response timeout of an answer
\* to ignore, or the byte timeout in the middle of a message.
Silence(s) ==
    /\ serving[s] = NoFrame /\ heard[s] = <<>>
    /\ skewed[s] \/ confirmation_to_ignore[s]
    /\ Disturbs(AnswerComes)
    /\ skewed' = [skewed EXCEPT ![s] = FALSE]
    /\ confirmation_to_ignore' = [confirmation_to_ignore EXCEPT ![s] = FALSE]
    /\ UNCHANGED <<waiting, heard, serving, swallowed, calm>>

\* modbus_reply: the answer carries the slave address of the request.  A master
\* that does not wait any more throws away what it hears.
Reply(s) ==
    /\ serving[s] # NoFrame
    /\ \E k \in {"reply", "exception"} :
          heard' = Heard([serving[s] EXCEPT !.kind = k, !.from = s])
    /\ serving' = [serving EXCEPT ![s] = NoFrame]
    /\ waiting' = FALSE
    /\ UNCHANGED <<confirmation_to_ignore, skewed, swallowed, disturbed, calm>>

-----------------------------------------------------------------------------
(***************************************************************************)
(* The line.                                                               *)
(***************************************************************************)
\* One station does not hear a frame.
Noise(s) ==
    /\ heard[s] # <<>> /\ Disturbs(TRUE)
    /\ heard' = [heard EXCEPT ![s] = Tail(@)]
    /\ UNCHANGED <<waiting, confirmation_to_ignore, skewed, serving,
                   swallowed, calm>>

\* (From here on Heals says what is to be said, and NoneSwallowed nothing.)
GetCalm ==
    /\ ~calm
    /\ calm' = TRUE /\ disturbed' = TRUE
    /\ UNCHANGED <<waiting, heard, confirmation_to_ignore, skewed, serving,
                   swallowed>>

Next ==
    \/ \E a \in Addresses, fn \in Functions : MasterSends(a, fn)
    \/ MasterGivesUp
    \/ \E s \in Slaves : Receive(s) \/ Silence(s) \/ Reply(s) \/ Noise(s)
    \/ GetCalm

Spec == Init /\ [][Next]_vars

\* The server programs run, timeouts expire, and the master goes on asking.
FairSpec ==
    /\ Spec
    /\ WF_vars(MasterGivesUp)
    /\ WF_vars(\E a \in Addresses, fn \in Functions : MasterSends(a, fn))
    /\ \A s \in Slaves :
          WF_vars(Receive(s)) /\ WF_vars(Reply(s)) /\ WF_vars(Silence(s))

-----------------------------------------------------------------------------
(***************************************************************************)
(* Properties.                                                             *)
(***************************************************************************)
\* The type of the state; a slave never has an answer of its own to read.
TypeOK ==
    /\ waiting \in BOOLEAN /\ disturbed \in BOOLEAN /\ calm \in BOOLEAN
    /\ heard \in [Slaves -> Seq(Frame)]
    /\ \A s \in Slaves : \A i \in 1 .. Len(heard[s]) : heard[s][i].from # s
    /\ confirmation_to_ignore \in [Slaves -> BOOLEAN]
    /\ skewed \in [Slaves -> BOOLEAN]
    /\ serving \in [Slaves -> Frame \cup {NoFrame}]
    /\ swallowed \subseteq Slaves

\* modbus_receive returns requests of the master to this slave, never the
\* answer of another slave.
OnlyRequests ==
    \A s \in Slaves : serving[s] # NoFrame => MeantFor(serving[s], s)

\* As long as no answer has been late and every frame is heard, modbus_receive
\* returns every request the slave hears; none is thrown away as an answer to
\* ignore or read as the rest of something else.
NoneSwallowed == ~disturbed => swallowed = {}

\* Slaves that lost step, because an answer was late or a frame was not heard,
\* find it again once the master leaves them the time their timeouts take: from
\* some point on no request is swallowed any more.
Heals == <>calm => <>[](swallowed = {})
=============================================================================
