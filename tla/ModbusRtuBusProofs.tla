-------------------------- MODULE ModbusRtuBusProofs ---------------------------
(***************************************************************************)
(* Proof that on a line without broadcasts a slave never takes the answer  *)
(* of another slave for a request to itself, whatever is lost or late; and *)
(* that no request is swallowed while nothing is.                          *)
(***************************************************************************)
EXTENDS ModbusRtuBus, SequenceTheorems, TLAPS

\* What a slave may have heard: frames of others, and as answers only those a
\* slave sends under its own address.
MayHear(s) ==
    {f \in Frame : f.from # s /\ (f.kind # "request" => f.slave = f.from)}

\* The inductive invariant.  That answers carry the address of their sender
\* follows from what the sender served, and what it served from what it heard.
IInv ==
    /\ TypeOK
    /\ OnlyRequests
    /\ \A s \in Slaves : heard[s] \in Seq(MayHear(s))

NoBroadcast == MODBUS_BROADCAST_ADDRESS \notin Addresses

\* The slave addresses are no address of the master.
LEMMA SlaveFacts ==
    /\ Master \notin Slaves
    /\ MODBUS_BROADCAST_ADDRESS \notin Slaves
    /\ MODBUS_BROADCAST_ADDRESS = 0
BY BusAssumption DEF Master, MODBUS_BROADCAST_ADDRESS

\* The first of the frames a slave heard is one it may hear.
LEMMA HeadTail ==
    ASSUME NEW S, NEW q \in Seq(S), q # <<>>
    PROVE  Head(q) \in S /\ Tail(q) \in Seq(S)
OBVIOUS

\* A frame that all may hear leaves what each has heard in order.
LEMMA HeardBy ==
    ASSUME IInv, NEW f \in Frame, f.kind # "request" => f.slave = f.from
    PROVE  /\ Heard(f) \in [Slaves -> Seq(Frame)]
           /\ \A s \in Slaves : Heard(f)[s] \in Seq(MayHear(s))
<1>1. ASSUME NEW s \in Slaves
      PROVE  /\ Heard(f)[s] \in Seq(Frame)
             /\ Heard(f)[s] \in Seq(MayHear(s))
  <2>1. heard[s] \in Seq(Frame) /\ heard[s] \in Seq(MayHear(s))
        BY DEF IInv, TypeOK
  <2>2. CASE s = f.from \/ Len(heard[s]) >= MaxHeard
        BY <2>1, <2>2 DEF Heard
  <2>3. CASE ~(s = f.from \/ Len(heard[s]) >= MaxHeard)
    <3>1. Heard(f)[s] = Append(heard[s], f)
          BY <2>3 DEF Heard
    <3>2. f \in MayHear(s)
          BY <2>3 DEF MayHear
    <3>3. QED  BY <2>1, <3>1, <3>2
  <2>4. QED  BY <2>2, <2>3
<1>2. Heard(f) = [s \in Slaves |-> Heard(f)[s]]
      BY DEF Heard
<1>3. QED  BY <1>1, <1>2

\* The third conjunct is enough for the last of TypeOK.
LEMMA MayHearNotOwn ==
    ASSUME NEW s \in Slaves, NEW q \in Seq(MayHear(s))
    PROVE  \A i \in 1 .. Len(q) : q[i].from # s
BY DEF MayHear

LEMMA HeardInOrder ==
    ASSUME NEW h, \A s \in Slaves : h[s] \in Seq(MayHear(s))
    PROVE  \A s \in Slaves : \A i \in 1 .. Len(h[s]) : h[s][i].from # s
BY MayHearNotOwn

\* A step that leaves what was heard in order and serves nothing new keeps it all.
LEMMA SameServing ==
    ASSUME IInv,
           waiting' \in BOOLEAN, disturbed' \in BOOLEAN, calm' \in BOOLEAN,
           swallowed' \subseteq Slaves,
           confirmation_to_ignore' \in [Slaves -> BOOLEAN],
           skewed' \in [Slaves -> BOOLEAN],
           heard' \in [Slaves -> Seq(Frame)],
           \A s \in Slaves : heard'[s] \in Seq(MayHear(s)),
           serving' \in [Slaves -> Frame \cup {NoFrame}],
           \A s \in Slaves : serving'[s] \in {serving[s], NoFrame}
    PROVE  IInv'
<1>1. TypeOK'
      BY MayHearNotOwn, HeardInOrder DEF TypeOK
<1>2. OnlyRequests'
      BY DEF IInv, OnlyRequests, MeantFor
<1>3. QED  BY <1>1, <1>2 DEF IInv, MayHear, Frame

LEMMA InitIInv == Init => IInv
<1>1. SUFFICES ASSUME Init PROVE IInv
      OBVIOUS
<1>2. ASSUME NEW s \in Slaves
      PROVE  heard[s] = <<>> /\ Len(heard[s]) = 0 /\ heard[s] \in Seq(MayHear(s))
      BY <1>1 DEF Init
<1>3. heard \in [Slaves -> Seq(Frame)]
      BY <1>1 DEF Init
<1>4. TypeOK
  <2>1. \A s \in Slaves : \A i \in 1 .. Len(heard[s]) : heard[s][i].from # s
        BY <1>2
  <2>2. /\ confirmation_to_ignore \in [Slaves -> BOOLEAN]
        /\ skewed \in [Slaves -> BOOLEAN]
        /\ serving \in [Slaves -> Frame \cup {NoFrame}]
        BY <1>1 DEF Init
  <2>3. /\ waiting \in BOOLEAN /\ disturbed \in BOOLEAN /\ calm \in BOOLEAN
        /\ swallowed \subseteq Slaves
        BY <1>1 DEF Init
  <2>4. QED  BY <1>3, <2>1, <2>2, <2>3 DEF TypeOK
<1>5. OnlyRequests
      BY <1>1 DEF Init, OnlyRequests
<1>6. QED  BY <1>2, <1>4, <1>5 DEF IInv

LEMMA NextIInv ==
    ASSUME NoBroadcast, IInv, [Next]_vars
    PROVE  IInv'
<1> USE DEF NoBroadcast
<1>0. TypeOK /\ OnlyRequests /\ \A s \in Slaves : heard[s] \in Seq(MayHear(s))
      BY DEF IInv
<1>1. ASSUME NEW a \in Addresses, NEW fn \in Functions, MasterSends(a, fn)
      PROVE  IInv'
  <2> DEFINE f == [kind |-> "request", from |-> Master, slave |-> a, fn |-> fn]
  <2>1. f \in Frame /\ f.kind = "request"
        BY DEF Frame
  <2>2. heard' = Heard(f)
        BY <1>1 DEF MasterSends
  <2> HIDE DEF f
  <2>3. /\ heard' \in [Slaves -> Seq(Frame)]
        /\ \A s \in Slaves : heard'[s] \in Seq(MayHear(s))
        BY <2>1, <2>2, HeardBy
  <2>4. QED  BY <1>0, <1>1, <2>3, SameServing DEF MasterSends, Disturbs, TypeOK
<1>2. CASE MasterGivesUp
      BY <1>0, <1>2, SameServing DEF MasterGivesUp, Disturbs, TypeOK
<1>3. ASSUME NEW s \in Slaves, Receive(s)
      PROVE  IInv'
  <2> DEFINE f == Head(heard[s])
  <2>1. f \in MayHear(s) /\ Tail(heard[s]) \in Seq(MayHear(s))
        BY <1>0, <1>3, HeadTail DEF Receive
  <2>2. f \in Frame /\ Tail(heard[s]) \in Seq(Frame)
        BY <1>0, <1>3, HeadTail DEF Receive, TypeOK
  <2>3. /\ heard' \in [Slaves -> Seq(Frame)]
        /\ \A t \in Slaves : heard'[t] \in Seq(MayHear(t))
        BY <1>0, <1>3, <2>1, <2>2 DEF Receive, TypeOK
  <2>4. /\ waiting' \in BOOLEAN /\ disturbed' \in BOOLEAN /\ calm' \in BOOLEAN
        /\ swallowed' \subseteq Slaves
        BY <1>0, <1>3 DEF Receive, TypeOK
  <2>5. /\ confirmation_to_ignore' \in [Slaves -> BOOLEAN]
        /\ skewed' \in [Slaves -> BOOLEAN]
    <3>1. CASE ReceiveSkewed(s)
          BY <1>0, <3>1 DEF ReceiveSkewed, TypeOK
    <3>2. CASE IgnoreConfirmation(s)
          BY <1>0, <3>2 DEF IgnoreConfirmation, TypeOK
    <3>3. CASE ReceiveIndication(s)
          BY <1>0, <3>3 DEF ReceiveIndication, TypeOK
    <3>4. QED  BY <1>3, <3>1, <3>2, <3>3 DEF Receive
  <2>6. \/ serving' = serving
        \/ f.slave = s /\ serving' = [serving EXCEPT ![s] = f]
    <3>1. CASE ReceiveSkewed(s) \/ IgnoreConfirmation(s)
          BY <3>1 DEF ReceiveSkewed, IgnoreConfirmation
    <3>2. CASE ReceiveIndication(s)
      <4>1. f.slave # MODBUS_BROADCAST_ADDRESS
            BY <2>2 DEF Frame
      <4>2. QED  BY <3>2, <4>1 DEF ReceiveIndication
    <3>3. QED  BY <1>3, <3>1, <3>2 DEF Receive
  <2>7. CASE serving' = serving
        BY <1>0, <2>3, <2>4, <2>5, <2>7, SameServing DEF TypeOK
  <2>8. CASE f.slave = s /\ serving' = [serving EXCEPT ![s] = f]
    <3>1. f.kind = "request"
          BY <2>1, <2>8 DEF MayHear
    <3>2. MeantFor(f, s)
          BY <2>8, <3>1 DEF MeantFor
    <3>3. TypeOK'
          BY <1>0, <2>2, <2>3, <2>4, <2>5, <2>8, HeardInOrder DEF TypeOK
    <3>4. OnlyRequests'
          BY <1>0, <2>8, <3>2 DEF OnlyRequests, TypeOK, MeantFor
    <3>5. QED  BY <2>3, <3>3, <3>4 DEF IInv, MayHear, Frame
  <2>9. QED  BY <2>6, <2>7, <2>8
<1>4. ASSUME NEW s \in Slaves, Silence(s)
      PROVE  IInv'
      BY <1>0, <1>4, SameServing DEF Silence, Disturbs, TypeOK
<1>5. ASSUME NEW s \in Slaves, Reply(s)
      PROVE  IInv'
  <2>1. PICK k \in {"reply", "exception"} :
           heard' = Heard([serving[s] EXCEPT !.kind = k, !.from = s])
        BY <1>5 DEF Reply
  <2> DEFINE f == [serving[s] EXCEPT !.kind = k, !.from = s]
  <2>2. serving[s] \in Frame /\ MeantFor(serving[s], s)
        BY <1>0, <1>5 DEF Reply, TypeOK, OnlyRequests
  <2>3. f \in Frame
        BY <2>1, <2>2 DEF Frame
  <2>4. f.slave = f.from
        BY <2>2 DEF MeantFor, Frame
  <2>5. heard' = Heard(f)
        BY <2>1
  <2> HIDE DEF f
  <2>6. /\ heard' \in [Slaves -> Seq(Frame)]
        /\ \A t \in Slaves : heard'[t] \in Seq(MayHear(t))
        BY <2>3, <2>4, <2>5, HeardBy
  <2>7. QED  BY <1>0, <1>5, <2>6, SameServing DEF Reply, TypeOK
<1>6. ASSUME NEW s \in Slaves, Noise(s)
      PROVE  IInv'
  <2>1. Tail(heard[s]) \in Seq(MayHear(s)) /\ Tail(heard[s]) \in Seq(Frame)
        BY <1>0, <1>6, HeadTail DEF Noise, TypeOK
  <2>2. /\ heard' \in [Slaves -> Seq(Frame)]
        /\ \A t \in Slaves : heard'[t] \in Seq(MayHear(t))
        BY <1>0, <1>6, <2>1 DEF Noise, TypeOK
  <2>3. QED  BY <1>0, <1>6, <2>2, SameServing DEF Noise, Disturbs, TypeOK
<1>7. CASE GetCalm
      BY <1>0, <1>7, SameServing DEF GetCalm, TypeOK
<1>8. CASE UNCHANGED vars
      BY <1>0, <1>8, SameServing DEF vars, TypeOK
<1>9. QED
      BY <1>1, <1>2, <1>3, <1>4, <1>5, <1>6, <1>7, <1>8 DEF Next

\* On a line without broadcasts, with any slaves and functions, frames lost and
\* answers late, modbus_receive returns only requests of the master to the
\* slave that receives them, and the state keeps its type.
THEOREM OnlyRequestsServed ==
    ASSUME NoBroadcast
    PROVE  Spec => [](TypeOK /\ OnlyRequests)
<1>1. IInv => TypeOK /\ OnlyRequests
      BY DEF IInv
<1>2. QED  BY <1>1, InitIInv, NextIInv, PTL DEF Spec

-----------------------------------------------------------------------------
(***************************************************************************)
(* The type of the state, also with broadcasts, when an answer need not    *)
(* carry the address of its sender (the slave address of a broadcast is    *)
(* kept in the answer, see Reply).                                         *)
(***************************************************************************)
OfOthers(s) == {f \in Frame : f.from # s}

TInv == TypeOK /\ \A s \in Slaves : heard[s] \in Seq(OfOthers(s))

LEMMA SeqOfOthers ==
    ASSUME NEW h, \A s \in Slaves : h[s] \in Seq(OfOthers(s))
    PROVE  \A s \in Slaves : \A i \in 1 .. Len(h[s]) : h[s][i].from # s
<1>1. ASSUME NEW s \in Slaves, NEW q \in Seq(OfOthers(s)), NEW i \in 1 .. Len(q)
      PROVE  q[i].from # s
      BY ElementOfSeq DEF OfOthers
<1>2. QED  BY <1>1, Zenon

\* A frame that all but its sender hear.
LEMMA HeardOfOthers ==
    ASSUME TInv, NEW f \in Frame
    PROVE  /\ Heard(f) \in [Slaves -> Seq(Frame)]
           /\ \A s \in Slaves : Heard(f)[s] \in Seq(OfOthers(s))
<1>1. ASSUME NEW s \in Slaves
      PROVE  /\ Heard(f)[s] \in Seq(Frame)
             /\ Heard(f)[s] \in Seq(OfOthers(s))
  <2>1. heard[s] \in Seq(Frame) /\ heard[s] \in Seq(OfOthers(s))
        BY DEF TInv, TypeOK
  <2>2. CASE s = f.from \/ Len(heard[s]) >= MaxHeard
        BY <2>1, <2>2 DEF Heard
  <2>3. CASE ~(s = f.from \/ Len(heard[s]) >= MaxHeard)
    <3>1. Heard(f)[s] = Append(heard[s], f)
          BY <2>3 DEF Heard
    <3>2. f \in OfOthers(s)
          BY <2>3 DEF OfOthers
    <3>3. QED  BY <2>1, <3>1, <3>2
  <2>4. QED  BY <2>2, <2>3
<1>2. Heard(f) = [s \in Slaves |-> Heard(f)[s]]
      BY DEF Heard
<1>3. QED  BY <1>1, <1>2

\* One slave has read or missed a frame.
LEMMA TailOfOthers ==
    ASSUME TInv, NEW s \in Slaves, heard[s] # <<>>,
           heard' = [heard EXCEPT ![s] = Tail(@)]
    PROVE  /\ heard' \in [Slaves -> Seq(Frame)]
           /\ \A t \in Slaves : heard'[t] \in Seq(OfOthers(t))
           /\ Head(heard[s]) \in Frame
<1>0. /\ heard \in [Slaves -> Seq(Frame)]
      /\ \A t \in Slaves : heard[t] \in Seq(OfOthers(t))
      BY DEF TInv, TypeOK
<1>1. /\ Head(heard[s]) \in Frame /\ Tail(heard[s]) \in Seq(Frame)
      /\ Tail(heard[s]) \in Seq(OfOthers(s))
      BY <1>0, HeadTail
<1>2. \A t \in Slaves : heard'[t] = IF t = s THEN Tail(heard[s]) ELSE heard[t]
      BY <1>0
<1>3. heard' \in [Slaves -> Seq(Frame)]
      BY <1>0, <1>1
<1>4. \A t \in Slaves : heard'[t] \in Seq(OfOthers(t))
      BY <1>0, <1>1, <1>2, Zenon
<1>5. QED  BY <1>1, <1>3, <1>4

\* What is to be shown of a step.
LEMMA TypedStep ==
    ASSUME waiting' \in BOOLEAN, disturbed' \in BOOLEAN, calm' \in BOOLEAN,
           swallowed' \subseteq Slaves,
           confirmation_to_ignore' \in [Slaves -> BOOLEAN],
           skewed' \in [Slaves -> BOOLEAN],
           heard' \in [Slaves -> Seq(Frame)],
           \A s \in Slaves : heard'[s] \in Seq(OfOthers(s)),
           serving' \in [Slaves -> Frame \cup {NoFrame}]
    PROVE  TInv'
<1>1. TypeOK'
      BY SeqOfOthers DEF TypeOK
<1>2. QED  BY <1>1 DEF TInv, OfOthers, Frame

LEMMA InitTInv == Init => TInv
<1>1. SUFFICES ASSUME Init PROVE TInv
      OBVIOUS
<1>2. TypeOK
      BY <1>1, InitIInv DEF IInv
<1>3. \A s \in Slaves : heard[s] \in Seq(OfOthers(s))
      BY <1>1 DEF Init
<1>4. QED  BY <1>2, <1>3 DEF TInv

LEMMA NextTInv ==
    ASSUME TInv, [Next]_vars
    PROVE  TInv'
<1>0. TypeOK /\ \A s \in Slaves : heard[s] \in Seq(OfOthers(s))
      BY DEF TInv
<1>1. ASSUME NEW a \in Addresses, NEW fn \in Functions, MasterSends(a, fn)
      PROVE  TInv'
  <2> DEFINE f == [kind |-> "request", from |-> Master, slave |-> a, fn |-> fn]
  <2>1. f \in Frame
        BY DEF Frame
  <2>2. heard' = Heard(f)
        BY <1>1 DEF MasterSends
  <2> HIDE DEF f
  <2>3. /\ heard' \in [Slaves -> Seq(Frame)]
        /\ \A s \in Slaves : heard'[s] \in Seq(OfOthers(s))
        BY <2>1, <2>2, HeardOfOthers
  <2>4. QED  BY <1>0, <1>1, <2>3, TypedStep DEF MasterSends, Disturbs, TypeOK
<1>2. CASE MasterGivesUp
      BY <1>0, <1>2, TypedStep DEF MasterGivesUp, Disturbs, TypeOK
<1>3. ASSUME NEW s \in Slaves, Receive(s)
      PROVE  TInv'
  <2>1. /\ heard' \in [Slaves -> Seq(Frame)]
        /\ \A t \in Slaves : heard'[t] \in Seq(OfOthers(t))
        /\ Head(heard[s]) \in Frame
        BY <1>3, TailOfOthers DEF Receive
  <2>2. /\ waiting' \in BOOLEAN /\ disturbed' \in BOOLEAN /\ calm' \in BOOLEAN
        /\ swallowed' \subseteq Slaves
        BY <1>0, <1>3 DEF Receive, TypeOK
  <2>3. /\ confirmation_to_ignore' \in [Slaves -> BOOLEAN]
        /\ skewed' \in [Slaves -> BOOLEAN]
        /\ serving' \in [Slaves -> Frame \cup {NoFrame}]
    <3>1. CASE ReceiveSkewed(s)
          BY <1>0, <3>1 DEF ReceiveSkewed, TypeOK
    <3>2. CASE IgnoreConfirmation(s)
          BY <1>0, <3>2 DEF IgnoreConfirmation, TypeOK
    <3>3. CASE ReceiveIndication(s)
          BY <1>0, <2>1, <3>3 DEF ReceiveIndication, TypeOK
    <3>4. QED  BY <1>3, <3>1, <3>2, <3>3 DEF Receive
  <2>4. QED  BY <2>1, <2>2, <2>3, TypedStep
<1>4. ASSUME NEW s \in Slaves, Silence(s)
      PROVE  TInv'
      BY <1>0, <1>4, TypedStep DEF Silence, Disturbs, TypeOK
<1>5. ASSUME NEW s \in Slaves, Reply(s)
      PROVE  TInv'
  <2>1. PICK k \in {"reply", "exception"} :
           heard' = Heard([serving[s] EXCEPT !.kind = k, !.from = s])
        BY <1>5 DEF Reply
  <2> DEFINE f == [serving[s] EXCEPT !.kind = k, !.from = s]
  <2>2. serving[s] \in Frame
        BY <1>0, <1>5 DEF Reply, TypeOK
  <2>3. f \in Frame
        BY <2>1, <2>2 DEF Frame
  <2>4. heard' = Heard(f)
        BY <2>1
  <2> HIDE DEF f
  <2>5. /\ heard' \in [Slaves -> Seq(Frame)]
        /\ \A t \in Slaves : heard'[t] \in Seq(OfOthers(t))
        BY <2>3, <2>4, HeardOfOthers
  <2>6. QED  BY <1>0, <1>5, <2>5, TypedStep DEF Reply, TypeOK
<1>6. ASSUME NEW s \in Slaves, Noise(s)
      PROVE  TInv'
  <2>1. /\ heard' \in [Slaves -> Seq(Frame)]
        /\ \A t \in Slaves : heard'[t] \in Seq(OfOthers(t))
        BY <1>6, TailOfOthers DEF Noise
  <2>2. QED  BY <1>0, <1>6, <2>1, TypedStep DEF Noise, Disturbs, TypeOK
<1>7. CASE GetCalm \/ UNCHANGED vars
      BY <1>0, <1>7, TypedStep DEF GetCalm, vars, TypeOK
<1>8. QED
      BY <1>1, <1>2, <1>3, <1>4, <1>5, <1>6, <1>7 DEF Next

\* The state keeps its type, and a slave never has a frame of its own to read,
\* whatever the addresses of the master, broadcasts included.
THEOREM BusTypeOK == Spec => []TypeOK
<1>1. TInv => TypeOK
      BY DEF TInv
<1>2. QED  BY <1>1, InitTInv, NextTInv, PTL DEF Spec

-----------------------------------------------------------------------------
(***************************************************************************)
(* A line on which nothing is late or lost.  At any time a request is out  *)
(* (Asked), or its answer is (Answered), and each slave has read as much   *)
(* of the two as it has; it ignores an answer exactly when it has read the *)
(* request to another slave and not its answer.                            *)
(***************************************************************************)
Asks(f, d) == f.kind = "request" /\ f.slave = d

\* The slave d was asked, and s has read the request or not.
AskedBefore(s, d) ==
    /\ s # d => serving[s] = NoFrame
    /\ \/ /\ ~confirmation_to_ignore[s]
          /\ serving[s] = NoFrame
          /\ Len(heard[s]) = 1 /\ Asks(heard[s][1], d)
       \/ /\ heard[s] = <<>>
          /\ confirmation_to_ignore[s] = (s # d)
          /\ s = d => serving[s] # NoFrame

\* The answer is out, and s has read it, or only the request, or neither.
AnsweredBefore(s) ==
    /\ serving[s] = NoFrame
    /\ \/ ~confirmation_to_ignore[s] /\ heard[s] = <<>>
       \/ /\ confirmation_to_ignore[s]
          /\ Len(heard[s]) = 1 /\ heard[s][1].kind # "request"
       \/ /\ ~confirmation_to_ignore[s]
          /\ Len(heard[s]) = 2
          /\ heard[s][1].kind = "request" /\ heard[s][1].slave # s
          /\ heard[s][2].kind # "request"

InStep ==
    /\ swallowed = {}
    /\ \A s \in Slaves : ~skewed[s]
    /\ \/ \E d \in Slaves : \A s \in Slaves : AskedBefore(s, d)
       \/ \A s \in Slaves : AnsweredBefore(s)

StepInv == ~disturbed => InStep

\* Every slave is there, no request is a broadcast, and a port holds a request
\* and its answer.
AllPresent == Addresses \subseteq Slaves /\ MaxHeard >= 2

\* The bytes the receive loop collects, and the lengths of the frames on the
\* line, sent and collected.
Collected(fn, count, msg_type) ==
    RTU.header_length + 1 + compute_meta_length_after_function(fn, msg_type)
        + compute_data_length_after_meta(RTU, fn, count, msg_type)

LEMMA RtuLengths ==
    ASSUME NEW fn \in Functions
    PROVE  /\ RequestLength(RTU, fn, 1, 0) \in Nat
           /\ Collected(fn, RequestByteCount(fn, 1, 0), "indication")
                = RequestLength(RTU, fn, 1, 0)
           /\ ReplyLength(RTU, fn, 1, 0) \in Nat
           /\ Collected(fn, ReplyByteCount(fn, 1, 0), "confirmation")
                = ReplyLength(RTU, fn, 1, 0)
           /\ ExceptionLength(RTU) \in Nat
           /\ Collected(fn + 128, 0, "confirmation") = ExceptionLength(RTU)
<1>1. fn \in RegisterReads \cup {FC_WRITE_SINGLE_REGISTER, FC_WRITE_MULTIPLE_REGISTERS}
      BY BusAssumption
<1>2. QED
      BY <1>1 DEF Collected, RequestLength, RequestByteCount, ReplyLength, ReplyByteCount,
         ExceptionLength, compute_meta_length_after_function,
         compute_data_length_after_meta, RTU, BitReads, RegisterReads, SingleWrites,
         MultipleWrites, FC_READ_COILS, FC_READ_DISCRETE_INPUTS,
         FC_READ_HOLDING_REGISTERS, FC_READ_INPUT_REGISTERS, FC_WRITE_SINGLE_COIL,
         FC_WRITE_SINGLE_REGISTER, FC_WRITE_MULTIPLE_COILS, FC_WRITE_MULTIPLE_REGISTERS,
         FC_WRITE_AND_READ_REGISTERS, FC_REPORT_SLAVE_ID

\* modbus_receive takes a frame whole when it takes it for what it is.
LEMMA TakenWhole ==
    ASSUME NEW f \in Frame
    PROVE  /\ f.kind = "request" => Taken(f, "indication") = Length(f)
           /\ f.kind # "request" => Taken(f, "confirmation") = Length(f)
           /\ Length(f) \in Nat
<1>1. f.fn \in Functions
      BY DEF Frame
<1>2. Taken(f, "indication") = Collected(function(f), CountByte(f, "indication"), "indication")
      /\ Taken(f, "confirmation")
           = Collected(function(f), CountByte(f, "confirmation"), "confirmation")
      BY DEF Taken, Collected
<1>3. CASE f.kind = "request"
  <2>1. /\ function(f) = f.fn /\ CountByte(f, "indication") = RequestByteCount(f.fn, 1, 0)
        /\ Length(f) = RequestLength(RTU, f.fn, 1, 0)
        BY <1>3 DEF function, CountByte, Length
  <2>2. QED  BY <1>1, <1>2, <1>3, <2>1, RtuLengths
<1>4. CASE f.kind = "reply"
  <2>1. /\ function(f) = f.fn /\ CountByte(f, "confirmation") = ReplyByteCount(f.fn, 1, 0)
        /\ Length(f) = ReplyLength(RTU, f.fn, 1, 0)
        BY <1>4 DEF function, CountByte, Length
  <2>2. QED  BY <1>1, <1>2, <1>4, <2>1, RtuLengths
<1>5. CASE f.kind = "exception"
  <2>1. /\ function(f) = f.fn + 128 /\ CountByte(f, "confirmation") = 0
        /\ Length(f) = ExceptionLength(RTU)
        BY <1>5 DEF function, CountByte, Length
  <2>2. QED  BY <1>1, <1>2, <1>5, <2>1, RtuLengths
<1>6. QED  BY <1>3, <1>4, <1>5 DEF Frame

\* Once all frames are read and answered, all slaves are at the start again.
LEMMA AllRead ==
    ASSUME InStep, ~AnswerComes
    PROVE  \A s \in Slaves :
              heard[s] = <<>> /\ serving[s] = NoFrame /\ ~confirmation_to_ignore[s]
<1>1. \A s \in Slaves : heard[s] = <<>> /\ serving[s] = NoFrame
      BY DEF AnswerComes
<1>2. \A s \in Slaves : Len(heard[s]) = 0
      BY <1>1
<1>3. \A s \in Slaves : AnsweredBefore(s)
      BY <1>1, <1>2 DEF InStep, AskedBefore
<1>4. QED  BY <1>1, <1>2, <1>3 DEF AnsweredBefore

LEMMA SendsInStep ==
    ASSUME AllPresent, InStep, ~AnswerComes,
           NEW a \in Addresses, NEW fn \in Functions, MasterSends(a, fn)
    PROVE  InStep'
<1> DEFINE f == [kind |-> "request", from |-> Master, slave |-> a, fn |-> fn]
<1>1. heard' = Heard(f) /\ Asks(f, a) /\ f.from \notin Slaves
      BY SlaveFacts DEF MasterSends, Asks
<1> HIDE DEF f
<1>2. ASSUME NEW s \in Slaves PROVE AskedBefore(s, a)'
  <2>1. heard[s] = <<>> /\ serving[s] = NoFrame /\ ~confirmation_to_ignore[s]
        BY AllRead
  <2>2. ~(s = f.from \/ Len(heard[s]) >= MaxHeard)
    <3>1. Len(heard[s]) = 0
          BY <2>1
    <3>2. QED  BY <1>1, <3>1, BusAssumption DEF AllPresent
  <2>3. heard'[s] = Append(<<>>, f)
        BY <1>1, <2>1, <2>2 DEF Heard
  <2>4. Len(heard'[s]) = 1 /\ heard'[s][1] = f
        BY <2>3
  <2>5. QED  BY <1>1, <2>1, <2>4 DEF MasterSends, AskedBefore, Asks
<1>3. swallowed' = {} /\ \A s \in Slaves : ~skewed'[s]
      BY DEF MasterSends, InStep
<1>4. a \in Slaves
      BY DEF AllPresent
<1>5. QED  BY <1>2, <1>3, <1>4 DEF InStep

\* Sequences of one and of two elements without their first.
LEMMA FirstOfTwo ==
    ASSUME NEW S, NEW q \in Seq(S), q # <<>>
    PROVE  /\ Head(q) = q[1] /\ q[1] \in S
           /\ Len(q) = 1 => Tail(q) = <<>>
           /\ Len(q) = 2 => Len(Tail(q)) = 1 /\ Tail(q)[1] = q[2]
<1>1. Len(q) \in Nat /\ Len(q) # 0 /\ Head(q) = q[1] /\ q[1] \in S
      OBVIOUS
<1> DEFINE r == Tail(q)
<1>2. /\ r \in Seq(S)
      /\ Len(r) = Len(q) - 1
      /\ \A i \in 1 .. Len(q) - 1, j \in 1 .. Len(q) : j = i + 1 => r[i] = q[j]
      OBVIOUS
<1> HIDE DEF r
<1>3. Len(q) = 1 => r = <<>>
      BY <1>1, <1>2, EmptySeq
<1>4. Len(q) = 2 => Len(r) = 1 /\ r[1] = q[2]
      BY <1>1, <1>2
<1>5. QED  BY <1>1, <1>3, <1>4 DEF r

\* The first frame of what a slave heard, and the rest.
LEMMA FirstFrame ==
    ASSUME IInv, NEW s \in Slaves, heard[s] # <<>>
    PROVE  /\ Head(heard[s]) = heard[s][1] /\ heard[s][1] \in Frame
           /\ Len(heard[s]) = 1 => Tail(heard[s]) = <<>>
           /\ Len(heard[s]) = 2 => /\ Len(Tail(heard[s])) = 1
                                   /\ Tail(heard[s])[1] = heard[s][2]
<1>1. heard[s] \in Seq(Frame)
      BY DEF IInv, TypeOK
<1>2. QED  BY <1>1, FirstOfTwo

\* An answer to ignore is read to its end and nothing else.
LEMMA ReadsAnswer ==
    ASSUME IInv, InStep, NEW s \in Slaves, Receive(s),
           confirmation_to_ignore[s], heard[s][1].kind # "request"
    PROVE  /\ \A t \in Slaves : ~skewed'[t]
           /\ confirmation_to_ignore' = [confirmation_to_ignore EXCEPT ![s] = FALSE]
           /\ serving' = serving
           /\ swallowed' = swallowed
<1> DEFINE f == Head(heard[s])
<1>1. f = heard[s][1] /\ f \in Frame
      BY FirstFrame DEF Receive
<1>2. Taken(f, "confirmation") = Length(f) /\ Length(f) \in Nat
      BY <1>1, TakenWhole
<1>3. IgnoreConfirmation(s)
      BY DEF Receive, InStep, ReceiveIndication
<1>4. /\ skewed' = [skewed EXCEPT ![s] = FALSE]
      /\ confirmation_to_ignore' = [confirmation_to_ignore EXCEPT ![s] = FALSE]
      /\ serving' = serving
  <2>1. (Taken(f, "confirmation") # Length(f)) = FALSE
        BY <1>2
  <2>2. (Taken(f, "confirmation") > Length(f)) = FALSE
        BY <1>2
  <2>3. QED  BY <1>3, <2>1, <2>2, Zenon DEF IgnoreConfirmation
<1>5. swallowed' = swallowed
      BY <1>1 DEF Receive, MeantFor
<1>6. \A t \in Slaves : ~skewed'[t]
      BY <1>4 DEF InStep, IInv, TypeOK
<1>7. QED  BY <1>4, <1>5, <1>6

\* A request is read to its end, and served or followed by an answer to ignore.
LEMMA ReadsRequest ==
    ASSUME AllPresent, IInv, InStep, NEW s \in Slaves, Receive(s),
           ~confirmation_to_ignore[s], heard[s][1].kind = "request"
    PROVE  /\ \A t \in Slaves : ~skewed'[t]
           /\ confirmation_to_ignore' =
                 [confirmation_to_ignore EXCEPT ![s] = heard[s][1].slave # s]
           /\ serving' = IF heard[s][1].slave = s
                           THEN [serving EXCEPT ![s] = heard[s][1]] ELSE serving
           /\ swallowed' = swallowed
<1> DEFINE f == Head(heard[s])
<1>1. f = heard[s][1] /\ f \in Frame
      BY FirstFrame DEF Receive
<1>2. Taken(f, "indication") = Length(f) /\ Length(f) \in Nat
      BY <1>1, TakenWhole
<1>3. f.slave \in Slaves /\ f.slave # MODBUS_BROADCAST_ADDRESS
      BY <1>1, SlaveFacts DEF AllPresent, Frame
<1>4. ReceiveIndication(s)
      BY DEF Receive, InStep, IgnoreConfirmation
<1>5. /\ skewed' = [skewed EXCEPT ![s] = FALSE]
      /\ confirmation_to_ignore' = [confirmation_to_ignore EXCEPT ![s] = f.slave # s]
      /\ serving' = IF f.slave = s THEN [serving EXCEPT ![s] = f] ELSE serving
  <2> DEFINE other == f.slave \notin {s, MODBUS_BROADCAST_ADDRESS}
  <2>1. (Taken(f, "indication") # Length(f)) = FALSE
        BY <1>2
  <2>2. other = (f.slave # s)
        BY <1>3
  <2>3. (Taken(f, "indication") <= Length(f) /\ other) = other
        BY <1>2
  <2>4. (Taken(f, "indication") = Length(f) /\ ~other) = (f.slave = s)
        BY <1>2, <2>2
  <2>5. /\ skewed' = [skewed EXCEPT ![s] = Taken(f, "indication") # Length(f)]
        /\ confirmation_to_ignore' = [confirmation_to_ignore EXCEPT
              ![s] = Taken(f, "indication") <= Length(f) /\ other]
        /\ serving' = IF Taken(f, "indication") = Length(f) /\ ~other
                        THEN [serving EXCEPT ![s] = f] ELSE serving
        BY <1>4 DEF ReceiveIndication
  <2> HIDE DEF other, f
  <2>6. QED  BY <2>1, <2>2, <2>3, <2>4, <2>5, Zenon
<1>6. swallowed' = swallowed
  <2>1. CASE f.slave = s
    <3>1. serving'[s] = f /\ f # NoFrame
          BY <1>1, <1>5, <2>1 DEF IInv, TypeOK, NoFrame
    <3>2. QED  BY <3>1 DEF Receive
  <2>2. CASE f.slave # s
        BY <1>3, <2>2 DEF Receive, MeantFor
  <2>3. QED  BY <2>1, <2>2
<1>7. \A t \in Slaves : ~skewed'[t]
      BY <1>5 DEF InStep, IInv, TypeOK
<1>8. QED  BY <1>1, <1>5, <1>6, <1>7

LEMMA ReceivesInStep ==
    ASSUME AllPresent, IInv, InStep, NEW s \in Slaves, Receive(s)
    PROVE  InStep'
<1>0. /\ heard[s] # <<>> /\ serving[s] = NoFrame
      /\ heard' = [heard EXCEPT ![s] = Tail(heard[s])]
      BY DEF Receive
<1>1. /\ heard'[s] = Tail(heard[s])
      /\ \A t \in Slaves : t # s => heard'[t] = heard[t]
      BY <1>0 DEF IInv, TypeOK
<1>2. \A t \in Slaves, b \in BOOLEAN :
         confirmation_to_ignore' = [confirmation_to_ignore EXCEPT ![s] = b] =>
            confirmation_to_ignore'[t] = IF t = s THEN b ELSE confirmation_to_ignore[t]
      BY DEF IInv, TypeOK
<1>3. ASSUME NEW d \in Slaves, \A t \in Slaves : AskedBefore(t, d)
      PROVE  InStep'
  <2>1. /\ ~confirmation_to_ignore[s]
        /\ Len(heard[s]) = 1 /\ Asks(heard[s][1], d)
        BY <1>0, <1>3 DEF AskedBefore
  <2>2. /\ \A t \in Slaves : ~skewed'[t]
        /\ confirmation_to_ignore' = [confirmation_to_ignore EXCEPT ![s] = s # d]
        /\ serving' = IF s = d THEN [serving EXCEPT ![s] = heard[s][1]] ELSE serving
        /\ swallowed' = swallowed
        BY <2>1, ReadsRequest DEF Asks
  <2>3. heard'[s] = <<>>
        BY <1>0, <1>1, <2>1, FirstFrame
  <2>4. heard[s][1] # NoFrame
        BY <2>1 DEF Asks, NoFrame
  <2>5. AskedBefore(s, d)'
    <3>1. confirmation_to_ignore'[s] = (s # d)
          BY <1>2, <2>2
    <3>2. serving'[s] = IF s = d THEN heard[s][1] ELSE NoFrame
          BY <1>0, <2>2 DEF IInv, TypeOK
    <3>3. QED  BY <2>3, <2>4, <3>1, <3>2 DEF AskedBefore
  <2>6. ASSUME NEW t \in Slaves, t # s PROVE AskedBefore(t, d)'
    <3>1. confirmation_to_ignore'[t] = confirmation_to_ignore[t]
          BY <1>2, <2>2, <2>6
    <3>2. serving'[t] = serving[t] /\ heard'[t] = heard[t]
          BY <1>1, <2>2, <2>6 DEF IInv, TypeOK
    <3>3. AskedBefore(t, d)
          BY <1>3
    <3>4. QED  BY <3>1, <3>2, <3>3 DEF AskedBefore
  <2>7. QED  BY <2>2, <2>5, <2>6 DEF InStep
<1>4. ASSUME \A t \in Slaves : AnsweredBefore(t)
      PROVE  InStep'
  <2>1. /\ \A t \in Slaves : ~skewed'[t]
        /\ serving' = serving
        /\ swallowed' = swallowed
        /\ \A t \in Slaves : t # s =>
              confirmation_to_ignore'[t] = confirmation_to_ignore[t]
        /\ AnsweredBefore(s)'
    <3>1. CASE /\ confirmation_to_ignore[s]
               /\ Len(heard[s]) = 1 /\ heard[s][1].kind # "request"
      <4>1. /\ \A t \in Slaves : ~skewed'[t]
            /\ confirmation_to_ignore' = [confirmation_to_ignore EXCEPT ![s] = FALSE]
            /\ serving' = serving
            /\ swallowed' = swallowed
            BY <3>1, ReadsAnswer
      <4>2. heard'[s] = <<>>
            BY <1>0, <1>1, <3>1, FirstFrame
      <4>3. \A t \in Slaves : confirmation_to_ignore'[t] =
                                 IF t = s THEN FALSE ELSE confirmation_to_ignore[t]
            BY <1>2, <4>1
      <4>4. QED  BY <1>0, <4>1, <4>2, <4>3 DEF AnsweredBefore
    <3>2. CASE /\ ~confirmation_to_ignore[s]
               /\ Len(heard[s]) = 2
               /\ heard[s][1].kind = "request" /\ heard[s][1].slave # s
               /\ heard[s][2].kind # "request"
      <4>1. /\ \A t \in Slaves : ~skewed'[t]
            /\ confirmation_to_ignore' = [confirmation_to_ignore EXCEPT ![s] = TRUE]
            /\ serving' = serving
            /\ swallowed' = swallowed
            BY <3>2, ReadsRequest
      <4>2. Len(heard'[s]) = 1 /\ heard'[s][1] = heard[s][2]
            BY <1>0, <1>1, <3>2, FirstFrame
      <4>3. \A t \in Slaves : confirmation_to_ignore'[t] =
                                 IF t = s THEN TRUE ELSE confirmation_to_ignore[t]
            BY <1>2, <4>1
      <4>4. QED  BY <1>0, <3>2, <4>1, <4>2, <4>3 DEF AnsweredBefore
    <3>3. QED  BY <1>0, <1>4, <3>1, <3>2 DEF AnsweredBefore
  <2>2. ASSUME NEW t \in Slaves, t # s PROVE AnsweredBefore(t)'
    <3>1. AnsweredBefore(t) /\ heard'[t] = heard[t]
          BY <1>1, <1>4, <2>2
    <3>2. QED  BY <2>1, <2>2, <3>1 DEF AnsweredBefore
  <2>3. QED  BY <2>1, <2>2 DEF InStep
<1>5. QED  BY <1>3, <1>4 DEF InStep

LEMMA RepliesInStep ==
    ASSUME AllPresent, IInv, InStep, NEW s \in Slaves, Reply(s)
    PROVE  InStep'
<1>1. PICK k \in {"reply", "exception"} :
         heard' = Heard([serving[s] EXCEPT !.kind = k, !.from = s])
      BY DEF Reply
<1> DEFINE f == [serving[s] EXCEPT !.kind = k, !.from = s]
<1>2. serving[s] # NoFrame /\ serving[s] \in Frame
      BY DEF Reply, IInv, TypeOK
<1>3. f.kind # "request" /\ f.from = s
      BY <1>2 DEF Frame
<1>4. heard' = Heard(f)
      BY <1>1
<1> HIDE DEF f
<1>5. \A t \in Slaves : AskedBefore(t, s)
      BY <1>2 DEF InStep, AskedBefore, AnsweredBefore
<1>6. ASSUME NEW t \in Slaves PROVE AnsweredBefore(t)'
  <2>0. /\ serving'[t] = NoFrame
        /\ confirmation_to_ignore' = confirmation_to_ignore
        /\ AskedBefore(t, s)
        BY <1>5 DEF Reply, AskedBefore, IInv, TypeOK
  <2>1. heard[t] \in Seq(Frame)
        BY DEF IInv, TypeOK
  <2>2. CASE t = s
    <3>1. heard[t] = <<>> /\ ~confirmation_to_ignore[t]
          BY <1>2, <2>0, <2>2 DEF AskedBefore
    <3>2. heard'[t] = heard[t]
          BY <1>3, <1>4, <2>2 DEF Heard
    <3>3. QED  BY <2>0, <3>1, <3>2 DEF AnsweredBefore
  <2>3. CASE t # s
    <3>1. Len(heard[t]) \in {0, 1}
      <4>1. heard[t] = <<>> => Len(heard[t]) = 0
            OBVIOUS
      <4>2. QED  BY <2>0, <4>1 DEF AskedBefore
    <3>2. ~(t = f.from \/ Len(heard[t]) >= MaxHeard)
      <4>1. MaxHeard \in Nat /\ MaxHeard >= 2
            BY BusAssumption DEF AllPresent
      <4>2. \A n \in {0, 1} : ~(n >= MaxHeard)
            BY <4>1
      <4>3. QED  BY <1>3, <2>3, <3>1, <4>2
    <3>3. heard'[t] = Append(heard[t], f)
          BY <1>4, <3>2 DEF Heard
    <3>4. /\ Len(heard'[t]) = Len(heard[t]) + 1
          /\ heard'[t][Len(heard[t]) + 1] = f
          /\ Len(heard[t]) = 1 => heard'[t][1] = heard[t][1]
          BY <2>1, <3>1, <3>3
    <3>5. CASE /\ ~confirmation_to_ignore[t]
               /\ Len(heard[t]) = 1 /\ Asks(heard[t][1], s)
      <4>1. Len(heard'[t]) = 2 /\ heard'[t][2] = f /\ heard'[t][1] = heard[t][1]
            BY <3>4, <3>5
      <4>2. QED  BY <1>3, <2>0, <2>3, <3>5, <4>1 DEF AnsweredBefore, Asks
    <3>6. CASE heard[t] = <<>> /\ confirmation_to_ignore[t]
      <4>1. Len(heard'[t]) = 1 /\ heard'[t][1] = f
            BY <3>4, <3>6
      <4>2. QED  BY <1>3, <2>0, <3>6, <4>1 DEF AnsweredBefore
    <3>7. QED  BY <2>0, <2>3, <3>5, <3>6 DEF AskedBefore
  <2>4. QED  BY <2>2, <2>3
<1>7. swallowed' = {} /\ \A t \in Slaves : ~skewed'[t]
      BY DEF Reply, InStep
<1>8. QED  BY <1>6, <1>7 DEF InStep

LEMMA NextInStep ==
    ASSUME AllPresent, IInv, StepInv, [Next]_vars
    PROVE  StepInv'
<1> SUFFICES ASSUME ~disturbed' PROVE InStep'
    BY DEF StepInv
<1>1. ASSUME NEW a \in Addresses, NEW fn \in Functions, MasterSends(a, fn)
      PROVE  InStep'
      BY <1>1, SendsInStep DEF MasterSends, Disturbs, StepInv
<1>2. CASE MasterGivesUp
      BY <1>2 DEF MasterGivesUp, Disturbs, StepInv, InStep, AskedBefore, AnsweredBefore
<1>3. ASSUME NEW s \in Slaves, Receive(s) PROVE InStep'
  <2>1. InStep
        BY <1>3 DEF Receive, StepInv
  <2>2. QED  BY <1>3, <2>1, ReceivesInStep
<1>4. ASSUME NEW s \in Slaves, Silence(s) PROVE FALSE
  <2>1. InStep /\ ~AnswerComes
        BY <1>4 DEF Silence, Disturbs, StepInv
  <2>2. ~confirmation_to_ignore[s] /\ ~skewed[s]
        BY <2>1, AllRead DEF InStep
  <2>3. QED  BY <1>4, <2>2 DEF Silence
<1>5. ASSUME NEW s \in Slaves, Reply(s) PROVE InStep'
  <2>1. InStep
        BY <1>5 DEF Reply, StepInv
  <2>2. QED  BY <1>5, <2>1, RepliesInStep
<1>6. ASSUME NEW s \in Slaves, Noise(s) PROVE FALSE
      BY <1>6 DEF Noise, Disturbs
<1>7. CASE GetCalm
      BY <1>7 DEF GetCalm
<1>8. CASE UNCHANGED vars
      BY <1>8 DEF vars, StepInv, InStep, AskedBefore, AnsweredBefore
<1>9. QED
      BY <1>1, <1>2, <1>3, <1>4, <1>5, <1>6, <1>7, <1>8 DEF Next

\* With any number of slaves, of which all the master asks are there, every
\* request that is heard is served, as long as the master waits for its answers
\* and every station hears every frame: the slaves count right what they take
\* for an answer to another (confirmation_to_ignore, modbus-rtu.c).
THEOREM NoRequestSwallowed ==
    ASSUME AllPresent
    PROVE  Spec => []NoneSwallowed
<1>1. NoBroadcast
      BY SlaveFacts DEF AllPresent, NoBroadcast
<1>2. Init => StepInv
      BY DEF Init, StepInv, InStep, AnsweredBefore
<1>3. IInv /\ StepInv /\ [Next]_vars => IInv' /\ StepInv'
      BY <1>1, NextIInv, NextInStep
<1>4. StepInv => NoneSwallowed
      BY DEF StepInv, InStep, NoneSwallowed
<1>5. QED  BY <1>2, <1>3, <1>4, InitIInv, PTL DEF Spec
=============================================================================
