------------------------- MODULE ModbusReceiveProofs -------------------------
(***************************************************************************)
(* What sender and receiver compute about one frame agrees, for every      *)
(* quantity the client API lets through and for both backends; and the     *)
(* receive loop for every set of requests, every noise and every way of    *)
(* cutting a frame into pieces.                                            *)
(***************************************************************************)
EXTENDS ModbusReceive, TLAPS

\* The bytes the receive loop collects, function by function.
Collected(b, fn, count, msg_type) ==
    b.header_length + 1 + compute_meta_length_after_function(fn, msg_type)
        + compute_data_length_after_meta(b, fn, count, msg_type)

\* Packed bits need between nb / 8 and (nb + 7) / 8 bytes.
LEMMA BytesOfBitsBounds ==
    ASSUME NEW nb \in Nat
    PROVE  /\ BytesOfBits(nb) \in Nat
           /\ nb <= 8 * BytesOfBits(nb)
           /\ 8 * BytesOfBits(nb) <= nb + 7
BY DEF BytesOfBits

\* So 1968 bits fit into 246 bytes and 2000 bits into 250.
LEMMA BytesOfBitsLimits ==
    ASSUME NEW nb \in Nat
    PROVE  /\ nb <= 1968 => BytesOfBits(nb) \in 0 .. 246
           /\ nb <= 2000 => BytesOfBits(nb) \in 0 .. 250
<1> DEFINE bytes == BytesOfBits(nb)
<1>1. /\ bytes \in Nat
      /\ 8 * bytes <= nb + 7
  BY BytesOfBitsBounds
<1> HIDE DEF bytes
<1>2. /\ nb <= 1968 => bytes \in 0 .. 246
      /\ nb <= 2000 => bytes \in 0 .. 250
  BY <1>1
<1> QED
  BY <1>2 DEF bytes

\* A request as the client builds it (modbus_read_bits to
\* modbus_report_slave_id): its byte count survives the truncation to one
\* byte, the frame fits into the ADU of the backend, and a server's receive
\* loop collects exactly the bytes of the frame.
THEOREM RequestAgreement ==
    ASSUME NEW b \in Backends, NEW fn, NEW nb, NEW wnb, Sendable(fn, nb, wnb)
    PROVE  /\ RequestByteCount(fn, nb, wnb) \in 0 .. 255
           /\ RequestLength(b, fn, nb, wnb) \in 1 .. b.max_adu_length
           /\ Collected(b, fn, RequestByteCount(fn, nb, wnb), "indication")
                = RequestLength(b, fn, nb, wnb)
<1> USE DEF Backends, TCP, RTU, ClientFunctions, BitReads, RegisterReads,
            SingleWrites, MultipleWrites, FC_READ_COILS, FC_READ_DISCRETE_INPUTS,
            FC_READ_HOLDING_REGISTERS, FC_READ_INPUT_REGISTERS, FC_WRITE_SINGLE_COIL,
            FC_WRITE_SINGLE_REGISTER, FC_WRITE_MULTIPLE_COILS,
            FC_WRITE_MULTIPLE_REGISTERS, FC_REPORT_SLAVE_ID,
            FC_WRITE_AND_READ_REGISTERS
<1>1. CASE fn \in BitReads \cup RegisterReads \cup SingleWrites
  BY <1>1 DEF RequestByteCount, RequestLength, Collected,
       compute_meta_length_after_function, compute_data_length_after_meta
<1>2. CASE fn = FC_REPORT_SLAVE_ID
  BY <1>2 DEF RequestByteCount, RequestLength, Collected,
       compute_meta_length_after_function, compute_data_length_after_meta
<1>3. CASE fn = FC_WRITE_MULTIPLE_COILS
  <2>1. nb \in 0 .. 1968
    BY <1>3 DEF Sendable, MaxQuantity
  <2>2. BytesOfBits(nb) \in 0 .. 246
    <3>1. nb \in Nat /\ nb <= 1968
      BY <2>1
    <3> QED
      BY <3>1, BytesOfBitsLimits
  <2>3. RequestByteCount(fn, nb, wnb) = BytesOfBits(nb)
    BY <1>3 DEF RequestByteCount
  <2> QED
    BY <1>3, <2>2, <2>3 DEF RequestLength, Collected,
       compute_meta_length_after_function, compute_data_length_after_meta
<1>4. CASE fn = FC_WRITE_MULTIPLE_REGISTERS
  <2>1. nb \in 0 .. 123
    BY <1>4 DEF Sendable, MaxQuantity
  <2>2. RequestByteCount(fn, nb, wnb) = 2 * nb
    BY <1>4 DEF RequestByteCount
  <2> QED
    BY <1>4, <2>1, <2>2 DEF RequestLength, Collected,
       compute_meta_length_after_function, compute_data_length_after_meta
<1>5. CASE fn = FC_WRITE_AND_READ_REGISTERS
  <2>1. wnb \in 0 .. 121
    BY <1>5 DEF Sendable, MaxWriteQuantity
  <2>2. RequestByteCount(fn, nb, wnb) = 2 * wnb
    BY <1>5 DEF RequestByteCount
  <2> QED
    BY <1>5, <2>1, <2>2 DEF RequestLength, Collected,
       compute_meta_length_after_function, compute_data_length_after_meta
<1> QED
  BY <1>1, <1>2, <1>3, <1>4, <1>5 DEF Sendable

\* A normal reply as modbus_reply builds it for such a request: the byte count
\* fits into its byte, the frame fits into the ADU, the client's receive loop
\* collects exactly the frame, and that is the length check_confirmation
\* computes from the request (a slave id has no computed length).
THEOREM ReplyAgreement ==
    ASSUME NEW b \in Backends, NEW fn, NEW nb, NEW wnb, Sendable(fn, nb, wnb),
           NEW idlen \in 0 .. 251
    PROVE  /\ ReplyByteCount(fn, nb, idlen) \in 0 .. 255
           /\ ReplyLength(b, fn, nb, idlen) \in 1 .. b.max_adu_length
           /\ Collected(b, fn, ReplyByteCount(fn, nb, idlen), "confirmation")
                = ReplyLength(b, fn, nb, idlen)
           /\ compute_response_length_from_request(b, fn, nb)
                \in {ReplyLength(b, fn, nb, idlen), MSG_LENGTH_UNDEFINED}
<1> USE DEF Backends, TCP, RTU, ClientFunctions, BitReads, RegisterReads,
            SingleWrites, MultipleWrites, FC_READ_COILS, FC_READ_DISCRETE_INPUTS,
            FC_READ_HOLDING_REGISTERS, FC_READ_INPUT_REGISTERS, FC_WRITE_SINGLE_COIL,
            FC_WRITE_SINGLE_REGISTER, FC_WRITE_MULTIPLE_COILS,
            FC_WRITE_MULTIPLE_REGISTERS, FC_REPORT_SLAVE_ID,
            FC_WRITE_AND_READ_REGISTERS, FC_READ_EXCEPTION_STATUS
<1>1. CASE fn \in SingleWrites \cup MultipleWrites
  BY <1>1 DEF ReplyByteCount, ReplyLength, Collected,
       compute_meta_length_after_function, compute_data_length_after_meta,
       compute_response_length_from_request
<1>2. CASE fn = FC_REPORT_SLAVE_ID
  BY <1>2 DEF ReplyByteCount, ReplyLength, Collected,
       compute_meta_length_after_function, compute_data_length_after_meta,
       compute_response_length_from_request
<1>3. CASE fn \in BitReads
  <2>1. nb \in 0 .. 2000
    BY <1>3 DEF Sendable, MaxQuantity
  <2>2. BytesOfBits(nb) \in 0 .. 250
    <3>1. nb \in Nat /\ nb <= 2000
      BY <2>1
    <3> QED
      BY <3>1, BytesOfBitsLimits
  <2>3. ReplyByteCount(fn, nb, idlen) = BytesOfBits(nb)
    BY <1>3 DEF ReplyByteCount
  <2> QED
    BY <1>3, <2>2, <2>3 DEF ReplyLength, Collected,
       compute_meta_length_after_function, compute_data_length_after_meta,
       compute_response_length_from_request
<1>4. CASE fn \in RegisterReads \cup {FC_WRITE_AND_READ_REGISTERS}
  <2>1. nb \in 0 .. 125
    BY <1>4 DEF Sendable, MaxQuantity
  <2>2. ReplyByteCount(fn, nb, idlen) = 2 * nb
    BY <1>4 DEF ReplyByteCount
  <2> QED
    BY <1>4, <2>1, <2>2 DEF ReplyLength, Collected,
       compute_meta_length_after_function, compute_data_length_after_meta,
       compute_response_length_from_request
<1> QED
  BY <1>1, <1>2, <1>3, <1>4 DEF Sendable

\* An exception reply (response_exception) is collected whole: the client's
\* loop reads function code and exception code and nothing behind them.
THEOREM ExceptionAgreement ==
    ASSUME NEW b \in Backends, NEW fn \in ClientFunctions, NEW code \in 0 .. 255
    PROVE  /\ fn + 128 \in 0 .. 255
           /\ ExceptionLength(b) \in 1 .. b.max_adu_length
           /\ Collected(b, fn + 128, code, "confirmation") = ExceptionLength(b)
BY DEF Backends, TCP, RTU, ClientFunctions, BitReads, RegisterReads,
       SingleWrites, MultipleWrites, FC_READ_COILS, FC_READ_DISCRETE_INPUTS,
       FC_READ_HOLDING_REGISTERS, FC_READ_INPUT_REGISTERS, FC_WRITE_SINGLE_COIL,
       FC_WRITE_SINGLE_REGISTER, FC_WRITE_MULTIPLE_COILS,
       FC_WRITE_MULTIPLE_REGISTERS, FC_REPORT_SLAVE_ID,
       FC_WRITE_AND_READ_REGISTERS, ExceptionLength, Collected,
       compute_meta_length_after_function, compute_data_length_after_meta

-----------------------------------------------------------------------------
(***************************************************************************)
(* The loop.                                                               *)
(***************************************************************************)
MetaLength == compute_meta_length_after_function(frame.fn, call.msg_type)
DataLength == compute_data_length_after_meta(call.backend, frame.fn,
                                             frame.count, call.msg_type)

\* The number of bytes held when the step the loop is in will be complete.
Goal ==
    call.backend.header_length + 1
      + (IF step = "function" THEN 0 ELSE MetaLength)
      + (IF step = "data" THEN DataLength ELSE 0)

WholeFrame == call.backend.header_length + 1 + MetaLength + DataLength

\* What the lengths of ModbusPdu say about the frame on its way.
FrameInv ==
    /\ frame.kind # "noise" =>
          /\ frame.len = WholeFrame
          /\ frame.len <= call.backend.max_adu_length
    /\ frame.kind = "reply" =>
          compute_response_length_from_request(call.backend, frame.req.fn, frame.req.nb)
             \in {frame.len, MSG_LENGTH_UNDEFINED}

\* The loop always knows what is missing from the current step, and it enters
\* the last step only if the message then fits.
LoopInv ==
    /\ rc = "reading" =>
          /\ length_to_read > 0
          /\ msg_length + length_to_read = Goal
          /\ step = "data" => Goal <= call.backend.max_adu_length
    /\ rc = "done" =>
          /\ length_to_read = 0
          /\ msg_length = WholeFrame
          /\ msg_length <= call.backend.max_adu_length
    /\ rc = "EMBBADDATA" => WholeFrame > call.backend.max_adu_length

RInv == TypeOK /\ FrameInv /\ LoopInv

-----------------------------------------------------------------------------
\* The two lengths the loop computes are small natural numbers.
LEMMA LengthTypes ==
    ASSUME NEW b \in Backends, NEW fn \in 0 .. 255, NEW count \in 0 .. 255,
           NEW mt \in MsgTypes
    PROVE  /\ compute_meta_length_after_function(fn, mt) \in 0 .. 9
           /\ compute_data_length_after_meta(b, fn, count, mt) \in 0 .. 257
BY DEF compute_meta_length_after_function, compute_data_length_after_meta,
       Backends, TCP, RTU

\* Both backends leave room for a header, a function code and a fixed part.
LEMMA BackendBounds ==
    ASSUME NEW b \in Backends
    PROVE  /\ b.header_length \in Nat
           /\ b.max_adu_length \in Nat
           /\ b.header_length + 10 <= b.max_adu_length
           /\ b.max_adu_length <= MAX_MESSAGE_LENGTH
BY DEF Backends, TCP, RTU, MAX_MESSAGE_LENGTH

\* What the lengths of ModbusPdu say about the frames a peer can send.
LEMMA FrameTypes ==
    ASSUME NEW c \in [backend : Backends, msg_type : MsgTypes],
           NEW f \in FramesFor(c)
    PROVE  /\ f.kind \in FrameKinds
           /\ f.fn \in 0 .. 255
           /\ f.count \in 0 .. 255
           /\ f.len \in Nat
           /\ f.kind # "noise" =>
                 /\ f.len = Collected(c.backend, f.fn, f.count, c.msg_type)
                 /\ f.len <= c.backend.max_adu_length
           /\ f.kind = "reply" =>
                 compute_response_length_from_request(c.backend, f.req.fn, f.req.nb)
                    \in {f.len, MSG_LENGTH_UNDEFINED}
<1>0. c.backend \in Backends /\ c.msg_type \in MsgTypes
  OBVIOUS
<1>b. c.backend.max_adu_length \in Nat
  BY <1>0, BackendBounds
<1>1. ASSUME NEW n \in Noise, f = NoiseFrame(n)
      PROVE  f.kind = "noise" /\ f.fn \in 0 .. 255 /\ f.count \in 0 .. 255 /\ f.len \in Nat
  BY <1>1, NoiseAssumption DEF NoiseFrame
<1>2. ASSUME NEW r \in Requests, f = RequestFrame(c.backend, r),
             c.msg_type = "indication"
      PROVE  /\ f.kind = "request" /\ f.fn \in 0 .. 255 /\ f.count \in 0 .. 255
             /\ f.len \in 1 .. c.backend.max_adu_length
             /\ f.len = Collected(c.backend, f.fn, f.count, c.msg_type)
  <2>1. Sendable(r.fn, r.nb, r.wnb)
    BY RequestsAssumption
  <2>2. r.fn \in 0 .. 255
    BY <2>1 DEF Sendable, ClientFunctions, BitReads, RegisterReads,
       SingleWrites, MultipleWrites, FC_READ_COILS, FC_READ_DISCRETE_INPUTS,
       FC_READ_HOLDING_REGISTERS, FC_READ_INPUT_REGISTERS, FC_WRITE_SINGLE_COIL,
       FC_WRITE_SINGLE_REGISTER, FC_WRITE_MULTIPLE_COILS,
       FC_WRITE_MULTIPLE_REGISTERS, FC_REPORT_SLAVE_ID, FC_WRITE_AND_READ_REGISTERS
  <2>3. /\ f.kind = "request" /\ f.fn = r.fn
        /\ f.count = RequestByteCount(r.fn, r.nb, r.wnb)
        /\ f.len = RequestLength(c.backend, r.fn, r.nb, r.wnb)
    BY <1>2 DEF RequestFrame
  <2> QED
    BY <1>0, <1>2, <2>1, <2>2, <2>3, RequestAgreement
<1>3. ASSUME NEW r \in Requests, NEW i \in IdLengths, f = ReplyFrame(c.backend, r, i),
             c.msg_type = "confirmation"
      PROVE  /\ f.kind = "reply" /\ f.fn \in 0 .. 255 /\ f.count \in 0 .. 255
             /\ f.len \in 1 .. c.backend.max_adu_length
             /\ f.len = Collected(c.backend, f.fn, f.count, c.msg_type)
             /\ compute_response_length_from_request(c.backend, f.req.fn, f.req.nb)
                   \in {f.len, MSG_LENGTH_UNDEFINED}
  <2>1. Sendable(r.fn, r.nb, r.wnb) /\ i \in 0 .. 251
    BY RequestsAssumption, IdLengthsAssumption
  <2>2. r.fn \in 0 .. 255
    BY <2>1 DEF Sendable, ClientFunctions, BitReads, RegisterReads,
       SingleWrites, MultipleWrites, FC_READ_COILS, FC_READ_DISCRETE_INPUTS,
       FC_READ_HOLDING_REGISTERS, FC_READ_INPUT_REGISTERS, FC_WRITE_SINGLE_COIL,
       FC_WRITE_SINGLE_REGISTER, FC_WRITE_MULTIPLE_COILS,
       FC_WRITE_MULTIPLE_REGISTERS, FC_REPORT_SLAVE_ID, FC_WRITE_AND_READ_REGISTERS
  <2>3. /\ f.kind = "reply" /\ f.fn = r.fn /\ f.req = r
        /\ f.count = ReplyByteCount(r.fn, r.nb, i)
        /\ f.len = ReplyLength(c.backend, r.fn, r.nb, i)
    BY <1>3 DEF ReplyFrame
  <2>4. /\ ReplyByteCount(r.fn, r.nb, i) \in 0 .. 255
        /\ ReplyLength(c.backend, r.fn, r.nb, i) \in 1 .. c.backend.max_adu_length
        /\ Collected(c.backend, r.fn, ReplyByteCount(r.fn, r.nb, i), "confirmation")
              = ReplyLength(c.backend, r.fn, r.nb, i)
        /\ compute_response_length_from_request(c.backend, r.fn, r.nb)
              \in {ReplyLength(c.backend, r.fn, r.nb, i), MSG_LENGTH_UNDEFINED}
    BY <1>0, <2>1, ReplyAgreement
  <2> QED
    BY <1>3, <2>2, <2>3, <2>4
<1>4. ASSUME NEW r \in Requests, f = ExceptionFrame(c.backend, r),
             c.msg_type = "confirmation"
      PROVE  /\ f.kind = "exception" /\ f.fn \in 0 .. 255 /\ f.count \in 0 .. 255
             /\ f.len \in 1 .. c.backend.max_adu_length
             /\ f.len = Collected(c.backend, f.fn, f.count, c.msg_type)
  <2>1. r.fn \in ClientFunctions
    BY RequestsAssumption DEF Sendable
  <2>2. /\ f.kind = "exception" /\ f.fn = r.fn + 128 /\ f.count = 2
        /\ f.len = ExceptionLength(c.backend)
    BY <1>4 DEF ExceptionFrame
  <2>3. /\ r.fn + 128 \in 0 .. 255
        /\ ExceptionLength(c.backend) \in 1 .. c.backend.max_adu_length
        /\ Collected(c.backend, r.fn + 128, 2, "confirmation") = ExceptionLength(c.backend)
    <3>1. 2 \in 0 .. 255
      OBVIOUS
    <3> QED
      BY <1>0, <2>1, <3>1, ExceptionAgreement
  <2> QED
    BY <1>4, <2>2, <2>3
<1> QED
  BY <1>0, <1>b, <1>1, <1>2, <1>3, <1>4 DEF FramesFor, FrameKinds, MsgTypes

LEMMA InitRInv == Init => RInv
<1> SUFFICES ASSUME Init PROVE RInv
  OBVIOUS
<1>1. /\ call \in [backend : Backends, msg_type : MsgTypes]
      /\ frame \in FramesFor(call)
  BY DEF Init
<1>2. call.backend \in Backends /\ call.msg_type \in MsgTypes
  BY <1>1
<1>3. call.backend.header_length \in Nat
  BY <1>2, BackendBounds
<1>4. TypeOK
  BY <1>1, <1>3, FrameTypes DEF Init, TypeOK, Results
<1>5. FrameInv
  BY <1>1, FrameTypes DEF FrameInv, WholeFrame, Collected, MetaLength, DataLength
<1>6. LoopInv
  BY <1>3 DEF Init, LoopInv, Goal
<1> QED
  BY <1>4, <1>5, <1>6 DEF RInv

LEMMA NextRInv == RInv /\ [Next]_vars => RInv'
<1> SUFFICES ASSUME RInv, [Next]_vars PROVE RInv'
  OBVIOUS
<1> USE DEF RInv
<1>0. call.backend \in Backends /\ call.msg_type \in MsgTypes
  BY DEF TypeOK
<1>b. /\ call.backend.header_length \in Nat
      /\ call.backend.max_adu_length \in Nat
      /\ call.backend.header_length + 10 <= call.backend.max_adu_length
  BY <1>0, BackendBounds
<1>l. MetaLength \in 0 .. 9 /\ DataLength \in 0 .. 257
  BY <1>0, LengthTypes DEF MetaLength, DataLength, TypeOK
<1>1. ASSUME NEW n \in Pieces, Receive(n)
      PROVE  RInv'
  <2>1. /\ rc = "reading" /\ n \in Nat \ {0} /\ n <= length_to_read
        /\ msg_length' = msg_length + n
        /\ call' = call /\ frame' = frame
        /\ MetaLength' = MetaLength /\ DataLength' = DataLength
        /\ WholeFrame' = WholeFrame
    BY <1>1, PiecesAssumption DEF Receive, MetaLength, DataLength, WholeFrame
  <2>2. FrameInv'
    BY <2>1 DEF FrameInv
  <2>3. p_tv' \in {"none", "response", "byte"}
    BY <1>1 DEF Receive, TypeOK
  <2>4. CASE n < length_to_read
    <3>1. length_to_read' = length_to_read - n /\ step' = step /\ rc' = rc
      BY <1>1, <2>4, <2>1 DEF Receive, TypeOK
    <3>2. TypeOK'
      BY <2>1, <2>3, <2>4, <3>1 DEF TypeOK
    <3>3. Goal' = Goal
      BY <2>1, <3>1 DEF Goal
    <3>4. LoopInv'
      BY <2>1, <2>4, <3>1, <3>3 DEF LoopInv, TypeOK
    <3> QED
      BY <2>2, <3>2, <3>4
  <2>5. CASE n = length_to_read
    <3>1. StepComplete(msg_length + n)
      BY <1>1, <2>5, <2>1 DEF Receive, TypeOK
    <3>2. msg_length' = Goal
      BY <2>1, <2>5 DEF LoopInv
    <3>3. CASE step = "function" /\ MetaLength # 0 /\ EnterMeta(MetaLength)
      <4>1. step' = "meta" /\ length_to_read' = MetaLength /\ rc' = "reading"
        BY <3>3 DEF EnterMeta
      <4>2. TypeOK'
        BY <1>l, <2>1, <2>3, <4>1 DEF TypeOK
      <4>3. LoopInv'
        BY <1>b, <1>l, <2>1, <3>2, <3>3, <4>1 DEF LoopInv, Goal
      <4> QED
        BY <2>2, <4>2, <4>3
    <3>4. CASE /\ step = "meta" \/ (step = "function" /\ MetaLength = 0)
               /\ EnterData(msg_length + n)
      <4>1. msg_length' = call.backend.header_length + 1 + MetaLength
        BY <1>b, <1>l, <3>2, <3>4 DEF Goal
      <4>2. /\ length_to_read' = DataLength
            /\ IF msg_length' + DataLength > call.backend.max_adu_length
                 THEN step' = step /\ rc' = "EMBBADDATA"
                 ELSE step' = "data" /\ rc' = IF DataLength = 0 THEN "done" ELSE "reading"
        BY <2>1, <3>4 DEF EnterData, DataLength
      <4>3. msg_length' + DataLength = WholeFrame
        BY <4>1, <1>b, <1>l DEF WholeFrame
      <4>4. TypeOK'
        BY <1>l, <2>1, <2>3, <4>2 DEF TypeOK, Results
      <4>5. LoopInv'
        <5>1. CASE msg_length' + DataLength > call.backend.max_adu_length
          BY <2>1, <4>2, <4>3, <5>1 DEF LoopInv
        <5>2. CASE ~(msg_length' + DataLength > call.backend.max_adu_length)
          <6>1. step' = "data" /\ rc' = IF DataLength = 0 THEN "done" ELSE "reading"
            BY <4>2, <5>2
          <6>2. Goal' = WholeFrame
            BY <1>b, <1>l, <2>1, <6>1 DEF Goal, WholeFrame
          <6> QED
            BY <1>b, <1>l, <2>1, <4>1, <4>2, <4>3, <5>2, <6>1, <6>2 DEF LoopInv
        <5> QED
          BY <5>1, <5>2
      <4> QED
        BY <2>2, <4>4, <4>5
    <3>5. CASE step = "data" /\ length_to_read' = 0 /\ rc' = "done" /\ UNCHANGED step
      <4>1. TypeOK'
        BY <2>1, <2>3, <3>5 DEF TypeOK, Results
      <4>2. Goal = WholeFrame /\ Goal <= call.backend.max_adu_length
        BY <1>b, <1>l, <2>1, <3>5 DEF Goal, WholeFrame, LoopInv
      <4>3. LoopInv'
        BY <2>1, <3>2, <3>5, <4>2 DEF LoopInv
      <4> QED
        BY <2>2, <4>1, <4>3
    <3> QED
      BY <3>1, <3>3, <3>4, <3>5 DEF StepComplete, MetaLength
  <2> QED
    BY <2>1, <2>4, <2>5 DEF TypeOK
<1>2. CASE Timeout
  BY <1>2 DEF Timeout, TypeOK, Results, FrameInv, LoopInv, Goal, WholeFrame,
              MetaLength, DataLength
<1>3. CASE PeerCloses
  BY <1>3 DEF PeerCloses, TypeOK, Results, FrameInv, LoopInv, Goal, WholeFrame,
              MetaLength, DataLength
<1>4. CASE UNCHANGED vars
  BY <1>4 DEF vars, TypeOK, FrameInv, LoopInv, Goal, WholeFrame,
              MetaLength, DataLength
<1> QED
  BY <1>1, <1>2, <1>3, <1>4 DEF Next

\* The invariant of the loop holds in every behaviour of the specification.
THEOREM LoopInvariant == Spec => []RInv
BY InitRInv, NextRInv, PTL DEF Spec

\* Whatever the peer sends, _modbus_receive_msg stores nothing behind the end
\* of an ADU of the backend, hence of a MAX_MESSAGE_LENGTH buffer.
THEOREM ReceiveInBuffer == Spec => []InBuffer
<1>1. RInv => InBuffer
  <2> SUFFICES ASSUME RInv, rc \in {"reading", "done"}
               PROVE  /\ msg_length + length_to_read <= call.backend.max_adu_length
                      /\ call.backend.max_adu_length <= MAX_MESSAGE_LENGTH
    BY DEF InBuffer
  <2>0. call.backend \in Backends /\ call.msg_type \in MsgTypes
    BY DEF RInv, TypeOK
  <2>1. /\ call.backend.header_length \in Nat
        /\ call.backend.max_adu_length \in Nat
        /\ call.backend.header_length + 10 <= call.backend.max_adu_length
        /\ call.backend.max_adu_length <= MAX_MESSAGE_LENGTH
    BY <2>0, BackendBounds
  <2>2. MetaLength \in 0 .. 9 /\ DataLength \in 0 .. 257
    BY <2>0, LengthTypes DEF MetaLength, DataLength, RInv, TypeOK
  <2>3. CASE rc = "done"
    BY <2>1, <2>3 DEF RInv, TypeOK, LoopInv
  <2>4. CASE rc = "reading" /\ step = "data"
    BY <2>1, <2>4 DEF RInv, LoopInv
  <2>5. CASE rc = "reading" /\ step # "data"
    BY <2>1, <2>2, <2>5 DEF RInv, LoopInv, Goal
  <2> QED
    BY <2>1, <2>3, <2>4, <2>5
<1> QED
  BY <1>1, LoopInvariant, PTL

\* A frame a peer built is read whole and alone: no byte of it stays behind,
\* no byte of the next frame is taken, and it is never called too long.
THEOREM ReceiveExactFrame == Spec => []ExactFrame
<1>1. RInv => ExactFrame
  <2> SUFFICES ASSUME RInv, frame.kind # "noise"
               PROVE  /\ rc = "reading" =>
                            length_to_read > 0 /\ msg_length + length_to_read <= frame.len
                      /\ rc = "done" => msg_length = frame.len
                      /\ rc # "EMBBADDATA"
    BY DEF ExactFrame
  <2>0. call.backend \in Backends /\ call.msg_type \in MsgTypes
    BY DEF RInv, TypeOK
  <2>1. call.backend.header_length \in Nat /\ call.backend.max_adu_length \in Nat
    BY <2>0, BackendBounds
  <2>2. MetaLength \in 0 .. 9 /\ DataLength \in 0 .. 257
    BY <2>0, LengthTypes DEF MetaLength, DataLength, RInv, TypeOK
  <2>3. frame.len = WholeFrame /\ frame.len <= call.backend.max_adu_length
    BY DEF RInv, FrameInv
  <2>4. Goal <= WholeFrame
    BY <2>1, <2>2 DEF Goal, WholeFrame, RInv, TypeOK
  <2>5. CASE rc = "reading"
    BY <2>3, <2>4, <2>5 DEF RInv, LoopInv
  <2>6. CASE rc = "done"
    BY <2>3, <2>6 DEF RInv, LoopInv
  <2>7. CASE rc = "EMBBADDATA"
    <3>1. WholeFrame \in Nat
      BY <2>3 DEF RInv, TypeOK
    <3>2. WholeFrame > call.backend.max_adu_length
      BY <2>7 DEF RInv, LoopInv
    <3> QED
      BY <2>1, <2>3, <3>1, <3>2
  <2> QED
    BY <2>5, <2>6, <2>7
<1> QED
  BY <1>1, LoopInvariant, PTL

\* A reply that was read has the length check_confirmation wants of it.
THEOREM ReceiveLengthAsComputed == Spec => []LengthAsComputed
<1>1. RInv => LengthAsComputed
  BY DEF RInv, FrameInv, LoopInv, LengthAsComputed
<1> QED
  BY <1>1, LoopInvariant, PTL

\* Every variable of the receive loop keeps its type.
THEOREM ReceiveTypeOK == Spec => []TypeOK
<1>1. RInv => TypeOK
  BY DEF RInv
<1> QED
  BY <1>1, LoopInvariant, PTL
=============================================================================
