------------------------------ MODULE ModbusPdu ------------------------------
(***************************************************************************)
(* The length algebra of libmodbus (src/Sources/CModbus/modbus.c).         *)
(*                                                                         *)
(* A frame on the wire carries no length that the receiver trusts: client  *)
(* and server each compute how many bytes to read from the function code   *)
(* and from one byte-count field, and the client compares what it read     *)
(* with the length it computes from its own request.  This module holds    *)
(* these computations, one operator per C function, on abstract messages:  *)
(* a request is its function code `fn', its quantity field `nb' and the    *)
(* quantity `wnb' of a combined write (0 for the other functions).         *)
(***************************************************************************)
EXTENDS Integers

(***************************************************************************)
(* Function codes (modbus-private.h).                                      *)
(***************************************************************************)
FC_READ_COILS               == 1
FC_READ_DISCRETE_INPUTS     == 2
FC_READ_HOLDING_REGISTERS   == 3
FC_READ_INPUT_REGISTERS     == 4
FC_WRITE_SINGLE_COIL        == 5
FC_WRITE_SINGLE_REGISTER    == 6
FC_READ_EXCEPTION_STATUS    == 7
FC_WRITE_MULTIPLE_COILS     == 15
FC_WRITE_MULTIPLE_REGISTERS == 16
FC_REPORT_SLAVE_ID          == 17
FC_WRITE_AND_READ_REGISTERS == 23

BitReads       == {FC_READ_COILS, FC_READ_DISCRETE_INPUTS}
RegisterReads  == {FC_READ_HOLDING_REGISTERS, FC_READ_INPUT_REGISTERS}
SingleWrites   == {FC_WRITE_SINGLE_COIL, FC_WRITE_SINGLE_REGISTER}
MultipleWrites == {FC_WRITE_MULTIPLE_COILS, FC_WRITE_MULTIPLE_REGISTERS}

\* The functions the client API of modbus.c can send.
ClientFunctions ==
    BitReads \cup RegisterReads \cup SingleWrites \cup MultipleWrites
        \cup {FC_REPORT_SLAVE_ID, FC_WRITE_AND_READ_REGISTERS}

(***************************************************************************)
(* The two backends: the fields of modbus_backend_t that lengths use.      *)
(***************************************************************************)
TCP == [header_length |-> 7, checksum_length |-> 0, max_adu_length |-> 260]
RTU == [header_length |-> 1, checksum_length |-> 2, max_adu_length |-> 256]
Backends == {TCP, RTU}

MAX_MESSAGE_LENGTH   == 260   \* every response buffer but that of write_single
MSG_LENGTH_UNDEFINED == -1

(***************************************************************************)
(* The largest quantity each function lets through to the wire             *)
(* (modbus.h); a larger one fails with EMBMDATA before anything is sent.   *)
(* The single writes put a 16-bit value where the others put a quantity.   *)
(***************************************************************************)
MaxQuantity(fn) ==
    CASE fn \in BitReads                    -> 2000
      [] fn \in RegisterReads               -> 125
      [] fn = FC_WRITE_MULTIPLE_COILS       -> 1968
      [] fn = FC_WRITE_MULTIPLE_REGISTERS   -> 123
      [] fn = FC_WRITE_AND_READ_REGISTERS   -> 125
      [] fn \in SingleWrites                -> 65535
      [] OTHER                              -> 0

MaxWriteQuantity(fn) == IF fn = FC_WRITE_AND_READ_REGISTERS THEN 121 ELSE 0

\* The requests the client API lets out: a function and quantities it accepts.
Sendable(fn, nb, wnb) ==
    /\ fn \in ClientFunctions
    /\ nb \in 0 .. MaxQuantity(fn)
    /\ wnb \in 0 .. MaxWriteQuantity(fn)

\* nb bits packed eight to a byte.
BytesOfBits(nb) == (nb \div 8) + (IF nb % 8 # 0 THEN 1 ELSE 0)

(***************************************************************************)
(* What the sender puts on the wire.                                       *)
(***************************************************************************)
\* The bytes of data a request carries behind its byte-count field.
RequestByteCount(fn, nb, wnb) ==
    CASE fn = FC_WRITE_MULTIPLE_COILS     -> BytesOfBits(nb)
      [] fn = FC_WRITE_MULTIPLE_REGISTERS -> 2 * nb
      [] fn = FC_WRITE_AND_READ_REGISTERS -> 2 * wnb
      [] OTHER                            -> 0

\* Length of the request: build_request_basis of the backend, what the
\* function appends, and the checksum of send_msg_pre.  A report_slave_id
\* request drops address and quantity again.
RequestLength(b, fn, nb, wnb) ==
    b.header_length + b.checksum_length
      + CASE fn = FC_REPORT_SLAVE_ID          -> 1
          [] fn \in MultipleWrites            -> 6 + RequestByteCount(fn, nb, wnb)
          [] fn = FC_WRITE_AND_READ_REGISTERS -> 10 + RequestByteCount(fn, nb, wnb)
          [] OTHER                            -> 5

\* The byte-count field of a normal reply, where the reply has one; `idlen'
\* is the length of the identification a device reports.
ReplyByteCount(fn, nb, idlen) ==
    CASE fn \in BitReads           -> BytesOfBits(nb)
      [] fn \in RegisterReads      -> 2 * nb
      [] fn = FC_WRITE_AND_READ_REGISTERS -> 2 * nb
      [] fn = FC_REPORT_SLAVE_ID   -> idlen
      [] OTHER                     -> 0

\* Length of the reply modbus_reply builds: the single writes echo the
\* request, the multiple writes answer with address and quantity, the reads
\* with a byte count and the data.
ReplyLength(b, fn, nb, idlen) ==
    b.header_length + b.checksum_length
      + (IF fn \in SingleWrites \cup MultipleWrites
           THEN 5
           ELSE 2 + ReplyByteCount(fn, nb, idlen))

\* Function code plus 0x80 and the exception code.
ExceptionLength(b) == b.header_length + 2 + b.checksum_length

(***************************************************************************)
(* What the receiver expects.                                              *)
(***************************************************************************)
\* Mutant: the last, partly filled byte of bits is forgotten.
compute_response_length_RoundDown(b, fn, nb) ==
    b.header_length + b.checksum_length
      + CASE fn \in BitReads -> 2 + nb \div 8
          [] fn \in RegisterReads \cup {FC_WRITE_AND_READ_REGISTERS} -> 2 + 2 * nb
          [] OTHER -> 5

compute_response_length_from_request(b, fn, nb) ==
    IF fn = FC_REPORT_SLAVE_ID
      THEN MSG_LENGTH_UNDEFINED
      ELSE b.header_length + b.checksum_length
             + CASE fn \in BitReads -> 2 + BytesOfBits(nb)
                 [] fn \in RegisterReads \cup {FC_WRITE_AND_READ_REGISTERS} -> 2 + 2 * nb
                 [] fn = FC_READ_EXCEPTION_STATUS -> 3
                 [] OTHER -> 5

compute_meta_length_after_function(fn, msg_type) ==
    IF msg_type = "indication"
      THEN CASE fn <= FC_WRITE_SINGLE_REGISTER    -> 4
             [] fn \in MultipleWrites             -> 5
             [] fn = FC_WRITE_AND_READ_REGISTERS  -> 9
             [] OTHER                             -> 0
      ELSE IF fn \in SingleWrites \cup MultipleWrites THEN 4 ELSE 1

\* Mutant: the checksum behind the data is not read.
compute_data_length_NoChecksum(b, fn, count, msg_type) ==
    IF \/ fn \in MultipleWrites /\ msg_type = "indication"
       \/ fn <= FC_READ_INPUT_REGISTERS /\ msg_type = "confirmation"
       \/ fn \in {FC_REPORT_SLAVE_ID, FC_WRITE_AND_READ_REGISTERS}
      THEN count ELSE 0

\* `count' is the byte at the position of the byte-count field.
compute_data_length_after_meta(b, fn, count, msg_type) ==
    b.checksum_length
      + (IF msg_type = "indication"
           THEN IF fn \in MultipleWrites \cup {FC_WRITE_AND_READ_REGISTERS}
                  THEN count ELSE 0
           ELSE IF \/ fn <= FC_READ_INPUT_REGISTERS
                   \/ fn \in {FC_REPORT_SLAVE_ID, FC_WRITE_AND_READ_REGISTERS}
                  THEN count ELSE 0)
=============================================================================
