------------------------------ MODULE ModbusCrc -------------------------------
(***************************************************************************)
(* The checksum of an RTU frame: crc16 with its tables, _modbus_rtu_send_  *)
(* msg_pre and _modbus_rtu_check_integrity (modbus-rtu.c), for frames that *)
(* are damaged on the line.                                                *)
(*                                                                         *)
(* A byte is the set of its bits that are one, 0 the least significant, so *)
(* that exclusive or is the symmetric difference.  A number of 16 bits, in *)
(* the code, is here the record of its two bytes.                          *)
(***************************************************************************)
EXTENDS Integers, Sequences, FiniteSets, FiniteSetsExt

Byte == SUBSET (0 .. 7)

CONSTANTS
    Slave,        \* the slave the receiver takes frames of
    Messages,     \* the messages sent, without their checksum
    Damaged,      \* those that are damaged on their way
    MaxDamage     \* the most bits that are damaged

\* The longest frame, MODBUS_RTU_MAX_ADU_LENGTH, has 256 bytes.
ASSUME CrcAssumption ==
    /\ \A m \in Messages : m \in Seq(Byte) /\ Len(m) \in 1 .. 254
    /\ Damaged \subseteq Messages /\ MaxDamage \in Nat /\ Slave \in Byte

VARIABLES
    msg,       \* the message
    flipped    \* the bits of its frame that have been damaged

crc_vars == <<msg, flipped>>

-----------------------------------------------------------------------------
(***************************************************************************)
(* The tables, in rows of sixteen.                                         *)
(***************************************************************************)
table_crc_hi == <<
    <<0, 193, 129, 64, 1, 192, 128, 65, 1, 192, 128, 65, 0, 193, 129, 64>>,
    <<1, 192, 128, 65, 0, 193, 129, 64, 0, 193, 129, 64, 1, 192, 128, 65>>,
    <<1, 192, 128, 65, 0, 193, 129, 64, 0, 193, 129, 64, 1, 192, 128, 65>>,
    <<0, 193, 129, 64, 1, 192, 128, 65, 1, 192, 128, 65, 0, 193, 129, 64>>,
    <<1, 192, 128, 65, 0, 193, 129, 64, 0, 193, 129, 64, 1, 192, 128, 65>>,
    <<0, 193, 129, 64, 1, 192, 128, 65, 1, 192, 128, 65, 0, 193, 129, 64>>,
    <<0, 193, 129, 64, 1, 192, 128, 65, 1, 192, 128, 65, 0, 193, 129, 64>>,
    <<1, 192, 128, 65, 0, 193, 129, 64, 0, 193, 129, 64, 1, 192, 128, 65>>,
    <<1, 192, 128, 65, 0, 193, 129, 64, 0, 193, 129, 64, 1, 192, 128, 65>>,
    <<0, 193, 129, 64, 1, 192, 128, 65, 1, 192, 128, 65, 0, 193, 129, 64>>,
    <<0, 193, 129, 64, 1, 192, 128, 65, 1, 192, 128, 65, 0, 193, 129, 64>>,
    <<1, 192, 128, 65, 0, 193, 129, 64, 0, 193, 129, 64, 1, 192, 128, 65>>,
    <<0, 193, 129, 64, 1, 192, 128, 65, 1, 192, 128, 65, 0, 193, 129, 64>>,
    <<1, 192, 128, 65, 0, 193, 129, 64, 0, 193, 129, 64, 1, 192, 128, 65>>,
    <<1, 192, 128, 65, 0, 193, 129, 64, 0, 193, 129, 64, 1, 192, 128, 65>>,
    <<0, 193, 129, 64, 1, 192, 128, 65, 1, 192, 128, 65, 0, 193, 129, 64>> >>

table_crc_lo == <<
    <<0, 192, 193, 1, 195, 3, 2, 194, 198, 6, 7, 199, 5, 197, 196, 4>>,
    <<204, 12, 13, 205, 15, 207, 206, 14, 10, 202, 203, 11, 201, 9, 8, 200>>,
    <<216, 24, 25, 217, 27, 219, 218, 26, 30, 222, 223, 31, 221, 29, 28, 220>>,
    <<20, 212, 213, 21, 215, 23, 22, 214, 210, 18, 19, 211, 17, 209, 208, 16>>,
    <<240, 48, 49, 241, 51, 243, 242, 50, 54, 246, 247, 55, 245, 53, 52, 244>>,
    <<60, 252, 253, 61, 255, 63, 62, 254, 250, 58, 59, 251, 57, 249, 248, 56>>,
    <<40, 232, 233, 41, 235, 43, 42, 234, 238, 46, 47, 239, 45, 237, 236, 44>>,
    <<228, 36, 37, 229, 39, 231, 230, 38, 34, 226, 227, 35, 225, 33, 32, 224>>,
    <<160, 96, 97, 161, 99, 163, 162, 98, 102, 166, 167, 103, 165, 101, 100, 164>>,
    <<108, 172, 173, 109, 175, 111, 110, 174, 170, 106, 107, 171, 105, 169, 168, 104>>,
    <<120, 184, 185, 121, 187, 123, 122, 186, 190, 126, 127, 191, 125, 189, 188, 124>>,
    <<180, 116, 117, 181, 119, 183, 182, 118, 114, 178, 179, 115, 177, 113, 112, 176>>,
    <<80, 144, 145, 81, 147, 83, 82, 146, 150, 86, 87, 151, 85, 149, 148, 84>>,
    <<156, 92, 93, 157, 95, 159, 158, 94, 90, 154, 155, 91, 153, 89, 88, 152>>,
    <<136, 72, 73, 137, 75, 139, 138, 74, 78, 142, 143, 79, 141, 77, 76, 140>>,
    <<68, 132, 133, 69, 135, 71, 70, 134, 130, 66, 67, 131, 65, 129, 128, 64>> >>

\* The number that four bits of a byte make.
Nibble(byte, k) ==
    (IF k \in byte THEN 1 ELSE 0) + (IF k + 1 \in byte THEN 2 ELSE 0)
    + (IF k + 2 \in byte THEN 4 ELSE 0) + (IF k + 3 \in byte THEN 8 ELSE 0)

BitsOf(number) == {k \in 0 .. 7 : (number \div 2 ^ k) % 2 = 1}

\* What a table has for an index.
Entry(table, i) == BitsOf(table[Nibble(i, 4) + 1][Nibble(i, 0) + 1])

-----------------------------------------------------------------------------
\* A byte more.
crc_byte(crc, byte) ==
    LET i == SymDiff(crc.hi, byte)
    IN  [hi |-> SymDiff(crc.lo, Entry(table_crc_hi, i)), lo |-> Entry(table_crc_lo, i)]

\* The two bytes of the sum after each byte of the buffer.
crc_after(first, buffer) ==
    LET crc[n \in 0 .. Len(buffer)] ==
            IF n = 0 THEN [hi |-> first, lo |-> first] ELSE crc_byte(crc[n - 1], buffer[n])
    IN  crc

\* Mutant: the sum starts with zeroes.
crc16_FromZero(buffer) == crc_after({}, buffer)[Len(buffer)]

crc16(buffer) == crc_after(0 .. 7, buffer)[Len(buffer)]

\* _modbus_rtu_send_msg_pre
send_msg_pre(req) == req \o <<crc16(req).hi, crc16(req).lo>>

crc_received(frame) == [hi |-> frame[Len(frame) - 1], lo |-> frame[Len(frame)]]

\* Mutant: only the last byte is compared.
check_integrity_LastByte(frame) ==
    CASE frame[1] \notin {Slave, {}} -> 0
      [] crc16(SubSeq(frame, 1, Len(frame) - 2)).lo = frame[Len(frame)] -> Len(frame)
      [] OTHER -> -1

\* _modbus_rtu_check_integrity: a frame for another slave is not looked at.
check_integrity(frame) ==
    IF frame[1] \notin {Slave, {}} THEN 0
    ELSE IF crc16(SubSeq(frame, 1, Len(frame) - 2)) = crc_received(frame) THEN Len(frame)
    ELSE -1

-----------------------------------------------------------------------------
(***************************************************************************)
(* A message is sent, and damaged on its way.                              *)
(***************************************************************************)
InitCrc == msg = <<>> /\ flipped = {}

Send(m) ==
    /\ msg = <<>>
    /\ msg' = m
    /\ UNCHANGED flipped

Damage(bit) ==
    /\ msg \in Damaged /\ Cardinality(flipped) < MaxDamage
    /\ \A b \in flipped : b < bit
    /\ flipped' = flipped \cup {bit}
    /\ UNCHANGED msg

NextCrc ==
    \/ \E m \in Messages : Send(m)
    \/ \E bit \in 0 .. 8 * (Len(msg) + 2) - 1 : Damage(bit)

SpecCrc == InitCrc /\ [][NextCrc]_crc_vars

\* What the receiver hears.
Received ==
    LET sent == send_msg_pre(msg)
    IN  [i \in 1 .. Len(sent) |->
            SymDiff(sent[i], {k \in 0 .. 7 : 8 * (i - 1) + k \in flipped})]

-----------------------------------------------------------------------------
(***************************************************************************)
(* Properties.                                                             *)
(***************************************************************************)
\* A shift to the right and, when a bit falls out, the polynomial 40961.
Shift(x) == SymDiff({k - 1 : k \in x \ {0}}, IF 0 \in x THEN {0, 13, 15} ELSE {})

FourShifts(x) == Shift(Shift(Shift(Shift(x))))

\* The checksum as Modbus defines it: from 65535, for each bit of the message
\* the least significant first, a shift.
Reference ==
    LET sum[n \in 0 .. Len(msg)] ==
            IF n = 0 THEN 0 .. 15 ELSE FourShifts(FourShifts(SymDiff(sum[n - 1], msg[n])))
    IN  sum[Len(msg)]

\* The two tables and the loop over them compute the checksum of the Modbus
\* protocol, whose low byte travels first, so that other devices accept the
\* frames.
ChecksumOfModbus ==
    crc16(msg) = [hi |-> Reference \cap (0 .. 7), lo |-> {k \in 0 .. 7 : k + 8 \in Reference}]

\* The receiver takes a frame for itself or for everyone exactly when nothing
\* in it is damaged, checksum included, and never takes one for another slave.
OnlyIntact ==
    msg # <<>> =>
        LET frame == Received
        IN  check_integrity(frame) = Len(frame) <=> flipped = {} /\ msg[1] \in {Slave, {}}
=============================================================================
