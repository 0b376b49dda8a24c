------------------------------ MODULE ModbusBits ------------------------------
(***************************************************************************)
(* Bits in the bytes of a message: packed by modbus_write_bits (client)    *)
(* and response_io_status (server), unpacked by modbus_set_bits_from_bytes *)
(* (server) and read_io_status (client), in modbus.c and modbus-data.c.    *)
(*                                                                         *)
(* A client writes bits and reads bits, every message packed by its sender *)
(* and unpacked by its receiver.                                           *)
(***************************************************************************)
EXTENDS Integers, Sequences, SequencesExt, FiniteSetsExt

CONSTANTS
    NbBits,     \* bits the server has
    MaxBits     \* the most bits of one call

ASSUME BitsAssumption == NbBits \in Nat /\ MaxBits \in Nat

VARIABLES
    tab_bits,   \* the bits of the server
    sent,       \* the last write: its address and bits
    dest        \* the last read: its address and number, and the bits returned

bits_vars == <<tab_bits, sent, dest>>

InitBits ==
    /\ \E b \in {0, 1} : tab_bits = [i \in 0 .. NbBits - 1 |-> b]
    /\ sent = [address |-> 0, bits |-> <<>>]
    /\ dest = [address |-> 0, nb |-> 0, bits |-> <<>>]

BytesFor(nb) == (nb \div 8) + (IF nb % 8 # 0 THEN 1 ELSE 0)

\* The bit 1 << k of a byte.
Bit(byte, k) == (byte \div 2 ^ k) % 2

-----------------------------------------------------------------------------
(***************************************************************************)
(* Packing.                                                                *)
(***************************************************************************)
\* modbus_write_bits: byte by byte, each from the next (at most) eight bits.
write_bits(src) ==
    [i \in 1 .. BytesFor(Len(src)) |->
        MapThenSumSet(LAMBDA k : IF src[8 * (i - 1) + k + 1] # 0 THEN 2 ^ k ELSE 0,
                      {k \in 0 .. 7 : 8 * (i - 1) + k < Len(src)})]

\* One bit more in response_io_status: a byte is stored when it is full.
AddBit(acc, b) ==
    LET byte == acc.byte + b * 2 ^ acc.shift
    IN  IF acc.shift = 7 THEN [rsp |-> Append(acc.rsp, byte), byte |-> 0, shift |-> 0]
                         ELSE [rsp |-> acc.rsp, byte |-> byte, shift |-> acc.shift + 1]

\* Mutant: a byte that is not full is not stored.
response_io_status_FullOnly(address, nb) ==
    FoldLeft(AddBit, [rsp |-> <<>>, byte |-> 0, shift |-> 0],
             [k \in 1 .. nb |-> tab_bits[address + k - 1]]).rsp

\* What is left after the last bit is stored as well.
response_io_status(address, nb) ==
    LET all == FoldLeft(AddBit, [rsp |-> <<>>, byte |-> 0, shift |-> 0],
                        [k \in 1 .. nb |-> tab_bits[address + k - 1]])
    IN  IF all.shift # 0 THEN Append(all.rsp, all.byte) ELSE all.rsp

\* modbus_get_byte_from_bits, of at most eight bits.
get_byte_from_bits(index, nb_bits) ==
    MapThenSumSet(LAMBDA k : tab_bits[index + k] * 2 ^ k, 0 .. nb_bits - 1)

-----------------------------------------------------------------------------
(***************************************************************************)
(* Unpacking.                                                              *)
(***************************************************************************)
\* Mutant: the position in the byte is that of the bit in the table.
set_bits_from_bytes_Aligned(index, nb_bits, tab_byte) ==
    [i \in DOMAIN tab_bits |->
        IF i \in index .. index + nb_bits - 1
          THEN Bit(tab_byte[(i - index) \div 8 + 1], i % 8) ELSE tab_bits[i]]

\* modbus_set_bits_from_bytes, with a byte per eight bits from index on.
set_bits_from_bytes(index, nb_bits, tab_byte) ==
    [i \in DOMAIN tab_bits |->
        IF i \in index .. index + nb_bits - 1
          THEN Bit(tab_byte[(i - index) \div 8 + 1], (i - index) % 8) ELSE tab_bits[i]]

\* modbus_set_bits_from_byte
set_bits_from_byte(index, value) ==
    [i \in DOMAIN tab_bits |->
        IF i \in index .. index + 7 THEN Bit(value, i - index) ELSE tab_bits[i]]

\* Mutant: the bits that fill the last byte are taken for values.
read_io_status_Whole(rsp, nb) ==
    [pos \in 1 .. 8 * Len(rsp) |-> Bit(rsp[(pos - 1) \div 8 + 1], (pos - 1) % 8)]

\* read_io_status, from the bytes of the answer.
read_io_status(rsp, nb) ==
    [pos \in 1 .. Min({nb, 8 * Len(rsp)}) |->
        Bit(rsp[(pos - 1) \div 8 + 1], (pos - 1) % 8)]

-----------------------------------------------------------------------------
\* One write, then one read.
WriteBits(address, src) ==
    /\ address + Len(src) <= NbBits
    /\ tab_bits' = set_bits_from_bytes(address, Len(src), write_bits(src))
    /\ sent' = [address |-> address, bits |-> src]
    /\ UNCHANGED dest

\* The server program stores a byte of its own.
SetByte(index, value) ==
    /\ index + 8 <= NbBits
    /\ tab_bits' = set_bits_from_byte(index, value)
    /\ sent' = [address |-> index, bits |-> [k \in 1 .. 8 |-> Bit(value, k - 1)]]
    /\ UNCHANGED dest

ReadBits(address, nb) ==
    /\ sent.bits # <<>> /\ dest.nb = 0 /\ address + nb <= NbBits
    /\ dest' = [address |-> address, nb |-> nb,
                bits |-> read_io_status(response_io_status(address, nb), nb)]
    /\ UNCHANGED <<tab_bits, sent>>

NextBits ==
    \/ /\ sent.bits = <<>>
       /\ \E address \in 0 .. NbBits, nb \in 1 .. MaxBits :
             \E src \in [1 .. nb -> {0, 1}] : WriteBits(address, src)
    \/ /\ sent.bits = <<>>
       /\ \E index \in 0 .. NbBits, value \in 0 .. 255 : SetByte(index, value)
    \/ \E nb \in 1 .. MaxBits, address \in 0 .. NbBits : ReadBits(address, nb)

SpecBits == InitBits /\ [][NextBits]_bits_vars

-----------------------------------------------------------------------------
(***************************************************************************)
(* Properties.                                                             *)
(***************************************************************************)
\* The bits sent are the bits of the table from their address on, whatever the
\* address and number are modulo eight; the others are as they were.
Stored ==
    \E b \in {0, 1} : tab_bits =
        [i \in 0 .. NbBits - 1 |->
            IF i \in sent.address .. sent.address + Len(sent.bits) - 1
              THEN sent.bits[i - sent.address + 1] ELSE b]

\* A read of any range returns the bits of the range, as many as were asked for.
ReadBack ==
    dest.bits = [k \in 1 .. dest.nb |-> tab_bits[dest.address + k - 1]]

\* Client and server, and the helper for one byte, pack the same bits into the
\* same bytes.
PackAlike ==
    LET nb == Len(sent.bits)
    IN  dest.nb = 0 =>
        /\ response_io_status(sent.address, nb) = write_bits(sent.bits)
        /\ nb \in 1 .. 8 =>
              write_bits(sent.bits) = <<get_byte_from_bits(sent.address, nb)>>
=============================================================================
