---------------------------- MODULE MCConversions -----------------------------
(***************************************************************************)
(* Instances of the modules about the contents of messages for TLC: the    *)
(* values of ModbusData, the bits of ModbusBits and the checksum of        *)
(* ModbusCrc.  Nothing connects the three, so one is looked at while the   *)
(* others are in their initial states.                                     *)
(***************************************************************************)
EXTENDS ModbusData, ModbusBits, ModbusCrc

\* Strings of up to two of a letter, a line end, a NUL and a character that is
\* not ASCII.
MCStrings == BoundedSeq({65, CRLF, 0, 233}, 2)

\* The shortest request, report slave id, for everyone, for the slave and for
\* another one; the checksum of the sum of two messages is the sum of theirs, so
\* that one stands for all of its length.
MCDamaged == {<<BitsOf(slave), BitsOf(17)>> : slave \in {0, 1, 3}}

\* With these, all messages of one byte, which meet every entry of the tables,
\* and some of two, which meet every entry with another sum before it.
MCMessages == MCDamaged \cup {<<byte>> : byte \in Byte}
                        \cup {<<BitsOf(first), byte>> : first \in {0, 170}, byte \in Byte}

MCSlave == BitsOf(1)

MCInit == Init /\ InitBits /\ InitCrc

MCNext ==
    \/ /\ InitBits /\ tab_bits[0] = 0 /\ InitCrc
       /\ Next /\ UNCHANGED <<bits_vars, crc_vars>>
    \/ /\ Init /\ InitCrc
       /\ NextBits /\ UNCHANGED <<vars, crc_vars>>
    \/ /\ Init /\ InitBits /\ tab_bits[0] = 0
       /\ NextCrc /\ UNCHANGED <<vars, bits_vars>>

MCSpec == MCInit /\ [][MCNext]_<<vars, bits_vars, crc_vars>>
=============================================================================
