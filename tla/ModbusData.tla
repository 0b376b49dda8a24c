------------------------------ MODULE ModbusData ------------------------------
(***************************************************************************)
(* How values get into registers and back: the typed reads and writes of   *)
(* ModbusDevice.swift over modbus_write_registers and modbus_read_registers*)
(* (modbus.c), and the float helpers of modbus-data.c.                     *)
(*                                                                         *)
(* Memory is a function from offsets to bytes.  The host keeps numbers     *)
(* least significant byte first (every platform of the package); a         *)
(* register travels most significant byte first.  A value of a type of w   *)
(* bytes is the w bytes it has in the host's memory.                       *)
(***************************************************************************)
EXTENDS Integers, Sequences

CONSTANTS
    Widths,      \* the sizes of the types used, in bytes
    MaxCount,    \* the most values in one call
    Size,        \* the registers of the remote device
    Strings      \* the strings written, as sequences of characters

ASSUME DataAssumption ==
    /\ Widths \subseteq {1, 2, 4, 8, 16}
    /\ MaxCount \in Nat /\ Size \in Nat
    /\ Strings \subseteq Seq(Nat)

VARIABLES
    registers,   \* the registers of the device, two bytes each, as they travel
    written,     \* the last write
    result       \* the last read

vars == <<registers, written, result>>

Endianness == {"bigEndian", "littleEndian"}
Nothing == [op |-> "none"]

Init ==
    /\ registers = [i \in 0 .. 2 * Size - 1 |-> 255]
    /\ written = Nothing
    /\ result = Nothing

-----------------------------------------------------------------------------
(***************************************************************************)
(* Conversions.                                                            *)
(***************************************************************************)
WordCount(w, count) == (8 * w * count + 15) \div 16

\* The place opposite to i in its group of w bytes.
Mirror(w, i) == i - (i % w) + (w - 1 - (i % w))

\* Swaps the bytes of each of the first `count' values of w bytes.
convertBigEndian(mem, w, count) ==
    [i \in DOMAIN mem |-> IF i < w * count THEN mem[Mirror(w, i)] ELSE mem[i]]

\* modbus_write_registers sends the high byte of each number first, and
\* modbus_read_registers puts the two together again.
Wire(mem) == [i \in DOMAIN mem |-> mem[Mirror(2, i)]]

\* Mutant: the words are left as the host has them.
ToRegisters_ElementsOnly(bytes, w, count, e) ==
    LET words  == WordCount(w, count)
        filled == [i \in 0 .. 2 * words - 1 |-> IF i < w * count THEN bytes[i] ELSE 0]
    IN  Wire(IF e = "bigEndian" THEN convertBigEndian(filled, w, count) ELSE filled)

\* What writeRegisters puts on the wire.  The last word is zero before the
\* values are copied in, for the values may not fill it.
ToRegisters(bytes, w, count, e) ==
    LET words  == WordCount(w, count)
        filled == [i \in 0 .. 2 * words - 1 |-> IF i < w * count THEN bytes[i] ELSE 0]
    IN  Wire(IF e = "bigEndian"
               THEN convertBigEndian(convertBigEndian(filled, w, count), 2, words)
               ELSE filled)

\* Mutant: the values are left as the words lie in memory.
FromRegisters_WordsOnly(wire, w, count, e) ==
    LET mem == IF e = "bigEndian"
                 THEN convertBigEndian(Wire(wire), 2, WordCount(w, count)) ELSE Wire(wire)
    IN  [i \in 0 .. w * count - 1 |-> mem[i]]

\* What readRegisters makes of the words it gets.
FromRegisters(wire, w, count, e) ==
    LET words == WordCount(w, count)
        mem   == IF e = "bigEndian"
                   THEN convertBigEndian(convertBigEndian(Wire(wire), 2, words), w, count)
                   ELSE Wire(wire)
    IN  [i \in 0 .. w * count - 1 |-> mem[i]]

-----------------------------------------------------------------------------
(***************************************************************************)
(* Calls, to a device that stores what it gets: one write, then one read.  *)
(***************************************************************************)
Put(at, wire) ==
    registers' = [i \in DOMAIN registers |->
                    IF i - 2 * at \in DOMAIN wire THEN wire[i - 2 * at] ELSE registers[i]]

Taken(at, words) == [i \in 0 .. 2 * words - 1 |-> registers[2 * at + i]]

\* The bytes of a write: different from each other, so that no two can be
\* mistaken; nothing looks at their values.
Bytes(n) == [i \in 0 .. n - 1 |-> i + 1]

\* No values: nothing is sent.
writeRegisters(at, w, count, e) ==
    /\ written = Nothing /\ at + WordCount(w, count) <= Size
    /\ Put(at, ToRegisters(Bytes(w * count), w, count, e))
    /\ written' = [op |-> "values", at |-> at, w |-> w, count |-> count, e |-> e,
                   bytes |-> Bytes(w * count)]
    /\ result' = Nothing

\* Both functions readRegisters, for integers and for floating point.
readRegisters(at, w, count, e) ==
    LET words == WordCount(w, count)
    IN  /\ result = Nothing /\ at + words <= Size
        /\ result' = [op |-> "values", at |-> at, w |-> w, count |-> count, e |-> e,
                      bytes |-> FromRegisters(Taken(at, words), w, count, e)]
        /\ UNCHANGED <<registers, written>>

\* The first register is the low half.
modbus_get_float(wire) == [i \in 0 .. 3 |-> Wire(wire)[i]]

modbus_set_float(bytes) == Wire(bytes)

\* A C program writes a float, or reads one: for the properties, littleEndian.
setFloat(at) ==
    /\ written = Nothing /\ at + 2 <= Size
    /\ Put(at, modbus_set_float(Bytes(4)))
    /\ written' = [op |-> "values", at |-> at, w |-> 4, count |-> 1,
                   e |-> "littleEndian", bytes |-> Bytes(4)]
    /\ result' = Nothing

getFloat(at) ==
    /\ result = Nothing /\ at + 2 <= Size
    /\ result' = [op |-> "values", at |-> at, w |-> 4, count |-> 1,
                  e |-> "littleEndian", bytes |-> modbus_get_float(Taken(at, 2))]
    /\ UNCHANGED <<registers, written>>

-----------------------------------------------------------------------------
(***************************************************************************)
(* Strings.  A character is its code; a carriage return and line feed are  *)
(* one character of Swift, with the value of the line feed.                *)
(***************************************************************************)
LF == 10
CRLF == 1310
asciiValue(ch) == IF ch = CRLF THEN LF ELSE IF ch < 128 THEN ch ELSE 0

\* Mutant: characters that are not ASCII are left out of the array.
writeASCIIString_Skip(at, count, string, e) ==
    LET ascii == SelectSeq(string, LAMBDA ch : asciiValue(ch) # 0)
        values == [i \in 0 .. count - 1 |-> IF i < Len(ascii) THEN asciiValue(ascii[i + 1]) ELSE 0]
    IN  /\ written = Nothing
        /\ Len(string) <= count /\ at + WordCount(1, count) <= Size
        /\ Put(at, ToRegisters(values, 1, count, e))
        /\ written' = [op |-> "string", at |-> at, count |-> count, e |-> e,
                       string |-> string]
        /\ result' = Nothing

\* A string longer than `count' stops the program (an array index out of range).
writeASCIIString(at, count, string, e) ==
    LET values == [i \in 0 .. count - 1 |->
                      IF i < Len(string) THEN asciiValue(string[i + 1]) ELSE 0]
    IN  /\ written = Nothing
        /\ Len(string) <= count /\ at + WordCount(1, count) <= Size
        /\ Put(at, ToRegisters(values, 1, count, e))
        /\ written' = [op |-> "string", at |-> at, count |-> count, e |-> e,
                       string |-> string]
        /\ result' = Nothing

\* The characters before the first zero.
readASCIIString(at, count, e) ==
    LET words  == WordCount(1, count)
        values == FromRegisters(Taken(at, words), 1, count, e)
        length == CHOOSE n \in 0 .. count :
                     /\ \A i \in 0 .. n - 1 : values[i] # 0
                     /\ n < count => values[n] = 0
    IN  /\ result = Nothing /\ at + words <= Size
        /\ result' = [op |-> "string", at |-> at, count |-> count, e |-> e,
                      string |-> [i \in 1 .. length |-> values[i - 1]]]
        /\ UNCHANGED <<registers, written>>

Next ==
    \E at \in 0 .. Size, e \in Endianness :
        \/ \E w \in Widths, count \in 0 .. MaxCount : writeRegisters(at, w, count, e)
        \/ \E w \in Widths, count \in 1 .. MaxCount : readRegisters(at, w, count, e)
        \/ setFloat(at) \/ getFloat(at)
        \/ \E count \in 0 .. MaxCount, string \in Strings :
              writeASCIIString(at, count, string, e)
        \/ \E count \in 1 .. MaxCount : readASCIIString(at, count, e)

Spec == Init /\ [][Next]_vars

-----------------------------------------------------------------------------
(***************************************************************************)
(* Properties.                                                             *)
(***************************************************************************)
\* A write with bigEndian leaves in the registers, read from left to right, the
\* values in their order, each with its most significant byte first, as every
\* other Modbus implementation expects it; what is left of the last register
\* is zero.
NetworkOrder ==
    (written.op = "values" /\ written.e = "bigEndian") =>
        /\ \A k \in 0 .. written.count - 1, j \in 0 .. written.w - 1 :
              registers[2 * written.at + k * written.w + j]
                = written.bytes[k * written.w + (written.w - 1 - j)]
        /\ (written.w * written.count) % 2 = 1 =>
              registers[2 * written.at + written.w * written.count] = 0

\* The last read took what the last write wrote.
SameCall ==
    /\ written.op = result.op /\ written.at = result.at
    /\ written.e = result.e /\ written.count = result.count

\* What has been written is read back by a read of the same type and byte order;
\* the floats of modbus-data.c are those that Swift reads and writes as
\* littleEndian.
RoundTrip ==
    (/\ written.op = "values" /\ result.op = "values"
     /\ SameCall /\ written.w = result.w) => result.bytes = written.bytes

\* A string is read back as it was written up to the first character that is
\* not ASCII (or is NUL), and nothing after that; a CR LF comes back as LF.
StringBack ==
    (written.op = "string" /\ result.op = "string" /\ SameCall) =>
        /\ Len(result.string) <= Len(written.string)
        /\ \A i \in 1 .. Len(result.string) :
              result.string[i] = IF written.string[i] = CRLF THEN LF ELSE written.string[i]
        /\ Len(result.string) < Len(written.string) =>
              asciiValue(written.string[Len(result.string) + 1]) = 0
=============================================================================
